------------------------------- MODULE Atoms -------------------------------
(* What tasks on several workers share without a lock: an atom with its       *)
(* watchers (builtins.c, and the code the compiler emits for swap, reset and  *)
(* the firing of watchers), and the runtime's global maps, replaced whole by  *)
(* compare-and-swap (the module globals, the signatures of procs, the files   *)
(* of the in-memory filesystem).  One step per access to a shared word.  What  *)
(* swap's closure computes is recorded: it adds the swap to what it was given, *)
(* so that an update that is lost or applied twice shows.                      *)
EXTENDS Integers, Sequences, SequencesExt, FiniteSets

CONSTANTS
  AtomTasks,      \* tasks, each on a worker of its own
  AtomKeys,       \* keys of watchers
  AtomNames,      \* keys of the global maps
  AtomLost,       \* those that are paths of a directory that is not there
  AtomCalls       \* bound: calls of each task

ASSUME AtomAssumption == AtomCalls \in Nat /\ AtomLost \subseteq AtomNames

VARIABLES
  aSlot,       \* the value of the atom: the updates it holds, in order
  aWatchers,   \* its list of keys, in the order of registration; made = 0: nil
  aRoots,      \* each global map, with the number of times it was replaced
  acalls,     \* calls each task has made
  aAt,         \* where each task is in its call
  aKept,       \* history: the commits since the last reset, in order
  aWanted,     \* history: what each map should hold, and the watchers
  aRaced       \* history: two calls of watch or unwatch overlapped

atomVars == <<aSlot, aWatchers, aRoots, acalls, aAt, aKept, aWanted, aRaced>>

Maps == {"globals", "sigs", "vfs"}
NoFile == <<>>
AtRest == [pc |-> "idle"]

AtomInit ==
  /\ aSlot = <<>> /\ aWatchers = [made |-> 0, keys |-> <<>>]
  /\ aRoots = [m \in Maps |-> [ver |-> 0, map |-> [n \in AtomNames |-> NoFile]]]
  /\ acalls = [t \in AtomTasks |-> 0]
  /\ aAt = [t \in AtomTasks |-> AtRest]
  /\ aKept = <<>>
  /\ aWanted = [maps |-> [m \in Maps |-> [n \in AtomNames |-> NoFile]], keys |-> {}]
  /\ aRaced = FALSE

\* The token of task t's present call.
Token(t) == <<t, acalls[t]>>

Goes(t, rec) == aAt' = [aAt EXCEPT ![t] = rec]
Begins(t) == aAt[t].pc = "idle" /\ acalls[t] < AtomCalls
Calls(t) == acalls' = [acalls EXCEPT ![t] = @ + 1]

--------------------------------------------------------------------------
(* The atom. *)

\* [swap $ref $f]: a new attempt reads the value f will be applied to.
SwapBegin(t) ==
  /\ Begins(t) /\ Calls(t)
  /\ Goes(t, [pc |-> "swapGet"])
  /\ UNCHANGED <<aSlot, aWatchers, aRoots, aKept, aWanted, aRaced>>

SwapGet(t) ==
  /\ aAt[t].pc = "swapGet"
  /\ Goes(t, [pc |-> "swapCas", cur |-> aSlot])
  /\ UNCHANGED <<aSlot, aWatchers, aRoots, acalls, aKept, aWanted, aRaced>>

MutBoxCas(b, cur) == TRUE

\* Whether jacl_box_cas stores: the atom still holds the value that was read.
jacl_box_cas(b, cur) == b = cur

\* f's result is stored if nobody committed since; else read and apply again.
SwapCas(t) ==
  /\ aAt[t].pc = "swapCas"
  /\ LET cur == aAt[t].cur
         nv == Append(cur, Token(t))
     IN IF jacl_box_cas(aSlot, cur)
        THEN /\ aSlot' = nv /\ aKept' = Append(aKept, Token(t))
             /\ Goes(t, [pc |-> "fire", due |-> ToSet(aWatchers.keys)])
        ELSE /\ Goes(t, [pc |-> "swapGet"]) /\ UNCHANGED <<aSlot, aKept>>
  /\ UNCHANGED <<aWatchers, aRoots, acalls, aWanted, aRaced>>

\* [reset $ref V]: the old value is read for the watchers, then V is stored.
ResetGet(t) ==
  /\ Begins(t) /\ Calls(t)
  /\ Goes(t, [pc |-> "resetSet"])
  /\ UNCHANGED <<aSlot, aWatchers, aRoots, aKept, aWanted, aRaced>>

ResetSet(t) ==
  /\ aAt[t].pc = "resetSet"
  /\ aSlot' = <<Token(t)>> /\ aKept' = <<Token(t)>>
  /\ Goes(t, [pc |-> "fire", due |-> ToSet(aWatchers.keys)])
  /\ UNCHANGED <<aWatchers, aRoots, acalls, aWanted, aRaced>>

\* emit_fire_watchers: the list is read once, the callbacks run in its order.
\* due is a history: the watchers there at the commit and not removed since.
FireRead(t) ==
  /\ aAt[t].pc = "fire"
  /\ Goes(t, [pc |-> "firing", due |-> aAt[t].due, left |-> aWatchers.keys, got |-> {}])
  /\ UNCHANGED <<aSlot, aWatchers, aRoots, acalls, aKept, aWanted, aRaced>>

FireOne(t) ==
  /\ aAt[t].pc = "firing"
  /\ Goes(t, IF aAt[t].left = <<>> THEN AtRest
              ELSE [aAt[t] EXCEPT !.left = Tail(@), !.got = @ \cup {Head(aAt[t].left)}])
  /\ UNCHANGED <<aSlot, aWatchers, aRoots, acalls, aKept, aWanted, aRaced>>

MutWatched(w, k) == <<k>> \o w

\* jacl_watch: a key already there keeps its place.
Watched(w, k) == IF Contains(w, k) THEN w ELSE Append(w, k)
\* jacl_unwatch builds the list again without the key, which is there once at most.
Unwatched(w, k) == IF Contains(w, k) THEN RemoveAt(w, CHOOSE i \in DOMAIN w : w[i] = k) ELSE w

\* jacl_unwatch returns at once if nothing was ever watched.
WatchRead(t, k, how) ==
  /\ Begins(t) /\ Calls(t)
  /\ Goes(t, IF how = "unwatch" /\ aWatchers.made = 0 THEN AtRest
             ELSE [pc |-> "watchSet", w |-> aWatchers.keys, k |-> k, how |-> how])
  /\ UNCHANGED <<aSlot, aWatchers, aRoots, aKept, aWanted, aRaced>>

\* The list that t's call of watch or unwatch stores.
NewList(t) == IF aAt[t].how = "watch" THEN Watched(aAt[t].w, aAt[t].k) ELSE Unwatched(aAt[t].w, aAt[t].k)

WatchSet(t) ==
  /\ aAt[t].pc = "watchSet"
  /\ aWatchers' = [made |-> 1, keys |-> NewList(t)]
  /\ aWanted' = [aWanted EXCEPT !.keys = IF aAt[t].how = "watch" THEN @ \cup {aAt[t].k} ELSE @ \ {aAt[t].k}]
  /\ aRaced' = (aRaced \/ aWatchers.keys # aAt[t].w)
  /\ aAt' = [u \in AtomTasks |->
       IF u = t THEN AtRest
       ELSE IF aAt[u].pc \in {"fire", "firing"} THEN [aAt[u] EXCEPT !.due = @ \cap ToSet(NewList(t))]
       ELSE aAt[u]]
  /\ UNCHANGED <<aSlot, aRoots, acalls, aKept>>

--------------------------------------------------------------------------
(* The global maps. *)

\* The calls that replace a root; register and forget look first.
MapOps ==
  {[m |-> "globals", how |-> "set"], [m |-> "sigs", how |-> "register"],
   [m |-> "sigs", how |-> "forget"], [m |-> "vfs", how |-> "set"],
   [m |-> "vfs", how |-> "append"], [m |-> "vfs", how |-> "forget"]}

\* The map that a call makes of map: jacl_global_set and jacl_write_file,
\* jacl_append_file, jacl_proc_sig_register, jacl_proc_sig_forget and
\* jacl_delete_file.
Applied(map, how, n, v) ==
  CASE how = "set" -> [map EXCEPT ![n] = <<v>>]
    [] how = "append" -> [map EXCEPT ![n] = Append(@, v)]
    [] how = "register" -> IF map[n] = NoFile THEN [map EXCEPT ![n] = <<v>>] ELSE map
    [] how = "forget" -> [map EXCEPT ![n] = NoFile]

MutSkips(map, op, n) == op.how = "forget" /\ map[n] = NoFile

\* Calls that leave the map alone return without replacing it: the name is
\* registered already, or not there, or a new file has no directory (write-file
\* asks that of an old one too).
Skips(map, op, n) ==
  \/ op.how = "register" /\ map[n] # NoFile
  \/ op.how = "forget" /\ map[n] = NoFile
  \/ op.m = "vfs" /\ n \in AtomLost /\ (op.how = "set" \/ map[n] = NoFile)

RootBegin(t, op, n) ==
  /\ Begins(t) /\ Calls(t)
  /\ Goes(t, [pc |-> "rootPeek", op |-> op, n |-> n])
  /\ UNCHANGED <<aSlot, aWatchers, aRoots, aKept, aWanted, aRaced>>

\* jacl_root_peek, and what the map it finds makes of the call.
RootPeek(t) ==
  /\ aAt[t].pc = "rootPeek"
  /\ LET seen == aRoots[aAt[t].op.m]
     IN Goes(t, IF Skips(seen.map, aAt[t].op, aAt[t].n) THEN AtRest
                ELSE [pc |-> "rootSwap", op |-> aAt[t].op, n |-> aAt[t].n, seen |-> seen])
  /\ UNCHANGED <<aSlot, aWatchers, aRoots, acalls, aKept, aWanted, aRaced>>

MutRootReplace(r, seen) == TRUE

\* jacl_root_replace succeeds against the root the new map was built from; a
\* map is told from others by its address, here by its version.
jacl_root_replace(r, seen) == r.ver = seen.ver

\* The map that t's call built takes the root's place, or t tries again.
RootSwap(t) ==
  /\ aAt[t].pc = "rootSwap"
  /\ LET op == aAt[t].op
         seen == aAt[t].seen
     IN IF jacl_root_replace(aRoots[op.m], seen)
        THEN /\ aRoots' = [aRoots EXCEPT ![op.m] =
                  [ver |-> @.ver + 1, map |-> Applied(seen.map, op.how, aAt[t].n, Token(t))]]
             /\ aWanted' = [aWanted EXCEPT !.maps[op.m] = Applied(@, op.how, aAt[t].n, Token(t))]
             /\ Goes(t, AtRest)
        ELSE /\ Goes(t, [pc |-> "rootPeek", op |-> op, n |-> aAt[t].n])
             /\ UNCHANGED <<aRoots, aWanted>>
  /\ UNCHANGED <<aSlot, aWatchers, acalls, aKept, aRaced>>

AtomStep(t) ==
  \/ SwapBegin(t) \/ SwapGet(t) \/ SwapCas(t) \/ ResetGet(t) \/ ResetSet(t)
  \/ FireRead(t) \/ FireOne(t) \/ WatchSet(t) \/ RootPeek(t) \/ RootSwap(t)
  \/ \E k \in AtomKeys, how \in {"watch", "unwatch"} : WatchRead(t, k, how)
  \/ \E op \in MapOps, n \in AtomNames : RootBegin(t, op, n)

AtomNext == \E t \in AtomTasks : AtomStep(t)

AtomSpec == AtomInit /\ [][AtomNext]_atomVars

--------------------------------------------------------------------------
(* Properties. *)

\* What is in the atom, in a list of watchers, in a map, and where a call can be.
Tokens == AtomTasks \X Nat
Contents == [AtomNames -> Seq(Tokens)]
CallStates ==
  [pc : {"idle", "swapGet", "resetSet"}]
  \cup [pc : {"swapCas"}, cur : Seq(Tokens)]
  \cup [pc : {"fire"}, due : SUBSET AtomKeys]
  \cup [pc : {"firing"}, due : SUBSET AtomKeys, left : Seq(AtomKeys), got : SUBSET AtomKeys]
  \cup [pc : {"watchSet"}, w : Seq(AtomKeys), k : AtomKeys, how : {"watch", "unwatch"}]
  \cup [pc : {"rootPeek"}, op : MapOps, n : AtomNames]
  \cup [pc : {"rootSwap"}, op : MapOps, n : AtomNames, seen : [ver : Nat, map : Contents]]

\* The types of the shared words and of what a call keeps.
AtomTypeOK ==
  /\ aSlot \in Seq(Tokens)
  /\ aWatchers \in [made : {0, 1}, keys : Seq(AtomKeys)]
  /\ aRoots \in [Maps -> [ver : Nat, map : Contents]]
  /\ acalls \in [AtomTasks -> Nat]
  /\ aAt \in [AtomTasks -> CallStates]
  /\ aWanted \in [maps : [Maps -> Contents], keys : SUBSET AtomKeys]
  /\ aRaced \in BOOLEAN

\* Every swap that committed since the last reset is in the atom once, in the
\* order of the commits, although its closure may have run several times
\* (codegen.c:5379-5383, builtins.c:723-727).
UpdatesKept == aSlot = aKept

\* A watcher that was there when a commit was made, and is not removed before
\* the callbacks are over, is told of it once, however the lists change
\* meanwhile (codegen.c:2641-2646).
WatchersTold ==
  \A t \in AtomTasks : aAt[t].pc = "firing" =>
    /\ aAt[t].due \subseteq aAt[t].got \cup ToSet(aAt[t].left)
    /\ aAt[t].got \cap ToSet(aAt[t].left) = {} /\ IsInjective(aAt[t].left)

\* The list holds the keys that were registered and not removed, unless two
\* calls of watch or unwatch overlapped: they replace the list without a
\* compare-and-swap, and the later one drops what the earlier one did.
WatchersKept ==
  ~aRaced => ToSet(aWatchers.keys) = aWanted.keys

\* No update of a global map is lost: it holds what the calls, taken in the
\* order of their replacements, make of an empty map; a signature once
\* registered stays until it is forgotten, and a file whose directory is
\* missing never appears (jaclrt.h:245-252).
MapsKept ==
  /\ \A m \in Maps : aRoots[m].map = aWanted.maps[m]
  /\ \A n \in AtomLost : aRoots["vfs"].map[n] = NoFile

\* What a call c that is under way relies on: a map that was read is the root's
\* if the root is the one that was read, it was worth replacing, and the lists
\* that were read or are being told hold no key twice.
CallHolds(c) ==
  /\ c.pc = "rootSwap" =>
       /\ c.seen.ver <= aRoots[c.op.m].ver
       /\ c.seen.ver = aRoots[c.op.m].ver => c.seen.map = aRoots[c.op.m].map
       /\ ~Skips(c.seen.map, c.op, c.n)
  /\ c.pc = "fire" => c.due \subseteq ToSet(aWatchers.keys)
  /\ c.pc = "firing" =>
       /\ c.due \subseteq c.got \cup ToSet(c.left)
       /\ c.got \cap ToSet(c.left) = {} /\ IsInjective(c.left)
  /\ c.pc = "watchSet" => IsInjective(c.w)

\* The invariant every step of swap, reset, watch, unwatch and of the calls on
\* the global maps keeps, and AtomsSound follows from.
AtomInv ==
  /\ AtomTypeOK /\ UpdatesKept /\ WatchersKept /\ MapsKept
  /\ IsInjective(aWatchers.keys)
  /\ \A t \in AtomTasks : CallHolds(aAt[t])

\* Updates of what several workers share are neither lost nor doubled.
AtomsSound == AtomTypeOK /\ UpdatesKept /\ WatchersTold /\ WatchersKept /\ MapsKept
=============================================================================

------------------------------- MODULE GenGc -------------------------------
(***************************************************************************)
(* The tracing side of the compiler's own collector (src/src/gc_collect.c  *)
(* and the barriers of gc.c): major and minor collections of one heap,     *)
(* with a mark bit whose meaning alternates, promotion after two           *)
(* survivals, and a remembered set of old containers.                      *)
(*                                                                         *)
(* An object is a box with one reference, in a cell that is used again     *)
(* after the object was swept.  Blocks and lines are Immix's subject.  The *)
(* code does lose objects that live (LiveSurvives); what a lost object's   *)
(* cell is used for afterwards is not looked at.  The root enumerators and *)
(* the choice of when to collect belong to the collector's callers, which  *)
(* are not in src/: roots are the mutator's own, and a minor collection is *)
(* run when gc_should_major says no.                                       *)
(***************************************************************************)
EXTENDS Integers, FiniteSets

CONSTANTS
  NObjs,    \* cells
  GenAllocs, \* bound: allocations of the run
  MaxCycles \* bound: collections of the run

ASSUME GenAssumption == NObjs \in Nat \ {0} /\ GenAllocs \in Nat /\ MaxCycles \in Nat

VARIABLES
  heap,     \* objects allocated and not swept
  mark, gen, sc,  \* the bits of each GCHeader: mark, generation, survivals
  gref,      \* the reference each object holds, or NoObj
  roots,    \* what the mutator holds
  rset,     \* the remembered set
  cmark,    \* heap->current_mark
  oldBytes, \* heap->old_gen_bytes, an object counting 1
  lastOld,  \* heap->last_major_old_gen_bytes
  cycles,   \* heap->gc_cycle_count
  made,     \* objects allocated so far
  kind,     \* history: the last collection, "none", "major" or "minor"
  condemned \* history: what was garbage when the last major one began

genVars == <<heap, mark, gen, sc, gref, roots, rset, cmark, oldBytes, lastOld, cycles, made, kind, condemned>>

Objs == 1 .. NObjs
NoObj  == 0

GenInit ==
  /\ heap = {} /\ roots = {} /\ rset = {} /\ made = 0
  /\ mark = [o \in Objs |-> 0] /\ gen = [o \in Objs |-> 0] /\ sc = [o \in Objs |-> 0]
  /\ gref = [o \in Objs |-> NoObj]
  /\ cmark = 1 /\ oldBytes = 0 /\ lastOld = 0 /\ cycles = 0
  /\ kind = "none" /\ condemned = {}

-----------------------------------------------------------------------------
(* The mutator *)

\* gc_alloc takes a free cell and stamps a young header with mark bit 0, whatever
\* the current mark is; the constructor stores its reference (no barrier: the
\* object is new).
Alloc(o) ==
  /\ made < GenAllocs
  /\ heap' = heap \cup {o} /\ roots' = roots \cup {o} /\ made' = made + 1
  /\ \E r \in roots \cup {NoObj} : gref' = [gref EXCEPT ![o] = r]
  /\ mark' = [mark EXCEPT ![o] = 0] /\ gen' = [gen EXCEPT ![o] = 0] /\ sc' = [sc EXCEPT ![o] = 0]
  /\ condemned' = condemned \ {o}
  /\ UNCHANGED <<rset, cmark, oldBytes, lastOld, cycles, kind>>

\* gc_remembered_set_barrier
Remember(c, v) == IF v # NoObj /\ gen[c] = 1 /\ gen[v] = 0 THEN {c} ELSE {}

\* A mutable container is overwritten, under the generational barrier.
GenStore(c, v) ==
  /\ c \in roots
  /\ gref' = [gref EXCEPT ![c] = v]
  /\ rset' = rset \cup Remember(c, v)
  /\ UNCHANGED <<heap, mark, gen, sc, roots, cmark, oldBytes, lastOld, cycles, made, kind, condemned>>

Load(c) ==
  /\ c \in roots /\ gref[c] \in heap \ roots
  /\ roots' = roots \cup {gref[c]}
  /\ UNCHANGED <<heap, mark, gen, sc, gref, rset, cmark, oldBytes, lastOld, cycles, made, kind, condemned>>

GenDrop(c) ==
  /\ c \in roots
  /\ roots' = roots \ {c}
  /\ UNCHANGED <<heap, mark, gen, sc, gref, rset, cmark, oldBytes, lastOld, cycles, made, kind, condemned>>

-----------------------------------------------------------------------------
(* Marking *)

\* gc__trace_object follows the reference of an object it visits, passes over
\* skip and stops at stop: what it visits from `from` is the least set that
\* this does not leave.
Traced(visited, from, skip, stop) ==
  /\ from \ skip \subseteq visited
  /\ \A o \in visited \ stop : gref[o] \in visited \cup skip \cup {NoObj}
Visit(from, skip, stop) ==
  {o \in Objs : \A visited \in SUBSET Objs : Traced(visited, from, skip, stop) => o \in visited}

Reach(from) == Visit(from \ {NoObj}, {}, {})

\* The loop passes over zeroed headers, and over what bears this cycle's mark.
Passed == {o \in Objs : o \notin heap \/ mark[o] = cmark}
Old    == {o \in Objs : gen[o] = 1}

\* Mutant: the roots are marked and not traced.
MutMarkRootsOnly == roots \ Passed

gc_mark == Visit(roots, Passed, {})

\* gc_mark_minor: the remembered containers are marked and traced, whatever
\* their mark and whether or not they have been swept since; then the loop stops
\* at old objects.
gc_mark_minor ==
  rset \cup Visit(roots \cup ({gref[o] : o \in rset} \ {NoObj}), Passed \cup rset, Old)

-----------------------------------------------------------------------------
(* Collections *)

\* A young object that survives its second sweep becomes old.
Promote(live) ==
  /\ gen' = [o \in Objs |-> IF o \in live /\ gen[o] = 0 /\ sc[o] >= 1 THEN 1 ELSE gen[o]]
  /\ sc'  = [o \in Objs |-> IF o \in live /\ gen[o] = 0 /\ sc[o] = 0 THEN 1 ELSE sc[o]]

\* The sweep zeroes dead objects; their headers are stamped when the cell is used again.
Zero(live) == gref' = [o \in Objs |-> IF o \in heap \ live THEN NoObj ELSE gref[o]]

Survivors(marked) == {o \in heap : o \in marked \/ mark[o] = cmark}

\* Mutant: the mark keeps its meaning from one cycle to the next.
MutEndCycle(marked) ==
  /\ mark' = [o \in Objs |-> IF o \in marked THEN cmark ELSE mark[o]]
  /\ cmark' = cmark
  /\ cycles' = cycles + 1

\* The end of a collection: the marked objects bear the mark, which changes its meaning.
EndCycle(marked) ==
  /\ mark' = [o \in Objs |-> IF o \in marked THEN cmark ELSE mark[o]]
  /\ cmark' = 1 - cmark
  /\ cycles' = cycles + 1

\* gc_collect: mark, sweep everything unmarked, recount the old generation.
gc_collect ==
  /\ cycles < MaxCycles
  /\ LET live == Survivors(gc_mark)
     IN /\ heap' = live
        /\ Promote(live) /\ Zero(live)
        /\ oldBytes' = Cardinality({o \in live : gen'[o] = 1})
  /\ EndCycle(gc_mark)
  /\ lastOld' = oldBytes'
  /\ kind' = "major" /\ condemned' = heap \ Reach(roots)
  /\ UNCHANGED <<roots, rset, made>>

gc_should_major ==
  cycles = 0 \/ oldBytes > lastOld + lastOld \div 2

\* Mutant: the sweep takes unmarked old objects too.
MutMinorSweepsOld ==
  /\ cycles < MaxCycles /\ ~gc_should_major
  /\ heap' = Survivors(gc_mark_minor)
  /\ Promote(heap') /\ Zero(heap')
  /\ oldBytes' = oldBytes + Cardinality({o \in heap' : gen[o] = 0 /\ gen'[o] = 1})
  /\ EndCycle(gc_mark_minor)
  /\ rset' = {} /\ kind' = "minor" /\ condemned' = {}
  /\ UNCHANGED <<roots, lastOld, made>>

\* gc_collect_minor: only unmarked young objects are swept; the remembered
\* set is emptied.
gc_collect_minor ==
  /\ cycles < MaxCycles /\ ~gc_should_major
  /\ LET live == Survivors(gc_mark_minor) \cup {o \in heap : gen[o] = 1}
     IN /\ heap' = live
        /\ Promote(live) /\ Zero(live)
        /\ oldBytes' = oldBytes + Cardinality({o \in live : gen[o] = 0 /\ gen'[o] = 1})
  /\ EndCycle(gc_mark_minor)
  /\ rset' = {} /\ kind' = "minor" /\ condemned' = {}
  /\ UNCHANGED <<roots, lastOld, made>>

GenNext ==
  \/ gc_collect \/ gc_collect_minor
  \/ \E o \in Objs \ heap : Alloc(o)
  \/ \E c \in roots : Load(c) \/ GenDrop(c) \/ \E v \in roots \cup {NoObj} : GenStore(c, v)

GenSpec == GenInit /\ [][GenNext]_genVars

-----------------------------------------------------------------------------
(* Properties *)

\* What bears a collection's mark before it starts, which the mark loop takes for
\* marked and does not trace: at every second collection the objects allocated since
\* the last one, and old objects that a minor one passed over.
Stale == {o \in heap : mark[o] = cmark}

\* Old containers of a young object.
OldToYoung == {o \in heap : gen[o] = 1 /\ gref[o] \in heap /\ gen[gref[o]] = 0}

\* What is reached through an object of S that the roots reach.
Behind(S) == Reach({gref[o] : o \in S \cap Reach(roots)})

\* gc_collect.c:557-558, "trace from GC roots through the object graph, marking live
\* objects": no collection takes an object that the mutator can still reach.  The code
\* does not keep this; MajorExact and MinorSafe say what exactly it loses.
LiveSurvives == Reach(roots) \subseteq heap

\* As long as nothing that lives has been lost: what a major collection takes of the
\* objects the roots reach was behind one that already bore its mark, and garbage it
\* leaves bore that mark itself.  So it is exact wherever no object does.
MajorExact ==
  [][cycles' # cycles /\ kind' = "major" /\ LiveSurvives
     => /\ Reach(roots) \ heap' \subseteq Behind(Stale)
        /\ heap' \ Reach(roots) \subseteq Stale]_genVars

\* What a minor collection takes of the objects the roots reach was behind one that
\* already bore its mark, or behind an old container of a young object, neither of
\* them in the remembered set: that set, with entries for swept cells in it, otherwise
\* loses nothing.
MinorSafe ==
  [][cycles' # cycles /\ kind' = "minor" /\ LiveSurvives
     => Reach(roots) \ heap' \subseteq Behind((Stale \cup OldToYoung) \ rset)]_genVars

\* What was garbage when a major collection began does not outlive a second
\* one that follows it, whatever marks the first one met.
GarbageFreed ==
  [][cycles' # cycles /\ kind = "major" /\ kind' = "major" => heap' \cap condemned = {}]_genVars

\* Collections, minor and major, in any order, at every parity of the mark: what they
\* lose of the live objects is exactly what the two gaps above hide from the mark loop
\* (they do lose that: LiveSurvives), and no garbage outlives two majors (gc_collect.c).
CollectionsSound == MajorExact /\ MinorSafe /\ GarbageFreed
=============================================================================

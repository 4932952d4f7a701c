------------------------------ MODULE ChaseLev ------------------------------
(***************************************************************************)
(* The work-stealing deque of lib/chase_lev/chase_lev.h: an owner pushes   *)
(* and takes at the bottom, registered thieves steal at the top.  A push   *)
(* into a full buffer copies it into one twice as large, retires the old   *)
(* buffer under the current epoch and frees every retired buffer no active *)
(* thief can still hold.  Each access of a shared word is a step.          *)
(*                                                                         *)
(* delayed says how the owner's plain and release stores reach the         *)
(* thieves: FALSE, at once (sequential consistency); TRUE, through a FIFO  *)
(* store buffer that only a fence or a compare-and-swap empties, which is  *)
(* what the build's x86 allows for every store the code does not fence.    *)
(* The thieves' own stores are followed by a fence before the loads that   *)
(* matter and are immediate.  Indices are integers: the code compares them *)
(* as signed differences, so bottom - 1 below zero is -1 here as there.    *)
(***************************************************************************)
EXTENDS Integers, Sequences, FiniteSets, SequencesExt

CONSTANTS
  Thieves,        \* the threads that may register and steal
  DqMaxThieves,   \* CL_DEQUE_MAX_THIEVES
  DqLog,          \* initial_log_capacity
  DqBufs,         \* bound: buffers the owner ever allocates
  DqPushes,       \* bound: elements pushed
  DqRounds,       \* bound: thieves registered plus steals begun, per thread
  StoreOrders     \* the ways a run's stores may travel: a subset of BOOLEAN

VARIABLES
  delayed,   \* the owner's stores are buffered (never changes)
  mem,       \* the shared words the owner stores: bottom, buffer, epoch, data
  wbuf,      \* the owner's stores not yet visible
  dqTop,     \* top, moved only by compare-and-swap
  slots,     \* thieves[].epoch
  thiefCount,
  retired,   \* the nodes of dq->retired: [buf, epoch]
  freed,     \* buffers handed back to the allocator
  dqOwn,       \* the owner's operation and its locals
  thf,       \* each thief's operation and its locals
  dqPushed,  \* history: elements pushed so far (they are 1, 2, ...)
  dqTaken    \* history: what take and steal returned, in the order they won
dqVars == <<delayed, mem, wbuf, dqTop, slots, thiefCount, retired, freed, dqOwn, thf,
            dqPushed, dqTaken>>

Inactive == -1                        \* CL_EPOCH_INACTIVE
Capacity(b) == 2 ^ (DqLog + b - 1)    \* the b-th buffer is twice the one before

\* The last conjunct is what the proofs use of powers of two.
ASSUME ChaseLevAssumption ==
  /\ DqMaxThieves \in Nat /\ DqLog \in Nat /\ DqBufs \in Nat \ {0}
  /\ DqPushes \in Nat /\ DqRounds \in Nat /\ StoreOrders \subseteq BOOLEAN
  /\ IsFiniteSet(Thieves)
  /\ \A b \in 1 .. DqBufs : Capacity(b) \in Nat \ {0} /\ Capacity(b + 1) = 2 * Capacity(b)

DqSlot(b, i) == i % Capacity(b)         \* i & buf->mask

CL_BUFFER_NEW(b) == [i \in 0 .. (Capacity(b) - 1) |-> 0]

OwnerIdle == [pc |-> "idle", b |-> 0, t |-> 0, at |-> 0, count |-> 0,
              least |-> Inactive]
ThiefOut == [pc |-> "out", id |-> Inactive, e |-> 0, t |-> 0, buf |-> 0,
             elem |-> 0, round |-> 0]

CL_DEQUE_NEW ==
  /\ mem = [bottom |-> 0, buffer |-> 1, epoch |-> 0,
            data |-> [b \in 1 .. DqBufs |-> CL_BUFFER_NEW(b)]]
  /\ dqTop = 0
  /\ retired = {} /\ freed = {}
  /\ thiefCount = 0
  /\ slots = [s \in 0 .. (DqMaxThieves - 1) |-> Inactive]

DqInit ==
  /\ delayed \in StoreOrders
  /\ CL_DEQUE_NEW
  /\ wbuf = <<>>
  /\ dqOwn = OwnerIdle
  /\ thf = [w \in Thieves |-> ThiefOut]
  /\ dqPushed = 0 /\ dqTaken = <<>>

-----------------------------------------------------------------------------
(* The owner's stores, and what the owner itself sees of memory.           *)
DqWritten(m, s) ==
  CASE s.loc = "data"   -> [m EXCEPT !.data[s.buf][s.at] = s.val]
    [] s.loc = "bottom" -> [m EXCEPT !.bottom = s.val]
    [] s.loc = "buffer" -> [m EXCEPT !.buffer = s.val]
    [] s.loc = "epoch"  -> [m EXCEPT !.epoch = s.val]

DqStore(loc, val) == [loc |-> loc, val |-> val, buf |-> 0, at |-> 0]
StoreData(buf, at, val) == [loc |-> "data", val |-> val, buf |-> buf, at |-> at]

Stores(s) ==
  IF delayed THEN wbuf' = Append(wbuf, s) /\ UNCHANGED mem
  ELSE mem' = DqWritten(mem, s) /\ UNCHANGED wbuf

Forwarded(m, ss) == FoldLeft(DqWritten, m, ss)
OwnMem == IF wbuf = <<>> THEN mem ELSE Forwarded(mem, wbuf)

\* The oldest buffered store becomes visible.
DqDrain ==
  /\ wbuf # <<>>
  /\ mem' = DqWritten(mem, Head(wbuf)) /\ wbuf' = Tail(wbuf)
  /\ UNCHANGED <<dqTop, slots, thiefCount, retired, freed, dqOwn, thf, dqPushed, dqTaken>>

Fenced == wbuf = <<>>

-----------------------------------------------------------------------------
(* Push: read the bounds; grow when full; store the element, then bottom.  *)
CL_DEQUE_PUSH ==
  /\ dqOwn.pc = "idle" /\ dqPushed < DqPushes
  /\ LET b == OwnMem.bottom
         full == b - dqTop >= Capacity(OwnMem.buffer) IN
     /\ full => OwnMem.buffer < DqBufs
     /\ dqOwn' = [dqOwn EXCEPT !.pc = IF full THEN "grow" ELSE "put", !.b = b, !.t = dqTop]
  /\ dqPushed' = dqPushed + 1
  /\ UNCHANGED <<mem, wbuf, dqTop, slots, thiefCount, retired, freed, thf, dqTaken>>

\* What the new buffer holds: the elements from top as it was read.
DqGrown(old, t, b) ==
  [j \in 0 .. (Capacity(old + 1) - 1) |->
     LET live == {i \in t .. (b - 1) : DqSlot(old + 1, i) = j}
     IN  IF live = {} THEN 0
         ELSE OwnMem.data[old][DqSlot(old, CHOOSE i \in live : TRUE)]]

\* The old buffer is tagged with the epoch before the epoch moves on.
GrowBuffer ==
  /\ dqOwn.pc = "grow"
  /\ LET old == OwnMem.buffer
         new == DqGrown(old, dqOwn.t, dqOwn.b) IN
     /\ retired' = retired \cup {[buf |-> old, epoch |-> OwnMem.epoch]}
     /\ IF delayed
        THEN /\ wbuf' = wbuf \o <<DqStore("buffer", old + 1)>>
             /\ mem' = [mem EXCEPT !.data[old + 1] = new]
        ELSE /\ mem' = [mem EXCEPT !.data[old + 1] = new, !.buffer = old + 1]
             /\ UNCHANGED wbuf
  /\ dqOwn' = [dqOwn EXCEPT !.pc = "epoch"]
  /\ UNCHANGED <<dqTop, slots, thiefCount, freed, thf, dqPushed, dqTaken>>

\* node->retire_epoch is the epoch still: only the owner stores it.
GrowEpoch ==
  /\ dqOwn.pc = "epoch"
  /\ Stores(DqStore("epoch", OwnMem.epoch + 1))
  /\ dqOwn' = [dqOwn EXCEPT !.pc = "count"]
  /\ UNCHANGED <<dqTop, slots, thiefCount, retired, freed, thf, dqPushed, dqTaken>>

\* Reclaim: the thieves' slots are read one after the other.
ReclaimCount ==
  /\ dqOwn.pc = "count"
  /\ dqOwn' = [dqOwn EXCEPT !.pc = "scan", !.at = 0, !.count = thiefCount, !.least = Inactive]
  /\ UNCHANGED <<mem, wbuf, dqTop, slots, thiefCount, retired, freed, thf, dqPushed, dqTaken>>

\* thieves[i].epoch; a registration being refused has raised the count past
\* the array for a moment, and what lies there is anything.
SlotReads(i) ==
  IF i < DqMaxThieves THEN {slots[i]} ELSE {Inactive, 0}

Least(l, e) == IF e # Inactive /\ (l = Inactive \/ e < l) THEN e ELSE l

ReclaimScan ==
  /\ dqOwn.pc = "scan" /\ dqOwn.at < dqOwn.count
  /\ \E e \in SlotReads(dqOwn.at) :
       dqOwn' = [dqOwn EXCEPT !.at = @ + 1, !.least = Least(@, e)]
  /\ UNCHANGED <<mem, wbuf, dqTop, slots, thiefCount, retired, freed, thf, dqPushed, dqTaken>>

MutUnheld(node, least) == least = Inactive \/ node.epoch <= least
Unheld(node, least) == least = Inactive \/ node.epoch < least

ReclaimFree ==
  /\ dqOwn.pc = "scan" /\ dqOwn.at = dqOwn.count
  /\ freed' = freed \cup {n.buf : n \in {m \in retired : Unheld(m, dqOwn.least)}}
  /\ retired' = {n \in retired : ~Unheld(n, dqOwn.least)}
  /\ dqOwn' = [dqOwn EXCEPT !.pc = "put"]
  /\ UNCHANGED <<mem, wbuf, dqTop, slots, thiefCount, thf, dqPushed, dqTaken>>

PutElement ==
  /\ dqOwn.pc = "put"
  /\ LET buf == OwnMem.buffer IN Stores(StoreData(buf, DqSlot(buf, dqOwn.b), dqPushed))
  /\ dqOwn' = [dqOwn EXCEPT !.pc = "raise"]
  /\ UNCHANGED <<dqTop, slots, thiefCount, retired, freed, thf, dqPushed, dqTaken>>

PutBottom ==
  /\ dqOwn.pc = "raise"
  /\ Stores(DqStore("bottom", dqOwn.b + 1))
  /\ dqOwn' = OwnerIdle
  /\ UNCHANGED <<dqTop, slots, thiefCount, retired, freed, thf, dqPushed, dqTaken>>

-----------------------------------------------------------------------------
(* Take: lower bottom, fence, read top; the last element is raced for.     *)
CL_DEQUE_TAKE ==
  /\ dqOwn.pc = "idle" /\ Len(dqTaken) < DqPushes
  /\ LET b == OwnMem.bottom - 1 IN
     /\ Stores(DqStore("bottom", b))
     /\ dqOwn' = [dqOwn EXCEPT !.pc = "look", !.b = b]
  /\ UNCHANGED <<dqTop, slots, thiefCount, retired, freed, thf, dqPushed, dqTaken>>

TakeLook ==
  /\ dqOwn.pc = "look" /\ Fenced
  /\ LET size == dqOwn.b - dqTop
         elem == mem.data[mem.buffer][DqSlot(mem.buffer, dqOwn.b)] IN
     \/ /\ size < 0
        /\ Stores(DqStore("bottom", dqTop))
        /\ dqOwn' = OwnerIdle /\ UNCHANGED dqTaken
     \/ /\ size > 0
        /\ dqTaken' = Append(dqTaken, [elem |-> elem, by |-> "owner"])
        /\ dqOwn' = OwnerIdle /\ UNCHANGED <<mem, wbuf>>
     \/ /\ size = 0
        /\ dqOwn' = [dqOwn EXCEPT !.pc = "race", !.t = dqTop]
        /\ UNCHANGED <<mem, wbuf, dqTaken>>
  /\ UNCHANGED <<dqTop, slots, thiefCount, retired, freed, thf, dqPushed>>

\* The mutant takes the last element without racing for it.
MutTakeRace ==
  /\ dqOwn.pc = "race" /\ Fenced
  /\ dqTaken' = Append(dqTaken, [elem |-> mem.data[mem.buffer][DqSlot(mem.buffer, dqOwn.b)],
                                 by |-> "owner"])
  /\ dqTop' = dqOwn.t + 1
  /\ dqOwn' = [dqOwn EXCEPT !.pc = "restore"]
  /\ UNCHANGED <<mem, wbuf, slots, thiefCount, retired, freed, thf, dqPushed>>
TakeRace ==
  /\ dqOwn.pc = "race" /\ Fenced
  /\ IF dqTop = dqOwn.t
     THEN /\ dqTop' = dqOwn.t + 1
          /\ dqTaken' = Append(dqTaken,
               [elem |-> mem.data[mem.buffer][DqSlot(mem.buffer, dqOwn.b)], by |-> "owner"])
     ELSE UNCHANGED <<dqTop, dqTaken>>
  /\ dqOwn' = [dqOwn EXCEPT !.pc = "restore"]
  /\ UNCHANGED <<mem, wbuf, slots, thiefCount, retired, freed, thf, dqPushed>>

\* The mutant leaves bottom lowered after the race.
MutTakeRestore ==
  /\ dqOwn.pc = "restore" /\ dqOwn' = OwnerIdle
  /\ UNCHANGED <<mem, wbuf, dqTop, slots, thiefCount, retired, freed, thf, dqPushed, dqTaken>>
TakeRestore ==
  /\ dqOwn.pc = "restore"
  /\ Stores(DqStore("bottom", dqOwn.t + 1))
  /\ dqOwn' = OwnerIdle
  /\ UNCHANGED <<dqTop, slots, thiefCount, retired, freed, thf, dqPushed, dqTaken>>

-----------------------------------------------------------------------------
(* Thieves: a slot is claimed by counting up, and never given back.        *)
OwnerSide == <<mem, wbuf, retired, freed, dqOwn, dqPushed>>

CL_DEQUE_REGISTER_THIEF(w) ==
  /\ thf[w].pc = "out" /\ thf[w].round < DqRounds
  /\ thiefCount' = thiefCount + 1
  /\ thf' = [thf EXCEPT ![w].id = thiefCount, ![w].round = @ + 1,
                        ![w].pc = IF thiefCount >= DqMaxThieves THEN "refused" ELSE "in"]
  /\ slots' = IF thiefCount >= DqMaxThieves THEN slots
              ELSE [slots EXCEPT ![thiefCount] = Inactive]
  /\ UNCHANGED <<OwnerSide, dqTop, dqTaken>>

RegisterRefused(w) ==
  /\ thf[w].pc = "refused"
  /\ thiefCount' = thiefCount - 1
  /\ thf' = [thf EXCEPT ![w].pc = "out", ![w].id = Inactive]
  /\ UNCHANGED <<OwnerSide, dqTop, slots, dqTaken>>

CL_DEQUE_UNREGISTER_THIEF(w) ==
  /\ thf[w].pc = "in"
  /\ slots' = [slots EXCEPT ![thf[w].id] = Inactive]
  /\ thf' = [thf EXCEPT ![w].pc = "out", ![w].id = Inactive]
  /\ UNCHANGED <<OwnerSide, dqTop, thiefCount, dqTaken>>

(* Steal: announce an epoch, read top, bottom, buffer and element, then    *)
(* claim the element.                                                      *)
CL_DEQUE_STEAL(w) ==
  /\ thf[w].pc = "in" /\ thf[w].round < DqRounds
  /\ thf' = [thf EXCEPT ![w].pc = "announce", ![w].e = mem.epoch, ![w].round = @ + 1]
  /\ UNCHANGED <<OwnerSide, dqTop, slots, thiefCount, dqTaken>>

StealAnnounce(w) ==
  /\ thf[w].pc = "announce"
  /\ slots' = [slots EXCEPT ![thf[w].id] = thf[w].e]
  /\ thf' = [thf EXCEPT ![w].pc = "top"]
  /\ UNCHANGED <<OwnerSide, dqTop, thiefCount, dqTaken>>

StealTop(w) ==
  /\ thf[w].pc = "top"
  /\ thf' = [thf EXCEPT ![w].pc = "bottom", ![w].t = dqTop]
  /\ UNCHANGED <<OwnerSide, dqTop, slots, thiefCount, dqTaken>>

StealBottom(w) ==
  /\ thf[w].pc = "bottom"
  /\ thf' = [thf EXCEPT ![w].pc = IF mem.bottom - thf[w].t <= 0 THEN "leave" ELSE "buffer"]
  /\ UNCHANGED <<OwnerSide, dqTop, slots, thiefCount, dqTaken>>

StealBuffer(w) ==
  /\ thf[w].pc = "buffer"
  /\ thf' = [thf EXCEPT ![w].pc = "read", ![w].buf = mem.buffer]
  /\ UNCHANGED <<OwnerSide, dqTop, slots, thiefCount, dqTaken>>

StealRead(w) ==
  /\ thf[w].pc = "read"
  /\ LET buf == thf[w].buf IN
     thf' = [thf EXCEPT ![w].pc = "claim",
                        ![w].elem = mem.data[buf][DqSlot(buf, thf[w].t)]]
  /\ UNCHANGED <<OwnerSide, dqTop, slots, thiefCount, dqTaken>>

\* The mutant claims with a plain store.
MutStealClaim(w) ==
  /\ thf[w].pc = "claim"
  /\ dqTop' = thf[w].t + 1
  /\ dqTaken' = Append(dqTaken, [elem |-> thf[w].elem, by |-> "thief"])
  /\ thf' = [thf EXCEPT ![w].pc = "leave"]
  /\ UNCHANGED <<OwnerSide, slots, thiefCount>>
StealClaim(w) ==
  /\ thf[w].pc = "claim"
  /\ IF dqTop = thf[w].t
     THEN /\ dqTop' = thf[w].t + 1
          /\ dqTaken' = Append(dqTaken, [elem |-> thf[w].elem, by |-> "thief"])
     ELSE UNCHANGED <<dqTop, dqTaken>>
  /\ thf' = [thf EXCEPT ![w].pc = "leave"]
  /\ UNCHANGED <<OwnerSide, slots, thiefCount>>

StealLeave(w) ==
  /\ thf[w].pc = "leave"
  /\ slots' = [slots EXCEPT ![thf[w].id] = Inactive]
  /\ thf' = [thf EXCEPT ![w] = [ThiefOut EXCEPT !.pc = "in", !.id = thf[w].id,
                                                !.round = thf[w].round]]
  /\ UNCHANGED <<OwnerSide, dqTop, thiefCount, dqTaken>>

-----------------------------------------------------------------------------
Owner ==
  \/ CL_DEQUE_PUSH \/ GrowBuffer \/ GrowEpoch \/ ReclaimCount \/ ReclaimScan
  \/ ReclaimFree \/ PutElement \/ PutBottom
  \/ CL_DEQUE_TAKE \/ TakeLook \/ TakeRace \/ TakeRestore

Thief(w) ==
  \/ CL_DEQUE_REGISTER_THIEF(w) \/ RegisterRefused(w) \/ CL_DEQUE_UNREGISTER_THIEF(w)
  \/ CL_DEQUE_STEAL(w) \/ StealAnnounce(w) \/ StealTop(w) \/ StealBottom(w)
  \/ StealBuffer(w) \/ StealRead(w) \/ StealClaim(w) \/ StealLeave(w)

DqNext ==
  /\ Owner \/ DqDrain \/ \E w \in Thieves : Thief(w)
  /\ UNCHANGED delayed
DqSpec == DqInit /\ [][DqNext]_dqVars

-----------------------------------------------------------------------------
DqElems == [i \in DOMAIN dqTaken |-> dqTaken[i].elem]

\* No element is handed out twice, and nothing that was not pushed is handed
\* out, whoever races take and steal for the last element and whichever
\* buffer a thief read it from.
TakenOnce == IsInjective(DqElems) /\ ToSet(DqElems) \subseteq 1 .. dqPushed

\* When the owner is between operations, every pushed element is either handed
\* out or still lies between top and bottom of the buffer the owner uses, in
\* the order of pushing: growing copies what a thief may still claim, and a
\* race that is lost leaves bottom where it belongs.
NothingLost ==
  dqOwn.pc = "idle" =>
    LET m == OwnMem
        left == [i \in 1 .. (m.bottom - dqTop) |->
                   m.data[m.buffer][DqSlot(m.buffer, dqTop + i - 1)]]
    IN  /\ m.bottom >= dqTop
        /\ \A i, j \in DOMAIN left : i < j => left[i] < left[j]
        /\ ToSet(left) \cup ToSet(DqElems) = 1 .. dqPushed

\* Thieves take the oldest element first.
StolenInOrder ==
  \A i, j \in DOMAIN dqTaken : i < j /\ dqTaken[i].by = "thief" /\ dqTaken[j].by = "thief" =>
    dqTaken[i].elem < dqTaken[j].elem

\* "Reclaim any retired buffers that are no longer referenced": a thief about
\* to read an element reads a buffer that has not been freed.
BufferAlive == \A w \in Thieves : thf[w].pc = "read" => thf[w].buf \notin freed

\* The same under sequential consistency, where the epochs do protect a thief:
\* one that loaded the old buffer announced an epoch no later than the one
\* the buffer was retired under, and reclaim finds it.
BufferAliveInOrder == ~delayed => BufferAlive

\* Every element leaves the deque once, thieves' in order, and in program order no
\* thief reads a freed buffer (chase_lev.h).
DequeSound == TakenOnce /\ NothingLost /\ StolenInOrder /\ BufferAliveInOrder
=============================================================================

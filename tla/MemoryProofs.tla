---------------------------- MODULE MemoryProofs ----------------------------
(* Proofs about three structures that hand memory out and take it back: the    *)
(* work-stealing deque (ChaseLev), the front end's block heap (Immix) and its  *)
(* generational collections (GenGc).                                           *)
(*                                                                             *)
(* The deque, where the owner's stores reach the thieves in program order      *)
(* (~delayed): the invariant compares what a thief read in earlier steps with  *)
(* the deque now: its claim succeeds only if top is unchanged, and then top's  *)
(* element is the one it read, in whichever buffer.  The same for reclaim: it  *)
(* passes the slots one by one, and a thief it has passed either bounds the    *)
(* least epoch or holds the current buffer.                                    *)
(*                                                                             *)
(* The block heap: the objects lie apart, on lines marked occupied in listed   *)
(* blocks, and the bump run of the owner holds none, also while a concurrent   *)
(* sweep rewrites the line maps one block at a time.                           *)
(*                                                                             *)
(* The collections: what is reached is the least closed set of objects, so a   *)
(* mark is compared with it through closure and minimality alone.              *)
EXTENDS ChaseLev, Immix, GenGc, FiniteSetTheorems, NaturalsInduction,
        WellFoundedInduction, SequenceTheorems, TLAPS

-----------------------------------------------------------------------------
(* The deque: the inductive invariant *)

\* The owner's pc inside a push and inside a take, and a thief's after its announcement.
Pushing == {"grow", "epoch", "count", "scan", "put", "raise"}
Taking == {"look", "race", "restore"}
Announced == {"top", "bottom", "buffer", "read", "claim", "leave"}

DqBuffer(b) == [0 .. Capacity(b) - 1 -> Nat]
DqData ==
  {d \in [1 .. DqBufs -> UNION {DqBuffer(b) : b \in 1 .. DqBufs}] :
     \A b \in 1 .. DqBufs : d[b] \in DqBuffer(b)}
MemRecs == [bottom : Int, buffer : 1 .. DqBufs, epoch : Nat, data : DqData]
OwnRecs ==
  [pc : {"idle"} \cup Pushing \cup Taking, b : Int, t : Nat, at : Nat, count : Nat,
   least : Nat \cup {Inactive}]
ThfRecs ==
  [pc : {"out", "refused", "in", "announce"} \cup Announced, id : Int, e : Nat, t : Nat,
   buf : Nat, elem : Nat, round : Nat]
TakenRecs == [elem : Nat, by : {"owner", "thief"}]

\* The types, in program order.
DqTypeOK ==
  /\ delayed = FALSE /\ wbuf = << >>
  /\ mem \in MemRecs /\ dqTop \in Nat
  /\ slots \in [0 .. DqMaxThieves - 1 -> Nat \cup {Inactive}] /\ thiefCount \in Nat
  /\ retired \subseteq [buf : Nat, epoch : Nat] /\ freed \subseteq Nat
  /\ dqOwn \in OwnRecs /\ thf \in [Thieves -> ThfRecs]
  /\ dqPushed \in Nat /\ dqTaken \in Seq(TakenRecs)

\* The element of index i, the first index past the elements (a take has lowered bottom
\* below it), and the number of elements that were put in.
Elem(i) == mem.data[mem.buffer][DqSlot(mem.buffer, i)]
End == IF dqOwn.pc \in Taking THEN mem.bottom + 1 ELSE mem.bottom
Done == IF dqOwn.pc \in Pushing THEN dqPushed - 1 ELSE dqPushed

\* The elements fit the buffer with room for the one being pushed, and the owner's locals agree
\* with memory: top may have moved since it was read, bottom not.
BoundsHold ==
  /\ dqTop <= End /\ End - dqTop <= Capacity(mem.buffer)
  /\ dqOwn.pc # "idle" => dqOwn.b = mem.bottom
  /\ dqOwn.pc \in Pushing => dqPushed >= 1
  /\ dqOwn.pc = "grow" =>
       dqOwn.t <= dqTop /\ dqOwn.b - dqOwn.t <= Capacity(mem.buffer) /\ mem.buffer < DqBufs
  /\ dqOwn.pc \in Pushing \ {"grow"} => dqOwn.b - dqTop < Capacity(mem.buffer)
  /\ dqOwn.pc = "raise" => Elem(dqOwn.b) = dqPushed
  /\ dqOwn.pc = "race" => dqOwn.t = dqOwn.b /\ dqOwn.b <= dqTop
  /\ dqOwn.pc = "restore" => dqOwn.t = dqOwn.b /\ dqTop = dqOwn.b + 1

\* Taken and left are, together and apart, the elements put in.
ElemsHold ==
  /\ \A i \in dqTop .. End - 1 : Elem(i) \in 1 .. Done
  /\ \A i, j \in dqTop .. End - 1 : i < j => Elem(i) < Elem(j)
  /\ \A n \in 1 .. Done : \/ \E i \in dqTop .. End - 1 : Elem(i) = n
                          \/ \E k \in DOMAIN dqTaken : dqTaken[k].elem = n
  /\ \A k \in DOMAIN dqTaken :
       /\ dqTaken[k].elem \in 1 .. Done
       /\ \A i \in dqTop .. End - 1 :
            dqTaken[k].elem # Elem(i) /\ (dqTaken[k].by = "thief" => dqTaken[k].elem < Elem(i))
  /\ \A k, l \in DOMAIN dqTaken : k < l =>
       /\ dqTaken[k].elem # dqTaken[l].elem
       /\ dqTaken[k].by = "thief" /\ dqTaken[l].by = "thief" => dqTaken[k].elem < dqTaken[l].elem

\* What a thief has read is still so if top is: a claim that succeeds takes the element of top.
StealHolds(w) ==
  /\ thf[w].pc \in {"bottom", "buffer", "read", "claim"} => thf[w].t <= dqTop
  /\ thf[w].pc \in {"buffer", "read", "claim"} /\ thf[w].t = dqTop => dqTop < End
  /\ thf[w].pc = "read" => thf[w].buf \in 1 .. mem.buffer
  /\ thf[w].pc = "read" /\ thf[w].t = dqTop =>
       mem.data[thf[w].buf][DqSlot(thf[w].buf, thf[w].t)] = Elem(dqTop)
  /\ thf[w].pc = "claim" /\ thf[w].t = dqTop => thf[w].elem = Elem(dqTop)

Registered(r) == r.pc \notin {"out", "refused"}

\* A registered thief has a slot of its own below the count, with the epoch it announced.
SlotHolds(w) ==
  /\ Registered(thf[w]) => thf[w].id \in 0 .. DqMaxThieves - 1 /\ thf[w].id < thiefCount
  /\ \A v \in Thieves : v # w /\ Registered(thf[v]) /\ Registered(thf[w]) => thf[v].id # thf[w].id
  /\ thf[w].pc \in Announced \cup {"announce"} => thf[w].e <= mem.epoch
  /\ thf[w].pc \in Announced => slots[thf[w].id] = thf[w].e

\* Only refusals under way take the count past the slots.
Refused == {w \in Thieves : thf[w].pc = "refused"}
CountHolds ==
  IF Refused = {} THEN thiefCount <= DqMaxThieves
  ELSE thiefCount = DqMaxThieves + Cardinality(Refused)

\* Buffer b is retired under epoch b - 1, which no thief that holds b has announced later.
EpochsHold ==
  /\ mem.epoch = IF dqOwn.pc = "epoch" THEN mem.buffer - 2 ELSE mem.buffer - 1
  /\ \A n \in retired : n.buf < mem.buffer /\ n.epoch = n.buf - 1
  /\ \A b \in freed : b < mem.buffer
  /\ \A w \in Thieves : thf[w].pc = "read" => thf[w].e < thf[w].buf /\ thf[w].buf \notin freed
  /\ dqOwn.pc = "scan" =>
       /\ dqOwn.at <= dqOwn.count
       /\ \A w \in Thieves : thf[w].pc = "read" /\ thf[w].buf < mem.buffer =>
            /\ thf[w].id < dqOwn.count
            /\ thf[w].id < dqOwn.at => dqOwn.least # Inactive /\ dqOwn.least <= thf[w].e

DqInv ==
  /\ DqTypeOK /\ BoundsHold /\ ElemsHold /\ CountHolds /\ EpochsHold
  /\ \A w \in Thieves : StealHolds(w) /\ SlotHolds(w)

\* What ChaseLevAssumption says, in the form the proofs use.
LEMMA DqConsts ==
  /\ DqMaxThieves \in Nat /\ DqBufs \in Nat \ {0} /\ IsFiniteSet(Thieves)
  /\ \A b \in 1 .. DqBufs : Capacity(b) \in Nat \ {0}
  /\ \A b \in 1 .. DqBufs : b + 1 \in 1 .. DqBufs => Capacity(b) < Capacity(b + 1)
  <1>1. /\ DqMaxThieves \in Nat /\ DqBufs \in Nat \ {0} /\ IsFiniteSet(Thieves)
        /\ \A b \in 1 .. DqBufs : Capacity(b) \in Nat \ {0} /\ Capacity(b + 1) = 2 * Capacity(b)
    BY ChaseLevAssumption DEF ChaseLevAssumption
  <1>2. \A b \in 1 .. DqBufs : b + 1 \in 1 .. DqBufs => Capacity(b) < Capacity(b + 1)
    BY <1>1
  <1>3. QED
    BY <1>1, <1>2

\* An index has a slot in each buffer.
LEMMA SlotIn ==
  \A b \in 1 .. DqBufs, i \in Nat : DqSlot(b, i) \in 0 .. Capacity(b) - 1
  <1> SUFFICES ASSUME NEW b \in 1 .. DqBufs, NEW i \in Nat PROVE DqSlot(b, i) \in 0 .. Capacity(b) - 1
    OBVIOUS
  <1>1. PICK c \in Nat \ {0} : c = Capacity(b)
    BY DqConsts
  <1>2. i % c \in 0 .. c - 1
    BY <1>1
  <1>3. QED
    BY <1>1, <1>2 DEF DqSlot

\* Indices less than a buffer's length apart have different slots.
LEMMA SlotsDiffer ==
  ASSUME NEW b \in 1 .. DqBufs, NEW i \in Nat, NEW j \in Nat, i < j, j - i < Capacity(b)
  PROVE  DqSlot(b, i) # DqSlot(b, j)
  <1>1. PICK c \in Nat \ {0} : c = Capacity(b)
    BY DqConsts
  <1>2. PICK p \in Nat : p = i \div c
    BY <1>1
  <1>3. PICK q \in Nat : q = j \div c
    BY <1>1
  <1>4. i = c * p + (i % c) /\ i % c \in 0 .. c - 1
    BY <1>1, <1>2
  <1>5. j = c * q + (j % c) /\ j % c \in 0 .. c - 1
    BY <1>1, <1>3
  <1>6. SUFFICES ASSUME i % c = j % c PROVE FALSE
    BY <1>1 DEF DqSlot
  <1>7. j - i = c * q - c * p
    <2>1. c * p \in Nat /\ c * q \in Nat
      BY <1>1, <1>2, <1>3
    <2>2. QED
      BY <2>1, <1>4, <1>5, <1>6
  <1>8. CASE q <= p
    <2>1. PICK d \in Nat : p = q + d
      <3>1. p - q \in Nat /\ p = q + (p - q)
        BY <1>8, <1>2, <1>3
      <3>2. QED
        BY <3>1
    <2>2. c * p = c * q + c * d /\ c * d \in Nat /\ c * q \in Nat
      BY <2>1, <1>1
    <2>3. QED
      BY <2>2, <1>7
  <1>9. CASE q > p
    <2>1. PICK d \in Nat : q = p + 1 + d
      <3>1. q - p - 1 \in Nat /\ q = p + 1 + (q - p - 1)
        BY <1>9, <1>2, <1>3
      <3>2. QED
        BY <3>1
    <2>2. c * q = c * p + c + c * d /\ c * d \in Nat /\ c * p \in Nat
      BY <2>1, <1>1
    <2>3. j - i < c
      BY <1>1
    <2>4. QED
      BY <2>2, <2>3, <1>1, <1>7
  <1>10. QED
    BY <1>8, <1>9

\* The owner's view and the fields of the shared words, in program order.
LEMMA MemFacts ==
  ASSUME DqTypeOK
  PROVE  /\ OwnMem = mem /\ mem.bottom \in Int /\ mem.buffer \in 1 .. DqBufs /\ mem.buffer \in Nat /\ mem.epoch \in Nat
         /\ mem.data \in DqData /\ Capacity(mem.buffer) \in Nat \ {0}
         /\ dqTop \in Nat /\ End \in Int /\ dqPushed \in Nat /\ Done \in Int
         /\ \A b \in 1 .. DqBufs, i \in Nat : mem.data[b][DqSlot(b, i)] \in Nat
         /\ \A i \in Nat : Elem(i) \in Nat
  <1>1. OwnMem = mem
    BY DEF OwnMem, DqTypeOK
  <1>2. mem \in MemRecs /\ dqTop \in Nat /\ dqPushed \in Nat
    BY DEF DqTypeOK
  <1>3. mem.bottom \in Int /\ mem.buffer \in 1 .. DqBufs /\ mem.epoch \in Nat /\ mem.data \in DqData
    BY <1>2 DEF MemRecs
  <1>4. mem.buffer \in Nat /\ Capacity(mem.buffer) \in Nat \ {0}
    BY <1>3, DqConsts
  <1>5. End \in Int /\ Done \in Int
    BY <1>2, <1>3 DEF End, Done
  <1>6. ASSUME NEW b \in 1 .. DqBufs, NEW i \in Nat PROVE mem.data[b][DqSlot(b, i)] \in Nat
    <2>1. mem.data[b] \in DqBuffer(b)
      BY <1>3 DEF DqData
    <2>2. DqSlot(b, i) \in 0 .. Capacity(b) - 1
      BY SlotIn
    <2>3. QED
      BY <2>1, <2>2 DEF DqBuffer
  <1>7. \A i \in Nat : Elem(i) \in Nat
    BY <1>3, <1>6 DEF Elem
  <1>8. QED
    BY <1>1, <1>2, <1>3, <1>4, <1>5, <1>6, <1>7

\* The fields of the owner's and of a thief's locals.
LEMMA OwnFacts ==
  ASSUME DqTypeOK
  PROVE  /\ dqOwn \in OwnRecs /\ dqOwn.pc \in {"idle"} \cup Pushing \cup Taking
         /\ dqOwn.b \in Int /\ dqOwn.t \in Nat /\ dqOwn.at \in Nat /\ dqOwn.count \in Nat /\ dqOwn.least \in Nat \cup {Inactive}
  BY DEF DqTypeOK, OwnRecs

\* The fields of a thief's locals.
LEMMA ThiefFacts ==
  ASSUME DqTypeOK
  PROVE  /\ thf \in [Thieves -> ThfRecs]
         /\ \A w \in Thieves : /\ thf[w] \in ThfRecs /\ thf[w].pc \in {"out", "refused", "in", "announce"} \cup Announced
                               /\ thf[w].id \in Int /\ thf[w].e \in Nat /\ thf[w].t \in Nat /\ thf[w].buf \in Nat
                               /\ thf[w].elem \in Nat /\ thf[w].round \in Nat
  BY DEF DqTypeOK, ThfRecs

\* Stores that reach the thieves at once.
LEMMA StoreBottom ==
  ASSUME DqTypeOK, NEW v \in Int, Stores(DqStore("bottom", v))
  PROVE  /\ wbuf' = << >> /\ mem' \in MemRecs /\ mem'.bottom = v
         /\ mem'.buffer = mem.buffer /\ mem'.epoch = mem.epoch /\ mem'.data = mem.data
  <1>1. mem' = [mem EXCEPT !.bottom = v] /\ wbuf' = << >>
    BY DEF DqTypeOK, Stores, DqStore, DqWritten
  <1>2. mem \in MemRecs
    BY DEF DqTypeOK
  <1>3. QED
    BY <1>1, <1>2 DEF MemRecs

\* A store of the epoch.
LEMMA StoreEpoch ==
  ASSUME DqTypeOK, NEW v \in Nat, Stores(DqStore("epoch", v))
  PROVE  /\ wbuf' = << >> /\ mem' \in MemRecs /\ mem'.epoch = v
         /\ mem'.buffer = mem.buffer /\ mem'.bottom = mem.bottom /\ mem'.data = mem.data
  <1>1. mem' = [mem EXCEPT !.epoch = v] /\ wbuf' = << >>
    BY DEF DqTypeOK, Stores, DqStore, DqWritten
  <1>2. mem \in MemRecs
    BY DEF DqTypeOK
  <1>3. QED
    BY <1>1, <1>2 DEF MemRecs

\* A store of an element changes one slot of one buffer.
LEMMA StoreElem ==
  ASSUME DqTypeOK, NEW b \in 1 .. DqBufs, NEW j \in 0 .. Capacity(b) - 1, NEW v \in Nat, Stores(StoreData(b, j, v))
  PROVE  /\ wbuf' = << >> /\ mem' \in MemRecs
         /\ mem'.buffer = mem.buffer /\ mem'.bottom = mem.bottom /\ mem'.epoch = mem.epoch
         /\ \A c \in 1 .. DqBufs : mem'.data[c] = IF c = b THEN [mem.data[b] EXCEPT ![j] = v] ELSE mem.data[c]
  <1>1. mem' = [mem EXCEPT !.data = [mem.data EXCEPT ![b] = [mem.data[b] EXCEPT ![j] = v]]] /\ wbuf' = << >>
    BY DEF DqTypeOK, Stores, StoreData, DqWritten
  <1>2. mem \in MemRecs /\ mem.data \in DqData
    BY DEF DqTypeOK, MemRecs
  <1> DEFINE row == [mem.data[b] EXCEPT ![j] = v]   d == [mem.data EXCEPT ![b] = row]
  <1>3. row \in DqBuffer(b)
    BY <1>2 DEF DqData, DqBuffer
  <1> HIDE DEF row
  <1>4. d \in DqData
    BY <1>2, <1>3 DEF DqData
  <1>5. \A c \in 1 .. DqBufs : d[c] = IF c = b THEN row ELSE mem.data[c]
    BY <1>2 DEF DqData
  <1>6. mem' = [mem EXCEPT !.data = d]
    BY <1>1 DEF row
  <1> HIDE DEF d
  <1>7. QED
    BY <1>1, <1>2, <1>4, <1>5, <1>6 DEF MemRecs, row

\* CL_DEQUE_NEW, with the owner's stores in program order.
LEMMA DqInitInv == DqInit /\ ~delayed => DqInv
  <1> SUFFICES ASSUME DqInit, ~delayed PROVE DqInv
    OBVIOUS
  <1>0. /\ mem = [bottom |-> 0, buffer |-> 1, epoch |-> 0, data |-> [b \in 1 .. DqBufs |-> CL_BUFFER_NEW(b)]]
        /\ dqTop = 0 /\ retired = {} /\ freed = {} /\ thiefCount = 0
        /\ slots = [s \in 0 .. (DqMaxThieves - 1) |-> Inactive]
        /\ wbuf = <<>> /\ dqOwn = OwnerIdle /\ thf = [w \in Thieves |-> ThiefOut] /\ dqPushed = 0 /\ dqTaken = <<>>
    BY DEF DqInit, CL_DEQUE_NEW
  <1>d. delayed = FALSE
    <2>1. delayed \in BOOLEAN
      BY ChaseLevAssumption DEF ChaseLevAssumption, DqInit
    <2>2. QED
      BY <2>1
  <1>1. mem \in MemRecs
    <2> DEFINE d == [b \in 1 .. DqBufs |-> CL_BUFFER_NEW(b)]
    <2>1. \A b \in 1 .. DqBufs : CL_BUFFER_NEW(b) \in DqBuffer(b)
      BY DEF CL_BUFFER_NEW, DqBuffer
    <2>2. d \in DqData
      BY <2>1 DEF DqData
    <2> HIDE DEF d
    <2>3. 1 \in 1 .. DqBufs
      BY DqConsts
    <2>4. mem = [bottom |-> 0, buffer |-> 1, epoch |-> 0, data |-> d]
      BY <1>0 DEF d
    <2>5. QED
      BY <2>2, <2>3, <2>4 DEF MemRecs
  <1>2. dqOwn \in OwnRecs /\ dqOwn.pc = "idle"
    BY <1>0 DEF OwnerIdle, OwnRecs, Inactive
  <1>3. thf \in [Thieves -> ThfRecs] /\ \A w \in Thieves : thf[w].pc = "out"
    BY <1>0 DEF ThiefOut, ThfRecs, Inactive
  <1>4. DqTypeOK
    BY <1>0, <1>1, <1>2, <1>3, <1>d DEF DqTypeOK, Inactive
  <1>m. mem.bottom = 0 /\ mem.buffer = 1 /\ mem.epoch = 0
    BY <1>0
  <1>e. End = 0 /\ Done = 0
    BY <1>0, <1>2, <1>m DEF End, Done, Pushing, Taking
  <1>5. BoundsHold
    <2>1. Capacity(mem.buffer) \in Nat
      BY <1>4, MemFacts
    <2>2. QED
      BY <2>1, <1>0, <1>2, <1>e DEF BoundsHold, Pushing
  <1>6. ElemsHold
    BY <1>0, <1>e DEF ElemsHold
  <1>7. CountHolds
    BY <1>0, <1>3, DqConsts DEF CountHolds, Refused
  <1>8. EpochsHold
    BY <1>0, <1>m, <1>2, <1>3 DEF EpochsHold
  <1>9. \A w \in Thieves : StealHolds(w) /\ SlotHolds(w)
    BY <1>3 DEF StealHolds, SlotHolds, Announced, Registered
  <1>10. QED
    BY <1>4, <1>5, <1>6, <1>7, <1>8, <1>9 DEF DqInv

\* What was taken, as a sequence.
LEMMA TakenFacts ==
  ASSUME DqTypeOK
  PROVE  /\ Len(dqTaken) \in Nat /\ DOMAIN dqTaken = 1 .. Len(dqTaken)
         /\ \A k \in DOMAIN dqTaken : dqTaken[k] \in TakenRecs /\ dqTaken[k].elem \in Nat
  <1>1. dqTaken \in Seq(TakenRecs)
    BY DEF DqTypeOK
  <1>2. Len(dqTaken) \in Nat /\ DOMAIN dqTaken = 1 .. Len(dqTaken)
    BY <1>1
  <1>3. \A k \in DOMAIN dqTaken : dqTaken[k] \in TakenRecs
    BY <1>1, <1>2, ElementOfSeq
  <1>4. \A r \in TakenRecs : r.elem \in Nat
    BY DEF TakenRecs
  <1>5. QED
    BY <1>2, <1>3, <1>4

\* The inductive invariant implies what the runs check.
LEMMA DqInvSound == DqInv => DequeSound
  <1> SUFFICES ASSUME DqInv PROVE DequeSound
    OBVIOUS
  <1>i. DqTypeOK /\ BoundsHold /\ ElemsHold /\ EpochsHold
    BY DEF DqInv
  <1>n. Done \in Int /\ dqPushed \in Nat /\ Done <= dqPushed
    <2>1. Done \in Int /\ dqPushed \in Nat
      BY <1>i, MemFacts
    <2>2. QED
      BY <2>1 DEF Done
  <1>t. /\ Len(dqTaken) \in Nat /\ DOMAIN dqTaken = 1 .. Len(dqTaken)
        /\ \A k \in DOMAIN dqTaken : dqTaken[k].elem \in 1 .. Done
        /\ \A k, l \in DOMAIN dqTaken : k < l => dqTaken[k].elem # dqTaken[l].elem
    BY <1>i, TakenFacts DEF ElemsHold
  <1>1. TakenOnce
    <2>1. DOMAIN DqElems = DOMAIN dqTaken /\ \A k \in DOMAIN dqTaken : DqElems[k] = dqTaken[k].elem
      BY DEF DqElems
    <2>2. \A k, l \in DOMAIN dqTaken : DqElems[k] = DqElems[l] => k = l
      <3> SUFFICES ASSUME NEW k \in DOMAIN dqTaken, NEW l \in DOMAIN dqTaken, dqTaken[k].elem = dqTaken[l].elem PROVE k = l
        BY <2>1
      <3>1. k \in Nat /\ l \in Nat
        BY <1>t
      <3>2. ~(k < l) /\ ~(l < k)
        BY <1>t
      <3>3. QED
        BY <3>1, <3>2
    <2>3. IsInjective(DqElems)
      BY <2>1, <2>2 DEF IsInjective
    <2>4. ToSet(DqElems) \subseteq 1 .. dqPushed
      BY <2>1, <1>t, <1>n DEF ToSet
    <2>5. QED
      BY <2>3, <2>4 DEF TakenOnce
  <1>2. NothingLost
    <2> SUFFICES ASSUME dqOwn.pc = "idle"
                 PROVE  LET left == [i \in 1 .. (mem.bottom - dqTop) |-> mem.data[mem.buffer][DqSlot(mem.buffer, dqTop + i - 1)]]
                        IN  /\ mem.bottom >= dqTop
                            /\ \A i, j \in DOMAIN left : i < j => left[i] < left[j]
                            /\ ToSet(left) \cup ToSet(DqElems) = 1 .. dqPushed
      BY <1>i, MemFacts DEF NothingLost
    <2> DEFINE left == [i \in 1 .. (mem.bottom - dqTop) |-> mem.data[mem.buffer][DqSlot(mem.buffer, dqTop + i - 1)]]
    <2>0. End = mem.bottom /\ Done = dqPushed
      BY DEF End, Done, Taking, Pushing
    <2>1. mem.bottom \in Int /\ dqTop \in Nat /\ dqTop <= mem.bottom
      BY <2>0, <1>i, MemFacts DEF BoundsHold
    <2>2. /\ DOMAIN left = 1 .. (mem.bottom - dqTop)
          /\ \A i \in DOMAIN left : left[i] = Elem(dqTop + i - 1) /\ dqTop + i - 1 \in dqTop .. End - 1
      BY <2>0, <2>1 DEF Elem
    <2>3. ASSUME NEW i \in DOMAIN left, NEW j \in DOMAIN left, i < j PROVE left[i] < left[j]
      <3>1. PICK p \in dqTop .. End - 1 : p = dqTop + i - 1 /\ left[i] = Elem(p)
        BY <2>2
      <3>2. PICK q \in dqTop .. End - 1 : q = dqTop + j - 1 /\ left[j] = Elem(q)
        BY <2>2
      <3>3. p < q
        <4>1. i \in Int /\ j \in Int
          BY <2>1, <2>2
        <4>2. QED
          BY <4>1, <3>1, <3>2, <2>1, <2>3
      <3>4. Elem(p) < Elem(q)
        BY <3>3, <1>i DEF ElemsHold
      <3> HIDE DEF left
      <3>5. QED
        BY <3>1, <3>2, <3>4
    <2>4. ToSet(left) = {Elem(i) : i \in dqTop .. End - 1}
      <3>1. \A x \in dqTop .. End - 1 : x - dqTop + 1 \in DOMAIN left /\ dqTop + (x - dqTop + 1) - 1 = x
        BY <2>0, <2>1, <2>2
      <3>2. ToSet(left) = {left[i] : i \in DOMAIN left}
        BY DEF ToSet
      <3> HIDE DEF left
      <3>3. QED
        BY <3>1, <3>2, <2>2
    <2>5. ToSet(DqElems) = {dqTaken[k].elem : k \in DOMAIN dqTaken}
      BY DEF ToSet, DqElems
    <2>6. ToSet(left) \cup ToSet(DqElems) = 1 .. dqPushed
      <3>1. \A n \in 1 .. dqPushed : n \in ToSet(left) \cup ToSet(DqElems)
        <4>1. ASSUME NEW n \in 1 .. Done
              PROVE  (\E i \in dqTop .. End - 1 : Elem(i) = n) \/ (\E k \in DOMAIN dqTaken : dqTaken[k].elem = n)
          BY <1>i DEF ElemsHold
        <4>2. QED
          BY <4>1, <2>0, <2>4, <2>5
      <3>2. \A n \in ToSet(left) \cup ToSet(DqElems) : n \in 1 .. dqPushed
        BY <2>0, <2>4, <2>5, <1>i DEF ElemsHold
      <3>3. QED
        BY <3>1, <3>2
    <2>7. QED
      BY <2>1, <2>3, <2>6
  <1>3. StolenInOrder
    BY <1>i DEF StolenInOrder, ElemsHold
  <1>4. BufferAliveInOrder
    BY <1>i DEF BufferAliveInOrder, BufferAlive, EpochsHold
  <1>5. QED
    BY <1>1, <1>2, <1>3, <1>4 DEF DequeSound

\* Same elements in the same places, nothing taken.
LEMMA ElemsStay ==
  ASSUME ElemsHold, UNCHANGED <<dqTop, dqTaken>>, End' = End, Done' = Done,
         \A i \in dqTop .. End - 1 : Elem(i)' = Elem(i)
  PROVE  ElemsHold'
  <1> DEFINE S == dqTop .. End - 1
  <1>0. S' = S /\ (DOMAIN dqTaken)' = DOMAIN dqTaken /\ dqTaken' = dqTaken /\ (1 .. Done)' = 1 .. Done
    OBVIOUS
  <1>1. (\A i \in S : Elem(i) \in 1 .. Done)'
    BY <1>0 DEF ElemsHold
  <1>2. (\A i, j \in S : i < j => Elem(i) < Elem(j))'
    BY <1>0 DEF ElemsHold
  <1>3. (\A n \in 1 .. Done : (\E i \in S : Elem(i) = n) \/ (\E k \in DOMAIN dqTaken : dqTaken[k].elem = n))'
    <2> SUFFICES ASSUME NEW n \in 1 .. Done
                 PROVE  (\E i \in S : Elem(i)' = n) \/ (\E k \in DOMAIN dqTaken : dqTaken[k].elem = n)
      BY <1>0
    <2>1. (\E i \in S : Elem(i) = n) \/ (\E k \in DOMAIN dqTaken : dqTaken[k].elem = n)
      BY DEF ElemsHold
    <2>2. QED
      BY <2>1
  <1>4. (\A k \in DOMAIN dqTaken :
           /\ dqTaken[k].elem \in 1 .. Done
           /\ \A i \in S : dqTaken[k].elem # Elem(i) /\ (dqTaken[k].by = "thief" => dqTaken[k].elem < Elem(i)))'
    BY <1>0 DEF ElemsHold
  <1>5. (\A k, l \in DOMAIN dqTaken : k < l =>
           /\ dqTaken[k].elem # dqTaken[l].elem
           /\ dqTaken[k].by = "thief" /\ dqTaken[l].by = "thief" => dqTaken[k].elem < dqTaken[l].elem)'
    BY <1>0 DEF ElemsHold
  <1>6. QED
    BY <1>1, <1>2, <1>3, <1>4, <1>5 DEF ElemsHold

\* What Append does to the history.
LEMMA TakenAppended ==
  ASSUME DqTypeOK, NEW r \in TakenRecs, dqTaken' = Append(dqTaken, r)
  PROVE  /\ dqTaken' \in Seq(TakenRecs)
         /\ DOMAIN (dqTaken') = 1 .. Len(dqTaken) + 1 /\ dqTaken'[Len(dqTaken) + 1] = r
         /\ \A k \in DOMAIN dqTaken : k \in DOMAIN (dqTaken') /\ dqTaken'[k] = dqTaken[k]
         /\ \A k \in DOMAIN (dqTaken') : k \in DOMAIN dqTaken \/ k = Len(dqTaken) + 1
  <1>1. dqTaken \in Seq(TakenRecs) /\ Len(dqTaken) \in Nat /\ DOMAIN dqTaken = 1 .. Len(dqTaken)
    BY TakenFacts DEF DqTypeOK
  <1>2. dqTaken' \in Seq(TakenRecs) /\ Len(dqTaken') = Len(dqTaken) + 1
    BY <1>1, AppendProperties
  <1>3. DOMAIN (dqTaken') = 1 .. Len(dqTaken) + 1
    BY <1>2, <1>1
  <1>4. dqTaken'[Len(dqTaken) + 1] = r /\ \A k \in 1 .. Len(dqTaken) : dqTaken'[k] = dqTaken[k]
    BY <1>1, AppendProperties
  <1>5. QED
    BY <1>1, <1>2, <1>3, <1>4

\* One element of a live index leaves: the first, for a thief or the last element's race, or
\* the last, for the owner.
LEMMA ElemsLeave ==
  ASSUME DqTypeOK, ElemsHold, Done' = Done, NEW x \in dqTop .. End - 1, NEW y \in {"owner", "thief"},
         \A i \in dqTop .. End - 1 : Elem(i)' = Elem(i),
         \A i : i \in dqTop' .. End' - 1 <=> i \in dqTop .. End - 1 /\ i # x,
         y = "thief" => x = dqTop,
         dqTaken' = Append(dqTaken, [elem |-> Elem(x), by |-> y])
  PROVE  ElemsHold' /\ dqTaken' \in Seq(TakenRecs)
  <1> DEFINE S == dqTop .. End - 1   T == dqTop' .. End' - 1   n == Len(dqTaken) + 1   D == DOMAIN dqTaken
  <1>t. dqTop \in Nat /\ End \in Int /\ Done \in Int /\ x \in Nat /\ \A i \in S : i \in Nat /\ i >= dqTop
    BY MemFacts
  <1>x. [elem |-> Elem(x), by |-> y] \in TakenRecs
    BY <1>t, MemFacts DEF TakenRecs
  <1>a. PICK r \in TakenRecs : r = [elem |-> Elem(x), by |-> y]
    BY <1>x
  <1>b. /\ dqTaken' \in Seq(TakenRecs) /\ dqTaken'[n] = r /\ r.elem = Elem(x) /\ r.by = y
        /\ n \in DOMAIN (dqTaken') /\ D = 1 .. n - 1 /\ n \in Nat /\ n \notin D
        /\ \A k \in D : k \in DOMAIN (dqTaken') /\ dqTaken'[k] = dqTaken[k] /\ k < n
        /\ \A k \in DOMAIN (dqTaken') : k \in D \/ k = n
    <2>1. Len(dqTaken) \in Nat /\ D = 1 .. Len(dqTaken)
      BY TakenFacts
    <2>2. QED
      BY <2>1, <1>a, TakenAppended
  <1>s. T \subseteq S /\ x \in S /\ x \notin T /\ \A i \in S : i = x \/ i \in T
    OBVIOUS
  <1>o. \A i \in T : i \in S /\ Elem(i)' = Elem(i)
    BY <1>s
  <1>c. \A i \in S : Elem(i) \in 1 .. Done
    BY DEF ElemsHold
  <1>f. \A i, j \in S : i < j => Elem(i) < Elem(j)
    BY DEF ElemsHold
  <1>d. \A k \in D : /\ dqTaken[k].elem \in 1 .. Done
                     /\ \A i \in S : dqTaken[k].elem # Elem(i) /\ (dqTaken[k].by = "thief" => dqTaken[k].elem < Elem(i))
    BY DEF ElemsHold
  <1>u. \A k, l \in D : k < l =>
           /\ dqTaken[k].elem # dqTaken[l].elem
           /\ dqTaken[k].by = "thief" /\ dqTaken[l].by = "thief" => dqTaken[k].elem < dqTaken[l].elem
    BY DEF ElemsHold
  <1>v. \A m \in 1 .. Done : (\E i \in S : Elem(i) = m) \/ (\E k \in D : dqTaken[k].elem = m)
    BY DEF ElemsHold
  <1>w. \A i \in T : Elem(x) # Elem(i) /\ (y = "thief" => Elem(x) < Elem(i))
    <2> SUFFICES ASSUME NEW i \in T PROVE Elem(x) # Elem(i) /\ (y = "thief" => Elem(x) < Elem(i))
      OBVIOUS
    <2>1. i \in S /\ i # x /\ i \in Nat /\ Elem(i) \in 1 .. Done /\ Elem(x) \in 1 .. Done
      BY <1>o, <1>t, <1>c, <1>s
    <2>2. CASE i < x
      <3>1. Elem(i) < Elem(x)
        BY <2>1, <2>2, <1>f
      <3>2. y # "thief"
        BY <2>1, <2>2, <1>t
      <3>3. QED
        BY <3>1, <3>2, <2>1
    <2>3. CASE x < i
      <3>1. Elem(x) < Elem(i)
        BY <2>1, <2>3, <1>f
      <3>2. QED
        BY <3>1, <2>1
    <2>4. QED
      BY <2>1, <2>2, <2>3, <1>t
  <1> HIDE DEF S, T, n, D
  <1>1. \A i \in T : Elem(i)' \in 1 .. Done'
    BY <1>o, <1>c
  <1>2. \A i, j \in T : i < j => Elem(i)' < Elem(j)'
    BY <1>o, <1>f
  <1>3. ASSUME NEW m \in 1 .. Done'
        PROVE  (\E i \in T : Elem(i)' = m) \/ (\E k \in DOMAIN (dqTaken') : dqTaken'[k].elem = m)
    <2>1. CASE \E i \in S : Elem(i) = m
      BY <2>1, <1>b, <1>s, <1>o
    <2>2. CASE \E k \in D : dqTaken[k].elem = m
      BY <2>2, <1>b
    <2>3. QED
      BY <2>1, <2>2, <1>v
  <1>4. ASSUME NEW k \in DOMAIN (dqTaken')
        PROVE  /\ dqTaken'[k].elem \in 1 .. Done'
               /\ \A i \in T : dqTaken'[k].elem # Elem(i)' /\ (dqTaken'[k].by = "thief" => dqTaken'[k].elem < Elem(i)')
    <2>1. CASE k \in D
      BY <2>1, <1>b, <1>d, <1>o
    <2>2. CASE k = n
      BY <2>2, <1>b, <1>w, <1>o, <1>c, <1>s
    <2>3. QED
      BY <2>1, <2>2, <1>b
  <1>5. ASSUME NEW k \in DOMAIN (dqTaken'), NEW l \in DOMAIN (dqTaken'), k < l
        PROVE  /\ dqTaken'[k].elem # dqTaken'[l].elem
               /\ dqTaken'[k].by = "thief" /\ dqTaken'[l].by = "thief" => dqTaken'[k].elem < dqTaken'[l].elem
    <2>1. CASE k \in D /\ l \in D
      BY <2>1, <1>5, <1>b, <1>u
    <2>2. CASE k \in D /\ l = n
      BY <2>2, <1>b, <1>d, <1>s
    <2>3. CASE k = n
      <3>1. l \in Nat /\ l <= n
        BY <1>b
      <3>2. QED
        BY <3>1, <2>3, <1>5, <1>b
    <2>4. QED
      BY <2>1, <2>2, <2>3, <1>b
  <1>6. QED
    BY <1>1, <1>2, <1>3, <1>4, <1>5, <1>b DEF ElemsHold, T

\* A step of a thief that does not claim.
ThiefLeaves == UNCHANGED <<OwnerSide, dqTop, dqTaken, delayed>>

\* A thief's step that takes nothing leaves the owner's side of the invariant.
LEMMA OwnerKept ==
  ASSUME DqInv, ThiefLeaves
  PROVE  /\ BoundsHold' /\ ElemsHold' /\ End' = End /\ mem' = mem /\ dqTop' = dqTop /\ freed' = freed /\ retired' = retired
         /\ dqOwn' = dqOwn /\ \A i : Elem(i)' = Elem(i)
  <1>0. /\ mem' = mem /\ dqTop' = dqTop /\ dqOwn' = dqOwn /\ dqPushed' = dqPushed /\ dqTaken' = dqTaken
        /\ freed' = freed /\ retired' = retired
    BY DEF ThiefLeaves, OwnerSide
  <1>1. End' = End /\ Done' = Done /\ \A i : Elem(i)' = Elem(i)
    BY <1>0 DEF End, Done, Elem
  <1>2. BoundsHold'
    <2>1. BoundsHold
      BY DEF DqInv
    <2>2. QED
      BY <2>1, <1>0, <1>1 DEF BoundsHold
  <1>3. ElemsHold'
    BY <1>0, <1>1, ElemsStay DEF DqInv
  <1>4. QED
    BY <1>0, <1>1, <1>2, <1>3

\* A thief's step that takes nothing, by what it does to its locals, the slots and the count.
LEMMA ThiefStep ==
  ASSUME DqInv, ThiefLeaves, NEW w \in Thieves, NEW r \in ThfRecs, thf' = [thf EXCEPT ![w] = r],
         slots' \in [0 .. DqMaxThieves - 1 -> Nat \cup {Inactive}], thiefCount' \in Nat,
         StealHolds(w)',
         Registered(r) => /\ r.id \in 0 .. DqMaxThieves - 1 /\ r.id < thiefCount'
                          /\ \A v \in Thieves : v # w /\ Registered(thf[v]) => thf[v].id # r.id,
         r.pc \in Announced \cup {"announce"} => r.e <= mem.epoch,
         r.pc \in Announced => slots'[r.id] = r.e,
         \A v \in Thieves : v # w /\ Registered(thf[v]) =>
           thf[v].id < thiefCount' /\ (thf[v].pc \in Announced => slots'[thf[v].id] = slots[thf[v].id]),
         CountHolds',
         r.pc = "read" => /\ r.e < r.buf /\ r.buf \notin freed /\ ~(r.buf < mem.buffer)
  PROVE  DqInv'
  <1>i. DqTypeOK /\ EpochsHold /\ \A v \in Thieves : StealHolds(v) /\ SlotHolds(v)
    BY DEF DqInv
  <1>k. /\ BoundsHold' /\ ElemsHold' /\ End' = End /\ mem' = mem /\ dqTop' = dqTop /\ freed' = freed /\ retired' = retired
        /\ dqOwn' = dqOwn /\ \A i : Elem(i)' = Elem(i)
    BY OwnerKept
  <1>t. thf \in [Thieves -> ThfRecs]
    BY <1>i, ThiefFacts
  <1>w. thf' \in [Thieves -> ThfRecs] /\ thf'[w] = r /\ \A v \in Thieves : v # w => thf'[v] = thf[v]
    BY <1>t
  <1>1. DqTypeOK'
    BY <1>i, <1>w DEF DqTypeOK, ThiefLeaves, OwnerSide
  <1>2. EpochsHold'
    <2>1. \A v \in Thieves : thf'[v].pc = "read" => thf'[v].e < thf'[v].buf /\ thf'[v].buf \notin freed
      BY <1>i, <1>w DEF EpochsHold
    <2>2. ASSUME dqOwn.pc = "scan"
          PROVE  /\ dqOwn.at <= dqOwn.count
                 /\ \A v \in Thieves : thf'[v].pc = "read" /\ thf'[v].buf < mem.buffer =>
                       thf'[v].id < dqOwn.count /\ (thf'[v].id < dqOwn.at => dqOwn.least # Inactive /\ dqOwn.least <= thf'[v].e)
      BY <2>2, <1>i, <1>w DEF EpochsHold
    <2>3. QED
      BY <2>1, <2>2, <1>i, <1>k DEF EpochsHold
  <1>3. ASSUME NEW v \in Thieves PROVE StealHolds(v)'
    <2>1. CASE v = w
      BY <2>1
    <2>2. CASE v # w
      <3>1. thf'[v] = thf[v] /\ StealHolds(v)
        BY <2>2, <1>w, <1>i
      <3>2. QED
        BY <3>1, <1>k DEF StealHolds
    <2>3. QED
      BY <2>1, <2>2
  <1>4. ASSUME NEW v \in Thieves PROVE SlotHolds(v)'
    <2>0. \A u \in Thieves : u # w => SlotHolds(u)
      BY <1>i
    <2>1. CASE v = w
      BY <2>1, <1>w, <1>k DEF SlotHolds, Registered, Announced
    <2>2. CASE v # w
      <3>1. thf'[v] = thf[v] /\ SlotHolds(v)
        BY <2>2, <1>w, <1>i
      <3>2. Registered(thf[v]) => thf[v].id \in 0 .. DqMaxThieves - 1 /\ thf[v].id < thiefCount'
        BY <3>1, <2>2 DEF SlotHolds, Registered
      <3>3. \A u \in Thieves : u # v /\ Registered(thf'[u]) /\ Registered(thf[v]) => thf'[u].id # thf[v].id
        BY <3>1, <2>2, <1>w DEF SlotHolds, Registered
      <3>4. thf[v].pc \in Announced \cup {"announce"} => thf[v].e <= mem.epoch
        BY <3>1 DEF SlotHolds
      <3>5. thf[v].pc \in Announced => slots'[thf[v].id] = thf[v].e
        BY <3>1, <2>2 DEF SlotHolds, Registered, Announced
      <3>6. QED
        BY <3>1, <3>2, <3>3, <3>4, <3>5, <1>k DEF SlotHolds, Registered
    <2>3. QED
      BY <2>1, <2>2
  <1>5. QED
    BY <1>1, <1>2, <1>3, <1>4, <1>k DEF DqInv

\* The locals, the slots and the count of a step of one thief leave CountHolds alone when
\* neither the refused thieves nor the count change.
LEMMA CountKept ==
  ASSUME DqInv, NEW w \in Thieves, NEW r \in ThfRecs, thf' = [thf EXCEPT ![w] = r], thiefCount' = thiefCount,
         thf[w].pc # "refused", r.pc # "refused"
  PROVE  CountHolds'
  <1>1. thf \in [Thieves -> ThfRecs] /\ CountHolds
    BY ThiefFacts DEF DqInv
  <1>2. Refused' = Refused
    BY <1>1 DEF Refused
  <1>3. QED
    BY <1>1, <1>2 DEF CountHolds

\* The thief's step that begins every case.
LEMMA ThiefKnown ==
  ASSUME DqInv, NEW w \in Thieves
  PROVE  /\ thf \in [Thieves -> ThfRecs] /\ thf[w] \in ThfRecs /\ StealHolds(w) /\ SlotHolds(w)
         /\ slots \in [0 .. DqMaxThieves - 1 -> Nat \cup {Inactive}] /\ thiefCount \in Nat /\ mem.epoch \in Nat
         /\ thf[w].id \in Int /\ thf[w].e \in Nat /\ thf[w].t \in Nat /\ thf[w].round \in Nat
         /\ \A v \in Thieves : Registered(thf[v]) =>
              /\ thf[v].id \in 0 .. DqMaxThieves - 1 /\ thf[v].id < thiefCount
              /\ \A u \in Thieves : u # v /\ Registered(thf[u]) => thf[u].id # thf[v].id
  <1>1. DqTypeOK /\ \A v \in Thieves : StealHolds(v) /\ SlotHolds(v)
    BY DEF DqInv
  <1>2. slots \in [0 .. DqMaxThieves - 1 -> Nat \cup {Inactive}] /\ thiefCount \in Nat /\ mem.epoch \in Nat
    BY <1>1, MemFacts DEF DqTypeOK
  <1>3. \A v \in Thieves : Registered(thf[v]) =>
              /\ thf[v].id \in 0 .. DqMaxThieves - 1 /\ thf[v].id < thiefCount
              /\ \A u \in Thieves : u # v /\ Registered(thf[u]) => thf[u].id # thf[v].id
    BY <1>1 DEF SlotHolds, Registered
  <1>4. QED
    BY <1>1, <1>2, <1>3, ThiefFacts

\* A steal begins: the epoch is read.
LEMMA StealInv == ASSUME DqInv, UNCHANGED delayed, NEW w \in Thieves, CL_DEQUE_STEAL(w) PROVE DqInv'
  <1>0. /\ thf[w] \in ThfRecs /\ SlotHolds(w) /\ thf \in [Thieves -> ThfRecs] /\ mem.epoch \in Nat
        /\ slots \in [0 .. DqMaxThieves - 1 -> Nat \cup {Inactive}] /\ thiefCount \in Nat /\ thf[w].round \in Nat
    BY ThiefKnown
  <1>f. ThiefLeaves /\ slots' = slots /\ thiefCount' = thiefCount /\ thf[w].pc = "in"
    BY DEF ThiefLeaves, CL_DEQUE_STEAL
  <1>r. PICK r \in ThfRecs : r.pc = "announce" /\ r.e = mem.epoch /\ r.id = thf[w].id /\ thf' = [thf EXCEPT ![w] = r]
    <2>0. PICK n \in Nat : n = thf[w].round + 1
      BY <1>0
    <2>1. PICK r : r = [thf[w] EXCEPT !.pc = "announce", !.e = mem.epoch, !.round = n]
      OBVIOUS
    <2>2. thf' = [thf EXCEPT ![w] = r]
      BY <2>0, <2>1, <1>0 DEF CL_DEQUE_STEAL
    <2>3. r \in ThfRecs /\ r.pc = "announce" /\ r.e = mem.epoch /\ r.id = thf[w].id
      BY <2>1, <1>0 DEF ThfRecs
    <2>4. QED
      BY <2>2, <2>3
  <1>w. thf'[w] = r
    BY <1>r, <1>0
  <1>1. StealHolds(w)'
    BY <1>w, <1>r DEF StealHolds
  <1>2. CountHolds'
    BY <1>f, <1>r, CountKept
  <1>3. Registered(thf[w]) /\ Registered(r) /\ r.pc \notin Announced /\ r.pc # "read" /\ r.e <= mem.epoch
    BY <1>f, <1>r, <1>0 DEF Registered, Announced
  <1>4. QED
    BY <1>f, <1>r, <1>1, <1>2, <1>3, <1>0, ThiefKnown, ThiefStep

\* The epoch is announced in the thief's own slot, which is nobody else's.
LEMMA AnnounceInv == ASSUME DqInv, UNCHANGED delayed, NEW w \in Thieves, StealAnnounce(w) PROVE DqInv'
  <1>0. /\ thf[w] \in ThfRecs /\ SlotHolds(w) /\ thf \in [Thieves -> ThfRecs] /\ mem.epoch \in Nat
        /\ slots \in [0 .. DqMaxThieves - 1 -> Nat \cup {Inactive}] /\ thiefCount \in Nat /\ thf[w].e \in Nat
    BY ThiefKnown
  <1>f. ThiefLeaves /\ slots' = [slots EXCEPT ![thf[w].id] = thf[w].e] /\ thiefCount' = thiefCount /\ thf[w].pc = "announce"
    BY DEF ThiefLeaves, StealAnnounce
  <1>r. PICK r \in ThfRecs : r.pc = "top" /\ r.e = thf[w].e /\ r.id = thf[w].id /\ thf' = [thf EXCEPT ![w] = r]
    <2>1. PICK r : r = [thf[w] EXCEPT !.pc = "top"]
      OBVIOUS
    <2>2. thf' = [thf EXCEPT ![w] = r]
      BY <2>1, <1>0 DEF StealAnnounce
    <2>3. r \in ThfRecs /\ r.pc = "top" /\ r.e = thf[w].e /\ r.id = thf[w].id
      BY <2>1, <1>0 DEF ThfRecs, Announced
    <2>4. QED
      BY <2>2, <2>3
  <1>w. thf'[w] = r
    BY <1>r, <1>0
  <1>1. StealHolds(w)'
    BY <1>w, <1>r DEF StealHolds
  <1>2. CountHolds'
    BY <1>f, <1>r, CountKept
  <1>3. Registered(thf[w]) /\ Registered(r) /\ r.pc # "read" /\ thf[w].e <= mem.epoch
    BY <1>f, <1>r, <1>0 DEF Registered, SlotHolds
  <1>4. /\ slots' \in [0 .. DqMaxThieves - 1 -> Nat \cup {Inactive}] /\ slots'[r.id] = r.e
        /\ \A v \in Thieves : v # w /\ Registered(thf[v]) => slots'[thf[v].id] = slots[thf[v].id]
    BY <1>f, <1>r, <1>0, <1>3, ThiefKnown
  <1>5. QED
    BY <1>f, <1>r, <1>1, <1>2, <1>3, <1>4, <1>0, ThiefKnown, ThiefStep

\* Top is read; it only grows afterwards.
LEMMA StealTopInv == ASSUME DqInv, UNCHANGED delayed, NEW w \in Thieves, StealTop(w) PROVE DqInv'
  <1>0. /\ thf[w] \in ThfRecs /\ SlotHolds(w) /\ thf \in [Thieves -> ThfRecs] /\ mem.epoch \in Nat
        /\ slots \in [0 .. DqMaxThieves - 1 -> Nat \cup {Inactive}] /\ thiefCount \in Nat /\ dqTop \in Nat
    BY ThiefKnown DEF DqInv, DqTypeOK
  <1>f. ThiefLeaves /\ slots' = slots /\ thiefCount' = thiefCount /\ thf[w].pc = "top" /\ dqTop' = dqTop
    BY DEF ThiefLeaves, StealTop
  <1>r. PICK r \in ThfRecs : r.pc = "bottom" /\ r.e = thf[w].e /\ r.id = thf[w].id /\ r.t = dqTop /\ thf' = [thf EXCEPT ![w] = r]
    <2>1. PICK r : r = [thf[w] EXCEPT !.pc = "bottom", !.t = dqTop]
      OBVIOUS
    <2>2. thf' = [thf EXCEPT ![w] = r]
      BY <2>1, <1>0 DEF StealTop
    <2>3. r \in ThfRecs /\ r.pc = "bottom" /\ r.e = thf[w].e /\ r.id = thf[w].id /\ r.t = dqTop
      BY <2>1, <1>0 DEF ThfRecs, Announced
    <2>4. QED
      BY <2>2, <2>3
  <1>w. thf'[w] = r
    BY <1>r, <1>0
  <1>1. StealHolds(w)'
    BY <1>w, <1>r, <1>f, <1>0 DEF StealHolds
  <1>2. CountHolds'
    BY <1>f, <1>r, CountKept
  <1>3. Registered(thf[w]) /\ Registered(r) /\ r.pc # "read" /\ thf[w].e <= mem.epoch /\ slots'[r.id] = r.e
    BY <1>f, <1>r, <1>0 DEF Registered, SlotHolds, Announced
  <1>4. QED
    BY <1>f, <1>r, <1>1, <1>2, <1>3, <1>0, ThiefKnown, ThiefStep

\* Bottom is read: if top stays, there is an element at top, also while a take has lowered bottom.
LEMMA StealBottomInv == ASSUME DqInv, UNCHANGED delayed, NEW w \in Thieves, StealBottom(w) PROVE DqInv'
  <1>0. /\ thf[w] \in ThfRecs /\ SlotHolds(w) /\ StealHolds(w) /\ thf \in [Thieves -> ThfRecs] /\ mem.epoch \in Nat
        /\ slots \in [0 .. DqMaxThieves - 1 -> Nat \cup {Inactive}] /\ thiefCount \in Nat /\ thf[w].t \in Nat
        /\ mem.bottom \in Int /\ dqTop \in Nat /\ End \in Int
    BY ThiefKnown, MemFacts DEF DqInv
  <1>f. ThiefLeaves /\ slots' = slots /\ thiefCount' = thiefCount /\ thf[w].pc = "bottom" /\ dqTop' = dqTop /\ End' = End
    BY OwnerKept DEF ThiefLeaves, StealBottom
  <1>r. PICK r \in ThfRecs : /\ r.pc = IF mem.bottom - thf[w].t <= 0 THEN "leave" ELSE "buffer"
                             /\ r.e = thf[w].e /\ r.id = thf[w].id /\ r.t = thf[w].t /\ thf' = [thf EXCEPT ![w] = r]
    <2>1. PICK r : r = [thf[w] EXCEPT !.pc = IF mem.bottom - thf[w].t <= 0 THEN "leave" ELSE "buffer"]
      OBVIOUS
    <2>2. thf' = [thf EXCEPT ![w] = r]
      BY <2>1, <1>0 DEF StealBottom
    <2>3. r \in ThfRecs /\ r.pc = (IF mem.bottom - thf[w].t <= 0 THEN "leave" ELSE "buffer") /\ r.e = thf[w].e /\ r.id = thf[w].id /\ r.t = thf[w].t
      BY <2>1, <1>0 DEF ThfRecs, Announced
    <2>4. QED
      BY <2>2, <2>3
  <1>w. thf'[w] = r
    BY <1>r, <1>0
  <1>1. StealHolds(w)'
    <2>1. thf[w].t <= dqTop
      BY <1>0, <1>f DEF StealHolds
    <2>2. r.pc = "buffer" /\ r.t = dqTop => dqTop < End
      <3>1. mem.bottom <= End
        BY <1>0 DEF End
      <3>2. r.pc = "buffer" => ~(mem.bottom - thf[w].t <= 0)
        BY <1>r
      <3>3. QED
        BY <3>1, <3>2, <1>0, <1>r
    <2>3. QED
      BY <2>1, <2>2, <1>w, <1>r, <1>f DEF StealHolds
  <1>2. CountHolds'
    BY <1>f, <1>r, CountKept
  <1>3. Registered(thf[w]) /\ Registered(r) /\ r.pc # "read" /\ thf[w].e <= mem.epoch /\ slots'[r.id] = r.e
    BY <1>f, <1>r, <1>0 DEF Registered, SlotHolds, Announced
  <1>4. QED
    BY <1>f, <1>r, <1>1, <1>2, <1>3, <1>0, ThiefKnown, ThiefStep

\* The buffer is read: its number is past the epoch announced, and it is not retired yet.
LEMMA StealBufferInv == ASSUME DqInv, UNCHANGED delayed, NEW w \in Thieves, StealBuffer(w) PROVE DqInv'
  <1>0. /\ thf[w] \in ThfRecs /\ SlotHolds(w) /\ StealHolds(w) /\ thf \in [Thieves -> ThfRecs] /\ mem.epoch \in Nat
        /\ slots \in [0 .. DqMaxThieves - 1 -> Nat \cup {Inactive}] /\ thiefCount \in Nat /\ thf[w].t \in Nat /\ thf[w].e \in Nat
        /\ mem.buffer \in 1 .. DqBufs /\ mem.buffer \in Nat /\ dqTop \in Nat /\ End \in Int
    BY ThiefKnown, MemFacts DEF DqInv
  <1>f. /\ ThiefLeaves /\ slots' = slots /\ thiefCount' = thiefCount /\ thf[w].pc = "buffer" /\ dqTop' = dqTop /\ End' = End /\ mem' = mem
        /\ \A i : Elem(i)' = Elem(i)
    BY OwnerKept DEF ThiefLeaves, StealBuffer
  <1>r. PICK r \in ThfRecs : /\ r.pc = "read" /\ r.buf = mem.buffer
                             /\ r.e = thf[w].e /\ r.id = thf[w].id /\ r.t = thf[w].t /\ thf' = [thf EXCEPT ![w] = r]
    <2>1. PICK r : r = [thf[w] EXCEPT !.pc = "read", !.buf = mem.buffer]
      OBVIOUS
    <2>2. thf' = [thf EXCEPT ![w] = r]
      BY <2>1, <1>0 DEF StealBuffer
    <2>3. r \in ThfRecs /\ r.pc = "read" /\ r.buf = mem.buffer /\ r.e = thf[w].e /\ r.id = thf[w].id /\ r.t = thf[w].t
      BY <2>1, <1>0 DEF ThfRecs, Announced
    <2>4. QED
      BY <2>2, <2>3
  <1>w. thf'[w] = r
    BY <1>r, <1>0
  <1>1. StealHolds(w)'
    <2>1. thf[w].t <= dqTop /\ (thf[w].t = dqTop => dqTop < End)
      BY <1>0, <1>f DEF StealHolds
    <2>2. mem.buffer \in 1 .. mem.buffer
      BY <1>0
    <2>3. Elem(dqTop) = mem.data[mem.buffer][DqSlot(mem.buffer, dqTop)]
      BY DEF Elem
    <2>4. QED
      BY <2>1, <2>2, <2>3, <1>w, <1>r, <1>f DEF StealHolds
  <1>2. CountHolds'
    BY <1>f, <1>r, CountKept
  <1>3. Registered(thf[w]) /\ Registered(r) /\ thf[w].e <= mem.epoch /\ slots'[r.id] = r.e
    BY <1>f, <1>r, <1>0 DEF Registered, SlotHolds, Announced
  <1>4. r.e < r.buf /\ r.buf \notin freed /\ ~(r.buf < mem.buffer)
    <2>1. EpochsHold
      BY DEF DqInv
    <2>2. mem.epoch < mem.buffer /\ mem.buffer \notin freed
      BY <2>1, <1>0 DEF EpochsHold
    <2>3. QED
      BY <2>2, <1>r, <1>3, <1>0
  <1>5. QED
    BY <1>f, <1>r, <1>1, <1>2, <1>3, <1>4, <1>0, ThiefKnown, ThiefStep

\* The element is read; if top stays, it is the element of top in every buffer that was ever current.
LEMMA StealReadInv == ASSUME DqInv, UNCHANGED delayed, NEW w \in Thieves, StealRead(w) PROVE DqInv'
  <1>0. /\ thf[w] \in ThfRecs /\ SlotHolds(w) /\ StealHolds(w) /\ thf \in [Thieves -> ThfRecs] /\ mem.epoch \in Nat
        /\ slots \in [0 .. DqMaxThieves - 1 -> Nat \cup {Inactive}] /\ thiefCount \in Nat /\ thf[w].t \in Nat /\ thf[w].e \in Nat
        /\ mem.buffer \in 1 .. DqBufs /\ mem.buffer \in Nat /\ dqTop \in Nat /\ End \in Int
    BY ThiefKnown, MemFacts DEF DqInv
  <1>f. /\ ThiefLeaves /\ slots' = slots /\ thiefCount' = thiefCount /\ thf[w].pc = "read" /\ dqTop' = dqTop /\ End' = End /\ mem' = mem
        /\ \A i : Elem(i)' = Elem(i)
    BY OwnerKept DEF ThiefLeaves, StealRead
  <1>x. PICK x \in Nat : x = mem.data[thf[w].buf][DqSlot(thf[w].buf, thf[w].t)]
    <2>1. thf[w].buf \in 1 .. DqBufs
      BY <1>0, <1>f, DqConsts DEF StealHolds
    <2>2. QED
      BY <2>1, <1>0, MemFacts DEF DqInv
  <1>r. PICK r \in ThfRecs : /\ r.pc = "claim" /\ r.elem = x
                             /\ r.e = thf[w].e /\ r.id = thf[w].id /\ r.t = thf[w].t /\ thf' = [thf EXCEPT ![w] = r]
    <2>1. PICK r : r = [thf[w] EXCEPT !.pc = "claim", !.elem = x]
      OBVIOUS
    <2>2. thf' = [thf EXCEPT ![w] = r]
      BY <2>1, <1>0, <1>x DEF StealRead
    <2>3. r \in ThfRecs /\ r.pc = "claim" /\ r.elem = x /\ r.e = thf[w].e /\ r.id = thf[w].id /\ r.t = thf[w].t
      BY <2>1, <1>0 DEF ThfRecs, Announced
    <2>4. QED
      BY <2>2, <2>3
  <1>w. thf'[w] = r
    BY <1>r, <1>0
  <1>1. StealHolds(w)'
    <2>1. thf[w].t <= dqTop /\ (thf[w].t = dqTop => dqTop < End) /\ (thf[w].t = dqTop => x = Elem(dqTop))
      BY <1>0, <1>f, <1>x DEF StealHolds
    <2>2. QED
      BY <2>1, <1>w, <1>r, <1>f DEF StealHolds
  <1>2. CountHolds'
    BY <1>f, <1>r, CountKept
  <1>3. Registered(thf[w]) /\ Registered(r) /\ thf[w].e <= mem.epoch /\ slots'[r.id] = r.e /\ r.pc # "read"
    BY <1>f, <1>r, <1>0 DEF Registered, SlotHolds, Announced
  <1>4. QED
    BY <1>f, <1>r, <1>1, <1>2, <1>3, <1>0, ThiefKnown, ThiefStep

\* The thief's slot is cleared.
LEMMA StealLeaveInv == ASSUME DqInv, UNCHANGED delayed, NEW w \in Thieves, StealLeave(w) PROVE DqInv'
  <1>0. /\ thf[w] \in ThfRecs /\ SlotHolds(w) /\ thf \in [Thieves -> ThfRecs] /\ mem.epoch \in Nat
        /\ slots \in [0 .. DqMaxThieves - 1 -> Nat \cup {Inactive}] /\ thiefCount \in Nat
        /\ thf[w].id \in Int /\ thf[w].round \in Nat
    BY ThiefKnown
  <1>f. ThiefLeaves /\ slots' = [slots EXCEPT ![thf[w].id] = Inactive] /\ thiefCount' = thiefCount /\ thf[w].pc = "leave"
    BY DEF ThiefLeaves, StealLeave
  <1>r. PICK r \in ThfRecs : r.pc = "in" /\ r.id = thf[w].id /\ thf' = [thf EXCEPT ![w] = r]
    <2>0. PICK o \in ThfRecs : o = ThiefOut
      <3>1. ThiefOut \in ThfRecs
        BY DEF ThiefOut, ThfRecs, Inactive
      <3>2. QED
        BY <3>1
    <2>1. PICK r : r = [o EXCEPT !.pc = "in", !.id = thf[w].id, !.round = thf[w].round]
      OBVIOUS
    <2>2. r = [ThiefOut EXCEPT !.pc = "in", !.id = thf[w].id, !.round = thf[w].round]
      BY <2>0, <2>1
    <2>3. thf' = [thf EXCEPT ![w] = r]
      BY <2>2, <1>0 DEF StealLeave
    <2>4. r \in ThfRecs /\ r.pc = "in" /\ r.id = thf[w].id
      BY <2>1, <1>0 DEF ThfRecs, Announced
    <2>5. QED
      BY <2>3, <2>4
  <1>w. thf'[w] = r
    BY <1>r, <1>0
  <1>1. StealHolds(w)'
    BY <1>w, <1>r DEF StealHolds
  <1>2. CountHolds'
    BY <1>f, <1>r, CountKept
  <1>3. Registered(thf[w]) /\ Registered(r) /\ r.pc # "read" /\ r.pc \notin Announced \cup {"announce"}
    BY <1>f, <1>r DEF Registered, Announced
  <1>4. /\ slots' \in [0 .. DqMaxThieves - 1 -> Nat \cup {Inactive}]
        /\ \A v \in Thieves : v # w /\ Registered(thf[v]) => slots'[thf[v].id] = slots[thf[v].id]
    BY <1>f, <1>0, <1>3, ThiefKnown
  <1>5. QED
    BY <1>f, <1>r, <1>1, <1>2, <1>3, <1>4, <1>0, ThiefKnown, ThiefStep

\* A slot given up is cleared and not used again.
LEMMA UnregisterInv == ASSUME DqInv, UNCHANGED delayed, NEW w \in Thieves, CL_DEQUE_UNREGISTER_THIEF(w) PROVE DqInv'
  <1>0. /\ thf[w] \in ThfRecs /\ SlotHolds(w) /\ thf \in [Thieves -> ThfRecs] /\ mem.epoch \in Nat
        /\ slots \in [0 .. DqMaxThieves - 1 -> Nat \cup {Inactive}] /\ thiefCount \in Nat
        /\ thf[w].id \in Int /\ thf[w].round \in Nat
    BY ThiefKnown
  <1>f. ThiefLeaves /\ slots' = [slots EXCEPT ![thf[w].id] = Inactive] /\ thiefCount' = thiefCount /\ thf[w].pc = "in"
    BY DEF ThiefLeaves, CL_DEQUE_UNREGISTER_THIEF
  <1>r. PICK r \in ThfRecs : r.pc = "out" /\ thf' = [thf EXCEPT ![w] = r]
    <2>1. PICK r : r = [thf[w] EXCEPT !.pc = "out", !.id = Inactive]
      OBVIOUS
    <2>3. thf' = [thf EXCEPT ![w] = r]
      BY <2>1, <1>0 DEF CL_DEQUE_UNREGISTER_THIEF
    <2>i. PICK i \in Int : i = Inactive
      BY DEF Inactive
    <2>p. "out" \in {"out", "refused", "in", "announce"} \cup Announced
      OBVIOUS
    <2>4. r \in ThfRecs /\ r.pc = "out"
      BY <2>1, <2>i, <2>p, <1>0 DEF ThfRecs
    <2>5. QED
      BY <2>3, <2>4
  <1>w. thf'[w] = r
    BY <1>r, <1>0
  <1>1. StealHolds(w)'
    BY <1>w, <1>r DEF StealHolds
  <1>2. CountHolds'
    BY <1>f, <1>r, CountKept
  <1>3. Registered(thf[w]) /\ ~Registered(r) /\ r.pc # "read" /\ r.pc \notin Announced \cup {"announce"}
    BY <1>f, <1>r DEF Registered, Announced
  <1>4. /\ slots' \in [0 .. DqMaxThieves - 1 -> Nat \cup {Inactive}]
        /\ \A v \in Thieves : v # w /\ Registered(thf[v]) => slots'[thf[v].id] = slots[thf[v].id]
    BY <1>f, <1>0, <1>3, ThiefKnown
  <1>5. QED
    BY <1>f, <1>r, <1>1, <1>2, <1>3, <1>4, <1>0, ThiefKnown, ThiefStep

\* The refused thieves are finitely many.
LEMMA RefusedFinite == IsFiniteSet(Refused) /\ Cardinality(Refused) \in Nat /\ (Cardinality(Refused) = 0 <=> Refused = {})
  <1>1. Refused \subseteq Thieves
    BY DEF Refused
  <1>2. IsFiniteSet(Refused)
    BY <1>1, DqConsts, FS_Subset
  <1>3. QED
    BY <1>2, FS_CardinalityType, FS_EmptySet

\* A slot is claimed by counting up; a count past the array is a refusal.
LEMMA RegisterInv == ASSUME DqInv, UNCHANGED delayed, NEW w \in Thieves, CL_DEQUE_REGISTER_THIEF(w) PROVE DqInv'
  <1>0. /\ thf[w] \in ThfRecs /\ SlotHolds(w) /\ thf \in [Thieves -> ThfRecs] /\ mem.epoch \in Nat
        /\ slots \in [0 .. DqMaxThieves - 1 -> Nat \cup {Inactive}] /\ thiefCount \in Nat
        /\ thf[w].id \in Int /\ thf[w].round \in Nat /\ DqMaxThieves \in Nat
    BY ThiefKnown, DqConsts
  <1>f. /\ ThiefLeaves /\ thiefCount' = thiefCount + 1 /\ thf[w].pc = "out"
        /\ slots' = IF thiefCount >= DqMaxThieves THEN slots ELSE [slots EXCEPT ![thiefCount] = Inactive]
    BY DEF ThiefLeaves, CL_DEQUE_REGISTER_THIEF
  <1>r. PICK r \in ThfRecs : /\ r.pc = IF thiefCount >= DqMaxThieves THEN "refused" ELSE "in"
                             /\ r.id = thiefCount /\ thf' = [thf EXCEPT ![w] = r]
    <2>0. PICK n \in Nat : n = thf[w].round + 1
      BY <1>0
    <2>p. PICK p \in {"refused", "in"} : p = IF thiefCount >= DqMaxThieves THEN "refused" ELSE "in"
      OBVIOUS
    <2>1. PICK r : r = [thf[w] EXCEPT !.id = thiefCount, !.round = n, !.pc = p]
      OBVIOUS
    <2>3. thf' = [thf EXCEPT ![w] = r]
      BY <2>0, <2>1, <2>p, <1>0 DEF CL_DEQUE_REGISTER_THIEF
    <2>i. PICK i \in Int : i = thiefCount
      BY <1>0
    <2>q. p \in {"out", "refused", "in", "announce"} \cup Announced
      BY <2>p
    <2>4. r \in ThfRecs /\ r.pc = p /\ r.id = thiefCount
      BY <2>1, <2>i, <2>q, <1>0 DEF ThfRecs
    <2>5. QED
      BY <2>3, <2>4, <2>p
  <1>w. thf'[w] = r /\ \A v \in Thieves : v # w => thf'[v] = thf[v]
    BY <1>r, <1>0
  <1>1. StealHolds(w)'
    BY <1>w, <1>r DEF StealHolds
  <1>c. CountHolds /\ IsFiniteSet(Refused) /\ Cardinality(Refused) \in Nat /\ (Cardinality(Refused) = 0 <=> Refused = {}) /\ w \notin Refused
    BY RefusedFinite, <1>f DEF DqInv, Refused
  <1>2. CountHolds'
    <2>1. CASE thiefCount >= DqMaxThieves
      <3>1. Refused' = Refused \cup {w}
        BY <2>1, <1>w, <1>r DEF Refused
      <3>2. Cardinality(Refused \cup {w}) = Cardinality(Refused) + 1
        BY <1>c, FS_AddElement
      <3>3. thiefCount = DqMaxThieves + Cardinality(Refused)
        BY <1>c, <1>0, <2>1 DEF CountHolds
      <3>4. thiefCount' = DqMaxThieves + Cardinality(Refused') /\ Refused' # {}
        BY <3>1, <3>2, <3>3, <1>f, <1>c, <1>0
      <3>5. QED
        BY <3>4 DEF CountHolds
    <2>2. CASE thiefCount < DqMaxThieves
      <3>1. Refused = {}
        BY <2>2, <1>c, <1>0 DEF CountHolds
      <3>2. r.pc = "in"
        BY <2>2, <1>r, <1>0
      <3>3. Refused' = Refused
        BY <3>2, <1>w, <1>f DEF Refused
      <3>4. thiefCount' <= DqMaxThieves
        BY <2>2, <1>f, <1>0
      <3>5. QED
        BY <3>1, <3>3, <3>4 DEF CountHolds
    <2>3. QED
      BY <2>1, <2>2, <1>0
  <1>3. r.pc # "read" /\ r.pc \notin Announced \cup {"announce"}
    BY <1>r DEF Announced
  <1>v. \A v \in Thieves : Registered(thf[v]) => thf[v].id \in Int /\ thf[v].id < thiefCount
    BY ThiefKnown
  <1>4. /\ slots' \in [0 .. DqMaxThieves - 1 -> Nat \cup {Inactive}]
        /\ \A v \in Thieves : v # w /\ Registered(thf[v]) => slots'[thf[v].id] = slots[thf[v].id]
    <2>1. CASE thiefCount >= DqMaxThieves
      BY <2>1, <1>f, <1>0
    <2>2. CASE thiefCount < DqMaxThieves
      <3>1. slots' = [slots EXCEPT ![thiefCount] = Inactive]
        BY <2>2, <1>f, <1>0
      <3>2. slots' \in [0 .. DqMaxThieves - 1 -> Nat \cup {Inactive}]
        BY <3>1, <1>0
      <3>3. ASSUME NEW v \in Thieves, v # w, Registered(thf[v]) PROVE slots'[thf[v].id] = slots[thf[v].id]
        <4>1. thf[v].id \in 0 .. DqMaxThieves - 1 /\ thf[v].id # thiefCount
          BY <3>3, <1>v, <1>0, ThiefKnown
        <4>2. QED
          BY <4>1, <3>1, <1>0
      <3>4. QED
        BY <3>2, <3>3
    <2>3. QED
      BY <2>1, <2>2, <1>0
  <1>5. Registered(r) => /\ r.id \in 0 .. DqMaxThieves - 1 /\ r.id < thiefCount'
                         /\ \A v \in Thieves : v # w /\ Registered(thf[v]) => thf[v].id # r.id
    <2> SUFFICES ASSUME Registered(r) PROVE /\ r.id \in 0 .. DqMaxThieves - 1 /\ r.id < thiefCount'
                         /\ \A v \in Thieves : v # w /\ Registered(thf[v]) => thf[v].id # r.id
      OBVIOUS
    <2>1. thiefCount < DqMaxThieves
      BY <1>r, <1>0 DEF Registered
    <2>2. r.id \in 0 .. DqMaxThieves - 1 /\ r.id < thiefCount'
      BY <2>1, <1>r, <1>f, <1>0
    <2>3. QED
      BY <2>2, <1>r, <1>v, <1>0
  <1>6. \A v \in Thieves : v # w /\ Registered(thf[v]) => thf[v].id < thiefCount'
    BY <1>v, <1>f, <1>0
  <1>7. thiefCount' \in Nat
    BY <1>f, <1>0
  <1>8. QED
    BY <1>f, <1>r, <1>1, <1>2, <1>3, <1>4, <1>5, <1>6, <1>7, ThiefStep

\* A refusal takes its count back, so every slot given out stays below the count.
LEMMA RefusedInv == ASSUME DqInv, UNCHANGED delayed, NEW w \in Thieves, RegisterRefused(w) PROVE DqInv'
  <1>0. /\ thf[w] \in ThfRecs /\ SlotHolds(w) /\ thf \in [Thieves -> ThfRecs] /\ mem.epoch \in Nat
        /\ slots \in [0 .. DqMaxThieves - 1 -> Nat \cup {Inactive}] /\ thiefCount \in Nat
        /\ thf[w].id \in Int /\ thf[w].round \in Nat /\ DqMaxThieves \in Nat
    BY ThiefKnown, DqConsts
  <1>f. ThiefLeaves /\ thiefCount' = thiefCount - 1 /\ thf[w].pc = "refused" /\ slots' = slots
    BY DEF ThiefLeaves, RegisterRefused
  <1>r. PICK r \in ThfRecs : r.pc = "out" /\ thf' = [thf EXCEPT ![w] = r]
    <2>1. PICK r : r = [thf[w] EXCEPT !.pc = "out", !.id = Inactive]
      OBVIOUS
    <2>3. thf' = [thf EXCEPT ![w] = r]
      BY <2>1, <1>0 DEF RegisterRefused
    <2>i. PICK i \in Int : i = Inactive
      BY DEF Inactive
    <2>p. "out" \in {"out", "refused", "in", "announce"} \cup Announced
      OBVIOUS
    <2>4. r \in ThfRecs /\ r.pc = "out"
      BY <2>1, <2>i, <2>p, <1>0 DEF ThfRecs
    <2>5. QED
      BY <2>3, <2>4
  <1>w. thf'[w] = r /\ \A v \in Thieves : v # w => thf'[v] = thf[v]
    BY <1>r, <1>0
  <1>1. StealHolds(w)'
    BY <1>w, <1>r DEF StealHolds
  <1>c. CountHolds /\ IsFiniteSet(Refused) /\ Cardinality(Refused) \in Nat /\ w \in Refused /\ Refused # {}
    BY RefusedFinite, <1>f DEF DqInv, Refused
  <1>d. /\ Refused' = Refused \ {w} /\ thiefCount = DqMaxThieves + Cardinality(Refused)
        /\ Cardinality(Refused \ {w}) = Cardinality(Refused) - 1 /\ IsFiniteSet(Refused \ {w})
    <2>1. Refused' = Refused \ {w}
      BY <1>w, <1>r DEF Refused
    <2>2. thiefCount = DqMaxThieves + Cardinality(Refused)
      BY <1>c DEF CountHolds
    <2>3. Cardinality(Refused \ {w}) = Cardinality(Refused) - 1 /\ IsFiniteSet(Refused \ {w})
      BY <1>c, FS_RemoveElement
    <2>4. QED
      BY <2>1, <2>2, <2>3
  <1>e. thiefCount' = DqMaxThieves + Cardinality(Refused') /\ Cardinality(Refused') \in Nat /\ (Refused' = {} => Cardinality(Refused') = 0)
    <2>1. Cardinality(Refused') \in Nat /\ (Refused' = {} => Cardinality(Refused') = 0)
      BY <1>d, FS_CardinalityType, FS_EmptySet
    <2>2. QED
      BY <2>1, <1>d, <1>f, <1>c, <1>0
  <1>2. CountHolds'
    BY <1>e, <1>0 DEF CountHolds
  <1>3. ~Registered(r) /\ r.pc # "read" /\ r.pc \notin Announced \cup {"announce"}
    BY <1>r DEF Announced, Registered
  <1>4. \A v \in Thieves : v # w /\ Registered(thf[v]) => thf[v].id < thiefCount'
    <2>1. \A v \in Thieves : Registered(thf[v]) => thf[v].id \in 0 .. DqMaxThieves - 1
      BY ThiefKnown
    <2>2. QED
      BY <2>1, <1>e, <1>0
  <1>5. thiefCount' \in Nat
    BY <1>e, <1>0
  <1>6. QED
    BY <1>f, <1>r, <1>0, <1>1, <1>2, <1>3, <1>4, <1>5, ThiefStep

\* Top moves past the element a thief claims or the owner wins.
LEMMA TopMoves ==
  ASSUME DqInv, mem' = mem, dqTop' = dqTop + 1, NEW v \in Thieves, thf'[v] = thf[v]
  PROVE  StealHolds(v)'
  <1>1. StealHolds(v) /\ thf[v].t \in Nat /\ dqTop \in Nat
    BY ThiefKnown DEF DqInv, DqTypeOK
  <1>2. thf[v].pc \in {"bottom", "buffer", "read", "claim"} => thf[v].t <= dqTop + 1 /\ thf[v].t # dqTop + 1
    BY <1>1 DEF StealHolds
  <1>3. QED
    BY <1>1, <1>2 DEF StealHolds

\* A claim that succeeds takes the element of top.
LEMMA StealClaimInv == ASSUME DqInv, UNCHANGED delayed, NEW w \in Thieves, StealClaim(w) PROVE DqInv'
  <1>0. /\ thf[w] \in ThfRecs /\ SlotHolds(w) /\ StealHolds(w) /\ thf \in [Thieves -> ThfRecs] /\ mem.epoch \in Nat
        /\ slots \in [0 .. DqMaxThieves - 1 -> Nat \cup {Inactive}] /\ thiefCount \in Nat /\ thf[w].t \in Nat
        /\ dqTop \in Nat /\ End \in Int /\ Done \in Int /\ mem.bottom \in Int /\ Capacity(mem.buffer) \in Nat
    BY ThiefKnown, MemFacts DEF DqInv
  <1>i. DqTypeOK /\ BoundsHold /\ ElemsHold /\ CountHolds /\ EpochsHold /\ \A v \in Thieves : StealHolds(v) /\ SlotHolds(v)
    BY DEF DqInv
  <1>f. /\ UNCHANGED <<mem, wbuf, retired, freed, dqOwn, dqPushed, delayed>>
        /\ slots' = slots /\ thiefCount' = thiefCount /\ thf[w].pc = "claim"
    BY DEF StealClaim, OwnerSide
  <1>r. PICK r \in ThfRecs : r.pc = "leave" /\ r.e = thf[w].e /\ r.id = thf[w].id /\ thf' = [thf EXCEPT ![w] = r]
    <2>1. PICK r : r = [thf[w] EXCEPT !.pc = "leave"]
      OBVIOUS
    <2>2. thf' = [thf EXCEPT ![w] = r]
      BY <2>1, <1>0 DEF StealClaim
    <2>3. r \in ThfRecs /\ r.pc = "leave" /\ r.e = thf[w].e /\ r.id = thf[w].id
      BY <2>1, <1>0 DEF ThfRecs, Announced
    <2>4. QED
      BY <2>2, <2>3
  <1>w. thf' \in [Thieves -> ThfRecs] /\ thf'[w] = r /\ \A v \in Thieves : v # w => thf'[v] = thf[v]
    BY <1>r, <1>0
  <1>1. StealHolds(w)'
    BY <1>w, <1>r DEF StealHolds
  <1>2. CountHolds'
    BY <1>f, <1>r, CountKept
  <1>3. Registered(thf[w]) /\ Registered(r) /\ thf[w].e <= mem.epoch /\ slots'[r.id] = r.e /\ r.pc # "read"
    BY <1>f, <1>r, <1>0 DEF Registered, SlotHolds, Announced
  <1>4. CASE dqTop # thf[w].t
    <2>1. ThiefLeaves
      BY <1>4 DEF StealClaim, ThiefLeaves
    <2>2. QED
      BY <2>1, <1>f, <1>r, <1>1, <1>2, <1>3, <1>0, ThiefKnown, ThiefStep
  <1>5. CASE dqTop = thf[w].t
    <2>1. dqTop' = dqTop + 1 /\ dqTaken' = Append(dqTaken, [elem |-> Elem(dqTop), by |-> "thief"]) /\ dqTop < End
      BY <1>5, <1>f, <1>0 DEF StealClaim, StealHolds
    <2>2. End' = End /\ Done' = Done /\ \A i : Elem(i)' = Elem(i)
      BY <1>f DEF End, Done, Elem
    <2>3. ElemsHold' /\ dqTaken' \in Seq(TakenRecs)
      <3>1. dqTop \in dqTop .. End - 1
        BY <1>0, <2>1
      <3>2. \A i : i \in dqTop' .. End' - 1 <=> i \in dqTop .. End - 1 /\ i # dqTop
        BY <1>0, <2>1, <2>2
      <3>3. QED
        BY <3>1, <3>2, <2>1, <2>2, <1>i, ElemsLeave
    <2>4. DqTypeOK'
      <3>1. dqTop' \in Nat
        BY <2>1, <1>0
      <3>2. QED
        BY <3>1, <2>3, <1>i, <1>f, <1>w DEF DqTypeOK
    <2>5. BoundsHold'
      <3>1. dqTop' <= End' /\ End' - dqTop' <= Capacity(mem.buffer)
        BY <1>i, <1>0, <2>1, <2>2 DEF BoundsHold
      <3>2. dqOwn.pc # "restore"
        <4> SUFFICES ASSUME dqOwn.pc = "restore" PROVE FALSE
          OBVIOUS
        <4>1. End = mem.bottom + 1 /\ dqOwn.b = mem.bottom /\ dqTop = dqOwn.b + 1
          BY <1>i DEF End, BoundsHold, Taking
        <4>2. QED
          BY <4>1, <2>1, <1>0
      <3>3. dqOwn.b \in Int /\ dqOwn.t \in Int
        BY <1>i, OwnFacts
      <3>4. /\ dqOwn.pc = "grow" => dqOwn.t <= dqTop'
            /\ dqOwn.pc \in Pushing \ {"grow"} => dqOwn.b - dqTop' < Capacity(mem.buffer)
            /\ dqOwn.pc = "race" => dqOwn.b <= dqTop'
        BY <3>3, <1>i, <1>0, <2>1 DEF BoundsHold
      <3>5. QED
        BY <3>1, <3>2, <3>4, <1>i, <1>f, <2>2 DEF BoundsHold
    <2>6. EpochsHold'
      <3>1. \A v \in Thieves : thf'[v].pc = "read" => thf'[v] = thf[v]
        BY <1>w, <1>r
      <3>2. QED
        BY <3>1, <1>i, <1>f DEF EpochsHold
    <2>7. ASSUME NEW v \in Thieves PROVE StealHolds(v)'
      BY <1>1, <1>w, <1>f, <2>1, TopMoves
    <2>8. ASSUME NEW v \in Thieves PROVE SlotHolds(v)'
      <3>1. \A u \in Thieves : thf'[u].id = thf[u].id /\ (Registered(thf'[u]) => Registered(thf[u]))
        BY <1>w, <1>r, <1>3
      <3>2. thf'[v].pc \in Announced \cup {"announce"} => thf'[v].e <= mem.epoch
        BY <1>w, <1>r, <1>3, <1>i DEF SlotHolds
      <3>3. thf'[v].pc \in Announced => slots'[thf'[v].id] = thf'[v].e
        BY <1>w, <1>3, <1>i, <1>f DEF SlotHolds
      <3>4. SlotHolds(v)
        BY <1>i
      <3>5. QED
        BY <3>1, <3>2, <3>3, <3>4, <1>f DEF SlotHolds, Registered
    <2>9. QED
      BY <2>3, <2>4, <2>5, <2>6, <2>7, <2>8, <1>2 DEF DqInv
  <1>6. QED
    BY <1>4, <1>5

\* Every step of a thief.
LEMMA ThiefInv == ASSUME DqInv, UNCHANGED delayed, NEW w \in Thieves, Thief(w) PROVE DqInv'
  BY StealInv, AnnounceInv, StealTopInv, StealBottomInv, StealBufferInv, StealReadInv, StealClaimInv, StealLeaveInv,
     RegisterInv, RefusedInv, UnregisterInv DEF Thief

\* A step of the owner.
ThievesKept == UNCHANGED <<thf, slots, thiefCount, delayed>>

\* The slots and the count, at a step of the owner.
LEMMA SlotsKept ==
  ASSUME DqInv, ThievesKept, mem.epoch <= mem'.epoch, mem'.epoch \in Nat
  PROVE  CountHolds' /\ \A w \in Thieves : SlotHolds(w)'
  <1>1. thf' = thf /\ slots' = slots /\ thiefCount' = thiefCount
    BY DEF ThievesKept
  <1>2. CountHolds'
    BY <1>1 DEF DqInv, CountHolds, Refused
  <1>3. ASSUME NEW w \in Thieves PROVE SlotHolds(w)'
    <2>1. SlotHolds(w) /\ thf[w].e \in Nat /\ mem.epoch \in Nat
      BY ThiefKnown
    <2>2. thf[w].pc \in Announced \cup {"announce"} => thf[w].e <= mem'.epoch
      BY <2>1 DEF SlotHolds
    <2>3. QED
      BY <1>1, <2>1, <2>2 DEF SlotHolds
  <1>4. QED
    BY <1>2, <1>3

\* What the thieves have read, at a step of the owner that leaves top alone.
LEMMA StealsKept ==
  ASSUME DqInv, ThievesKept, dqTop' = dqTop, mem'.buffer \in Nat, mem.buffer <= mem'.buffer,
         dqTop < End => /\ dqTop < End' /\ Elem(dqTop)' = Elem(dqTop)
                        /\ \A b \in 1 .. mem.buffer : mem'.data[b][DqSlot(b, dqTop)] = mem.data[b][DqSlot(b, dqTop)]
  PROVE  \A w \in Thieves : StealHolds(w)'
  <1> SUFFICES ASSUME NEW w \in Thieves PROVE StealHolds(w)'
    OBVIOUS
  <1>1. StealHolds(w) /\ thf'[w] = thf[w] /\ mem.buffer \in Nat
    BY ThiefKnown, MemFacts DEF ThievesKept, DqInv
  <1>2. thf[w].pc = "read" => thf[w].buf \in 1 .. mem'.buffer
    BY <1>1 DEF StealHolds
  <1>3. thf[w].pc = "read" /\ thf[w].t = dqTop => mem'.data[thf[w].buf][DqSlot(thf[w].buf, thf[w].t)] = Elem(dqTop)'
    BY <1>1 DEF StealHolds
  <1>4. thf[w].pc = "claim" /\ thf[w].t = dqTop => thf[w].elem = Elem(dqTop)'
    BY <1>1 DEF StealHolds
  <1>5. Elem(dqTop)' = mem'.data[mem'.buffer][DqSlot(mem'.buffer, dqTop')]
    BY DEF Elem
  <1>6. QED
    BY <1>1, <1>2, <1>3, <1>4, <1>5 DEF StealHolds, Elem

\* The epochs, at a step of the owner outside the growing and the reclaiming.
LEMMA EpochsKept ==
  ASSUME DqInv, UNCHANGED <<thf, retired, freed>>, mem'.buffer = mem.buffer, mem'.epoch = mem.epoch,
         dqOwn.pc # "epoch", dqOwn'.pc \notin {"epoch", "scan"}
  PROVE  EpochsHold'
  BY DEF DqInv, EpochsHold

\* A step of the owner, by its parts.
LEMMA OwnerParts ==
  ASSUME DqInv, ThievesKept, wbuf' = << >>, mem' \in MemRecs, dqTop' \in Nat, dqOwn' \in OwnRecs, dqPushed' \in Nat,
         dqTaken' \in Seq(TakenRecs), retired' \subseteq [buf : Nat, epoch : Nat], freed' \subseteq Nat,
         mem.epoch <= mem'.epoch, BoundsHold', ElemsHold', EpochsHold', \A w \in Thieves : StealHolds(w)'
  PROVE  DqInv'
  <1>1. DqTypeOK'
    BY DEF DqInv, DqTypeOK, ThievesKept
  <1>2. mem'.epoch \in Nat
    BY DEF MemRecs
  <1>3. QED
    BY <1>1, <1>2, SlotsKept DEF DqInv

\* What every owner's case begins with.
LEMMA OwnerKnown ==
  ASSUME DqInv
  PROVE  /\ DqTypeOK /\ BoundsHold /\ ElemsHold /\ EpochsHold /\ OwnMem = mem /\ mem \in MemRecs
         /\ mem.bottom \in Int /\ mem.buffer \in 1 .. DqBufs /\ mem.buffer \in Nat /\ mem.epoch \in Nat
         /\ Capacity(mem.buffer) \in Nat \ {0} /\ dqTop \in Nat /\ End \in Int /\ dqPushed \in Nat /\ Done \in Int
         /\ dqOwn \in OwnRecs /\ dqOwn.b \in Int /\ dqOwn.t \in Nat /\ dqOwn.at \in Nat /\ dqOwn.count \in Nat
         /\ dqOwn.least \in Nat \cup {Inactive} /\ wbuf = << >> /\ dqTaken \in Seq(TakenRecs) /\ delayed = FALSE
         /\ retired \subseteq [buf : Nat, epoch : Nat] /\ freed \subseteq Nat
         /\ dqTop <= End /\ End - dqTop <= Capacity(mem.buffer)
  <1>1. DqTypeOK /\ BoundsHold /\ ElemsHold /\ EpochsHold
    BY DEF DqInv
  <1>2. dqTop <= End /\ End - dqTop <= Capacity(mem.buffer)
    BY <1>1 DEF BoundsHold
  <1>3. mem \in MemRecs /\ wbuf = << >> /\ dqTaken \in Seq(TakenRecs) /\ delayed = FALSE
        /\ retired \subseteq [buf : Nat, epoch : Nat] /\ freed \subseteq Nat
    BY <1>1 DEF DqTypeOK
  <1>4. QED
    BY <1>1, <1>2, <1>3, MemFacts, OwnFacts

\* The owner's steps that read and store only locals.
LEMMA OwnerReads ==
  ASSUME DqInv, ThievesKept, UNCHANGED <<mem, wbuf, dqTop, dqTaken>>, End' = End, Done' = Done,
         dqOwn' \in OwnRecs, dqPushed' \in Nat, retired' \subseteq [buf : Nat, epoch : Nat], freed' \subseteq Nat,
         BoundsHold', EpochsHold'
  PROVE  DqInv'
  <1>0. mem \in MemRecs /\ mem.buffer \in Nat /\ mem.epoch \in Nat /\ wbuf = << >> /\ dqTop \in Nat /\ dqTaken \in Seq(TakenRecs) /\ ElemsHold
    BY OwnerKnown
  <1>1. \A i : Elem(i)' = Elem(i)
    BY DEF Elem
  <1>2. ElemsHold'
    BY <1>0, <1>1, ElemsStay
  <1>3. \A w \in Thieves : StealHolds(w)'
    BY <1>0, <1>1, StealsKept
  <1>4. mem.epoch <= mem'.epoch
    BY <1>0
  <1>5. QED
    BY <1>0, <1>2, <1>3, <1>4, OwnerParts

\* A push reads the bounds and grows if the buffer is full; top may have moved on, bottom not.
LEMMA PushInv == ASSUME DqInv, UNCHANGED delayed, CL_DEQUE_PUSH PROVE DqInv'
  <1>0. /\ BoundsHold /\ OwnMem = mem /\ mem.bottom \in Int /\ Capacity(mem.buffer) \in Nat /\ dqTop \in Nat
        /\ dqPushed \in Nat /\ dqOwn \in OwnRecs /\ retired \subseteq [buf : Nat, epoch : Nat] /\ freed \subseteq Nat
        /\ dqTop <= End /\ End - dqTop <= Capacity(mem.buffer)
    BY OwnerKnown
  <1>f. /\ ThievesKept /\ UNCHANGED <<mem, wbuf, dqTop, dqTaken, retired, freed, thf>> /\ dqPushed' = dqPushed + 1 /\ dqOwn.pc = "idle"
        /\ (mem.bottom - dqTop >= Capacity(mem.buffer) => mem.buffer < DqBufs)
    BY <1>0 DEF ThievesKept, CL_DEQUE_PUSH
  <1>p. PICK p \in {"grow", "put"} : p = IF mem.bottom - dqTop >= Capacity(mem.buffer) THEN "grow" ELSE "put"
    OBVIOUS
  <1>r. dqOwn' \in OwnRecs /\ dqOwn'.pc = p /\ dqOwn'.b = mem.bottom /\ dqOwn'.t = dqTop
    <2>1. dqOwn' = [dqOwn EXCEPT !.pc = p, !.b = mem.bottom, !.t = dqTop]
      BY <1>0, <1>p DEF CL_DEQUE_PUSH
    <2>2. p \in {"idle"} \cup Pushing \cup Taking
      BY <1>p DEF Pushing
    <2>3. QED
      BY <2>1, <2>2, <1>0 DEF OwnRecs
  <1>1. End = mem.bottom /\ End' = End /\ Done' = Done
    <2>1. dqOwn'.pc \in Pushing /\ dqOwn'.pc \notin Taking /\ dqOwn.pc \notin Pushing \cup Taking
      BY <1>f, <1>r DEF Pushing, Taking
    <2>2. QED
      BY <2>1, <1>f, <1>0 DEF End, Done
  <1>2. BoundsHold'
    <2>1. p = "put" => mem.bottom - dqTop < Capacity(mem.buffer)
      BY <1>p, <1>0
    <2>2. p = "grow" => mem.buffer < DqBufs
      BY <1>p, <1>f
    <2>3. dqTop <= dqTop /\ dqPushed + 1 >= 1
      BY <1>0
    <2>4. QED
      BY <2>1, <2>2, <2>3, <1>0, <1>1, <1>f, <1>r, <1>p DEF BoundsHold, Pushing
  <1>3. EpochsHold'
    BY <1>f, <1>r, EpochsKept
  <1>4. dqPushed' \in Nat
    BY <1>0, <1>f
  <1>5. QED
    BY <1>f, <1>r, <1>0, <1>1, <1>2, <1>3, <1>4, OwnerReads

\* The steps of reclaim change the owner's pc within a push, and keep the bounds.
LEMMA PushGoesOn ==
  ASSUME DqInv, dqOwn.pc \in {"epoch", "count", "scan"}, dqOwn'.pc \in {"count", "scan", "put"}, dqOwn'.b = dqOwn.b,
         UNCHANGED <<dqTop, dqPushed>>, mem'.bottom = mem.bottom, mem'.buffer = mem.buffer
  PROVE  BoundsHold' /\ End' = End /\ Done' = Done
  <1>1. dqOwn.pc \in Pushing \ {"grow"} /\ dqOwn'.pc \in Pushing \ {"grow"} /\ dqOwn.pc \notin Taking /\ dqOwn'.pc \notin Taking
    BY DEF Pushing, Taking
  <1>2. End' = End /\ Done' = Done
    BY <1>1 DEF End, Done
  <1>3. BoundsHold
    BY DEF DqInv
  <1>4. QED
    BY <1>1, <1>2, <1>3 DEF BoundsHold

\* Reclaim reads the count, which is past the slot of every thief inside a steal.
LEMMA ReclaimCountInv == ASSUME DqInv, UNCHANGED delayed, ReclaimCount PROVE DqInv'
  <1>0. /\ EpochsHold /\ dqPushed \in Nat /\ dqOwn \in OwnRecs /\ retired \subseteq [buf : Nat, epoch : Nat] /\ freed \subseteq Nat
        /\ thiefCount \in Nat
    BY OwnerKnown DEF DqTypeOK
  <1>f. ThievesKept /\ UNCHANGED <<mem, wbuf, dqTop, dqTaken, dqPushed, retired, freed, thf>> /\ dqOwn.pc = "count"
    BY DEF ThievesKept, ReclaimCount
  <1>r. /\ dqOwn' \in OwnRecs /\ dqOwn'.pc = "scan" /\ dqOwn'.b = dqOwn.b
        /\ dqOwn'.at = 0 /\ dqOwn'.count = thiefCount /\ dqOwn'.least = Inactive
    <2>1. PICK l \in Nat \cup {Inactive} : l = Inactive
      OBVIOUS
    <2>2. dqOwn' = [dqOwn EXCEPT !.pc = "scan", !.at = 0, !.count = thiefCount, !.least = l]
      BY <2>1 DEF ReclaimCount
    <2>3. "scan" \in {"idle"} \cup Pushing \cup Taking
      BY DEF Pushing
    <2>4. QED
      BY <2>1, <2>2, <2>3, <1>0 DEF OwnRecs
  <1>1. BoundsHold' /\ End' = End /\ Done' = Done
    BY <1>f, <1>r, PushGoesOn
  <1>2. EpochsHold'
    <2>1. \A w \in Thieves : thf[w].pc = "read" => thf[w].id < thiefCount /\ ~(thf[w].id < 0)
      <3>1. \A w \in Thieves : thf[w].pc = "read" => Registered(thf[w])
        BY DEF Registered
      <3>2. QED
        BY <3>1, ThiefKnown, DqConsts
    <2>2. 0 <= thiefCount
      BY <1>0
    <2>3. QED
      BY <2>1, <2>2, <1>0, <1>f, <1>r DEF EpochsHold
  <1>3. QED
    BY <1>f, <1>r, <1>0, <1>1, <1>2, OwnerReads

\* Reclaim reads a slot: a thief that reads a retired buffer is found, and its epoch bounds the least.
LEMMA ReclaimScanInv == ASSUME DqInv, UNCHANGED delayed, ReclaimScan PROVE DqInv'
  <1>0. /\ EpochsHold /\ dqPushed \in Nat /\ dqOwn \in OwnRecs /\ retired \subseteq [buf : Nat, epoch : Nat] /\ freed \subseteq Nat
        /\ dqOwn.at \in Nat /\ dqOwn.count \in Nat /\ dqOwn.least \in Nat \cup {Inactive}
    BY OwnerKnown
  <1>f. /\ ThievesKept /\ UNCHANGED <<mem, wbuf, dqTop, dqTaken, dqPushed, retired, freed, thf>> /\ dqOwn.pc = "scan"
        /\ dqOwn.at < dqOwn.count
    BY DEF ThievesKept, ReclaimScan
  <1>e. PICK e \in SlotReads(dqOwn.at) : dqOwn' = [dqOwn EXCEPT !.at = @ + 1, !.least = Least(@, e)]
    BY DEF ReclaimScan
  <1>n. e \in Nat \cup {Inactive}
    <2>1. slots \in [0 .. DqMaxThieves - 1 -> Nat \cup {Inactive}] /\ DqMaxThieves \in Nat
      BY DqConsts DEF DqInv, DqTypeOK
    <2>2. CASE dqOwn.at < DqMaxThieves
      BY <2>1, <2>2, <1>0, <1>e DEF SlotReads
    <2>3. CASE ~(dqOwn.at < DqMaxThieves)
      BY <2>3, <1>e DEF SlotReads
    <2>4. QED
      BY <2>2, <2>3
  <1>l. PICK l \in Nat \cup {Inactive} : l = Least(dqOwn.least, e)
    BY <1>0, <1>n DEF Least
  <1>a. PICK a \in Nat : a = dqOwn.at + 1
    BY <1>0
  <1>r. dqOwn' \in OwnRecs /\ dqOwn'.pc = "scan" /\ dqOwn'.b = dqOwn.b /\ dqOwn'.at = a /\ dqOwn'.count = dqOwn.count /\ dqOwn'.least = l
    <2>1. dqOwn' = [dqOwn EXCEPT !.at = a, !.least = l]
      BY <1>e, <1>l, <1>a
    <2>2. QED
      BY <2>1, <1>0, <1>f DEF OwnRecs
  <1>1. BoundsHold' /\ End' = End /\ Done' = Done
    BY <1>f, <1>r, PushGoesOn
  <1>2. EpochsHold'
    <2>1. ASSUME NEW w \in Thieves, thf[w].pc = "read", thf[w].buf < mem.buffer
          PROVE  thf[w].id < dqOwn.count /\ (thf[w].id < a => l # Inactive /\ l <= thf[w].e)
      <3>1. thf[w].id < dqOwn.count /\ (thf[w].id < dqOwn.at => dqOwn.least # Inactive /\ dqOwn.least <= thf[w].e)
        BY <2>1, <1>f, <1>0 DEF EpochsHold
      <3>2. Registered(thf[w]) /\ thf[w].e \in Nat /\ slots[thf[w].id] = thf[w].e
        BY <2>1, ThiefKnown DEF SlotHolds, Announced, Registered
      <3>3. thf[w].id \in 0 .. DqMaxThieves - 1 /\ DqMaxThieves \in Nat
        BY <3>2, ThiefKnown, DqConsts
      <3>4. CASE thf[w].id < dqOwn.at
        <4>1. dqOwn.least \in Nat /\ dqOwn.least <= thf[w].e /\ dqOwn.least # Inactive
          BY <3>1, <3>4, <1>0
        <4>2. l # Inactive /\ l <= dqOwn.least /\ l \in Nat
          BY <4>1, <1>l, <1>n DEF Least
        <4>3. QED
          BY <4>1, <4>2, <3>1, <3>2
      <3>5. CASE thf[w].id = dqOwn.at
        <4>1. e = thf[w].e
          BY <3>2, <3>3, <3>5, <1>e DEF SlotReads
        <4>2. e # Inactive
          BY <4>1, <3>2 DEF Inactive
        <4>3. l # Inactive /\ l <= e
          BY <4>1, <4>2, <3>2, <1>l, <1>0 DEF Least
        <4>4. QED
          BY <4>1, <4>3, <3>1
      <3>6. CASE thf[w].id > dqOwn.at
        BY <3>6, <3>1, <3>3, <1>a, <1>0
      <3>7. QED
        BY <3>3, <3>4, <3>5, <3>6, <1>0
    <2>2. a <= dqOwn.count
      BY <1>a, <1>f, <1>0
    <2>3. QED
      BY <2>1, <2>2, <1>0, <1>f, <1>r DEF EpochsHold
  <1>3. QED
    BY <1>f, <1>r, <1>0, <1>1, <1>2, OwnerReads

\* A retired buffer a thief still reads is not freed.
LEMMA ReclaimFreeInv == ASSUME DqInv, UNCHANGED delayed, ReclaimFree PROVE DqInv'
  <1>0. /\ EpochsHold /\ dqPushed \in Nat /\ dqOwn \in OwnRecs /\ retired \subseteq [buf : Nat, epoch : Nat] /\ freed \subseteq Nat
        /\ dqOwn.at \in Nat /\ dqOwn.count \in Nat /\ dqOwn.least \in Nat \cup {Inactive} /\ mem.buffer \in Nat
    BY OwnerKnown
  <1>f. /\ ThievesKept /\ UNCHANGED <<mem, wbuf, dqTop, dqTaken, dqPushed, thf>> /\ dqOwn.pc = "scan" /\ dqOwn.at = dqOwn.count
        /\ freed' = freed \cup {n.buf : n \in {m \in retired : Unheld(m, dqOwn.least)}}
        /\ retired' = {n \in retired : ~Unheld(n, dqOwn.least)}
    BY DEF ThievesKept, ReclaimFree
  <1>r. dqOwn' \in OwnRecs /\ dqOwn'.pc = "put" /\ dqOwn'.b = dqOwn.b
    <2>1. dqOwn' = [dqOwn EXCEPT !.pc = "put"]
      BY DEF ReclaimFree
    <2>2. "put" \in {"idle"} \cup Pushing \cup Taking
      BY DEF Pushing
    <2>3. QED
      BY <2>1, <2>2, <1>0 DEF OwnRecs
  <1>1. BoundsHold' /\ End' = End /\ Done' = Done
    BY <1>f, <1>r, PushGoesOn
  <1>n. \A n \in retired : n.buf \in Nat /\ n.epoch \in Nat /\ n.buf < mem.buffer /\ n.epoch = n.buf - 1
    BY <1>0 DEF EpochsHold
  <1>2. EpochsHold'
    <2>1. \A b \in freed' : b < mem.buffer
      BY <1>f, <1>n, <1>0 DEF EpochsHold
    <2>2. ASSUME NEW w \in Thieves, thf[w].pc = "read" PROVE thf[w].e < thf[w].buf /\ thf[w].buf \notin freed'
      <3>1. thf[w].e < thf[w].buf /\ thf[w].buf \notin freed /\ thf[w].e \in Nat /\ thf[w].buf \in Nat /\ thf[w].id \in Int
        BY <2>2, <1>0, ThiefFacts DEF EpochsHold, DqInv
      <3>2. ASSUME NEW n \in retired, Unheld(n, dqOwn.least), n.buf = thf[w].buf PROVE FALSE
        <4>1. thf[w].buf < mem.buffer /\ n.epoch = thf[w].buf - 1 /\ n.epoch \in Nat
          BY <3>2, <1>n
        <4>2. thf[w].id < dqOwn.at /\ dqOwn.least # Inactive /\ dqOwn.least <= thf[w].e
          BY <4>1, <2>2, <1>f, <1>0 DEF EpochsHold
        <4>3. n.epoch < dqOwn.least /\ dqOwn.least \in Nat
          BY <4>2, <3>2, <1>0 DEF Unheld
        <4>4. QED
          BY <4>1, <4>2, <4>3, <3>1
      <3>3. QED
        BY <3>1, <3>2, <1>f
    <2>3. QED
      BY <2>1, <2>2, <1>n, <1>0, <1>f, <1>r DEF EpochsHold
  <1>3. retired' \subseteq [buf : Nat, epoch : Nat] /\ freed' \subseteq Nat
    BY <1>f, <1>n, <1>0
  <1>4. QED
    BY <1>f, <1>r, <1>0, <1>1, <1>2, <1>3, OwnerReads

\* The epoch moves on after the new buffer is published.
LEMMA GrowEpochInv == ASSUME DqInv, UNCHANGED delayed, GrowEpoch PROVE DqInv'
  <1>0. /\ EpochsHold /\ ElemsHold /\ DqTypeOK /\ dqPushed \in Nat /\ dqOwn \in OwnRecs /\ retired \subseteq [buf : Nat, epoch : Nat] /\ freed \subseteq Nat
        /\ mem.buffer \in Nat /\ mem.epoch \in Nat /\ OwnMem = mem /\ dqTop \in Nat /\ dqTaken \in Seq(TakenRecs)
    BY OwnerKnown
  <1>f. ThievesKept /\ UNCHANGED <<dqTop, dqTaken, dqPushed, thf, retired, freed>> /\ dqOwn.pc = "epoch"
    BY DEF ThievesKept, GrowEpoch
  <1>m. /\ wbuf' = << >> /\ mem' \in MemRecs /\ mem'.epoch = mem.epoch + 1
        /\ mem'.buffer = mem.buffer /\ mem'.bottom = mem.bottom /\ mem'.data = mem.data
    <2>1. PICK v \in Nat : v = mem.epoch + 1
      BY <1>0
    <2>2. Stores(DqStore("epoch", v))
      BY <2>1, <1>0 DEF GrowEpoch
    <2>3. QED
      BY <2>1, <2>2, <1>0, StoreEpoch
  <1>r. dqOwn' \in OwnRecs /\ dqOwn'.pc = "count" /\ dqOwn'.b = dqOwn.b
    <2>1. dqOwn' = [dqOwn EXCEPT !.pc = "count"]
      BY DEF GrowEpoch
    <2>2. "count" \in {"idle"} \cup Pushing \cup Taking
      BY DEF Pushing
    <2>3. QED
      BY <2>1, <2>2, <1>0 DEF OwnRecs
  <1>1. BoundsHold' /\ End' = End /\ Done' = Done
    BY <1>f, <1>r, <1>m, PushGoesOn
  <1>2. \A i : Elem(i)' = Elem(i)
    BY <1>m DEF Elem
  <1>3. ElemsHold'
    BY <1>0, <1>f, <1>1, <1>2, ElemsStay
  <1>4. EpochsHold'
    BY <1>0, <1>f, <1>r, <1>m DEF EpochsHold
  <1>5. \A w \in Thieves : StealHolds(w)'
    BY <1>0, <1>1, <1>2, <1>f, <1>m, StealsKept
  <1>6. mem.epoch <= mem'.epoch
    BY <1>0, <1>m
  <1>7. QED
    BY <1>0, <1>f, <1>r, <1>m, <1>1, <1>3, <1>4, <1>5, <1>6, OwnerParts

\* The new buffer holds, at their slots, the elements from top as it was read.
LEMMA GrownFacts ==
  ASSUME DqInv, mem.buffer < DqBufs, NEW t \in Nat, NEW b \in Int, b - t <= Capacity(mem.buffer)
  PROVE  /\ DqGrown(mem.buffer, t, b) \in DqBuffer(mem.buffer + 1)
         /\ \A i \in t .. b - 1 : DqGrown(mem.buffer, t, b)[DqSlot(mem.buffer + 1, i)] = Elem(i)
  <1>0. /\ OwnMem = mem /\ mem.buffer \in 1 .. DqBufs /\ mem.buffer \in Nat /\ Capacity(mem.buffer) \in Nat
        /\ mem.buffer + 1 \in 1 .. DqBufs /\ Capacity(mem.buffer) < Capacity(mem.buffer + 1) /\ Capacity(mem.buffer + 1) \in Nat
    <2>1. OwnMem = mem /\ mem.buffer \in 1 .. DqBufs /\ mem.buffer \in Nat /\ Capacity(mem.buffer) \in Nat /\ DqBufs \in Nat
      BY OwnerKnown, DqConsts
    <2>2. mem.buffer + 1 \in 1 .. DqBufs
      BY <2>1
    <2>3. QED
      BY <2>1, <2>2, DqConsts
  <1>o. PICK o \in 1 .. DqBufs : o = mem.buffer
    BY <1>0
  <1>p. PICK p \in 1 .. DqBufs : p = mem.buffer + 1
    BY <1>0
  <1> DEFINE live(j) == {i \in t .. (b - 1) : DqSlot(p, i) = j}
             new == [j \in 0 .. (Capacity(p) - 1) |->
                       IF live(j) = {} THEN 0 ELSE mem.data[o][DqSlot(o, CHOOSE i \in live(j) : TRUE)]]
  <1>1. DqGrown(mem.buffer, t, b) = new
    BY <1>0, <1>o, <1>p DEF DqGrown
  <1>e. \A i \in Nat : mem.data[o][DqSlot(o, i)] \in Nat /\ Elem(i) = mem.data[o][DqSlot(o, i)]
    BY <1>o, <1>0, MemFacts DEF Elem, DqInv
  <1>2. new \in DqBuffer(p)
    <2>1. ASSUME NEW j \in 0 .. (Capacity(p) - 1)
          PROVE  (IF live(j) = {} THEN 0 ELSE mem.data[o][DqSlot(o, CHOOSE i \in live(j) : TRUE)]) \in Nat
      <3>1. CASE live(j) = {}
        BY <3>1
      <3>2. CASE live(j) # {}
        <4>1. PICK x : x = CHOOSE i \in live(j) : TRUE
          OBVIOUS
        <4>2. x \in live(j)
          BY <4>1, <3>2
        <4>3. x \in Nat
          BY <4>2
        <4> HIDE DEF live
        <4>4. QED
          BY <4>1, <4>3, <3>2, <1>e
      <3>3. QED
        BY <3>1, <3>2
    <2> HIDE DEF live
    <2>2. QED
      BY <2>1 DEF DqBuffer
  <1>3. ASSUME NEW i \in t .. b - 1 PROVE new[DqSlot(p, i)] = Elem(i)
    <2>1. i \in Nat /\ DqSlot(p, i) \in 0 .. Capacity(p) - 1
      BY SlotIn
    <2>2. PICK j \in 0 .. Capacity(p) - 1 : j = DqSlot(p, i)
      BY <2>1
    <2>3. i \in live(j)
      BY <2>2
    <2>4. ASSUME NEW x \in live(j) PROVE x = i
      <3>1. x \in Nat /\ DqSlot(p, x) = DqSlot(p, i) /\ x \in t .. b - 1
        BY <2>2
      <3>2. ~(x < i)
        <4> SUFFICES ASSUME x < i PROVE FALSE
          OBVIOUS
        <4>1. i - x < Capacity(p)
          BY <3>1, <1>0, <1>p
        <4>2. QED
          BY <4>1, <3>1, <2>1, SlotsDiffer
      <3>3. ~(i < x)
        <4> SUFFICES ASSUME i < x PROVE FALSE
          OBVIOUS
        <4>1. x - i < Capacity(p)
          BY <3>1, <1>0, <1>p
        <4>2. QED
          BY <4>1, <3>1, <2>1, SlotsDiffer
      <3>4. QED
        BY <3>1, <3>2, <3>3, <2>1
    <2>5. (CHOOSE x \in live(j) : TRUE) = i /\ live(j) # {}
      <3>1. PICK y : y = CHOOSE x \in live(j) : TRUE
        OBVIOUS
      <3>2. y \in live(j)
        BY <3>1, <2>3
      <3>3. y = i
        BY <3>2, <2>4
      <3>4. QED
        BY <3>1, <3>3, <2>3
    <2>6. new[j] = mem.data[o][DqSlot(o, i)]
      <3> HIDE DEF live
      <3>1. QED
        BY <2>5, <2>2
    <2>7. QED
      BY <2>1, <2>2, <2>6, <1>e
  <1>4. QED
    BY <1>1, <1>2, <1>3, <1>p

\* Growing keeps every element from top to bottom, and every older buffer as it was.
LEMMA GrowBufferInv == ASSUME DqInv, UNCHANGED delayed, GrowBuffer PROVE DqInv'
  <1>0. /\ EpochsHold /\ ElemsHold /\ BoundsHold /\ DqTypeOK /\ dqPushed \in Nat /\ dqOwn \in OwnRecs /\ retired \subseteq [buf : Nat, epoch : Nat] /\ freed \subseteq Nat
        /\ mem.buffer \in Nat /\ mem.buffer \in 1 .. DqBufs /\ mem.epoch \in Nat /\ OwnMem = mem /\ dqTop \in Nat /\ dqTaken \in Seq(TakenRecs)
        /\ mem \in MemRecs /\ delayed = FALSE /\ wbuf = << >> /\ dqOwn.t \in Nat /\ dqOwn.b \in Int /\ mem.bottom \in Int
        /\ End - dqTop <= Capacity(mem.buffer) /\ dqTop <= End /\ Capacity(mem.buffer) \in Nat
    BY OwnerKnown
  <1>f. ThievesKept /\ UNCHANGED <<dqTop, dqTaken, dqPushed, thf, freed>> /\ dqOwn.pc = "grow"
    BY DEF ThievesKept, GrowBuffer
  <1>g. /\ dqOwn.t <= dqTop /\ dqOwn.b - dqOwn.t <= Capacity(mem.buffer) /\ mem.buffer < DqBufs
        /\ dqOwn.b = mem.bottom /\ End = mem.bottom /\ mem.epoch = mem.buffer - 1 /\ dqPushed >= 1
    BY <1>0, <1>f DEF BoundsHold, End, EpochsHold, Pushing, Taking
  <1>p. PICK p \in 1 .. DqBufs : p = mem.buffer + 1
    <2>1. DqBufs \in Nat
      BY DqConsts
    <2>2. mem.buffer + 1 \in 1 .. DqBufs
      BY <2>1, <1>0, <1>g
    <2>3. QED
      BY <2>2
  <1>c. Capacity(p) \in Nat /\ Capacity(mem.buffer) < Capacity(p)
    BY <1>p, <1>0, DqConsts
  <1>n. PICK new \in DqBuffer(p) : new = DqGrown(mem.buffer, dqOwn.t, dqOwn.b)
    BY <1>0, <1>g, <1>p, GrownFacts
  <1>e. \A i \in dqOwn.t .. dqOwn.b - 1 : new[DqSlot(p, i)] = Elem(i)
    BY <1>0, <1>g, <1>p, <1>n, GrownFacts
  <1>m. /\ wbuf' = << >> /\ mem' \in MemRecs /\ mem'.buffer = p /\ mem'.bottom = mem.bottom /\ mem'.epoch = mem.epoch
        /\ mem'.data[p] = new /\ \A c \in 1 .. DqBufs : c # p => mem'.data[c] = mem.data[c]
    <2>1. mem' = [mem EXCEPT !.data[p] = new, !.buffer = p] /\ wbuf' = wbuf
      BY <1>0, <1>n, <1>p DEF GrowBuffer
    <2>2. PICK d : d = [mem.data EXCEPT ![p] = new]
      OBVIOUS
    <2>3. mem.data \in DqData
      BY <1>0 DEF MemRecs
    <2>4. d \in DqData
      BY <2>2, <2>3 DEF DqData
    <2>5. d[p] = new /\ \A c \in 1 .. DqBufs : c # p => d[c] = mem.data[c]
      BY <2>2, <2>3 DEF DqData
    <2>6. mem' = [mem EXCEPT !.data = d, !.buffer = p]
      BY <2>1, <2>2
    <2>7. mem' \in MemRecs /\ mem'.buffer = p /\ mem'.bottom = mem.bottom /\ mem'.epoch = mem.epoch /\ mem'.data = d
      BY <2>6, <2>4, <1>0 DEF MemRecs
    <2>8. QED
      BY <2>1, <2>5, <2>7, <1>0
  <1>r. dqOwn' \in OwnRecs /\ dqOwn'.pc = "epoch" /\ dqOwn'.b = dqOwn.b
    <2>1. dqOwn' = [dqOwn EXCEPT !.pc = "epoch"]
      BY DEF GrowBuffer
    <2>2. "epoch" \in {"idle"} \cup Pushing \cup Taking
      BY DEF Pushing
    <2>3. QED
      BY <2>1, <2>2, <1>0 DEF OwnRecs
  <1>1. End' = End /\ Done' = Done
    BY <1>f, <1>r, <1>m DEF End, Done, Pushing, Taking
  <1>2. \A i \in dqTop .. End - 1 : Elem(i)' = Elem(i)
    <2> SUFFICES ASSUME NEW i \in dqTop .. End - 1 PROVE Elem(i)' = Elem(i)
      OBVIOUS
    <2>1. i \in dqOwn.t .. dqOwn.b - 1
      BY <1>0, <1>g
    <2>2. Elem(i)' = mem'.data[mem'.buffer][DqSlot(mem'.buffer, i)]
      BY DEF Elem
    <2>3. QED
      BY <2>1, <2>2, <1>m, <1>e
  <1>3. ElemsHold'
    BY <1>0, <1>f, <1>1, <1>2, ElemsStay
  <1>4. BoundsHold'
    <2>1. End - dqTop <= Capacity(p) /\ dqOwn.b - dqTop < Capacity(p)
      BY <1>0, <1>g, <1>c
    <2>2. QED
      BY <2>1, <1>0, <1>g, <1>1, <1>f, <1>r, <1>m DEF BoundsHold, Pushing
  <1>d. retired' = retired \cup {[buf |-> mem.buffer, epoch |-> mem.epoch]}
    BY <1>0 DEF GrowBuffer
  <1>5. EpochsHold'
    <2>1. \A n \in retired' : n.buf < p /\ n.epoch = n.buf - 1
      <3>1. ASSUME NEW n \in retired PROVE n.buf < p /\ n.epoch = n.buf - 1
        <4>1. n.buf \in Nat /\ n.buf < mem.buffer /\ n.epoch = n.buf - 1
          BY <1>0 DEF EpochsHold
        <4>2. QED
          BY <4>1, <1>p, <1>0
      <3>2. mem.buffer < p /\ mem.epoch = mem.buffer - 1
        BY <1>p, <1>0, <1>g
      <3>3. QED
        BY <3>1, <3>2, <1>d
    <2>2. \A x \in freed : x < p
      <3>1. ASSUME NEW x \in freed PROVE x < p
        <4>1. x \in Nat /\ x < mem.buffer
          BY <1>0 DEF EpochsHold
        <4>2. QED
          BY <4>1, <1>p, <1>0
      <3>2. QED
        BY <3>1
    <2>3. mem.epoch = p - 2
      BY <1>p, <1>0, <1>g
    <2>4. QED
      BY <2>1, <2>2, <2>3, <1>0, <1>f, <1>r, <1>m DEF EpochsHold
  <1>6. \A w \in Thieves : StealHolds(w)'
    <2>1. \A b \in 1 .. mem.buffer : b \in 1 .. DqBufs /\ b # p
      <3>1. DqBufs \in Nat
        BY DqConsts
      <3>2. QED
        BY <3>1, <1>p, <1>0
    <2>2. \A b \in 1 .. mem.buffer : mem'.data[b][DqSlot(b, dqTop)] = mem.data[b][DqSlot(b, dqTop)]
      BY <2>1, <1>m
    <2>3. dqTop < End => Elem(dqTop)' = Elem(dqTop)
      <3>1. dqTop < End => dqTop \in dqTop .. End - 1
        BY <1>0, <1>g
      <3>2. PICK z : z = dqTop
        OBVIOUS
      <3>3. Elem(dqTop)' = Elem(z)' /\ Elem(z) = Elem(dqTop)
        BY <3>2, <1>f
      <3>4. QED
        BY <3>1, <3>2, <3>3, <1>2
    <2>4. mem'.buffer \in Nat /\ mem.buffer <= mem'.buffer
      BY <1>m, <1>p, <1>0
    <2>5. QED
      BY <2>2, <2>3, <2>4, <1>f, <1>1, StealsKept
  <1>7. retired' \subseteq [buf : Nat, epoch : Nat]
    BY <1>d, <1>0
  <1>8. mem.epoch <= mem'.epoch
    BY <1>m, <1>0
  <1>9. QED
    BY <1>0, <1>f, <1>r, <1>m, <1>3, <1>4, <1>5, <1>6, <1>7, <1>8, OwnerParts

\* The element is stored past the others, into a slot none of them has.
LEMMA PutElementInv == ASSUME DqInv, UNCHANGED delayed, PutElement PROVE DqInv'
  <1>0. /\ EpochsHold /\ ElemsHold /\ BoundsHold /\ DqTypeOK /\ dqPushed \in Nat /\ dqOwn \in OwnRecs /\ retired \subseteq [buf : Nat, epoch : Nat] /\ freed \subseteq Nat
        /\ mem.buffer \in Nat /\ mem.buffer \in 1 .. DqBufs /\ mem.epoch \in Nat /\ OwnMem = mem /\ dqTop \in Nat /\ dqTaken \in Seq(TakenRecs)
        /\ mem \in MemRecs /\ dqOwn.b \in Int /\ mem.bottom \in Int
        /\ End - dqTop <= Capacity(mem.buffer) /\ dqTop <= End /\ Capacity(mem.buffer) \in Nat
    BY OwnerKnown
  <1>f. ThievesKept /\ UNCHANGED <<dqTop, dqTaken, dqPushed, thf, retired, freed>> /\ dqOwn.pc = "put"
    BY DEF ThievesKept, PutElement
  <1>g. dqOwn.b = mem.bottom /\ End = mem.bottom /\ dqOwn.b - dqTop < Capacity(mem.buffer) /\ dqPushed >= 1
    BY <1>0, <1>f DEF BoundsHold, End, Pushing, Taking
  <1>b. PICK o \in 1 .. DqBufs : o = mem.buffer
    BY <1>0
  <1>z. PICK z \in Nat : z = dqOwn.b
    BY <1>0, <1>g
  <1>j. PICK j \in 0 .. Capacity(o) - 1 : j = DqSlot(o, z)
    BY SlotIn
  <1>m. /\ wbuf' = << >> /\ mem' \in MemRecs /\ mem'.buffer = o /\ mem'.bottom = mem.bottom /\ mem'.epoch = mem.epoch
        /\ \A c \in 1 .. DqBufs : mem'.data[c] = IF c = o THEN [mem.data[o] EXCEPT ![j] = dqPushed] ELSE mem.data[c]
    <2>1. Stores(StoreData(o, j, dqPushed))
      BY <1>0, <1>b, <1>z, <1>j DEF PutElement
    <2>2. QED
      BY <2>1, <1>0, <1>b, StoreElem
  <1>d. mem.data[o] \in [0 .. Capacity(o) - 1 -> Nat]
    BY <1>0 DEF MemRecs, DqData, DqBuffer
  <1>r. dqOwn' \in OwnRecs /\ dqOwn'.pc = "raise" /\ dqOwn'.b = dqOwn.b
    <2>1. dqOwn' = [dqOwn EXCEPT !.pc = "raise"]
      BY DEF PutElement
    <2>2. "raise" \in {"idle"} \cup Pushing \cup Taking
      BY DEF Pushing
    <2>3. QED
      BY <2>1, <2>2, <1>0 DEF OwnRecs
  <1>1. End' = End /\ Done' = Done
    BY <1>f, <1>r, <1>m DEF End, Done, Pushing, Taking
  <1>e. \A i \in Nat : DqSlot(o, i) # j => mem'.data[o][DqSlot(o, i)] = mem.data[o][DqSlot(o, i)]
    <2>1. mem'.data[o] = [mem.data[o] EXCEPT ![j] = dqPushed]
      BY <1>m
    <2>2. \A i \in Nat : DqSlot(o, i) \in 0 .. Capacity(o) - 1
      BY SlotIn
    <2>3. QED
      BY <2>1, <2>2, <1>d
  <1>s. \A i \in dqTop .. End - 1 : i \in Nat /\ DqSlot(o, i) # j
    <2> SUFFICES ASSUME NEW i \in dqTop .. End - 1 PROVE i \in Nat /\ DqSlot(o, i) # j
      OBVIOUS
    <2>1. i \in Nat /\ i < z /\ z - i < Capacity(o)
      BY <1>0, <1>g, <1>z, <1>b
    <2>2. QED
      BY <2>1, <1>j, SlotsDiffer
  <1>2. \A i \in dqTop .. End - 1 : Elem(i)' = Elem(i)
    <2> SUFFICES ASSUME NEW i \in dqTop .. End - 1 PROVE Elem(i)' = Elem(i)
      OBVIOUS
    <2>1. Elem(i)' = mem'.data[o][DqSlot(o, i)] /\ Elem(i) = mem.data[o][DqSlot(o, i)]
      BY <1>m, <1>b DEF Elem
    <2>2. QED
      BY <2>1, <1>e, <1>s
  <1>3. ElemsHold'
    BY <1>0, <1>f, <1>1, <1>2, ElemsStay
  <1>x. Elem(dqOwn.b)' = dqPushed
    <2>1. Elem(dqOwn.b)' = mem'.data[o][DqSlot(o, z)]
      BY <1>m, <1>r, <1>z DEF Elem
    <2>2. mem'.data[o][j] = dqPushed
      BY <1>m, <1>d
    <2>3. QED
      BY <2>1, <2>2, <1>j
  <1>4. BoundsHold'
    BY <1>x, <1>0, <1>g, <1>1, <1>f, <1>r, <1>m, <1>b DEF BoundsHold, Pushing
  <1>5. EpochsHold'
    BY <1>f, <1>r, <1>m, <1>b, EpochsKept
  <1>6. \A w \in Thieves : StealHolds(w)'
    <2>1. dqTop < End => dqTop \in dqTop .. End - 1
      BY <1>0, <1>g
    <2>2. dqTop < End => \A b \in 1 .. mem.buffer : mem'.data[b][DqSlot(b, dqTop)] = mem.data[b][DqSlot(b, dqTop)]
      <3> SUFFICES ASSUME dqTop < End, NEW b \in 1 .. mem.buffer PROVE mem'.data[b][DqSlot(b, dqTop)] = mem.data[b][DqSlot(b, dqTop)]
        OBVIOUS
      <3>1. b \in 1 .. DqBufs
        <4>1. DqBufs \in Nat
          BY DqConsts
        <4>2. QED
          BY <4>1, <1>0
      <3>2. CASE b = o
        BY <3>2, <2>1, <1>e, <1>s, <1>0
      <3>3. CASE b # o
        BY <3>1, <3>3, <1>m
      <3>4. QED
        BY <3>2, <3>3
    <2>3. dqTop < End => Elem(dqTop)' = Elem(dqTop)
      <3>2. PICK y : y = dqTop
        OBVIOUS
      <3>3. Elem(dqTop)' = Elem(y)' /\ Elem(y) = Elem(dqTop)
        BY <3>2, <1>f
      <3>4. QED
        BY <2>1, <3>2, <3>3, <1>2
    <2>4. mem'.buffer \in Nat /\ mem.buffer <= mem'.buffer
      BY <1>m, <1>b, <1>0
    <2>5. QED
      BY <2>2, <2>3, <2>4, <1>f, <1>1, StealsKept
  <1>7. mem.epoch <= mem'.epoch
    BY <1>m, <1>0
  <1>8. QED
    BY <1>0, <1>f, <1>r, <1>m, <1>3, <1>4, <1>5, <1>6, <1>7, OwnerParts

\* The owner goes idle.
LEMMA IdleRec == OwnerIdle \in OwnRecs /\ OwnerIdle.pc = "idle"
  BY DEF OwnerIdle, OwnRecs, Inactive

\* The owner's stores of bottom that leave the elements where they are.
LEMMA BottomInv ==
  ASSUME DqInv, ThievesKept, UNCHANGED <<dqTop, dqTaken, dqPushed, retired, freed>>, NEW v \in Int, Stores(DqStore("bottom", v)),
         End' = End, Done' = Done, dqOwn' \in OwnRecs, dqOwn.pc # "epoch", dqOwn'.pc \notin {"epoch", "scan"}, BoundsHold'
  PROVE  DqInv'
  <1>0. /\ ElemsHold /\ DqTypeOK /\ dqPushed \in Nat /\ retired \subseteq [buf : Nat, epoch : Nat] /\ freed \subseteq Nat
        /\ mem.buffer \in Nat /\ mem.epoch \in Nat /\ dqTop \in Nat /\ dqTaken \in Seq(TakenRecs)
    BY OwnerKnown
  <1>m. /\ wbuf' = << >> /\ mem' \in MemRecs /\ mem'.bottom = v
        /\ mem'.buffer = mem.buffer /\ mem'.epoch = mem.epoch /\ mem'.data = mem.data
    BY <1>0, StoreBottom
  <1>1. \A i : Elem(i)' = Elem(i)
    BY <1>m DEF Elem
  <1>2. ElemsHold'
    BY <1>0, <1>1, ElemsStay
  <1>3. EpochsHold'
    BY <1>m, EpochsKept DEF ThievesKept
  <1>4. \A w \in Thieves : StealHolds(w)'
    BY <1>0, <1>1, <1>m, StealsKept
  <1>5. mem.epoch <= mem'.epoch
    BY <1>0, <1>m
  <1>6. QED
    BY <1>0, <1>m, <1>2, <1>3, <1>4, <1>5, OwnerParts

\* A take lowers bottom; the element past it is still in the deque.
LEMMA TakeInv == ASSUME DqInv, UNCHANGED delayed, CL_DEQUE_TAKE PROVE DqInv'
  <1>0. /\ DqTypeOK /\ BoundsHold /\ OwnMem = mem /\ mem.bottom \in Int /\ dqOwn \in OwnRecs
        /\ dqTop <= End /\ End - dqTop <= Capacity(mem.buffer)
    BY OwnerKnown
  <1>f. ThievesKept /\ UNCHANGED <<dqTop, dqTaken, dqPushed, retired, freed>> /\ dqOwn.pc = "idle"
    BY DEF ThievesKept, CL_DEQUE_TAKE
  <1>v. PICK v \in Int : v = mem.bottom - 1
    BY <1>0
  <1>s. Stores(DqStore("bottom", v)) /\ dqOwn' = [dqOwn EXCEPT !.pc = "look", !.b = v]
    BY <1>v, <1>0 DEF CL_DEQUE_TAKE
  <1>m. mem'.bottom = v /\ mem'.buffer = mem.buffer
    BY <1>s, <1>0, StoreBottom
  <1>r. dqOwn' \in OwnRecs /\ dqOwn'.pc = "look" /\ dqOwn'.b = v
    <2>1. "look" \in {"idle"} \cup Pushing \cup Taking
      BY DEF Taking
    <2>2. QED
      BY <2>1, <1>s, <1>0 DEF OwnRecs
  <1>1. End' = End /\ Done' = Done
    <2>1. /\ dqOwn.pc \notin Taking /\ dqOwn'.pc \in Taking /\ dqOwn.pc \notin Pushing /\ dqOwn'.pc \notin Pushing
      BY <1>f, <1>r DEF Taking, Pushing
    <2>2. v + 1 = mem.bottom
      BY <1>v, <1>0
    <2>3. QED
      BY <2>1, <2>2, <1>m, <1>f DEF End, Done
  <1>2. BoundsHold'
    BY <1>0, <1>1, <1>f, <1>r, <1>m DEF BoundsHold, Pushing
  <1>3. QED
    BY <1>f, <1>s, <1>r, <1>1, <1>2, BottomInv

\* After the race bottom is where top is.
LEMMA TakeRestoreInv == ASSUME DqInv, UNCHANGED delayed, TakeRestore PROVE DqInv'
  <1>0. /\ DqTypeOK /\ BoundsHold /\ OwnMem = mem /\ mem.bottom \in Int /\ dqOwn \in OwnRecs /\ dqOwn.t \in Nat
        /\ dqTop <= End /\ End - dqTop <= Capacity(mem.buffer)
    BY OwnerKnown
  <1>f. ThievesKept /\ UNCHANGED <<dqTop, dqTaken, dqPushed, retired, freed>> /\ dqOwn.pc = "restore" /\ dqOwn' = OwnerIdle
    BY DEF ThievesKept, TakeRestore
  <1>g. dqOwn.b = mem.bottom /\ dqOwn.t = dqOwn.b
    BY <1>0, <1>f DEF BoundsHold
  <1>v. PICK v \in Int : v = dqOwn.t + 1
    BY <1>0
  <1>s. Stores(DqStore("bottom", v))
    BY <1>v DEF TakeRestore
  <1>m. mem'.bottom = v /\ mem'.buffer = mem.buffer
    BY <1>s, <1>0, StoreBottom
  <1>r. dqOwn' \in OwnRecs /\ dqOwn'.pc = "idle"
    BY <1>f, IdleRec
  <1>1. End' = End /\ Done' = Done
    <2>1. /\ dqOwn.pc \in Taking /\ dqOwn'.pc \notin Taking /\ dqOwn.pc \notin Pushing /\ dqOwn'.pc \notin Pushing
      BY <1>f, <1>r DEF Taking, Pushing
    <2>2. v = mem.bottom + 1
      BY <1>v, <1>0, <1>g
    <2>3. QED
      BY <2>1, <2>2, <1>m, <1>f DEF End, Done
  <1>2. BoundsHold'
    BY <1>0, <1>1, <1>f, <1>r, <1>m DEF BoundsHold, Pushing
  <1>3. QED
    BY <1>f, <1>s, <1>r, <1>1, <1>2, BottomInv

\* Raising bottom publishes the element.
LEMMA PutBottomInv == ASSUME DqInv, UNCHANGED delayed, PutBottom PROVE DqInv'
  <1>0. /\ DqTypeOK /\ BoundsHold /\ ElemsHold /\ mem.bottom \in Int /\ dqOwn.b \in Int /\ dqPushed \in Nat
        /\ retired \subseteq [buf : Nat, epoch : Nat] /\ freed \subseteq Nat /\ End \in Int
        /\ mem.buffer \in Nat /\ mem.epoch \in Nat /\ dqTop \in Nat /\ dqTaken \in Seq(TakenRecs)
        /\ dqTop <= End /\ End - dqTop <= Capacity(mem.buffer) /\ Capacity(mem.buffer) \in Nat
    BY OwnerKnown
  <1>f. ThievesKept /\ UNCHANGED <<dqTop, dqTaken, dqPushed, retired, freed, thf>> /\ dqOwn.pc = "raise" /\ dqOwn' = OwnerIdle
    BY DEF ThievesKept, PutBottom
  <1>g. /\ dqOwn.b = mem.bottom /\ End = mem.bottom /\ Elem(End) = dqPushed /\ End - dqTop < Capacity(mem.buffer)
        /\ Done = dqPushed - 1 /\ dqPushed >= 1
    BY <1>0, <1>f DEF BoundsHold, End, Done, Pushing, Taking
  <1>v. PICK v \in Int : v = dqOwn.b + 1
    BY <1>0
  <1>m. /\ wbuf' = << >> /\ mem' \in MemRecs /\ mem'.bottom = v
        /\ mem'.buffer = mem.buffer /\ mem'.epoch = mem.epoch /\ mem'.data = mem.data
    <2>1. Stores(DqStore("bottom", v))
      BY <1>v DEF PutBottom
    <2>2. QED
      BY <2>1, <1>0, StoreBottom
  <1>r. dqOwn' \in OwnRecs /\ dqOwn'.pc = "idle"
    BY <1>f, IdleRec
  <1>1. End' = End + 1 /\ Done' = dqPushed
    <2>1. dqOwn'.pc \notin Taking /\ dqOwn'.pc \notin Pushing
      BY <1>r DEF Taking, Pushing
    <2>2. QED
      BY <2>1, <1>m, <1>v, <1>g, <1>f DEF End, Done
  <1>2. \A i : Elem(i)' = Elem(i)
    BY <1>m DEF Elem
  <1>3. ElemsHold'
    <2> DEFINE S == dqTop .. End - 1   T == dqTop .. End   D == DOMAIN dqTaken
    <2>p. PICK p \in Nat : p = dqPushed
      BY <1>0
    <2>d. Done = p - 1 /\ Done' = p /\ p >= 1 /\ (dqTop' .. End' - 1) = T /\ dqTaken' = dqTaken /\ Elem(End) = p
      <3>1. End' - 1 = End
        BY <1>1, <1>0
      <3>2. QED
        BY <3>1, <2>p, <1>g, <1>1, <1>f
    <2>t. \A i \in T : i \in Int /\ (i \in S \/ i = End) /\ (i \in S => i < End)
      BY <1>0
    <2>e. \A i \in S : Elem(i) \in Nat /\ Elem(i) \in 1 .. p - 1
      BY <2>d, <1>0 DEF ElemsHold
    <2>k. \A k \in D : dqTaken[k].elem \in Nat /\ dqTaken[k].elem \in 1 .. p - 1
      BY <2>d, <1>0 DEF ElemsHold
    <2> HIDE DEF S, T, D
    <2>1. \A i \in T : Elem(i)' \in 1 .. p
      BY <2>d, <2>t, <2>e, <1>2
    <2>2. ASSUME NEW i \in T, NEW j \in T, i < j PROVE Elem(i)' < Elem(j)'
      <3>1. i \in S
        BY <2>2, <2>t, <1>0
      <3>2. CASE j \in S
        BY <3>1, <3>2, <2>2, <1>2, <1>0 DEF ElemsHold, S
      <3>3. CASE j = End
        BY <3>1, <3>3, <2>d, <2>e, <1>2
      <3>4. QED
        BY <3>2, <3>3, <2>t
    <2>3. ASSUME NEW n \in 1 .. p PROVE (\E i \in T : Elem(i)' = n) \/ (\E k \in D : dqTaken[k].elem = n)
      <3>1. CASE n = p
        <4>1. End \in T
          BY <1>0 DEF T
        <4>2. QED
          BY <4>1, <3>1, <2>d, <1>2
      <3>2. CASE n \in 1 .. Done
        <4>1. (\E i \in S : Elem(i) = n) \/ (\E k \in D : dqTaken[k].elem = n)
          BY <3>2, <1>0 DEF ElemsHold, S, D
        <4>2. S \subseteq T
          BY <1>0 DEF S, T
        <4>3. QED
          BY <4>1, <4>2, <1>2
      <3>3. QED
        BY <3>1, <3>2, <2>d
    <2>4. ASSUME NEW k \in D
          PROVE  /\ dqTaken[k].elem \in 1 .. p
                 /\ \A i \in T : dqTaken[k].elem # Elem(i)' /\ (dqTaken[k].by = "thief" => dqTaken[k].elem < Elem(i)')
      <3>1. dqTaken[k].elem \in 1 .. p /\ dqTaken[k].elem < p
        BY <2>k
      <3>2. ASSUME NEW i \in S PROVE dqTaken[k].elem # Elem(i) /\ (dqTaken[k].by = "thief" => dqTaken[k].elem < Elem(i))
        BY <1>0 DEF ElemsHold, S, D
      <3>3. QED
        BY <3>1, <3>2, <2>t, <2>d, <1>2
    <2>5. \A k, l \in D : k < l =>
             /\ dqTaken[k].elem # dqTaken[l].elem
             /\ dqTaken[k].by = "thief" /\ dqTaken[l].by = "thief" => dqTaken[k].elem < dqTaken[l].elem
      BY <1>0 DEF ElemsHold, D
    <2>6. QED
      BY <2>1, <2>2, <2>3, <2>4, <2>5, <2>d DEF ElemsHold, D
  <1>4. BoundsHold'
    <2>1. PICK n \in Int : n = End + 1
      BY <1>0
    <2>2. dqTop <= n /\ n - dqTop <= Capacity(mem.buffer)
      BY <2>1, <1>0, <1>g
    <2>3. dqTop' = dqTop /\ End' = n /\ mem'.buffer = mem.buffer
      BY <2>1, <1>1, <1>f, <1>m
    <2>4. QED
      BY <2>2, <2>3, <1>r DEF BoundsHold, Pushing
  <1>5. EpochsHold'
    BY <1>f, <1>r, <1>m, EpochsKept
  <1>6. \A w \in Thieves : StealHolds(w)'
    <2>1. dqTop < End => dqTop < End'
      BY <1>0, <1>1
    <2>2. mem'.buffer \in Nat /\ mem.buffer <= mem'.buffer
      BY <1>0, <1>m
    <2>3. Elem(dqTop)' = Elem(dqTop)
      BY <1>m, <1>f DEF Elem
    <2>4. QED
      BY <2>1, <2>2, <2>3, <1>m, <1>f, StealsKept
  <1>7. mem.epoch <= mem'.epoch
    BY <1>0, <1>m
  <1>8. QED
    BY <1>0, <1>f, <1>r, <1>m, <1>3, <1>4, <1>5, <1>6, <1>7, OwnerParts

\* A take finds nothing, has its element to itself, or has to race for it.
LEMMA TakeLookInv == ASSUME DqInv, UNCHANGED delayed, TakeLook PROVE DqInv'
  <1>0. /\ DqTypeOK /\ BoundsHold /\ ElemsHold /\ mem.bottom \in Int /\ dqOwn.b \in Int /\ dqPushed \in Nat
        /\ retired \subseteq [buf : Nat, epoch : Nat] /\ freed \subseteq Nat /\ End \in Int /\ dqOwn \in OwnRecs
        /\ mem.buffer \in Nat /\ mem.epoch \in Nat /\ dqTop \in Nat /\ dqTaken \in Seq(TakenRecs)
        /\ mem \in MemRecs /\ wbuf = << >>
        /\ dqTop <= End /\ End - dqTop <= Capacity(mem.buffer) /\ Capacity(mem.buffer) \in Nat
    BY OwnerKnown
  <1>f. ThievesKept /\ UNCHANGED <<dqTop, dqPushed, retired, freed, thf>> /\ dqOwn.pc = "look"
    BY DEF ThievesKept, TakeLook
  <1>g. dqOwn.b = mem.bottom /\ End = mem.bottom + 1 /\ Done = dqPushed
    BY <1>0, <1>f DEF BoundsHold, End, Done, Pushing, Taking
  <1>1. CASE dqOwn.b - dqTop < 0 /\ Stores(DqStore("bottom", dqTop)) /\ dqOwn' = OwnerIdle /\ UNCHANGED dqTaken
    <2>1. dqTop = End
      BY <1>1, <1>g, <1>0
    <2>2. dqOwn' \in OwnRecs /\ dqOwn'.pc = "idle" /\ dqTop \in Int
      BY <1>1, IdleRec, <1>0
    <2>3. mem'.bottom = dqTop /\ mem'.buffer = mem.buffer
      BY <1>1, <1>0, <2>2, StoreBottom
    <2>4. dqOwn'.pc \notin Taking /\ dqOwn'.pc \notin Pushing
      BY <2>2 DEF Taking, Pushing
    <2>5. End' = End /\ Done' = Done
      BY <2>1, <2>3, <2>4, <1>g, <1>f DEF End, Done
    <2>6. BoundsHold'
      BY <1>0, <2>2, <2>3, <2>5, <1>f DEF BoundsHold, Pushing
    <2>7. QED
      BY <1>1, <1>f, <2>2, <2>5, <2>6, BottomInv
  <1>2. CASE /\ dqOwn.b - dqTop > 0
             /\ dqTaken' = Append(dqTaken, [elem |-> mem.data[mem.buffer][DqSlot(mem.buffer, dqOwn.b)], by |-> "owner"])
             /\ dqOwn' = OwnerIdle /\ UNCHANGED <<mem, wbuf>>
    <2>1. PICK x \in dqTop .. End - 1 : x = dqOwn.b
      BY <1>2, <1>g, <1>0
    <2>2. dqOwn' \in OwnRecs /\ dqOwn'.pc = "idle"
      BY <1>2, IdleRec
    <2>3. dqOwn'.pc \notin Taking /\ dqOwn'.pc \notin Pushing
      BY <2>2 DEF Taking, Pushing
    <2>4. End' = mem.bottom /\ Done' = Done
      BY <2>3, <1>2, <1>g, <1>f DEF End, Done
    <2>5. \A i : Elem(i)' = Elem(i)
      BY <1>2 DEF Elem
    <2>6. ElemsHold' /\ dqTaken' \in Seq(TakenRecs)
      <3>1. \A i : i \in dqTop' .. End' - 1 <=> i \in dqTop .. End - 1 /\ i # x
        BY <2>1, <2>4, <1>f, <1>g, <1>0
      <3>2. dqTaken' = Append(dqTaken, [elem |-> Elem(x), by |-> "owner"])
        BY <1>2, <2>1 DEF Elem
      <3>3. QED
        BY <3>1, <3>2, <2>4, <2>5, <1>0, ElemsLeave
    <2>7. BoundsHold'
      <3>1. dqTop <= mem.bottom /\ mem.bottom - dqTop <= Capacity(mem.buffer)
        BY <1>2, <1>g, <1>0
      <3>2. QED
        BY <3>1, <2>2, <2>4, <1>2, <1>f DEF BoundsHold, Pushing
    <2>8. EpochsHold'
      BY <1>2, <1>f, <2>2, EpochsKept
    <2>9. \A w \in Thieves : StealHolds(w)'
      <3>1. dqTop < End'
        BY <1>2, <2>4, <1>g, <1>0
      <3>2. mem'.buffer \in Nat /\ mem.buffer <= mem'.buffer /\ mem' = mem
        BY <1>2, <1>0
      <3>3. Elem(dqTop)' = Elem(dqTop)
        BY <1>2, <1>f DEF Elem
      <3>4. QED
        BY <3>1, <3>2, <3>3, <1>f, StealsKept
    <2>10. mem.epoch <= mem'.epoch
      BY <1>2, <1>0
    <2>11. QED
      BY <1>2, <1>0, <1>f, <2>2, <2>6, <2>7, <2>8, <2>9, <2>10, OwnerParts
  <1>3. CASE dqOwn.b - dqTop = 0 /\ dqOwn' = [dqOwn EXCEPT !.pc = "race", !.t = dqTop] /\ UNCHANGED <<mem, wbuf, dqTaken>>
    <2>1. dqOwn' \in OwnRecs /\ dqOwn'.pc = "race" /\ dqOwn'.t = dqTop /\ dqOwn'.b = dqOwn.b
      <3>1. "race" \in {"idle"} \cup Pushing \cup Taking
        BY DEF Taking
      <3>2. QED
        BY <3>1, <1>3, <1>0 DEF OwnRecs
    <2>2. End' = End /\ Done' = Done
      BY <2>1, <1>3, <1>f DEF End, Done, Taking, Pushing
    <2>3. BoundsHold'
      <3>1. dqTop = dqOwn.b /\ dqOwn.b <= dqTop
        BY <1>3, <1>0
      <3>2. QED
        BY <3>1, <2>1, <2>2, <1>3, <1>f, <1>0, <1>g DEF BoundsHold, Pushing
    <2>4. EpochsHold'
      BY <1>3, <1>f, <2>1, EpochsKept
    <2>5. QED
      BY <1>3, <1>0, <1>f, <2>1, <2>2, <2>3, <2>4, OwnerReads
  <1>4. QED
    BY <1>1, <1>2, <1>3 DEF TakeLook

\* The race for the last element is decided by top: one of the owner and the thieves has it.
LEMMA TakeRaceInv == ASSUME DqInv, UNCHANGED delayed, TakeRace PROVE DqInv'
  <1>0. /\ DqTypeOK /\ BoundsHold /\ ElemsHold /\ mem.bottom \in Int /\ dqOwn.b \in Int /\ dqPushed \in Nat
        /\ retired \subseteq [buf : Nat, epoch : Nat] /\ freed \subseteq Nat /\ End \in Int /\ dqOwn \in OwnRecs
        /\ mem.buffer \in Nat /\ mem.epoch \in Nat /\ dqTop \in Nat /\ dqTaken \in Seq(TakenRecs)
        /\ mem \in MemRecs /\ wbuf = << >>
        /\ dqTop <= End /\ End - dqTop <= Capacity(mem.buffer) /\ Capacity(mem.buffer) \in Nat
    BY OwnerKnown
  <1>f. ThievesKept /\ UNCHANGED <<mem, wbuf, dqPushed, retired, freed, thf>> /\ dqOwn.pc = "race"
    BY DEF ThievesKept, TakeRace
  <1>g. dqOwn.b = mem.bottom /\ End = mem.bottom + 1 /\ dqOwn.t = dqOwn.b /\ dqOwn.b <= dqTop
    BY <1>0, <1>f DEF BoundsHold, End, Taking
  <1>r. dqOwn' \in OwnRecs /\ dqOwn'.pc = "restore" /\ dqOwn'.b = dqOwn.b /\ dqOwn'.t = dqOwn.t
    <2>1. dqOwn' = [dqOwn EXCEPT !.pc = "restore"]
      BY DEF TakeRace
    <2>2. "restore" \in {"idle"} \cup Pushing \cup Taking
      BY DEF Taking
    <2>3. QED
      BY <2>1, <2>2, <1>0 DEF OwnRecs
  <1>1. End' = End /\ Done' = Done /\ \A i : Elem(i)' = Elem(i)
    BY <1>r, <1>f DEF End, Done, Taking, Pushing, Elem
  <1>2. EpochsHold'
    BY <1>f, <1>r, EpochsKept
  <1>3. CASE dqTop = dqOwn.t
    <2>1. dqTop' = dqTop + 1 /\ dqTaken' = Append(dqTaken, [elem |-> Elem(dqTop), by |-> "owner"])
      BY <1>3, <1>g DEF TakeRace, Elem
    <2>2. ElemsHold' /\ dqTaken' \in Seq(TakenRecs)
      <3>1. dqTop \in dqTop .. End - 1
        BY <1>0, <1>3, <1>g
      <3>2. \A i : i \in dqTop' .. End' - 1 <=> i \in dqTop .. End - 1 /\ i # dqTop
        BY <1>0, <2>1, <1>1
      <3>3. QED
        BY <3>1, <3>2, <2>1, <1>1, <1>0, ElemsLeave
    <2>3. BoundsHold'
      <3>0. dqTop = dqOwn.b /\ End = dqTop + 1
        BY <1>3, <1>g
      <3>1. dqTop + 1 <= End /\ End - (dqTop + 1) <= Capacity(mem.buffer) /\ dqTop + 1 = dqOwn.b + 1
        BY <3>0, <1>0
      <3>2. QED
        BY <3>1, <2>1, <1>1, <1>r, <1>f, <1>g DEF BoundsHold, Pushing
    <2>4. \A w \in Thieves : StealHolds(w)'
      BY <1>f, <2>1, TopMoves
    <2>5. dqTop' \in Nat /\ mem.epoch <= mem'.epoch
      BY <2>1, <1>0, <1>f
    <2>6. QED
      BY <1>0, <1>f, <1>r, <1>2, <2>2, <2>3, <2>4, <2>5, OwnerParts
  <1>4. CASE dqTop # dqOwn.t
    <2>1. dqTop' = dqTop /\ dqTaken' = dqTaken
      BY <1>4 DEF TakeRace
    <2>2. BoundsHold'
      <3>1. dqTop = dqOwn.b + 1
        BY <1>4, <1>g, <1>0
      <3>2. QED
        BY <3>1, <2>1, <1>0, <1>1, <1>r, <1>f, <1>g DEF BoundsHold, Pushing
    <2>3. QED
      BY <1>0, <1>f, <1>r, <1>1, <1>2, <2>1, <2>2, OwnerReads
  <1>5. QED
    BY <1>3, <1>4

\* Every step of the specification; in program order there is nothing to drain.
LEMMA DqStepInv == DqInv /\ [DqNext]_dqVars => DqInv'
  <1> SUFFICES ASSUME DqInv, [DqNext]_dqVars PROVE DqInv'
    OBVIOUS
  <1>1. CASE DqNext
    <2>1. UNCHANGED delayed
      BY <1>1 DEF DqNext
    <2>2. CASE Owner
      BY <2>1, <2>2, PushInv, GrowBufferInv, GrowEpochInv, ReclaimCountInv, ReclaimScanInv, ReclaimFreeInv, PutElementInv,
         PutBottomInv, TakeInv, TakeLookInv, TakeRaceInv, TakeRestoreInv DEF Owner
    <2>3. CASE DqDrain
      BY <2>3, OwnerKnown DEF DqDrain
    <2>4. CASE \E w \in Thieves : Thief(w)
      BY <2>1, <2>4, ThiefInv
    <2>5. QED
      BY <1>1, <2>2, <2>3, <2>4 DEF DqNext
  <1>2. CASE UNCHANGED dqVars
    <2>1. /\ delayed' = delayed /\ mem' = mem /\ wbuf' = wbuf /\ dqTop' = dqTop /\ slots' = slots /\ thiefCount' = thiefCount
          /\ retired' = retired /\ freed' = freed /\ dqOwn' = dqOwn /\ thf' = thf /\ dqPushed' = dqPushed /\ dqTaken' = dqTaken
      BY <1>2 DEF dqVars
    <2>2. ThiefLeaves /\ ThievesKept
      BY <2>1 DEF ThiefLeaves, OwnerSide, ThievesKept
    <2>3. End' = End /\ Done' = Done /\ BoundsHold'
      BY <2>1, <2>2, OwnerKept DEF Done
    <2>4. EpochsHold'
      BY <2>1 DEF DqInv, EpochsHold
    <2>5. dqOwn \in OwnRecs /\ dqPushed \in Nat /\ retired \subseteq [buf : Nat, epoch : Nat] /\ freed \subseteq Nat
      BY OwnerKnown
    <2>6. QED
      BY <2>1, <2>2, <2>3, <2>4, <2>5, OwnerReads
  <1>3. QED
    BY <1>1, <1>2

\* In program order the inductive invariant holds for every number of thieves, pushes and buffers.
THEOREM DequeInvariant == DqSpec /\ ~delayed => []DqInv
  <1>1. DqInit /\ ~delayed => DqInv
    BY DqInitInv
  <1>2. DqInv /\ [DqNext]_dqVars => DqInv'
    BY DqStepInv
  <1>3. QED
    BY <1>1, <1>2, PTL DEF DqSpec

\* Hence every element leaves the deque once and in order, and no thief reads a freed buffer.
THEOREM DequeIsSound == DqSpec /\ ~delayed => []DequeSound
  <1>1. DqInv => DequeSound
    BY DqInvSound
  <1>2. QED
    BY <1>1, DequeInvariant, PTL

-----------------------------------------------------------------------------
(* The block heap: the inductive invariant *)

ImTypeOK ==
  /\ objs \subseteq [b : Blocks, off : Nat, n : Nat \ {0}, gen : {0, 1}, sc : {0, 1}]
  /\ lines \in [Blocks -> [LineSet -> {0, 1}]]
  /\ list \in Seq(Blocks) /\ free \in Seq(Blocks) /\ unswept \in Seq(Blocks)
  /\ total \in Nat
  /\ cur \in Blocks \cup {NoBlock} /\ bumpAt \in Nat /\ limit \in Nat
  /\ hand \in Blocks \cup {NoBlock} /\ need \in Nat
  /\ sweeping \in BOOLEAN

EachOnce(s) == \A i, j \in 1 .. Len(s) : s[i] = s[j] => i = j

Before(o, p) == o.off + o.n <= p.off

\* An object lies in a block of the list, in lines marked occupied, apart from the others.
ObjsHold ==
  /\ \A o \in objs :
       /\ o.b \in Range(list) /\ o.off + o.n <= Cells
       /\ \A i \in FirstLine(o) .. LastLine(o) : lines[o.b][i] = 1
  /\ \A o, p \in objs : o # p /\ o.b = p.b => Before(o, p) \/ Before(p, o)

RunHolds ==
  /\ cur # NoBlock =>
       /\ cur \in Range(list) /\ bumpAt <= limit /\ limit <= Cells
       /\ \A o \in objs : o.b = cur => o.off + o.n <= bumpAt \/ limit <= o.off
  /\ apc = "bump" => cur # NoBlock /\ bumpAt + need <= limit
  /\ apc # "idle" => need \in Sizes

BlocksHold ==
  /\ EachOnce(list) /\ EachOnce(free)
  /\ Range(list) \cap Range(free) = {}
  /\ hand \notin Range(list) \cup Range(free)
  /\ hand # NoBlock <=> apc = "insert"
  /\ Len(list) + Len(free) + (IF hand = NoBlock THEN 0 ELSE 1) = total

SweepOK == sweeping => EachOnce(unswept) /\ Range(unswept) \subseteq Range(list)

ImmixInv == ImTypeOK /\ ObjsHold /\ RunHolds /\ BlocksHold /\ SweepOK

\* A non-empty set of naturals has a least member.
LEMMA LeastNat ==
  ASSUME NEW T, T \subseteq Nat, T # {}
  PROVE  \E m \in T : \A k \in T : m <= k
  <1>1. IsWellFoundedOn(OpToRel(<, Nat), Nat)
    BY NatLessThanWellFounded
  <1>2. PICK m \in T : \A k \in T : ~(<<k, m>> \in OpToRel(<, Nat))
    BY <1>1, WFMin
  <1>3. m \in Nat /\ \A k \in T : k \in Nat /\ ~(k < m)
    BY <1>2 DEF OpToRel
  <1>4. ASSUME NEW k \in T PROVE m <= k
    BY <1>3
  <1>5. QED
    BY <1>4

\* Min returns it.
LEMMA MinNat ==
  ASSUME NEW T, T \subseteq Nat, T # {}
  PROVE  Min(T) \in T /\ \A k \in T : Min(T) <= k
  <1>1. \E m \in T : \A k \in T : m <= k
    BY LeastNat
  <1>2. QED
    BY <1>1 DEF Min

\* What ImmixAssumption says, in the form the proofs use.
LEMMA ImConsts ==
  /\ MaxBlocks \in Nat \ {0} /\ NLines \in Nat \ {0} /\ LineCells \in Nat \ {0} /\ Cells \in Nat
  /\ \A n \in Sizes : n \in Nat \ {0} /\ n < Cells
  <1>1. MaxBlocks \in Nat \ {0} /\ NLines \in Nat \ {0} /\ LineCells \in Nat \ {0}
    BY ImmixAssumption DEF ImmixAssumption
  <1>2. Cells \in Nat
    BY <1>1 DEF Cells
  <1>3. \A n \in Sizes : n \in 1 .. Cells - 1
    BY ImmixAssumption DEF ImmixAssumption, Cells
  <1>4. QED
    BY <1>1, <1>2, <1>3

\* The line of a cell is the one whose first cell is at or below it and whose end is above.
LEMMA LineFacts ==
  /\ \A k \in Nat : k * LineCells \in Nat
  /\ \A j, k \in Nat : j <= k => j * LineCells <= k * LineCells
  /\ \A x \in Nat : x \div LineCells \in Nat
  /\ \A x, k \in Nat : x \div LineCells < k => x + 1 <= k * LineCells
  /\ \A x, k \in Nat : k <= x \div LineCells => k * LineCells <= x
  <1>g. LineCells \in Nat \ {0}
    BY ImConsts
  <1>1. ASSUME NEW k \in Nat PROVE k * LineCells \in Nat
    BY <1>g
  <1>2. ASSUME NEW j \in Nat, NEW k \in Nat, j <= k PROVE j * LineCells <= k * LineCells
    <2>1. PICK d \in Nat : k = j + d
      <3>1. k - j \in Nat /\ k = j + (k - j)
        BY <1>2
      <3>2. QED
        BY <3>1
    <2>2. k * LineCells = j * LineCells + d * LineCells
      BY <2>1, <1>g
    <2>3. j * LineCells \in Nat /\ k * LineCells \in Nat /\ d * LineCells \in Nat
      BY <1>g
    <2>4. QED
      BY <2>2, <2>3
  <1>3. ASSUME NEW x \in Nat
        PROVE  /\ x \div LineCells \in Nat
               /\ (x \div LineCells) * LineCells <= x
               /\ x < (x \div LineCells + 1) * LineCells
    BY <1>g
  <1>4. ASSUME NEW x \in Nat, NEW k \in Nat, x \div LineCells < k PROVE x + 1 <= k * LineCells
    <2>1. PICK q \in Nat : q = x \div LineCells /\ x < (q + 1) * LineCells
      BY <1>3
    <2>2. q + 1 <= k
      BY <2>1, <1>4
    <2>3. (q + 1) * LineCells <= k * LineCells /\ (q + 1) * LineCells \in Nat /\ k * LineCells \in Nat
      BY <2>2, <1>2, <1>1
    <2>4. QED
      BY <2>1, <2>3
  <1>5. ASSUME NEW x \in Nat, NEW k \in Nat, k <= x \div LineCells PROVE k * LineCells <= x
    <2>1. PICK q \in Nat : q = x \div LineCells /\ q * LineCells <= x
      BY <1>3
    <2>2. k * LineCells <= q * LineCells /\ k * LineCells \in Nat /\ q * LineCells \in Nat
      BY <2>1, <1>5, <1>2, <1>1
    <2>3. QED
      BY <2>1, <2>2
  <1>6. QED
    BY <1>1, <1>2, <1>3, <1>4, <1>5

\* An object within its block lies on lines of the block, at least one.
LEMMA ObjLines ==
  ASSUME NEW o, o.off \in Nat, o.n \in Nat \ {0}, o.off + o.n <= Cells
  PROVE  /\ FirstLine(o) \in LineSet /\ LastLine(o) \in LineSet /\ FirstLine(o) <= LastLine(o)
         /\ \A s \in Nat : LastLine(o) < s => o.off + o.n <= s * LineCells
         /\ \A s \in Nat : s <= FirstLine(o) => s * LineCells <= o.off
  <1>c. NLines \in Nat \ {0} /\ LineCells \in Nat \ {0} /\ Cells \in Nat
    BY ImConsts
  <1>1. PICK x \in Nat : x = o.off + o.n - 1 /\ o.off <= x /\ x + 1 = o.off + o.n
    OBVIOUS
  <1>2. PICK f \in Nat, l \in Nat : f = FirstLine(o) /\ l = LastLine(o) /\ f = o.off \div LineCells /\ l = x \div LineCells
    BY <1>1, LineFacts DEF FirstLine, LastLine
  <1>3. \A s \in Nat : l < s => x + 1 <= s * LineCells
    BY <1>2, LineFacts
  <1>4. \A s \in Nat : s <= f => s * LineCells <= o.off
    BY <1>2, LineFacts
  <1>5. l < NLines
    <2>1. SUFFICES ASSUME NLines <= l PROVE FALSE
      BY <1>c
    <2>2. NLines * LineCells <= x
      BY <2>1, <1>2, <1>c, LineFacts
    <2>3. QED
      BY <2>2, <1>1, <1>c DEF Cells
  <1>6. f <= l
    <2>1. SUFFICES ASSUME l + 1 <= f PROVE FALSE
      OBVIOUS
    <2>2. x + 1 <= (l + 1) * LineCells /\ (l + 1) * LineCells <= o.off /\ (l + 1) * LineCells \in Nat
      BY <2>1, <1>3, <1>4, LineFacts
    <2>3. QED
      BY <2>2, <1>1
  <1>7. QED
    BY <1>1, <1>2, <1>3, <1>4, <1>5, <1>6, <1>c DEF LineSet

\* n cells fit into the lines reserved for them.
LEMMA LinesForFacts ==
  ASSUME NEW n \in Nat \ {0}, NEW k \in Nat, LinesFor(n) <= k
  PROVE  n <= k * LineCells
  <1>g. LineCells \in Nat \ {0}
    BY ImConsts
  <1>1. PICK x \in Nat : x = n + LineCells - 1
    BY <1>g
  <1>2. x \div LineCells < k + 1
    BY <1>1, <1>g, LineFacts DEF LinesFor
  <1>3. x + 1 <= (k + 1) * LineCells
    BY <1>2, LineFacts
  <1>4. (k + 1) * LineCells = k * LineCells + LineCells /\ k * LineCells \in Nat
    BY <1>g
  <1>5. QED
    BY <1>1, <1>3, <1>4, <1>g

\* The members of a sequence of blocks are blocks.
LEMMA RangeSeq ==
  ASSUME NEW s \in Seq(Blocks)
  PROVE  /\ Len(s) \in Nat /\ DOMAIN s = 1 .. Len(s)
         /\ \A b : b \in Range(s) <=> \E i \in 1 .. Len(s) : s[i] = b
         /\ Range(s) \subseteq Blocks
  <1>1. Len(s) \in Nat /\ DOMAIN s = 1 .. Len(s) /\ \A i \in 1 .. Len(s) : s[i] \in Blocks
    OBVIOUS
  <1>2. \A b : b \in Range(s) <=> \E i \in 1 .. Len(s) : s[i] = b
    BY <1>1 DEF Range
  <1>3. QED
    BY <1>1, <1>2

\* A sequence without repetitions has as many members as it is long.
LEMMA OnceCard ==
  ASSUME NEW s \in Seq(Blocks), EachOnce(s)
  PROVE  IsFiniteSet(Range(s)) /\ Cardinality(Range(s)) = Len(s)
  <1>1. Len(s) \in Nat /\ DOMAIN s = 1 .. Len(s) /\ \A b : b \in Range(s) <=> \E i \in 1 .. Len(s) : s[i] = b
    BY RangeSeq
  <1>2. s \in [1 .. Len(s) -> Range(s)]
    BY <1>1
  <1>3. s \in Bijection(1 .. Len(s), Range(s))
    BY <1>1, <1>2 DEF Bijection, Injection, Surjection, IsInjective, EachOnce
  <1>4. ExistsBijection(1 .. Len(s), Range(s))
    BY <1>3 DEF ExistsBijection
  <1>5. IsFiniteSet(1 .. Len(s)) /\ Cardinality(1 .. Len(s)) = Len(s)
    BY <1>1, FS_Interval
  <1>6. QED
    BY <1>4, <1>5, FS_Bijection

Upto(s, bs, k) == {j \in 1 .. k : s[j] \in bs}
Count(s, bs, k) == Cardinality(Upto(s, bs, k))

\* Going up by one counts one more, or none.
LEMMA CountStep ==
  ASSUME NEW s, NEW bs, NEW k \in Nat
  PROVE  /\ Count(s, bs, k) \in Nat
         /\ Count(s, bs, k + 1) = IF s[k + 1] \in bs THEN Count(s, bs, k) + 1 ELSE Count(s, bs, k)
  <1>1. IsFiniteSet(Upto(s, bs, k))
    <2>1. IsFiniteSet(1 .. k)
      BY FS_Interval
    <2>2. Upto(s, bs, k) \in SUBSET (1 .. k)
      BY DEF Upto
    <2>3. QED
      BY <2>1, <2>2, FS_Subset
  <1>2. Count(s, bs, k) \in Nat
    BY <1>1, FS_CardinalityType DEF Count
  <1>3. CASE s[k + 1] \in bs
    <2>1. Upto(s, bs, k + 1) = Upto(s, bs, k) \cup {k + 1} /\ k + 1 \notin Upto(s, bs, k)
      BY <1>3 DEF Upto
    <2>2. Cardinality(Upto(s, bs, k) \cup {k + 1}) = Cardinality(Upto(s, bs, k)) + 1
      BY <2>1, <1>1, FS_AddElement
    <2>3. QED
      BY <1>2, <1>3, <2>1, <2>2 DEF Count
  <1>4. CASE s[k + 1] \notin bs
    <2>1. Upto(s, bs, k + 1) = Upto(s, bs, k)
      <3>1. \A j \in 1 .. k + 1 : j \in 1 .. k \/ j = k + 1
        OBVIOUS
      <3>2. QED
        BY <1>4, <3>1 DEF Upto
    <2>2. QED
      BY <1>2, <1>4, <2>1 DEF Count
  <1>5. QED
    BY <1>2, <1>3, <1>4

\* The count does not fall.
LEMMA CountUp ==
  ASSUME NEW s, NEW bs, NEW k \in Nat, NEW l \in Nat, k <= l
  PROVE  Count(s, bs, k) <= Count(s, bs, l)
  <1>d. DEFINE T == {m \in Nat : k <= m /\ ~(Count(s, bs, k) <= Count(s, bs, m))}
  <1>1. SUFFICES ASSUME T # {} PROVE FALSE
    OBVIOUS
  <1>2. PICK m \in T : \A x \in T : m <= x
    <2>1. T \subseteq Nat
      OBVIOUS
    <2>2. QED
      BY <1>1, <2>1, LeastNat
  <1>3. Count(s, bs, k) \in Nat /\ m \in Nat /\ k <= m /\ ~(Count(s, bs, k) <= Count(s, bs, m))
    BY <1>2, CountStep
  <1>4. m # k
    BY <1>3
  <1>5. PICK p \in Nat : m = p + 1 /\ k <= p /\ p < m
    <2>1. m - 1 \in Nat /\ m = (m - 1) + 1 /\ k <= m - 1 /\ m - 1 < m
      BY <1>3, <1>4
    <2>2. QED
      BY <2>1
  <1>6. Count(s, bs, p) \in Nat /\ Count(s, bs, m) \in Nat /\ Count(s, bs, p) <= Count(s, bs, m)
    BY <1>5, CountStep
  <1>7. p \notin T
    BY <1>2, <1>3, <1>5
  <1>8. Count(s, bs, k) <= Count(s, bs, p)
    BY <1>5, <1>7
  <1>9. QED
    BY <1>3, <1>6, <1>8

\* It rises at each member of bs.
LEMMA CountGrows ==
  ASSUME NEW s, NEW bs, NEW k \in Nat, NEW l \in Nat, k < l, s[l] \in bs
  PROVE  Count(s, bs, k) < Count(s, bs, l)
  <1>1. PICK p \in Nat : l = p + 1 /\ k <= p
    <2>1. l - 1 \in Nat /\ l = (l - 1) + 1 /\ k <= l - 1
      OBVIOUS
    <2>2. QED
      BY <2>1
  <1>2. Count(s, bs, k) \in Nat /\ Count(s, bs, p) \in Nat /\ Count(s, bs, l) = Count(s, bs, p) + 1
    BY <1>1, CountStep
  <1>3. Count(s, bs, k) <= Count(s, bs, p)
    BY <1>1, CountUp
  <1>4. QED
    BY <1>2, <1>3

\* Every number up to the count is reached at a member of bs.
LEMMA CountReached ==
  ASSUME NEW s, NEW bs, NEW n \in Nat, NEW i \in 1 .. Count(s, bs, n)
  PROVE  \E k \in 1 .. n : s[k] \in bs /\ Count(s, bs, k) = i
  <1>d. DEFINE T == {m \in Nat : m <= n /\ i <= Count(s, bs, m)}
  <1>1. i \in Nat /\ i >= 1 /\ i <= Count(s, bs, n) /\ Count(s, bs, n) \in Nat
    BY CountStep
  <1>2. T \subseteq Nat /\ n \in T
    BY <1>1
  <1>3. PICK m \in T : \A x \in T : m <= x
    BY <1>2, LeastNat
  <1>4. m \in Nat /\ m <= n /\ i <= Count(s, bs, m)
    BY <1>3
  <1>5. m # 0
    <2>1. Count(s, bs, 0) = 0
      <3>1. Upto(s, bs, 0) = {}
        BY DEF Upto
      <3>2. QED
        BY <3>1, FS_EmptySet DEF Count
    <2>2. QED
      BY <2>1, <1>4, <1>1
  <1>6. PICK p \in Nat : m = p + 1 /\ p < m /\ p <= n
    <2>1. m - 1 \in Nat /\ m = (m - 1) + 1 /\ m - 1 < m /\ m - 1 <= n
      BY <1>4, <1>5
    <2>2. QED
      BY <2>1
  <1>7. p \notin T
    BY <1>3, <1>4, <1>6
  <1>8. Count(s, bs, p) \in Nat /\ Count(s, bs, p) < i
        /\ Count(s, bs, m) = IF s[m] \in bs THEN Count(s, bs, p) + 1 ELSE Count(s, bs, p)
    <2>1. Count(s, bs, p) \in Nat /\ Count(s, bs, m) = IF s[m] \in bs THEN Count(s, bs, p) + 1 ELSE Count(s, bs, p)
      BY <1>6, CountStep
    <2>2. ~(i <= Count(s, bs, p))
      BY <1>6, <1>7
    <2>3. QED
      BY <2>1, <2>2, <1>1
  <1>9. s[m] \in bs /\ Count(s, bs, m) = i
    BY <1>8, <1>4, <1>1
  <1>10. m \in 1 .. n
    BY <1>4, <1>5
  <1>11. QED
    BY <1>9, <1>10

\* Among keeps exactly the members of bs, and repeats none.
LEMMA AmongFacts ==
  ASSUME NEW s \in Seq(Blocks), EachOnce(s), NEW bs
  PROVE  /\ Among(s, bs) \in Seq(Blocks) /\ EachOnce(Among(s, bs))
         /\ Range(Among(s, bs)) = Range(s) \cap bs
  <1>1. Len(s) \in Nat /\ DOMAIN s = 1 .. Len(s) /\ \A i \in 1 .. Len(s) : s[i] \in Blocks
    OBVIOUS
  <1>2. PICK n \in Nat : n = Count(s, bs, Len(s))
    BY <1>1, CountStep
  <1>3. PICK t : t = Among(s, bs)
    OBVIOUS
  <1>4. PICK pos : pos = [i \in 1 .. n |-> CHOOSE k \in 1 .. Len(s) : s[k] \in bs /\ Count(s, bs, k) = i]
    OBVIOUS
  <1>5. ASSUME NEW i \in 1 .. n PROVE pos[i] \in 1 .. Len(s) /\ s[pos[i]] \in bs /\ Count(s, bs, pos[i]) = i
    <2>1. \E k \in 1 .. Len(s) : s[k] \in bs /\ Count(s, bs, k) = i
      BY <1>1, <1>2, CountReached
    <2>2. pos[i] = CHOOSE k \in 1 .. Len(s) : s[k] \in bs /\ Count(s, bs, k) = i
      BY <1>4
    <2>3. QED
      BY <2>1, <2>2
  <1>6. /\ DOMAIN t = 1 .. n /\ t = [i \in 1 .. n |-> t[i]]
        /\ \A i \in 1 .. n : t[i] = s[pos[i]]
    <2>1. t = [i \in 1 .. n |-> s[CHOOSE k \in 1 .. Len(s) : s[k] \in bs /\ Count(s, bs, k) = i]]
      BY <1>2, <1>3 DEF Among, Count, Upto
    <2>2. \A i \in 1 .. n : pos[i] = CHOOSE k \in 1 .. Len(s) : s[k] \in bs /\ Count(s, bs, k) = i
      BY <1>4
    <2>3. DOMAIN t = 1 .. n /\ t = [i \in 1 .. n |-> t[i]]
      BY <2>1
    <2>4. ASSUME NEW i \in 1 .. n PROVE t[i] = s[pos[i]]
      <3>1. t[i] = s[CHOOSE k \in 1 .. Len(s) : s[k] \in bs /\ Count(s, bs, k) = i]
        BY <2>1
      <3>2. QED
        BY <3>1, <2>2
    <2>5. QED
      BY <2>3, <2>4
  <1>7. t \in Seq(Blocks) /\ Len(t) = n
    <2>1. t \in [1 .. n -> Blocks]
      BY <1>5, <1>6, <1>1
    <2>2. QED
      BY <2>1, <1>2
  <1>8. EachOnce(t)
    <2>1. SUFFICES ASSUME NEW i \in 1 .. n, NEW j \in 1 .. n, t[i] = t[j] PROVE i = j
      BY <1>7 DEF EachOnce
    <2>2. s[pos[i]] = s[pos[j]]
      BY <2>1, <1>6
    <2>3. pos[i] = pos[j]
      BY <2>2, <1>5 DEF EachOnce
    <2>4. QED
      BY <2>3, <1>5
  <1>9. Range(t) = Range(s) \cap bs
    <2>1. ASSUME NEW b \in Range(t) PROVE b \in Range(s) /\ b \in bs
      <3>1. PICK i \in 1 .. n : t[i] = b
        BY <1>7, RangeSeq
      <3>2. s[pos[i]] = b /\ pos[i] \in 1 .. Len(s) /\ s[pos[i]] \in bs
        BY <3>1, <1>5, <1>6
      <3>3. QED
        BY <3>2, RangeSeq
    <2>2. ASSUME NEW b \in Range(s), b \in bs PROVE b \in Range(t)
      <3>1. PICK k \in 1 .. Len(s) : s[k] = b
        BY RangeSeq
      <3>2. PICK i \in Nat : i = Count(s, bs, k)
        BY <1>1, CountStep
      <3>3. i \in 1 .. n
        <4>1. k \in Nat /\ k >= 1 /\ 0 < k /\ k <= Len(s) /\ 0 \in Nat
          BY <1>1
        <4>2. Count(s, bs, 0) < i /\ Count(s, bs, 0) \in Nat
          BY <4>1, <3>1, <3>2, <2>2, CountGrows, CountStep
        <4>3. i <= n
          <5>1. CASE k = Len(s)
            <6>1. i = n
              BY <5>1, <3>2, <1>2
            <6>2. QED
              BY <6>1, <1>2
          <5>2. CASE k < Len(s)
            <6>1. Count(s, bs, k) <= Count(s, bs, Len(s))
              BY <5>2, <4>1, <1>1, CountUp
            <6>2. QED
              BY <6>1, <3>2, <1>2
          <5>3. k = Len(s) \/ k < Len(s)
            <6>1. PICK len \in Nat : len = Len(s)
              BY <1>1
            <6>2. k \in Nat /\ k <= len
              BY <4>1, <6>1
            <6>3. k = len \/ k < len
              BY <6>2
            <6>4. QED
              BY <6>1, <6>3
          <5>4. QED
            BY <5>1, <5>2, <5>3
        <4>4. QED
          BY <4>2, <4>3, <3>2
      <3>4. pos[i] = k
        <4>1. pos[i] \in 1 .. Len(s) /\ s[pos[i]] \in bs /\ Count(s, bs, pos[i]) = i
          BY <3>3, <1>5
        <4>2. ASSUME pos[i] < k PROVE FALSE
          <5>1. Count(s, bs, pos[i]) < Count(s, bs, k)
            BY <4>1, <4>2, <3>1, <2>2, <1>1, CountGrows
          <5>2. QED
            BY <5>1, <4>1, <3>2
        <4>3. ASSUME k < pos[i] PROVE FALSE
          <5>1. Count(s, bs, k) < Count(s, bs, pos[i])
            BY <4>1, <4>3, <3>1, <1>1, CountGrows
          <5>2. QED
            BY <5>1, <4>1, <3>2
        <4>4. QED
          BY <4>1, <4>2, <4>3, <3>1, <1>1
      <3>5. t[i] = b /\ i \in 1 .. Len(t)
        BY <3>3, <3>4, <3>1, <1>6, <1>7
      <3>6. QED
        BY <3>5, <1>7, RangeSeq
    <2>3. QED
      BY <2>1, <2>2
  <1>10. QED
    BY <1>3, <1>7, <1>8, <1>9

\* Joining two sequences without a common member.
LEMMA JoinFacts ==
  ASSUME NEW s \in Seq(Blocks), NEW t \in Seq(Blocks), EachOnce(s), EachOnce(t), Range(s) \cap Range(t) = {}
  PROVE  /\ s \o t \in Seq(Blocks) /\ EachOnce(s \o t)
         /\ Len(s \o t) = Len(s) + Len(t)
         /\ Range(s \o t) = Range(s) \cup Range(t)
  <1>1. PICK u : u = s \o t
    OBVIOUS
  <1>2. u \in Seq(Blocks)
    BY <1>1
  <1>3. PICK m \in Nat, n \in Nat : m = Len(s) /\ n = Len(t) /\ Len(u) = m + n
    BY <1>1
  <1>4. /\ \A i \in 1 .. m : u[i] = s[i]
        /\ \A i \in 1 .. n : u[m + i] = t[i]
    <2>1. ASSUME NEW i \in 1 .. m PROVE u[i] = s[i]
      BY <1>1, <1>3
    <2>2. ASSUME NEW i \in 1 .. n PROVE u[m + i] = t[i]
      BY <1>1, <1>3
    <2>3. QED
      BY <2>1, <2>2
  <1>5. \A k \in 1 .. m + n : k \in 1 .. m \/ \E i \in 1 .. n : k = m + i
    <2>1. SUFFICES ASSUME NEW k \in 1 .. m + n, k \notin 1 .. m PROVE \E i \in 1 .. n : k = m + i
      OBVIOUS
    <2>2. k - m \in 1 .. n /\ k = m + (k - m)
      BY <2>1, <1>3
    <2>3. QED
      BY <2>2
  <1>s. \A b : b \in Range(s) <=> \E i \in 1 .. m : s[i] = b
    BY <1>3, RangeSeq
  <1>t. \A b : b \in Range(t) <=> \E i \in 1 .. n : t[i] = b
    BY <1>3, RangeSeq
  <1>u. \A b : b \in Range(u) <=> \E i \in 1 .. m + n : u[i] = b
    BY <1>2, <1>3, RangeSeq
  <1>6. Range(u) = Range(s) \cup Range(t)
    <2>1. ASSUME NEW b \in Range(u) PROVE b \in Range(s) \cup Range(t)
      <3>1. PICK k \in 1 .. m + n : u[k] = b
        BY <1>u
      <3>2. CASE k \in 1 .. m
        BY <3>1, <3>2, <1>4, <1>s
      <3>3. CASE \E i \in 1 .. n : k = m + i
        BY <3>1, <3>3, <1>4, <1>t
      <3>4. QED
        BY <3>2, <3>3, <1>5
    <2>2. ASSUME NEW b \in Range(s) PROVE b \in Range(u)
      <3>1. PICK i \in 1 .. m : s[i] = b
        BY <1>s
      <3>2. u[i] = b /\ i \in 1 .. m + n
        BY <3>1, <1>4, <1>3
      <3>3. QED
        BY <3>2, <1>u
    <2>3. ASSUME NEW b \in Range(t) PROVE b \in Range(u)
      <3>1. PICK i \in 1 .. n : t[i] = b
        BY <1>t
      <3>2. u[m + i] = b /\ m + i \in 1 .. m + n
        BY <3>1, <1>4, <1>3
      <3>3. QED
        BY <3>2, <1>u
    <2>4. QED
      BY <2>1, <2>2, <2>3
  <1>7. EachOnce(u)
    <2>1. SUFFICES ASSUME NEW k \in 1 .. m + n, NEW l \in 1 .. m + n, u[k] = u[l] PROVE k = l
      BY <1>3 DEF EachOnce
    <2>2. CASE k \in 1 .. m /\ l \in 1 .. m
      BY <2>1, <2>2, <1>3, <1>4 DEF EachOnce
    <2>3. ASSUME NEW i \in 1 .. n, k = m + i, l \in 1 .. m PROVE FALSE
      BY <2>1, <2>3, <1>4, <1>s, <1>t
    <2>4. ASSUME NEW i \in 1 .. n, l = m + i, k \in 1 .. m PROVE FALSE
      BY <2>1, <2>4, <1>4, <1>s, <1>t
    <2>5. ASSUME NEW i \in 1 .. n, NEW j \in 1 .. n, k = m + i, l = m + j PROVE k = l
      <3>1. t[i] = t[j]
        BY <2>1, <2>5, <1>4
      <3>2. i = j
        BY <3>1, <1>3 DEF EachOnce
      <3>3. QED
        BY <3>2, <2>5
    <2>6. QED
      BY <1>5, <2>2, <2>3, <2>4, <2>5
  <1>8. QED
    BY <1>1, <1>2, <1>3, <1>6, <1>7

\* A block put before a sequence it is not in.
LEMMA ConsFacts ==
  ASSUME NEW b \in Blocks, NEW t \in Seq(Blocks), EachOnce(t), b \notin Range(t)
  PROVE  /\ <<b>> \o t \in Seq(Blocks) /\ EachOnce(<<b>> \o t)
         /\ Len(<<b>> \o t) = Len(t) + 1
         /\ Range(<<b>> \o t) = Range(t) \cup {b}
  <1>1. PICK s : s = <<b>>
    OBVIOUS
  <1>2. s \in Seq(Blocks) /\ Len(s) = 1 /\ s[1] = b
    BY <1>1
  <1>3. EachOnce(s)
    BY <1>2 DEF EachOnce
  <1>4. Range(s) = {b}
    BY <1>2, RangeSeq
  <1>5. Range(s) \cap Range(t) = {}
    BY <1>4
  <1>6. /\ s \o t \in Seq(Blocks) /\ EachOnce(s \o t)
        /\ Len(s \o t) = Len(s) + Len(t)
        /\ Range(s \o t) = Range(s) \cup Range(t)
    BY <1>2, <1>3, <1>5, JoinFacts
  <1>7. Len(t) \in Nat
    OBVIOUS
  <1>8. Len(s \o t) = Len(t) + 1
    BY <1>2, <1>6, <1>7
  <1>9. QED
    BY <1>1, <1>4, <1>6, <1>8

\* Reversing keeps the members.
LEMMA ReverseFacts ==
  ASSUME NEW s \in Seq(Blocks), EachOnce(s)
  PROVE  /\ Reverse(s) \in Seq(Blocks) /\ EachOnce(Reverse(s))
         /\ Len(Reverse(s)) = Len(s) /\ Range(Reverse(s)) = Range(s)
  <1>1. PICK n \in Nat : n = Len(s)
    OBVIOUS
  <1>2. PICK t : t = Reverse(s)
    OBVIOUS
  <1>3. t = [i \in 1 .. n |-> s[(n - i) + 1]]
    BY <1>1, <1>2 DEF Reverse
  <1>4. ASSUME NEW i \in 1 .. n PROVE (n - i) + 1 \in 1 .. n /\ n - ((n - i) + 1) + 1 = i
    OBVIOUS
  <1>5. \A i \in 1 .. n : s[i] \in Blocks
    BY <1>1
  <1>6. t \in Seq(Blocks) /\ Len(t) = n
    <2>1. t \in [1 .. n -> Blocks]
      BY <1>3, <1>4, <1>5
    <2>2. QED
      BY <2>1
  <1>7. \A i \in 1 .. n : t[i] = s[(n - i) + 1]
    BY <1>3
  <1>8. EachOnce(t)
    <2>1. SUFFICES ASSUME NEW i \in 1 .. n, NEW j \in 1 .. n, t[i] = t[j] PROVE i = j
      BY <1>6 DEF EachOnce
    <2>2. PICK p \in 1 .. n, q \in 1 .. n : p = (n - i) + 1 /\ q = (n - j) + 1
      BY <1>4
    <2>3. s[p] = s[q]
      BY <2>1, <2>2, <1>7
    <2>4. p = q
      BY <2>3, <1>1 DEF EachOnce
    <2>5. QED
      BY <2>2, <2>4
  <1>9. Range(t) = Range(s)
    <2>1. ASSUME NEW b \in Range(t) PROVE b \in Range(s)
      <3>1. PICK i \in 1 .. n : t[i] = b
        BY <1>6, RangeSeq
      <3>2. (n - i) + 1 \in 1 .. n /\ s[(n - i) + 1] = b
        BY <3>1, <1>4, <1>7
      <3>3. QED
        BY <3>2, <1>1, RangeSeq
    <2>2. ASSUME NEW b \in Range(s) PROVE b \in Range(t)
      <3>1. PICK i \in 1 .. n : s[i] = b
        BY <1>1, RangeSeq
      <3>2. PICK j \in 1 .. n : (n - j) + 1 = i
        BY <1>4
      <3>3. t[j] = b
        BY <3>1, <3>2, <1>7
      <3>4. QED
        BY <3>3, <1>6, RangeSeq
    <2>3. QED
      BY <2>1, <2>2
  <1>10. QED
    BY <1>1, <1>2, <1>6, <1>8, <1>9

\* Taking the head of a sequence without repetitions takes that block away.
LEMMA TailFacts ==
  ASSUME NEW s \in Seq(Blocks), EachOnce(s), s # <<>>
  PROVE  /\ Head(s) \in Blocks /\ Head(s) \in Range(s)
         /\ Tail(s) \in Seq(Blocks) /\ EachOnce(Tail(s)) /\ Len(Tail(s)) + 1 = Len(s)
         /\ Range(Tail(s)) = Range(s) \ {Head(s)}
  <1>1. PICK n \in Nat : Len(s) = n + 1
    <2>1. Len(s) \in Nat /\ Len(s) # 0
      OBVIOUS
    <2>2. Len(s) - 1 \in Nat /\ Len(s) = (Len(s) - 1) + 1
      BY <2>1
    <2>3. QED
      BY <2>2
  <1>2. PICK t : t = Tail(s)
    OBVIOUS
  <1>3. t \in Seq(Blocks) /\ Len(t) = n
    BY <1>1, <1>2
  <1>4. \A i \in 1 .. n : t[i] = s[i + 1]
    BY <1>1, <1>2, <1>3
  <1>5. Head(s) = s[1] /\ s[1] \in Blocks /\ 1 \in 1 .. n + 1
    BY <1>1
  <1>6. Head(s) \in Range(s)
    BY <1>1, <1>5, RangeSeq
  <1>7. EachOnce(t)
    <2>1. SUFFICES ASSUME NEW i \in 1 .. n, NEW j \in 1 .. n, t[i] = t[j] PROVE i = j
      BY <1>3 DEF EachOnce
    <2>2. i + 1 \in 1 .. n + 1 /\ j + 1 \in 1 .. n + 1 /\ s[i + 1] = s[j + 1]
      BY <2>1, <1>4
    <2>3. i + 1 = j + 1
      BY <2>2, <1>1 DEF EachOnce
    <2>4. QED
      BY <2>3
  <1>8. Range(t) = Range(s) \ {Head(s)}
    <2>1. ASSUME NEW b \in Range(t) PROVE b \in Range(s) /\ b # Head(s)
      <3>1. PICK i \in 1 .. n : t[i] = b
        BY <1>3, RangeSeq
      <3>2. i + 1 \in 1 .. n + 1 /\ s[i + 1] = b /\ i + 1 # 1
        BY <3>1, <1>4
      <3>3. b \in Range(s)
        BY <3>2, <1>1, RangeSeq
      <3>4. b # s[1]
        BY <3>2, <1>1, <1>5 DEF EachOnce
      <3>5. QED
        BY <3>3, <3>4, <1>5
    <2>2. ASSUME NEW b \in Range(s), b # Head(s) PROVE b \in Range(t)
      <3>1. PICK i \in 1 .. n + 1 : s[i] = b
        BY <1>1, RangeSeq
      <3>2. i # 1
        BY <3>1, <2>2, <1>5
      <3>3. PICK j \in 1 .. n : j + 1 = i
        <4>1. i - 1 \in 1 .. n /\ (i - 1) + 1 = i
          BY <3>2
        <4>2. QED
          BY <4>1
      <3>4. t[j] = b
        BY <3>1, <3>3, <1>4
      <3>5. QED
        BY <3>4, <1>3, RangeSeq
    <2>3. QED
      BY <2>1, <2>2
  <1>9. QED
    BY <1>1, <1>2, <1>3, <1>5, <1>6, <1>7, <1>8

\* The blocks in bs and those outside it make up the sequence.
LEMMA SplitFacts ==
  ASSUME NEW s \in Seq(Blocks), EachOnce(s), NEW bs
  PROVE  Len(Among(s, bs)) + Len(Among(s, Blocks \ bs)) = Len(s)
  <1>1. IsFiniteSet(Range(s)) /\ Cardinality(Range(s)) = Len(s) /\ Range(s) \subseteq Blocks
    BY OnceCard, RangeSeq
  <1>2. PICK t \in Seq(Blocks) : t = Among(s, bs) /\ EachOnce(t) /\ Range(t) = Range(s) \cap bs
    BY AmongFacts
  <1>3. PICK u \in Seq(Blocks) : u = Among(s, Blocks \ bs) /\ EachOnce(u) /\ Range(u) = Range(s) \cap (Blocks \ bs)
    BY AmongFacts
  <1>4. Cardinality(Range(t)) = Len(t) /\ Cardinality(Range(u)) = Len(u)
    BY <1>2, <1>3, OnceCard
  <1>5. Range(u) = Range(s) \ Range(t) /\ Range(s) \cap Range(t) = Range(t)
    BY <1>1, <1>2, <1>3
  <1>6. Cardinality(Range(s) \ Range(t)) = Cardinality(Range(s)) - Cardinality(Range(s) \cap Range(t))
    BY <1>1, FS_Difference
  <1>7. Len(s) \in Nat /\ Len(t) \in Nat /\ Len(u) \in Nat
    OBVIOUS
  <1>8. Len(u) = Len(s) - Len(t)
    BY <1>1, <1>4, <1>5, <1>6
  <1>9. QED
    BY <1>2, <1>3, <1>7, <1>8

Objects == [b : Blocks, off : Nat, n : Nat \ {0}, gen : {0, 1}, sc : {0, 1}]

\* The lines of an object of the heap, as ObjLines gives them.
LEMMA HeldLines ==
  ASSUME ImTypeOK, ObjsHold, NEW o \in objs
  PROVE  /\ o.b \in Blocks /\ o.off \in Nat /\ o.n \in Nat \ {0} /\ o.off + o.n <= Cells
         /\ FirstLine(o) \in LineSet /\ LastLine(o) \in LineSet /\ FirstLine(o) <= LastLine(o)
         /\ \A s \in Nat : LastLine(o) < s => o.off + o.n <= s * LineCells
         /\ \A s \in Nat : s <= FirstLine(o) => s * LineCells <= o.off
         /\ \A i \in FirstLine(o) .. LastLine(o) : i \in LineSet /\ lines[o.b][i] = 1
  <1>1. o.b \in Blocks /\ o.off \in Nat /\ o.n \in Nat \ {0} /\ o.off + o.n <= Cells
    BY DEF ImTypeOK, ObjsHold
  <1>2. /\ FirstLine(o) \in LineSet /\ LastLine(o) \in LineSet /\ FirstLine(o) <= LastLine(o)
        /\ \A s \in Nat : LastLine(o) < s => o.off + o.n <= s * LineCells
        /\ \A s \in Nat : s <= FirstLine(o) => s * LineCells <= o.off
    BY <1>1, ObjLines
  <1>3. \A i \in FirstLine(o) .. LastLine(o) : i \in LineSet
    BY <1>2, ImConsts DEF LineSet
  <1>4. QED
    BY <1>1, <1>2, <1>3 DEF ObjsHold

\* A survivor is where it was.
LEMMA PromotedFacts ==
  ASSUME NEW o \in Objects
  PROVE  Promoted(o) \in Objects /\ Promoted(o).b = o.b /\ Promoted(o).off = o.off /\ Promoted(o).n = o.n
  BY DEF Objects, Promoted

\* p is o, perhaps promoted.
SamePlace(p, o) == p.b = o.b /\ p.off = o.off /\ p.n = o.n

\* The survivors are apart, as they were.
LEMMA AfterFacts ==
  ASSUME ImTypeOK, ObjsHold, NEW live \in SUBSET objs, NEW after, after = {Promoted(o) : o \in live}
  PROVE  /\ after \subseteq Objects
         /\ \A p \in after : \E o \in live : SamePlace(p, o)
         /\ \A o \in live : \E p \in after : SamePlace(p, o)
         /\ \A p, q \in after : p # q /\ p.b = q.b => Before(p, q) \/ Before(q, p)
  <1>1. objs \subseteq Objects
    BY DEF ImTypeOK, Objects
  <1>2. ASSUME NEW p \in after PROVE p \in Objects /\ \E o \in live : p = Promoted(o) /\ SamePlace(p, o)
    BY <1>1, PromotedFacts DEF SamePlace
  <1>3. ASSUME NEW p \in after, NEW q \in after, p # q, p.b = q.b PROVE Before(p, q) \/ Before(q, p)
    <2>1. PICK o \in live : p = Promoted(o) /\ SamePlace(p, o)
      BY <1>2
    <2>2. PICK r \in live : q = Promoted(r) /\ SamePlace(q, r)
      BY <1>2
    <2>3. o # r /\ o.b = r.b
      BY <2>1, <2>2, <1>3 DEF SamePlace
    <2>4. Before(o, r) \/ Before(r, o)
      BY <2>3 DEF ObjsHold
    <2>5. QED
      BY <2>1, <2>2, <2>4 DEF SamePlace, Before
  <1>4. ASSUME NEW o \in live PROVE \E p \in after : SamePlace(p, o)
    <2>1. Promoted(o) \in after /\ SamePlace(Promoted(o), o)
      BY <1>1, PromotedFacts DEF SamePlace
    <2>2. QED
      BY <2>1
  <1>5. QED
    BY <1>2, <1>3, <1>4

\* The line map of some objects marks their lines.
LEMMA LineMapFacts ==
  ASSUME NEW os, NEW b
  PROVE  /\ LineMap(os, b) \in [LineSet -> {0, 1}]
         /\ \A o \in os : \A i \in LineSet : o.b = b /\ i \in FirstLine(o) .. LastLine(o) => LineMap(os, b)[i] = 1
  BY DEF LineMap

\* gc_heap_init: one empty block, in the list.
LEMMA ImmixInitHolds == ImmixInit => ImmixInv
  <1>1. SUFFICES ASSUME ImmixInit PROVE ImmixInv
    OBVIOUS
  <1>2. Len(list) = 0 /\ Len(free) = 0 /\ list \in Seq(Blocks) /\ free \in Seq(Blocks) /\ unswept \in Seq(Blocks)
    BY <1>1 DEF ImmixInit
  <1>e. ASSUME NEW s \in Seq(Blocks), Len(s) = 0 PROVE Range(s) = {}
    <2>1. \A b : b \in Range(s) <=> \E i \in 1 .. 0 : s[i] = b
      BY <1>e, RangeSeq
    <2>2. QED
      BY <2>1
  <1>3. Range(list) = {} /\ Range(free) = {}
    BY <1>2, <1>e
  <1>4. ImTypeOK
    BY <1>1, <1>2 DEF ImmixInit, ImTypeOK, NoBlock
  <1>5. ObjsHold /\ RunHolds /\ SweepOK
    BY <1>1 DEF ImmixInit, ObjsHold, RunHolds, SweepOK, NoBlock
  <1>6. BlocksHold
    BY <1>1, <1>2, <1>3 DEF ImmixInit, BlocksHold, EachOnce, NoBlock
  <1>7. QED
    BY <1>4, <1>5, <1>6 DEF ImmixInv

\* The blocks in use, counted.
LEMMA BlocksCounted ==
  ASSUME ImTypeOK, BlocksHold
  PROVE  /\ IsFiniteSet(Range(list) \cup Range(free))
         /\ Cardinality(Range(list) \cup Range(free)) = Len(list) + Len(free)
         /\ Cardinality(Range(list) \cup Range(free) \cup ({hand} \ {NoBlock})) = total
         /\ total <= MaxBlocks
         /\ hand = NoBlock /\ total < MaxBlocks => Fresh \in Blocks /\ Fresh \notin Range(list) \cup Range(free)
  <1>1. list \in Seq(Blocks) /\ free \in Seq(Blocks) /\ EachOnce(list) /\ EachOnce(free) /\ Range(list) \cap Range(free) = {}
    BY DEF ImTypeOK, BlocksHold
  <1>2. /\ IsFiniteSet(Range(list)) /\ Cardinality(Range(list)) = Len(list) /\ Range(list) \subseteq Blocks
        /\ IsFiniteSet(Range(free)) /\ Cardinality(Range(free)) = Len(free) /\ Range(free) \subseteq Blocks
        /\ Len(list) \in Nat /\ Len(free) \in Nat
    BY <1>1, OnceCard, RangeSeq
  <1>3. PICK S : S = Range(list) \cup Range(free)
    OBVIOUS
  <1>4. IsFiniteSet(S) /\ Cardinality(S) = Len(list) + Len(free) /\ S \subseteq Blocks
    <2>1. Cardinality(Range(list) \cap Range(free)) = 0
      BY <1>1, FS_EmptySet
    <2>2. IsFiniteSet(S) /\ Cardinality(S) = Cardinality(Range(list)) + Cardinality(Range(free)) - Cardinality(Range(list) \cap Range(free))
      BY <1>2, <1>3, FS_Union
    <2>3. QED
      BY <1>2, <1>3, <2>1, <2>2
  <1>5. PICK T : T = S \cup ({hand} \ {NoBlock})
    OBVIOUS
  <1>6. IsFiniteSet(T) /\ Cardinality(T) = total
    <2>1. CASE hand = NoBlock
      <3>1. T = S
        BY <2>1, <1>5
      <3>2. Len(list) + Len(free) + 0 = total
        BY <2>1 DEF BlocksHold
      <3>3. QED
        BY <3>1, <3>2, <1>2, <1>4
    <2>2. CASE hand # NoBlock
      <3>1. T = S \cup {hand} /\ hand \notin S
        BY <2>2, <1>5, <1>3 DEF BlocksHold
      <3>2. IsFiniteSet(T) /\ Cardinality(T) = Cardinality(S) + 1
        BY <3>1, <1>4, FS_AddElement
      <3>3. Len(list) + Len(free) + 1 = total
        BY <2>2 DEF BlocksHold
      <3>4. QED
        BY <3>2, <3>3, <1>2, <1>4
    <2>3. QED
      BY <2>1, <2>2
  <1>7. T \subseteq Blocks
    BY <1>4, <1>5 DEF ImTypeOK
  <1>8. IsFiniteSet(Blocks) /\ Cardinality(Blocks) = MaxBlocks
    BY ImConsts, FS_Interval DEF Blocks
  <1>9. total <= MaxBlocks
    BY <1>6, <1>7, <1>8, FS_Subset
  <1>10. ASSUME hand = NoBlock, total < MaxBlocks PROVE Fresh \in Blocks /\ Fresh \notin S
    <2>1. T = S
      BY <1>10, <1>5
    <2>2. S # Blocks
      BY <2>1, <1>6, <1>8, <1>10, ImConsts DEF ImTypeOK
    <2>3. \E b \in Blocks : b \notin S
      BY <2>2, <1>4
    <2>4. QED
      BY <2>3, <1>3 DEF Fresh
  <1>11. QED
    BY <1>3, <1>4, <1>5, <1>6, <1>9, <1>10

\* The invariant is enough.
LEMMA ImmixInvEnough == ImmixInv => BlockHeapSound
  <1>1. SUFFICES ASSUME ImmixInv PROVE BlockHeapSound
    OBVIOUS
  <1>2. ImTypeOK /\ ObjsHold /\ RunHolds /\ BlocksHold
    BY <1>1 DEF ImmixInv
  <1>3. NoOverlap
    <2>1. SUFFICES ASSUME NEW o \in objs, NEW p \in objs, o # p, o.b = p.b PROVE CellsOf(o) \cap CellsOf(p) = {}
      BY DEF NoOverlap
    <2>2. o.off \in Nat /\ o.n \in Nat /\ p.off \in Nat /\ p.n \in Nat
      BY <1>2, HeldLines
    <2>3. o.off + o.n <= p.off \/ p.off + p.n <= o.off
      BY <2>1, <1>2 DEF ObjsHold, Before
    <2>4. QED
      BY <2>2, <2>3 DEF CellsOf
  <1>4. RunIsEmpty
    <2>1. SUFFICES ASSUME cur # NoBlock
                   PROVE  cur \in Range(list) /\ \A o \in objs : o.b = cur => CellsOf(o) \cap (bumpAt .. limit - 1) = {}
      BY DEF RunIsEmpty
    <2>2. ASSUME NEW o \in objs, o.b = cur PROVE CellsOf(o) \cap (bumpAt .. limit - 1) = {}
      <3>1. o.off \in Nat /\ o.n \in Nat /\ bumpAt \in Nat /\ limit \in Nat
        BY <1>2, HeldLines DEF ImTypeOK
      <3>2. o.off + o.n <= bumpAt \/ limit <= o.off
        BY <2>1, <2>2, <1>2 DEF RunHolds
      <3>3. QED
        BY <3>1, <3>2 DEF CellsOf
    <2>3. QED
      BY <2>1, <2>2, <1>2 DEF RunHolds
  <1>5. BlocksAccounted
    BY <1>2, BlocksCounted DEF BlocksAccounted, BlocksHold, ObjsHold
  <1>6. QED
    BY <1>3, <1>4, <1>5 DEF BlockHeapSound

\* gc__bump_alloc where the run has room.
LEMMA BumpStep ==
  ASSUME ImmixInv, NEW n \in Nat \ {0}, cur # NoBlock, bumpAt + n <= limit, gc__bump_alloc(n),
         UNCHANGED <<list, free, total, cur, limit, hand, conc>>,
         apc' = "idle", apc # "insert", need' \in Nat
  PROVE  ImmixInv'
  <1>1. ImTypeOK /\ ObjsHold /\ RunHolds /\ BlocksHold /\ SweepOK
    BY DEF ImmixInv
  <1>2. PICK o : o = [b |-> cur, off |-> bumpAt, n |-> n, gen |-> 0, sc |-> 0]
    OBVIOUS
  <1>c. cur \in Blocks /\ bumpAt \in Nat /\ limit \in Nat /\ Cells \in Nat /\ NLines \in Nat \ {0}
        /\ cur \in Range(list) /\ bumpAt <= limit /\ limit <= Cells
    BY <1>1, ImConsts DEF ImTypeOK, RunHolds
  <1>3. /\ objs' = objs \cup {o} /\ bumpAt' = bumpAt + n
        /\ lines' = [lines EXCEPT ![cur] = [i \in LineSet |-> IF i \in FirstLine(o) .. LastLine(o) THEN 1 ELSE lines[cur][i]]]
    BY <1>2 DEF gc__bump_alloc
  <1>4. o \in Objects /\ o.b = cur /\ o.off = bumpAt /\ o.n = n
    BY <1>2, <1>c DEF Objects
  <1>5. o.off + o.n <= Cells
    BY <1>4, <1>c
  <1>6. FirstLine(o) \in LineSet /\ LastLine(o) \in LineSet /\ \A i \in FirstLine(o) .. LastLine(o) : i \in LineSet
    <2>1. FirstLine(o) \in LineSet /\ LastLine(o) \in LineSet
      BY <1>4, <1>5, ObjLines, <1>c
    <2>2. QED
      BY <2>1, <1>c DEF LineSet
  <1>7. /\ lines' \in [Blocks -> [LineSet -> {0, 1}]]
        /\ \A i \in FirstLine(o) .. LastLine(o) : lines'[cur][i] = 1
        /\ \A b \in Blocks, i \in LineSet : lines[b][i] = 1 => lines'[b][i] = 1
    <2>0. PICK m : m = [i \in LineSet |-> IF i \in FirstLine(o) .. LastLine(o) THEN 1 ELSE lines[cur][i]]
      OBVIOUS
    <2>1. m \in [LineSet -> {0, 1}] /\ lines \in [Blocks -> [LineSet -> {0, 1}]]
      BY <2>0, <1>1, <1>c DEF ImTypeOK
    <2>2. lines' = [lines EXCEPT ![cur] = m]
      BY <2>0, <1>3
    <2>3. QED
      BY <2>0, <2>1, <2>2, <1>c, <1>6
  <1>8. ImTypeOK'
    <2>1. objs' \subseteq Objects
      BY <1>3, <1>4, <1>1 DEF ImTypeOK, Objects
    <2>2. bumpAt' \in Nat
      BY <1>3, <1>c
    <2>3. QED
      BY <2>1, <2>2, <1>7, <1>1 DEF ImTypeOK, Objects, conc
  <1>9. ObjsHold'
    <2>1. ASSUME NEW p \in objs'
          PROVE  /\ p.b \in Range(list') /\ p.off + p.n <= Cells
                 /\ \A i \in FirstLine(p) .. LastLine(p) : lines'[p.b][i] = 1
      <3>1. CASE p = o
        BY <3>1, <1>4, <1>5, <1>7, <1>c
      <3>2. CASE p \in objs
        <4>1. /\ p.b \in Blocks /\ p.off + p.n <= Cells
              /\ \A i \in FirstLine(p) .. LastLine(p) : i \in LineSet /\ lines[p.b][i] = 1
          BY <3>2, <1>1, HeldLines
        <4>2. p.b \in Range(list')
          BY <3>2, <1>1 DEF ObjsHold
        <4>3. QED
          BY <4>1, <4>2, <1>7
      <3>3. QED
        BY <3>1, <3>2, <1>3
    <2>2. ASSUME NEW p \in objs, p.b = cur PROVE Before(p, o) \/ Before(o, p)
      <3>1. p.off \in Nat /\ p.n \in Nat /\ (p.off + p.n <= bumpAt \/ limit <= p.off)
        BY <2>2, <1>1, HeldLines DEF RunHolds
      <3>2. QED
        BY <3>1, <1>4, <1>c DEF Before
    <2>3. ASSUME NEW p \in objs', NEW q \in objs', p # q, p.b = q.b PROVE Before(p, q) \/ Before(q, p)
      <3>1. CASE p \in objs /\ q \in objs
        BY <3>1, <2>3, <1>1 DEF ObjsHold
      <3>2. CASE p = o /\ q \in objs
        BY <3>2, <2>2, <2>3, <1>4
      <3>3. CASE q = o /\ p \in objs
        BY <3>3, <2>2, <2>3, <1>4
      <3>4. QED
        BY <3>1, <3>2, <3>3, <2>3, <1>3
    <2>4. QED
      BY <2>1, <2>3 DEF ObjsHold, FirstLine, LastLine, Before
  <1>10. RunHolds'
    <2>1. ASSUME NEW p \in objs', p.b = cur PROVE p.off + p.n <= bumpAt' \/ limit <= p.off
      <3>1. CASE p = o
        BY <3>1, <1>3, <1>4, <1>c
      <3>2. CASE p \in objs
        <4>1. p.off \in Nat /\ p.n \in Nat /\ (p.off + p.n <= bumpAt \/ limit <= p.off)
          BY <2>1, <3>2, <1>1, HeldLines DEF RunHolds
        <4>2. QED
          BY <4>1, <1>3, <1>c
      <3>3. QED
        BY <3>1, <3>2, <1>3
    <2>2. bumpAt' <= limit
      BY <1>3
    <2>3. QED
      BY <2>1, <2>2, <1>c DEF RunHolds
  <1>11. BlocksHold' /\ SweepOK'
    BY <1>1 DEF BlocksHold, SweepOK, conc
  <1>12. QED
    BY <1>8, <1>9, <1>10, <1>11 DEF ImmixInv

\* An allocation that the run has room for.
LEMMA AllocFastStep == ASSUME ImmixInv, NEW n \in Sizes, AllocFast(n) PROVE ImmixInv'
  <1>1. n \in Nat \ {0}
    BY ImConsts
  <1>2. cur # NoBlock /\ bumpAt + n <= limit /\ gc__bump_alloc(n) /\ UNCHANGED <<list, free, total, cur, limit, hand, conc>>
        /\ apc' = "idle" /\ apc # "insert" /\ need' = need
    BY DEF AllocFast, pool, call
  <1>3. need' \in Nat
    BY <1>2 DEF ImmixInv, ImTypeOK
  <1>4. QED
    BY <1>1, <1>2, <1>3, BumpStep

\* The allocation that follows a search which found a run.
LEMMA BumpAfterStep == ASSUME ImmixInv, BumpAfter PROVE ImmixInv'
  <1>1. apc = "bump" /\ gc__bump_alloc(need) /\ UNCHANGED <<list, free, total, cur, limit, hand, conc>>
        /\ apc' = "idle" /\ need' = 0
    BY DEF BumpAfter, pool
  <1>2. cur # NoBlock /\ bumpAt + need <= limit /\ need \in Sizes
    BY <1>1 DEF ImmixInv, RunHolds
  <1>3. need \in Nat \ {0}
    BY <1>2, ImConsts
  <1>4. need' \in Nat /\ apc # "insert"
    BY <1>1
  <1>5. QED
    BY <1>1, <1>2, <1>3, <1>4, BumpStep

\* The slow path only notes the size; the run is given up.
LEMMA AllocSlowStep == ASSUME ImmixInv, NEW n \in Sizes, AllocSlow(n) PROVE ImmixInv'
  <1>1. ImTypeOK /\ ObjsHold /\ RunHolds /\ BlocksHold /\ SweepOK
    BY DEF ImmixInv
  <1>2. /\ apc = "idle" /\ apc' = "scan" /\ need' = n /\ n \in Nat
        /\ UNCHANGED <<objs, lines, list, free, total, cur, bumpAt, limit, hand, unswept, sweeping>>
    BY ImConsts DEF AllocSlow, maps, pool, run, conc
  <1>3. ImTypeOK'
    BY <1>1, <1>2 DEF ImTypeOK
  <1>4. ObjsHold' /\ SweepOK'
    BY <1>1, <1>2 DEF ObjsHold, SweepOK, FirstLine, LastLine, Before
  <1>5. RunHolds'
    BY <1>1, <1>2 DEF RunHolds
  <1>6. BlocksHold'
    BY <1>1, <1>2 DEF BlocksHold
  <1>7. QED
    BY <1>3, <1>4, <1>5, <1>6 DEF ImmixInv

\* The run that gc__find_fit_in_block picks is made of free lines and long enough.
LEMMA FitFacts ==
  ASSUME ImTypeOK, ObjsHold, need \in Sizes, NEW b \in Blocks, Fitting(b) # {}, gc__find_fit_in_block(b)
  PROVE  /\ cur' = b /\ bumpAt' \in Nat /\ limit' \in Nat /\ bumpAt' <= limit' /\ limit' <= Cells
         /\ bumpAt' + need <= limit'
         /\ \A o \in objs : o.b = b => o.off + o.n <= bumpAt' \/ limit' <= o.off
  <1>c. NLines \in Nat \ {0} /\ LineCells \in Nat \ {0} /\ need \in Nat \ {0}
    BY ImConsts
  <1>1. PICK F : F = Fitting(b)
    OBVIOUS
  <1>2. \A r \in F : /\ r[1] \in LineSet /\ r[2] \in LineSet /\ r[1] <= r[2]
                     /\ \A i \in r[1] .. r[2] : lines[b][i] = 0
                     /\ r[2] - r[1] + 1 >= LinesFor(need)
    BY <1>1 DEF Fitting, RunsFrom, FreeRuns, RunLen
  <1>3. PICK starts : starts = {r[1] : r \in F}
    OBVIOUS
  <1>4. starts \subseteq Nat /\ starts # {}
    BY <1>1, <1>2, <1>3 DEF LineSet
  <1>5. Min(starts) \in starts
    BY <1>4, MinNat
  <1>6. PICK s : s = Min(starts)
    OBVIOUS
  <1>7. \E x \in F : x[1] = s
    BY <1>3, <1>5, <1>6
  <1>8. PICK r : r = CHOOSE x \in F : x[1] = s
    OBVIOUS
  <1>9. r \in F /\ r[1] = s
    BY <1>7, <1>8
  <1>10. PICK e : e = r[2]
    OBVIOUS
  <1>11. /\ s \in Nat /\ e \in Nat /\ s <= e /\ e < NLines
         /\ \A i \in s .. e : lines[b][i] = 0
         /\ LinesFor(need) <= e - s + 1
    <2>1. s \in LineSet /\ e \in LineSet /\ s <= e /\ (\A i \in s .. e : lines[b][i] = 0) /\ e - s + 1 >= LinesFor(need)
      BY <1>2, <1>9, <1>10
    <2>2. LinesFor(need) \in Nat
      BY <1>c, LineFacts DEF LinesFor
    <2>3. QED
      BY <2>1, <2>2, <1>c DEF LineSet
  <1>12. cur' = b /\ bumpAt' = s * LineCells /\ limit' = (e + 1) * LineCells
    BY <1>1, <1>3, <1>6, <1>8, <1>10 DEF gc__find_fit_in_block
  <1>13. bumpAt' \in Nat /\ limit' \in Nat /\ limit' <= Cells
    <2>1. e + 1 \in Nat /\ e + 1 <= NLines
      BY <1>11, <1>c
    <2>2. (e + 1) * LineCells <= NLines * LineCells
      BY <2>1, <1>c, LineFacts
    <2>3. QED
      BY <2>1, <2>2, <1>11, <1>12, LineFacts DEF Cells
  <1>14. bumpAt' + need <= limit'
    <2>1. PICK k \in Nat : k = e - s + 1
      BY <1>11
    <2>2. need <= k * LineCells
      BY <2>1, <1>11, <1>c, LinesForFacts
    <2>3. e + 1 = s + k
      BY <2>1, <1>11
    <2>4. (s + k) * LineCells = s * LineCells + k * LineCells
      BY <1>11, <1>c
    <2>5. s * LineCells \in Nat /\ k * LineCells \in Nat
      BY <1>11, <1>c
    <2>6. QED
      BY <2>2, <2>3, <2>4, <2>5, <1>12, <1>c
  <1>15. ASSUME NEW o \in objs, o.b = b PROVE o.off + o.n <= bumpAt' \/ limit' <= o.off
    <2>1. /\ FirstLine(o) \in LineSet /\ LastLine(o) \in LineSet /\ FirstLine(o) <= LastLine(o)
          /\ \A x \in Nat : LastLine(o) < x => o.off + o.n <= x * LineCells
          /\ \A x \in Nat : x <= FirstLine(o) => x * LineCells <= o.off
          /\ \A i \in FirstLine(o) .. LastLine(o) : lines[b][i] = 1
      BY <1>15, HeldLines
    <2>2. PICK f \in Nat, l \in Nat : f = FirstLine(o) /\ l = LastLine(o) /\ f <= l
      BY <2>1 DEF LineSet
    <2>3. l < s \/ e + 1 <= f
      <3>1. SUFFICES ASSUME s <= l, f <= e PROVE FALSE
        BY <2>2, <1>11
      <3>2. PICK i \in Nat : i = IF f <= s THEN s ELSE f
        BY <2>2, <1>11
      <3>3. i \in s .. e /\ i \in f .. l
        BY <3>1, <3>2, <2>2, <1>11
      <3>4. lines[b][i] = 0 /\ lines[b][i] = 1
        BY <3>3, <2>1, <2>2, <1>11
      <3>5. QED
        BY <3>4
    <2>4. CASE l < s
      BY <2>4, <2>1, <2>2, <1>11, <1>12
    <2>5. CASE e + 1 <= f
      <3>1. e + 1 \in Nat
        BY <1>11
      <3>2. QED
        BY <3>1, <2>5, <2>1, <2>2, <1>12
    <2>6. QED
      BY <2>3, <2>4, <2>5
  <1>16. bumpAt' <= limit'
    <2>1. \A x, y, z \in Nat : x + z <= y => x <= y
      OBVIOUS
    <2>2. QED
      BY <2>1, <1>13, <1>14, <1>c
  <1>17. QED
    BY <1>12, <1>13, <1>14, <1>15, <1>16

\* A free run of a listed block has no object in it: they all lie on occupied lines.
LEMMA ScanStep ==
  ASSUME ImmixInv, NEW from \in {"scan", "rescan"}, NEW onMiss \in {"pool", "pool2"}, Scan(from, onMiss)
  PROVE  ImmixInv'
  <1>1. ImTypeOK /\ ObjsHold /\ RunHolds /\ BlocksHold /\ SweepOK
    BY DEF ImmixInv
  <1>2. /\ apc = from /\ UNCHANGED <<objs, lines, list, free, total, need, hand, unswept, sweeping>>
    BY DEF Scan, pool, conc
  <1>3. need \in Sizes /\ hand = NoBlock
    BY <1>1, <1>2 DEF RunHolds, BlocksHold
  <1>4. PICK fits : fits = {i \in Walk : Fitting(list[i]) # {}}
    OBVIOUS
  <1>5. fits \subseteq 1 .. Len(list) /\ Len(list) \in Nat
    <2>1. list \in Seq(Blocks)
      BY <1>1 DEF ImTypeOK
    <2>2. Walk \subseteq DOMAIN list
      BY DEF Walk
    <2>3. QED
      BY <2>1, <2>2, <1>4, RangeSeq
  <1>6. ObjsHold' /\ SweepOK'
    BY <1>1, <1>2 DEF ObjsHold, SweepOK, FirstLine, LastLine, Before
  <1>7. apc' # "insert" /\ apc' # "idle"
    BY DEF Scan
  <1>8. BlocksHold'
    BY <1>1, <1>2, <1>3, <1>7 DEF BlocksHold
  <1>9. CASE fits # {}
    <2>1. PICK at : at = Min(fits)
      OBVIOUS
    <2>2. gc__find_fit_in_block(list[at]) /\ apc' = "bump"
      BY <1>4, <1>9, <2>1 DEF Scan
    <2>3. at \in fits
      <3>1. fits \subseteq Nat
        BY <1>5
      <3>2. QED
        BY <3>1, <1>9, <2>1, MinNat
    <2>4. PICK b : b = list[at]
      OBVIOUS
    <2>5. b \in Blocks /\ b \in Range(list) /\ Fitting(b) # {}
      <3>1. at \in 1 .. Len(list) /\ Fitting(b) # {}
        BY <2>3, <2>4, <1>4, <1>5
      <3>2. QED
        BY <3>1, <2>4, <1>1, RangeSeq DEF ImTypeOK
    <2>6. /\ cur' = b /\ bumpAt' \in Nat /\ limit' \in Nat /\ bumpAt' <= limit' /\ limit' <= Cells
          /\ bumpAt' + need <= limit'
          /\ \A o \in objs : o.b = b => o.off + o.n <= bumpAt' \/ limit' <= o.off
      BY <2>2, <2>4, <2>5, <1>1, <1>3, FitFacts
    <2>7. b # NoBlock
      BY <2>5, ImConsts DEF Blocks, NoBlock
    <2>8. RunHolds'
      BY <2>2, <2>5, <2>6, <2>7, <1>2, <1>3 DEF RunHolds
    <2>9. ImTypeOK'
      BY <2>5, <2>6, <1>1, <1>2 DEF ImTypeOK
    <2>10. QED
      BY <2>8, <2>9, <1>6, <1>8 DEF ImmixInv
  <1>10. CASE fits = {}
    <2>1. apc' = onMiss /\ UNCHANGED <<cur, bumpAt, limit>>
      BY <1>4, <1>10 DEF Scan, run
    <2>2. ImTypeOK'
      BY <2>1, <1>1, <1>2 DEF ImTypeOK
    <2>3. RunHolds'
      BY <2>1, <1>1, <1>2, <1>3 DEF RunHolds
    <2>4. QED
      BY <2>2, <2>3, <1>6, <1>8 DEF ImmixInv
  <1>11. QED
    BY <1>9, <1>10

\* A step that leaves the objects, the run, the list and the sweep alone.
LEMMA PoolOnly ==
  ASSUME ImmixInv, UNCHANGED <<objs, lines, list, cur, bumpAt, limit, need, unswept, sweeping>>,
         free' \in Seq(Blocks), total' \in Nat, hand' \in Blocks \cup {NoBlock},
         apc # "idle", apc' # "idle", apc' # "bump", BlocksHold'
  PROVE  ImmixInv'
  <1>1. ImTypeOK /\ ObjsHold /\ RunHolds /\ BlocksHold /\ SweepOK
    BY DEF ImmixInv
  <1>2. ImTypeOK'
    BY <1>1 DEF ImTypeOK
  <1>3. ObjsHold' /\ SweepOK'
    BY <1>1 DEF ObjsHold, SweepOK, FirstLine, LastLine, Before
  <1>4. RunHolds'
    BY <1>1 DEF RunHolds
  <1>5. QED
    BY <1>2, <1>3, <1>4 DEF ImmixInv

\* A new block below the limit.
LEMMA FreshStep ==
  ASSUME ImmixInv, apc \in {"pool", "pool2", "grow"}, total < MaxBlocks,
         hand' = Fresh, total' = total + 1, apc' = "insert",
         UNCHANGED <<objs, lines, list, free, cur, bumpAt, limit, need, unswept, sweeping>>
  PROVE  ImmixInv'
  <1>1. ImTypeOK /\ BlocksHold
    BY DEF ImmixInv
  <1>2. hand = NoBlock
    BY <1>1 DEF BlocksHold
  <1>3. Fresh \in Blocks /\ Fresh \notin Range(list) \cup Range(free)
    BY <1>1, <1>2, BlocksCounted
  <1>4. hand' # NoBlock /\ hand' \in Blocks
    BY <1>3, ImConsts DEF Blocks, NoBlock
  <1>5. Len(list) \in Nat /\ Len(free) \in Nat /\ total \in Nat /\ Len(list) + Len(free) + 0 = total
    BY <1>1, <1>2 DEF ImTypeOK, BlocksHold
  <1>6. Len(list) + Len(free) + 1 = total'
    BY <1>5
  <1>7. BlocksHold'
    BY <1>1, <1>3, <1>4, <1>6 DEF BlocksHold
  <1>8. free' \in Seq(Blocks) /\ total' \in Nat
    BY <1>1, <1>5 DEF ImTypeOK
  <1>9. QED
    BY <1>4, <1>7, <1>8, PoolOnly

\* A block from the pool, which is then in the allocator's hand and nowhere else.
LEMMA PoolGetStep ==
  ASSUME ImmixInv, NEW from \in {"pool", "pool2"}, NEW onNull \in {"emergency", "grow"},
         gc_block_pool_get(from, onNull)
  PROVE  ImmixInv'
  <1>1. ImTypeOK /\ BlocksHold
    BY DEF ImmixInv
  <1>2. apc = from /\ UNCHANGED <<objs, lines, list, cur, bumpAt, limit, need, unswept, sweeping>>
    BY DEF gc_block_pool_get, maps, run, conc
  <1>3. hand = NoBlock
    BY <1>1, <1>2 DEF BlocksHold
  <1>4. CASE free # <<>> /\ hand' = Head(free) /\ free' = Tail(free) /\ apc' = "insert" /\ UNCHANGED total
    <2>1. free \in Seq(Blocks) /\ EachOnce(free) /\ free # <<>>
      BY <1>1, <1>4 DEF ImTypeOK, BlocksHold
    <2>2. PICK h, t : h = Head(free) /\ t = Tail(free)
      OBVIOUS
    <2>3. /\ h \in Blocks /\ h \in Range(free)
          /\ t \in Seq(Blocks) /\ EachOnce(t) /\ Len(t) + 1 = Len(free)
          /\ Range(t) = Range(free) \ {h}
      BY <2>1, <2>2, TailFacts
    <2>4. hand' = h /\ free' = t /\ h # NoBlock
      BY <1>4, <2>2, <2>3, ImConsts DEF Blocks, NoBlock
    <2>5. Len(list) + Len(t) + 1 = total
      <3>1. Len(list) \in Nat /\ Len(free) \in Nat /\ Len(t) \in Nat /\ Len(list) + Len(free) + 0 = total
        BY <2>1, <2>3, <1>1, <1>3 DEF ImTypeOK, BlocksHold
      <3>2. QED
        BY <3>1, <2>3
    <2>6. BlocksHold'
      BY <2>3, <2>4, <2>5, <1>1, <1>2, <1>4 DEF BlocksHold
    <2>7. QED
      BY <2>3, <2>4, <2>6, <1>1, <1>2, <1>4, PoolOnly DEF ImTypeOK
  <1>5. CASE free = <<>> /\ total < MaxBlocks /\ hand' = Fresh /\ total' = total + 1 /\ apc' = "insert" /\ UNCHANGED free
    BY <1>2, <1>5, FreshStep
  <1>6. CASE free = <<>> /\ apc' = onNull /\ UNCHANGED <<hand, free, total>>
    <2>1. BlocksHold'
      BY <1>1, <1>2, <1>3, <1>6 DEF BlocksHold
    <2>2. QED
      BY <2>1, <1>1, <1>2, <1>6, PoolOnly DEF ImTypeOK
  <1>7. QED
    BY <1>4, <1>5, <1>6 DEF gc_block_pool_get

\* A block added by a grow is a new one.
LEMMA GrowStep == ASSUME ImmixInv, Grow PROVE ImmixInv'
  <1>1. ImTypeOK /\ BlocksHold
    BY DEF ImmixInv
  <1>2. apc = "grow" /\ UNCHANGED <<objs, lines, list, free, cur, bumpAt, limit, need, unswept, sweeping>>
    BY DEF Grow, maps, run, conc
  <1>3. CASE total < MaxBlocks /\ hand' = Fresh /\ total' = total + 1 /\ apc' = "insert"
    BY <1>2, <1>3, FreshStep
  <1>4. CASE apc' = "panic" /\ UNCHANGED <<hand, total>>
    <2>1. BlocksHold'
      BY <1>1, <1>2, <1>4 DEF BlocksHold
    <2>2. QED
      BY <2>1, <1>1, <1>2, <1>4, PoolOnly DEF ImTypeOK
  <1>5. QED
    BY <1>3, <1>4 DEF Grow

\* The block in hand goes into the list, empty, and becomes the current one.
LEMMA InsertStep == ASSUME ImmixInv, InsertBlock PROVE ImmixInv'
  <1>1. ImTypeOK /\ ObjsHold /\ RunHolds /\ BlocksHold /\ SweepOK
    BY DEF ImmixInv
  <1>2. /\ apc = "insert" /\ ~sweeping /\ list' = <<hand>> \o list
        /\ lines' = [lines EXCEPT ![hand] = [i \in LineSet |-> 0]]
        /\ cur' = hand /\ bumpAt' = 0 /\ limit' = Cells /\ hand' = NoBlock /\ apc' = "bump"
        /\ UNCHANGED <<objs, free, total, need, unswept, sweeping>>
    BY DEF InsertBlock, pool, conc
  <1>3. hand \in Blocks /\ hand # NoBlock /\ hand \notin Range(list) \cup Range(free)
    BY <1>1, <1>2 DEF BlocksHold, ImTypeOK
  <1>4. /\ list' \in Seq(Blocks) /\ EachOnce(list') /\ Len(list') = Len(list) + 1
        /\ Range(list') = Range(list) \cup {hand}
    <2>1. list \in Seq(Blocks) /\ EachOnce(list)
      BY <1>1 DEF ImTypeOK, BlocksHold
    <2>2. /\ <<hand>> \o list \in Seq(Blocks) /\ EachOnce(<<hand>> \o list)
          /\ Len(<<hand>> \o list) = Len(list) + 1
          /\ Range(<<hand>> \o list) = Range(list) \cup {hand}
      BY <2>1, <1>3, ConsFacts
    <2>3. QED
      BY <2>2, <1>2
  <1>5. ImTypeOK'
    <2>1. lines' \in [Blocks -> [LineSet -> {0, 1}]]
      BY <1>1, <1>2 DEF ImTypeOK
    <2>2. bumpAt' \in Nat /\ limit' \in Nat
      BY <1>2, ImConsts
    <2>3. QED
      BY <2>1, <2>2, <1>1, <1>2, <1>3, <1>4 DEF ImTypeOK
  <1>6. \A o \in objs : o.b # hand /\ o.b \in Blocks
    BY <1>1, <1>3 DEF ObjsHold, ImTypeOK
  <1>7. ObjsHold'
    <2>1. ASSUME NEW o \in objs
          PROVE  o.b \in Range(list') /\ o.off + o.n <= Cells /\ \A i \in FirstLine(o) .. LastLine(o) : lines'[o.b][i] = 1
      <3>1. lines'[o.b] = lines[o.b]
        BY <1>1, <1>2, <1>6 DEF ImTypeOK
      <3>2. QED
        BY <3>1, <1>1, <1>4 DEF ObjsHold
    <2>2. QED
      BY <2>1, <1>1, <1>2 DEF ObjsHold, FirstLine, LastLine, Before
  <1>8. RunHolds'
    <2>1. need \in Sizes /\ need \in Nat /\ need < Cells /\ Cells \in Nat
      BY <1>1, <1>2, ImConsts DEF RunHolds
    <2>2. 0 + need <= Cells /\ 0 <= Cells
      BY <2>1
    <2>3. QED
      BY <2>1, <2>2, <1>2, <1>3, <1>4, <1>6 DEF RunHolds
  <1>9. BlocksHold'
    <2>1. Len(list) \in Nat /\ Len(free) \in Nat /\ Len(list) + Len(free) + 1 = total
      BY <1>1, <1>3 DEF ImTypeOK, BlocksHold
    <2>2. Len(list') + Len(free) + 0 = total
      BY <2>1, <1>4
    <2>3. NoBlock \notin Range(list') \cup Range(free)
      <3>1. Range(list') \subseteq Blocks /\ Range(free) \subseteq Blocks
        BY <1>1, <1>4, RangeSeq DEF ImTypeOK
      <3>2. QED
        BY <3>1, ImConsts DEF Blocks, NoBlock
    <2>4. QED
      BY <2>2, <2>3, <1>1, <1>2, <1>3, <1>4 DEF BlocksHold
  <1>10. SweepOK'
    BY <1>2 DEF SweepOK
  <1>11. QED
    BY <1>5, <1>7, <1>8, <1>9, <1>10 DEF ImmixInv

\* gc_sweep: the survivors keep their places in blocks of the list; the others go to the pool.
LEMMA MajorStep ==
  ASSUME ImmixInv, NEW live \in SUBSET objs, gc_sweep(live), ~sweeping,
         UNCHANGED <<total, need, hand, unswept, sweeping>>,
         apc # "insert", apc' # "insert", apc' # "bump", apc' # "idle" => need \in Sizes
  PROVE  ImmixInv'
  <1>1. ImTypeOK /\ ObjsHold /\ RunHolds /\ BlocksHold /\ SweepOK
    BY DEF ImmixInv
  <1>2. PICK after : after = {Promoted(o) : o \in live}
    OBVIOUS
  <1>3. PICK used : used = {o.b : o \in after}
    OBVIOUS
  <1>4. /\ objs' = after
        /\ lines' = [b \in Blocks |-> IF b \in Range(list) THEN LineMap(after, b) ELSE lines[b]]
        /\ list' = Among(list, used)
        /\ free' = Reverse(Among(list, Blocks \ used)) \o free
        /\ cur' = NoBlock /\ bumpAt' = 0 /\ limit' = 0
    BY <1>2, <1>3 DEF gc_sweep, Forget
  <1>5. /\ after \subseteq Objects
        /\ \A p \in after : \E o \in live : SamePlace(p, o)
        /\ \A p, q \in after : p # q /\ p.b = q.b => Before(p, q) \/ Before(q, p)
    BY <1>1, <1>2, AfterFacts
  <1>6. list \in Seq(Blocks) /\ free \in Seq(Blocks) /\ EachOnce(list) /\ EachOnce(free) /\ Range(list) \cap Range(free) = {}
        /\ Range(list) \subseteq Blocks /\ Range(free) \subseteq Blocks
    BY <1>1, RangeSeq DEF ImTypeOK, BlocksHold
  <1>7. list' \in Seq(Blocks) /\ EachOnce(list') /\ Range(list') = Range(list) \cap used
    BY <1>4, <1>6, AmongFacts
  <1>8. PICK e \in Seq(Blocks) : e = Among(list, Blocks \ used) /\ EachOnce(e) /\ Range(e) = Range(list) \cap (Blocks \ used)
    BY <1>6, AmongFacts
  <1>9. PICK r \in Seq(Blocks) : r = Reverse(e) /\ EachOnce(r) /\ Len(r) = Len(e) /\ Range(r) = Range(e)
    BY <1>8, ReverseFacts
  <1>10. /\ free' \in Seq(Blocks) /\ EachOnce(free') /\ Len(free') = Len(r) + Len(free)
         /\ Range(free') = Range(r) \cup Range(free)
    <2>1. Range(r) \cap Range(free) = {}
      BY <1>6, <1>8, <1>9
    <2>2. free' = r \o free
      BY <1>4, <1>8, <1>9
    <2>3. QED
      BY <2>1, <2>2, <1>6, <1>9, JoinFacts
  <1>11. hand = NoBlock
    BY <1>1 DEF BlocksHold
  <1>12. BlocksHold'
    <2>1. Len(list') + Len(e) = Len(list)
      BY <1>4, <1>6, <1>8, SplitFacts
    <2>2. Len(list) \in Nat /\ Len(free) \in Nat /\ Len(e) \in Nat /\ Len(list') \in Nat /\ Len(list) + Len(free) + 0 = total
      BY <1>1, <1>6, <1>7, <1>11 DEF BlocksHold
    <2>3. Len(list') + Len(free') + 0 = total
      BY <2>1, <2>2, <1>9, <1>10
    <2>4. Range(list') \cap Range(free') = {}
      BY <1>6, <1>7, <1>8, <1>9, <1>10
    <2>5. NoBlock \notin Range(list') \cup Range(free')
      <3>1. Range(list') \subseteq Blocks /\ Range(free') \subseteq Blocks
        BY <1>7, <1>10, RangeSeq
      <3>2. QED
        BY <3>1, ImConsts DEF Blocks, NoBlock
    <2>6. QED
      BY <2>3, <2>4, <2>5, <1>7, <1>10, <1>11 DEF BlocksHold
  <1>13. lines' \in [Blocks -> [LineSet -> {0, 1}]]
    <2>1. \A b \in Blocks : LineMap(after, b) \in [LineSet -> {0, 1}] /\ lines[b] \in [LineSet -> {0, 1}]
      BY <1>1, LineMapFacts DEF ImTypeOK
    <2>2. QED
      BY <2>1, <1>4
  <1>14. ImTypeOK'
    BY <1>1, <1>4, <1>5, <1>7, <1>10, <1>13 DEF ImTypeOK, Objects
  <1>15. ObjsHold'
    <2>1. ASSUME NEW p \in after
          PROVE  p.b \in Range(list') /\ p.off + p.n <= Cells /\ \A i \in FirstLine(p) .. LastLine(p) : lines'[p.b][i] = 1
      <3>1. PICK o \in live : SamePlace(p, o)
        BY <1>5
      <3>2. /\ o \in objs /\ o.b \in Blocks /\ o.off + o.n <= Cells /\ o.b \in Range(list)
            /\ \A i \in FirstLine(o) .. LastLine(o) : i \in LineSet
        BY <1>1, HeldLines DEF ObjsHold
      <3>3. FirstLine(p) = FirstLine(o) /\ LastLine(p) = LastLine(o)
        BY <3>1 DEF SamePlace, FirstLine, LastLine
      <3>4. p.b \in Range(list')
        BY <3>1, <3>2, <1>3, <1>7 DEF SamePlace
      <3>5. lines'[p.b] = LineMap(after, p.b)
        BY <3>1, <3>2, <1>4 DEF SamePlace
      <3>6. ASSUME NEW i \in FirstLine(p) .. LastLine(p) PROVE LineMap(after, p.b)[i] = 1
        <4>1. i \in LineSet
          BY <3>2, <3>3
        <4>2. QED
          BY <4>1, LineMapFacts
      <3>7. p.off + p.n <= Cells
        BY <3>1, <3>2 DEF SamePlace
      <3>8. QED
        BY <3>4, <3>5, <3>6, <3>7
    <2>2. QED
      BY <2>1, <1>4, <1>5 DEF ObjsHold, FirstLine, LastLine, Before
  <1>16. RunHolds' /\ SweepOK'
    BY <1>4 DEF RunHolds, SweepOK
  <1>17. QED
    BY <1>12, <1>14, <1>15, <1>16 DEF ImmixInv

\* A major collection between two allocations.
LEMMA MajorSweepStep == ASSUME ImmixInv, MajorSweep PROVE ImmixInv'
  <1>1. PICK live \in SUBSET objs : gc_sweep(live)
    BY DEF MajorSweep
  <1>2. apc = "idle" /\ apc' = "idle" /\ ~sweeping /\ UNCHANGED <<total, need, hand, unswept, sweeping>>
    BY DEF MajorSweep, call, conc
  <1>3. QED
    BY <1>1, <1>2, MajorStep

\* A major collection inside an allocation, after a search that found nothing.
LEMMA EmergencyGcStep == ASSUME ImmixInv, EmergencyGc PROVE ImmixInv'
  <1>1. apc = "emergency" /\ apc' = "rescan" /\ ~sweeping /\ UNCHANGED <<total, need, hand, unswept, sweeping>>
    BY DEF EmergencyGc, conc
  <1>2. ImTypeOK /\ ObjsHold /\ RunHolds /\ BlocksHold /\ SweepOK
    BY DEF ImmixInv
  <1>3. need \in Sizes
    BY <1>1, <1>2 DEF RunHolds
  <1>4. CASE \E live \in SUBSET objs : gc_sweep(live)
    BY <1>1, <1>3, <1>4, MajorStep
  <1>5. CASE UNCHANGED <<objs, maps, list, free, run, search>>
    <2>1. BlocksHold'
      BY <1>1, <1>2, <1>5 DEF BlocksHold
    <2>2. free' \in Seq(Blocks) /\ total' \in Nat /\ hand' \in Blocks \cup {NoBlock}
      BY <1>1, <1>2, <1>5 DEF ImTypeOK
    <2>3. UNCHANGED <<objs, lines, list, cur, bumpAt, limit, need, unswept, sweeping>>
      BY <1>1, <1>5 DEF maps, run
    <2>4. QED
      BY <1>1, <2>1, <2>2, <2>3, PoolOnly
  <1>6. QED
    BY <1>4, <1>5 DEF EmergencyGc

\* A minor collection keeps the old objects and the blocks they are in.
LEMMA MinorSweepStep == ASSUME ImmixInv, MinorSweep PROVE ImmixInv'
  <1>1. ImTypeOK /\ ObjsHold /\ RunHolds /\ BlocksHold /\ SweepOK
    BY DEF ImmixInv
  <1>2. apc = "idle" /\ apc' = "idle" /\ ~sweeping /\ UNCHANGED <<list, free, total, need, hand, unswept, sweeping>>
    BY DEF MinorSweep, call, conc, pool
  <1>3. PICK live \in SUBSET objs : gc_sweep_minor(live)
    BY DEF MinorSweep
  <1>4. PICK after : after = {Promoted(o) : o \in live}
    OBVIOUS
  <1>d. DEFINE OldOn(b, i) == \E o \in objs : o.b = b /\ o.gen = 1 /\ i \in FirstLine(o) .. LastLine(o)
               Map(b) == [i \in LineSet |-> IF OldOn(b, i) THEN lines[b][i] ELSE LineMap(after, b)[i]]
  <1>5. /\ objs' = after
        /\ lines' = [b \in Blocks |-> IF b \in Range(list) THEN Map(b) ELSE lines[b]]
        /\ cur' = NoBlock /\ bumpAt' = 0 /\ limit' = 0
    BY <1>3, <1>4 DEF gc_sweep_minor, Forget
  <1>6. /\ after \subseteq Objects
        /\ \A p \in after : \E o \in live : SamePlace(p, o)
        /\ \A p, q \in after : p # q /\ p.b = q.b => Before(p, q) \/ Before(q, p)
    BY <1>1, <1>4, AfterFacts
  <1>7. \A b \in Blocks : LineMap(after, b) \in [LineSet -> {0, 1}] /\ lines[b] \in [LineSet -> {0, 1}]
    BY <1>1, LineMapFacts DEF ImTypeOK
  <1>8. \A b \in Blocks : Map(b) \in [LineSet -> {0, 1}]
    BY <1>7
  <1>9. ASSUME NEW b \in Blocks, NEW i \in LineSet, LineMap(after, b)[i] = 1 PROVE Map(b)[i] = 1
    <2>1. CASE OldOn(b, i)
      <3>1. lines[b][i] = 1
        BY <2>1, <1>1 DEF ObjsHold
      <3>2. QED
        BY <3>1, <2>1
    <2>2. CASE ~OldOn(b, i)
      BY <2>2, <1>9
    <2>3. QED
      BY <2>1, <2>2
  <1>10. lines' \in [Blocks -> [LineSet -> {0, 1}]] /\ \A b \in Range(list) : b \in Blocks => lines'[b] = Map(b)
    <2>h. HIDE DEF Map
    <2>1. QED
      BY <1>5, <1>7, <1>8
  <1>11. ImTypeOK'
    BY <1>1, <1>2, <1>5, <1>6, <1>10 DEF ImTypeOK, Objects
  <1>12. ObjsHold'
    <2>1. ASSUME NEW p \in after
          PROVE  p.b \in Range(list') /\ p.off + p.n <= Cells /\ \A i \in FirstLine(p) .. LastLine(p) : lines'[p.b][i] = 1
      <3>1. PICK o \in live : SamePlace(p, o)
        BY <1>6
      <3>2. /\ o \in objs /\ o.b \in Blocks /\ o.off + o.n <= Cells /\ o.b \in Range(list)
            /\ \A i \in FirstLine(o) .. LastLine(o) : i \in LineSet
        BY <1>1, HeldLines DEF ObjsHold
      <3>3. FirstLine(p) = FirstLine(o) /\ LastLine(p) = LastLine(o) /\ p.b = o.b
        BY <3>1 DEF SamePlace, FirstLine, LastLine
      <3>4. p.b \in Range(list')
        BY <3>2, <3>3, <1>2
      <3>5. lines'[p.b] = Map(p.b)
        BY <3>2, <3>3, <1>10
      <3>6. ASSUME NEW i \in FirstLine(p) .. LastLine(p) PROVE Map(p.b)[i] = 1
        <4>1. i \in LineSet /\ p.b \in Blocks
          BY <3>2, <3>3
        <4>2. LineMap(after, p.b)[i] = 1
          BY <4>1, LineMapFacts
        <4>3. QED
          BY <4>1, <4>2, <1>9
      <3>7. p.off + p.n <= Cells
        BY <3>1, <3>2 DEF SamePlace
      <3>8. QED
        BY <3>4, <3>5, <3>6, <3>7
    <2>2. QED
      BY <2>1, <1>5, <1>6 DEF ObjsHold, FirstLine, LastLine, Before
  <1>13. RunHolds' /\ SweepOK'
    BY <1>2, <1>5 DEF RunHolds, SweepOK
  <1>14. BlocksHold'
    BY <1>1, <1>2 DEF BlocksHold
  <1>15. QED
    BY <1>11, <1>12, <1>13, <1>14 DEF ImmixInv

\* A concurrent sweep starts with the blocks listed then.
LEMMA ConcStartStep == ASSUME ImmixInv, ConcStart PROVE ImmixInv'
  <1>1. ImTypeOK /\ ObjsHold /\ RunHolds /\ BlocksHold
    BY DEF ImmixInv
  <1>2. /\ sweeping' = TRUE /\ unswept' = list
        /\ UNCHANGED <<objs, lines, list, free, total, cur, bumpAt, limit, apc, need, hand>>
    BY DEF ConcStart, maps, pool, run, call
  <1>3. ImTypeOK'
    BY <1>1, <1>2 DEF ImTypeOK
  <1>4. ObjsHold'
    BY <1>1, <1>2 DEF ObjsHold, FirstLine, LastLine, Before
  <1>5. RunHolds'
    BY <1>1, <1>2 DEF RunHolds
  <1>6. BlocksHold'
    BY <1>1, <1>2 DEF BlocksHold
  <1>7. SweepOK'
    BY <1>1, <1>2 DEF SweepOK, BlocksHold
  <1>8. QED
    BY <1>3, <1>4, <1>5, <1>6, <1>7 DEF ImmixInv

\* The end of a concurrent sweep, and the steps that change no block.
LEMMA ConcEndStep == ASSUME ImmixInv, ConcEnd \/ ImmixOver \/ UNCHANGED immixVars PROVE ImmixInv'
  <1>1. ImTypeOK /\ ObjsHold /\ RunHolds /\ BlocksHold /\ SweepOK
    BY DEF ImmixInv
  <1>2. /\ sweeping' \in BOOLEAN /\ (sweeping' => sweeping) /\ unswept' = unswept
        /\ UNCHANGED <<objs, lines, list, free, total, cur, bumpAt, limit, apc, need, hand>>
    <2>1. sweeping \in BOOLEAN
      BY <1>1 DEF ImTypeOK
    <2>2. CASE ConcEnd
      BY <2>2, <2>1 DEF ConcEnd, maps, pool, run, call
    <2>3. CASE UNCHANGED immixVars
      BY <2>3, <2>1 DEF immixVars, maps, pool, run, call, conc
    <2>4. QED
      BY <2>2, <2>3 DEF ImmixOver
  <1>3. ImTypeOK'
    BY <1>1, <1>2 DEF ImTypeOK
  <1>4. ObjsHold'
    BY <1>1, <1>2 DEF ObjsHold, FirstLine, LastLine, Before
  <1>5. RunHolds'
    BY <1>1, <1>2 DEF RunHolds
  <1>6. BlocksHold'
    BY <1>1, <1>2 DEF BlocksHold
  <1>7. SweepOK'
    BY <1>1, <1>2 DEF SweepOK
  <1>8. QED
    BY <1>3, <1>4, <1>5, <1>6, <1>7 DEF ImmixInv

\* One block of the concurrent sweep, apart from the owner's current one.
LEMMA ConcOther ==
  ASSUME ImmixInv, NEW b \in Blocks, b \in Range(list), b # cur, sweeping,
         NEW live \in SUBSET {o \in objs : o.b = b},
         objs' = {o \in objs : o.b # b} \cup {Promoted(o) : o \in live},
         lines' = [lines EXCEPT ![b] = LineMap(live, b)],
         \/ AllFree(LineMap(live, b)) /\ list' = Among(list, Blocks \ {b}) /\ free' = <<b>> \o free
         \/ UNCHANGED <<list, free>>,
         unswept' \in Seq(Blocks), EachOnce(unswept'), Range(unswept') = Range(unswept) \ {b},
         UNCHANGED <<total, cur, bumpAt, limit, apc, need, hand, sweeping>>
  PROVE  ImmixInv'
  <1>1. ImTypeOK /\ ObjsHold /\ RunHolds /\ BlocksHold /\ SweepOK
    BY DEF ImmixInv
  <1>2. PICK after : after = {Promoted(o) : o \in live}
    OBVIOUS
  <1>3. live \in SUBSET objs /\ \A o \in live : o.b = b
    OBVIOUS
  <1>4. /\ after \subseteq Objects
        /\ \A p \in after : \E o \in live : SamePlace(p, o)
        /\ \A p, q \in after : p # q /\ p.b = q.b => Before(p, q) \/ Before(q, p)
    BY <1>1, <1>2, <1>3, AfterFacts
  <1>5. objs' = {o \in objs : o.b # b} \cup after
    BY <1>2
  <1>6. \A p \in after : p.b = b
    BY <1>3, <1>4 DEF SamePlace
  <1>7. /\ lines' \in [Blocks -> [LineSet -> {0, 1}]] /\ lines'[b] = LineMap(live, b)
        /\ \A x \in Blocks : x # b => lines'[x] = lines[x]
    <2>1. lines \in [Blocks -> [LineSet -> {0, 1}]] /\ LineMap(live, b) \in [LineSet -> {0, 1}]
      BY <1>1, LineMapFacts DEF ImTypeOK
    <2>2. QED
      BY <2>1
  <1>8. list \in Seq(Blocks) /\ free \in Seq(Blocks) /\ EachOnce(list) /\ EachOnce(free) /\ Range(list) \cap Range(free) = {}
        /\ Range(list) \subseteq Blocks /\ Range(free) \subseteq Blocks /\ Len(list) \in Nat /\ Len(free) \in Nat
    BY <1>1, RangeSeq DEF ImTypeOK, BlocksHold
  <1>9. AllFree(LineMap(live, b)) => live = {}
    <2>1. SUFFICES ASSUME AllFree(LineMap(live, b)), NEW o \in live PROVE FALSE
      OBVIOUS
    <2>2. FirstLine(o) \in LineSet /\ FirstLine(o) \in FirstLine(o) .. LastLine(o) /\ o.b = b
      <3>1. FirstLine(o) \in LineSet /\ LastLine(o) \in LineSet /\ FirstLine(o) <= LastLine(o)
        BY <1>1, <1>3, HeldLines
      <3>2. FirstLine(o) \in FirstLine(o) .. LastLine(o)
        BY <3>1, ImConsts DEF LineSet
      <3>3. QED
        BY <3>1, <3>2, <1>3
    <2>3. LineMap(live, b)[FirstLine(o)] = 1
      BY <2>2, LineMapFacts
    <2>4. QED
      BY <2>1, <2>2, <2>3 DEF AllFree
  <1>10. /\ list' \in Seq(Blocks) /\ free' \in Seq(Blocks) /\ EachOnce(list') /\ EachOnce(free')
         /\ Range(list') \cap Range(free') = {} /\ Range(list') \cup Range(free') = Range(list) \cup Range(free)
         /\ Len(list') + Len(free') = Len(list) + Len(free)
         /\ \A x \in Range(list) : x \in Range(list') \/ (x = b /\ live = {})
    <2>1. CASE UNCHANGED <<list, free>>
      BY <2>1, <1>8
    <2>2. CASE AllFree(LineMap(live, b)) /\ list' = Among(list, Blocks \ {b}) /\ free' = <<b>> \o free
      <3>1. list' \in Seq(Blocks) /\ EachOnce(list') /\ Range(list') = Range(list) \cap (Blocks \ {b})
        BY <2>2, <1>8, AmongFacts
      <3>2. b \notin Range(free)
        BY <1>8
      <3>3. free' \in Seq(Blocks) /\ EachOnce(free') /\ Len(free') = Len(free) + 1 /\ Range(free') = Range(free) \cup {b}
        BY <2>2, <3>2, <1>8, ConsFacts
      <3>4. Len(list') + 1 = Len(list)
        <4>1. IsFiniteSet(Range(list)) /\ Cardinality(Range(list)) = Len(list)
          BY <1>8, OnceCard
        <4>2. Cardinality(Range(list')) = Len(list')
          BY <3>1, OnceCard
        <4>3. Range(list') = Range(list) \ {b}
          BY <3>1, <1>8
        <4>4. Cardinality(Range(list) \ {b}) = Cardinality(Range(list)) - 1
          BY <4>1, FS_RemoveElement
        <4>5. Len(list') = Len(list) - 1
          BY <4>1, <4>2, <4>3, <4>4
        <4>6. QED
          BY <4>5, <1>8
      <3>5. Len(list') + Len(free') = Len(list) + Len(free)
        <4>1. PICK k \in Nat, m \in Nat : k = Len(list') /\ m = Len(free')
          BY <3>1, <3>3
        <4>2. PICK l \in Nat, n \in Nat : l = Len(list) /\ n = Len(free)
          BY <1>8
        <4>3. k + 1 = l /\ m = n + 1
          BY <4>1, <4>2, <3>3, <3>4
        <4>4. k + m = l + n
          BY <4>3
        <4>5. QED
          BY <4>1, <4>2, <4>4
      <3>6. Range(list') \cap Range(free') = {} /\ Range(list') \cup Range(free') = Range(list) \cup Range(free)
        BY <3>1, <3>3, <1>8
      <3>7. \A x \in Range(list) : x \in Range(list') \/ (x = b /\ live = {})
        BY <3>1, <2>2, <1>8, <1>9
      <3>8. QED
        BY <3>1, <3>3, <3>5, <3>6, <3>7
    <2>3. QED
      BY <2>1, <2>2
  <1>11. BlocksHold'
    <2>1. PICK h \in Nat : h = IF hand = NoBlock THEN 0 ELSE 1
      OBVIOUS
    <2>2. Len(list) + Len(free) + h = total
      BY <2>1, <1>1 DEF BlocksHold
    <2>3. Len(list') + Len(free') + h = total
      BY <2>2, <1>10
    <2>4. QED
      BY <2>1, <2>3, <1>1, <1>10 DEF BlocksHold
  <1>12. ImTypeOK'
    <2>1. objs' \subseteq Objects
      BY <1>1, <1>4, <1>5 DEF ImTypeOK, Objects
    <2>2. QED
      BY <2>1, <1>1, <1>7, <1>10 DEF ImTypeOK, Objects
  <1>13. ObjsHold'
    <2>1. ASSUME NEW p \in objs'
          PROVE  p.b \in Range(list') /\ p.off + p.n <= Cells /\ \A i \in FirstLine(p) .. LastLine(p) : lines'[p.b][i] = 1
      <3>1. CASE p \in objs /\ p.b # b
        <4>1. p.b \in Blocks /\ p.off + p.n <= Cells /\ \A i \in FirstLine(p) .. LastLine(p) : lines[p.b][i] = 1
          BY <3>1, <1>1, HeldLines
        <4>2. p.b \in Range(list)
          BY <3>1, <1>1 DEF ObjsHold
        <4>3. QED
          BY <3>1, <4>1, <4>2, <1>7, <1>10
      <3>2. CASE p \in after
        <4>1. PICK o \in live : SamePlace(p, o)
          BY <3>2, <1>4
        <4>2. o.b = b /\ o.off + o.n <= Cells /\ \A i \in FirstLine(o) .. LastLine(o) : i \in LineSet
          BY <1>1, <1>3, HeldLines
        <4>3. FirstLine(p) = FirstLine(o) /\ LastLine(p) = LastLine(o) /\ p.b = b /\ p.off + p.n <= Cells
          BY <4>1, <4>2 DEF SamePlace, FirstLine, LastLine
        <4>4. \A i \in FirstLine(o) .. LastLine(o) : LineMap(live, b)[i] = 1
          BY <4>2, LineMapFacts
        <4>5. p.b \in Range(list')
          BY <4>3, <1>10
        <4>6. QED
          BY <4>3, <4>4, <4>5, <1>7
      <3>3. QED
        BY <3>1, <3>2, <2>1, <1>5
    <2>2. ASSUME NEW p \in objs', NEW q \in objs', p # q, p.b = q.b PROVE Before(p, q) \/ Before(q, p)
      <3>1. CASE p \in after /\ q \in after
        BY <3>1, <2>2, <1>4
      <3>2. CASE p \in objs /\ q \in objs
        BY <3>2, <2>2, <1>1 DEF ObjsHold
      <3>3. QED
        BY <3>1, <3>2, <2>2, <1>5, <1>6
    <2>3. QED
      BY <2>1, <2>2 DEF ObjsHold, FirstLine, LastLine, Before
  <1>14. RunHolds'
    <2>1. ASSUME cur # NoBlock
          PROVE  /\ cur \in Range(list') /\ bumpAt <= limit /\ limit <= Cells
                 /\ \A o \in objs' : o.b = cur => o.off + o.n <= bumpAt \/ limit <= o.off
      <3>1. cur \in Range(list) /\ bumpAt <= limit /\ limit <= Cells
            /\ \A o \in objs : o.b = cur => o.off + o.n <= bumpAt \/ limit <= o.off
        BY <2>1, <1>1 DEF RunHolds
      <3>2. cur \in Range(list')
        BY <3>1, <1>10
      <3>3. \A o \in objs' : o.b = cur => o \in objs
        BY <1>5, <1>6
      <3>4. QED
        BY <3>1, <3>2, <3>3
    <2>2. QED
      BY <2>1, <1>1 DEF RunHolds
  <1>15. SweepOK'
    <2>1. Range(unswept) \subseteq Range(list)
      BY <1>1 DEF SweepOK
    <2>2. QED
      BY <2>1, <1>10 DEF SweepOK
  <1>16. QED
    BY <1>11, <1>12, <1>13, <1>14, <1>15 DEF ImmixInv

\* The owner's current block is left alone, any other is swept.
LEMMA ConcBlockStep == ASSUME ImmixInv, ConcBlock PROVE ImmixInv'
  <1>1. ImTypeOK /\ ObjsHold /\ RunHolds /\ BlocksHold /\ SweepOK
    BY DEF ImmixInv
  <1>2. /\ sweeping /\ unswept # <<>> /\ unswept' = Tail(unswept)
        /\ UNCHANGED <<total, cur, bumpAt, limit, apc, need, hand, sweeping>>
    BY DEF ConcBlock, run, call
  <1>3. unswept \in Seq(Blocks) /\ EachOnce(unswept) /\ Range(unswept) \subseteq Range(list)
    BY <1>1, <1>2 DEF ImTypeOK, SweepOK
  <1>4. PICK b : b = Head(unswept)
    OBVIOUS
  <1>5. /\ b \in Blocks /\ b \in Range(list)
        /\ unswept' \in Seq(Blocks) /\ EachOnce(unswept') /\ Range(unswept') = Range(unswept) \ {b}
    <2>1. /\ Head(unswept) \in Blocks /\ Head(unswept) \in Range(unswept)
          /\ Tail(unswept) \in Seq(Blocks) /\ EachOnce(Tail(unswept))
          /\ Range(Tail(unswept)) = Range(unswept) \ {Head(unswept)}
      BY <1>2, <1>3, TailFacts
    <2>2. QED
      BY <2>1, <1>2, <1>3, <1>4
  <1>6. CASE b = cur
    <2>1. UNCHANGED <<objs, lines, list, free>>
      BY <1>4, <1>6 DEF ConcBlock, maps
    <2>2. ImTypeOK'
      BY <2>1, <1>1, <1>2, <1>5 DEF ImTypeOK
    <2>3. ObjsHold'
      BY <2>1, <1>1 DEF ObjsHold, FirstLine, LastLine, Before
    <2>4. RunHolds'
      BY <2>1, <1>1, <1>2 DEF RunHolds
    <2>5. BlocksHold'
      BY <2>1, <1>1, <1>2 DEF BlocksHold
    <2>6. SweepOK'
      BY <2>1, <1>3, <1>5 DEF SweepOK
    <2>7. QED
      BY <2>2, <2>3, <2>4, <2>5, <2>6 DEF ImmixInv
  <1>7. CASE b # cur
    <2>1. PICK mine : mine = {o \in objs : o.b = b}
      OBVIOUS
    <2>2. PICK live \in SUBSET mine :
            /\ objs' = (objs \ mine) \cup {Promoted(o) : o \in live}
            /\ lines' = [lines EXCEPT ![b] = LineMap(live, b)]
            /\ \/ AllFree(LineMap(live, b)) /\ list' = Among(list, Blocks \ {b}) /\ free' = <<b>> \o free
               \/ UNCHANGED <<list, free>>
      BY <1>4, <1>7, <2>1 DEF ConcBlock
    <2>3. objs \ mine = {o \in objs : o.b # b} /\ live \in SUBSET {o \in objs : o.b = b}
      BY <2>1
    <2>4. objs' = {o \in objs : o.b # b} \cup {Promoted(o) : o \in live}
      BY <2>2, <2>3
    <2>5. QED
      BY <2>2, <2>3, <2>4, <1>2, <1>5, <1>7, ConcOther
  <1>8. QED
    BY <1>6, <1>7

\* Every step keeps the invariant.
LEMMA ImmixNextHolds == ASSUME ImmixInv, [ImmixNext]_immixVars PROVE ImmixInv'
  <1>1. CASE \E n \in Sizes : AllocFast(n) \/ AllocSlow(n)
    BY <1>1, AllocFastStep, AllocSlowStep
  <1>2. CASE ScanBlocks \/ RescanBlocks
    BY <1>2, ScanStep DEF ScanBlocks, RescanBlocks
  <1>3. CASE BumpAfter
    BY <1>3, BumpAfterStep
  <1>4. CASE PoolGet \/ PoolGetAgain
    BY <1>4, PoolGetStep DEF PoolGet, PoolGetAgain
  <1>5. CASE Grow \/ InsertBlock
    BY <1>5, GrowStep, InsertStep
  <1>6. CASE EmergencyGc \/ MajorSweep \/ MinorSweep
    BY <1>6, EmergencyGcStep, MajorSweepStep, MinorSweepStep
  <1>7. CASE ConcStart \/ ConcBlock
    BY <1>7, ConcStartStep, ConcBlockStep
  <1>8. CASE ConcEnd \/ ImmixOver \/ UNCHANGED immixVars
    BY <1>8, ConcEndStep
  <1>9. QED
    BY <1>1, <1>2, <1>3, <1>4, <1>5, <1>6, <1>7, <1>8 DEF ImmixNext

\* Whatever the sizes of blocks and lines and the sweeps, gc.c keeps ImmixInv.
THEOREM BlockHeapInvariant == ImmixSpec => []ImmixInv
  <1>1. ImmixInit => ImmixInv
    BY ImmixInitHolds
  <1>2. ImmixInv /\ [ImmixNext]_immixVars => ImmixInv'
    BY ImmixNextHolds
  <1>3. QED
    BY <1>1, <1>2, PTL DEF ImmixSpec

\* Objects of the block heap never overlap, the bump run is empty memory also while a
\* concurrent sweep runs, and every block is in one place (gc.c, gc_collect.c).
THEOREM BlockHeapIsSound == ImmixSpec => []BlockHeapSound
  <1>1. ImmixInv => BlockHeapSound
    BY ImmixInvEnough
  <1>2. QED
    BY <1>1, BlockHeapInvariant, PTL

-----------------------------------------------------------------------------
(* Generational collections: the inductive invariant *)

GenTypeOK ==
  /\ heap \subseteq Objs /\ roots \subseteq Objs /\ condemned \subseteq Objs /\ rset \subseteq Objs
  /\ mark \in [Objs -> {0, 1}] /\ gen \in [Objs -> {0, 1}] /\ sc \in [Objs -> {0, 1}]
  /\ gref \in [Objs -> Objs \cup {NoObj}]
  /\ cmark \in {0, 1}

\* What a major collection found to be garbage stays out of reach, and if it survived
\* its mark is not the next collection's.
CondemnedHolds ==
  kind = "major" => condemned \cap Reach(roots) = {} /\ \A o \in condemned \cap heap : mark[o] # cmark

GenInv == GenTypeOK /\ CondemnedHolds

\* Visit is closed.
LEMMA VisitClosed ==
  ASSUME GenTypeOK, NEW from \in SUBSET Objs, NEW skip, NEW stop
  PROVE  Traced(Visit(from, skip, stop), from, skip, stop) /\ Visit(from, skip, stop) \subseteq Objs
  <1>1. PICK V : V = Visit(from, skip, stop)
    OBVIOUS
  <1>2. V \subseteq Objs /\ \A o \in Objs : o \in V <=> \A C \in SUBSET Objs : Traced(C, from, skip, stop) => o \in C
    BY <1>1 DEF Visit
  <1>3. from \ skip \subseteq V
    BY <1>2 DEF Traced
  <1>4. ASSUME NEW o \in V \ stop, gref[o] \notin skip, gref[o] # NoObj PROVE gref[o] \in V
    <2>1. gref[o] \in Objs
      BY <1>2, <1>4 DEF GenTypeOK
    <2>2. ASSUME NEW C \in SUBSET Objs, Traced(C, from, skip, stop) PROVE gref[o] \in C
      <3>1. o \in C \ stop
        BY <2>2, <1>2
      <3>2. QED
        BY <3>1, <2>2, <1>4 DEF Traced
    <2>3. QED
      BY <2>1, <2>2, <1>2
  <1>5. QED
    BY <1>1, <1>2, <1>3, <1>4 DEF Traced

\* It is in every closed set.
LEMMA VisitLeast ==
  ASSUME NEW from, NEW skip, NEW stop, NEW C \in SUBSET Objs, Traced(C, from, skip, stop)
  PROVE  Visit(from, skip, stop) \subseteq C
  BY DEF Visit

\* What the roots reach, in the same two facts, before and after a step.
LEMMA ReachClosed ==
  ASSUME GenTypeOK, NEW from \in SUBSET Objs
  PROVE  /\ Reach(from) \subseteq Objs /\ from \subseteq Reach(from)
         /\ \A o \in Reach(from) : gref[o] \in Reach(from) \cup {NoObj}
  <1>1. NoObj \notin Objs
    BY GenAssumption DEF GenAssumption, Objs, NoObj
  <1>2. from \ {NoObj} = from
    BY <1>1
  <1>3. Traced(Visit(from, {}, {}), from, {}, {}) /\ Visit(from, {}, {}) \subseteq Objs
    BY VisitClosed
  <1>4. Reach(from) = Visit(from, {}, {})
    BY <1>2 DEF Reach
  <1>5. QED
    BY <1>3, <1>4 DEF Traced

\* What the roots reach lies in every closed set that holds the roots.
LEMMA ReachLeast ==
  ASSUME NEW from, NEW C \in SUBSET Objs, from \subseteq C, \A o \in C : gref[o] \in C \cup {NoObj}
  PROVE  Reach(from) \subseteq C
  <1>1. Traced(C, from \ {NoObj}, {}, {})
    BY DEF Traced
  <1>2. QED
    BY <1>1, VisitLeast DEF Reach

\* The same after a step.
LEMMA NextReachLeast ==
  ASSUME NEW C \in SUBSET Objs, roots' \subseteq C, \A o \in C : gref'[o] \in C \cup {NoObj}
  PROVE  Reach(roots)' \subseteq C
  <1>1. Traced(C, roots \ {NoObj}, {}, {})'
    BY DEF Traced
  <1>2. QED
    BY <1>1 DEF Reach, Visit

\* A major mark visits nothing the roots do not reach.
LEMMA MarkReached ==
  ASSUME GenTypeOK, roots \subseteq Objs
  PROVE  gc_mark \subseteq Reach(roots)
  <1>1. /\ Reach(roots) \in SUBSET Objs /\ roots \subseteq Reach(roots)
        /\ \A o \in Reach(roots) : gref[o] \in Reach(roots) \cup {NoObj}
    BY ReachClosed
  <1>2. Traced(Reach(roots), roots, Passed, {})
    BY <1>1 DEF Traced
  <1>3. QED
    BY <1>1, <1>2, VisitLeast DEF gc_mark

\* Before the first allocation nothing is condemned.
LEMMA GenInitHolds == GenInit => GenInv
  <1>1. NObjs \in Nat
    BY GenAssumption DEF GenAssumption
  <1>2. QED
    BY <1>1 DEF GenInit, GenInv, GenTypeOK, CondemnedHolds, NoObj

\* A step that does not collect keeps what is out of reach out of reach.
LEMMA OutOfReach ==
  ASSUME GenInv, NEW C \in SUBSET Objs, roots' \subseteq C, \A o \in C : gref'[o] \in C \cup {NoObj},
         C \cap condemned \subseteq Reach(roots), heap' \cap condemned \subseteq heap,
         UNCHANGED <<mark, cmark, kind, condemned>>
  PROVE  CondemnedHolds'
  <1>1. SUFFICES ASSUME kind = "major" PROVE condemned \cap Reach(roots)' = {} /\ \A o \in condemned \cap heap' : mark[o] # cmark
    BY DEF CondemnedHolds
  <1>2. condemned \cap Reach(roots) = {} /\ \A o \in condemned \cap heap : mark[o] # cmark
    BY <1>1 DEF GenInv, CondemnedHolds
  <1>3. Reach(roots)' \subseteq C
    BY NextReachLeast
  <1>4. QED
    BY <1>2, <1>3

\* A new object is condemned no more, and nothing it refers to was out of reach.
LEMMA AllocHolds == ASSUME GenInv, NEW o \in Objs \ heap, Alloc(o) PROVE GenInv'
  <1>1. GenTypeOK /\ roots \subseteq Objs
    BY DEF GenInv, GenTypeOK
  <1>2. PICK r \in roots \cup {NoObj} : gref' = [gref EXCEPT ![o] = r]
    BY DEF Alloc
  <1>3. /\ heap' = heap \cup {o} /\ roots' = roots \cup {o} /\ condemned' = condemned \ {o}
        /\ mark' = [mark EXCEPT ![o] = 0] /\ gen' = [gen EXCEPT ![o] = 0] /\ sc' = [sc EXCEPT ![o] = 0]
        /\ UNCHANGED <<rset, cmark, kind>>
    BY DEF Alloc
  <1>4. GenTypeOK'
    BY <1>1, <1>2, <1>3 DEF GenTypeOK
  <1>5. /\ Reach(roots) \subseteq Objs /\ roots \subseteq Reach(roots)
        /\ \A x \in Reach(roots) : gref[x] \in Reach(roots) \cup {NoObj}
    BY <1>1, ReachClosed
  <1>6. PICK C : C = Reach(roots) \cup {o}
    OBVIOUS
  <1>7. C \in SUBSET Objs /\ roots' \subseteq C /\ \A x \in C : gref'[x] \in C \cup {NoObj}
    BY <1>1, <1>2, <1>3, <1>5, <1>6 DEF GenTypeOK
  <1>8. Reach(roots)' \subseteq C
    BY <1>7, NextReachLeast
  <1>9. \A x \in condemned' \cap heap' : x \in condemned \cap heap /\ mark'[x] = mark[x]
    BY <1>1, <1>3 DEF GenTypeOK
  <1>10. CondemnedHolds'
    BY <1>3, <1>6, <1>8, <1>9 DEF GenInv, CondemnedHolds
  <1>11. QED
    BY <1>4, <1>10 DEF GenInv

\* A load, a dropped root or a store reaches only what was reachable.
LEMMA MutateHolds ==
  ASSUME GenInv, NEW c \in roots, \/ Load(c) \/ GenDrop(c) \/ \E v \in roots \cup {NoObj} : GenStore(c, v)
  PROVE  GenInv'
  <1>1. GenTypeOK
    BY DEF GenInv
  <1>2. heap \subseteq Objs /\ roots \subseteq Objs /\ condemned \subseteq Objs
    BY <1>1 DEF GenTypeOK
  <1>3. UNCHANGED <<heap, mark, gen, sc, cmark, made, kind, condemned>>
    BY DEF Load, GenDrop, GenStore
  <1>4. PICK C : C = Reach(roots)
    OBVIOUS
  <1>5. C \in SUBSET Objs /\ roots \subseteq C /\ \A x \in C : gref[x] \in C \cup {NoObj}
    BY <1>1, <1>2, <1>4, ReachClosed
  <1>6. CASE Load(c)
    <2>1. roots' = roots \cup {gref[c]} /\ gref[c] \in heap /\ UNCHANGED <<gref, rset>>
      BY <1>6 DEF Load
    <2>2. NoObj \notin Objs
      BY GenAssumption DEF GenAssumption, Objs, NoObj
    <2>3. roots' \subseteq C /\ \A x \in C : gref'[x] \in C \cup {NoObj}
      BY <2>1, <2>2, <1>2, <1>5
    <2>4. GenTypeOK'
      BY <2>1, <1>1, <1>3 DEF GenTypeOK
    <2>5. QED
      BY <2>3, <2>4, <1>3, <1>4, <1>5, OutOfReach DEF GenInv
  <1>7. CASE GenDrop(c)
    <2>1. roots' = roots \ {c} /\ UNCHANGED <<gref, rset>>
      BY <1>7 DEF GenDrop
    <2>2. roots' \subseteq C /\ \A x \in C : gref'[x] \in C \cup {NoObj}
      BY <2>1, <1>5
    <2>3. GenTypeOK'
      BY <2>1, <1>1, <1>3 DEF GenTypeOK
    <2>4. QED
      BY <2>2, <2>3, <1>3, <1>4, <1>5, OutOfReach DEF GenInv
  <1>8. ASSUME NEW v \in roots \cup {NoObj}, GenStore(c, v) PROVE GenInv'
    <2>1. roots' = roots /\ gref' = [gref EXCEPT ![c] = v] /\ rset' = rset \cup Remember(c, v)
      BY <1>8 DEF GenStore
    <2>2. Remember(c, v) \subseteq Objs
      BY <1>2 DEF Remember
    <2>3. roots' \subseteq C /\ \A x \in C : gref'[x] \in C \cup {NoObj}
      BY <2>1, <1>1, <1>5 DEF GenTypeOK
    <2>4. GenTypeOK'
      BY <2>1, <2>2, <1>1, <1>2, <1>3 DEF GenTypeOK
    <2>5. QED
      BY <2>3, <2>4, <1>3, <1>4, <1>5, OutOfReach DEF GenInv
  <1>9. QED
    BY <1>6, <1>7, <1>8

\* What both collections do to the headers and to the references: those that stay
\* are as they were.
LEMMA CollectTypes ==
  ASSUME GenTypeOK, NEW live \in SUBSET heap, heap' = live, NEW marked, Promote(live), Zero(live), EndCycle(marked),
         rset' \subseteq Objs, condemned' \subseteq heap, UNCHANGED roots
  PROVE  /\ GenTypeOK' /\ cmark' # cmark /\ \A o \in Objs : mark'[o] = IF o \in marked THEN cmark ELSE mark[o]
         /\ \A o \in Objs : gref'[o] \in {gref[o], NoObj}
  <1>1. cmark' = 1 - cmark /\ mark' = [o \in Objs |-> IF o \in marked THEN cmark ELSE mark[o]]
    BY DEF EndCycle
  <1>2. cmark' \in {0, 1} /\ cmark' # cmark
    BY <1>1 DEF GenTypeOK
  <1>3. mark' \in [Objs -> {0, 1}] /\ \A o \in Objs : mark'[o] = IF o \in marked THEN cmark ELSE mark[o]
    BY <1>1 DEF GenTypeOK
  <1>4. gen' \in [Objs -> {0, 1}]
    BY DEF Promote, GenTypeOK
  <1>5. sc' \in [Objs -> {0, 1}]
    BY DEF Promote, GenTypeOK
  <1>6. gref' \in [Objs -> Objs \cup {NoObj}] /\ \A o \in Objs : gref'[o] \in {gref[o], NoObj}
    BY DEF Zero, GenTypeOK
  <1>7. QED
    BY <1>2, <1>3, <1>4, <1>5, <1>6 DEF GenTypeOK

\* A major collection condemns what its mark did not visit.
LEMMA MajorHolds == ASSUME GenInv, gc_collect PROVE GenInv'
  <1>1. GenTypeOK
    BY DEF GenInv
  <1>2. heap \subseteq Objs /\ roots \subseteq Objs
    BY <1>1 DEF GenTypeOK
  <1>3. /\ heap' = Survivors(gc_mark) /\ Promote(heap') /\ Zero(heap') /\ EndCycle(gc_mark)
        /\ condemned' = heap \ Reach(roots) /\ UNCHANGED <<roots, rset>>
    BY DEF gc_collect
  <1>4. heap' \in SUBSET heap /\ \A o \in heap' : o \in gc_mark \/ mark[o] = cmark
    BY <1>3 DEF Survivors
  <1>5. /\ GenTypeOK' /\ cmark' # cmark /\ \A o \in Objs : mark'[o] = IF o \in gc_mark THEN cmark ELSE mark[o]
        /\ \A o \in Objs : gref'[o] \in {gref[o], NoObj}
    <2>1. PICK live \in SUBSET heap : live = heap'
      BY <1>4
    <2>2. rset' \subseteq Objs /\ condemned' \subseteq heap /\ Promote(live) /\ Zero(live)
      BY <1>1, <1>3, <2>1 DEF GenTypeOK
    <2>3. QED
      BY <2>1, <2>2, <1>1, <1>3, CollectTypes
  <1>6. Reach(roots)' \subseteq Reach(roots)
    <2>1. PICK C : C = Reach(roots)
      OBVIOUS
    <2>2. C \in SUBSET Objs /\ roots \subseteq C /\ \A o \in C : gref[o] \in C \cup {NoObj}
      BY <1>1, <1>2, <2>1, ReachClosed
    <2>3. roots' \subseteq C /\ \A o \in C : gref'[o] \in C \cup {NoObj}
      BY <1>3, <1>5, <2>2
    <2>4. Reach(roots)' \subseteq C
      BY <2>2, <2>3, NextReachLeast
    <2>5. QED
      BY <2>1, <2>4
  <1>7. gc_mark \subseteq Reach(roots)
    BY <1>1, <1>2, MarkReached
  <1>8. ASSUME NEW o \in condemned' \cap heap' PROVE mark'[o] # cmark'
    <2>1. o \notin gc_mark /\ o \in Objs
      BY <1>2, <1>3, <1>4, <1>7
    <2>2. mark[o] = cmark
      BY <2>1, <1>4
    <2>3. QED
      BY <2>1, <2>2, <1>5
  <1>9. CondemnedHolds'
    BY <1>3, <1>6, <1>8 DEF CondemnedHolds
  <1>10. QED
    BY <1>5, <1>9 DEF GenInv

\* A minor collection condemns nothing.
LEMMA MinorHolds == ASSUME GenInv, gc_collect_minor PROVE GenInv'
  <1>1. GenTypeOK
    BY DEF GenInv
  <1>2. PICK live : live = Survivors(gc_mark_minor) \cup {o \in heap : gen[o] = 1}
    OBVIOUS
  <1>3. /\ heap' = live /\ Promote(live) /\ Zero(live) /\ EndCycle(gc_mark_minor) /\ rset' = {} /\ condemned' = {}
        /\ kind' = "minor" /\ UNCHANGED roots
    BY <1>2 DEF gc_collect_minor
  <1>4. live \in SUBSET heap
    BY <1>2 DEF Survivors
  <1>5. GenTypeOK'
    BY <1>1, <1>3, <1>4, CollectTypes
  <1>6. QED
    BY <1>3, <1>5 DEF GenInv, CondemnedHolds

\* Every step keeps the invariant.
LEMMA GenNextHolds == ASSUME GenInv, [GenNext]_genVars PROVE GenInv'
  <1>1. CASE \E o \in Objs \ heap : Alloc(o)
    BY <1>1, AllocHolds
  <1>2. CASE gc_collect
    BY <1>2, MajorHolds
  <1>3. CASE gc_collect_minor
    BY <1>3, MinorHolds
  <1>4. CASE \E c \in roots : Load(c) \/ GenDrop(c) \/ \E v \in roots \cup {NoObj} : GenStore(c, v)
    BY <1>4, MutateHolds
  <1>5. CASE UNCHANGED genVars
    BY <1>5 DEF genVars, GenInv, GenTypeOK, CondemnedHolds, Reach, Visit, Traced
  <1>6. QED
    BY <1>1, <1>2, <1>3, <1>4, <1>5 DEF GenNext

\* What is behind S, as ReachClosed and ReachLeast say it.
LEMMA BehindClosed ==
  ASSUME GenTypeOK, NEW S \in SUBSET heap
  PROVE  /\ Behind(S) \subseteq Objs
         /\ \A o \in S \cap Reach(roots) : gref[o] \in Behind(S) \cup {NoObj}
         /\ \A o \in Behind(S) : gref[o] \in Behind(S) \cup {NoObj}
  <1>1. PICK from : from = {gref[o] : o \in S \cap Reach(roots)} \ {NoObj}
    OBVIOUS
  <1>2. from \in SUBSET Objs
    BY <1>1 DEF GenTypeOK
  <1>3. NoObj \notin Objs
    BY GenAssumption DEF GenAssumption, Objs, NoObj
  <1>4. Behind(S) = Reach(from)
    BY <1>1, <1>2, <1>3 DEF Behind, Reach
  <1>5. /\ Reach(from) \subseteq Objs /\ from \subseteq Reach(from)
        /\ \A o \in Reach(from) : gref[o] \in Reach(from) \cup {NoObj}
    BY <1>2, ReachClosed
  <1>6. QED
    BY <1>1, <1>4, <1>5

\* A major mark visits everything the roots reach but what is behind a stale mark.
LEMMA MajorExactStep ==
  ASSUME GenInv, gc_collect, LiveSurvives
  PROVE  Reach(roots) \ heap' \subseteq Behind(Stale) /\ heap' \ Reach(roots) \subseteq Stale
  <1>1. GenTypeOK
    BY DEF GenInv
  <1>2. heap \subseteq Objs /\ roots \subseteq Objs /\ Reach(roots) \subseteq heap /\ Stale \in SUBSET heap
    BY <1>1 DEF GenTypeOK, LiveSurvives, Stale
  <1>3. /\ Reach(roots) \subseteq Objs /\ roots \subseteq Reach(roots)
        /\ \A o \in Reach(roots) : gref[o] \in Reach(roots) \cup {NoObj}
    BY <1>1, <1>2, ReachClosed
  <1>4. heap \cap Passed = Stale
    BY <1>2 DEF Passed, Stale
  <1>5. gc_mark \subseteq Reach(roots)
    BY <1>1, <1>2, MarkReached
  <1>6. Traced(gc_mark, roots, Passed, {}) /\ gc_mark \in SUBSET Objs
    BY <1>1, <1>2, VisitClosed DEF gc_mark
  <1>7. heap' = {o \in heap : o \in gc_mark \/ o \in Stale}
    BY DEF gc_collect, Survivors, Stale
  <1>8. PICK B : B = Behind(Stale)
    OBVIOUS
  <1>9. /\ B \subseteq Objs /\ (\A o \in Stale \cap Reach(roots) : gref[o] \in B \cup {NoObj})
        /\ \A o \in B : gref[o] \in B \cup {NoObj}
    BY <1>1, <1>2, <1>8, BehindClosed
  <1>10. PICK C : C = (heap' \cap Reach(roots)) \cup B
    OBVIOUS
  <1>11. roots \subseteq C
    BY <1>2, <1>3, <1>4, <1>6, <1>7, <1>10 DEF Traced
  <1>12. ASSUME NEW o \in C, gref[o] # NoObj PROVE gref[o] \in C
    <2>1. CASE o \in B
      BY <1>9, <1>10, <1>12, <2>1
    <2>2. CASE o \in Stale \cap Reach(roots)
      BY <1>9, <1>10, <1>12, <2>2
    <2>3. CASE o \in gc_mark
      <3>1. gref[o] \in Reach(roots) /\ gref[o] \in heap
        BY <1>2, <1>3, <1>5, <1>12, <2>3
      <3>2. gref[o] \in gc_mark \cup Passed
        BY <1>6, <1>12, <2>3 DEF Traced
      <3>3. QED
        BY <1>4, <1>7, <1>10, <3>1, <3>2
    <2>4. QED
      BY <1>7, <1>10, <1>12, <2>1, <2>2, <2>3
  <1>13. C \in SUBSET Objs /\ \A o \in C : gref[o] \in C \cup {NoObj}
    BY <1>3, <1>9, <1>10, <1>12
  <1>14. Reach(roots) \subseteq C
    BY <1>11, <1>13, ReachLeast
  <1>15. QED
    BY <1>5, <1>7, <1>8, <1>10, <1>14

\* What the roots reach is old or marked, or behind an object outside the remembered
\* set that bears a stale mark or is an old container of a young one.
LEMMA MinorSafeStep ==
  ASSUME GenInv, gc_collect_minor, LiveSurvives
  PROVE  Reach(roots) \ heap' \subseteq Behind((Stale \cup OldToYoung) \ rset)
  <1>1. GenTypeOK
    BY DEF GenInv
  <1>2. heap \subseteq Objs /\ roots \subseteq Objs /\ Reach(roots) \subseteq heap /\ rset \subseteq Objs
    BY <1>1 DEF GenTypeOK, LiveSurvives
  <1>3. /\ Reach(roots) \subseteq Objs /\ roots \subseteq Reach(roots)
        /\ \A o \in Reach(roots) : gref[o] \in Reach(roots) \cup {NoObj}
    BY <1>1, <1>2, ReachClosed
  <1>4. heap \cap Passed = Stale /\ Stale \subseteq heap
    BY <1>2 DEF Passed, Stale
  <1>5. PICK from : from = roots \cup ({gref[o] : o \in rset} \ {NoObj})
    OBVIOUS
  <1>6. from \in SUBSET Objs
    BY <1>1, <1>2, <1>5 DEF GenTypeOK
  <1>7. PICK V : V = Visit(from, Passed \cup rset, Old)
    OBVIOUS
  <1>8. Traced(V, from, Passed \cup rset, Old) /\ gc_mark_minor = rset \cup V
    BY <1>1, <1>5, <1>6, <1>7, VisitClosed DEF gc_mark_minor
  <1>9. heap' = {o \in heap : o \in rset \/ o \in V \/ o \in Stale \/ gen[o] = 1}
    BY <1>8 DEF gc_collect_minor, Survivors, Stale
  <1>10. \A o \in from \cap heap : o \in heap'
    BY <1>4, <1>8, <1>9 DEF Traced
  <1>11. PICK S : S = (Stale \cup OldToYoung) \ rset
    OBVIOUS
  <1>12. PICK B : B = Behind(S)
    OBVIOUS
  <1>13. /\ B \subseteq Objs /\ (\A o \in S \cap Reach(roots) : gref[o] \in B \cup {NoObj})
         /\ \A o \in B : gref[o] \in B \cup {NoObj}
    <2>1. S \in SUBSET heap
      BY <1>4, <1>11 DEF OldToYoung
    <2>2. QED
      BY <2>1, <1>1, <1>12, BehindClosed
  <1>14. PICK C : C = (heap' \cap Reach(roots)) \cup B
    OBVIOUS
  <1>15. roots \subseteq C
    BY <1>2, <1>3, <1>5, <1>10, <1>14
  <1>16. ASSUME NEW o \in heap' \cap Reach(roots), gref[o] # NoObj PROVE gref[o] \in C
    <2>1. o \in heap /\ o \in Objs /\ gref[o] \in Reach(roots) /\ gref[o] \in heap /\ gref[o] \in Objs
      BY <1>2, <1>3, <1>9, <1>16
    <2>2. CASE gen[gref[o]] = 1
      BY <2>1, <2>2, <1>9, <1>14
    <2>3. CASE o \in rset
      <3>1. gref[o] \in from
        BY <2>3, <1>5, <1>16
      <3>2. QED
        BY <3>1, <2>1, <1>10, <1>14
    <2>4. CASE o \in S
      BY <2>4, <1>13, <1>14, <1>16
    <2>5. CASE gen[gref[o]] # 1 /\ o \notin rset /\ o \notin S
      <3>1. gen[gref[o]] = 0 /\ gen[o] \in {0, 1}
        BY <2>1, <2>5, <1>1 DEF GenTypeOK
      <3>2. gen[o] # 1 /\ o \notin Stale
        BY <2>1, <2>5, <3>1, <1>11 DEF OldToYoung
      <3>3. o \in V \ Old
        BY <2>5, <3>2, <1>9, <1>16 DEF Old
      <3>4. gref[o] \in V \cup Passed \cup rset
        BY <3>3, <1>8, <1>16 DEF Traced
      <3>5. QED
        BY <3>4, <2>1, <1>4, <1>9, <1>14
    <2>6. QED
      BY <2>2, <2>3, <2>4, <2>5
  <1>17. C \in SUBSET Objs /\ \A o \in C : gref[o] \in C \cup {NoObj}
    BY <1>3, <1>13, <1>14, <1>16
  <1>18. Reach(roots) \subseteq C
    BY <1>15, <1>17, ReachLeast
  <1>19. QED
    BY <1>11, <1>12, <1>14, <1>18

\* The second of two majors frees what the first condemned.
LEMMA FreedStep == ASSUME GenInv, gc_collect, kind = "major" PROVE heap' \cap condemned = {}
  <1>1. GenTypeOK /\ roots \subseteq Objs
    BY DEF GenInv, GenTypeOK
  <1>2. gc_mark \subseteq Reach(roots)
    BY <1>1, MarkReached
  <1>3. condemned \cap Reach(roots) = {} /\ \A o \in condemned \cap heap : mark[o] # cmark
    BY DEF GenInv, CondemnedHolds
  <1>4. heap' = {o \in heap : o \in gc_mark \/ mark[o] = cmark}
    BY DEF gc_collect, Survivors
  <1>5. QED
    BY <1>2, <1>3, <1>4

\* Only a collection counts a cycle.
LEMMA CycleSteps ==
  ASSUME [GenNext]_genVars, cycles' # cycles
  PROVE  (kind' = "major" => gc_collect) /\ (kind' = "minor" => gc_collect_minor)
  BY DEF GenNext, genVars, Alloc, Load, GenDrop, GenStore, gc_collect, gc_collect_minor

\* GenInv holds throughout, for any number of objects and of collections.
THEOREM GenInvariant == GenSpec => []GenInv
  <1>1. GenInit => GenInv
    BY GenInitHolds
  <1>2. GenInv /\ [GenNext]_genVars => GenInv'
    BY GenNextHolds
  <1>3. QED
    BY <1>1, <1>2, PTL DEF GenSpec

\* For any number of cells and collections, minor and major in any order and at every
\* parity of the mark: what a collection loses of the live objects is behind a stale
\* mark or, in a minor one, behind an old container of a young object, outside the
\* remembered set; garbage a major one leaves bore its mark already, and none outlives
\* two majors (gc_collect.c).
THEOREM CollectionsAreSound == GenSpec => CollectionsSound
  <1>1. GenInv /\ [GenNext]_genVars =>
          [cycles' # cycles /\ kind' = "major" /\ LiveSurvives
             => /\ Reach(roots) \ heap' \subseteq Behind(Stale)
                /\ heap' \ Reach(roots) \subseteq Stale]_genVars
    BY CycleSteps, MajorExactStep
  <1>2. GenInv /\ [GenNext]_genVars =>
          [cycles' # cycles /\ kind' = "minor" /\ LiveSurvives
             => Reach(roots) \ heap' \subseteq Behind((Stale \cup OldToYoung) \ rset)]_genVars
    BY CycleSteps, MinorSafeStep
  <1>3. GenInv /\ [GenNext]_genVars =>
          [cycles' # cycles /\ kind = "major" /\ kind' = "major" => heap' \cap condemned = {}]_genVars
    BY CycleSteps, FreedStep
  <1>4. QED
    BY <1>1, <1>2, <1>3, GenInvariant, PTL DEF GenSpec, CollectionsSound, MajorExact, MinorSafe, GarbageFreed

=============================================================================

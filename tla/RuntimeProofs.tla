---------------------------- MODULE RuntimeProofs ----------------------------
(* Two parts of the runtime, for any number of workers and jobs: no event,     *)
(* wake or stir is slept through (EventWait), and the heap's collector frees   *)
(* nothing the program can reach and lets no two objects share memory (RtHeap) *)
EXTENDS EventWait, RtHeap, FiniteSetTheorems, NaturalsInduction, WellFoundedInduction, SequenceTheorems, TLAPS

(* The idle wait and the vat's notification *)

\* The vat's job 0 is not one of the waiting jobs.
LEMMA JobSets ==
  /\ Waiters \subseteq EvJobs /\ 0 \in EvJobs /\ 0 \notin Waiters
  /\ \A j \in EvJobs : j = 0 \/ j \in Waiters
  BY EventAssumption DEF EventAssumption, Waiters, EvJobs

\* service_open: the notification is opened before the service.
LEMMA Keeps_service_open ==
  ASSUME EvInv, NEW j \in Waiters, service_open(j)
  PROVE  EvInv'
  <1>1. EvTypeOK'
    BY JobSets DEF EvInv, EvTypeOK, WaiterPcs, service_open
  <1>2. IdleHolds'
    BY JobSets DEF EvInv, EvTypeOK, IdleHolds, service_open
  <1>3. evMark'[0] = 0
    BY JobSets DEF EvInv, EvTypeOK, service_open
  <1>4. ASSUME NEW i \in Waiters PROVE WaitHolds(i)'
    BY JobSets DEF EvInv, EvTypeOK, IdleHolds, WaitHolds, service_open
  <1>5. QED
    BY <1>1, <1>2, <1>3, <1>4 DEF EvInv

\* service-event begins.
LEMMA Keeps_Begin ==
  ASSUME EvInv, NEW j \in Waiters, Begin(j)
  PROVE  EvInv'
  <1>1. EvTypeOK'
    BY JobSets DEF EvInv, EvTypeOK, WaiterPcs, Begin
  <1>2. IdleHolds'
    BY JobSets DEF EvInv, EvTypeOK, IdleHolds, Begin
  <1>3. evMark'[0] = 0
    BY JobSets DEF EvInv, EvTypeOK, Begin
  <1>4. ASSUME NEW i \in Waiters PROVE WaitHolds(i)'
    BY JobSets DEF EvInv, EvTypeOK, IdleHolds, WaitHolds, Begin
  <1>5. QED
    BY <1>1, <1>2, <1>3, <1>4 DEF EvInv

\* The look at the events and stirs words.
LEMMA Keeps_Look ==
  ASSUME EvInv, NEW j \in Waiters, Look(j)
  PROVE  EvInv'
  <1>1. EvTypeOK'
    BY JobSets DEF EvInv, EvTypeOK, WaiterPcs, Look
  <1>2. IdleHolds'
    BY JobSets DEF EvInv, EvTypeOK, IdleHolds, Look
  <1>3. evMark'[0] = 0
    BY JobSets DEF EvInv, EvTypeOK, Look
  <1>4. ASSUME NEW i \in Waiters PROVE WaitHolds(i)'
    BY JobSets DEF EvInv, EvTypeOK, IdleHolds, WaitHolds, Look
  <1>5. QED
    BY <1>1, <1>2, <1>3, <1>4 DEF EvInv

\* The poll for an event.
LEMMA Keeps_unir_service_event ==
  ASSUME EvInv, NEW j \in Waiters, unir_service_event(j)
  PROVE  EvInv'
  <1>1. EvTypeOK'
    BY JobSets DEF EvInv, EvTypeOK, WaiterPcs, unir_service_event
  <1>2. IdleHolds'
    BY JobSets DEF EvInv, EvTypeOK, IdleHolds, unir_service_event
  <1>3. evMark'[0] = 0
    BY JobSets DEF EvInv, EvTypeOK, unir_service_event
  <1>4. ASSUME NEW i \in Waiters PROVE WaitHolds(i)'
    BY JobSets DEF EvInv, EvTypeOK, IdleHolds, WaitHolds, unir_service_event
  <1>5. QED
    BY <1>1, <1>2, <1>3, <1>4 DEF EvInv

\* unir_service_arm, refused when an event is ready.
LEMMA Keeps_unir_service_arm ==
  ASSUME EvInv, NEW j \in Waiters, unir_service_arm(j)
  PROVE  EvInv'
  <1>1. EvTypeOK'
    BY JobSets DEF EvInv, EvTypeOK, WaiterPcs, unir_service_arm
  <1>2. IdleHolds'
    BY JobSets DEF EvInv, EvTypeOK, IdleHolds, unir_service_arm
  <1>3. evMark'[0] = 0
    BY JobSets DEF EvInv, EvTypeOK, unir_service_arm
  <1>4. ASSUME NEW i \in Waiters PROVE WaitHolds(i)'
    BY JobSets DEF EvInv, EvTypeOK, IdleHolds, WaitHolds, unir_service_arm
  <1>5. QED
    BY <1>1, <1>2, <1>3, <1>4 DEF EvInv

\* vat_await parks, unless the events word moved.
LEMMA Keeps_vat_await ==
  ASSUME EvInv, NEW j \in Waiters, vat_await(j)
  PROVE  EvInv'
  <1>1. EvTypeOK'
    BY JobSets DEF EvInv, EvTypeOK, WaiterPcs, vat_await
  <1>2. IdleHolds'
    BY JobSets DEF EvInv, EvTypeOK, IdleHolds, vat_await
  <1>3. evMark'[0] = 0
    BY JobSets DEF EvInv, EvTypeOK, vat_await
  <1>4. ASSUME NEW i \in Waiters PROVE WaitHolds(i)'
    BY JobSets DEF EvInv, EvTypeOK, IdleHolds, WaitHolds, vat_await
  <1>5. QED
    BY <1>1, <1>2, <1>3, <1>4 DEF EvInv

\* The end of a wait.
LEMMA Keeps_unir_service_disarm ==
  ASSUME EvInv, NEW j \in Waiters, unir_service_disarm(j)
  PROVE  EvInv'
  <1>1. EvTypeOK'
    BY JobSets DEF EvInv, EvTypeOK, WaiterPcs, unir_service_disarm
  <1>2. IdleHolds'
    BY JobSets DEF EvInv, EvTypeOK, IdleHolds, unir_service_disarm
  <1>3. evMark'[0] = 0
    BY JobSets DEF EvInv, EvTypeOK, unir_service_disarm
  <1>4. ASSUME NEW i \in Waiters PROVE WaitHolds(i)'
    BY JobSets DEF EvInv, EvTypeOK, IdleHolds, WaitHolds, unir_service_disarm
  <1>5. QED
    BY <1>1, <1>2, <1>3, <1>4 DEF EvInv

\* A service sends an event.
LEMMA Keeps_ServiceSends ==
  ASSUME EvInv, NEW j \in Waiters, ServiceSends(j)
  PROVE  EvInv'
  <1>1. EvTypeOK'
    BY JobSets DEF EvInv, EvTypeOK, WaiterPcs, ServiceSends
  <1>2. IdleHolds'
    BY JobSets DEF EvInv, EvTypeOK, IdleHolds, ServiceSends
  <1>3. evMark'[0] = 0
    BY JobSets DEF EvInv, EvTypeOK, ServiceSends
  <1>4. ASSUME NEW i \in Waiters PROVE WaitHolds(i)'
    BY JobSets DEF EvInv, EvTypeOK, IdleHolds, WaitHolds, ServiceSends
  <1>5. QED
    BY <1>1, <1>2, <1>3, <1>4 DEF EvInv

\* repoll_blocked resumes a fiber whose wait is over.
LEMMA Keeps_Repoll ==
  ASSUME EvInv, NEW j \in EvJobs, Repoll(j)
  PROVE  EvInv'
  <1>1. EvTypeOK'
    BY JobSets DEF EvInv, EvTypeOK, WaiterPcs, Repoll
  <1>2. IdleHolds'
    BY JobSets DEF EvInv, EvTypeOK, IdleHolds, Repoll
  <1>3. evMark'[0] = 0
    BY JobSets DEF EvInv, EvTypeOK, Repoll
  <1>4. ASSUME NEW i \in Waiters PROVE WaitHolds(i)'
    BY JobSets DEF EvInv, EvTypeOK, IdleHolds, WaitHolds, Repoll
  <1>5. QED
    BY <1>1, <1>2, <1>3, <1>4 DEF EvInv

\* vat_stir moves both words and wakes the fibers parked on them.
LEMMA Keeps_vat_stir ==
  ASSUME EvInv, vat_stir
  PROVE  EvInv'
  <1>1. EvTypeOK'
    BY JobSets DEF EvInv, EvTypeOK, WaiterPcs, vat_stir, Notified
  <1>2. IdleHolds'
    BY JobSets DEF EvInv, EvTypeOK, IdleHolds, vat_stir, Notified
  <1>3. evMark'[0] = 0
    BY JobSets DEF EvInv, EvTypeOK, vat_stir, Notified
  <1>4. ASSUME NEW i \in Waiters PROVE WaitHolds(i)'
    BY JobSets DEF EvInv, EvTypeOK, IdleHolds, WaitHolds, vat_stir, Notified
  <1>5. QED
    BY <1>1, <1>2, <1>3, <1>4 DEF EvInv

\* A job sleeps.
LEMMA Keeps_Sleep0 ==
  ASSUME EvInv, Sleep0
  PROVE  EvInv'
  <1>1. EvTypeOK'
    BY JobSets DEF EvInv, EvTypeOK, WaiterPcs, Sleep0
  <1>2. IdleHolds'
    BY JobSets DEF EvInv, EvTypeOK, IdleHolds, Sleep0
  <1>3. evMark'[0] = 0
    BY JobSets DEF EvInv, EvTypeOK, Sleep0
  <1>4. ASSUME NEW i \in Waiters PROVE WaitHolds(i)'
    BY JobSets DEF EvInv, EvTypeOK, IdleHolds, WaitHolds, Sleep0
  <1>5. QED
    BY <1>1, <1>2, <1>3, <1>4 DEF EvInv

\* The worker goes idle.
LEMMA Keeps_idle_wait ==
  ASSUME EvInv, idle_wait
  PROVE  EvInv'
  <1>1. EvTypeOK'
    BY JobSets DEF EvInv, EvTypeOK, WaiterPcs, idle_wait, Ready, Blocked, idle_ns
  <1>2. IdleHolds'
    BY JobSets DEF EvInv, EvTypeOK, IdleHolds, idle_wait, Ready, Blocked, idle_ns
  <1>3. evMark'[0] = 0
    BY JobSets DEF EvInv, EvTypeOK, idle_wait, Ready, Blocked, idle_ns
  <1>4. ASSUME NEW i \in Waiters PROVE WaitHolds(i)'
    BY JobSets DEF EvInv, EvTypeOK, IdleHolds, WaitHolds, idle_wait, Ready, Blocked, idle_ns
  <1>5. QED
    BY <1>1, <1>2, <1>3, <1>4 DEF EvInv

\* A badge ends the worker's wait.
LEMMA Keeps_WaitBadge ==
  ASSUME EvInv, WaitBadge
  PROVE  EvInv'
  <1>1. EvTypeOK'
    BY JobSets DEF EvInv, EvTypeOK, WaiterPcs, WaitBadge, Notified
  <1>2. IdleHolds'
    BY JobSets DEF EvInv, EvTypeOK, IdleHolds, WaitBadge, Notified
  <1>3. evMark'[0] = 0
    BY JobSets DEF EvInv, EvTypeOK, WaitBadge, Notified
  <1>4. ASSUME NEW i \in Waiters PROVE WaitHolds(i)'
    BY JobSets DEF EvInv, EvTypeOK, IdleHolds, WaitHolds, WaitBadge, Notified
  <1>5. QED
    BY <1>1, <1>2, <1>3, <1>4 DEF EvInv

\* A tick or a timeout ends the worker's wait.
LEMMA Keeps_WaitTimeout ==
  ASSUME EvInv, WaitTimeout
  PROVE  EvInv'
  <1>1. EvTypeOK'
    BY JobSets DEF EvInv, EvTypeOK, WaiterPcs, WaitTimeout
  <1>2. IdleHolds'
    BY JobSets DEF EvInv, EvTypeOK, IdleHolds, WaitTimeout
  <1>3. evMark'[0] = 0
    BY JobSets DEF EvInv, EvTypeOK, WaitTimeout
  <1>4. ASSUME NEW i \in Waiters PROVE WaitHolds(i)'
    BY JobSets DEF EvInv, EvTypeOK, IdleHolds, WaitHolds, WaitTimeout
  <1>5. QED
    BY <1>1, <1>2, <1>3, <1>4 DEF EvInv

\* Before the first step nobody waits.
LEMMA EvInitInv == EvInit => EvInv
  BY JobSets DEF EvInit, EvInv, EvTypeOK, WaiterPcs, IdleHolds, WaitHolds

\* Every step of the worker, of the waiting jobs and of the services keeps EvInv
\* (chan_unir.c, service_unir.c, sched.c).
THEOREM EvInvariant == EvSpec => []EvInv
  <1>1. ASSUME EvInv, [EvNext]_evVars PROVE EvInv'
    <2>1. CASE UNCHANGED evVars
      BY <1>1, <2>1 DEF evVars, EvInv, EvTypeOK, IdleHolds, WaitHolds
    <2>2. CASE EvNext
      BY <1>1, <2>2, Keeps_service_open, Keeps_Begin, Keeps_Look, Keeps_unir_service_event,
         Keeps_unir_service_arm, Keeps_vat_await, Keeps_unir_service_disarm, Keeps_ServiceSends,
         Keeps_Repoll, Keeps_vat_stir, Keeps_Sleep0, Keeps_idle_wait, Keeps_WaitBadge,
         Keeps_WaitTimeout DEF EvNext, WorkerStep
    <2>3. QED
      BY <1>1, <2>1, <2>2
  <1>2. QED
    BY <1>1, EvInitInv, PTL DEF EvSpec

\* For any number of waiting jobs, events and writes: the worker never waits
\* without a limit while an event, a wake or a ready job is there, a parked job
\* can be woken by its service, and a timed wait sees every stir
\* (sched.c:452-466, service_unir.c:121-131, chan_unir.c:114-123).
THEOREM NoWakeIsLost == EvSpec => []NoWakeLost
  <1>1. ASSUME EvInv PROVE NoWakeLost
    <2>1. IdleIsSafe
      BY <1>1, JobSets DEF EvInv, EvTypeOK, IdleHolds, WaitHolds, IdleIsSafe
    <2>2. ParkedIsArmed
      BY <1>1, JobSets DEF EvInv, EvTypeOK, WaitHolds, ParkedIsArmed
    <2>3. StirSeen
      BY <1>1 DEF EvInv, EvTypeOK, WaitHolds, StirSeen
    <2>4. QED
      BY <2>1, <2>2, <2>3 DEF NoWakeLost
  <1>2. QED
    BY <1>1, EvInvariant, PTL

-----------------------------------------------------------------------------
(* The heap: its inductive invariant *)

Sizes == NodeSizes \cup BlobSizes
Types == {"node", "blob", "free"}

HeapTypeOK ==
  /\ cells \in [DOMAIN cells -> [size : Sizes, type : Types, mark : {0, 1}]] /\ DOMAIN cells \subseteq Nat \ {0}
  /\ ref \in [DOMAIN cells -> Nat]
  /\ held \subseteq Nat /\ IsFiniteSet(held)
  /\ cursor \in Nat \ {0} /\ owner \in [Regions -> HWorkers] /\ rfree \in [Regions -> {0, 1}]
  /\ wk \in [HWorkers -> [bump : Nat, limit : Nat, fl : [1 .. NClass -> Seq(Nat)]]]
  /\ at \in [HWorkers -> [pc : {"out", "off", "scan", "full"}, size : Nat, r : Nat, got : Nat, res : Int,
                          type : {"node", "blob"}]]
  /\ \A w \in HWorkers : at[w].pc # "out" => at[w].size \in Sizes
  /\ phase \in {"run", "trap", "roots", "drain", "rescan", "sweep"} /\ gcw \in HWorkers
  /\ phase \notin {"run", "trap"} => at[gcw].pc = "full"
  /\ todo \subseteq held /\ (phase # "roots" => todo = {}) /\ stack \in Seq(Nat) /\ overflow \in {0, 1} /\ scanAt \in Nat
  /\ sweepR \in Nat /\ swept \in Int

\* The regions cell o lies in.
Hi(o) == RegionOf(o) + Span(cells[o].size) - 1
Touches(o, x) == RegionOf(o) <= x /\ x <= Hi(o)
HasBump(w, x) == wk[w].limit = Base(x) + RegionG
HasClaim(w, x) == at[w].pc = "scan" /\ at[w].r <= x /\ x < at[w].r + at[w].got

CellsHold ==
  /\ \A o \in DOMAIN cells :
       /\ Hi(o) < jacl_region_hwm
       /\ IF cells[o].size > RegionG THEN o = Base(RegionOf(o)) ELSE o + cells[o].size <= Base(RegionOf(o)) + RegionG
  /\ \A o, p \in DOMAIN cells : o < p =>
       o + cells[o].size <= p /\ (cells[o].size > RegionG => Hi(o) < RegionOf(p))

\* Who uses region x: nobody if it is free, one worker's claim, or cells and one bump area.
Bare(x) ==
  /\ x >= 1 /\ x < jacl_region_hwm
  /\ \A o \in DOMAIN cells : ~Touches(o, x)
  /\ \A w \in HWorkers : ~HasBump(w, x)
FreeOK(x) == rfree[x] = 1 => Bare(x) /\ \A w \in HWorkers : ~HasClaim(w, x)
ClaimOK(x) == \A w \in HWorkers : HasClaim(w, x) => Bare(x) /\ \A v \in HWorkers : v # w => ~HasClaim(v, x)
BumpOK(x) ==
  \A w \in HWorkers : HasBump(w, x) =>
    /\ x < jacl_region_hwm /\ owner[x] = w /\ Base(x) <= wk[w].bump
    /\ \A o \in DOMAIN cells : Touches(o, x) => cells[o].size <= RegionG /\ o + cells[o].size <= wk[w].bump

RegionsHold == \A x \in Regions : FreeOK(x) /\ ClaimOK(x) /\ BumpOK(x)

WorkerOK(w) ==
  /\ wk[w].bump <= wk[w].limit
  /\ wk[w].limit > 0 => wk[w].bump > 0 /\ \E x \in Regions : HasBump(w, x)
  /\ at[w].pc = "scan" => at[w].r >= 1 /\ at[w].got < Span(at[w].size)
                          /\ (at[w].got > 0 => at[w].r + at[w].got <= jacl_region_hwm)
  /\ phase \notin {"run", "trap"} => at[w].pc \in {"out", "full"}

WorkersHold == \A w \in HWorkers : WorkerOK(w)

\* o may be in the list of w's free cells of c granules.
InList(o, w, c) ==
  /\ o \in DOMAIN cells /\ cells[o].size = c /\ cells[o].type = "free"
  /\ owner[RegionOf(o)] = w
  /\ phase = "sweep" => RegionOf(o) < sweepR

ListsHold ==
  \A w \in HWorkers, c \in 1 .. NClass :
    /\ \A i \in 1 .. Len(wk[w].fl[c]) : InList(wk[w].fl[c][i], w, c)
    /\ \A i, j \in 1 .. Len(wk[w].fl[c]) : wk[w].fl[c][i] = wk[w].fl[c][j] => i = j

ToLive(word) == \E x \in DOMAIN cells : Points(word, x) /\ Live(x)
ToMarked(word) == \E x \in DOMAIN cells : Points(word, x) /\ cells[x].mark = 1
Marked(o) == o \in DOMAIN cells /\ cells[o].mark = 1
Refers(o) == cells[o].type = "node" /\ ref[o] # 0

RefsHold ==
  phase # "sweep" => /\ \A word \in held : ToLive(word)
                     /\ \A o \in DOMAIN cells : Refers(o) => ToLive(ref[o])

MarksHold ==
  /\ \A o \in DOMAIN cells : cells[o].mark = 1 => Live(o)
  /\ phase \in {"roots", "drain", "rescan"} =>
       /\ \A i \in 1 .. Len(stack) : Marked(stack[i])
       /\ \A word \in held : word \in todo \/ ToMarked(word)
       /\ \A o \in DOMAIN cells : cells[o].mark = 1 /\ Refers(o) =>
            \/ ToMarked(ref[o]) \/ overflow = 1 \/ (phase = "rescan" /\ o >= scanAt)
            \/ \E i \in 1 .. Len(stack) : stack[i] = o

SweepHolds ==
  phase = "sweep" =>
    /\ \A word \in held : ToMarked(word)
    /\ \A o \in DOMAIN cells : cells[o].mark = 1 /\ Refers(o) => ToMarked(ref[o])
    /\ \A o \in DOMAIN cells : RegionOf(o) < sweepR => Hi(o) < sweepR /\ (Live(o) => cells[o].mark = 1)
    /\ \A x \in Regions : x >= 1 /\ x < sweepR /\ x < jacl_region_hwm =>
         rfree[x] = 1 \/ \E o \in DOMAIN cells : Touches(o, x)

HeapInv == HeapTypeOK /\ CellsHold /\ RegionsHold /\ WorkersHold /\ ListsHold /\ RefsHold /\ MarksHold /\ SweepHolds

-----------------------------------------------------------------------------
(* The heap: proofs *)

\* Regions lie one after another, RegionG granules each.
LEMMA BaseFacts ==
  /\ Base(0) = 0
  /\ \A r \in Nat : Base(r) \in Nat /\ Base(r + 1) = Base(r) + RegionG
  /\ \A r, s \in Nat : Base(r + s) = Base(r) + Base(s)
  /\ \A r, s \in Nat : r < s => Base(r) + RegionG <= Base(s)
  <1>g. RegionG \in Nat \ {0}
    BY HeapAssumption DEF HeapAssumption
  <1>1. Base(0) = 0
    BY <1>g DEF Base
  <1>2. ASSUME NEW r \in Nat PROVE Base(r) \in Nat
    BY <1>g DEF Base
  <1>3. ASSUME NEW r \in Nat, NEW s \in Nat PROVE Base(r + s) = Base(r) + Base(s)
    BY <1>g DEF Base
  <1>4. Base(1) = RegionG
    BY <1>g DEF Base
  <1>5. ASSUME NEW r \in Nat, NEW s \in Nat, r < s PROVE Base(r) + RegionG <= Base(s)
    <2>1. s - r - 1 \in Nat /\ r + 1 \in Nat /\ s = (r + 1) + (s - r - 1)
      BY <1>5
    <2>2. Base(s) = Base(r + 1) + Base(s - r - 1)
      BY <2>1, <1>3
    <2>3. Base(r + 1) = Base(r) + RegionG
      BY <1>3, <1>4
    <2>4. QED
      BY <2>1, <2>2, <2>3, <1>2, <1>g
  <1>6. QED
    BY <1>1, <1>2, <1>3, <1>4, <1>5

\* The region of a granule is the one whose bounds enclose it.
LEMMA RegionFacts ==
  /\ \A o \in Nat : RegionOf(o) \in Nat /\ Base(RegionOf(o)) <= o /\ o < Base(RegionOf(o)) + RegionG
  /\ \A o, r \in Nat : Base(r) <= o /\ o < Base(r) + RegionG => RegionOf(o) = r
  <1>g. RegionG \in Nat \ {0}
    BY HeapAssumption DEF HeapAssumption
  <1>1. ASSUME NEW o \in Nat
        PROVE  RegionOf(o) \in Nat /\ Base(RegionOf(o)) <= o /\ o < Base(RegionOf(o)) + RegionG
    BY <1>g DEF RegionOf, Base
  <1>2. ASSUME NEW o \in Nat, NEW r \in Nat, Base(r) <= o, o < Base(r) + RegionG PROVE RegionOf(o) = r
    <2>1. RegionOf(o) \in Nat /\ Base(RegionOf(o)) <= o /\ o < Base(RegionOf(o)) + RegionG
      BY <1>1
    <2>2. Base(r) \in Nat /\ Base(RegionOf(o)) \in Nat
      BY <2>1, BaseFacts
    <2>3. ASSUME RegionOf(o) < r PROVE FALSE
      <3>1. Base(RegionOf(o)) + RegionG <= Base(r)
        BY <2>1, <2>3, BaseFacts
      <3>2. QED
        BY <2>1, <2>2, <3>1, <1>2, <1>g
    <2>4. ASSUME r < RegionOf(o) PROVE FALSE
      BY <2>1, <2>2, <2>4, <1>2, <1>g, BaseFacts
    <2>5. QED
      BY <2>1, <2>3, <2>4
  <1>3. QED
    BY <1>1, <1>2

\* Span rounds a cell's granules up to whole regions, and a cell that fits a region spans one.
LEMMA SpanFacts ==
  \A n \in Nat \ {0} :
    /\ Span(n) \in Nat \ {0} /\ n <= Base(Span(n)) /\ Base(Span(n)) < n + RegionG
    /\ n <= RegionG => Span(n) = 1
    /\ n > RegionG => Span(n) > 1
  <1>g. RegionG \in Nat \ {0}
    BY HeapAssumption DEF HeapAssumption
  <1> SUFFICES ASSUME NEW n \in Nat \ {0}
               PROVE /\ Span(n) \in Nat \ {0} /\ n <= Base(Span(n)) /\ Base(Span(n)) < n + RegionG
                     /\ n <= RegionG => Span(n) = 1
                     /\ n > RegionG => Span(n) > 1
    OBVIOUS
  <1>1. n + RegionG - 1 \in Nat /\ Span(n) = RegionOf(n + RegionG - 1)
    BY <1>g DEF Span, RegionOf
  <1>2. Span(n) \in Nat /\ n <= Base(Span(n)) /\ Base(Span(n)) < n + RegionG
    <2>1. Span(n) \in Nat /\ Base(Span(n)) <= n + RegionG - 1 /\ n + RegionG - 1 < Base(Span(n)) + RegionG
      BY <1>1, RegionFacts
    <2>2. Base(Span(n)) \in Nat
      BY <2>1, BaseFacts
    <2>3. QED
      BY <2>1, <2>2, <1>g
  <1>3. Span(n) # 0
    BY <1>2, BaseFacts
  <1>4. Base(1) = RegionG
    BY BaseFacts, <1>g
  <1>5. n <= RegionG => Span(n) = 1
    BY <1>1, <1>4, <1>g, RegionFacts
  <1>6. n > RegionG => Span(n) > 1
    BY <1>2, <1>3, <1>4, <1>g
  <1>7. QED
    BY <1>2, <1>3, <1>5, <1>6

\* What HeapAssumption says of the heap's constants, in the form the proofs use.
LEMMA Consts ==
  /\ RegionG \in Nat \ {0} /\ NRegions \in Nat \ {0} /\ NClass \in Nat /\ Sizes \subseteq Nat \ {0}
  /\ HWorkers \subseteq Nat /\ 0 \in HWorkers /\ Regions = 0 .. NRegions - 1
  BY HeapAssumption DEF HeapAssumption, Sizes, Regions

\* jacl_region_hwm is at least one, and never past the heap or the cursor.
LEMMA Hwm ==
  ASSUME HeapTypeOK
  PROVE  /\ jacl_region_hwm \in Nat \ {0} /\ jacl_region_hwm <= NRegions /\ jacl_region_hwm <= cursor
         /\ cursor \in Nat \ {0}
  <1>1. cursor \in Nat \ {0}
    BY DEF HeapTypeOK
  <1>2. QED
    BY <1>1, Consts DEF jacl_region_hwm

\* Where a cell lies: its header's fields, and its first and last region.
LEMMA CellFacts ==
  ASSUME HeapTypeOK, CellsHold, NEW o \in DOMAIN cells
  PROVE  /\ o \in Nat \ {0} /\ cells[o].size \in Nat \ {0} /\ cells[o].size \in Sizes
         /\ cells[o].type \in Types /\ cells[o].mark \in {0, 1} /\ ref[o] \in Nat
         /\ RegionOf(o) \in Nat /\ Hi(o) \in Nat /\ RegionOf(o) <= Hi(o) /\ Hi(o) < NRegions
         /\ Base(RegionOf(o)) <= o /\ Base(Hi(o)) \in Nat
         /\ o + cells[o].size <= Base(Hi(o)) + RegionG /\ Base(Hi(o)) < o + cells[o].size
  <1>g. RegionG \in Nat \ {0} /\ NRegions \in Nat \ {0} /\ Sizes \subseteq Nat \ {0}
    BY HeapAssumption DEF HeapAssumption, Sizes
  <1>1. /\ o \in Nat \ {0} /\ cells[o].size \in Nat \ {0} /\ cells[o].size \in Sizes
        /\ cells[o].type \in Types /\ cells[o].mark \in {0, 1} /\ ref[o] \in Nat
    BY <1>g DEF HeapTypeOK
  <1> DEFINE n == cells[o].size   r == RegionOf(o)
  <1>2. /\ r \in Nat /\ Base(r) <= o /\ o < Base(r) + RegionG /\ Base(r) \in Nat
    BY <1>1, RegionFacts, BaseFacts
  <1>3. /\ Span(n) \in Nat \ {0} /\ n <= Base(Span(n)) /\ Base(Span(n)) < n + RegionG
        /\ n <= RegionG => Span(n) = 1
    BY <1>1, SpanFacts
  <1>4. Hi(o) = r + Span(n) - 1 /\ Hi(o) < jacl_region_hwm
    BY DEF Hi, CellsHold
  <1>5. jacl_region_hwm <= NRegions /\ jacl_region_hwm \in Nat
    BY <1>g DEF HeapTypeOK, jacl_region_hwm
  <1>6. Hi(o) \in Nat /\ r <= Hi(o) /\ Hi(o) < NRegions
    BY <1>2, <1>3, <1>4, <1>5, <1>g
  <1>7. Base(Hi(o)) \in Nat /\ Base(Span(n)) \in Nat
    BY <1>6, <1>3, BaseFacts
  <1>8. o + n <= Base(Hi(o)) + RegionG /\ Base(Hi(o)) < o + n
    <2>1. CASE n <= RegionG
      <3>1. Hi(o) = r
        BY <2>1, <1>3, <1>4, <1>2
      <3>2. o + n <= Base(r) + RegionG
        BY <2>1, <1>1, <1>g DEF CellsHold
      <3>3. QED
        BY <3>1, <3>2, <1>2, <1>1, <1>g
    <2>2. CASE n > RegionG
      <3>1. o = Base(r)
        BY <2>2, <1>1, <1>g DEF CellsHold
      <3>2. Base(Hi(o) + 1) = Base(Hi(o)) + RegionG
        BY <1>6, BaseFacts
      <3>5. Hi(o) + 1 = r + Span(n)
        BY <1>4, <1>3, <1>2
      <3>3. Base(r + Span(n)) = Base(r) + Base(Span(n))
        BY <1>2, <1>3, BaseFacts
      <3>4. QED
        BY <3>1, <3>2, <3>3, <3>5, <1>1, <1>2, <1>3, <1>7, <1>g
    <2>3. QED
      BY <2>1, <2>2, <1>1, <1>g
  <1> HIDE DEF n, r
  <1>9. QED
    BY <1>1, <1>2, <1>6, <1>7, <1>8 DEF n, r

\* Every granule of a cell lies in a region the cell touches, and the other way round for its ends.
LEMMA GranuleTouches ==
  ASSUME HeapTypeOK, CellsHold, NEW o \in DOMAIN cells
  PROVE  /\ \A g \in Cell(o) : g \in Nat /\ RegionOf(g) \in Regions /\ Touches(o, RegionOf(g))
         /\ RegionOf(o + cells[o].size - 1) = Hi(o)
  <1>g. RegionG \in Nat \ {0} /\ NRegions \in Nat \ {0}
    BY HeapAssumption DEF HeapAssumption
  <1>f. /\ o \in Nat \ {0} /\ cells[o].size \in Nat \ {0}
        /\ RegionOf(o) \in Nat /\ Hi(o) \in Nat /\ RegionOf(o) <= Hi(o) /\ Hi(o) < NRegions
        /\ Base(RegionOf(o)) <= o /\ Base(Hi(o)) \in Nat
        /\ o + cells[o].size <= Base(Hi(o)) + RegionG /\ Base(Hi(o)) < o + cells[o].size
    BY CellFacts
  <1>1. ASSUME NEW g \in Cell(o)
        PROVE  g \in Nat /\ RegionOf(g) \in Regions /\ Touches(o, RegionOf(g))
    <2>1. g \in Nat /\ o <= g /\ g < o + cells[o].size
      BY <1>f DEF Cell
    <2>2. RegionOf(g) \in Nat /\ Base(RegionOf(g)) <= g /\ g < Base(RegionOf(g)) + RegionG /\ Base(RegionOf(g)) \in Nat
      BY <2>1, RegionFacts, BaseFacts
    <2>3. RegionOf(o) <= RegionOf(g)
      <3>1. SUFFICES ASSUME RegionOf(g) < RegionOf(o) PROVE FALSE
        BY <2>2, <1>f
      <3>2. Base(RegionOf(g)) + RegionG <= Base(RegionOf(o)) /\ Base(RegionOf(o)) \in Nat
        BY <3>1, <2>2, <1>f, BaseFacts
      <3>3. QED
        BY <3>2, <2>1, <2>2, <1>f, <1>g
    <2>4. RegionOf(g) <= Hi(o)
      <3>1. SUFFICES ASSUME Hi(o) < RegionOf(g) PROVE FALSE
        BY <2>2, <1>f
      <3>2. Base(Hi(o)) + RegionG <= Base(RegionOf(g))
        BY <3>1, <2>2, <1>f, BaseFacts
      <3>3. QED
        BY <3>2, <2>1, <2>2, <1>f, <1>g
    <2>5. QED
      BY <2>1, <2>2, <2>3, <2>4, <1>f, <1>g DEF Touches, Regions
  <1>2. RegionOf(o + cells[o].size - 1) = Hi(o)
    <2>1. o + cells[o].size - 1 \in Nat /\ Base(Hi(o)) <= o + cells[o].size - 1
          /\ o + cells[o].size - 1 < Base(Hi(o)) + RegionG
      BY <1>f, <1>g
    <2>2. QED
      BY <2>1, <1>f, RegionFacts
  <1>3. QED
    BY <1>1, <1>2

\* A granule of a worker's bump area lies in the region the worker bumps in.
LEMMA BumpArea ==
  ASSUME HeapTypeOK, RegionsHold, WorkersHold, NEW w \in HWorkers, NEW g \in wk[w].bump .. wk[w].limit - 1
  PROVE  g \in Nat /\ RegionOf(g) \in Regions /\ HasBump(w, RegionOf(g))
  <1>g. RegionG \in Nat \ {0} /\ NRegions \in Nat \ {0}
    BY HeapAssumption DEF HeapAssumption
  <1>1. wk[w].bump \in Nat /\ wk[w].limit \in Nat
    BY DEF HeapTypeOK
  <1>2. g \in Nat /\ wk[w].bump <= g /\ g < wk[w].limit
    BY <1>1
  <1>3. PICK x \in Regions : HasBump(w, x)
    BY <1>1, <1>2 DEF WorkersHold, WorkerOK
  <1>4. Base(x) <= wk[w].bump /\ x \in Nat
    BY <1>3, <1>g DEF RegionsHold, FreeOK, BumpOK, Bare, Regions
  <1>5. Base(x) \in Nat
    BY <1>4, BaseFacts
  <1>6. RegionOf(g) = x
    <2>1. Base(x) <= g /\ g < Base(x) + RegionG
      BY <1>1, <1>2, <1>3, <1>4, <1>5, <1>g DEF HasBump
    <2>2. QED
      BY <2>1, <1>2, <1>4, RegionFacts
  <1>7. QED
    BY <1>2, <1>3, <1>6

\* HeldAlive: outside the sweep the live cells, during it the marked ones, are the closed set it asks for.
LEMMA SoundAlive == HeapInv => HeldAlive
  <1> SUFFICES ASSUME HeapInv PROVE HeldAlive
    OBVIOUS
  <1>1. CASE phase # "sweep"
    <2> DEFINE reached == {o \in DOMAIN cells : Live(o)}
    <2>1. \A word \in held : \E o \in reached : Points(word, o)
      BY <1>1 DEF HeapInv, RefsHold, ToLive
    <2>2. \A o \in reached : cells[o].type = "node" /\ ref[o] # 0 => \E x \in reached : Points(ref[o], x)
      BY <1>1 DEF HeapInv, RefsHold, ToLive, Refers
    <2>3. QED
      BY <2>1, <2>2 DEF HeldAlive
  <1>2. CASE phase = "sweep"
    <2> DEFINE reached == {o \in DOMAIN cells : cells[o].mark = 1}
    <2>1. \A word \in held : \E o \in reached : Points(word, o)
      BY <1>2 DEF HeapInv, SweepHolds, ToMarked
    <2>2. \A o \in reached : cells[o].type = "node" /\ ref[o] # 0 => \E x \in reached : Points(ref[o], x)
      BY <1>2 DEF HeapInv, SweepHolds, ToMarked, Refers
    <2>3. \A o \in reached : Live(o)
      BY DEF HeapInv, MarksHold
    <2>4. QED
      BY <2>1, <2>2, <2>3 DEF HeldAlive
  <1>3. QED
    BY <1>1, <1>2

\* CellsDisjoint: from the order of the cells and from who uses each region.
LEMMA SoundDisjoint == HeapInv => CellsDisjoint
  <1> SUFFICES ASSUME HeapInv PROVE CellsDisjoint
    OBVIOUS
  <1>i. HeapTypeOK /\ CellsHold /\ RegionsHold /\ WorkersHold
    BY DEF HeapInv
  <1>1. ASSUME NEW o \in DOMAIN cells, NEW p \in DOMAIN cells, o # p PROVE Cell(o) \cap Cell(p) = {}
    <2>1. o \in Nat /\ p \in Nat /\ cells[o].size \in Nat /\ cells[p].size \in Nat
      BY <1>i, CellFacts
    <2>2. o + cells[o].size <= p \/ p + cells[p].size <= o
      BY <2>1, <1>1, <1>i DEF CellsHold
    <2>3. QED
      BY <2>1, <2>2 DEF Cell
  <1>2. ASSUME NEW o \in DOMAIN cells, NEW w \in HWorkers PROVE Cell(o) \cap (wk[w].bump .. wk[w].limit - 1) = {}
    <2> SUFFICES ASSUME NEW g \in Cell(o), g \in wk[w].bump .. wk[w].limit - 1 PROVE FALSE
      OBVIOUS
    <2>1. g \in Nat /\ RegionOf(g) \in Regions /\ Touches(o, RegionOf(g)) /\ HasBump(w, RegionOf(g))
      BY <1>i, GranuleTouches, BumpArea
    <2>2. o + cells[o].size <= wk[w].bump
      BY <2>1, <1>i DEF RegionsHold, FreeOK, BumpOK, Bare
    <2>3. o \in Nat /\ cells[o].size \in Nat /\ wk[w].bump \in Nat /\ wk[w].limit \in Nat
      BY <1>i, CellFacts DEF HeapTypeOK
    <2>4. QED
      BY <2>1, <2>2, <2>3 DEF Cell
  <1>3. ASSUME NEW o \in DOMAIN cells, NEW g \in Cell(o) PROVE rfree[RegionOf(g)] = 0
    <2>1. RegionOf(g) \in Regions /\ Touches(o, RegionOf(g))
      BY <1>i, GranuleTouches
    <2>2. QED
      BY <2>1, <1>i DEF RegionsHold, FreeOK, BumpOK, Bare, HeapTypeOK
  <1>4. ASSUME NEW w \in HWorkers, NEW g \in wk[w].bump .. wk[w].limit - 1
        PROVE  rfree[RegionOf(g)] = 0 /\ owner[RegionOf(g)] = w
    <2>1. RegionOf(g) \in Regions /\ HasBump(w, RegionOf(g))
      BY <1>i, BumpArea
    <2>2. QED
      BY <2>1, <1>i DEF RegionsHold, FreeOK, BumpOK, Bare, HeapTypeOK
  <1>5. ASSUME NEW v \in HWorkers, NEW w \in HWorkers, v # w
        PROVE  (wk[v].bump .. wk[v].limit - 1) \cap (wk[w].bump .. wk[w].limit - 1) = {}
    BY <1>4, <1>5
  <1>6. QED
    BY <1>1, <1>2, <1>3, <1>4, <1>5 DEF CellsDisjoint

\* ListsExact: a listed cell is free, so it carries no mark.
LEMMA SoundLists == HeapInv => ListsExact
  <1> SUFFICES ASSUME HeapInv, phase = "run", NEW w \in HWorkers, NEW c \in 1 .. NClass
               PROVE  LET l == wk[w].fl[c]
                      IN /\ \A i \in 1 .. Len(l) : l[i] \in DOMAIN cells
                              /\ cells[l[i]] = [size |-> c, type |-> "free", mark |-> 0]
                              /\ owner[RegionOf(l[i])] = w
                         /\ \A i, j \in 1 .. Len(l) : l[i] = l[j] => i = j
    BY DEF ListsExact
  <1> DEFINE l == wk[w].fl[c]
  <1>1. \A i \in 1 .. Len(l) : /\ l[i] \in DOMAIN cells /\ cells[l[i]].size = c /\ cells[l[i]].type = "free"
                               /\ owner[RegionOf(l[i])] = w
    BY DEF HeapInv, ListsHold, InList
  <1>2. \A i, j \in 1 .. Len(l) : l[i] = l[j] => i = j
    BY DEF HeapInv, ListsHold
  <1>3. ASSUME NEW i \in 1 .. Len(l) PROVE cells[l[i]] = [size |-> c, type |-> "free", mark |-> 0]
    <2>1. cells[l[i]] \in [size : Sizes, type : Types, mark : {0, 1}]
      BY <1>1 DEF HeapInv, HeapTypeOK
    <2>2. cells[l[i]].mark = 0
      BY <2>1, <1>1 DEF HeapInv, MarksHold, Live
    <2>3. QED
      BY <2>1, <2>2, <1>1
  <1>4. QED
    BY <1>1, <1>2, <1>3

\* SweepComplete: the regions behind the sweep are free or hold a cell.
LEMMA SoundSwept == HeapInv => SweepComplete
  <1> SUFFICES ASSUME HeapInv, phase = "sweep", sweepR >= jacl_region_hwm, NEW r \in 1 .. jacl_region_hwm - 1, rfree[r] # 1
               PROVE  \E o \in DOMAIN cells : r \in RegionOf(o) .. RegionOf(o + cells[o].size - 1)
    BY DEF SweepComplete
  <1>i. HeapTypeOK /\ CellsHold
    BY DEF HeapInv
  <1>1. r \in Regions /\ r >= 1 /\ r < sweepR /\ r < jacl_region_hwm
    <2>1. jacl_region_hwm \in Nat /\ jacl_region_hwm <= NRegions /\ sweepR \in Nat /\ NRegions \in Nat
      BY <1>i, Hwm, Consts DEF HeapTypeOK
    <2>2. QED
      BY <2>1 DEF Regions
  <1>2. PICK o \in DOMAIN cells : Touches(o, r)
    BY <1>1 DEF HeapInv, SweepHolds
  <1>3. RegionOf(o + cells[o].size - 1) = Hi(o) /\ RegionOf(o) \in Nat /\ Hi(o) \in Nat
    BY <1>i, GranuleTouches, CellFacts
  <1>4. QED
    BY <1>1, <1>2, <1>3 DEF Touches, Regions

\* The inductive invariant implies what the runs check.
LEMMA InvSound == HeapInv => HeapSound
  BY SoundAlive, SoundDisjoint, SoundLists, SoundSwept DEF HeapSound

SameCells ==
  /\ DOMAIN cells' = DOMAIN cells /\ cursor' = cursor
  /\ \A o \in DOMAIN cells : cells'[o].size = cells[o].size
SameAreas ==
  /\ rfree' = rfree /\ owner' = owner
  /\ \A w \in HWorkers : wk'[w].bump = wk[w].bump /\ wk'[w].limit = wk[w].limit
SameClaims == \A w \in HWorkers, x \in Regions : HasClaim(w, x)' => HasClaim(w, x)

\* A step that moves no cell keeps their layout.
LEMMA KeepsCells ==
  ASSUME SameCells
  PROVE  /\ jacl_region_hwm' = jacl_region_hwm
         /\ \A o \in DOMAIN cells : Hi(o)' = Hi(o)
         /\ \A o \in DOMAIN cells : \A x : Touches(o, x)' <=> Touches(o, x)
         /\ CellsHold => CellsHold'
  <1>1. jacl_region_hwm' = jacl_region_hwm
    BY DEF SameCells, jacl_region_hwm
  <1>2. \A o \in DOMAIN cells : Hi(o)' = Hi(o)
    BY DEF SameCells, Hi
  <1>3. \A o \in DOMAIN cells : \A x : Touches(o, x)' <=> Touches(o, x)
    BY <1>2 DEF Touches
  <1>4. CellsHold => CellsHold'
    BY <1>1, <1>2 DEF SameCells, CellsHold
  <1>5. QED
    BY <1>1, <1>2, <1>3, <1>4

\* A step that moves no cell and no area, and claims nothing, keeps who uses each region.
LEMMA KeepsRegions ==
  ASSUME SameCells, SameAreas, SameClaims, RegionsHold
  PROVE  RegionsHold'
  <1>1. /\ jacl_region_hwm' = jacl_region_hwm /\ DOMAIN cells' = DOMAIN cells
        /\ \A o \in DOMAIN cells : \A x : Touches(o, x)' <=> Touches(o, x)
    BY KeepsCells DEF SameCells
  <1>2. \A w \in HWorkers : \A x : HasBump(w, x)' <=> HasBump(w, x)
    BY DEF SameAreas, HasBump
  <1> SUFFICES ASSUME NEW x \in Regions PROVE FreeOK(x)' /\ ClaimOK(x)' /\ BumpOK(x)'
    BY DEF RegionsHold
  <1>3. FreeOK(x) /\ ClaimOK(x) /\ BumpOK(x)
    BY DEF RegionsHold
  <1>4. Bare(x) => Bare(x)'
    BY <1>1, <1>2 DEF Bare
  <1>5. FreeOK(x)'
    BY <1>3, <1>4 DEF FreeOK, SameAreas, SameClaims
  <1>6. ClaimOK(x)'
    BY <1>3, <1>4 DEF ClaimOK, SameClaims
  <1>7. BumpOK(x)'
    BY <1>1, <1>2, <1>3 DEF BumpOK, SameAreas, SameCells
  <1>8. QED
    BY <1>5, <1>6, <1>7

\* Such a step keeps what holds of a worker that it does not move.
LEMMA KeepsWorker ==
  ASSUME SameCells, SameAreas, NEW w \in HWorkers, at'[w] = at[w], WorkersHold, phase' = phase \/ phase' \in {"run", "trap"}
  PROVE  WorkerOK(w)'
  <1>1. jacl_region_hwm' = jacl_region_hwm
    BY KeepsCells
  <1>2. QED
    BY <1>1 DEF SameAreas, WorkersHold, WorkerOK, HasBump

\* The lists, the cells they hold and the owners are as before, and no sweep begins.
SameLists ==
  /\ owner' = owner /\ \A w \in HWorkers : wk'[w].fl = wk[w].fl
  /\ \A o \in DOMAIN cells : o \in DOMAIN cells' /\ cells'[o].size = cells[o].size /\ cells'[o].type = cells[o].type
  /\ phase' # "sweep"

\* A step that changes no list, and frees or reuses no listed cell, keeps the lists.
LEMMA KeepsLists ==
  ASSUME SameLists, ListsHold
  PROVE  ListsHold'
  <1>1. \A o, w, c : InList(o, w, c) => InList(o, w, c)'
    BY DEF SameLists, InList
  <1>2. QED
    BY <1>1 DEF SameLists, ListsHold

\* jacl_heap_init establishes the inductive invariant.
LEMMA InitInv == HeapInit => HeapInv
  <1> SUFFICES ASSUME HeapInit PROVE HeapInv
    OBVIOUS
  <1>e. DOMAIN cells = {} /\ DOMAIN ref = {}
    BY DEF HeapInit
  <1>1. HeapTypeOK
    <2>1. cells \in [DOMAIN cells -> [size : Sizes, type : Types, mark : {0, 1}]] /\ DOMAIN cells \subseteq Nat \ {0}
      BY <1>e DEF HeapInit
    <2>2. ref \in [DOMAIN cells -> Nat]
      BY <1>e DEF HeapInit
    <2>3. IsFiniteSet(held)
      BY FS_EmptySet DEF HeapInit
    <2>4. wk \in [HWorkers -> [bump : Nat, limit : Nat, fl : [1 .. NClass -> Seq(Nat)]]]
      BY Consts DEF HeapInit
    <2>5. /\ at \in [HWorkers -> [pc : {"out", "off", "scan", "full"}, size : Nat, r : Nat, got : Nat, res : Int,
                          type : {"node", "blob"}]]
          /\ \A w \in HWorkers : at[w].pc # "out" => at[w].size \in Sizes
      BY DEF HeapInit, Idle
    <2>6. QED
      BY <2>1, <2>2, <2>3, <2>4, <2>5, Consts DEF HeapTypeOK, HeapInit
  <1>2. CellsHold
    BY <1>e DEF CellsHold
  <1>h. jacl_region_hwm = 1
    BY Consts DEF HeapInit, jacl_region_hwm
  <1>n. \A w \in HWorkers : at[w].pc = "out"
    BY DEF HeapInit, Idle
  <1>b. \A w \in HWorkers, x \in Regions : HasBump(w, x) => w = 0 /\ x = 0 /\ wk[0].bump = 1
    <2> SUFFICES ASSUME NEW w \in HWorkers, NEW x \in Regions, HasBump(w, x) PROVE w = 0 /\ x = 0 /\ wk[0].bump = 1
      OBVIOUS
    <2>1. wk[w].limit = Base(x) + RegionG /\ Base(x) \in Nat /\ x \in Nat
      BY BaseFacts, Consts DEF HasBump
    <2>2. w = 0
      BY <2>1, Consts DEF HeapInit
    <2>3. wk[0].bump = 1 /\ wk[0].limit = RegionG
      BY <2>2 DEF HeapInit
    <2>4. Base(x) = 0
      BY <2>1, <2>2, <2>3, Consts
    <2>5. x = 0
      BY <2>4, <2>1, BaseFacts, Consts
    <2>6. QED
      BY <2>2, <2>3, <2>5
  <1>3. RegionsHold
    <2>1. \A x \in Regions : rfree[x] = 0 /\ owner[x] = 0
      BY DEF HeapInit
    <2>2. Base(0) = 0
      BY BaseFacts
    <2>3. QED
      BY <1>b, <1>e, <1>h, <1>n, <2>1, <2>2, Consts DEF RegionsHold, FreeOK, ClaimOK, BumpOK, Bare, HasClaim
  <1>4. WorkersHold
    <2>1. HasBump(0, 0) /\ 0 \in Regions
      BY BaseFacts, Consts DEF HeapInit, HasBump
    <2>2. QED
      BY <2>1, <1>n, Consts DEF WorkersHold, WorkerOK, HeapInit
  <1>5. ListsHold
    <2>1. \A w \in HWorkers, c \in 1 .. NClass : wk[w].fl[c] = << >>
      BY DEF HeapInit
    <2>2. QED
      BY <2>1 DEF ListsHold
  <1>6. RefsHold /\ MarksHold /\ SweepHolds
    BY <1>e DEF RefsHold, MarksHold, SweepHolds, HeapInit
  <1>7. QED
    BY <1>1, <1>2, <1>3, <1>4, <1>5, <1>6 DEF HeapInv

AtRecs == [pc : {"out", "off", "scan", "full"}, size : Nat, r : Nat, got : Nat, res : Int, type : {"node", "blob"}]

\* The part of the type invariant about the allocating workers.
LEMMA AtWorkers ==
  ASSUME HeapTypeOK
  PROVE  /\ at \in [HWorkers -> AtRecs]
         /\ \A w \in HWorkers : at[w].pc # "out" => at[w].size \in Sizes
  BY DEF HeapTypeOK, AtRecs

\* A step of the running program that changes no cell and no reference.
LEMMA KeepsIdle ==
  ASSUME HeapInv, cells' = cells, ref' = ref, held' \subseteq held, phase = "run", phase' \in {"run", "trap"}
  PROVE  RefsHold' /\ MarksHold' /\ SweepHolds'
  <1>1. \A word : ToLive(word)' <=> ToLive(word)
    BY DEF ToLive, Points, Live, Cell
  <1>2. RefsHold'
    BY <1>1 DEF HeapInv, RefsHold, Refers
  <1>3. MarksHold' /\ SweepHolds'
    BY DEF HeapInv, MarksHold, SweepHolds, Live
  <1>4. QED
    BY <1>2, <1>3

\* jacl_alloc only notes what is asked for.
LEMMA Keeps_alloc ==
  ASSUME HeapInv, NEW w \in HWorkers, NEW s \in Sizes, NEW t \in {"node", "blob"}, jacl_alloc(w, s, t)
  PROVE  HeapInv'
  <1>i. HeapTypeOK /\ CellsHold /\ RegionsHold /\ WorkersHold /\ ListsHold
    BY DEF HeapInv
  <1>a. /\ at' = [at EXCEPT ![w] = [Idle EXCEPT !.pc = "off", !.size = s, !.type = t, !.res = 1]]
        /\ UNCHANGED <<cells, ref, cursor, owner, rfree, wk, held, gcVars>> /\ phase = "run"
    BY DEF jacl_alloc
  <1>b. Idle \in AtRecs
    BY DEF Idle, AtRecs
  <1>c. at' \in [HWorkers -> AtRecs] /\ at'[w].pc = "off" /\ at'[w].size = s /\ \A v \in HWorkers : v # w => at'[v] = at[v]
    <2> DEFINE new == [Idle EXCEPT !.pc = "off", !.size = s, !.type = t, !.res = 1]
    <2>1. s \in Nat
      BY Consts
    <2> DEFINE mid == [Idle EXCEPT !.pc = "off", !.size = s, !.type = t]
    <2>5. mid \in AtRecs /\ mid.pc = "off" /\ mid.size = s
      BY <1>b, <2>1 DEF AtRecs
    <2>6. new = [mid EXCEPT !.res = 1]
      OBVIOUS
    <2> HIDE DEF mid, new
    <2>2. new \in AtRecs /\ new.pc = "off" /\ new.size = s
      BY <2>5, <2>6 DEF AtRecs
    <2>3. at' = [at EXCEPT ![w] = new] /\ at \in [HWorkers -> AtRecs]
      BY <1>a, <1>i, AtWorkers DEF new
    <2>4. QED
      BY <2>2, <2>3
  <1>1. HeapTypeOK'
    <2>1. at' \in [HWorkers -> AtRecs] /\ \A v \in HWorkers : at'[v].pc # "out" => at'[v].size \in Sizes
      BY <1>c, <1>i, AtWorkers
    <2>2. QED
      BY <2>1, <1>a, <1>i DEF HeapTypeOK, gcVars, AtRecs
  <1>2. SameCells /\ SameAreas /\ SameLists
    BY <1>a DEF SameCells, SameAreas, SameLists, gcVars
  <1>3. SameClaims
    BY <1>c DEF SameClaims, HasClaim
  <1>4. CellsHold' /\ RegionsHold' /\ ListsHold'
    BY <1>2, <1>3, <1>i, KeepsCells, KeepsRegions, KeepsLists
  <1>5. WorkersHold'
    <2>1. ASSUME NEW v \in HWorkers PROVE WorkerOK(v)'
      <3>1. CASE v # w
        BY <3>1, <1>c, <1>2, <1>a, <1>i, KeepsWorker DEF gcVars
      <3>2. CASE v = w
        BY <3>2, <1>a, <1>c, <1>i DEF WorkersHold, WorkerOK, gcVars, HasBump
      <3>3. QED
        BY <3>1, <3>2
    <2>2. QED
      BY <2>1 DEF WorkersHold, WorkerOK
  <1>6. RefsHold' /\ MarksHold' /\ SweepHolds'
    BY <1>a, KeepsIdle DEF gcVars, jacl_alloc
  <1>7. QED
    BY <1>1, <1>4, <1>5, <1>6 DEF HeapInv

\* jacl_grab_regions starts with nothing claimed.
LEMMA Keeps_StartGrab ==
  ASSUME HeapInv, NEW w \in HWorkers, StartGrab(w)
  PROVE  HeapInv'
  <1>i. HeapTypeOK /\ CellsHold /\ RegionsHold /\ WorkersHold /\ ListsHold
    BY DEF HeapInv
  <1>a. /\ at' = [at EXCEPT ![w] = [at[w] EXCEPT !.pc = "scan", !.r = 1, !.got = 0]]
        /\ UNCHANGED <<cells, ref, cursor, owner, rfree, wk, held, gcVars>> /\ phase = "run" /\ at[w].pc = "off"
    BY DEF StartGrab
  <1>b. at'[w].pc = "scan" /\ at'[w].r = 1 /\ at'[w].got = 0 /\ at'[w].size = at[w].size /\ at[w].size \in Sizes
    BY <1>a, <1>i, AtWorkers DEF AtRecs
  <1>c. \A v \in HWorkers : v # w => at'[v] = at[v]
    BY <1>a, <1>i, AtWorkers
  <1>1. HeapTypeOK'
    <2>1. at' \in [HWorkers -> AtRecs] /\ \A v \in HWorkers : at'[v].pc # "out" => at'[v].size \in Sizes
      BY <1>a, <1>i, AtWorkers, Consts DEF AtRecs
    <2>2. QED
      BY <2>1, <1>a, <1>i DEF HeapTypeOK, gcVars, AtRecs
  <1>2. SameCells /\ SameAreas /\ SameLists
    BY <1>a DEF SameCells, SameAreas, SameLists, gcVars
  <1>3. SameClaims
    BY <1>b, <1>c, Consts DEF SameClaims, HasClaim
  <1>4. CellsHold' /\ RegionsHold' /\ ListsHold'
    BY <1>2, <1>3, <1>i, KeepsCells, KeepsRegions, KeepsLists
  <1>5. WorkersHold'
    <2>1. ASSUME NEW v \in HWorkers PROVE WorkerOK(v)'
      <3>1. CASE v # w
        BY <3>1, <1>c, <1>2, <1>a, <1>i, KeepsWorker DEF gcVars
      <3>2. CASE v = w
        <4>1. Span(at[w].size) \in Nat \ {0}
          BY <1>b, Consts, SpanFacts
        <4>2. QED
          BY <3>2, <4>1, <1>b, <1>a, <1>i DEF WorkersHold, WorkerOK, gcVars, HasBump
      <3>3. QED
        BY <3>1, <3>2
    <2>2. QED
      BY <2>1 DEF WorkersHold, WorkerOK
  <1>6. RefsHold' /\ MarksHold' /\ SweepHolds'
    BY <1>a, KeepsIdle DEF gcVars
  <1>7. QED
    BY <1>1, <1>4, <1>5, <1>6 DEF HeapInv

\* The trap stops the program and changes nothing else.
LEMMA Keeps_Exhausted ==
  ASSUME HeapInv, NEW w \in HWorkers, Exhausted(w)
  PROVE  HeapInv'
  <1>i. HeapTypeOK /\ CellsHold /\ RegionsHold /\ WorkersHold /\ ListsHold
    BY DEF HeapInv
  <1>1. HeapTypeOK'
    BY <1>i DEF HeapTypeOK, Exhausted
  <1>2. SameCells /\ SameAreas /\ SameLists /\ SameClaims
    BY DEF SameCells, SameAreas, SameLists, SameClaims, HasClaim, Exhausted
  <1>4. CellsHold' /\ RegionsHold' /\ ListsHold'
    BY <1>2, <1>i, KeepsCells, KeepsRegions, KeepsLists
  <1>5. \A v \in HWorkers : WorkerOK(v)'
    BY <1>2, <1>i, KeepsWorker DEF Exhausted
  <1>6. RefsHold' /\ MarksHold' /\ SweepHolds'
    BY KeepsIdle DEF Exhausted
  <1>7. QED
    BY <1>1, <1>4, <1>5, <1>6 DEF HeapInv, WorkersHold, WorkerOK

\* A pointer that dies leaves fewer words to keep alive.
LEMMA Keeps_Drop ==
  ASSUME HeapInv, NEW word \in held, Drop(word)
  PROVE  HeapInv'
  <1>i. HeapTypeOK /\ CellsHold /\ RegionsHold /\ WorkersHold /\ ListsHold
    BY DEF HeapInv
  <1>1. HeapTypeOK'
    <2>1. IsFiniteSet(held') /\ held' \subseteq held /\ todo = {}
      BY <1>i, FS_RemoveElement DEF HeapTypeOK, Drop
    <2>2. QED
      BY <2>1, <1>i DEF HeapTypeOK, Drop, gcVars
  <1>2. SameCells /\ SameAreas /\ SameLists /\ SameClaims
    BY DEF SameCells, SameAreas, SameLists, SameClaims, HasClaim, Drop, gcVars
  <1>4. CellsHold' /\ RegionsHold' /\ ListsHold'
    BY <1>2, <1>i, KeepsCells, KeepsRegions, KeepsLists
  <1>5. \A v \in HWorkers : WorkerOK(v)'
    BY <1>2, <1>i, KeepsWorker DEF Drop, gcVars
  <1>6. RefsHold' /\ MarksHold' /\ SweepHolds'
    BY KeepsIdle DEF Drop, gcVars
  <1>7. QED
    BY <1>1, <1>4, <1>5, <1>6 DEF HeapInv, WorkersHold, WorkerOK

\* A word points into one cell only.
LEMMA UniqueCell ==
  ASSUME HeapTypeOK, CellsHold, NEW word, NEW x \in DOMAIN cells, NEW y \in DOMAIN cells, Points(word, x), Points(word, y)
  PROVE  x = y
  <1>1. x \in Nat /\ y \in Nat /\ cells[x].size \in Nat /\ cells[y].size \in Nat
    BY CellFacts
  <1>2. word \in Int /\ x <= word /\ word < x + cells[x].size /\ y <= word /\ word < y + cells[y].size
    BY <1>1 DEF Points, Cell
  <1>3. /\ x < y => x + cells[x].size <= y
        /\ y < x => y + cells[y].size <= x
    BY <1>1 DEF CellsHold
  <1>4. QED
    BY <1>1, <1>2, <1>3

\* A cell's offset points to it.
LEMMA SelfPoints ==
  ASSUME HeapTypeOK, CellsHold, NEW o \in DOMAIN cells
  PROVE  Points(o, o) /\ Points(o + cells[o].size - 1, o)
  <1>1. o \in Nat /\ cells[o].size \in Nat \ {0}
    BY CellFacts
  <1>2. QED
    BY <1>1 DEF Points, Cell

\* A word that reaches a marked cell reaches a live one.
LEMMA MarkedLive ==
  ASSUME MarksHold, NEW word, ToMarked(word)
  PROVE  ToLive(word)
  BY DEF MarksHold, ToMarked, ToLive

\* An interior pointer reaches the same cell as the pointer it replaces.
LEMMA Keeps_Interior ==
  ASSUME HeapInv, NEW o \in held, Interior(o)
  PROVE  HeapInv'
  <1>i. HeapTypeOK /\ CellsHold /\ RegionsHold /\ WorkersHold /\ ListsHold
    BY DEF HeapInv
  <1> DEFINE last == o + cells[o].size - 1
  <1>a. /\ held' = (held \ {o}) \cup {last} /\ o \in DOMAIN cells /\ phase = "run"
        /\ UNCHANGED <<cells, ref, cursor, owner, rfree, wk, at, hAllocs, gcVars>>
    BY DEF Interior
  <1>b. last \in Nat
    BY <1>a, <1>i, CellFacts
  <1>c. ToLive(last)
    <2>1. PICK x \in DOMAIN cells : Points(o, x) /\ Live(x)
      BY <1>a DEF HeapInv, RefsHold, ToLive
    <2>2. x = o
      BY <2>1, <1>a, <1>i, UniqueCell, SelfPoints
    <2>3. QED
      BY <2>1, <2>2, <1>a, <1>i, SelfPoints DEF ToLive
  <1> HIDE DEF last
  <1>1. HeapTypeOK'
    <2>1. IsFiniteSet(held') /\ held' \subseteq Nat /\ todo = {}
      BY <1>a, <1>b, <1>i, FS_RemoveElement, FS_AddElement DEF HeapTypeOK
    <2>2. QED
      BY <2>1, <1>a, <1>i DEF HeapTypeOK, gcVars
  <1>2. SameCells /\ SameAreas /\ SameLists /\ SameClaims
    BY <1>a DEF SameCells, SameAreas, SameLists, SameClaims, HasClaim, gcVars
  <1>4. CellsHold' /\ RegionsHold' /\ ListsHold'
    BY <1>2, <1>i, KeepsCells, KeepsRegions, KeepsLists
  <1>5. \A v \in HWorkers : WorkerOK(v)'
    BY <1>2, <1>i, <1>a, KeepsWorker DEF gcVars
  <1>6. RefsHold'
    <2>1. \A word : ToLive(word)' <=> ToLive(word)
      BY <1>a DEF ToLive, Points, Live, Cell
    <2>2. QED
      BY <2>1, <1>a, <1>c DEF HeapInv, RefsHold, Refers
  <1>7. MarksHold' /\ SweepHolds'
    BY <1>a DEF HeapInv, MarksHold, SweepHolds, Live, gcVars
  <1>8. QED
    BY <1>1, <1>4, <1>5, <1>6, <1>7 DEF HeapInv, WorkersHold, WorkerOK

\* A stored word was held, so it reaches a live cell.
LEMMA Keeps_Store ==
  ASSUME HeapInv, NEW o \in held, NEW word \in held, Store(o, word)
  PROVE  HeapInv'
  <1>i. HeapTypeOK /\ CellsHold /\ RegionsHold /\ WorkersHold /\ ListsHold
    BY DEF HeapInv
  <1>a. /\ ref' = [ref EXCEPT ![o] = word] /\ o \in DOMAIN cells /\ phase = "run"
        /\ UNCHANGED <<cells, cursor, owner, rfree, wk, at, held, hAllocs, gcVars>>
    BY DEF Store
  <1>1. HeapTypeOK'
    <2>1. ref' \in [DOMAIN cells -> Nat]
      BY <1>a, <1>i DEF HeapTypeOK
    <2>2. QED
      BY <2>1, <1>a, <1>i DEF HeapTypeOK, gcVars
  <1>2. SameCells /\ SameAreas /\ SameLists /\ SameClaims
    BY <1>a DEF SameCells, SameAreas, SameLists, SameClaims, HasClaim, gcVars
  <1>4. CellsHold' /\ RegionsHold' /\ ListsHold'
    BY <1>2, <1>i, KeepsCells, KeepsRegions, KeepsLists
  <1>5. \A v \in HWorkers : WorkerOK(v)'
    BY <1>2, <1>i, <1>a, KeepsWorker DEF gcVars
  <1>6. RefsHold'
    <2>1. \A wd : ToLive(wd)' <=> ToLive(wd)
      BY <1>a DEF ToLive, Points, Live, Cell
    <2>2. ToLive(word) /\ \A wd \in held : ToLive(wd)
      BY <1>a DEF HeapInv, RefsHold
    <2>3. \A p \in DOMAIN cells : ref'[p] = ref[p] \/ ref'[p] = word
      BY <1>a, <1>i DEF HeapTypeOK
    <2>4. \A p \in DOMAIN cells : Refers(p)' => ToLive(ref'[p])
      <3> SUFFICES ASSUME NEW p \in DOMAIN cells, Refers(p)' PROVE ToLive(ref'[p])
        OBVIOUS
      <3>1. CASE ref'[p] = word
        BY <3>1, <2>2
      <3>2. CASE ref'[p] = ref[p]
        BY <3>2, <1>a DEF HeapInv, RefsHold, Refers
      <3>3. QED
        BY <3>1, <3>2, <2>3
    <2>5. QED
      BY <2>1, <2>2, <2>4, <1>a DEF RefsHold
  <1>7. MarksHold' /\ SweepHolds'
    BY <1>a DEF HeapInv, MarksHold, SweepHolds, Live, gcVars
  <1>8. QED
    BY <1>1, <1>4, <1>5, <1>6, <1>7 DEF HeapInv, WorkersHold, WorkerOK

\* A collection starts with every held word in the root buffer and no cell marked.
LEMMA Keeps_CollectStart ==
  ASSUME HeapInv, NEW w \in HWorkers, CollectStart(w), Cardinality(held) <= RootCap
  PROVE  HeapInv'
  <1>i. HeapTypeOK /\ CellsHold /\ RegionsHold /\ WorkersHold /\ ListsHold
    BY DEF HeapInv
  <1>a. /\ phase = "run" /\ phase' = "roots" /\ gcw' = w
        /\ cells' = [o \in DOMAIN cells |-> [cells[o] EXCEPT !.mark = 0]]
        /\ stack' = << >> /\ overflow' = 0 /\ scanAt' = 0 /\ sweepR' = 0 /\ swept' = 0
        /\ UNCHANGED <<ref, cursor, owner, rfree, wk, at, held>>
        /\ at[w].pc = "full" /\ \A v \in HWorkers \ {w} : at[v].pc \in {"out", "full"}
    BY DEF CollectStart
  <1>b. todo' = held
    <2>1. todo' \subseteq held /\ Cardinality(todo') = IF Cardinality(held) < RootCap THEN Cardinality(held) ELSE RootCap
      BY DEF CollectStart
    <2>2. IsFiniteSet(held) /\ Cardinality(held) \in Nat
      BY <1>i, FS_CardinalityType DEF HeapTypeOK
    <2>3. Cardinality(todo') = Cardinality(held)
      BY <2>1, <2>2, HeapAssumption DEF HeapAssumption
    <2>4. QED
      BY <2>1, <2>2, <2>3, FS_Subset
  <1>c. /\ DOMAIN cells' = DOMAIN cells
        /\ \A o \in DOMAIN cells : /\ cells'[o] \in [size : Sizes, type : Types, mark : {0, 1}]
                                   /\ cells'[o].size = cells[o].size /\ cells'[o].type = cells[o].type /\ cells'[o].mark = 0
    <2>1. \A o \in DOMAIN cells : cells[o] \in [size : Sizes, type : Types, mark : {0, 1}]
      BY <1>i DEF HeapTypeOK
    <2>2. QED
      BY <2>1, <1>a
  <1>1. HeapTypeOK'
    <2>1. cells' \in [DOMAIN cells' -> [size : Sizes, type : Types, mark : {0, 1}]]
      BY <1>a, <1>c
    <2>2. DOMAIN cells' \subseteq Nat \ {0} /\ ref' \in [DOMAIN cells' -> Nat]
      BY <1>a, <1>c, <1>i DEF HeapTypeOK
    <2>3. /\ held' \subseteq Nat /\ IsFiniteSet(held')
          /\ cursor' \in Nat \ {0} /\ owner' \in [Regions -> HWorkers] /\ rfree' \in [Regions -> {0, 1}]
          /\ wk' \in [HWorkers -> [bump : Nat, limit : Nat, fl : [1 .. NClass -> Seq(Nat)]]]
          /\ at' \in [HWorkers -> [pc : {"out", "off", "scan", "full"}, size : Nat, r : Nat, got : Nat, res : Int,
                          type : {"node", "blob"}]]
          /\ \A v \in HWorkers : at'[v].pc # "out" => at'[v].size \in Sizes
      BY <1>a, <1>i DEF HeapTypeOK
    <2>4. QED
      BY <2>1, <2>2, <2>3, <1>a, <1>b DEF HeapTypeOK
  <1>2. SameCells /\ SameAreas /\ SameLists /\ SameClaims
    BY <1>a, <1>c DEF SameCells, SameAreas, SameLists, SameClaims, HasClaim
  <1>4. CellsHold' /\ RegionsHold' /\ ListsHold'
    BY <1>2, <1>i, KeepsCells, KeepsRegions, KeepsLists
  <1>5. WorkersHold'
    BY <1>a, <1>i DEF WorkersHold, WorkerOK, HasBump
  <1>6. RefsHold'
    <2>1. \A word : ToLive(word)' <=> ToLive(word)
      BY <1>a, <1>c DEF ToLive, Points, Live, Cell
    <2>2. QED
      BY <2>1, <1>a, <1>c DEF HeapInv, RefsHold, Refers
  <1>7. MarksHold'
    BY <1>a, <1>b, <1>c DEF MarksHold
  <1>8. SweepHolds'
    BY <1>a DEF SweepHolds
  <1>9. QED
    BY <1>1, <1>4, <1>5, <1>6, <1>7, <1>8 DEF HeapInv

\* With no root left, every held word reaches a marked cell.
LEMMA Keeps_RootsDone ==
  ASSUME HeapInv, RootsDone
  PROVE  HeapInv'
  <1>i. HeapTypeOK /\ CellsHold /\ RegionsHold /\ WorkersHold /\ ListsHold
    BY DEF HeapInv
  <1>1. HeapTypeOK'
    BY <1>i DEF HeapTypeOK, RootsDone
  <1>2. SameCells /\ SameAreas /\ SameLists /\ SameClaims
    BY DEF SameCells, SameAreas, SameLists, SameClaims, HasClaim, RootsDone
  <1>4. CellsHold' /\ RegionsHold' /\ ListsHold'
    BY <1>2, <1>i, KeepsCells, KeepsRegions, KeepsLists
  <1>5. WorkersHold'
    BY <1>i DEF RootsDone, WorkersHold, WorkerOK, HasBump
  <1>m. /\ \A word : ToLive(word)' <=> ToLive(word)
        /\ \A word : ToMarked(word)' <=> ToMarked(word)
    BY DEF RootsDone, ToLive, ToMarked, Points, Live, Cell
  <1>6. RefsHold'
    BY <1>m DEF HeapInv, RefsHold, Refers, RootsDone
  <1>7. MarksHold'
    BY <1>m DEF HeapInv, MarksHold, Marked, Live, Refers, RootsDone
  <1>8. SweepHolds'
    BY DEF SweepHolds, RootsDone
  <1>9. QED
    BY <1>1, <1>4, <1>5, <1>6, <1>7, <1>8 DEF HeapInv

\* A rescan starts below every cell, so the overflow flag may be cleared.
LEMMA Keeps_mark_rescan ==
  ASSUME HeapInv, mark_rescan
  PROVE  HeapInv'
  <1>i. HeapTypeOK /\ CellsHold /\ RegionsHold /\ WorkersHold /\ ListsHold
    BY DEF HeapInv
  <1>a. /\ phase \in {"drain", "rescan"} /\ phase' = "rescan" /\ overflow' = 0 /\ scanAt' = 0 /\ stack = << >>
        /\ UNCHANGED <<cells, ref, cursor, owner, rfree, wk, at, held, gcw, todo, stack, sweepR, swept>>
    BY DEF mark_rescan
  <1>1. HeapTypeOK'
    BY <1>i, <1>a DEF HeapTypeOK
  <1>2. SameCells /\ SameAreas /\ SameLists /\ SameClaims
    BY <1>a DEF SameCells, SameAreas, SameLists, SameClaims, HasClaim
  <1>4. CellsHold' /\ RegionsHold' /\ ListsHold'
    BY <1>2, <1>i, KeepsCells, KeepsRegions, KeepsLists
  <1>5. WorkersHold'
    BY <1>i, <1>a DEF WorkersHold, WorkerOK, HasBump, jacl_region_hwm
  <1>m. /\ \A word : ToLive(word)' <=> ToLive(word)
        /\ \A word : ToMarked(word)' <=> ToMarked(word)
    BY <1>a DEF ToLive, ToMarked, Points, Live, Cell
  <1>6. RefsHold'
    BY <1>m, <1>a DEF HeapInv, RefsHold, Refers
  <1>7. MarksHold'
    <2>1. \A o \in DOMAIN cells : o >= 0
      BY <1>i DEF HeapTypeOK
    <2>2. QED
      BY <1>m, <1>a, <2>1 DEF HeapInv, MarksHold, Marked, Live, Refers
  <1>8. SweepHolds'
    BY <1>a DEF SweepHolds
  <1>9. QED
    BY <1>1, <1>4, <1>5, <1>6, <1>7, <1>8 DEF HeapInv

\* With nothing queued, missed or left to rescan, the marked cells are closed; the lists start empty.
LEMMA Keeps_SweepStart ==
  ASSUME HeapInv, SweepStart
  PROVE  HeapInv'
  <1>i. HeapTypeOK /\ CellsHold /\ RegionsHold /\ WorkersHold /\ ListsHold
    BY DEF HeapInv
  <1>a. /\ phase \in {"drain", "rescan"} /\ phase' = "sweep" /\ sweepR' = 0 /\ overflow = 0 /\ stack = << >>
        /\ phase = "rescan" => {o \in DOMAIN cells : o >= scanAt} = {}
        /\ wk' = [w \in HWorkers |-> [wk[w] EXCEPT !.fl = [c \in 1 .. NClass |-> << >>]]]
        /\ UNCHANGED <<cells, ref, cursor, owner, rfree, at, held, gcw, todo, stack, overflow, scanAt, swept>>
    BY DEF SweepStart
  <1>b. /\ wk' \in [HWorkers -> [bump : Nat, limit : Nat, fl : [1 .. NClass -> Seq(Nat)]]]
        /\ \A w \in HWorkers : /\ wk'[w].bump = wk[w].bump /\ wk'[w].limit = wk[w].limit
                               /\ \A c \in 1 .. NClass : wk'[w].fl[c] = << >>
    <2> DEFINE none == [c \in 1 .. NClass |-> << >>]
    <2>1. none \in [1 .. NClass -> Seq(Nat)] /\ \A c \in 1 .. NClass : none[c] = << >>
      OBVIOUS
    <2>2. wk' = [w \in HWorkers |-> [wk[w] EXCEPT !.fl = none]]
      BY <1>a
    <2> HIDE DEF none
    <2>3. wk \in [HWorkers -> [bump : Nat, limit : Nat, fl : [1 .. NClass -> Seq(Nat)]]]
      BY <1>i DEF HeapTypeOK
    <2>4. QED
      BY <2>1, <2>2, <2>3
  <1>1. HeapTypeOK'
    BY <1>i, <1>a, <1>b DEF HeapTypeOK
  <1>2. SameCells /\ SameAreas /\ SameClaims
    BY <1>a, <1>b DEF SameCells, SameAreas, SameClaims, HasClaim
  <1>4. CellsHold' /\ RegionsHold'
    BY <1>2, <1>i, KeepsCells, KeepsRegions
  <1>5. WorkersHold'
    BY <1>i, <1>a, <1>b DEF WorkersHold, WorkerOK, HasBump, jacl_region_hwm
  <1>6. ListsHold'
    BY <1>b DEF ListsHold
  <1>m. \A word : ToMarked(word)' <=> ToMarked(word)
    BY <1>a DEF ToMarked, Points, Cell
  <1>7. RefsHold' /\ MarksHold'
    BY <1>a DEF HeapInv, RefsHold, MarksHold, Live
  <1>8. SweepHolds'
    <2>1. \A word \in held : ToMarked(word)
      BY <1>a, <1>i DEF HeapInv, MarksHold, HeapTypeOK
    <2>2. \A o \in DOMAIN cells : cells[o].mark = 1 /\ Refers(o) => ToMarked(ref[o])
      BY <1>a DEF HeapInv, MarksHold
    <2>3. \A o \in DOMAIN cells : ~ (RegionOf(o) < 0)
      BY <1>i, CellFacts
    <2>4. QED
      BY <2>1, <2>2, <2>3, <1>m, <1>a, Consts DEF SweepHolds, Refers
  <1>9. QED
    BY <1>1, <1>4, <1>5, <1>6, <1>7, <1>8 DEF HeapInv

\* The sweep has passed every cell, so each is marked or free: no reference leads to a dead cell.
LEMMA Keeps_CollectEnd ==
  ASSUME HeapInv, CollectEnd
  PROVE  HeapInv'
  <1>i. HeapTypeOK /\ CellsHold /\ RegionsHold /\ WorkersHold /\ ListsHold
    BY DEF HeapInv
  <1>a. /\ phase = "sweep" /\ phase' = "run" /\ sweepR >= jacl_region_hwm
        /\ UNCHANGED <<cells, ref, cursor, owner, rfree, wk, held, gcw, todo, stack, overflow, scanAt, sweepR, swept>>
    BY DEF CollectEnd
  <1>s. PICK lost \in SUBSET {v \in HWorkers \ {gcw} : at[v].pc = "full"} :
          at' = [v \in HWorkers |-> IF v = gcw THEN [at[v] EXCEPT !.pc = "off", !.res = swept]
                               ELSE IF v \in lost THEN [at[v] EXCEPT !.pc = "off", !.res = -1] ELSE at[v]]
    BY DEF CollectEnd
  <1>b. /\ at' \in [HWorkers -> AtRecs]
        /\ \A v \in HWorkers : at'[v] = at[v] \/ (at'[v].pc = "off" /\ at'[v].size = at[v].size)
    <2>1. at \in [HWorkers -> AtRecs] /\ swept \in Int
      BY <1>i, AtWorkers DEF HeapTypeOK
    <2>2. ASSUME NEW v \in HWorkers
          PROVE  at'[v] \in AtRecs /\ (at'[v] = at[v] \/ (at'[v].pc = "off" /\ at'[v].size = at[v].size))
      <3>1. at[v] \in AtRecs
        BY <2>1
      <3>2. \/ at'[v] = at[v]
            \/ at'[v] = [at[v] EXCEPT !.pc = "off", !.res = swept]
            \/ at'[v] = [at[v] EXCEPT !.pc = "off", !.res = -1]
        BY <1>s
      <3>3. ASSUME NEW n \in Int
            PROVE  LET new == [at[v] EXCEPT !.pc = "off", !.res = n]
                   IN new \in AtRecs /\ new.pc = "off" /\ new.size = at[v].size
        BY <3>1 DEF AtRecs
      <3>4. -1 \in Int
        OBVIOUS
      <3>5. QED
        BY <3>1, <3>2, <3>3, <3>4, <2>1
    <2>3. at' = [v \in HWorkers |-> at'[v]]
      BY <1>s
    <2>4. QED
      BY <2>2, <2>3
  <1>g. \A v \in HWorkers : at'[v].pc # "out" => at'[v].size \in Sizes
    <2> SUFFICES ASSUME NEW v \in HWorkers, at'[v].pc # "out" PROVE at'[v].size \in Sizes
      OBVIOUS
    <2>1. CASE at'[v] = at[v]
      BY <2>1, <1>i, AtWorkers
    <2>2. CASE at'[v] # at[v]
      <3>1. v = gcw \/ v \in lost
        BY <2>2, <1>s
      <3>2. v \in lost => at[v].pc = "full"
        OBVIOUS
      <3>3. QED
        BY <3>1, <3>2, <2>2, <1>a, <1>b, <1>i, AtWorkers DEF HeapTypeOK
    <2>3. QED
      BY <2>1, <2>2
  <1>1. HeapTypeOK'
    BY <1>i, <1>a, <1>b, <1>g DEF HeapTypeOK, AtRecs
  <1>2. SameCells /\ SameAreas /\ SameLists
    BY <1>a DEF SameCells, SameAreas, SameLists
  <1>3. SameClaims
    BY <1>b DEF SameClaims, HasClaim
  <1>4. CellsHold' /\ RegionsHold' /\ ListsHold'
    BY <1>2, <1>3, <1>i, KeepsCells, KeepsRegions, KeepsLists
  <1>5. WorkersHold'
    <2>1. \A v \in HWorkers : at[v].pc \in {"out", "full"}
      BY <1>a, <1>i DEF WorkersHold, WorkerOK
    <2>2. \A v \in HWorkers : at'[v].pc # "scan"
      BY <2>1, <1>b
    <2>3. QED
      BY <2>2, <1>i, <1>a DEF WorkersHold, WorkerOK, HasBump
  <1>6. RefsHold'
    <2>1. \A word : ToLive(word)' <=> ToLive(word)
      BY <1>a DEF ToLive, Points, Live, Cell
    <2>2. \A word \in held : ToLive(word)
      BY <1>a, MarkedLive DEF HeapInv, SweepHolds
    <2>3. ASSUME NEW o \in DOMAIN cells, Refers(o) PROVE ToLive(ref[o])
      <3>1. RegionOf(o) <= Hi(o) /\ Hi(o) < jacl_region_hwm /\ RegionOf(o) \in Nat /\ Hi(o) \in Nat
        BY <1>i, CellFacts DEF CellsHold
      <3>2. RegionOf(o) < sweepR
        <4>1. sweepR \in Nat /\ jacl_region_hwm \in Nat /\ sweepR >= jacl_region_hwm
          BY <1>a, <1>i, Hwm DEF HeapTypeOK
        <4>2. QED
          BY <3>1, <4>1
      <3>3. cells[o].mark = 1
        BY <3>2, <2>3, <1>a DEF HeapInv, SweepHolds, Live, Refers
      <3>4. QED
        BY <3>3, <2>3, <1>a, MarkedLive DEF HeapInv, SweepHolds
    <2>4. QED
      BY <2>1, <2>2, <2>3, <1>a DEF RefsHold, Refers
  <1>7. MarksHold' /\ SweepHolds'
    BY <1>a DEF HeapInv, MarksHold, SweepHolds, Live
  <1>8. QED
    BY <1>1, <1>4, <1>5, <1>6, <1>7 DEF HeapInv

\* The scan of a word reaches back over any cell.
Reach == \A s \in Sizes : s <= ScanCap + 1

CellRecs == [size : Sizes, type : Types, mark : {0, 1}]

\* A word into a cell resolves to that cell: no other start lies between.
LEMMA ResolveHits ==
  ASSUME Reach, HeapTypeOK, CellsHold, NEW word, NEW x \in DOMAIN cells, Points(word, x)
  PROVE  Resolve(word) = {x}
  <1> DEFINE starts == {o \in DOMAIN cells : o <= word /\ word - o <= ScanCap}
  <1>c. ScanCap \in Nat
    BY HeapAssumption DEF HeapAssumption
  <1>1. x \in Nat /\ cells[x].size \in Nat /\ cells[x].size <= ScanCap + 1
    BY CellFacts DEF Reach
  <1>2. word \in Int /\ x <= word /\ word < x + cells[x].size
    BY <1>1 DEF Points, Cell
  <1>3. x \in starts
    BY <1>1, <1>2, <1>c
  <1>4. ASSUME NEW y \in starts PROVE y \in Nat /\ y <= x
    <2>1. y \in Nat
      BY CellFacts
    <2>2. x < y => x + cells[x].size <= y
      BY DEF CellsHold
    <2>3. QED
      BY <2>1, <2>2, <1>1, <1>2
  <1> HIDE DEF starts
  <1>5. Max(starts) = x
    <2>1. \A y \in starts : x >= y
      BY <1>1, <1>4
    <2>2. Max(starts) \in starts /\ \A y \in starts : Max(starts) >= y
      BY <2>1, <1>3, Zenon DEF Max
    <2>3. QED
      BY <2>2, <1>1, <1>3, <1>4
  <1>6. QED
    BY <1>3, <1>5 DEF Resolve, starts, Points

\* The greatest member of a singleton.
LEMMA MaxOne == ASSUME NEW x \in Nat PROVE Max({x}) = x
  BY DEF Max

\* The cell x is marked and nothing else changes in the cells.
Painted(x) ==
  /\ cells' \in [DOMAIN cells -> CellRecs]
  /\ \A o \in DOMAIN cells : /\ cells'[o].size = cells[o].size /\ cells'[o].type = cells[o].type
                             /\ cells'[o].mark = 1 <=> cells[o].mark = 1 \/ o = x

\* The mark stack after a push of x onto rest.
Queued(x, rest) ==
  /\ stack' \in Seq(Nat) /\ overflow' \in {0, 1}
  /\ \/ stack' = rest /\ overflow' = overflow /\ cells[x].mark = 1
     \/ stack' = Append(rest, x) /\ overflow' = overflow
     \/ stack' = rest /\ overflow' = 1

\* mark_push_word of a word into a live cell: the cell is marked afterwards, and queued or the overflow noted if it
\* is new.
LEMMA PushQueues ==
  ASSUME Reach, HeapTypeOK, CellsHold, NEW word, NEW x \in DOMAIN cells, Points(word, x), Live(x), NEW rest \in Seq(Nat),
         LET hit == {o \in Resolve(word) : Live(o) /\ cells[o].mark = 0}
         IN /\ cells' = [o \in DOMAIN cells |-> IF o \in hit THEN [cells[o] EXCEPT !.mark = 1] ELSE cells[o]]
            /\ stack' = IF hit # {} /\ Len(rest) < MarkCap THEN Append(rest, Max(hit)) ELSE rest
            /\ overflow' = IF hit # {} /\ Len(rest) >= MarkCap THEN 1 ELSE overflow
  PROVE  Painted(x) /\ Queued(x, rest)
  <1> DEFINE hit == {o \in Resolve(word) : Live(o) /\ cells[o].mark = 0}
  <1>1. Resolve(word) = {x} /\ x \in Nat /\ cells[x].mark \in {0, 1}
    BY ResolveHits, CellFacts
  <1>2. hit = IF cells[x].mark = 0 THEN {x} ELSE {}
    BY <1>1
  <1>3. /\ cells' = [o \in DOMAIN cells |-> IF o \in hit THEN [cells[o] EXCEPT !.mark = 1] ELSE cells[o]]
        /\ stack' = IF hit # {} /\ Len(rest) < MarkCap THEN Append(rest, Max(hit)) ELSE rest
        /\ overflow' = IF hit # {} /\ Len(rest) >= MarkCap THEN 1 ELSE overflow
    OBVIOUS
  <1> HIDE DEF hit
  <1>4. overflow \in {0, 1} /\ \A o \in DOMAIN cells : cells[o] \in CellRecs
    BY DEF HeapTypeOK, CellRecs
  <1>c. Len(rest) \in Nat /\ MarkCap \in Nat
    BY HeapAssumption DEF HeapAssumption
  <1>5. Painted(x)
    BY <1>1, <1>2, <1>3, <1>4 DEF Painted, CellRecs
  <1>6. Queued(x, rest)
    <2>1. CASE cells[x].mark = 1
      BY <2>1, <1>2, <1>3, <1>4 DEF Queued
    <2>2. CASE cells[x].mark = 0 /\ Len(rest) < MarkCap
      <3>1. stack' = Append(rest, x) /\ overflow' = overflow
        BY <2>2, <1>1, <1>2, <1>3, <1>c, MaxOne
      <3>2. Append(rest, x) \in Seq(Nat)
        BY <1>1
      <3>3. QED
        BY <3>1, <3>2, <1>4 DEF Queued
    <2>3. CASE cells[x].mark = 0 /\ Len(rest) >= MarkCap
      BY <2>3, <1>2, <1>3, <1>4, <1>c DEF Queued
    <2>4. QED
      BY <2>1, <2>2, <2>3, <1>1, <1>c
  <1>7. QED
    BY <1>5, <1>6

\* A non-empty set of naturals has a least member.
LEMMA LeastNat ==
  ASSUME NEW T, T \subseteq Nat, T # {}
  PROVE  \E m \in T : \A k \in T : m <= k
  <1>1. IsWellFoundedOn(OpToRel(<, Nat), Nat)
    BY NatLessThanWellFounded
  <1>2. PICK m \in T : \A k \in T : ~(<<k, m>> \in OpToRel(<, Nat))
    BY <1>1, WFMin
  <1>3. m \in Nat /\ \A k \in T : k \in Nat /\ ~(k < m)
    BY <1>2 DEF OpToRel
  <1>4. ASSUME NEW k \in T PROVE m <= k
    BY <1>3
  <1>5. QED
    BY <1>4

Marking == {"roots", "drain", "rescan"}

\* The word points into a cell that the step leaves marked.
NextMarked(word) == \E x \in DOMAIN cells' : word \in x .. x + cells'[x].size - 1 /\ cells'[x].mark = 1
OnStack(s, o) == \E i \in 1 .. Len(s) : s[i] = o

\* A step of the marker: at most cell x is newly marked.
LEMMA KeepsMarks ==
  ASSUME HeapInv, phase \in Marking, NEW x, Painted(x), x \in DOMAIN cells => Live(x),
         UNCHANGED <<ref, cursor, owner, rfree, wk, at, held, phase, gcw, sweepR, swept>>,
         todo' \subseteq todo, stack' \in Seq(Nat), overflow' \in {0, 1}, scanAt' \in Nat,
         \A o : OnStack(stack', o) => o \in DOMAIN cells' /\ cells'[o].mark = 1,
         \A word \in held : word \in todo' \/ NextMarked(word),
         \A o \in DOMAIN cells : cells'[o].mark = 1 /\ Refers(o) =>
            NextMarked(ref[o]) \/ overflow' = 1 \/ (phase = "rescan" /\ o >= scanAt') \/ OnStack(stack', o)
  PROVE  HeapInv'
  <1>i. HeapTypeOK /\ CellsHold /\ RegionsHold /\ WorkersHold /\ ListsHold /\ RefsHold /\ MarksHold
    BY DEF HeapInv
  <1>d. DOMAIN cells' = DOMAIN cells /\ phase # "sweep" /\ phase' = phase
    BY DEF Painted, Marking
  <1>1. HeapTypeOK'
    <2>1. cells' \in [DOMAIN cells' -> CellRecs] /\ ref' \in [DOMAIN cells' -> Nat] /\ todo' \subseteq held' /\ (phase' # "roots" => todo' = {})
      BY <1>i, <1>d DEF Painted, HeapTypeOK
    <2>2. QED
      BY <2>1, <1>i, <1>d DEF HeapTypeOK, CellRecs
  <1>2. SameCells /\ SameAreas /\ SameLists /\ SameClaims
    BY <1>d DEF SameCells, SameAreas, SameLists, SameClaims, HasClaim, Painted
  <1>4. CellsHold' /\ RegionsHold' /\ ListsHold'
    BY <1>2, <1>i, KeepsCells, KeepsRegions, KeepsLists
  <1>5. WorkersHold'
    BY <1>i, <1>d DEF WorkersHold, WorkerOK, HasBump, jacl_region_hwm
  <1>6. RefsHold'
    <2>1. \A word : ToLive(word)' <=> ToLive(word)
      BY <1>d DEF Painted, ToLive, Points, Live, Cell
    <2>2. \A o \in DOMAIN cells : Refers(o)' <=> Refers(o)
      BY DEF Painted, Refers
    <2>3. QED
      BY <2>1, <2>2, <1>i, <1>d DEF RefsHold
  <1>7. MarksHold'
    <2>1. \A o \in DOMAIN cells' : cells'[o].mark = 1 => Live(o)'
      BY <1>i, <1>d DEF Painted, MarksHold, Live
    <2>2. \A o \in DOMAIN cells : Refers(o)' <=> Refers(o)
      BY DEF Painted, Refers
    <2>3. \A word : NextMarked(word) => ToMarked(word)'
      BY DEF NextMarked, ToMarked, Points, Cell
    <2>4. (\A i \in 1 .. Len(stack) : Marked(stack[i]))'
      BY DEF OnStack, Marked
    <2>5. (\A word \in held : word \in todo \/ ToMarked(word))'
      BY <2>3
    <2>6. (\A o \in DOMAIN cells : cells[o].mark = 1 /\ Refers(o) =>
            \/ ToMarked(ref[o]) \/ overflow = 1 \/ (phase = "rescan" /\ o >= scanAt)
            \/ \E i \in 1 .. Len(stack) : stack[i] = o)'
      <3> SUFFICES ASSUME NEW o \in DOMAIN cells, cells'[o].mark = 1, Refers(o)
                   PROVE  \/ ToMarked(ref[o])' \/ overflow' = 1 \/ (phase' = "rescan" /\ o >= scanAt')
                          \/ \E i \in 1 .. Len(stack') : stack'[i] = o
        BY <2>2, <1>d
      <3>1. NextMarked(ref[o]) => ToMarked(ref[o])'
        BY DEF NextMarked, ToMarked, Points, Cell
      <3>2. QED
        BY <3>1, <1>d DEF OnStack
    <2>7. QED
      BY <2>1, <2>4, <2>5, <2>6 DEF MarksHold
  <1>8. SweepHolds'
    BY <1>d DEF SweepHolds
  <1>9. QED
    BY <1>1, <1>4, <1>5, <1>6, <1>7, <1>8 DEF HeapInv

\* What was marked stays marked.
LEMMA PaintedKeeps ==
  ASSUME NEW x, Painted(x)
  PROVE  /\ DOMAIN cells' = DOMAIN cells
         /\ \A o \in DOMAIN cells : cells[o].mark = 1 => cells'[o].mark = 1
         /\ \A word : ToMarked(word) => NextMarked(word)
         /\ \A word : x \in DOMAIN cells /\ Points(word, x) => NextMarked(word)
         /\ x \in DOMAIN cells => cells'[x].mark = 1
  <1>1. DOMAIN cells' = DOMAIN cells
    BY DEF Painted
  <1>2. QED
    BY <1>1 DEF Painted, ToMarked, NextMarked, Points, Cell

\* The cells of a stack that was pushed to are marked, and it keeps what it held.
LEMMA QueuedKeeps ==
  ASSUME NEW x \in DOMAIN cells, Painted(x), NEW rest \in Seq(Nat), Queued(x, rest), overflow \in {0, 1}, x \in Nat,
         \A o : OnStack(rest, o) => o \in DOMAIN cells /\ cells[o].mark = 1
  PROVE  /\ \A o : OnStack(stack', o) => o \in DOMAIN cells' /\ cells'[o].mark = 1
         /\ \A o : OnStack(rest, o) => OnStack(stack', o)
         /\ overflow = 1 => overflow' = 1
         /\ cells[x].mark = 1 \/ overflow' = 1 \/ OnStack(stack', x)
  <1>m. /\ DOMAIN cells' = DOMAIN cells /\ cells'[x].mark = 1
        /\ \A o \in DOMAIN cells : cells[o].mark = 1 => cells'[o].mark = 1
    BY PaintedKeeps
  <1>q. overflow = 1 => overflow' = 1
    BY DEF Queued
  <1>1. CASE stack' = rest
    BY <1>1, <1>m, <1>q DEF Queued
  <1>2. CASE stack' = Append(rest, x)
    <2>l. Len(rest) \in Nat
      OBVIOUS
    <2>1. Len(stack') = Len(rest) + 1 /\ stack'[Len(rest) + 1] = x /\ \A i \in 1 .. Len(rest) : stack'[i] = rest[i]
      BY <1>2, AppendProperties
    <2>2. \A i \in 1 .. Len(stack') : i \in 1 .. Len(rest) \/ i = Len(rest) + 1
      BY <2>1, <2>l
    <2>3. Len(rest) + 1 \in 1 .. Len(stack') /\ 1 .. Len(rest) \subseteq 1 .. Len(stack')
      BY <2>1, <2>l
    <2>4. \A o : OnStack(stack', o) <=> OnStack(rest, o) \/ o = x
      BY <2>1, <2>2, <2>3 DEF OnStack
    <2>5. QED
      BY <2>4, <1>m, <1>q
  <1>3. QED
    BY <1>1, <1>2 DEF Queued

\* Pushing a marked cell keeps every queued cell marked.
LEMMA StackMarked ==
  ASSUME MarksHold, phase \in Marking
  PROVE  /\ \A o : OnStack(stack, o) => o \in DOMAIN cells /\ cells[o].mark = 1
         /\ \A o \in DOMAIN cells : cells[o].mark = 1 /\ Refers(o) =>
              ToMarked(ref[o]) \/ overflow = 1 \/ (phase = "rescan" /\ o >= scanAt) \/ OnStack(stack, o)
  BY DEF MarksHold, OnStack, Marked, Marking

\* One root less: its cell is marked, and queued or the overflow noted.
LEMMA Keeps_PushRoot ==
  ASSUME Reach, HeapInv, PushRoot
  PROVE  HeapInv'
  <1>i. HeapTypeOK /\ CellsHold /\ RefsHold /\ MarksHold
    BY DEF HeapInv
  <1>1. PICK word \in todo : mark_push_word(word) /\ todo' = todo \ {word}
    BY DEF PushRoot
  <1>2. /\ phase = "roots" /\ phase \in Marking /\ UNCHANGED <<ref, cursor, owner, rfree, wk, at, held, phase, gcw, sweepR, swept, scanAt>>
        /\ word \in held /\ stack \in Seq(Nat) /\ overflow \in {0, 1} /\ scanAt \in Nat
    BY <1>i DEF PushRoot, HeapTypeOK, Marking
  <1>3. PICK x \in DOMAIN cells : Points(word, x) /\ Live(x)
    BY <1>2, <1>i DEF RefsHold, ToLive
  <1>4. Painted(x) /\ Queued(x, stack)
    BY <1>1, <1>2, <1>3, <1>i, PushQueues DEF mark_push_word
  <1>5. NextMarked(word) /\ \A wd : ToMarked(wd) => NextMarked(wd)
    BY <1>3, <1>4, PaintedKeeps
  <1>6. /\ \A o : OnStack(stack', o) => o \in DOMAIN cells' /\ cells'[o].mark = 1
        /\ \A o : OnStack(stack, o) => OnStack(stack', o)
        /\ overflow = 1 => overflow' = 1
        /\ cells[x].mark = 1 \/ overflow' = 1 \/ OnStack(stack', x)
    <2>1. x \in Nat
      BY <1>i, CellFacts
    <2>2. QED
      BY <2>1, <1>2, <1>4, <1>i, StackMarked, QueuedKeeps
  <1>7. \A wd \in held : wd \in todo' \/ NextMarked(wd)
    BY <1>1, <1>2, <1>5, <1>i DEF MarksHold
  <1>8. ASSUME NEW o \in DOMAIN cells, cells'[o].mark = 1, Refers(o)
        PROVE  NextMarked(ref[o]) \/ overflow' = 1 \/ (phase = "rescan" /\ o >= scanAt') \/ OnStack(stack', o)
    <2>1. cells[o].mark = 1 \/ o = x
      BY <1>8, <1>4 DEF Painted
    <2>2. CASE cells[o].mark = 1
      <3>1. ToMarked(ref[o]) \/ overflow = 1 \/ OnStack(stack, o)
        BY <2>2, <1>8, <1>2, <1>i, StackMarked
      <3>2. QED
        BY <3>1, <1>5, <1>6
    <2>3. CASE cells[o].mark # 1 /\ o = x
      BY <2>3, <1>6
    <2>4. QED
      BY <2>1, <2>2, <2>3
  <1>9. stack' \in Seq(Nat) /\ overflow' \in {0, 1} /\ scanAt' \in Nat /\ todo' \subseteq todo
    BY <1>1, <1>2, <1>4 DEF Queued
  <1>10. QED
    BY <1>2, <1>3, <1>4, <1>6, <1>7, <1>8, <1>9, KeepsMarks

\* What tracing a marked cell does: at most the cell x it refers to is newly marked, and then it is queued.
Traced(o, rest, x) ==
  /\ x \in DOMAIN cells /\ Painted(x) /\ Live(x)
  /\ stack' \in Seq(Nat) /\ overflow' \in {0, 1}
  /\ \A p : OnStack(stack', p) => p \in DOMAIN cells' /\ cells'[p].mark = 1
  /\ \A p : OnStack(rest, p) => OnStack(stack', p)
  /\ overflow = 1 => overflow' = 1
  /\ cells[x].mark = 1 \/ overflow' = 1 \/ OnStack(stack', x)
  /\ Refers(o) => NextMarked(ref[o])

\* mark_trace of a marked cell leaves its reference marked.
LEMMA TraceKeeps ==
  ASSUME Reach, HeapInv, phase \in Marking, NEW o \in DOMAIN cells, cells[o].mark = 1, NEW rest \in Seq(Nat),
         \A p : OnStack(rest, p) => p \in DOMAIN cells /\ cells[p].mark = 1, mark_trace(o, rest)
  PROVE  \E x : Traced(o, rest, x)
  <1>i. HeapTypeOK /\ CellsHold /\ RefsHold /\ MarksHold /\ overflow \in {0, 1}
    BY DEF HeapInv, HeapTypeOK
  <1>1. CASE Refers(o)
    <2>1. PICK x \in DOMAIN cells : Points(ref[o], x) /\ Live(x)
      BY <1>1, <1>i DEF RefsHold, ToLive, Marking
    <2>2. Painted(x) /\ Queued(x, rest)
      BY <2>1, <1>1, <1>i, PushQueues DEF mark_trace, Refers
    <2>3. NextMarked(ref[o]) /\ x \in Nat
      BY <2>1, <2>2, <1>i, PaintedKeeps, CellFacts
    <2>4. /\ \A p : OnStack(stack', p) => p \in DOMAIN cells' /\ cells'[p].mark = 1
          /\ \A p : OnStack(rest, p) => OnStack(stack', p)
          /\ overflow = 1 => overflow' = 1
          /\ cells[x].mark = 1 \/ overflow' = 1 \/ OnStack(stack', x)
      BY <2>2, <2>3, <1>i, QueuedKeeps
    <2>5. stack' \in Seq(Nat) /\ overflow' \in {0, 1}
      BY <2>2 DEF Queued
    <2>6. QED
      BY <2>1, <2>2, <2>3, <2>4, <2>5 DEF Traced
  <1>2. CASE ~Refers(o)
    <2>1. stack' = rest /\ cells' = cells /\ overflow' = overflow
      BY <1>2 DEF mark_trace, Refers
    <2>2. Painted(o)
      BY <2>1, <1>i DEF Painted, HeapTypeOK, CellRecs
    <2>3. Live(o)
      BY <1>i DEF MarksHold
    <2>4. QED
      BY <2>1, <2>2, <2>3, <1>2, <1>i DEF Traced
  <1>3. QED
    BY <1>1, <1>2

\* The popped cell needs no place on the stack: its reference is marked.
LEMMA Keeps_Drain ==
  ASSUME Reach, HeapInv, Drain
  PROVE  HeapInv'
  <1>i. HeapTypeOK /\ CellsHold /\ RefsHold /\ MarksHold
    BY DEF HeapInv
  <1> DEFINE o == stack[Len(stack)]   rest == SubSeq(stack, 1, Len(stack) - 1)
  <1>1. /\ phase \in {"drain", "rescan"} /\ phase \in Marking /\ stack \in Seq(Nat) /\ stack # << >> /\ todo = {}
        /\ UNCHANGED <<ref, cursor, owner, rfree, wk, at, held, phase, gcw, sweepR, swept, scanAt, todo>>
        /\ overflow \in {0, 1} /\ scanAt \in Nat /\ mark_trace(o, rest)
    BY <1>i DEF Drain, HeapTypeOK, Marking
  <1>2. Len(stack) \in Nat \ {0}
    BY <1>1, EmptySeq
  <1>3. /\ rest \in Seq(Nat) /\ Len(rest) = Len(stack) - 1
        /\ \A i \in 1 .. Len(stack) - 1 : rest[i] = stack[i]
    <2> DEFINE k == Len(stack) - 1
    <2>0. k \in Nat
      BY <1>2
    <2>2. \A i \in 1 .. k : stack[i] \in Nat /\ i \in Nat /\ 1 + i - 1 = i
      BY <1>1, <1>2
    <2> HIDE DEF k
    <2>1. k \in Int /\ 1 \in Int /\ (1 <= k => k - 1 + 1 = k) /\ (~(1 <= k) => k = 0) /\ k - 1 + 1 = k
      BY <2>0
    <2>3. /\ SubSeq(stack, 1, k) \in Seq(Nat)
          /\ Len(SubSeq(stack, 1, k)) = IF 1 <= k THEN k - 1 + 1 ELSE 0
          /\ \A i \in 1 .. k - 1 + 1 : SubSeq(stack, 1, k)[i] = stack[1 + i - 1]
      BY <2>1, <2>2, SubSeqProperties
    <2>4. rest = SubSeq(stack, 1, k)
      BY DEF k
    <2> HIDE DEF rest
    <2>5. rest \in Seq(Nat) /\ Len(rest) = k /\ \A i \in 1 .. k : rest[i] = stack[i]
      BY <2>1, <2>2, <2>3, <2>4
    <2>6. QED
      BY <2>5 DEF k
  <1>4. Len(stack) \in 1 .. Len(stack) /\ \A i \in 1 .. Len(stack) : i = Len(stack) \/ i \in 1 .. Len(stack) - 1
    BY <1>2
  <1>w. \A i \in 1 .. Len(stack) - 1 : i \in 1 .. Len(stack)
    BY <1>2
  <1> HIDE DEF rest
  <1>5. OnStack(stack, o) /\ \A p : OnStack(stack, p) <=> p = o \/ OnStack(rest, p)
    BY <1>3, <1>4, <1>w DEF OnStack
  <1> HIDE DEF o
  <1>6. o \in DOMAIN cells /\ cells[o].mark = 1 /\ \A p : OnStack(rest, p) => p \in DOMAIN cells /\ cells[p].mark = 1
    BY <1>5, <1>1, <1>i, StackMarked
  <1>7. PICK x : Traced(o, rest, x)
    BY <1>1, <1>3, <1>6, TraceKeeps
  <1>8. \A wd : ToMarked(wd) => NextMarked(wd)
    BY <1>7, PaintedKeeps DEF Traced
  <1>9. \A wd \in held : wd \in todo' \/ NextMarked(wd)
    BY <1>1, <1>8, <1>i DEF MarksHold
  <1>10. ASSUME NEW p \in DOMAIN cells, cells'[p].mark = 1, Refers(p)
        PROVE  NextMarked(ref[p]) \/ overflow' = 1 \/ (phase = "rescan" /\ p >= scanAt') \/ OnStack(stack', p)
    <2>1. cells[p].mark = 1 \/ p = x
      BY <1>10, <1>7 DEF Painted, Traced
    <2>2. CASE cells[p].mark = 1
      <3>1. ToMarked(ref[p]) \/ overflow = 1 \/ (phase = "rescan" /\ p >= scanAt) \/ p = o \/ OnStack(rest, p)
        BY <2>2, <1>10, <1>1, <1>5, <1>i, StackMarked
      <3>2. QED
        BY <3>1, <1>10, <1>7, <1>8, <1>1 DEF Traced
    <2>3. CASE cells[p].mark # 1 /\ p = x
      BY <2>3, <1>7 DEF Traced
    <2>4. QED
      BY <2>1, <2>2, <2>3
  <1>11. QED
    BY <1>1, <1>7, <1>9, <1>10, KeepsMarks DEF Traced

\* The cell passed by the rescan has its reference marked, and no cell lies between.
LEMMA Keeps_RescanCell ==
  ASSUME Reach, HeapInv, RescanCell
  PROVE  HeapInv'
  <1>i. HeapTypeOK /\ CellsHold /\ RefsHold /\ MarksHold
    BY DEF HeapInv
  <1> DEFINE rest == {x \in DOMAIN cells : x >= scanAt}   o == Min(rest)
  <1>1. /\ phase = "rescan" /\ phase \in Marking /\ stack \in Seq(Nat) /\ stack = << >> /\ todo = {}
        /\ UNCHANGED <<ref, cursor, owner, rfree, wk, at, held, phase, gcw, sweepR, swept, todo>>
        /\ overflow \in {0, 1} /\ scanAt \in Nat /\ scanAt' = o + 1 /\ rest # {}
        /\ IF cells[o].mark = 1 THEN mark_trace(o, stack) ELSE UNCHANGED <<cells, stack, overflow>>
    BY <1>i DEF RescanCell, HeapTypeOK, Marking
  <1>2. o \in DOMAIN cells /\ o \in Nat /\ \A p \in DOMAIN cells : p >= scanAt => p >= o
    <2>1. rest \subseteq Nat
      BY <1>i DEF HeapTypeOK
    <2>2. \E m \in rest : \A k \in rest : m <= k
      BY <2>1, <1>1, LeastNat
    <2>3. Min(rest) \in rest /\ \A k \in rest : Min(rest) <= k
      BY <2>2, Zenon DEF Min
    <2>4. \A p \in DOMAIN cells : p >= scanAt => p >= o
      BY <2>1, <2>3
    <2>5. QED
      BY <2>1, <2>3, <2>4
  <1> HIDE DEF o
  <1>3. \A p \in DOMAIN cells : p >= scanAt /\ p # o => p >= o + 1
    BY <1>2, <1>i DEF HeapTypeOK
  <1>e. \A p : ~OnStack(stack, p)
    BY <1>1 DEF OnStack
  <1>4. CASE cells[o].mark = 1
    <2>1. PICK x : Traced(o, stack, x)
      BY <1>4, <1>1, <1>2, <1>e, TraceKeeps
    <2>2. \A wd : ToMarked(wd) => NextMarked(wd)
      BY <2>1, PaintedKeeps DEF Traced
    <2>3. \A wd \in held : wd \in todo' \/ NextMarked(wd)
      BY <1>1, <2>2, <1>i DEF MarksHold
    <2>4. ASSUME NEW p \in DOMAIN cells, cells'[p].mark = 1, Refers(p)
          PROVE  NextMarked(ref[p]) \/ overflow' = 1 \/ (phase = "rescan" /\ p >= scanAt') \/ OnStack(stack', p)
      <3>1. cells[p].mark = 1 \/ p = x
        BY <2>4, <2>1 DEF Painted, Traced
      <3>2. CASE cells[p].mark = 1
        <4>1. ToMarked(ref[p]) \/ overflow = 1 \/ (phase = "rescan" /\ p >= scanAt)
          BY <3>2, <2>4, <1>1, <1>e, <1>i, StackMarked
        <4>2. QED
          BY <4>1, <2>4, <2>1, <2>2, <1>1, <1>3 DEF Traced
      <3>3. CASE cells[p].mark # 1 /\ p = x
        BY <3>3, <2>1 DEF Traced
      <3>4. QED
        BY <3>1, <3>2, <3>3
    <2>5. scanAt' \in Nat
      BY <1>1, <1>2
    <2>6. QED
      BY <1>1, <2>1, <2>3, <2>4, <2>5, KeepsMarks DEF Traced
  <1>5. CASE cells[o].mark # 1
    <2>1. UNCHANGED <<cells, stack, overflow>>
      BY <1>1, <1>5
    <2>2. Painted(-1)
      <3>1. -1 \notin DOMAIN cells
        BY <1>i DEF HeapTypeOK
      <3>2. QED
        BY <2>1, <3>1, <1>i DEF Painted, HeapTypeOK, CellRecs
    <2>3. -1 \notin DOMAIN cells
      BY <1>i DEF HeapTypeOK
    <2>4. \A wd : ToMarked(wd) => NextMarked(wd)
      BY <2>2, PaintedKeeps
    <2>5. \A wd \in held : wd \in todo' \/ NextMarked(wd)
      BY <1>1, <2>4, <1>i DEF MarksHold
    <2>6. ASSUME NEW p \in DOMAIN cells, cells'[p].mark = 1, Refers(p)
          PROVE  NextMarked(ref[p]) \/ overflow' = 1 \/ (phase = "rescan" /\ p >= scanAt') \/ OnStack(stack', p)
      <3>1. ToMarked(ref[p]) \/ overflow = 1 \/ (phase = "rescan" /\ p >= scanAt)
        BY <2>1, <2>6, <1>1, <1>e, <1>i, StackMarked
      <3>2. p # o
        BY <2>1, <2>6, <1>5
      <3>3. QED
        BY <3>1, <3>2, <2>1, <2>4, <1>1, <1>3
    <2>7. scanAt' \in Nat /\ stack' \in Seq(Nat) /\ overflow' \in {0, 1}
      BY <1>1, <1>2, <2>1
    <2>8. \A p : OnStack(stack', p) => p \in DOMAIN cells' /\ cells'[p].mark = 1
      BY <2>1, <1>e
    <2>9. QED
      BY <1>1, <2>2, <2>3, <2>5, <2>6, <2>7, <2>8, KeepsMarks
  <1>6. QED
    BY <1>4, <1>5

WkRecs == [bump : Nat, limit : Nat, fl : [1 .. NClass -> Seq(Nat)]]

\* A step of the sweep keeps what it does not mention.
SweepFrame ==
  /\ phase = "sweep" /\ phase' = "sweep" /\ sweepR < jacl_region_hwm
  /\ UNCHANGED <<cursor, owner, at, held, gcw, todo, stack, overflow, scanAt>>

\* During a collection nobody is claiming regions.
LEMMA NoClaims ==
  ASSUME WorkersHold, phase \notin {"run", "trap"}, NEW w \in HWorkers, NEW x
  PROVE  ~HasClaim(w, x)
  BY DEF WorkersHold, WorkerOK, HasClaim

\* The regions r .. r + k - 1 hold only dead cells, wholly inside, and are handed back.
LEMMA KeepsRelease ==
  ASSUME HeapInv, SweepFrame, NEW k \in Nat \ {0}, sweepR >= 1, sweepR + k <= jacl_region_hwm,
         jacl_release_regions(sweepR, k), sweepR' = sweepR + k, swept' \in Int,
         \A o \in CellsIn(sweepR, k) : cells[o].mark = 0 /\ Hi(o) < sweepR + k
  PROVE  HeapInv'
  <1> DEFINE r == sweepR   gone == CellsIn(r, k)   run == r .. r + k - 1
  <1>i. HeapTypeOK /\ CellsHold /\ RegionsHold /\ WorkersHold /\ ListsHold /\ MarksHold /\ SweepHolds
    BY DEF HeapInv
  <1>r. r \in Nat /\ r >= 1 /\ r + k <= jacl_region_hwm /\ jacl_region_hwm \in Nat /\ jacl_region_hwm <= NRegions
        /\ NRegions \in Nat
    BY <1>i, Hwm, Consts DEF HeapTypeOK
  <1>k. r + k \in Nat /\ k \in Nat \ {0} /\ run \subseteq Nat /\ \A x \in Nat : x \in run <=> r <= x /\ x < r + k
    BY <1>r
  <1>h. jacl_region_hwm' = jacl_region_hwm
    BY DEF jacl_region_hwm, SweepFrame
  <1>a. /\ cells' = [x \in DOMAIN cells \ gone |-> cells[x]] /\ ref' = [x \in DOMAIN cells \ gone |-> ref[x]]
        /\ wk' = [w \in HWorkers |-> IF wk[w].limit > Base(r) /\ wk[w].limit <= Base(r + k)
                               THEN [wk[w] EXCEPT !.bump = 0, !.limit = 0] ELSE wk[w]]
        /\ rfree' = [x \in Regions |-> IF x \in run THEN 1 ELSE rfree[x]]
        /\ sweepR' = r + k
    <2>1. DOMAIN ref = DOMAIN cells
      BY <1>i DEF HeapTypeOK
    <2>2. QED
      BY <2>1 DEF jacl_release_regions, Without
  <1>d. /\ DOMAIN cells' = DOMAIN cells \ gone /\ \A o \in DOMAIN cells' : cells'[o] = cells[o] /\ ref'[o] = ref[o]
        /\ \A o \in DOMAIN cells' : o \in DOMAIN cells
    BY <1>a
  <1>e. \A o \in DOMAIN cells : o \in gone <=> RegionOf(o) \in run
    BY DEF CellsIn
  <1>f. \A o \in DOMAIN cells : RegionOf(o) \in Nat /\ Hi(o) \in Nat /\ RegionOf(o) <= Hi(o)
    BY <1>i, CellFacts
  <1>g. \A o \in gone : cells[o].mark = 0 /\ Hi(o) < r + k /\ RegionOf(o) \in run /\ o \in DOMAIN cells
    BY DEF CellsIn
  <1>v. sweepR = r
    OBVIOUS
  <1>y. sweepR' = r + k
    BY <1>a
  <1> HIDE DEF gone, run, r
  <1>s. \A o \in DOMAIN cells' : Hi(o)' = Hi(o)
    BY <1>d DEF Hi
  <1>t. \A o \in DOMAIN cells' : \A x : Touches(o, x)' <=> Touches(o, x)
    BY <1>s DEF Touches
  \* No remaining cell reaches into the run.
  <1>u. ASSUME NEW o \in DOMAIN cells', NEW x \in run PROVE ~Touches(o, x)
    <2>1. o \in DOMAIN cells /\ RegionOf(o) \notin run
      BY <1>d, <1>e
    <2>2. RegionOf(o) < r => Hi(o) < r
      BY <2>1, <1>v, <1>i DEF SweepHolds, SweepFrame
    <2>3. RegionOf(o) \in Nat /\ Hi(o) \in Nat /\ x \in Nat
      BY <2>1, <1>f, <1>k
    <2>4. QED
      BY <2>1, <2>2, <2>3, <1>r, <1>k DEF Touches
  <1>w. ASSUME NEW w \in HWorkers
        PROVE  /\ wk'[w] \in WkRecs /\ wk'[w].fl = wk[w].fl
               /\ \/ wk'[w].bump = 0 /\ wk'[w].limit = 0
                  \/ /\ wk'[w].bump = wk[w].bump /\ wk'[w].limit = wk[w].limit
                     /\ ~ (wk[w].limit > Base(r) /\ wk[w].limit <= Base(r + k))
    <2>1. wk[w] \in WkRecs
      BY <1>i DEF HeapTypeOK, WkRecs
    <2>2. wk'[w] = IF wk[w].limit > Base(r) /\ wk[w].limit <= Base(r + k)
                   THEN [wk[w] EXCEPT !.bump = 0, !.limit = 0] ELSE wk[w]
      BY <1>a
    <2>3. LET n == [wk[w] EXCEPT !.bump = 0, !.limit = 0] IN n \in WkRecs /\ n.fl = wk[w].fl /\ n.bump = 0 /\ n.limit = 0
      BY <2>1 DEF WkRecs
    <2>4. QED
      BY <2>1, <2>2, <2>3
  \* A bump area that is left was there before, outside the run.
  <1>b. ASSUME NEW w \in HWorkers, NEW x \in Regions, HasBump(w, x)'
        PROVE  HasBump(w, x) /\ x \notin run /\ wk'[w].bump = wk[w].bump
    <2>1. x \in Nat /\ Base(x) \in Nat /\ RegionG \in Nat \ {0} /\ Base(r) \in Nat /\ Base(r + k) \in Nat
      <3>1. x \in Nat /\ RegionG \in Nat \ {0}
        BY Consts
      <3>2. QED
        BY <3>1, BaseFacts, <1>r, <1>k
    <2>2. wk'[w].limit = Base(x) + RegionG
      BY <1>b DEF HasBump
    <2>3. /\ wk'[w].bump = wk[w].bump /\ wk'[w].limit = wk[w].limit
          /\ ~ (wk[w].limit > Base(r) /\ wk[w].limit <= Base(r + k))
      BY <2>1, <2>2, <1>w
    <2>4. ASSUME x \in run PROVE FALSE
      <3>1. r <= x /\ x < r + k
        BY <2>4, <2>1, <1>r, <1>k
      <3>2. Base(r) <= Base(x)
        BY <3>1, <2>1, <1>r, BaseFacts
      <3>3. Base(x) + RegionG <= Base(r + k)
        BY <3>1, <2>1, <1>r, BaseFacts
      <3>4. QED
        BY <3>2, <3>3, <2>1, <2>2, <2>3
    <2>5. QED
      BY <2>2, <2>3, <2>4 DEF HasBump
  <1>c. \A w \in HWorkers, x \in Regions : ~HasClaim(w, x)'
    <2>1. \A w \in HWorkers, x \in Regions : ~HasClaim(w, x)
      BY <1>i, NoClaims DEF SweepFrame
    <2>2. QED
      BY <2>1 DEF HasClaim, SweepFrame
  <1>1. HeapTypeOK'
    <2>1. cells' \in [DOMAIN cells' -> [size : Sizes, type : Types, mark : {0, 1}]] /\ DOMAIN cells' \subseteq Nat \ {0}
          /\ ref' \in [DOMAIN cells' -> Nat]
      BY <1>a, <1>d, <1>i DEF HeapTypeOK
    <2>2. wk' \in [HWorkers -> [bump : Nat, limit : Nat, fl : [1 .. NClass -> Seq(Nat)]]]
      BY <1>a, <1>w DEF WkRecs
    <2>3. rfree' \in [Regions -> {0, 1}] /\ sweepR' \in Nat
      <3>1. rfree \in [Regions -> {0, 1}]
        BY <1>i DEF HeapTypeOK
      <3>2. QED
        BY <3>1, <1>a, <1>k
    <2>4. QED
      BY <2>1, <2>2, <2>3, <1>i DEF HeapTypeOK, SweepFrame
  <1>2. CellsHold'
    BY <1>d, <1>s, <1>h, <1>i DEF CellsHold
  <1>3. RegionsHold'
    <2> SUFFICES ASSUME NEW x \in Regions PROVE FreeOK(x)' /\ ClaimOK(x)' /\ BumpOK(x)'
      BY DEF RegionsHold
    <2>0. FreeOK(x) /\ BumpOK(x) /\ x \in Nat
      BY <1>i, Consts DEF RegionsHold
    <2>1. FreeOK(x)'
      <3>1. CASE x \in run
        <4>1. x >= 1 /\ x < jacl_region_hwm
          BY <3>1, <1>r, <1>k
        <4>2. QED
          BY <4>1, <3>1, <1>u, <1>t, <1>b, <1>c, <1>h DEF FreeOK, Bare
      <3>2. CASE x \notin run
        <4>1. rfree'[x] = rfree[x]
          BY <3>2, <1>a
        <4>2. rfree[x] = 1 => Bare(x)
          BY <2>0 DEF FreeOK
        <4>3. Bare(x) => Bare(x)'
          BY <1>t, <1>d, <1>b, <1>h DEF Bare
        <4>4. QED
          BY <4>1, <4>2, <4>3, <1>c DEF FreeOK
      <3>3. QED
        BY <3>1, <3>2
    <2>2. ClaimOK(x)'
      BY <1>c DEF ClaimOK
    <2>3. BumpOK(x)'
      <3> SUFFICES ASSUME NEW w \in HWorkers, HasBump(w, x)'
                   PROVE  /\ x < jacl_region_hwm' /\ owner'[x] = w /\ Base(x) <= wk'[w].bump
                          /\ \A o \in DOMAIN cells' : Touches(o, x)' => cells'[o].size <= RegionG /\ o + cells'[o].size <= wk'[w].bump
        BY DEF BumpOK
      <3>1. HasBump(w, x) /\ wk'[w].bump = wk[w].bump
        BY <1>b
      <3>2. QED
        BY <3>1, <2>0, <1>h, <1>d, <1>t DEF BumpOK, SweepFrame
    <2>4. QED
      BY <2>1, <2>2, <2>3
  <1>4. WorkersHold'
    <2> SUFFICES ASSUME NEW w \in HWorkers PROVE WorkerOK(w)'
      BY DEF WorkersHold
    <2>1. at'[w].pc \in {"out", "full"}
      BY <1>i DEF WorkersHold, WorkerOK, SweepFrame
    <2>2. /\ wk'[w].bump <= wk'[w].limit
          /\ wk'[w].limit > 0 => wk'[w].bump > 0 /\ \E x \in Regions : HasBump(w, x)'
      BY <1>w, <1>i DEF WorkersHold, WorkerOK, HasBump
    <2>3. QED
      BY <2>1, <2>2 DEF WorkerOK
  <1>5. ListsHold'
    <2>1. ASSUME NEW o, NEW w, NEW c, InList(o, w, c) PROVE InList(o, w, c)'
      <3>1. o \in DOMAIN cells /\ RegionOf(o) < r
        BY <2>1, <1>v DEF InList, SweepFrame
      <3>2. RegionOf(o) \notin run /\ RegionOf(o) < r + k
        BY <3>1, <1>f, <1>r, <1>k
      <3>3. o \in DOMAIN cells'
        BY <3>1, <3>2, <1>d, <1>e
      <3>4. QED
        BY <2>1, <3>2, <3>3, <1>d, <1>a DEF InList, SweepFrame
    <2>2. QED
      BY <2>1, <1>w, <1>i DEF ListsHold
  <1>6. RefsHold' /\ MarksHold'
    BY <1>d, <1>i DEF RefsHold, MarksHold, SweepFrame, Live
  <1>7. SweepHolds'
    <2>1. \A o \in DOMAIN cells : cells[o].mark = 1 => o \in DOMAIN cells' /\ cells'[o] = cells[o]
      BY <1>d, <1>g
    <2>2. ASSUME NEW word, ToMarked(word) PROVE NextMarked(word)
      BY <2>1, <2>2 DEF ToMarked, NextMarked, Points, Cell
    <2>3. (\A word \in held : ToMarked(word))'
      <3>1. \A word \in held : NextMarked(word)
        BY <2>2, <1>i DEF SweepHolds, SweepFrame
      <3>2. QED
        BY <3>1 DEF NextMarked, ToMarked, Points, Cell, SweepFrame
    <2>4. (\A o \in DOMAIN cells : cells[o].mark = 1 /\ Refers(o) => ToMarked(ref[o]))'
      <3> SUFFICES ASSUME NEW o \in DOMAIN cells', cells'[o].mark = 1, Refers(o)' PROVE ToMarked(ref[o])'
        OBVIOUS
      <3>1. o \in DOMAIN cells /\ cells[o].mark = 1 /\ Refers(o) /\ ref'[o] = ref[o]
        BY <1>d DEF Refers
      <3>2. NextMarked(ref[o])
        BY <3>1, <2>2, <1>i DEF SweepHolds, SweepFrame
      <3>3. QED
        BY <3>1, <3>2 DEF NextMarked, ToMarked, Points, Cell
    <2>5. ASSUME NEW o \in DOMAIN cells', RegionOf(o) < sweepR' PROVE Hi(o)' < sweepR' /\ (Live(o)' => cells'[o].mark = 1)
      <3>1. o \in DOMAIN cells /\ RegionOf(o) \notin run /\ RegionOf(o) \in Nat /\ Hi(o) \in Nat
        BY <1>d, <1>e, <1>f
      <3>2. RegionOf(o) < r
        BY <3>1, <2>5, <1>y, <1>r, <1>k
      <3>3. Hi(o) < r /\ (Live(o) => cells[o].mark = 1)
        BY <3>1, <3>2, <1>v, <1>i DEF SweepHolds, SweepFrame
      <3>4. Hi(o) < r + k
        BY <3>1, <3>3, <1>r, <1>k
      <3>5. QED
        BY <3>3, <3>4, <1>a, <1>d, <1>s DEF Live
    <2>6. ASSUME NEW x \in Regions, x >= 1, x < sweepR', x < jacl_region_hwm'
          PROVE  rfree'[x] = 1 \/ \E o \in DOMAIN cells' : Touches(o, x)'
      <3>1. CASE x \in run
        BY <3>1, <1>a
      <3>2. CASE x \notin run
        <4>0. x \in Nat
          BY Consts
        <4>1. x \in Nat /\ x < r
          BY <4>0, <3>2, <2>6, <1>y, <1>r, <1>k
        <4>2. rfree[x] = 1 \/ \E o \in DOMAIN cells : Touches(o, x)
          BY <4>1, <2>6, <1>h, <1>v, <1>i DEF SweepHolds, SweepFrame
        <4>3. rfree'[x] = rfree[x]
          BY <3>2, <1>a
        <4>4. ASSUME NEW o \in DOMAIN cells, Touches(o, x) PROVE o \in DOMAIN cells'
          <5>1. RegionOf(o) \in Nat /\ RegionOf(o) <= x
            BY <4>4, <1>f DEF Touches
          <5>2. RegionOf(o) \notin run
            BY <5>1, <4>1, <1>r, <1>k
          <5>3. QED
            BY <5>2, <1>d, <1>e
        <4>5. QED
          BY <4>2, <4>3, <4>4, <1>t
      <3>3. QED
        BY <3>1, <3>2
    <2>7. QED
      BY <2>3, <2>4, <2>5, <2>6 DEF SweepHolds
  <1>8. QED
    BY <1>1, <1>2, <1>3, <1>4, <1>5, <1>6, <1>7 DEF HeapInv

\* A finite set of numbers has an element of every rank from the top.
LEMMA Ranked ==
  ASSUME NEW F \in SUBSET Nat, IsFiniteSet(F)
  PROVE  \A i \in 1 .. Cardinality(F) : \E o \in F : Cardinality({x \in F : x > o}) = i - 1
  <1> DEFINE above(o) == {x \in F : x > o}   n == Cardinality(F)   rank == [o \in F |-> Cardinality(above(o))]
             T == 0 .. n - 1
  <1>1. n \in Nat
    BY FS_CardinalityType
  <1>2. ASSUME NEW o \in F PROVE IsFiniteSet(above(o)) /\ Cardinality(above(o)) \in T
    <2>1. above(o) \in SUBSET F /\ above(o) # F
      OBVIOUS
    <2>2. IsFiniteSet(above(o)) /\ Cardinality(above(o)) <= n /\ (n = Cardinality(above(o)) => F = above(o))
      BY <2>1, FS_Subset
    <2>3. Cardinality(above(o)) \in Nat
      BY <2>2, FS_CardinalityType
    <2>4. QED
      BY <2>1, <2>2, <2>3, <1>1
  <1>3. ASSUME NEW o \in F, NEW p \in F, o < p PROVE Cardinality(above(p)) # Cardinality(above(o))
    <2>0. o \in Nat /\ p \in Nat /\ \A x \in F : x \in Nat
      OBVIOUS
    <2>a. p > o /\ ~(p > p) /\ \A x \in F : x > p => x > o
      BY <2>0, <1>3
    <2>1. above(p) \in SUBSET above(o) /\ p \in above(o) /\ p \notin above(p)
      BY <2>a
    <2>2. IsFiniteSet(above(o))
      BY <1>2
    <2>3. Cardinality(above(o)) = Cardinality(above(p)) => above(o) = above(p)
      BY <2>1, <2>2, FS_Subset
    <2>4. QED
      BY <2>1, <2>3
  <1> HIDE DEF above, n
  <1>4. rank \in Injection(F, T)
    <2>1. rank \in [F -> T]
      BY <1>2
    <2>2. ASSUME NEW o \in F, NEW p \in F, rank[o] = rank[p] PROVE o = p
      <3>1. o \in Nat /\ p \in Nat /\ Cardinality(above(o)) = Cardinality(above(p))
        BY <2>2
      <3>2. ~(o < p) /\ ~(p < o)
        BY <3>1, <1>3
      <3>3. QED
        BY <3>1, <3>2
    <2> HIDE DEF rank, T
    <2>3. QED
      BY <2>1, <2>2 DEF Injection, IsInjective
  <1>5. IsFiniteSet(T) /\ Cardinality(T) = n
    BY <1>1, FS_Interval
  <1>6. rank \in Surjection(F, T)
    <2> HIDE DEF rank, T
    <2>1. n = Cardinality(F)
      BY DEF n
    <2>2. QED
      BY <2>1, <1>4, <1>5, FS_Injection
  <1>7. ASSUME NEW i \in 1 .. n PROVE \E o \in F : Cardinality(above(o)) = i - 1
    <2>1. i - 1 \in T
      BY <1>1
    <2>2. \E o \in F : rank[o] = i - 1
      <3> HIDE DEF rank, T
      <3>1. QED
        BY <2>1, <1>6 DEF Surjection
    <2>3. QED
      BY <2>2
  <1>8. QED
    BY <1>7 DEF n, above

\* The elements of F in falling order, in front of l.
Falling(F, l) == [i \in 1 .. Cardinality(F) |-> CHOOSE o \in F : Cardinality({x \in F : x > o}) = i - 1] \o l

\* The new part of a free list: each free cell once, in falling order.
LEMMA FallingList ==
  ASSUME NEW F \in SUBSET Nat, IsFiniteSet(F), NEW l \in Seq(Nat), \A i, j \in 1 .. Len(l) : l[i] = l[j] => i = j,
         \A i \in 1 .. Len(l) : l[i] \notin F
  PROVE  LET s == Falling(F, l)
         IN /\ s \in Seq(Nat)
            /\ \A i \in 1 .. Len(s) : s[i] \in F \/ \E j \in 1 .. Len(l) : s[i] = l[j]
            /\ \A i, j \in 1 .. Len(s) : s[i] = s[j] => i = j
  <1> DEFINE n == Cardinality(F)   top(o) == Cardinality({x \in F : x > o})
             f == [i \in 1 .. n |-> CHOOSE o \in F : top(o) = i - 1]
             s == f \o l
  <1>1. n \in Nat
    BY FS_CardinalityType
  <1>2. \A i \in 1 .. n : \E o \in F : top(o) = i - 1
    BY Ranked
  <1> HIDE DEF n, top
  <1>3. \A i \in 1 .. n : f[i] \in F /\ top(f[i]) = i - 1
    BY <1>2
  <1>4. f \in Seq(Nat) /\ Len(f) = n
    <2>1. f \in [1 .. n -> Nat]
      BY <1>3
    <2> HIDE DEF f
    <2>2. f \in Seq(Nat)
      BY <2>1, <1>1
    <2>3. QED
      BY <2>1, <2>2, <1>1, LenProperties
  <1>5. \A i, j \in 1 .. n : f[i] = f[j] => i = j
    <2> SUFFICES ASSUME NEW i \in 1 .. n, NEW j \in 1 .. n, f[i] = f[j] PROVE i = j
      OBVIOUS
    <2>1. i - 1 = j - 1
      BY <1>3
    <2>2. QED
      BY <2>1, <1>1
  <1> HIDE DEF f
  <1>6. Len(l) \in Nat
    OBVIOUS
  <1>7. /\ s \in Seq(Nat) /\ Len(s) = n + Len(l)
        /\ \A i \in 1 .. n : s[i] = f[i]
        /\ \A i \in 1 .. n + Len(l) : i > n => s[i] = l[i - n]
    <2>1. /\ s \in Seq(Nat) /\ Len(s) = Len(f) + Len(l)
          /\ \A i \in 1 .. Len(f) + Len(l) : s[i] = IF i <= Len(f) THEN f[i] ELSE l[i - Len(f)]
      BY <1>4, ConcatProperties
    <2> HIDE DEF s
    <2>2. QED
      BY <2>1, <1>1, <1>4, <1>6
  <1> HIDE DEF s
  <1>8. \A i \in 1 .. Len(s) : i \in 1 .. n \/ (i > n /\ i - n \in 1 .. Len(l))
    BY <1>1, <1>6, <1>7
  <1>9. \A i \in 1 .. Len(s) : s[i] \in F \/ \E j \in 1 .. Len(l) : s[i] = l[j]
    BY <1>3, <1>7, <1>8
  <1>10. ASSUME NEW i \in 1 .. Len(s), NEW j \in 1 .. Len(s), s[i] = s[j] PROVE i = j
    <2>1. CASE i \in 1 .. n /\ j \in 1 .. n
      BY <2>1, <1>5, <1>7, <1>10
    <2>2. CASE i > n /\ i - n \in 1 .. Len(l) /\ j > n /\ j - n \in 1 .. Len(l)
      <3>1. l[i - n] = l[j - n]
        BY <2>2, <1>7, <1>10
      <3>2. i - n = j - n
        BY <2>2, <3>1
      <3>3. QED
        BY <3>2, <1>1, <1>6, <1>7
    <2>3. CASE i \in 1 .. n /\ j > n /\ j - n \in 1 .. Len(l)
      BY <2>3, <1>3, <1>7, <1>10
    <2>4. CASE j \in 1 .. n /\ i > n /\ i - n \in 1 .. Len(l)
      BY <2>4, <1>3, <1>7, <1>10
    <2>5. QED
      BY <2>1, <2>2, <2>3, <2>4, <1>8
  <1>11. s = Falling(F, l)
    BY DEF s, f, n, top, Falling
  <1>12. QED
    BY <1>7, <1>9, <1>10, <1>11

\* The sweep passes k regions whose live cells are all marked.
LEMMA KeepsSkip ==
  ASSUME HeapInv, SweepFrame, UNCHANGED <<cells, ref, rfree, wk, swept>>, NEW k \in Nat \ {0}, sweepR' = sweepR + k,
         \A o \in DOMAIN cells : sweepR <= RegionOf(o) /\ RegionOf(o) < sweepR + k =>
            Hi(o) < sweepR + k /\ (Live(o) => cells[o].mark = 1),
         \A x \in Regions : sweepR <= x /\ x < sweepR + k => rfree[x] = 1 \/ \E o \in DOMAIN cells : Touches(o, x)
  PROVE  HeapInv'
  <1>i. HeapTypeOK /\ CellsHold /\ RegionsHold /\ WorkersHold /\ ListsHold /\ MarksHold /\ SweepHolds
    BY DEF HeapInv
  <1>r. sweepR \in Nat
    BY <1>i DEF HeapTypeOK
  <1>1. HeapTypeOK'
    <2>1. sweepR' \in Nat
      BY <1>r
    <2>2. QED
      BY <2>1, <1>i DEF HeapTypeOK, SweepFrame
  <1>2. SameCells /\ SameAreas /\ SameClaims
    BY DEF SameCells, SameAreas, SameClaims, HasClaim, SweepFrame
  <1>3. CellsHold' /\ RegionsHold'
    BY <1>2, <1>i, KeepsCells, KeepsRegions
  <1>4. WorkersHold'
    BY <1>2, <1>i, KeepsWorker DEF WorkersHold, SweepFrame
  <1>f. \A o \in DOMAIN cells : RegionOf(o) \in Nat /\ Hi(o) \in Nat
    BY <1>i, CellFacts
  <1>5. ListsHold'
    <2>1. ASSUME NEW o, NEW w, NEW c, InList(o, w, c) PROVE InList(o, w, c)'
      <3>1. o \in DOMAIN cells /\ RegionOf(o) < sweepR
        BY <2>1 DEF InList, SweepFrame
      <3>2. RegionOf(o) < sweepR + k
        BY <3>1, <1>f, <1>r
      <3>3. QED
        BY <2>1, <3>2 DEF InList, SweepFrame
    <2>2. QED
      BY <2>1, <1>i DEF ListsHold
  <1>6. RefsHold' /\ MarksHold'
    BY <1>i DEF RefsHold, MarksHold, SweepFrame, Live
  <1>7. SweepHolds'
    <2>1. \A word : ToMarked(word)' <=> ToMarked(word)
      BY DEF ToMarked, Points, Cell
    <2>2. /\ \A o \in DOMAIN cells : Hi(o)' = Hi(o)
          /\ \A o \in DOMAIN cells : \A x : Touches(o, x)' <=> Touches(o, x)
          /\ jacl_region_hwm' = jacl_region_hwm
      BY <1>2, KeepsCells
    <2>3. ASSUME NEW o \in DOMAIN cells, RegionOf(o) < sweepR + k
          PROVE  Hi(o) < sweepR + k /\ (Live(o) => cells[o].mark = 1)
      <3>1. CASE RegionOf(o) < sweepR
        <4>1. Hi(o) < sweepR /\ (Live(o) => cells[o].mark = 1)
          BY <3>1, <1>i DEF SweepHolds, SweepFrame
        <4>2. QED
          BY <4>1, <1>f, <1>r
      <3>2. CASE sweepR <= RegionOf(o)
        BY <3>2, <2>3
      <3>3. QED
        BY <3>1, <3>2, <1>f, <1>r
    <2>4. ASSUME NEW x \in Regions, x >= 1, x < sweepR + k, x < jacl_region_hwm
          PROVE  rfree[x] = 1 \/ \E o \in DOMAIN cells : Touches(o, x)
      <3>1. CASE x < sweepR
        BY <3>1, <2>4, <1>i DEF SweepHolds, SweepFrame
      <3>2. CASE sweepR <= x
        BY <3>2, <2>4
      <3>3. x \in Nat
        BY Consts
      <3>4. QED
        BY <3>1, <3>2, <3>3, <1>r
    <2>5. \A word \in held : ToMarked(word)
      BY <1>i DEF SweepHolds, SweepFrame
    <2>6. \A o \in DOMAIN cells : cells[o].mark = 1 /\ Refers(o) => ToMarked(ref[o])
      BY <1>i DEF SweepHolds, SweepFrame
    <2>7. (\A word \in held : ToMarked(word))'
      BY <2>1, <2>5 DEF SweepFrame
    <2>8. (\A o \in DOMAIN cells : cells[o].mark = 1 /\ Refers(o) => ToMarked(ref[o]))'
      BY <2>1, <2>6 DEF Refers
    <2>9. (\A o \in DOMAIN cells : RegionOf(o) < sweepR => Hi(o) < sweepR /\ (Live(o) => cells[o].mark = 1))'
      BY <2>2, <2>3 DEF Live
    <2>10. (\A x \in Regions : x >= 1 /\ x < sweepR /\ x < jacl_region_hwm =>
             rfree[x] = 1 \/ \E o \in DOMAIN cells : Touches(o, x))'
      BY <2>2, <2>4
    <2>11. QED
      BY <2>7, <2>8, <2>9, <2>10 DEF SweepHolds
  <1>8. QED
    BY <1>1, <1>3, <1>4, <1>5, <1>6, <1>7 DEF HeapInv

\* A cell whose region is r and which is not a large cell at r's base stays inside r.
LEMMA SmallInside ==
  ASSUME HeapTypeOK, CellsHold, NEW o \in DOMAIN cells, ~ (o = Base(RegionOf(o)) /\ cells[o].size > RegionG)
  PROVE  Hi(o) = RegionOf(o)
  <1>1. cells[o].size \in Nat \ {0} /\ RegionOf(o) \in Nat /\ RegionG \in Nat
    BY CellFacts, Consts
  <1>2. cells[o].size <= RegionG
    BY <1>1 DEF CellsHold
  <1>3. Span(cells[o].size) = 1
    BY <1>1, <1>2, SpanFacts
  <1>4. QED
    BY <1>1, <1>3 DEF Hi

\* A large cell is alone in the regions it covers.
LEMMA LargeAlone ==
  ASSUME HeapTypeOK, CellsHold, NEW h \in DOMAIN cells, cells[h].size > RegionG, NEW o \in DOMAIN cells, o # h,
         RegionOf(h) <= RegionOf(o)
  PROVE  Hi(h) < RegionOf(o)
  <1>1. /\ h \in Nat /\ o \in Nat /\ RegionOf(h) \in Nat /\ RegionOf(o) \in Nat
        /\ Base(RegionOf(o)) <= o /\ h = Base(RegionOf(h)) /\ Base(RegionOf(o)) \in Nat
    BY CellFacts, BaseFacts DEF CellsHold
  <1>2. Base(RegionOf(h)) <= Base(RegionOf(o))
    <2>1. CASE RegionOf(h) = RegionOf(o)
      BY <2>1, <1>1
    <2>2. CASE RegionOf(h) < RegionOf(o)
      <3>1. Base(RegionOf(h)) + RegionG <= Base(RegionOf(o)) /\ Base(RegionOf(h)) \in Nat
        BY <2>2, <1>1, BaseFacts
      <3>2. QED
        BY <3>1, <1>1, Consts
    <2>3. QED
      BY <2>1, <2>2, <1>1
  <1>3. h < o
    BY <1>1, <1>2
  <1>4. QED
    BY <1>3 DEF CellsHold

\* The cells of a region are finitely many.
LEMMA RegionFinite ==
  ASSUME HeapTypeOK, CellsHold, NEW r \in Nat, NEW S, S \subseteq CellsIn(r, 1)
  PROVE  IsFiniteSet(S) /\ S \subseteq Nat
  <1>1. Base(r) \in Nat /\ RegionG \in Nat
    BY BaseFacts, Consts
  <1>2. ASSUME NEW o \in S PROVE o \in Nat /\ o <= Base(r) + RegionG
    <2>1. o \in DOMAIN cells /\ RegionOf(o) \in r .. r + 1 - 1
      BY DEF CellsIn
    <2>2. RegionOf(o) = r /\ o \in Nat
      BY <2>1, CellFacts
    <2>3. o < Base(RegionOf(o)) + RegionG
      BY <2>2, RegionFacts
    <2>4. QED
      BY <2>2, <2>3, <1>1
  <1>3. S \in SUBSET Nat /\ Base(r) + RegionG \in Nat
    BY <1>1, <1>2
  <1>4. IsFiniteSet(S)
    BY <1>2, <1>3, FS_BoundedSetOfNaturals
  <1>5. QED
    BY <1>3, <1>4

\* What InList says after the step.
NextListed(o, w, c) ==
  /\ o \in DOMAIN cells' /\ cells'[o].size = c /\ cells'[o].type = "free"
  /\ owner'[RegionOf(o)] = w /\ (phase' = "sweep" => RegionOf(o) < sweepR')

\* The cells of a region that stays: the dead ones become free and are listed.
LEMMA KeepsFree ==
  ASSUME HeapInv, SweepFrame, sweepR' = sweepR + 1, ref' = ref, rfree' = rfree,
         cells' = FreeDead(sweepR), swept' \in Int,
         wk' = [wk EXCEPT ![owner[sweepR]].fl =
                  [c \in 1 .. NClass |-> Listed(sweepR, c, wk[owner[sweepR]].fl[c], FreeDead(sweepR))]],
         \A o \in DOMAIN cells : RegionOf(o) = sweepR => Hi(o) = sweepR,
         sweepR >= 1 => \E o \in DOMAIN cells : RegionOf(o) = sweepR
  PROVE  HeapInv'
  <1> DEFINE r == sweepR   u == owner[r]
             fl == [c \in 1 .. NClass |-> Listed(r, c, wk[u].fl[c], FreeDead(r))]
  <1>i. HeapTypeOK /\ CellsHold /\ RegionsHold /\ WorkersHold /\ ListsHold /\ MarksHold /\ SweepHolds
    BY DEF HeapInv
  <1>r. r \in Nat /\ r \in Regions /\ u \in HWorkers
    <2>1. r \in Nat /\ jacl_region_hwm \in Nat /\ jacl_region_hwm <= NRegions /\ NRegions \in Nat
      BY <1>i, Hwm, Consts DEF HeapTypeOK
    <2>2. r \in Regions
      BY <2>1, Consts DEF SweepFrame
    <2>3. QED
      BY <2>1, <2>2, <1>i DEF HeapTypeOK
  <1>c. \A o \in DOMAIN cells : o \in CellsIn(r, 1) <=> RegionOf(o) = r
    <2>1. ASSUME NEW o \in DOMAIN cells PROVE o \in CellsIn(r, 1) <=> RegionOf(o) = r
      <3>1. RegionOf(o) \in Nat
        BY <1>i, CellFacts
      <3>2. RegionOf(o) \in r .. r + 1 - 1 <=> RegionOf(o) = r
        BY <3>1, <1>r
      <3>3. QED
        BY <3>2 DEF CellsIn
    <2>2. QED
      BY <2>1
  <1>d. /\ DOMAIN cells' = DOMAIN cells /\ cells' \in [DOMAIN cells -> CellRecs]
        /\ \A o \in DOMAIN cells : /\ cells'[o].size = cells[o].size /\ cells'[o].mark = cells[o].mark
                                   /\ cells'[o].type = IF RegionOf(o) = r /\ cells[o].mark = 0 THEN "free" ELSE cells[o].type
    <2>1. \A o \in DOMAIN cells : cells[o] \in CellRecs
      BY <1>i DEF HeapTypeOK, CellRecs
    <2>2. cells' = [o \in DOMAIN cells |-> IF RegionOf(o) = r /\ cells[o].mark = 0
                                       THEN [cells[o] EXCEPT !.type = "free"] ELSE cells[o]]
      BY <1>c DEF FreeDead
    <2>3. QED
      BY <2>1, <2>2 DEF CellRecs, Types
  <1> DEFINE free(c) == {o \in CellsIn(r, 1) : cells'[o].type = "free" /\ cells'[o].size = c}
  <1>e. \A c \in 1 .. NClass : fl[c] = Falling(free(c), wk[u].fl[c])
    <2> SUFFICES ASSUME NEW c \in 1 .. NClass PROVE fl[c] = Falling(free(c), wk[u].fl[c])
      OBVIOUS
    <2>1. fl[c] = Listed(r, c, wk[u].fl[c], cells')
      OBVIOUS
    <2> HIDE DEF fl
    <2>2. QED
      BY <2>1, Zenon DEF Listed, Falling
  <1>w. wk' = [wk EXCEPT ![u].fl = fl]
    OBVIOUS
  <1>q. \A w \in HWorkers, c \in 1 .. NClass : wk[w].fl[c] \in Seq(Nat)
    <2>1. \A w \in HWorkers : wk[w] \in WkRecs
      BY <1>i DEF HeapTypeOK, WkRecs
    <2>2. \A w \in HWorkers : wk[w].fl \in [1 .. NClass -> Seq(Nat)]
      BY <2>1 DEF WkRecs
    <2>3. QED
      BY <2>2
  <1>l. ASSUME NEW c \in 1 .. NClass
        PROVE  /\ fl[c] \in Seq(Nat)
               /\ \A i \in 1 .. Len(fl[c]) : fl[c][i] \in free(c) \/ \E j \in 1 .. Len(wk[u].fl[c]) : fl[c][i] = wk[u].fl[c][j]
               /\ \A i, j \in 1 .. Len(fl[c]) : fl[c][i] = fl[c][j] => i = j
    <2>1. free(c) \in SUBSET Nat /\ IsFiniteSet(free(c))
      BY <1>i, <1>r, RegionFinite
    <2>2. wk[u].fl[c] \in Seq(Nat)
      BY <1>q, <1>r
    <2>3. ASSUME NEW i \in 1 .. Len(wk[u].fl[c]) PROVE wk[u].fl[c][i] \notin free(c)
      <3>1. InList(wk[u].fl[c][i], u, c)
        BY <1>i, <1>r DEF ListsHold
      <3>2. wk[u].fl[c][i] \in DOMAIN cells /\ RegionOf(wk[u].fl[c][i]) # r
        BY <3>1, <1>r, <1>i, CellFacts DEF InList, SweepFrame
      <3>3. QED
        BY <3>2, <1>c
    <2>4. \A i, j \in 1 .. Len(wk[u].fl[c]) : wk[u].fl[c][i] = wk[u].fl[c][j] => i = j
      BY <1>i, <1>r DEF ListsHold
    <2>5. fl[c] = Falling(free(c), wk[u].fl[c])
      BY <1>e
    <2> DEFINE F == free(c)   l == wk[u].fl[c]   s == Falling(F, l)
    <2>6. /\ F \in SUBSET Nat /\ IsFiniteSet(F) /\ l \in Seq(Nat) /\ \A i \in 1 .. Len(l) : l[i] \notin F
          /\ \A i, j \in 1 .. Len(l) : l[i] = l[j] => i = j
      BY <2>1, <2>2, <2>3, <2>4
    <2> HIDE DEF F, l
    <2>7. /\ s \in Seq(Nat)
          /\ \A i \in 1 .. Len(s) : s[i] \in F \/ \E j \in 1 .. Len(l) : s[i] = l[j]
          /\ \A i, j \in 1 .. Len(s) : s[i] = s[j] => i = j
      BY <2>6, FallingList
    <2>8. s = fl[c]
      BY <2>5 DEF F, l
    <2> HIDE DEF s, fl, free
    <2>9. QED
      BY <2>7, <2>8 DEF F, l
  <1>g. \A c : \A o \in free(c) : o \in DOMAIN cells /\ RegionOf(o) = r /\ cells'[o].type = "free" /\ cells'[o].size = c
    BY <1>c DEF CellsIn
  <1> HIDE DEF fl, free
  <1>t. fl \in [1 .. NClass -> Seq(Nat)]
    <2>1. \A c \in 1 .. NClass : fl[c] \in Seq(Nat)
      BY <1>l
    <2>2. fl = [c \in 1 .. NClass |-> fl[c]]
      BY DEF fl
    <2>3. QED
      BY <2>1, <2>2
  <1>k. /\ wk' \in [HWorkers -> WkRecs]
        /\ \A w \in HWorkers : /\ wk'[w].bump = wk[w].bump /\ wk'[w].limit = wk[w].limit
                               /\ wk'[w].fl = IF w = u THEN fl ELSE wk[w].fl
    <2>1. wk \in [HWorkers -> WkRecs]
      BY <1>i DEF HeapTypeOK, WkRecs
    <2> DEFINE new == [wk[u] EXCEPT !.fl = fl]
    <2>2. wk[u] \in WkRecs
      BY <2>1, <1>r
    <2> HIDE DEF u
    <2>3. new \in WkRecs /\ new.bump = wk[u].bump /\ new.limit = wk[u].limit /\ new.fl = fl
      BY <2>2, <1>t DEF WkRecs
    <2>4. wk' = [wk EXCEPT ![u] = new]
      BY <1>w, <2>1
    <2> HIDE DEF new
    <2>5. QED
      BY <2>1, <2>3, <2>4, <1>r
  <1> HIDE DEF u
  <1>1. HeapTypeOK'
    <2>1. sweepR' \in Nat
      BY <1>r
    <2>2. cells' \in [DOMAIN cells' -> CellRecs] /\ ref' \in [DOMAIN cells' -> Nat] /\ DOMAIN cells' \subseteq Nat \ {0}
      BY <1>d, <1>i DEF HeapTypeOK
    <2>3. QED
      BY <2>1, <2>2, <1>k, <1>i DEF HeapTypeOK, SweepFrame, CellRecs, WkRecs
  <1>2. SameCells /\ SameAreas /\ SameClaims
    BY <1>d, <1>k DEF SameCells, SameAreas, SameClaims, HasClaim, SweepFrame
  <1>3. CellsHold' /\ RegionsHold'
    BY <1>2, <1>i, KeepsCells, KeepsRegions
  <1>4. WorkersHold'
    BY <1>2, <1>i, KeepsWorker DEF WorkersHold, SweepFrame
  <1>f. \A o \in DOMAIN cells : RegionOf(o) \in Nat /\ Hi(o) \in Nat
    BY <1>i, CellFacts
  <1>5. ListsHold'
    <2>1. ASSUME NEW o, NEW w, NEW c, InList(o, w, c) PROVE NextListed(o, w, c)
      <3>1. o \in DOMAIN cells /\ RegionOf(o) < r /\ cells[o].type = "free" /\ cells[o].size = c /\ owner[RegionOf(o)] = w
        BY <2>1 DEF InList, SweepFrame
      <3>2. RegionOf(o) < r + 1 /\ cells'[o].type = "free" /\ cells'[o].size = c
        BY <3>1, <1>f, <1>r, <1>d
      <3>3. QED
        BY <3>1, <3>2, <1>d DEF NextListed, SweepFrame
    <2>2. ASSUME NEW c, NEW o \in free(c) PROVE NextListed(o, u, c)
      <3>1. o \in DOMAIN cells' /\ RegionOf(o) = r /\ cells'[o].type = "free" /\ cells'[o].size = c
        BY <1>g, <1>d
      <3>2. r < r + 1 /\ owner'[r] = u
        BY <1>r DEF u, SweepFrame
      <3>3. QED
        BY <3>1, <3>2 DEF NextListed
    <2>3. ASSUME NEW w \in HWorkers, NEW c \in 1 .. NClass
          PROVE  /\ \A i \in 1 .. Len(wk'[w].fl[c]) : NextListed(wk'[w].fl[c][i], w, c)
                 /\ \A i, j \in 1 .. Len(wk'[w].fl[c]) : wk'[w].fl[c][i] = wk'[w].fl[c][j] => i = j
      <3>0. /\ \A i \in 1 .. Len(wk[w].fl[c]) : InList(wk[w].fl[c][i], w, c)
            /\ \A i, j \in 1 .. Len(wk[w].fl[c]) : wk[w].fl[c][i] = wk[w].fl[c][j] => i = j
        BY <1>i DEF ListsHold
      <3>1. CASE w # u
        <4>1. wk'[w].fl = wk[w].fl
          BY <3>1, <1>k
        <4>2. QED
          BY <4>1, <3>0, <2>1
      <3>2. CASE w = u
        <4>1. wk'[w].fl = fl
          BY <3>2, <1>k
        <4>2. ASSUME NEW i \in 1 .. Len(fl[c]) PROVE NextListed(fl[c][i], w, c)
          <5>1. fl[c][i] \in free(c) \/ \E j \in 1 .. Len(wk[u].fl[c]) : fl[c][i] = wk[u].fl[c][j]
            BY <1>l
          <5>2. QED
            BY <5>1, <2>1, <2>2, <3>0, <3>2
        <4>3. \A i, j \in 1 .. Len(fl[c]) : fl[c][i] = fl[c][j] => i = j
          BY <1>l
        <4>4. wk'[w].fl[c] = fl[c]
          BY <4>1
        <4>5. QED
          BY <4>2, <4>3, <4>4
      <3>3. QED
        BY <3>1, <3>2
    <2>4. QED
      BY <2>3 DEF ListsHold, InList, NextListed
  <1>6. RefsHold' /\ MarksHold'
    BY <1>i, <1>d DEF RefsHold, MarksHold, SweepFrame, Live
  <1>7. SweepHolds'
    <2>1. \A word : ToMarked(word)' <=> ToMarked(word)
      BY <1>d DEF ToMarked, Points, Cell
    <2>2. /\ \A o \in DOMAIN cells : Hi(o)' = Hi(o)
          /\ \A o \in DOMAIN cells : \A x : Touches(o, x)' <=> Touches(o, x)
          /\ jacl_region_hwm' = jacl_region_hwm
      BY <1>2, KeepsCells
    <2>3. ASSUME NEW o \in DOMAIN cells, RegionOf(o) < r + 1
          PROVE  Hi(o) < r + 1 /\ (cells'[o].type # "free" => cells'[o].mark = 1)
      <3>1. CASE RegionOf(o) < r
        <4>1. Hi(o) < r /\ (Live(o) => cells[o].mark = 1)
          BY <3>1, <1>i DEF SweepHolds, SweepFrame
        <4>2. cells'[o].type = cells[o].type /\ cells'[o].mark = cells[o].mark
          BY <3>1, <1>d, <1>f, <1>r
        <4>3. QED
          BY <4>1, <4>2, <1>f, <1>r DEF Live
      <3>2. CASE RegionOf(o) = r
        <4>1. Hi(o) = r /\ cells[o].mark \in {0, 1}
          BY <3>2, <1>i, CellFacts
        <4>2. QED
          BY <4>1, <3>2, <1>d, <1>r
      <3>3. QED
        BY <3>1, <3>2, <2>3, <1>f, <1>r
    <2>4. ASSUME NEW x \in Regions, x >= 1, x < r + 1, x < jacl_region_hwm
          PROVE  rfree[x] = 1 \/ \E o \in DOMAIN cells : Touches(o, x)
      <3>0. x \in Nat
        BY Consts
      <3>1. CASE x < r
        BY <3>1, <2>4, <1>i DEF SweepHolds, SweepFrame
      <3>2. CASE x = r
        <4>1. PICK o \in DOMAIN cells : RegionOf(o) = r
          BY <3>2, <2>4
        <4>2. Touches(o, x)
          BY <4>1, <3>0, <3>2 DEF Touches
        <4>3. QED
          BY <4>2
      <3>3. QED
        BY <3>0, <3>1, <3>2, <2>4, <1>r
    <2>5. \A word \in held : ToMarked(word)
      BY <1>i DEF SweepHolds, SweepFrame
    <2>6. \A o \in DOMAIN cells : cells[o].mark = 1 /\ Refers(o) => ToMarked(ref[o])
      BY <1>i DEF SweepHolds, SweepFrame
    <2>7. (\A word \in held : ToMarked(word))'
      BY <2>1, <2>5 DEF SweepFrame
    <2>8. (\A o \in DOMAIN cells : cells[o].mark = 1 /\ Refers(o) => ToMarked(ref[o]))'
      BY <2>1, <2>6, <1>d DEF Refers
    <2>9. (\A o \in DOMAIN cells : RegionOf(o) < sweepR => Hi(o) < sweepR /\ (Live(o) => cells[o].mark = 1))'
      BY <2>2, <2>3, <1>d DEF Live
    <2>10. (\A x \in Regions : x >= 1 /\ x < sweepR /\ x < jacl_region_hwm =>
             rfree[x] = 1 \/ \E o \in DOMAIN cells : Touches(o, x))'
      BY <2>2, <2>4, <1>d
    <2>11. QED
      BY <2>7, <2>8, <2>9, <2>10 DEF SweepHolds
  <1>8. QED
    BY <1>1, <1>3, <1>4, <1>5, <1>6, <1>7 DEF HeapInv

\* One region of the sweep: passed over, released, or its dead cells listed.
LEMMA Keeps_SweepRegion ==
  ASSUME HeapInv, SweepRegion
  PROVE  HeapInv'
  <1> DEFINE r == sweepR   head == Base(r)
             dead == {o \in CellsIn(r, 1) : Live(o) /\ cells[o].mark = 0}
             kept == {o \in CellsIn(r, 1) : Live(o) /\ cells[o].mark = 1}
  <1>i. HeapTypeOK /\ CellsHold /\ RegionsHold /\ MarksHold /\ SweepHolds /\ swept \in Int
    BY DEF HeapInv, HeapTypeOK
  <1>s. SweepFrame
    BY DEF SweepRegion, SweepFrame
  <1>r. r \in Nat /\ r \in Regions /\ rfree[r] \in {0, 1} /\ r < jacl_region_hwm /\ jacl_region_hwm \in Nat /\ jacl_region_hwm <= NRegions
    <2>1. r \in Nat /\ jacl_region_hwm \in Nat /\ jacl_region_hwm <= NRegions /\ NRegions \in Nat /\ r < jacl_region_hwm
      BY <1>i, <1>s, Hwm, Consts DEF HeapTypeOK, SweepFrame
    <2>2. r \in Regions
      BY <2>1, Consts
    <2>3. QED
      BY <2>1, <2>2, <1>i DEF HeapTypeOK
  <1>f. \A o \in DOMAIN cells : RegionOf(o) \in Nat /\ Hi(o) \in Nat /\ RegionOf(o) <= Hi(o)
    BY <1>i, CellFacts
  <1>c. \A o \in DOMAIN cells : o \in CellsIn(r, 1) <=> RegionOf(o) = r
    <2>1. ASSUME NEW o \in DOMAIN cells PROVE o \in CellsIn(r, 1) <=> RegionOf(o) = r
      <3>2. RegionOf(o) \in r .. r + 1 - 1 <=> RegionOf(o) = r
        BY <1>f, <1>r
      <3>3. QED
        BY <3>2 DEF CellsIn
    <2>2. QED
      BY <2>1
  <1>h. head \in DOMAIN cells => RegionOf(head) = r /\ r >= 1
    <2>1. head \in Nat /\ head <= head /\ head < head + RegionG
      <3>1. head \in Nat /\ RegionG \in Nat \ {0}
        BY <1>r, BaseFacts, Consts
      <3> HIDE DEF head
      <3>2. QED
        BY <3>1
    <2>2. RegionOf(head) = r
      BY <2>1, <1>r, RegionFacts
    <2>3. head \in DOMAIN cells => head # 0
      BY <1>i DEF HeapTypeOK
    <2>4. r = 0 => head = 0
      BY BaseFacts
    <2>5. QED
      BY <2>2, <2>3, <2>4, <1>r
  <1>1. CASE rfree[r] = 1
    <2>1. sweepR' = r + 1 /\ UNCHANGED <<cells, ref, rfree, wk, swept>>
      BY <1>1 DEF SweepRegion
    <2>2. Bare(r)
      BY <1>1, <1>r, <1>i DEF RegionsHold, FreeOK
    <2>3. ASSUME NEW o \in DOMAIN cells, r <= RegionOf(o), RegionOf(o) < r + 1 PROVE FALSE
      <3>1. Touches(o, r)
        BY <2>3, <1>f, <1>r DEF Touches
      <3>2. QED
        BY <3>1, <2>2 DEF Bare
    <2>4. \A x \in Regions : r <= x /\ x < r + 1 => rfree[x] = 1
      BY <1>1, <1>r, Consts
    <2>5. QED
      BY <2>1, <2>3, <2>4, <1>s, KeepsSkip
  <1>2. CASE rfree[r] = 0 /\ head \in DOMAIN cells /\ cells[head].size > RegionG
    <2> DEFINE k == Span(cells[head].size)
    <2>1. /\ sweepR' = r + k
          /\ IF cells[head].mark = 0 THEN jacl_release_regions(r, k) /\ swept' = swept + 1
             ELSE UNCHANGED <<cells, ref, rfree, wk, swept>>
      BY <1>2 DEF SweepRegion
    <2>2. k \in Nat \ {0} /\ Hi(head) = r + k - 1 /\ Hi(head) < jacl_region_hwm /\ cells[head].mark \in {0, 1}
      <3>1. cells[head].size \in Nat \ {0} /\ cells[head].mark \in {0, 1}
        BY <1>2, <1>i, CellFacts
      <3>2. k \in Nat \ {0}
        BY <3>1, SpanFacts
      <3>3. Hi(head) = r + k - 1
        BY <1>2, <1>h DEF Hi
      <3>4. QED
        BY <3>1, <3>2, <3>3, <1>2, <1>i DEF CellsHold
    <2>3. ASSUME NEW o \in DOMAIN cells, r <= RegionOf(o), RegionOf(o) < r + k PROVE o = head
      <3>1. SUFFICES ASSUME o # head PROVE FALSE
        OBVIOUS
      <3>2. Hi(head) < RegionOf(o)
        BY <3>1, <2>3, <1>2, <1>h, <1>i, LargeAlone
      <3>3. QED
        BY <3>2, <2>2, <2>3, <1>f, <1>r
    <2> HIDE DEF k
    <2>4. CASE cells[head].mark = 0
      <3>1. jacl_release_regions(r, k) /\ swept' \in Int
        BY <2>1, <2>4, <1>i
      <3>2. ASSUME NEW o \in CellsIn(r, k) PROVE cells[o].mark = 0 /\ Hi(o) < r + k
        <4>1. o \in DOMAIN cells /\ RegionOf(o) \in r .. r + k - 1
          BY DEF CellsIn
        <4>2. r <= RegionOf(o) /\ RegionOf(o) < r + k
          BY <4>1, <1>f, <1>r, <2>2
        <4>3. o = head
          BY <4>1, <4>2, <2>3
        <4>4. QED
          BY <4>3, <2>2, <2>4, <1>r
      <3>3. r >= 1 /\ r + k <= jacl_region_hwm
        BY <1>2, <1>h, <1>r, <2>2
      <3>4. QED
        BY <3>1, <3>2, <3>3, <2>1, <2>2, <1>s, KeepsRelease
    <2>5. CASE cells[head].mark # 0
      <3>1. UNCHANGED <<cells, ref, rfree, wk, swept>>
        BY <2>1, <2>5
      <3>2. ASSUME NEW o \in DOMAIN cells, r <= RegionOf(o), RegionOf(o) < r + k
            PROVE  Hi(o) < r + k /\ (Live(o) => cells[o].mark = 1)
        BY <3>2, <2>2, <2>3, <2>5, <1>r
      <3>3. ASSUME NEW x \in Regions, r <= x, x < r + k PROVE \E o \in DOMAIN cells : Touches(o, x)
        <4>1. x \in Nat
          BY Consts
        <4>2. Touches(head, x)
          BY <4>1, <3>3, <1>2, <1>h, <1>r, <2>2 DEF Touches
        <4>3. QED
          BY <4>2, <1>2
      <3>4. QED
        BY <3>1, <3>2, <3>3, <2>1, <2>2, <1>s, KeepsSkip
    <2>6. QED
      BY <2>4, <2>5
  <1>3. CASE rfree[r] = 0 /\ ~(head \in DOMAIN cells /\ cells[head].size > RegionG)
    <2>1. /\ sweepR' = r + 1
          /\ IF kept = {} /\ r # 0
                  THEN jacl_release_regions(r, 1) /\ swept' = swept + 1
                  ELSE /\ cells' = FreeDead(r) /\ swept' = swept + Cardinality(dead)
                       /\ wk' = [wk EXCEPT ![owner[r]].fl =
                                   [c \in 1 .. NClass |-> Listed(r, c, wk[owner[r]].fl[c], FreeDead(r))]]
                       /\ UNCHANGED <<ref, rfree>>
      BY <1>3 DEF SweepRegion
    <2>2. ASSUME NEW o \in DOMAIN cells, RegionOf(o) = r PROVE Hi(o) = r
      BY <2>2, <1>3, <1>i, SmallInside
    <2>3. CASE kept = {} /\ r # 0
      <3>1. jacl_release_regions(r, 1) /\ swept' \in Int
        BY <2>1, <2>3, <1>i
      <3>2. ASSUME NEW o \in CellsIn(r, 1) PROVE cells[o].mark = 0 /\ Hi(o) < r + 1
        <4>1. o \in DOMAIN cells /\ RegionOf(o) = r
          BY <1>c DEF CellsIn
        <4>2. Hi(o) = r /\ cells[o].mark \in {0, 1}
          BY <4>1, <2>2, <1>i, CellFacts
        <4>3. cells[o].mark # 1
          BY <4>1, <2>3, <1>i DEF MarksHold
        <4>4. QED
          BY <4>2, <4>3, <1>r
      <3>3. r >= 1 /\ r + 1 <= jacl_region_hwm /\ 1 \in Nat \ {0}
        BY <2>3, <1>r
      <3>4. sweepR' = r + 1
        BY <2>1
      <3>5. QED
        BY <3>1, <3>2, <3>3, <3>4, <1>s, KeepsRelease
    <2>4. CASE ~(kept = {} /\ r # 0)
      <3>1. /\ cells' = FreeDead(r) /\ swept' = swept + Cardinality(dead)
            /\ wk' = [wk EXCEPT ![owner[r]].fl =
                        [c \in 1 .. NClass |-> Listed(r, c, wk[owner[r]].fl[c], FreeDead(r))]]
            /\ UNCHANGED <<ref, rfree>>
        BY <2>1, <2>4
      <3>2. swept' \in Int
        <4>1. dead \subseteq CellsIn(r, 1)
          OBVIOUS
        <4> HIDE DEF dead
        <4>2. IsFiniteSet(dead)
          BY <4>1, <1>i, <1>r, RegionFinite
        <4>3. Cardinality(dead) \in Nat
          BY <4>2, FS_CardinalityType
        <4>4. QED
          BY <4>3, <3>1, <1>i
      <3>3. r >= 1 => \E o \in DOMAIN cells : RegionOf(o) = r
        <4> SUFFICES ASSUME r >= 1 PROVE \E o \in DOMAIN cells : RegionOf(o) = r
          OBVIOUS
        <4>1. kept # {}
          BY <2>4
        <4>2. PICK o : o \in kept
          BY <4>1
        <4>3. o \in DOMAIN cells /\ o \in CellsIn(r, 1)
          BY <4>2 DEF CellsIn
        <4>4. QED
          BY <4>3, <1>c
      <3>4. QED
        BY <3>1, <3>2, <3>3, <2>1, <2>2, <1>s, KeepsFree
    <2>5. QED
      BY <2>3, <2>4
  <1>4. QED
    BY <1>1, <1>2, <1>3, <1>r

\* FillCell at o, where there is no cell or a free one of the same size.
Filled(w, o) ==
  /\ DOMAIN cells' = DOMAIN cells \cup {o} /\ cells' \in [DOMAIN cells' -> CellRecs]
  /\ ref' \in [DOMAIN cells' -> Nat] /\ ref'[o] = 0
  /\ cells'[o].size = at[w].size /\ cells'[o].type # "free" /\ cells'[o].mark = 0
  /\ \A p \in DOMAIN cells : p # o => cells'[p] = cells[p] /\ ref'[p] = ref[p]
  /\ held' \subseteq Nat /\ IsFiniteSet(held') /\ held' = held \cup {o}
  /\ at' \in [HWorkers -> AtRecs] /\ at'[w].pc = "out" /\ \A v \in HWorkers : v # w => at'[v] = at[v]

\* What FillCell does to the cells, the references, the held words and the worker.
LEMMA FillFills ==
  ASSUME HeapTypeOK, NEW w \in HWorkers, at[w].pc # "out", NEW o \in Nat \ {0}, FillCell(w, o)
  PROVE  Filled(w, o)
  <1> DEFINE new == [size |-> at[w].size, type |-> at[w].type, mark |-> 0]
  <1>a. at \in [HWorkers -> AtRecs] /\ at[w].size \in Sizes /\ at[w].type \in {"node", "blob"}
    BY AtWorkers DEF AtRecs
  <1>1. new \in CellRecs /\ new.size = at[w].size /\ new.type # "free" /\ new.mark = 0
    BY <1>a DEF CellRecs, Types
  <1>2. cells' = [x \in DOMAIN cells \cup {o} |-> IF x = o THEN new ELSE cells[x]]
    BY DEF FillCell, Put
  <1> HIDE DEF new
  <1>3. DOMAIN ref = DOMAIN cells /\ \A x \in DOMAIN cells : cells[x] \in CellRecs /\ ref[x] \in Nat
    BY DEF HeapTypeOK, CellRecs
  <1>4. ref' = [x \in DOMAIN cells \cup {o} |-> IF x = o THEN 0 ELSE ref[x]]
    BY <1>3 DEF FillCell, Put
  <1>5. DOMAIN cells' = DOMAIN cells \cup {o} /\ cells' \in [DOMAIN cells' -> CellRecs] /\ cells'[o] = new
        /\ \A p \in DOMAIN cells : p # o => cells'[p] = cells[p]
    BY <1>1, <1>2, <1>3
  <1>6. ref' \in [DOMAIN cells' -> Nat] /\ ref'[o] = 0 /\ \A p \in DOMAIN cells : p # o => ref'[p] = ref[p]
    BY <1>3, <1>4, <1>5
  <1>7. held' \subseteq Nat /\ IsFiniteSet(held') /\ held' = held \cup {o}
    BY FS_AddElement DEF HeapTypeOK, FillCell
  <1>8. at' \in [HWorkers -> AtRecs] /\ at'[w].pc = "out" /\ \A v \in HWorkers : v # w => at'[v] = at[v]
    <2>1. Idle \in AtRecs /\ Idle.pc = "out"
      BY DEF Idle, AtRecs
    <2>2. at' = [at EXCEPT ![w] = Idle]
      BY DEF FillCell
    <2>3. QED
      BY <2>1, <2>2, <1>a
  <1>9. QED
    BY <1>1, <1>5, <1>6, <1>7, <1>8 DEF Filled

\* The references and marks after an allocation.
LEMMA FillRefs ==
  ASSUME HeapInv, NEW w \in HWorkers, NEW o \in Nat \ {0}, Filled(w, o), at[w].size \in Nat \ {0},
         o \in DOMAIN cells => ~Live(o), phase = "run", phase' = "run"
  PROVE  RefsHold' /\ MarksHold' /\ SweepHolds'
  <1>1. ASSUME NEW word, ToLive(word) PROVE ToLive(word)'
    <2>1. PICK x \in DOMAIN cells : Points(word, x) /\ Live(x)
      BY <1>1 DEF ToLive
    <2>2. x # o /\ x \in DOMAIN cells' /\ cells'[x] = cells[x]
      BY <2>1 DEF Filled
    <2>3. QED
      BY <2>1, <2>2 DEF ToLive, Points, Live, Cell
  <1>2. ToLive(o)'
    <2>1. o \in DOMAIN cells' /\ cells'[o].size = at[w].size /\ cells'[o].type # "free"
      BY DEF Filled
    <2>2. o \in o .. o + cells'[o].size - 1
      BY <2>1
    <2>3. QED
      BY <2>1, <2>2 DEF ToLive, Points, Live, Cell
  <1>3. \A p \in DOMAIN cells' : Refers(p)' => p # o /\ p \in DOMAIN cells /\ Refers(p) /\ ref'[p] = ref[p]
    BY DEF Filled, Refers
  <1>4. RefsHold'
    <2>1. (\A word \in held : ToLive(word))'
      <3>1. \A word \in held : ToLive(word)
        BY DEF HeapInv, RefsHold
      <3>2. held' = held \cup {o}
        BY DEF Filled
      <3>3. QED
        BY <3>1, <3>2, <1>1, <1>2
    <2>2. (\A p \in DOMAIN cells : Refers(p) => ToLive(ref[p]))'
      <3> SUFFICES ASSUME NEW p \in DOMAIN cells', Refers(p)' PROVE ToLive(ref[p])'
        OBVIOUS
      <3>1. p \in DOMAIN cells /\ Refers(p) /\ ref'[p] = ref[p]
        BY <1>3
      <3>2. ToLive(ref[p])
        BY <3>1 DEF HeapInv, RefsHold
      <3> DEFINE d == ref[p]
      <3>3. \E x \in DOMAIN cells' : d \in x .. x + cells'[x].size - 1 /\ cells'[x].type # "free"
        <4>1. PICK x \in DOMAIN cells : Points(d, x) /\ Live(x)
          BY <3>2 DEF ToLive
        <4>2. x # o /\ x \in DOMAIN cells' /\ cells'[x] = cells[x]
          BY <4>1 DEF Filled
        <4>3. QED
          BY <4>1, <4>2 DEF Points, Live, Cell
      <3>4. QED
        BY <3>1, <3>3 DEF ToLive, Points, Live, Cell
    <2>3. QED
      BY <2>1, <2>2 DEF RefsHold
  <1>5. MarksHold'
    <2>1. \A p \in DOMAIN cells' : cells'[p].mark = 1 => cells'[p].type # "free"
      <3> SUFFICES ASSUME NEW p \in DOMAIN cells', cells'[p].mark = 1 PROVE cells'[p].type # "free"
        OBVIOUS
      <3>1. p # o /\ p \in DOMAIN cells /\ cells'[p] = cells[p]
        BY DEF Filled
      <3>2. QED
        BY <3>1 DEF HeapInv, MarksHold, Live
    <2>2. QED
      BY <2>1 DEF MarksHold, Live
  <1>6. SweepHolds'
    BY DEF SweepHolds
  <1>7. QED
    BY <1>4, <1>5, <1>6

\* A cell taken from a list is free and in no other list, so making it live disturbs none.
LEMMA Keeps_FromFreeList ==
  ASSUME HeapInv, NEW w \in HWorkers, FromFreeList(w)
  PROVE  HeapInv'
  <1>i. HeapTypeOK /\ CellsHold /\ RegionsHold /\ WorkersHold /\ ListsHold
    BY DEF HeapInv
  <1> DEFINE c == at[w].size   l == wk[w].fl[c]   o == Head(l)
  <1>1. /\ phase = "run" /\ at[w].pc = "off" /\ c <= NClass /\ l # << >> /\ FillCell(w, o)
        /\ wk' = [wk EXCEPT ![w].fl[c] = Tail(l)]
        /\ UNCHANGED <<cursor, owner, rfree, gcVars>>
    BY DEF FromFreeList
  <1>2. c \in Sizes /\ c \in 1 .. NClass /\ c \in Nat \ {0}
    <2>1. c \in Sizes
      BY <1>1, <1>i, AtWorkers
    <2>2. QED
      BY <2>1, <1>1, Consts
  <1>q. wk \in [HWorkers -> WkRecs] /\ wk[w] \in WkRecs /\ wk[w].fl \in [1 .. NClass -> Seq(Nat)]
    <2>1. wk \in [HWorkers -> WkRecs]
      BY <1>i DEF HeapTypeOK, WkRecs
    <2>2. QED
      BY <2>1 DEF WkRecs
  <1>3. l \in Seq(Nat) /\ Len(l) \in Nat \ {0}
    <2>1. l \in Seq(Nat)
      BY <1>q, <1>2
    <2>2. QED
      BY <2>1, <1>1, EmptySeq
  <1>4. InList(l[1], w, c) /\ o = l[1]
    BY <1>1, <1>2, <1>3, <1>i DEF ListsHold
  <1>5. o \in DOMAIN cells /\ cells[o].size = c /\ cells[o].type = "free" /\ owner[RegionOf(o)] = w /\ o \in Nat \ {0}
    BY <1>4, <1>i DEF InList, HeapTypeOK
  <1>6. Filled(w, o)
    BY <1>1, <1>5, <1>i, FillFills
  <1>7. /\ Tail(l) \in Seq(Nat) /\ Len(Tail(l)) = Len(l) - 1
        /\ \A i \in 1 .. Len(Tail(l)) : Tail(l)[i] = l[i + 1] /\ i + 1 \in 1 .. Len(l) /\ i + 1 # 1
    BY <1>1, <1>3, HeadTailProperties
  <1> DEFINE t == Tail(l)   fl == [wk[w].fl EXCEPT ![c] = t]
  <1>8. fl \in [1 .. NClass -> Seq(Nat)] /\ fl[c] = t /\ \A d \in 1 .. NClass : d # c => fl[d] = wk[w].fl[d]
    BY <1>7, <1>q, <1>2
  <1>9. /\ wk' \in [HWorkers -> WkRecs]
        /\ \A v \in HWorkers : wk'[v].bump = wk[v].bump /\ wk'[v].limit = wk[v].limit /\ wk'[v].fl = IF v = w THEN fl ELSE wk[v].fl
    <2> DEFINE new == [wk[w] EXCEPT !.fl = fl]
    <2>1. wk' = [wk EXCEPT ![w] = new]
      BY <1>1
    <2> HIDE DEF fl
    <2>2. new \in WkRecs /\ new.bump = wk[w].bump /\ new.limit = wk[w].limit /\ new.fl = fl
      BY <1>8, <1>q DEF WkRecs
    <2> HIDE DEF new
    <2>3. QED
      BY <2>1, <2>2, <1>q
  <1> HIDE DEF fl, t
  <1>d. DOMAIN cells' = DOMAIN cells /\ cells'[o].size = cells[o].size /\ \A p \in DOMAIN cells : p # o => cells'[p] = cells[p]
    BY <1>5, <1>6 DEF Filled
  <1>10. HeapTypeOK'
    <2>1. \A v \in HWorkers : at'[v].pc # "out" => at'[v].size \in Sizes
      BY <1>6, <1>i, AtWorkers DEF Filled
    <2>2. todo = {} /\ DOMAIN cells' \subseteq Nat \ {0} /\ phase' = "run"
      BY <1>1, <1>d, <1>i DEF HeapTypeOK, gcVars
    <2>3. QED
      BY <2>1, <2>2, <1>1, <1>6, <1>9, <1>i DEF HeapTypeOK, Filled, gcVars, WkRecs, CellRecs, AtRecs
  <1>11. SameCells /\ SameAreas
    BY <1>d, <1>1, <1>9 DEF SameCells, SameAreas
  <1>12. SameClaims
    BY <1>6 DEF SameClaims, HasClaim, Filled
  <1>13. CellsHold' /\ RegionsHold'
    BY <1>11, <1>12, <1>i, KeepsCells, KeepsRegions
  <1>14. WorkersHold'
    <2> SUFFICES ASSUME NEW v \in HWorkers PROVE WorkerOK(v)'
      BY DEF WorkersHold
    <2>1. CASE v # w
      <3>1. at'[v] = at[v] /\ phase' = phase
        BY <2>1, <1>1, <1>6 DEF Filled, gcVars
      <3>2. QED
        BY <3>1, <1>11, <1>i, KeepsWorker
    <2>2. CASE v = w
      <3>1. at'[w].pc = "out" /\ phase' = "run"
        BY <1>6, <1>1 DEF Filled, gcVars
      <3>2. QED
        BY <3>1, <2>2, <1>9, <1>i DEF WorkerOK, WorkersHold, HasBump
    <2>3. QED
      BY <2>1, <2>2
  <1>15. ListsHold'
    <2>1. ASSUME NEW v \in HWorkers, NEW d \in 1 .. NClass, NEW p, p # o, InList(p, v, d) PROVE NextListed(p, v, d)
      BY <2>1, <1>d, <1>1 DEF InList, NextListed, gcVars
    <2>2. ASSUME NEW v \in HWorkers, NEW d \in 1 .. NClass
          PROVE  /\ \A i \in 1 .. Len(wk'[v].fl[d]) : NextListed(wk'[v].fl[d][i], v, d)
                 /\ \A i, j \in 1 .. Len(wk'[v].fl[d]) : wk'[v].fl[d][i] = wk'[v].fl[d][j] => i = j
      <3>0. /\ \A i \in 1 .. Len(wk[v].fl[d]) : InList(wk[v].fl[d][i], v, d)
            /\ \A i, j \in 1 .. Len(wk[v].fl[d]) : wk[v].fl[d][i] = wk[v].fl[d][j] => i = j
        BY <1>i DEF ListsHold
      <3>1. CASE v # w \/ d # c
        <4>1. wk'[v].fl[d] = wk[v].fl[d]
          BY <3>1, <1>8, <1>9
        <4>2. \A i \in 1 .. Len(wk[v].fl[d]) : wk[v].fl[d][i] # o
          BY <3>0, <3>1, <1>5 DEF InList
        <4>3. QED
          BY <4>1, <4>2, <3>0, <2>1
      <3>2. CASE v = w /\ d = c
        <4>1. wk'[v].fl[d] = t /\ wk[v].fl[d] = l
          BY <3>2, <1>8, <1>9
        <4>2. \A i \in 1 .. Len(t) : i \in Nat /\ t[i] = l[i + 1] /\ i + 1 \in 1 .. Len(l) /\ i + 1 # 1
          BY <1>7 DEF t
        <4>l. 1 \in 1 .. Len(l)
          BY <1>3
        <4>3. ASSUME NEW i \in 1 .. Len(t) PROVE NextListed(t[i], v, d)
          <5>1. l[i + 1] # o
            BY <4>1, <4>2, <4>l, <3>0, <1>4
          <5>2. InList(l[i + 1], v, d)
            BY <4>1, <4>2, <3>0
          <5>3. QED
            BY <5>1, <5>2, <4>2, <2>1
        <4>4. ASSUME NEW i \in 1 .. Len(t), NEW j \in 1 .. Len(t), t[i] = t[j] PROVE i = j
          <5>1. l[i + 1] = l[j + 1] /\ i + 1 \in 1 .. Len(l) /\ j + 1 \in 1 .. Len(l)
            BY <4>2, <4>4
          <5>2. \A m, n \in 1 .. Len(l) : l[m] = l[n] => m = n
            BY <4>1, <3>0
          <5> HIDE DEF l
          <5>3. i + 1 = j + 1
            BY <5>1, <5>2
          <5>4. QED
            BY <5>3, <4>2
        <4>5. QED
          BY <4>1, <4>3, <4>4
      <3>3. QED
        BY <3>1, <3>2
    <2>3. QED
      BY <2>2 DEF ListsHold, InList, NextListed
  <1>16. RefsHold' /\ MarksHold' /\ SweepHolds'
    <2>1. phase' = "run" /\ ~Live(o)
      BY <1>1, <1>5 DEF gcVars, Live
    <2>2. QED
      BY <2>1, <1>1, <1>2, <1>5, <1>6, FillRefs
  <1>17. QED
    BY <1>10, <1>13, <1>14, <1>15, <1>16 DEF HeapInv

\* A cell of s granules at o, whose regions no old cell reaches, or which follows the small cells of its region.
LEMMA NewCell ==
  ASSUME HeapTypeOK, CellsHold, HeapTypeOK', NEW w \in HWorkers, NEW o \in Nat \ {0}, o \notin DOMAIN cells, Filled(w, o),
         NEW s \in Nat \ {0}, s = at[w].size, jacl_region_hwm <= jacl_region_hwm',
         NEW q \in Nat, q = RegionOf(o), q + Span(s) - 1 < jacl_region_hwm',
         s > RegionG => o = Base(q), s <= RegionG => o + s <= Base(q) + RegionG,
         \A p \in DOMAIN cells :
            \/ Hi(p) < q \/ q + Span(s) - 1 < RegionOf(p)
            \/ s <= RegionG /\ cells[p].size <= RegionG /\ p + cells[p].size <= o
  PROVE  /\ CellsHold' /\ Hi(o)' = q + Span(s) - 1
         /\ \A x : Touches(o, x)' <=> q <= x /\ x <= q + Span(s) - 1
         /\ \A p \in DOMAIN cells : \A x : Touches(p, x)' <=> Touches(p, x)
  <1>c. RegionG \in Nat \ {0}
    BY Consts
  <1>d. /\ DOMAIN cells' = DOMAIN cells \cup {o} /\ cells'[o].size = s
        /\ \A p \in DOMAIN cells : p # o /\ cells'[p] = cells[p]
    BY DEF Filled
  <1>f. \A p \in DOMAIN cells :
          /\ p \in Nat \ {0} /\ cells[p].size \in Nat \ {0}
          /\ RegionOf(p) \in Nat /\ Hi(p) \in Nat /\ RegionOf(p) <= Hi(p)
          /\ Base(RegionOf(p)) <= p /\ Base(Hi(p)) \in Nat /\ Base(RegionOf(p)) \in Nat
          /\ p + cells[p].size <= Base(Hi(p)) + RegionG
    BY CellFacts, BaseFacts
  <1>n. Span(s) \in Nat \ {0} /\ (s <= RegionG => Span(s) = 1) /\ s <= Base(Span(s)) /\ Base(Span(s)) \in Nat
    BY SpanFacts, BaseFacts
  <1>s. /\ Base(q) \in Nat /\ Base(q) <= o /\ o < Base(q) + RegionG
    BY BaseFacts, RegionFacts
  <1>t. Base(q + Span(s)) = Base(q) + Base(Span(s))
    <2>1. Span(s) \in Nat
      BY <1>n
    <2> HIDE DEF Span
    <2>2. QED
      BY <2>1, <1>c DEF Base
  <1>u. q + Span(s) - 1 \in Nat /\ (q + Span(s) - 1) + 1 = q + Span(s)
    BY <1>n
  <1>v. Base(q + Span(s) - 1) \in Nat /\ Base(q + Span(s)) = Base(q + Span(s) - 1) + RegionG
    BY <1>u, BaseFacts
  <1>e. o + s <= Base(q + Span(s) - 1) + RegionG
    <2>1. CASE s > RegionG
      BY <2>1, <1>n, <1>t, <1>v, <1>s, <1>c
    <2>2. CASE s <= RegionG
      <3>1. q + Span(s) - 1 = q
        BY <2>2, <1>n
      <3>2. QED
        BY <3>1, <2>2
    <2>3. QED
      BY <2>1, <2>2, <1>c
  <1>h. /\ Hi(o)' = q + Span(s) - 1 /\ \A p \in DOMAIN cells : Hi(p)' = Hi(p)
    BY <1>d DEF Hi
  <1>1. ASSUME NEW p \in DOMAIN cells, Hi(p) < q PROVE p + cells[p].size <= o
    <2>1. Base(Hi(p)) + RegionG <= Base(q)
      BY <1>1, <1>f, BaseFacts
    <2>2. QED
      BY <2>1, <1>f, <1>s, <1>c
  <1>2. ASSUME NEW p \in DOMAIN cells, q + Span(s) - 1 < RegionOf(p) PROVE o + s <= p
    <2>1. Base(q + Span(s) - 1) + RegionG <= Base(RegionOf(p))
      BY <1>2, <1>u, <1>f, BaseFacts
    <2>2. QED
      BY <2>1, <1>e, <1>f, <1>v, <1>c
  <1>3. CellsHold'
    <2>h. /\ jacl_region_hwm \in Nat /\ jacl_region_hwm' \in Nat
      <3>1. jacl_region_hwm \in Nat
        BY Hwm
      <3>2. cursor' \in Nat \ {0}
        BY DEF HeapTypeOK
      <3>3. QED
        BY <3>1, <3>2, Consts DEF jacl_region_hwm
    <2>1. ASSUME NEW p \in DOMAIN cells'
          PROVE  /\ Hi(p)' < jacl_region_hwm'
                 /\ IF cells'[p].size > RegionG THEN p = Base(RegionOf(p)) ELSE p + cells'[p].size <= Base(RegionOf(p)) + RegionG
      <3>1. CASE p = o
        BY <3>1, <1>d, <1>h, <1>c
      <3>2. CASE p \in DOMAIN cells
        <4>1. /\ Hi(p) < jacl_region_hwm
              /\ IF cells[p].size > RegionG THEN p = Base(RegionOf(p)) ELSE p + cells[p].size <= Base(RegionOf(p)) + RegionG
          BY <3>2 DEF CellsHold
        <4>2. Hi(p) < jacl_region_hwm'
          BY <3>2, <4>1, <2>h, <1>f
        <4>3. QED
          BY <4>1, <4>2, <3>2, <1>d, <1>h
      <3>3. QED
        BY <3>1, <3>2, <1>d
    <2>2. ASSUME NEW a \in DOMAIN cells', NEW b \in DOMAIN cells', a < b
          PROVE  a + cells'[a].size <= b /\ (cells'[a].size > RegionG => Hi(a)' < RegionOf(b))
      <3>1. CASE a \in DOMAIN cells /\ b \in DOMAIN cells
        BY <3>1, <2>2, <1>d, <1>h DEF CellsHold
      <3>2. CASE a \in DOMAIN cells /\ b = o
        <4>1. cells'[a] = cells[a] /\ Hi(a)' = Hi(a) /\ a \in Nat /\ cells[a].size \in Nat
          BY <3>2, <1>d, <1>h, <1>f
        <4>2. CASE Hi(a) < q
          BY <4>1, <4>2, <3>2, <1>1
        <4>3. CASE q + Span(s) - 1 < RegionOf(a)
          <5>1. o + s <= a
            BY <4>3, <3>2, <1>2
          <5>2. QED
            BY <5>1, <4>1, <3>2, <2>2
        <4>4. CASE s <= RegionG /\ cells[a].size <= RegionG /\ a + cells[a].size <= o
          BY <4>1, <4>4, <3>2, <1>c
        <4>5. QED
          BY <4>2, <4>3, <4>4, <3>2
      <3>3. CASE a = o /\ b \in DOMAIN cells
        <4>1. cells'[a].size = s /\ Hi(a)' = q + Span(s) - 1 /\ b \in Nat /\ cells[b].size \in Nat
          BY <3>3, <1>d, <1>h, <1>f
        <4>2. CASE Hi(b) < q
          <5>1. b + cells[b].size <= o
            BY <4>2, <3>3, <1>1
          <5>2. QED
            BY <5>1, <4>1, <3>3, <2>2
        <4>3. CASE q + Span(s) - 1 < RegionOf(b)
          BY <4>1, <4>3, <3>3, <1>2
        <4>4. CASE s <= RegionG /\ cells[b].size <= RegionG /\ b + cells[b].size <= o
          BY <4>1, <4>4, <3>3, <2>2
        <4>5. QED
          BY <4>2, <4>3, <4>4, <3>3
      <3>4. CASE a = o /\ b = o
        BY <3>4, <2>2
      <3>5. QED
        BY <3>1, <3>2, <3>3, <3>4, <1>d
    <2>3. QED
      BY <2>1, <2>2 DEF CellsHold
  <1>4. /\ \A x : Touches(o, x)' <=> q <= x /\ x <= q + Span(s) - 1
        /\ \A p \in DOMAIN cells : \A x : Touches(p, x)' <=> Touches(p, x)
    BY <1>h DEF Touches
  <1>5. QED
    BY <1>3, <1>4, <1>h

\* What an allocation at o, where there was no cell, leaves to show: the cells, regions and workers.
LEMMA KeepsNew ==
  ASSUME HeapInv, NEW w \in HWorkers, at[w].pc # "out", NEW o \in Nat \ {0}, o \notin DOMAIN cells, Filled(w, o),
         wk' \in [HWorkers -> WkRecs], \A v \in HWorkers : wk'[v].fl = wk[v].fl,
         cursor' \in Nat \ {0}, owner' \in [Regions -> HWorkers], rfree' \in [Regions -> {0, 1}],
         phase = "run", UNCHANGED gcVars,
         \A p \in DOMAIN cells : owner'[RegionOf(p)] = owner[RegionOf(p)]
  PROVE  HeapTypeOK' /\ ListsHold' /\ RefsHold' /\ MarksHold' /\ SweepHolds'
  <1>i. HeapTypeOK /\ ListsHold
    BY DEF HeapInv
  <1>g. phase' = "run"
    BY DEF gcVars
  <1>1. HeapTypeOK'
    <2>1. \A v \in HWorkers : at'[v].pc # "out" => at'[v].size \in Sizes
      BY <1>i, AtWorkers DEF Filled
    <2>2. todo = {} /\ DOMAIN cells' \subseteq Nat \ {0}
      BY <1>i DEF HeapTypeOK, Filled
    <2>3. QED
      BY <2>1, <2>2, <1>g, <1>i DEF HeapTypeOK, Filled, gcVars, WkRecs, CellRecs, AtRecs
  <1>2. ListsHold'
    <2>1. \A p, v, d : InList(p, v, d) => NextListed(p, v, d)
      BY <1>g DEF InList, NextListed, Filled
    <2>2. ASSUME NEW v \in HWorkers, NEW d \in 1 .. NClass
          PROVE  /\ \A i \in 1 .. Len(wk'[v].fl[d]) : NextListed(wk'[v].fl[d][i], v, d)
                 /\ \A i, j \in 1 .. Len(wk'[v].fl[d]) : wk'[v].fl[d][i] = wk'[v].fl[d][j] => i = j
      BY <2>1, <1>i DEF ListsHold
    <2>3. QED
      BY <2>2 DEF ListsHold, InList, NextListed
  <1>3. RefsHold' /\ MarksHold' /\ SweepHolds'
    <2>1. at[w].size \in Nat \ {0}
      <3>1. at[w].size \in Sizes
        BY <1>i, AtWorkers
      <3>2. QED
        BY <3>1, Consts
    <2>2. QED
      BY <2>1, <1>g, FillRefs
  <1>4. QED
    BY <1>1, <1>2, <1>3

\* The bump area lies past the cells of its region, in a region its worker owns.
LEMMA Keeps_Bump ==
  ASSUME HeapInv, NEW w \in HWorkers, Bump(w)
  PROVE  HeapInv'
  <1>i. HeapTypeOK /\ CellsHold /\ RegionsHold /\ WorkersHold
    BY DEF HeapInv
  <1>0. PICK o, s : o = wk[w].bump /\ s = at[w].size
    OBVIOUS
  <1>1. /\ phase = "run" /\ at[w].pc = "off" /\ o + s <= wk[w].limit /\ FillCell(w, o)
        /\ wk' = [wk EXCEPT ![w].bump = o + s]
        /\ UNCHANGED <<cursor, owner, rfree, gcVars>>
    BY <1>0 DEF Bump
  <1>q. wk \in [HWorkers -> WkRecs] /\ o \in Nat /\ wk[w].limit \in Nat
    <2>1. wk \in [HWorkers -> WkRecs]
      BY <1>i DEF HeapTypeOK, WkRecs
    <2>2. QED
      BY <2>1, <1>0 DEF WkRecs
  <1>s. s \in Nat \ {0}
    <2>1. s \in Sizes
      BY <1>0, <1>1, <1>i, AtWorkers
    <2>2. QED
      BY <2>1, Consts
  <1>2. o \in Nat \ {0} /\ \E x \in Regions : HasBump(w, x)
    <2>1. wk[w].limit > 0
      BY <1>q, <1>s, <1>1
    <2>2. WorkerOK(w)
      BY <1>i DEF WorkersHold
    <2>3. o > 0 /\ \E x \in Regions : HasBump(w, x)
      BY <2>1, <2>2, <1>0 DEF WorkerOK
    <2>4. QED
      BY <2>3, <1>q
  <1>3. PICK x \in Regions : HasBump(w, x)
    BY <1>2
  <1>4. /\ x < jacl_region_hwm /\ owner[x] = w /\ Base(x) <= o
        /\ \A p \in DOMAIN cells : Touches(p, x) => cells[p].size <= RegionG /\ p + cells[p].size <= o
    BY <1>0, <1>3, <1>i DEF RegionsHold, BumpOK
  <1>5. x \in Nat /\ Base(x) \in Nat /\ RegionG \in Nat \ {0} /\ wk[w].limit = Base(x) + RegionG
    <2>1. x \in Nat /\ RegionG \in Nat \ {0}
      BY Consts
    <2>2. QED
      BY <2>1, <1>3, BaseFacts DEF HasBump
  <1>6. s <= RegionG /\ o + s <= Base(x) + RegionG /\ o < Base(x) + RegionG
    BY <1>1, <1>4, <1>5, <1>q, <1>s
  <1>7. RegionOf(o) = x /\ Span(s) = 1 /\ x + Span(s) - 1 = x
    BY <1>2, <1>4, <1>5, <1>6, <1>s, RegionFacts, SpanFacts
  <1>8. o \notin DOMAIN cells
    <2> SUFFICES ASSUME o \in DOMAIN cells PROVE FALSE
      OBVIOUS
    <2>1. RegionOf(o) <= Hi(o) /\ cells[o].size \in Nat \ {0}
      BY <1>i, CellFacts
    <2>2. o + cells[o].size <= o
      BY <2>1, <1>4, <1>5, <1>7 DEF Touches
    <2>3. QED
      BY <2>1, <2>2, <1>2
  <1>9. Filled(w, o)
    BY <1>1, <1>2, <1>i, FillFills
  <1>10. /\ wk' \in [HWorkers -> WkRecs] /\ wk'[w].bump = o + s
         /\ \A v \in HWorkers : wk'[v].limit = wk[v].limit /\ wk'[v].fl = wk[v].fl /\ (v # w => wk'[v] = wk[v])
    <2> DEFINE n == o + s   new == [wk[w] EXCEPT !.bump = n]
    <2>1. wk' = [wk EXCEPT ![w] = new]
      BY <1>1
    <2>2. n \in Nat
      BY <1>2, <1>s
    <2> HIDE DEF n
    <2>3. new \in WkRecs /\ new.bump = n /\ new.limit = wk[w].limit /\ new.fl = wk[w].fl
      BY <2>2, <1>q DEF WkRecs
    <2> HIDE DEF new
    <2>4. QED
      BY <2>1, <2>3, <1>q DEF n
  <1>11. HeapTypeOK' /\ ListsHold' /\ RefsHold' /\ MarksHold' /\ SweepHolds'
    <2>1. cursor' \in Nat \ {0} /\ owner' \in [Regions -> HWorkers] /\ rfree' \in [Regions -> {0, 1}] /\ owner' = owner /\ UNCHANGED gcVars
      BY <1>1, <1>i DEF HeapTypeOK
    <2>2. QED
      BY <2>1, <1>1, <1>2, <1>8, <1>9, <1>10, KeepsNew
  <1>h. jacl_region_hwm' = jacl_region_hwm /\ jacl_region_hwm \in Nat
    BY <1>1, <1>i, Hwm DEF jacl_region_hwm
  <1>12. /\ CellsHold' /\ \A y : Touches(o, y)' <=> x <= y /\ y <= x
         /\ \A p \in DOMAIN cells : \A y : Touches(p, y)' <=> Touches(p, y)
    <2>1. \A p \in DOMAIN cells :
            \/ Hi(p) < x \/ x < RegionOf(p)
            \/ s <= RegionG /\ cells[p].size <= RegionG /\ p + cells[p].size <= o
      <3>1. \A p \in DOMAIN cells : RegionOf(p) \in Nat /\ Hi(p) \in Nat
        BY <1>i, CellFacts
      <3>2. QED
        BY <3>1, <1>4, <1>5, <1>6 DEF Touches
    <2>2. s = at[w].size /\ jacl_region_hwm <= jacl_region_hwm' /\ x + Span(s) - 1 < jacl_region_hwm' /\ x = RegionOf(o)
      BY <1>0, <1>4, <1>7, <1>h
    <2>4. s > RegionG => o = Base(x)
      BY <1>6, <1>5, <1>s
    <2>5. \A p \in DOMAIN cells :
            \/ Hi(p) < x \/ x + Span(s) - 1 < RegionOf(p)
            \/ s <= RegionG /\ cells[p].size <= RegionG /\ p + cells[p].size <= o
      BY <2>1, <1>7
    <2>3. /\ CellsHold' /\ \A y : Touches(o, y)' <=> x <= y /\ y <= x + Span(s) - 1
          /\ \A p \in DOMAIN cells : \A y : Touches(p, y)' <=> Touches(p, y)
      BY <2>2, <2>4, <2>5, <1>2, <1>5, <1>6, <1>8, <1>9, <1>11, <1>i, <1>s, NewCell
    <2>6. QED
      BY <2>3, <1>7
  <1>d. DOMAIN cells' = DOMAIN cells \cup {o} /\ cells'[o].size = s /\ \A p \in DOMAIN cells : cells'[p] = cells[p]
    BY <1>0, <1>8, <1>9 DEF Filled
  <1>b. \A v \in HWorkers : \A y : HasBump(v, y)' <=> HasBump(v, y)
    BY <1>10 DEF HasBump
  <1>13. RegionsHold'
    <2> SUFFICES ASSUME NEW y \in Regions PROVE FreeOK(y)' /\ ClaimOK(y)' /\ BumpOK(y)'
      BY DEF RegionsHold
    <2>0. FreeOK(y) /\ ClaimOK(y) /\ BumpOK(y) /\ y \in Nat
      BY <1>i, Consts DEF RegionsHold
    <2>1. Touches(o, y)' <=> y = x
      BY <1>12, <1>5, <2>0
    <2>2. Bare(y) => y # x /\ Bare(y)'
      <3> SUFFICES ASSUME Bare(y) PROVE y # x /\ Bare(y)'
        OBVIOUS
      <3>1. y # x
        BY <1>3 DEF Bare
      <3>2. \A p \in DOMAIN cells' : ~Touches(p, y)'
        BY <3>1, <2>1, <1>12, <1>d DEF Bare
      <3>3. y >= 1 /\ y < jacl_region_hwm' /\ \A v \in HWorkers : ~HasBump(v, y)'
        BY <1>b, <1>h DEF Bare
      <3>4. QED
        BY <3>1, <3>2, <3>3 DEF Bare
    <2>c. \A v \in HWorkers : HasClaim(v, y)' => HasClaim(v, y)
      BY <1>9 DEF Filled, HasClaim
    <2>3. FreeOK(y)'
      BY <2>0, <2>2, <2>c, <1>1 DEF FreeOK
    <2>4. ClaimOK(y)'
      BY <2>0, <2>2, <2>c DEF ClaimOK
    <2>5. BumpOK(y)'
      <3> SUFFICES ASSUME NEW v \in HWorkers, HasBump(v, y)
                   PROVE /\ y < jacl_region_hwm' /\ owner'[y] = v /\ Base(y) <= wk'[v].bump
                         /\ \A p \in DOMAIN cells' : Touches(p, y)' => cells'[p].size <= RegionG /\ p + cells'[p].size <= wk'[v].bump
        BY <1>b DEF BumpOK
      <3>1. /\ y < jacl_region_hwm /\ owner[y] = v /\ Base(y) <= wk[v].bump
            /\ \A p \in DOMAIN cells : Touches(p, y) => cells[p].size <= RegionG /\ p + cells[p].size <= wk[v].bump
        BY <2>0 DEF BumpOK
      <3>n. \A p \in DOMAIN cells : p + cells[p].size \in Nat
        BY <1>i, CellFacts
      <3>b. Base(y) \in Nat
        BY <2>0, BaseFacts
      <3>2. CASE v # w
        <4>1. y # x /\ wk'[v] = wk[v]
          BY <3>1, <3>2, <1>4, <1>10
        <4>2. \A p \in DOMAIN cells' : Touches(p, y)' => p \in DOMAIN cells /\ Touches(p, y) /\ cells'[p] = cells[p]
          BY <4>1, <2>1, <1>12, <1>d
        <4>3. QED
          BY <4>1, <4>2, <3>1, <1>1, <1>h
      <3>3. CASE v = w
        <4>1. wk[v].bump = o /\ wk'[v].bump = o + s /\ o <= o + s /\ o + s \in Nat /\ o \in Nat
          BY <1>0, <3>3, <1>10, <1>2, <1>s
        <4>2. y < jacl_region_hwm' /\ owner'[y] = v /\ Base(y) <= wk'[v].bump
          BY <4>1, <3>1, <3>b, <1>1, <1>h
        <4>3. ASSUME NEW p \in DOMAIN cells', Touches(p, y)' PROVE cells'[p].size <= RegionG /\ p + cells'[p].size <= wk'[v].bump
          <5>1. CASE p = o
            BY <5>1, <1>d, <1>6, <4>1
          <5>2. CASE p \in DOMAIN cells
            <6>1. cells'[p] = cells[p] /\ cells[p].size <= RegionG /\ p + cells[p].size <= o
              BY <5>2, <4>1, <4>3, <1>12, <1>d, <3>1
            <6>2. QED
              BY <6>1, <5>2, <4>1, <3>n
          <5>3. QED
            BY <5>1, <5>2, <1>d
        <4>4. QED
          BY <4>2, <4>3
      <3>4. QED
        BY <3>2, <3>3
    <2>6. QED
      BY <2>3, <2>4, <2>5
  <1>14. WorkersHold'
    <2> SUFFICES ASSUME NEW v \in HWorkers PROVE WorkerOK(v)'
      BY DEF WorkersHold
    <2>g. phase' = "run" /\ WorkerOK(v)
      BY <1>1, <1>i DEF gcVars, WorkersHold
    <2>1. CASE v # w
      <3>1. at'[v] = at[v] /\ wk'[v] = wk[v]
        BY <2>1, <1>9, <1>10 DEF Filled
      <3>2. QED
        BY <3>1, <2>g, <1>b, <1>h DEF WorkerOK
    <2>2. CASE v = w
      <3>1. at'[w].pc = "out"
        BY <1>9 DEF Filled
      <3>2. wk'[w].bump = o + s /\ o + s <= wk[w].limit /\ o + s > 0 /\ wk'[w].limit = wk[w].limit
        BY <1>1, <1>10, <1>2, <1>s
      <3>3. QED
        BY <3>1, <3>2, <2>2, <2>g, <1>b, <1>3 DEF WorkerOK
    <2>3. QED
      BY <2>1, <2>2
  <1>15. QED
    BY <1>11, <1>12, <1>13, <1>14 DEF HeapInv

\* A run of regions that nobody else uses becomes a cell, and a bump area when the cell is small.
LEMMA KeepsClaimed ==
  ASSUME HeapInv, NEW w \in HWorkers, at[w].pc = "scan", phase = "run", UNCHANGED gcVars,
         NEW b \in Nat \ {0}, NEW s, s = at[w].size, Claimed(w, b),
         cursor' \in Nat \ {0}, jacl_region_hwm <= jacl_region_hwm', b + Span(s) <= jacl_region_hwm',
         owner' = [x \in Regions |-> IF x \in b .. b + Span(s) - 1 THEN w ELSE owner[x]],
         rfree' \in [Regions -> {0, 1}],
         \A x \in Regions : rfree'[x] = 1 => rfree[x] = 1 /\ x \notin b .. b + Span(s) - 1,
         \A x \in b .. b + Span(s) - 1 :
            /\ \A p \in DOMAIN cells : ~Touches(p, x)
            /\ \A v \in HWorkers : ~HasBump(v, x) /\ (v # w => ~HasClaim(v, x))
  PROVE  HeapInv'
  <1>i. HeapTypeOK /\ CellsHold /\ RegionsHold /\ WorkersHold
    BY DEF HeapInv
  <1>c. RegionG \in Nat \ {0} /\ NRegions \in Nat
    BY Consts
  <1>s. s \in Nat \ {0}
    <2>1. s \in Sizes
      BY <1>i, AtWorkers
    <2>2. QED
      BY <2>1, Consts
  <1>n. Span(s) \in Nat \ {0} /\ (s <= RegionG => Span(s) = 1)
    BY <1>s, SpanFacts
  <1>0. PICK k \in Nat \ {0} : k = Span(s)
    BY <1>n
  <1>1. PICK o : o = Base(b)
    OBVIOUS
  <1>2. o \in Nat \ {0} /\ RegionOf(o) = b
    <2>1. Base(0) + RegionG <= Base(b) /\ Base(0) = 0 /\ Base(b) \in Nat
      BY BaseFacts
    <2>2. RegionOf(Base(b)) = b
      BY <2>1, <1>c, RegionFacts
    <2>3. QED
      BY <2>1, <2>2, <1>1, <1>c
  <1>p. \A p \in DOMAIN cells : RegionOf(p) \in Nat /\ Hi(p) \in Nat /\ RegionOf(p) <= Hi(p) /\ Hi(p) < NRegions
    BY <1>i, CellFacts
  <1>m. \A x \in Nat : b <= x /\ x <= b + k - 1 =>
            /\ \A p \in DOMAIN cells : ~Touches(p, x)
            /\ \A v \in HWorkers : ~HasBump(v, x) /\ (v # w => ~HasClaim(v, x))
    BY <1>0
  <1>3. \A p \in DOMAIN cells : Hi(p) < b \/ b + k - 1 < RegionOf(p)
    <2> SUFFICES ASSUME NEW p \in DOMAIN cells, ~(Hi(p) < b), ~(b + k - 1 < RegionOf(p)) PROVE FALSE
      OBVIOUS
    <2>0. RegionOf(p) \in Nat /\ Hi(p) \in Nat /\ RegionOf(p) <= Hi(p)
      BY <1>p
    <2>1. CASE RegionOf(p) <= b
      <3>1. Touches(p, b)
        BY <2>0, <2>1 DEF Touches
      <3>2. QED
        BY <3>1, <1>m, <1>0
    <2>2. CASE b < RegionOf(p)
      <3>1. Touches(p, RegionOf(p))
        BY <2>0 DEF Touches
      <3>2. b <= RegionOf(p) /\ RegionOf(p) <= b + k - 1
        BY <2>0, <2>2, <1>0
      <3>3. QED
        BY <3>1, <3>2, <2>0, <1>m
    <2>3. QED
      BY <2>0, <2>1, <2>2
  <1>4. o \notin DOMAIN cells
    BY <1>2, <1>3, <1>p, <1>0
  <1>5. FillCell(w, o) /\ Filled(w, o)
    <2>1. FillCell(w, o)
      BY <1>1 DEF Claimed
    <2>2. QED
      BY <2>1, <1>2, <1>i, FillFills
  <1>6. /\ wk' \in [HWorkers -> WkRecs] /\ \A v \in HWorkers : wk'[v].fl = wk[v].fl /\ (v # w => wk'[v] = wk[v])
        /\ IF s > RegionG THEN wk'[w] = wk[w] ELSE wk'[w].limit = o + RegionG /\ wk'[w].bump = o + s
    <2>q. wk \in [HWorkers -> WkRecs]
      BY <1>i DEF HeapTypeOK, WkRecs
    <2>1. CASE s > RegionG
      <3>1. wk' = wk
        BY <2>1 DEF Claimed
      <3>2. QED
        BY <3>1, <2>1, <2>q
    <2>2. CASE ~(s > RegionG)
      <3> DEFINE m == o + RegionG   n == o + s   new == [wk[w] EXCEPT !.limit = m, !.bump = n]
      <3>1. wk' = [wk EXCEPT ![w] = new]
        BY <2>2, <1>1 DEF Claimed
      <3>2. m \in Nat /\ n \in Nat
        BY <1>2, <1>c, <1>s
      <3> HIDE DEF m, n
      <3>3. new \in WkRecs /\ new.limit = m /\ new.bump = n /\ new.fl = wk[w].fl
        BY <3>2, <2>q DEF WkRecs
      <3> HIDE DEF new
      <3>4. wk' \in [HWorkers -> WkRecs] /\ wk'[w] = new /\ \A v \in HWorkers : v # w => wk'[v] = wk[v]
        BY <3>1, <3>3, <2>q
      <3>5. QED
        BY <3>3, <3>4, <2>2 DEF m, n
    <2>3. QED
      BY <2>1, <2>2
  <1>o. \A x \in Regions : owner'[x] = IF b <= x /\ x <= b + k - 1 THEN w ELSE owner[x]
    BY <1>0, Consts
  <1>7. HeapTypeOK' /\ ListsHold' /\ RefsHold' /\ MarksHold' /\ SweepHolds'
    <2>1. owner' \in [Regions -> HWorkers]
      BY <1>i DEF HeapTypeOK
    <2>2. \A p \in DOMAIN cells : owner'[RegionOf(p)] = owner[RegionOf(p)]
      <3> SUFFICES ASSUME NEW p \in DOMAIN cells PROVE owner'[RegionOf(p)] = owner[RegionOf(p)]
        OBVIOUS
      <3>1. RegionOf(p) \in Regions /\ RegionOf(p) \in Nat /\ ~(b <= RegionOf(p) /\ RegionOf(p) <= b + k - 1)
        BY <1>p, <1>3, <1>c, <1>0 DEF Regions
      <3>2. QED
        BY <3>1, <1>o
    <2>3. at[w].pc # "out"
      OBVIOUS
    <2>4. QED
      BY <2>1, <2>2, <2>3, <1>2, <1>4, <1>5, <1>6, KeepsNew
  <1>8. /\ CellsHold' /\ \A y : Touches(o, y)' <=> b <= y /\ y <= b + k - 1
        /\ \A p \in DOMAIN cells : \A y : Touches(p, y)' <=> Touches(p, y)
    <2>1. b + Span(s) - 1 < jacl_region_hwm'
      <3>1. jacl_region_hwm' \in Nat
        BY <1>c DEF jacl_region_hwm
      <3>2. QED
        BY <3>1, <1>0
    <2>2. s <= RegionG => o + s <= Base(b) + RegionG
      BY <1>1, <1>2, <1>s, <1>c
    <2>3. \A p \in DOMAIN cells :
            \/ Hi(p) < b \/ b + Span(s) - 1 < RegionOf(p)
            \/ s <= RegionG /\ cells[p].size <= RegionG /\ p + cells[p].size <= o
      BY <1>3, <1>0
    <2>4. b \in Nat
      OBVIOUS
    <2>5. /\ CellsHold' /\ \A y : Touches(o, y)' <=> b <= y /\ y <= b + Span(s) - 1
          /\ \A p \in DOMAIN cells : \A y : Touches(p, y)' <=> Touches(p, y)
      BY <2>1, <2>2, <2>3, <2>4, <1>1, <1>2, <1>4, <1>5, <1>7, <1>i, <1>s, NewCell
    <2>6. QED
      BY <2>5, <1>0
  <1>d. DOMAIN cells' = DOMAIN cells \cup {o} /\ cells'[o].size = s /\ \A p \in DOMAIN cells : cells'[p] = cells[p]
    BY <1>4, <1>5 DEF Filled
  <1>h. jacl_region_hwm' \in Nat /\ jacl_region_hwm \in Nat /\ cursor \in Nat
    <2>1. jacl_region_hwm \in Nat /\ cursor \in Nat
      BY <1>i, Hwm
    <2>2. jacl_region_hwm' \in Nat
      BY <1>c DEF jacl_region_hwm
    <2>3. QED
      BY <2>1, <2>2
  <1>b. ASSUME NEW v \in HWorkers, NEW y \in Nat, HasBump(v, y)'
        PROVE  (v = w /\ s <= RegionG /\ y = b) \/ (HasBump(v, y) /\ wk'[v] = wk[v])
    <2>1. CASE v = w /\ ~(s > RegionG)
      <3>1. o + RegionG = Base(y) + RegionG /\ Base(y) \in Nat
        BY <2>1, <1>b, <1>6, BaseFacts DEF HasBump
      <3>2. Base(y) = Base(b)
        BY <3>1, <1>1, <1>2, <1>c
      <3>3. y = b
        <4>1. y < b => Base(y) + RegionG <= Base(b)
          BY BaseFacts
        <4>2. b < y => Base(b) + RegionG <= Base(y)
          BY BaseFacts
        <4>3. QED
          BY <4>1, <4>2, <3>1, <3>2, <1>c
      <3>4. QED
        BY <3>3, <2>1, <1>s, <1>c
    <2>2. CASE ~(v = w /\ ~(s > RegionG))
      <3>1. wk'[v] = wk[v]
        BY <2>2, <1>6
      <3>2. QED
        BY <3>1, <1>b DEF HasBump
    <2>3. QED
      BY <2>1, <2>2
  <1>9. RegionsHold'
    <2> SUFFICES ASSUME NEW y \in Regions PROVE FreeOK(y)' /\ ClaimOK(y)' /\ BumpOK(y)'
      BY DEF RegionsHold
    <2>0. FreeOK(y) /\ ClaimOK(y) /\ BumpOK(y) /\ y \in Nat
      BY <1>i, Consts DEF RegionsHold
    <2> DEFINE inside == b <= y /\ y <= b + k - 1
    <2>1. Touches(o, y)' <=> inside
      BY <1>8
    <2>2. ASSUME Bare(y), ~inside PROVE Bare(y)'
      <3>1. \A p \in DOMAIN cells' : ~Touches(p, y)'
        BY <2>1, <2>2, <1>8, <1>d DEF Bare
      <3>2. y < jacl_region_hwm'
        BY <2>2, <2>0, <1>h DEF Bare
      <3>3. \A v \in HWorkers : ~HasBump(v, y)'
        <4>1. ~(y = b)
          BY <2>2, <1>0
        <4>2. QED
          BY <4>1, <2>0, <2>2, <1>b DEF Bare
      <3>4. QED
        BY <3>1, <3>2, <3>3, <2>2 DEF Bare
    <2>c. \A v \in HWorkers : HasClaim(v, y)' => v # w /\ HasClaim(v, y)
      BY <1>5 DEF Filled, HasClaim
    <2>3. FreeOK(y)'
      <3> SUFFICES ASSUME rfree'[y] = 1 PROVE Bare(y)' /\ \A v \in HWorkers : ~HasClaim(v, y)'
        BY DEF FreeOK
      <3>1. rfree[y] = 1 /\ ~inside
        BY <2>0, <1>0
      <3>2. QED
        BY <3>1, <2>0, <2>2, <2>c DEF FreeOK
    <2>4. ClaimOK(y)'
      <3> SUFFICES ASSUME NEW v \in HWorkers, HasClaim(v, y)'
                   PROVE Bare(y)' /\ \A u \in HWorkers : u # v => ~HasClaim(u, y)'
        BY DEF ClaimOK
      <3>1. v # w /\ HasClaim(v, y)
        BY <2>c
      <3>2. ~inside
        BY <3>1, <2>0, <1>m
      <3>3. QED
        BY <3>1, <3>2, <2>0, <2>2, <2>c DEF ClaimOK
    <2>5. BumpOK(y)'
      <3> SUFFICES ASSUME NEW v \in HWorkers, HasBump(v, y)'
                   PROVE /\ y < jacl_region_hwm' /\ owner'[y] = v /\ Base(y) <= wk'[v].bump
                         /\ \A p \in DOMAIN cells' : Touches(p, y)' => cells'[p].size <= RegionG /\ p + cells'[p].size <= wk'[v].bump
        BY DEF BumpOK
      <3>1. CASE v = w /\ s <= RegionG /\ y = b
        <4>1. wk'[v].bump = o + s /\ o = Base(y)
          BY <3>1, <1>6, <1>1, <1>s, <1>c
        <4>2. b < jacl_region_hwm' /\ b <= b + k - 1 /\ b <= b
          BY <1>h, <1>0
        <4>3. \A p \in DOMAIN cells' : Touches(p, y)' => p = o
          BY <3>1, <4>2, <1>8, <1>d, <1>m
        <4>4. owner'[y] = w
          BY <3>1, <4>2, <1>o
        <4>5. o <= o + s
          BY <1>2, <1>s
        <4>6. o + s <= o + s
          BY <1>2, <1>s
        <4>7. QED
          BY <4>1, <4>2, <4>3, <4>4, <4>5, <4>6, <3>1, <1>d
      <3>2. CASE HasBump(v, y) /\ wk'[v] = wk[v]
        <4>1. /\ y < jacl_region_hwm /\ owner[y] = v /\ Base(y) <= wk[v].bump
              /\ \A p \in DOMAIN cells : Touches(p, y) => cells[p].size <= RegionG /\ p + cells[p].size <= wk[v].bump
          BY <3>2, <2>0 DEF BumpOK
        <4>2. ~inside
          BY <3>2, <2>0, <1>m
        <4>3. \A p \in DOMAIN cells' : Touches(p, y)' => p \in DOMAIN cells /\ Touches(p, y) /\ cells'[p] = cells[p]
          BY <4>2, <2>1, <1>8, <1>d
        <4>4. y < jacl_region_hwm' /\ owner'[y] = v
          BY <4>1, <4>2, <2>0, <1>h, <1>o
        <4>5. QED
          BY <4>1, <4>3, <4>4, <3>2
      <3>3. QED
        BY <3>1, <3>2, <1>b, <2>0
    <2>6. QED
      BY <2>3, <2>4, <2>5
  <1>10. WorkersHold'
    <2> SUFFICES ASSUME NEW v \in HWorkers PROVE WorkerOK(v)'
      BY DEF WorkersHold
    <2>g. phase' = "run" /\ WorkerOK(v)
      BY <1>i DEF gcVars, WorkersHold
    <2>1. CASE v # w
      <3>1. at'[v] = at[v] /\ wk'[v] = wk[v]
        BY <2>1, <1>5, <1>6 DEF Filled
      <3>2. at[v].r \in Nat /\ at[v].got \in Nat
        BY <1>i, AtWorkers DEF AtRecs
      <3>3. at[v].pc = "scan" => at[v].r >= 1 /\ at[v].got < Span(at[v].size) /\ (at[v].got > 0 => at[v].r + at[v].got <= jacl_region_hwm')
        BY <3>2, <2>g, <1>h DEF WorkerOK
      <3>4. QED
        BY <3>1, <3>3, <2>g DEF WorkerOK, HasBump
    <2>2. CASE v = w
      <3>1. at'[w].pc = "out"
        BY <1>5 DEF Filled
      <3>2. CASE s > RegionG
        <4>1. wk'[w] = wk[w]
          BY <3>2, <1>6
        <4>2. QED
          BY <4>1, <3>1, <2>2, <2>g DEF WorkerOK, HasBump
      <3>3. CASE ~(s > RegionG)
        <4>1. wk'[w].limit = o + RegionG /\ wk'[w].bump = o + s
          BY <3>3, <1>6
        <4>2. o + s <= o + RegionG /\ o + s > 0
          BY <3>3, <1>2, <1>s, <1>c
        <4>3. HasBump(w, b)' /\ b \in Regions
          <5>1. HasBump(w, b)'
            BY <4>1, <1>1 DEF HasBump
          <5>2. jacl_region_hwm' <= NRegions /\ NRegions \in Nat
            BY <1>c DEF jacl_region_hwm
          <5>3. QED
            BY <5>1, <5>2, <1>h, <1>0 DEF Regions
        <4>4. QED
          BY <4>1, <4>2, <4>3, <3>1, <2>2, <2>g DEF WorkerOK
      <3>4. QED
        BY <3>2, <3>3
    <2>3. QED
      BY <2>1, <2>2
  <1>11. QED
    BY <1>7, <1>8, <1>9, <1>10 DEF HeapInv

\* A step of w's scan that makes no cell: it claims, or gives back, regions that nobody uses.
LEMMA KeepsScan ==
  ASSUME HeapInv, NEW w \in HWorkers, phase = "run", at[w].pc = "scan", NEW new \in AtRecs,
         new.pc \in {"scan", "full"}, new.size = at[w].size, new.r >= 1, new.got < Span(at[w].size),
         new.got > 0 => new.r + new.got <= jacl_region_hwm,
         at' = [at EXCEPT ![w] = new], cells' = cells, ref' = ref, held' = held, wk' = wk, owner' = owner,
         cursor' \in Nat \ {0}, cursor <= cursor', UNCHANGED gcVars, rfree' \in [Regions -> {0, 1}],
         \A x \in Regions :
            \/ rfree'[x] = rfree[x] /\ (HasClaim(w, x)' => HasClaim(w, x))
            \/ rfree[x] = 1 /\ rfree'[x] = 0
            \/ HasClaim(w, x) /\ ~HasClaim(w, x)'
  PROVE  HeapInv'
  <1>i. HeapTypeOK /\ CellsHold /\ RegionsHold /\ WorkersHold /\ ListsHold
    BY DEF HeapInv
  <1>a. at \in [HWorkers -> AtRecs] /\ at'[w] = new /\ \A v \in HWorkers : v # w => at'[v] = at[v]
    BY <1>i, AtWorkers
  <1>g. phase' = "run"
    BY DEF gcVars
  <1>h. jacl_region_hwm \in Nat /\ jacl_region_hwm' \in Nat /\ jacl_region_hwm <= jacl_region_hwm'
    <2>1. cursor \in Nat /\ NRegions \in Nat /\ cursor' \in Nat
      BY <1>i, Hwm, Consts
    <2>2. QED
      BY <2>1 DEF jacl_region_hwm
  <1>s. at[w].size \in Sizes
    BY <1>i, AtWorkers
  <1>1. HeapTypeOK'
    <2>1. at' \in [HWorkers -> AtRecs]
      BY <1>a
    <2>2. \A v \in HWorkers : at'[v].pc # "out" => at'[v].size \in Sizes
      BY <1>a, <1>s, <1>i, AtWorkers
    <2>3. QED
      BY <2>1, <2>2, <1>g, <1>i DEF HeapTypeOK, gcVars, AtRecs
  <1>t. \A o, x : Touches(o, x)' <=> Touches(o, x)
    BY DEF Touches, Hi
  <1>b. \A v, x : HasBump(v, x)' <=> HasBump(v, x)
    BY DEF HasBump
  <1>2. CellsHold'
    <2>1. \A o \in DOMAIN cells : Hi(o)' = Hi(o) /\ Hi(o) \in Nat
      BY <1>i, CellFacts DEF Hi
    <2>2. \A o \in DOMAIN cells : Hi(o)' < jacl_region_hwm'
      <3>1. \A o \in DOMAIN cells : Hi(o) < jacl_region_hwm
        BY <1>i DEF CellsHold
      <3>2. QED
        BY <3>1, <2>1, <1>h
    <2>3. QED
      BY <2>1, <2>2, <1>i DEF CellsHold
  <1>3. RegionsHold'
    <2> SUFFICES ASSUME NEW x \in Regions PROVE FreeOK(x)' /\ ClaimOK(x)' /\ BumpOK(x)'
      BY DEF RegionsHold
    <2>0. FreeOK(x) /\ ClaimOK(x) /\ BumpOK(x) /\ x \in Nat
      BY <1>i, Consts DEF RegionsHold
    <2>1. Bare(x) => Bare(x)'
      <3>1. x < jacl_region_hwm => x < jacl_region_hwm'
        BY <2>0, <1>h
      <3>2. QED
        BY <3>1, <1>t, <1>b DEF Bare
    <2>2. \A v \in HWorkers : v # w => (HasClaim(v, x)' <=> HasClaim(v, x))
      BY <1>a DEF HasClaim
    <2>3. /\ rfree[x] \in {0, 1}
          /\ \/ rfree'[x] = rfree[x] /\ (HasClaim(w, x)' => HasClaim(w, x))
             \/ rfree[x] = 1 /\ rfree'[x] = 0
             \/ HasClaim(w, x) /\ ~HasClaim(w, x)'
      BY <1>i DEF HeapTypeOK
    <2>4. FreeOK(x)' /\ ClaimOK(x)'
      <3>1. CASE rfree'[x] = rfree[x] /\ (HasClaim(w, x)' => HasClaim(w, x))
        BY <3>1, <2>0, <2>1, <2>2 DEF FreeOK, ClaimOK
      <3>2. CASE rfree[x] = 1 /\ rfree'[x] = 0
        BY <3>2, <2>0, <2>1, <2>2 DEF FreeOK, ClaimOK
      <3>3. CASE HasClaim(w, x) /\ ~HasClaim(w, x)'
        BY <3>3, <2>0, <2>1, <2>2 DEF FreeOK, ClaimOK
      <3>4. QED
        BY <3>1, <3>2, <3>3, <2>3
    <2>5. BumpOK(x)'
      <3>1. x < jacl_region_hwm => x < jacl_region_hwm'
        BY <2>0, <1>h
      <3>2. QED
        BY <3>1, <2>0, <1>t, <1>b DEF BumpOK
    <2>6. QED
      BY <2>4, <2>5
  <1>4. WorkersHold'
    <2> SUFFICES ASSUME NEW v \in HWorkers PROVE WorkerOK(v)'
      BY DEF WorkersHold
    <2>0. WorkerOK(v)
      BY <1>i DEF WorkersHold
    <2>1. ASSUME NEW a \in AtRecs, at'[v] = a,
                 a.pc = "scan" => a.r >= 1 /\ a.got < Span(a.size) /\ (a.got > 0 => a.r + a.got <= jacl_region_hwm)
          PROVE  WorkerOK(v)'
      <3>1. a.r \in Nat /\ a.got \in Nat
        BY DEF AtRecs
      <3>2. a.pc = "scan" => a.r >= 1 /\ a.got < Span(a.size) /\ (a.got > 0 => a.r + a.got <= jacl_region_hwm')
        BY <3>1, <2>1, <1>h
      <3>3. QED
        BY <3>2, <2>0, <2>1, <1>g, <1>b DEF WorkerOK
    <2>2. CASE v = w
      BY <2>1, <2>2, <1>a
    <2>3. CASE v # w
      <3>1. at[v] \in AtRecs /\ at'[v] = at[v]
        BY <2>3, <1>a
      <3>2. QED
        BY <2>1, <3>1, <2>0 DEF WorkerOK
    <2>4. QED
      BY <2>2, <2>3
  <1>5. ListsHold'
    <2>1. SameLists
      BY <1>g DEF SameLists
    <2>2. QED
      BY <2>1, <1>i, KeepsLists
  <1>6. RefsHold' /\ MarksHold' /\ SweepHolds'
    BY <1>g, KeepsIdle
  <1>7. QED
    BY <1>1, <1>2, <1>3, <1>4, <1>5, <1>6 DEF HeapInv

\* Where w's scan stands.
LEMMA ScanFacts ==
  ASSUME HeapInv, NEW w \in HWorkers, at[w].pc = "scan"
  PROVE  /\ at[w] \in AtRecs /\ at[w].r \in Nat \ {0} /\ at[w].got \in Nat /\ at[w].size \in Nat \ {0}
         /\ Span(at[w].size) \in Nat \ {0} /\ at[w].got < Span(at[w].size)
         /\ (at[w].got > 0 => at[w].r + at[w].got <= jacl_region_hwm)
         /\ jacl_region_hwm \in Nat \ {0} /\ jacl_region_hwm <= NRegions /\ jacl_region_hwm <= cursor /\ cursor \in Nat \ {0}
         /\ NRegions \in Nat
  <1>i. HeapTypeOK /\ WorkersHold
    BY DEF HeapInv
  <1>1. at[w] \in AtRecs /\ at[w].r \in Nat /\ at[w].got \in Nat /\ at[w].size \in Sizes
    BY <1>i, AtWorkers DEF AtRecs
  <1>2. at[w].size \in Nat \ {0}
    BY <1>1, Consts
  <1>3. WorkerOK(w)
    BY <1>i DEF WorkersHold
  <1>4. at[w].r >= 1 /\ at[w].got < Span(at[w].size) /\ (at[w].got > 0 => at[w].r + at[w].got <= jacl_region_hwm)
    BY <1>3 DEF WorkerOK
  <1>5. at[w].r \in Nat \ {0}
    BY <1>1, <1>4
  <1>6. Span(at[w].size) \in Nat \ {0}
    BY <1>2, SpanFacts
  <1>7. QED
    BY <1>1, <1>2, <1>4, <1>5, <1>6, <1>i, Hwm, Consts

\* A scan takes free regions only, and the ones it holds are nobody else's when the run is complete.
LEMMA Keeps_GrabScan ==
  ASSUME HeapInv, NEW w \in HWorkers, GrabScan(w)
  PROVE  HeapInv'
  <1>i. HeapTypeOK /\ RegionsHold
    BY DEF HeapInv
  <1>1. PICK r, got, s, k : r = at[w].r /\ got = at[w].got /\ s = at[w].size /\ k = Span(s)
    OBVIOUS
  <1>2. phase = "run" /\ at[w].pc = "scan" /\ r + k <= jacl_region_hwm /\ cursor' = cursor /\ UNCHANGED gcVars
    BY <1>1 DEF GrabScan
  <1>3. /\ at[w] \in AtRecs /\ r \in Nat \ {0} /\ got \in Nat /\ k \in Nat \ {0} /\ got < k
        /\ jacl_region_hwm \in Nat /\ jacl_region_hwm <= NRegions /\ cursor \in Nat \ {0} /\ NRegions \in Nat
    BY <1>1, <1>2, ScanFacts
  <1>h. jacl_region_hwm' = jacl_region_hwm
    BY <1>2 DEF jacl_region_hwm
  <1>4. PICK y : y = r + got
    OBVIOUS
  <1>5. y \in Regions /\ y \in Nat /\ y < jacl_region_hwm
    <2>1. y \in Nat /\ y < r + k
      BY <1>3, <1>4
    <2>2. QED
      BY <2>1, <1>2, <1>3 DEF Regions
  <1>6. rfree \in [Regions -> {0, 1}]
    BY <1>i DEF HeapTypeOK
  <1>c. \A x \in Regions : x \in Nat /\ (HasClaim(w, x) <=> r <= x /\ x < r + got)
    BY <1>1, <1>2, Consts DEF HasClaim
  <1>7. CASE rfree[y] = 1 /\ got + 1 = k
    <2>1. /\ rfree' = [rfree EXCEPT ![y] = 0] /\ Claimed(w, r)
          /\ owner' = [x \in Regions |-> IF x \in r .. r + k - 1 THEN w ELSE owner[x]]
      BY <1>1, <1>4, <1>7 DEF GrabScan
    <2>2. rfree' \in [Regions -> {0, 1}] /\ rfree'[y] = 0 /\ \A x \in Regions : x # y => rfree'[x] = rfree[x]
      BY <2>1, <1>5, <1>6
    <2>3. ASSUME NEW x \in r .. r + k - 1 PROVE x \in Regions /\ (x = y \/ HasClaim(w, x))
      <3>1. x \in Nat /\ r <= x /\ x <= y
        BY <1>3, <1>4, <1>7
      <3>2. x \in Regions
        BY <3>1, <1>5, <1>3 DEF Regions
      <3>3. QED
        BY <3>1, <3>2, <1>c, <1>4, <1>3
    <2>4. ASSUME NEW x \in Regions, rfree'[x] = 1 PROVE rfree[x] = 1 /\ x \notin r .. r + k - 1
      <3>1. x # y /\ rfree[x] = 1
        BY <2>2, <2>4
      <3>2. ~HasClaim(w, x)
        BY <3>1, <1>i DEF RegionsHold, FreeOK
      <3>3. QED
        BY <3>1, <3>2, <2>3
    <2>5. ASSUME NEW x \in r .. r + k - 1
          PROVE  /\ \A p \in DOMAIN cells : ~Touches(p, x)
                 /\ \A v \in HWorkers : ~HasBump(v, x) /\ (v # w => ~HasClaim(v, x))
      <3>0. x \in Regions /\ FreeOK(x) /\ ClaimOK(x)
        BY <2>3, <1>i DEF RegionsHold
      <3>1. CASE x = y
        BY <3>0, <3>1, <1>7 DEF FreeOK, Bare
      <3>2. CASE HasClaim(w, x)
        BY <3>0, <3>2 DEF ClaimOK, Bare
      <3>3. QED
        BY <3>1, <3>2, <2>3
    <2>6. jacl_region_hwm <= jacl_region_hwm' /\ r + Span(s) <= jacl_region_hwm' /\ cursor' \in Nat \ {0}
      BY <1>1, <1>2, <1>3, <1>h
    <2>k. k = Span(s) /\ s = at[w].size
      BY <1>1
    <2>7. QED
      BY <2>1, <2>2, <2>4, <2>5, <2>6, <2>k, <1>2, <1>3, KeepsClaimed
  <1>8. CASE rfree[y] = 1 /\ got + 1 # k
    <2> DEFINE n == got + 1   new == [at[w] EXCEPT !.got = n]
    <2>1. /\ rfree' = [rfree EXCEPT ![y] = 0] /\ at' = [at EXCEPT ![w] = new]
          /\ UNCHANGED <<cells, ref, held, wk, owner>>
      BY <1>1, <1>4, <1>8 DEF GrabScan
    <2>2. rfree' \in [Regions -> {0, 1}] /\ rfree'[y] = 0 /\ \A x \in Regions : x # y => rfree'[x] = rfree[x]
      BY <2>1, <1>5, <1>6
    <2>3. n \in Nat /\ n < k /\ r + n <= jacl_region_hwm
      BY <1>2, <1>3, <1>8
    <2> HIDE DEF n
    <2>4. /\ new \in AtRecs /\ new.pc = "scan" /\ new.size = s /\ new.r = r /\ new.got = n
      BY <2>3, <1>1, <1>2, <1>3 DEF AtRecs
    <2> HIDE DEF new
    <2>5. at'[w] = new
      BY <2>1, <1>i, AtWorkers
    <2>6. ASSUME NEW x \in Regions PROVE (rfree'[x] = rfree[x] /\ (HasClaim(w, x)' => HasClaim(w, x))) \/ (rfree[x] = 1 /\ rfree'[x] = 0)
      <3>1. CASE x = y
        BY <3>1, <2>2, <1>8
      <3>2. CASE x # y
        <4>1. HasClaim(w, x)' => r <= x /\ x < r + n
          BY <2>4, <2>5 DEF HasClaim
        <4>2. x \in Nat /\ (r <= x /\ x < r + n => r <= x /\ x < r + got)
          BY <3>2, <1>c, <1>3, <1>4 DEF n
        <4>3. QED
          BY <4>1, <4>2, <3>2, <2>2, <1>c
      <3>3. QED
        BY <3>1, <3>2
    <2>7. new.pc \in {"scan", "full"} /\ new.size = at[w].size /\ new.r >= 1 /\ new.got < Span(at[w].size)
          /\ (new.got > 0 => new.r + new.got <= jacl_region_hwm)
      BY <2>3, <2>4, <1>1, <1>3
    <2>8. cursor' \in Nat \ {0} /\ cursor <= cursor'
      BY <1>2, <1>3
    <2>9. QED
      BY <2>1, <2>2, <2>4, <2>6, <2>7, <2>8, <1>2, KeepsScan
  <1>9. CASE rfree[y] # 1
    <2> DEFINE n == r + got + 1   new == [at[w] EXCEPT !.r = n, !.got = 0]
    <2>1. /\ rfree' = [x \in Regions |-> IF x \in r .. r + got - 1 THEN 1 ELSE rfree[x]] /\ at' = [at EXCEPT ![w] = new]
          /\ UNCHANGED <<cells, ref, held, wk, owner>>
      BY <1>1, <1>4, <1>9 DEF GrabScan
    <2>2. rfree' \in [Regions -> {0, 1}]
      BY <2>1, <1>6
    <2>3. n \in Nat /\ n >= 1
      BY <1>3
    <2> HIDE DEF n
    <2>4. /\ new \in AtRecs /\ new.pc = "scan" /\ new.size = s /\ new.r = n /\ new.got = 0
      BY <2>3, <1>1, <1>2, <1>3 DEF AtRecs
    <2> HIDE DEF new
    <2>5. at'[w] = new
      BY <2>1, <1>i, AtWorkers
    <2>6. ASSUME NEW x \in Regions
          PROVE  \/ rfree'[x] = rfree[x] /\ (HasClaim(w, x)' => HasClaim(w, x))
                 \/ HasClaim(w, x) /\ ~HasClaim(w, x)'
      <3>1. ~HasClaim(w, x)'
        <4>1. HasClaim(w, x)' => n <= x /\ x < n + 0
          BY <2>4, <2>5 DEF HasClaim
        <4>2. x \in Nat
          BY <1>c
        <4>3. QED
          BY <4>1, <4>2, <2>3
      <3>2. CASE x \in r .. r + got - 1
        BY <3>1, <3>2, <1>c, <1>3
      <3>3. CASE x \notin r .. r + got - 1
        BY <3>1, <3>3, <2>1
      <3>4. QED
        BY <3>2, <3>3
    <2>7. new.pc \in {"scan", "full"} /\ new.size = at[w].size /\ new.r >= 1 /\ new.got < Span(at[w].size)
          /\ (new.got > 0 => new.r + new.got <= jacl_region_hwm)
      BY <2>3, <2>4, <1>1, <1>3
    <2>8. cursor' \in Nat \ {0} /\ cursor <= cursor'
      BY <1>2, <1>3
    <2>9. QED
      BY <2>1, <2>2, <2>4, <2>6, <2>7, <2>8, <1>2, KeepsScan
  <1>10. QED
    BY <1>7, <1>8, <1>9

\* Fresh regions lie past every region in use, also after failed claims moved the cursor.
LEMMA Keeps_GrabFresh ==
  ASSUME HeapInv, NEW w \in HWorkers, GrabFresh(w)
  PROVE  HeapInv'
  <1>i. HeapTypeOK /\ CellsHold /\ RegionsHold /\ WorkersHold
    BY DEF HeapInv
  <1>1. PICK s, k, c : s = at[w].size /\ k = Span(s) /\ c = cursor
    OBVIOUS
  <1>2. /\ phase = "run" /\ at[w].pc = "scan" /\ rfree' = rfree /\ UNCHANGED gcVars
        /\ cursor' = IF c > NRegions THEN c ELSE c + k
    BY <1>1 DEF GrabFresh
  <1>3. /\ at[w] \in AtRecs /\ k \in Nat \ {0} /\ c \in Nat \ {0} /\ NRegions \in Nat
        /\ at[w].r \in Nat \ {0} /\ at[w].got < k /\ (at[w].got > 0 => at[w].r + at[w].got <= jacl_region_hwm)
    BY <1>1, <1>2, ScanFacts
  <1>4. cursor' \in Nat \ {0} /\ cursor <= cursor'
    BY <1>1, <1>2, <1>3
  <1>6. rfree' \in [Regions -> {0, 1}]
    BY <1>i, <1>2 DEF HeapTypeOK
  <1>7. CASE c + k > NRegions
    <2> DEFINE new == [at[w] EXCEPT !.pc = "full"]
    <2>1. at' = [at EXCEPT ![w] = new] /\ UNCHANGED <<cells, ref, held, wk, owner>>
      BY <1>1, <1>7 DEF GrabFresh
    <2>2. new \in AtRecs /\ new.pc = "full" /\ new.size = at[w].size /\ new.r = at[w].r /\ new.got = at[w].got
      BY <1>3 DEF AtRecs
    <2> HIDE DEF new
    <2>3. \A x \in Regions : ~HasClaim(w, x)'
      BY <2>1, <2>2, <1>i, AtWorkers DEF HasClaim
    <2>4. new.pc \in {"scan", "full"} /\ new.r >= 1 /\ new.got < Span(at[w].size)
          /\ (new.got > 0 => new.r + new.got <= jacl_region_hwm)
      BY <2>2, <1>1, <1>3
    <2>5. QED
      BY <2>1, <2>2, <2>3, <2>4, <1>2, <1>4, <1>6, KeepsScan
  <1>8. CASE ~(c + k > NRegions)
    <2>1. /\ Claimed(w, c) /\ owner' = [x \in Regions |-> IF x \in c .. c + k - 1 THEN w ELSE owner[x]]
      BY <1>1, <1>8 DEF GrabFresh
    <2>2. jacl_region_hwm = c /\ cursor' = c + k /\ jacl_region_hwm' = c + k
      <3>1. c <= NRegions /\ c + k <= NRegions
        BY <1>3, <1>8
      <3>2. cursor' = c + k
        BY <3>1, <1>2, <1>3
      <3>3. QED
        BY <3>1, <3>2, <1>1, <1>3 DEF jacl_region_hwm
    <2>3. ASSUME NEW x \in c .. c + k - 1
          PROVE  /\ x \in Regions /\ ~Bare(x) /\ rfree[x] # 1
                 /\ \A p \in DOMAIN cells : ~Touches(p, x)
                 /\ \A v \in HWorkers : ~HasBump(v, x) /\ ~HasClaim(v, x)
      <3>1. x \in Nat /\ ~(x < jacl_region_hwm) /\ x \in Regions
        BY <2>2, <1>3, <1>8 DEF Regions
      <3>2. ~Bare(x) /\ FreeOK(x) /\ ClaimOK(x) /\ BumpOK(x)
        BY <3>1, <1>i DEF Bare, RegionsHold
      <3>3. \A p \in DOMAIN cells : ~Touches(p, x)
        <4>1. \A p \in DOMAIN cells : Hi(p) < jacl_region_hwm /\ Hi(p) \in Nat
          BY <1>i, CellFacts DEF CellsHold
        <4>2. QED
          BY <4>1, <3>1, <2>2, <1>3 DEF Touches
      <3>4. \A v \in HWorkers : ~HasBump(v, x) /\ ~HasClaim(v, x)
        BY <3>1, <3>2 DEF ClaimOK, BumpOK
      <3>5. rfree[x] # 1
        BY <3>2 DEF FreeOK
      <3>6. QED
        BY <3>1, <3>2, <3>3, <3>4, <3>5
    <2>4. jacl_region_hwm <= jacl_region_hwm' /\ c + Span(s) <= jacl_region_hwm'
      BY <2>2, <1>1, <1>3
    <2>5. \A x \in Regions : rfree'[x] = 1 => rfree[x] = 1 /\ x \notin c .. c + k - 1
      BY <2>3, <1>2
    <2>k. k = Span(s) /\ s = at[w].size
      BY <1>1
    <2>6. QED
      BY <2>1, <2>3, <2>4, <2>5, <2>k, <1>2, <1>3, <1>4, <1>6, KeepsClaimed
  <1>9. QED
    BY <1>7, <1>8

\* The words on the stacks fit the root buffer, so no root is left out.
RootsFit == Cardinality(held) <= RootCap

\* A step of another component.
LEMMA Keeps_Stutter ==
  ASSUME HeapInv, UNCHANGED heapVars
  PROVE  HeapInv'
  <1>1. /\ cells' = cells /\ ref' = ref /\ cursor' = cursor /\ owner' = owner /\ rfree' = rfree /\ wk' = wk /\ at' = at
        /\ held' = held /\ phase' = phase /\ gcw' = gcw /\ todo' = todo /\ stack' = stack /\ overflow' = overflow
        /\ scanAt' = scanAt /\ sweepR' = sweepR /\ swept' = swept
    BY DEF heapVars
  <1>2. HeapTypeOK'
    BY <1>1 DEF HeapInv, HeapTypeOK
  <1>t. \A o, x : (Touches(o, x)' <=> Touches(o, x)) /\ Hi(o)' = Hi(o)
    BY <1>1 DEF Touches, Hi
  <1>h. jacl_region_hwm' = jacl_region_hwm
    BY <1>1 DEF jacl_region_hwm
  <1>3. CellsHold'
    BY <1>1, <1>t, <1>h DEF HeapInv, CellsHold
  <1>4. SameCells /\ SameAreas /\ SameClaims
    BY <1>1 DEF SameCells, SameAreas, SameClaims, HasClaim
  <1>5. RegionsHold'
    BY <1>4, KeepsRegions DEF HeapInv
  <1>6. WorkersHold'
    <2>1. \A v \in HWorkers : WorkerOK(v)'
      BY <1>1, <1>4, KeepsWorker DEF HeapInv
    <2>2. QED
      BY <2>1 DEF WorkersHold
  <1>7. ListsHold'
    <2>1. \A o, w, c : InList(o, w, c)' <=> InList(o, w, c)
      BY <1>1 DEF InList
    <2>2. QED
      BY <1>1, <2>1 DEF HeapInv, ListsHold
  <1>m. \A word : (ToLive(word)' <=> ToLive(word)) /\ (ToMarked(word)' <=> ToMarked(word))
    BY <1>1 DEF ToLive, ToMarked, Points, Live, Cell
  <1>8. RefsHold'
    BY <1>1, <1>m DEF HeapInv, RefsHold, Refers
  <1>9. MarksHold'
    BY <1>1, <1>m DEF HeapInv, MarksHold, Marked, Refers, Live
  <1>10. SweepHolds'
    BY <1>1, <1>m, <1>t, <1>h DEF HeapInv, SweepHolds, Refers, Live
  <1>11. QED
    BY <1>2, <1>3, <1>5, <1>6, <1>7, <1>8, <1>9, <1>10 DEF HeapInv

\* Every step of the heap keeps the inductive invariant.
LEMMA HeapStep ==
  ASSUME Reach, HeapInv, RootsFit, [HeapNext]_heapVars
  PROVE  HeapInv'
  <1>1. ASSUME NEW w \in HWorkers, NEW s \in NodeSizes, jacl_alloc(w, s, "node") PROVE HeapInv'
    BY <1>1, Keeps_alloc DEF Sizes
  <1>2. ASSUME NEW w \in HWorkers, NEW s \in BlobSizes, jacl_alloc(w, s, "blob") PROVE HeapInv'
    BY <1>2, Keeps_alloc DEF Sizes
  <1>3. ASSUME NEW w \in HWorkers, FromFreeList(w) PROVE HeapInv'
    BY <1>3, Keeps_FromFreeList
  <1>4. ASSUME NEW w \in HWorkers, Bump(w) PROVE HeapInv'
    BY <1>4, Keeps_Bump
  <1>5. ASSUME NEW w \in HWorkers, StartGrab(w) PROVE HeapInv'
    BY <1>5, Keeps_StartGrab
  <1>6. ASSUME NEW w \in HWorkers, GrabScan(w) PROVE HeapInv'
    BY <1>6, Keeps_GrabScan
  <1>7. ASSUME NEW w \in HWorkers, GrabFresh(w) PROVE HeapInv'
    BY <1>7, Keeps_GrabFresh
  <1>8. ASSUME NEW w \in HWorkers, Exhausted(w) PROVE HeapInv'
    BY <1>8, Keeps_Exhausted
  <1>9. ASSUME NEW w \in HWorkers, CollectStart(w) PROVE HeapInv'
    BY <1>9, Keeps_CollectStart DEF RootsFit
  <1>10. ASSUME NEW o \in held, Drop(o) PROVE HeapInv'
    BY <1>10, Keeps_Drop
  <1>11. ASSUME NEW o \in held, Interior(o) PROVE HeapInv'
    BY <1>11, Keeps_Interior
  <1>12. ASSUME NEW o \in held, NEW word \in held, Store(o, word) PROVE HeapInv'
    BY <1>12, Keeps_Store
  <1>13. CASE PushRoot
    BY <1>13, Keeps_PushRoot
  <1>14. CASE RootsDone
    BY <1>14, Keeps_RootsDone
  <1>15. CASE Drain
    BY <1>15, Keeps_Drain
  <1>16. CASE mark_rescan
    BY <1>16, Keeps_mark_rescan
  <1>17. CASE RescanCell
    BY <1>17, Keeps_RescanCell
  <1>18. CASE SweepStart
    BY <1>18, Keeps_SweepStart
  <1>19. CASE SweepRegion
    BY <1>19, Keeps_SweepRegion
  <1>20. CASE CollectEnd
    BY <1>20, Keeps_CollectEnd
  <1>21. CASE UNCHANGED heapVars
    BY <1>21, Keeps_Stutter
  <1>22. QED
    BY <1>1, <1>2, <1>3, <1>4, <1>5, <1>6, <1>7, <1>8, <1>9, <1>10, <1>11, <1>12, <1>13, <1>14, <1>15, <1>16, <1>17,
       <1>18, <1>19, <1>20, <1>21 DEF HeapNext

\* HeapInv holds throughout, for every number of workers, regions, sizes and every capacity of the mark stack,
\* while the roots fit the root buffer (heap_gc.c:535) and no cell is longer than the backward scan for its start
\* (heap_gc.c:404).
THEOREM HeapInvariant ==
  ASSUME Reach
  PROVE  HeapSpec /\ []RootsFit => []HeapInv
  <1>1. HeapInit => HeapInv
    BY InitInv
  <1>2. HeapInv /\ RootsFit /\ [HeapNext]_heapVars => HeapInv'
    BY HeapStep
  <1>3. QED
    BY <1>1, <1>2, PTL DEF HeapSpec

\* HeapSound: under the same two conditions what a program holds survives every collection, no two objects share
\* memory, the lists hold free cells of their owner once, and a sweep loses no region.
THEOREM HeapIsSound ==
  ASSUME Reach
  PROVE  HeapSpec /\ []RootsFit => []HeapSound
  <1>1. HeapSpec /\ []RootsFit => []HeapInv
    BY HeapInvariant
  <1>2. HeapInv => HeapSound
    BY InvSound
  <1>3. QED
    BY <1>1, <1>2, PTL
=============================================================================

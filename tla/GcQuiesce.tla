------------------------------ MODULE GcQuiesce ------------------------------
(***************************************************************************)
(* The stop-the-world protocol of the TEMEN runtime's collector            *)
(* (runtime/heap_gc.c).  Each worker is a vCPU on its own OS thread.  A    *)
(* worker runs task fibers; a task that finds no room in the heap elects   *)
(* itself collector with a CAS on jacl_gc_lock, raises jacl_gc_epoch and,  *)
(* because it must not wait inside a fiber, hands the collection to its    *)
(* own bare scheduler loop.  The loop waits for every other registered     *)
(* worker to suspend its task and park for that epoch, sweeps, and         *)
(* publishes jacl_gc_done.                                                 *)
(*                                                                         *)
(* Every access to a word another worker writes is a step of its own.      *)
(* Words only their own worker writes (in_task, handoff, "am I the         *)
(* collector") are read in the step of the next shared access.             *)
(***************************************************************************)
EXTENDS Integers, FiniteSets

CONSTANTS
  NWorkers,   \* vCPUs of the pool: main is worker 0
  MaxTries,   \* collections one allocation asks for (64 in jacl_alloc)
  Cells,      \* cells of the heap
  MaxAllocs   \* bound: allocations of the whole run

ASSUME GcAssumption ==
  /\ NWorkers \in Nat \ {0}
  /\ MaxTries \in Nat \ {0}
  /\ Cells \in Nat
  /\ MaxAllocs \in Nat

VARIABLES
  active,     \* jacl_gc_active: the workers in the quiesce set
  parked,     \* jacl_gc_parked: highest epoch each worker parked for
  inTask,     \* jacl_gc_in_task: the worker is running a task fiber
  handoff,    \* jacl_gc_handoff: its task left it a collection to run
  epoch, done, lock, collector, stopped,  \* jacl_gc_<name>
  violations, \* jacl_gc_violations
  room,       \* free cells: free lists, bump regions and the region pool
  allocs,     \* allocations begun so far
  started,    \* jacl_pool_started: the pool's threads were spawned
  shutdown,   \* jacl_pool_shutdown: the root job is done
  pc,         \* where each vCPU is
  cont,       \* where its GC-suspended task fiber resumes, or "none"
  ep,         \* the epoch a worker loaded (e in park, safepoint and sweep)
  bar,        \* the collector's place in the barrier loop
  tries,      \* jacl_alloc's tries
  res         \* what jacl_gc_collect returns (jacl_gc_swept across a suspend)

shared == <<active, parked, handoff, epoch, done, lock, collector, stopped>>
heap   == <<violations, room, allocs>>
pool   == <<started, shutdown>>
local  == <<cont, ep, bar, tries, res>>
vars   == <<shared, heap, pool, local, inTask, pc>>

Workers == 0 .. NWorkers - 1
NoOne   == -1

\* A vCPU's program counter, by the function it is in.
Away     == {"new", "join", "off", "exit"}           \* outside the quiesce set
InPark   == {"top", "pDone", "pPub", "pWait"}        \* jacl_gc_worker_park_if_requested
InAlloc  == {"sEpoch", "sDone", "aOff", "aMut", "aRetry"} \* jacl_alloc and its safepoint
InElect  == {"cCas", "cColl", "cEpoch", "cHand"}     \* jacl_gc_collect
InSweep  == {"qBar", "qStop", "qSweep", "qOpen", "qColl", "qDone", "qUnlock"}
PCs      == Away \cup InPark \cup InAlloc \cup InElect \cup InSweep
              \cup {"boot", "go", "task", "susp", "trap"}

Go(w, l) == pc' = [pc EXCEPT ![w] = l]
At(w, l) == pc[w] = l

\* Where a fiber's (or, in a bare context, the thread's) code after an
\* allocation goes on.
Back(w) == IF inTask[w] = 1 THEN "task" ELSE "boot"

\* jacl_heap_init: main is worker 0 and joins the quiesce set.
Init ==
  /\ active = [w \in Workers |-> IF w = 0 THEN 1 ELSE 0]
  /\ parked = [w \in Workers |-> 0]
  /\ inTask = [w \in Workers |-> 0]
  /\ handoff = [w \in Workers |-> 0]
  /\ epoch = 0 /\ done = 0 /\ lock = 0 /\ collector = NoOne /\ stopped = 0
  /\ violations = 0 /\ room = Cells /\ allocs = 0
  /\ started = FALSE /\ shutdown = FALSE
  /\ pc = [w \in Workers |-> IF w = 0 THEN "boot" ELSE "new"]
  /\ cont = [w \in Workers |-> "none"]
  /\ ep = [w \in Workers |-> 0]
  /\ bar = [w \in Workers |-> 0]
  /\ tries = [w \in Workers |-> 0]
  /\ res = [w \in Workers |-> 0]

-----------------------------------------------------------------------------
(* Worker lifecycle *)

\* jacl_sched_run_main: main has queued the root job and enters its loop.
EnterLoop(w) ==
  /\ At(w, "boot") /\ ~shutdown
  /\ Go(w, "top")
  /\ UNCHANGED <<shared, heap, pool, local, inTask>>

\* pool_ensure, on the first concurrent construct: a task on main starts the pool.
pool_ensure(w) ==
  /\ w = 0 /\ At(w, "task") /\ ~started
  /\ started' = TRUE
  /\ UNCHANGED <<shared, heap, shutdown, local, inTask, pc>>

\* worker_thread begins: the worker joins the quiesce set.
jacl_gc_worker_register(w) ==
  /\ At(w, "new") /\ started
  /\ inTask' = [inTask EXCEPT ![w] = 0]
  /\ active' = [active EXCEPT ![w] = 1]
  /\ Go(w, "top")
  /\ UNCHANGED <<parked, handoff, epoch, done, lock, collector, stopped, heap, pool, local>>

\* Mutant: the worker exits without leaving the quiesce set.
MutUnregisterStaysActive(w) ==
  /\ At(w, "go") /\ cont[w] = "none" /\ shutdown
  /\ Go(w, IF w = 0 THEN "join" ELSE "off")
  /\ UNCHANGED <<shared, heap, pool, local, inTask>>

\* The loop ends, main's and the others', once the root job is done: the
\* worker leaves the set.
jacl_gc_worker_unregister(w) ==
  /\ At(w, "go") /\ cont[w] = "none" /\ shutdown
  /\ active' = [active EXCEPT ![w] = 0]
  /\ Go(w, IF w = 0 THEN "join" ELSE "off")
  /\ UNCHANGED <<parked, handoff, epoch, done, lock, collector, stopped, heap, pool, local, inTask>>

\* __vm_thread_join returned for every pool thread; main registers again and
\* goes on in its bare context (it prints an uncaught error, which allocates).
JoinAll(w) ==
  /\ At(w, "join")
  /\ started => \A i \in Workers \ {w} : At(i, "off")
  /\ inTask' = [inTask EXCEPT ![w] = 0]
  /\ active' = [active EXCEPT ![w] = 1]
  /\ Go(w, "boot")
  /\ UNCHANGED <<parked, handoff, epoch, done, lock, collector, stopped, heap, pool, local>>

\* jacl_sched_run_main returns.
MainReturns(w) ==
  /\ At(w, "boot") /\ shutdown
  /\ Go(w, "exit")
  /\ UNCHANGED <<shared, heap, pool, local, inTask>>

\* No ready job: the loop waits (at most 1 ms) and starts over.
Idle(w) ==
  /\ At(w, "go") /\ cont[w] = "none"
  /\ Go(w, "top")
  /\ UNCHANGED <<shared, heap, pool, local, inTask>>

\* task_begin and the resume of a fiber: a new slice, or a fiber a safepoint suspended.
jacl_gc_task_begin(w) ==
  /\ At(w, "go")
  /\ inTask' = [inTask EXCEPT ![w] = 1]
  /\ cont' = [cont EXCEPT ![w] = "none"]
  /\ Go(w, IF cont[w] = "none" THEN "task" ELSE cont[w])
  /\ UNCHANGED <<shared, heap, pool, ep, bar, tries, res>>

\* The slice ends, by return, await or wait, or by a GC suspend ("susp"):
\* task_end, and back to the loop.  Main's may have been the root job's last:
\* its completion shuts the pool down.
jacl_gc_task_end(w) ==
  /\ pc[w] \in {"task", "susp"}
  /\ inTask' = [inTask EXCEPT ![w] = 0]
  /\ shutdown' \in {shutdown, shutdown \/ (w = 0 /\ At(w, "task"))}
  /\ Go(w, "top")
  /\ UNCHANGED <<shared, heap, started, local>>

-----------------------------------------------------------------------------
(* jacl_gc_worker_park_if_requested *)

\* A handed-off collection is run here; the collector never parks; else load
\* the epoch.  (In-task calls return at once: bare contexts only come here.)
ParkEnter(w) ==
  /\ At(w, "top")
  /\ \/ /\ handoff[w] = 1
        /\ handoff' = [handoff EXCEPT ![w] = 0]
        /\ ep' = [ep EXCEPT ![w] = epoch]
        /\ bar' = [bar EXCEPT ![w] = 0]
        /\ Go(w, "qBar")
     \/ /\ handoff[w] = 0
        /\ IF collector = w
             THEN Go(w, "go") /\ UNCHANGED ep
             ELSE Go(w, "pDone") /\ ep' = [ep EXCEPT ![w] = epoch]
        /\ UNCHANGED <<handoff, bar>>
  /\ UNCHANGED <<active, parked, epoch, done, lock, collector, stopped, heap, pool, cont, tries, res, inTask>>

\* No collection in progress: return to the loop.
ParkCheck(w) ==
  /\ At(w, "pDone")
  /\ Go(w, IF ep[w] = done THEN "go" ELSE "pPub")
  /\ UNCHANGED <<shared, heap, pool, local, inTask>>

\* Publish "parked for epoch e".
ParkPublish(w) ==
  /\ At(w, "pPub")
  /\ parked' = [parked EXCEPT ![w] = ep[w]]
  /\ Go(w, "pWait")
  /\ UNCHANGED <<active, handoff, epoch, done, lock, collector, stopped, heap, pool, local, inTask>>

\* Mutant: the parked worker does not wait for the collection's end.
MutParkNoWait(w) ==
  /\ At(w, "pWait")
  /\ Go(w, "go")
  /\ UNCHANGED <<shared, heap, pool, local, inTask>>

\* Wait until done is exactly e: a done that moved past e would never wake it.
ParkWake(w) ==
  /\ At(w, "pWait") /\ done = ep[w]
  /\ Go(w, "go")
  /\ UNCHANGED <<shared, heap, pool, local, inTask>>

-----------------------------------------------------------------------------
(* jacl_alloc *)

\* jacl_alloc entered, from a task or from main's bare context.
AllocEnter(w) ==
  /\ pc[w] \in {"task", "boot"} /\ allocs < MaxAllocs
  /\ allocs' = allocs + 1
  /\ tries' = [tries EXCEPT ![w] = 0]
  /\ res' = [res EXCEPT ![w] = 0]
  /\ Go(w, "sEpoch")
  /\ UNCHANGED <<shared, violations, room, pool, cont, ep, bar, inTask>>

\* jacl_gc_safepoint returns to jacl_alloc: at its entry res is 0, in a
\* jacl_gc_collect that lost the election it is -1.
AfterSafepoint(w) == IF res[w] = -1 THEN "aRetry" ELSE "aOff"

\* jacl_gc_safepoint: load the epoch, then done; with a collection in
\* progress, suspend the fiber (a bare caller and the collector go on).
SafepointLoad(w) ==
  /\ At(w, "sEpoch")
  /\ ep' = [ep EXCEPT ![w] = epoch]
  /\ Go(w, "sDone")
  /\ UNCHANGED <<shared, heap, pool, cont, bar, tries, res, inTask>>

jacl_gc_safepoint(w) ==
  /\ At(w, "sDone")
  /\ IF ep[w] = done \/ inTask[w] = 0 \/ collector = w
       THEN Go(w, AfterSafepoint(w)) /\ UNCHANGED cont
       ELSE Go(w, "susp") /\ cont' = [cont EXCEPT ![w] = AfterSafepoint(w)]
  /\ UNCHANGED <<shared, heap, pool, ep, bar, tries, res, inTask>>

\* jacl_alloc_off: the probe, then a cell from this worker's lists, its
\* region or the pool, or none.
jacl_alloc_off(w) ==
  /\ At(w, "aOff")
  /\ violations' = violations + (IF stopped = 1 /\ collector # w THEN 1 ELSE 0)
  /\ \/ /\ room > 0
        /\ room' = room - 1
        /\ Go(w, "aMut")
     \/ /\ room = 0
        /\ room' = room
        /\ Go(w, "cCas")
  /\ UNCHANGED <<shared, allocs, pool, local, inTask>>

\* The header, the payload and the start bit of the new cell are written.
AllocFill(w) ==
  /\ At(w, "aMut")
  /\ Go(w, Back(w))
  /\ UNCHANGED <<shared, heap, pool, local, inTask>>

\* After a jacl_gc_collect: jacl_alloc_off again, and when there is still no
\* room give up (we collected and reclaimed nothing, or the tries ran out) or
\* ask for another collection.
AllocRetry(w) ==
  /\ At(w, "aRetry")
  /\ violations' = violations + (IF stopped = 1 /\ collector # w THEN 1 ELSE 0)
  /\ tries' = [tries EXCEPT ![w] = @ + 1]
  /\ \/ /\ room > 0
        /\ room' = room - 1
        /\ Go(w, "aMut")
     \/ /\ room = 0 /\ (res[w] = 0 \/ tries[w] + 1 >= MaxTries)
        /\ room' = room
        /\ Go(w, "trap")                       \* jacl_heap_exhausted
     \/ /\ room = 0 /\ res[w] # 0 /\ tries[w] + 1 < MaxTries
        /\ room' = room
        /\ Go(w, "cCas")
  /\ UNCHANGED <<shared, allocs, pool, cont, ep, bar, res, inTask>>

-----------------------------------------------------------------------------
(* jacl_gc_collect: the election *)

\* Mutant: the lock is taken without looking whether it is free.
MutElectNoCas(w) ==
  /\ At(w, "cCas")
  /\ lock' = 1
  /\ Go(w, "cColl")
  /\ UNCHANGED <<active, parked, handoff, epoch, done, collector, stopped, heap, pool, local, inTask>>

\* Mutant: a worker that loses the election has requested a stop all the same.
MutElectBumpsEpoch(w) ==
  /\ At(w, "cCas")
  /\ \/ /\ lock = 0
        /\ lock' = 1
        /\ Go(w, "cColl")
        /\ UNCHANGED <<epoch, res>>
     \/ /\ lock = 1
        /\ lock' = lock
        /\ epoch' = epoch + 1
        /\ res' = [res EXCEPT ![w] = -1]
        /\ Go(w, "sEpoch")
  /\ UNCHANGED <<active, parked, handoff, done, collector, stopped, heap, pool, cont, ep, bar, tries, inTask>>

CollectElect(w) ==
  /\ At(w, "cCas")
  /\ \/ /\ lock = 0
        /\ lock' = 1
        /\ Go(w, "cColl")
        /\ UNCHANGED res
     \/ /\ lock = 1
        /\ lock' = lock
        /\ res' = [res EXCEPT ![w] = -1]
        /\ Go(w, "sEpoch")
  /\ UNCHANGED <<active, parked, handoff, epoch, done, collector, stopped, heap, pool, cont, ep, bar, tries, inTask>>

CollectClaim(w) ==
  /\ At(w, "cColl")
  /\ collector' = w
  /\ Go(w, "cEpoch")
  /\ UNCHANGED <<active, parked, handoff, epoch, done, lock, stopped, heap, pool, local, inTask>>

CollectRequest(w) ==
  /\ At(w, "cEpoch")
  /\ epoch' = epoch + 1
  /\ Go(w, "cHand")
  /\ UNCHANGED <<active, parked, handoff, done, lock, collector, stopped, heap, pool, local, inTask>>

\* In a task: leave the collection to the bare loop and suspend.  In a bare
\* context: run it here.
CollectHandoff(w) ==
  /\ At(w, "cHand")
  /\ res' = [res EXCEPT ![w] = 0]
  /\ IF inTask[w] = 1
       THEN /\ handoff' = [handoff EXCEPT ![w] = 1]
            /\ cont' = [cont EXCEPT ![w] = "aRetry"]
            /\ Go(w, "susp")
            /\ UNCHANGED <<ep, bar>>
       ELSE /\ ep' = [ep EXCEPT ![w] = epoch]
            /\ bar' = [bar EXCEPT ![w] = 0]
            /\ Go(w, "qBar")
            /\ UNCHANGED <<handoff, cont>>
  /\ UNCHANGED <<active, parked, epoch, done, lock, collector, stopped, heap, pool, tries, inTask>>

-----------------------------------------------------------------------------
(* jacl_gc_quiesce_and_sweep *)

\* Mutant: a park for the previous epoch is taken for a park for this one (the
\* sticky flag heap_gc.c:325 warns of).
MutBarrierStaleFlag(w) ==
  /\ At(w, "qBar")
  /\ \/ /\ bar[w] = NWorkers
        /\ Go(w, "qStop")
        /\ UNCHANGED bar
     \/ /\ bar[w] < NWorkers
        /\ bar[w] = w \/ active[bar[w]] = 0 \/ (parked[bar[w]] > 0 /\ parked[bar[w]] >= ep[w] - 1)
        /\ bar' = [bar EXCEPT ![w] = @ + 1]
        /\ UNCHANGED pc
  /\ UNCHANGED <<shared, heap, pool, cont, ep, tries, res, inTask>>

\* Mutant: a worker between two tasks counts as stopped.
MutBarrierNotInTask(w) ==
  /\ At(w, "qBar")
  /\ \/ /\ bar[w] = NWorkers
        /\ Go(w, "qStop")
        /\ UNCHANGED bar
     \/ /\ bar[w] < NWorkers
        /\ bar[w] = w \/ active[bar[w]] = 0 \/ inTask[bar[w]] = 0
        /\ bar' = [bar EXCEPT ![w] = @ + 1]
        /\ UNCHANGED pc
  /\ UNCHANGED <<shared, heap, pool, cont, ep, tries, res, inTask>>

\* The barrier: worker bar[w] is out of the set, or parked for this epoch.
Barrier(w) ==
  /\ At(w, "qBar")
  /\ \/ /\ bar[w] = NWorkers
        /\ Go(w, "qStop")
        /\ UNCHANGED bar
     \/ /\ bar[w] < NWorkers
        /\ bar[w] = w \/ active[bar[w]] = 0 \/ parked[bar[w]] >= ep[w]
        /\ bar' = [bar EXCEPT ![w] = @ + 1]
        /\ UNCHANGED pc
  /\ UNCHANGED <<shared, heap, pool, cont, ep, tries, res, inTask>>

StopWorld(w) ==
  /\ At(w, "qStop")
  /\ stopped' = 1
  /\ Go(w, "qSweep")
  /\ UNCHANGED <<active, parked, handoff, epoch, done, lock, collector, heap, pool, local, inTask>>

\* jacl_gc_collect_stw: the sweep frees the cells no root reaches.
jacl_gc_collect_stw(w) ==
  /\ At(w, "qSweep")
  /\ \E freed \in 0 .. (Cells - room) :
       /\ room' = room + freed
       /\ res' = [res EXCEPT ![w] = freed]
  /\ Go(w, "qOpen")
  /\ UNCHANGED <<shared, violations, allocs, pool, cont, ep, bar, tries, inTask>>

OpenWorld(w) ==
  /\ At(w, "qOpen")
  /\ stopped' = 0
  /\ Go(w, "qColl")
  /\ UNCHANGED <<active, parked, handoff, epoch, done, lock, collector, heap, pool, local, inTask>>

DropCollector(w) ==
  /\ At(w, "qColl")
  /\ collector' = NoOne
  /\ Go(w, "qDone")
  /\ UNCHANGED <<active, parked, handoff, epoch, done, lock, stopped, heap, pool, local, inTask>>

\* Mutant: the end of the collection is not published.
MutDoneUnpublished(w) ==
  /\ At(w, "qDone")
  /\ Go(w, "qUnlock")
  /\ UNCHANGED <<shared, heap, pool, local, inTask>>

PublishDone(w) ==
  /\ At(w, "qDone")
  /\ done' = ep[w]
  /\ Go(w, "qUnlock")
  /\ UNCHANGED <<active, parked, handoff, epoch, lock, collector, stopped, heap, pool, local, inTask>>

\* Release the lock; a handed-off collection returns to the loop, an inline
\* one to jacl_alloc.
Unlock(w) ==
  /\ At(w, "qUnlock")
  /\ lock' = 0
  /\ Go(w, IF cont[w] = "none" THEN "aRetry" ELSE "go")
  /\ UNCHANGED <<active, parked, handoff, epoch, done, collector, stopped, heap, pool, local, inTask>>

-----------------------------------------------------------------------------
Lifecycle(w) ==
  \/ EnterLoop(w) \/ pool_ensure(w) \/ jacl_gc_worker_register(w)
  \/ jacl_gc_worker_unregister(w) \/ JoinAll(w) \/ MainReturns(w) \/ Idle(w)
  \/ jacl_gc_task_begin(w) \/ jacl_gc_task_end(w)

Park(w) == ParkEnter(w) \/ ParkCheck(w) \/ ParkPublish(w) \/ ParkWake(w)

Alloc(w) ==
  \/ AllocEnter(w) \/ SafepointLoad(w) \/ jacl_gc_safepoint(w)
  \/ jacl_alloc_off(w) \/ AllocFill(w) \/ AllocRetry(w)

Collect(w) == CollectElect(w) \/ CollectClaim(w) \/ CollectRequest(w) \/ CollectHandoff(w)

Sweep(w) ==
  \/ Barrier(w) \/ StopWorld(w) \/ jacl_gc_collect_stw(w) \/ OpenWorld(w)
  \/ DropCollector(w) \/ PublishDone(w) \/ Unlock(w)

\* jacl_heap_exhausted traps, which ends the whole guest.
Trapped == \E w \in Workers : At(w, "trap")

Step(w) == ~Trapped /\ (Lifecycle(w) \/ Park(w) \/ Alloc(w) \/ Collect(w) \/ Sweep(w))

\* The program is over: main returned, or the guest trapped.
Over == (At(0, "exit") \/ Trapped) /\ UNCHANGED vars

Next == (\E w \in Workers : Step(w)) \/ Over

Spec == Init /\ [][Next]_vars

-----------------------------------------------------------------------------
(* Fairness *)

\* Every vCPU is an OS thread that keeps running, and a task keeps reaching an
\* allocation or the end of its slice.
FairSpec == Spec /\ \A w \in Workers : WF_vars(Step(w))

\* Every vCPU keeps running, but nothing makes a task that loops without
\* allocating reach jacl_alloc or end: codegen.c emits no call at a loop's
\* back-edge outside a shell line.  Under this fairness StopRequestAnswered does
\* not hold, so no run uses it: see the README, "Claims the code does not keep".
LoopingSpec == Spec /\ \A w \in Workers : WF_vars(~At(w, "task") /\ Step(w))

-----------------------------------------------------------------------------
(* Properties *)

TypeShared ==
  /\ active \in [Workers -> {0, 1}]
  /\ parked \in [Workers -> Nat]
  /\ inTask \in [Workers -> {0, 1}]
  /\ handoff \in [Workers -> {0, 1}]
  /\ epoch \in Nat /\ done \in Nat
  /\ lock \in {0, 1} /\ stopped \in {0, 1}
  /\ collector \in Workers \cup {NoOne}

TypeHeap ==
  /\ violations \in Nat
  /\ room \in 0 .. Cells
  /\ allocs \in 0 .. MaxAllocs
  /\ tries \in [Workers -> Nat]
  /\ res \in [Workers -> {-1} \cup 0 .. Cells]

TypeControl ==
  /\ started \in BOOLEAN /\ shutdown \in BOOLEAN
  /\ pc \in [Workers -> PCs]
  /\ cont \in [Workers -> {"none", "aOff", "aRetry"}]
  /\ ep \in [Workers -> Nat]
  /\ bar \in [Workers -> 0 .. NWorkers]

TypeOK == TypeShared /\ TypeHeap /\ TypeControl

\* While a collector marks and sweeps (jacl_gc_collect_stw), no other worker
\* runs a task fiber (gc.roots would fault on it) and none is inside the
\* allocator: the window really is stop-the-world.
StopTheWorld ==
  \A w \in Workers : pc[w] \in {"qSweep", "qOpen"} =>
    \A i \in Workers \ {w} : inTask[i] = 0 /\ pc[i] \notin InAlloc

\* jacl_gc_violation_count, "must be 0" (jaclrt.h): the probe in
\* jacl_alloc_off never sees the heap mutated in the stopped window.
NoViolations == violations = 0

\* A parked worker waits for done to be exactly its epoch (heap_gc.c:331), so
\* done must never move past it: the epoch it waits for is done itself or the
\* collection in progress.
NoMissedWake ==
  \A w \in Workers : At(w, "pWait") => ep[w] = done \/ (ep[w] = epoch /\ epoch = done + 1)

\* The election (the CAS on jacl_gc_lock) leaves one collector at a time, and
\* jacl_gc_collector names it from its claim until it reopens the world.
OneCollector ==
  \A w \in Workers :
    (pc[w] \in (InSweep \ {"qDone", "qUnlock"}) \cup {"cEpoch", "cHand"} \/ handoff[w] = 1) => collector = w

\* Collections complete one by one, in the order they were requested: done
\* only ever becomes the epoch just requested, its successor.
EpochsInOrder == [][done' # done => done' = done + 1 /\ done' = epoch]_vars

\* Every requested collection completes (or the guest traps): the barrier
\* never waits for ever on a worker that cannot answer.
StopRequestAnswered == (epoch # done) ~> (epoch = done \/ Trapped)

\* Every parked worker is released.
ParkedReleased == \A w \in Workers : At(w, "pWait") ~> (~At(w, "pWait") \/ Trapped)

\* heap_gc.c:338: "The heap is exhausted: a collection reclaimed nothing and
\* no cell fits."  The code does not keep this: with MaxTries = 1 a worker that lost
\* every election traps.  It is in no run; the README says so.
ExhaustedOnlyAfterCollection == \A w \in Workers : At(w, "trap") => res[w] = 0

-----------------------------------------------------------------------------
(* The inductive invariant behind StopTheWorld.  A worker the barrier has     *)
(* passed is "quiet": out of the set, or somewhere in park with the epoch of  *)
(* the collection in hand, where it stays until done is published.            *)

Out == {"new", "join", "off"}

\* The worker holds jacl_gc_lock.
Holding(w) == pc[w] \in {"cColl", "cEpoch", "cHand"} \cup InSweep \/ handoff[w] = 1

\* jacl_gc_collector names the worker.
Claimed(w) == pc[w] \in {"cEpoch", "cHand", "qBar", "qStop", "qSweep", "qOpen", "qColl"} \/ handoff[w] = 1

\* The worker's collection is requested and not yet done.
Requesting(w) == pc[w] \in {"cHand", "qBar", "qStop", "qSweep", "qOpen", "qColl", "qDone"} \/ handoff[w] = 1

\* Main's own code outside the loop, its allocations and collections included.
BareCode(w) ==
  \/ pc[w] \in {"boot", "exit"}
  \/ pc[w] \in InAlloc \cup InElect \cup {"trap"} /\ inTask[w] = 0
  \/ pc[w] \in InSweep /\ cont[w] = "none"

Quiet(i) ==
  \/ pc[i] \in Out \cup {"top"}
  \/ pc[i] \in {"pDone", "pPub", "pWait"} /\ ep[i] = epoch

LockInv ==
  /\ \A w \in Workers : Holding(w) => lock = 1
  /\ \A w, v \in Workers : Holding(w) /\ Holding(v) => w = v
  /\ \A w \in Workers : Claimed(w) <=> collector = w

EpochInv ==
  /\ (\E w \in Workers : Requesting(w)) => epoch = done + 1
  /\ (\A w \in Workers : ~Requesting(w)) => epoch = done
  /\ \A w \in Workers : pc[w] \in InSweep \ {"qUnlock"} => ep[w] = epoch
  /\ \A w \in Workers : pc[w] \in {"pDone", "pPub", "pWait"} => ep[w] \in {done, epoch}
  /\ \A w \in Workers : parked[w] <= epoch
  /\ \A w \in Workers : epoch = done + 1 /\ parked[w] >= epoch => pc[w] = "pWait" /\ ep[w] = epoch

ControlInv ==
  /\ \A w \in Workers : handoff[w] = 1 => pc[w] \in {"susp", "top"} /\ cont[w] = "aRetry"
  /\ \A w \in Workers : pc[w] \in {"task", "susp"} => inTask[w] = 1
  /\ \A w \in Workers : inTask[w] = 1 => pc[w] \in {"task", "susp", "trap"} \cup InAlloc \cup InElect
  /\ \A w \in Workers : active[w] = 1 <=> pc[w] \notin Out
  /\ \A w \in Workers :
       pc[w] \in {"boot", "task", "trap", "exit"} \cup Out \cup InAlloc \cup InElect => cont[w] = "none"
  /\ \A w \in Workers : pc[w] = "join" => w = 0
  /\ \A w \in Workers : ~started /\ w # 0 => pc[w] = "new"
  /\ \A w, i \in Workers : BareCode(w) /\ i # w => w = 0 /\ (pc[i] = "off" \/ (pc[i] = "new" /\ ~started))
  /\ \A w \in Workers : BareCode(w) => w = 0

BarrierInv ==
  /\ \A v, i \in Workers : pc[v] = "qBar" /\ i < bar[v] /\ i # v => Quiet(i)
  /\ \A v, i \in Workers : pc[v] \in {"qStop", "qSweep", "qOpen", "qColl", "qDone"} /\ i # v => Quiet(i)
  /\ stopped = 1 => \E v \in Workers : pc[v] \in {"qSweep", "qOpen"}

\* Of every reachable state: who holds the lock, what the epoch counters say,
\* where control can be, and that whoever the barrier passed stays quiet.
QuiesceInv == TypeOK /\ LockInv /\ EpochInv /\ ControlInv /\ BarrierInv /\ NoViolations

\* Whatever the workers do, a requested collection completes, and a worker parked
\* for one is released (heap_gc.c).
QuiesceProgress == StopRequestAnswered /\ ParkedReleased
=============================================================================

-------------------------- MODULE GcQuiesceProofs --------------------------
(* Proofs about GcQuiesce, for any number of workers, cells and tries.      *)
(* TypeCorrect is inductive by itself.  StopTheWorld rests on QuiesceInv:   *)
(* InvStep shows one step of one worker keeps it, from the facts that the   *)
(* step changes of that worker (<2>1, <2>2) and Frame for the others.       *)
EXTENDS GcQuiesce, TLAPS

\* The initial state is well typed.
LEMMA InitTypeOK == Init => TypeOK
<1>1. Init => TypeShared
  BY GcAssumption DEF GcAssumption, Init, TypeShared, Workers, NoOne
<1>2. Init => TypeHeap
  BY GcAssumption DEF GcAssumption, Init, TypeHeap
<1>3. Init => TypeControl
  <2>1. Init => pc \in [Workers -> PCs]
    BY DEF Init, PCs, Away
  <2>2. Init => bar \in [Workers -> 0 .. NWorkers] /\ ep \in [Workers -> Nat]
    BY GcAssumption DEF GcAssumption, Init
  <2>3. Init => cont \in [Workers -> {"none", "aOff", "aRetry"}]
    BY DEF Init
  <2>4. Init => started \in BOOLEAN /\ shutdown \in BOOLEAN
    BY DEF Init
  <2> QED
    BY <2>1, <2>2, <2>3, <2>4 DEF TypeControl
<1> QED
  BY <1>1, <1>2, <1>3 DEF TypeOK

\* A step of one worker keeps every variable's type.
LEMMA StepTypeOK ==
  ASSUME TypeOK, NEW w \in Workers, Step(w)
  PROVE  TypeOK'
<1> USE GcAssumption DEF GcAssumption, TypeOK, TypeShared, TypeHeap, TypeControl, Go, At,
          shared, heap, pool, local, PCs, Away, InPark, InAlloc, InElect, InSweep
<1>1. CASE EnterLoop(w)
  <2>1. TypeShared'
    BY <1>1 DEF EnterLoop
  <2>2. TypeHeap'
    BY <1>1 DEF EnterLoop
  <2>3. TypeControl'
    BY <1>1 DEF EnterLoop
  <2> QED
    BY <2>1, <2>2, <2>3
<1>2. CASE pool_ensure(w)
  <2>1. TypeShared'
    BY <1>2 DEF pool_ensure
  <2>2. TypeHeap'
    BY <1>2 DEF pool_ensure
  <2>3. TypeControl'
    BY <1>2 DEF pool_ensure
  <2> QED
    BY <2>1, <2>2, <2>3
<1>3. CASE jacl_gc_worker_register(w)
  <2>1. TypeShared'
    BY <1>3 DEF jacl_gc_worker_register
  <2>2. TypeHeap'
    BY <1>3 DEF jacl_gc_worker_register
  <2>3. TypeControl'
    BY <1>3 DEF jacl_gc_worker_register
  <2> QED
    BY <2>1, <2>2, <2>3
<1>4. CASE jacl_gc_worker_unregister(w)
  <2>1. TypeShared'
    BY <1>4 DEF jacl_gc_worker_unregister
  <2>2. TypeHeap'
    BY <1>4 DEF jacl_gc_worker_unregister
  <2>3. TypeControl'
    BY <1>4 DEF jacl_gc_worker_unregister
  <2> QED
    BY <2>1, <2>2, <2>3
<1>5. CASE JoinAll(w)
  <2>1. TypeShared'
    BY <1>5 DEF JoinAll
  <2>2. TypeHeap'
    BY <1>5 DEF JoinAll
  <2>3. TypeControl'
    BY <1>5 DEF JoinAll
  <2> QED
    BY <2>1, <2>2, <2>3
<1>6. CASE MainReturns(w)
  <2>1. TypeShared'
    BY <1>6 DEF MainReturns
  <2>2. TypeHeap'
    BY <1>6 DEF MainReturns
  <2>3. TypeControl'
    BY <1>6 DEF MainReturns
  <2> QED
    BY <2>1, <2>2, <2>3
<1>7. CASE Idle(w)
  <2>1. TypeShared'
    BY <1>7 DEF Idle
  <2>2. TypeHeap'
    BY <1>7 DEF Idle
  <2>3. TypeControl'
    BY <1>7 DEF Idle
  <2> QED
    BY <2>1, <2>2, <2>3
<1>8. CASE jacl_gc_task_begin(w)
  <2>1. TypeShared'
    BY <1>8 DEF jacl_gc_task_begin
  <2>2. TypeHeap'
    BY <1>8 DEF jacl_gc_task_begin
  <2>3. TypeControl'
    BY <1>8 DEF jacl_gc_task_begin
  <2> QED
    BY <2>1, <2>2, <2>3
<1>9. CASE jacl_gc_task_end(w)
  <2>1. TypeShared'
    BY <1>9 DEF jacl_gc_task_end
  <2>2. TypeHeap'
    BY <1>9 DEF jacl_gc_task_end
  <2>3. TypeControl'
    BY <1>9 DEF jacl_gc_task_end
  <2> QED
    BY <2>1, <2>2, <2>3
<1>10. CASE ParkEnter(w)
  <2>1. TypeShared'
    BY <1>10 DEF ParkEnter
  <2>2. TypeHeap'
    BY <1>10 DEF ParkEnter
  <2>3. TypeControl'
    BY <1>10 DEF ParkEnter
  <2> QED
    BY <2>1, <2>2, <2>3
<1>11. CASE ParkCheck(w)
  <2>1. TypeShared'
    BY <1>11 DEF ParkCheck
  <2>2. TypeHeap'
    BY <1>11 DEF ParkCheck
  <2>3. TypeControl'
    BY <1>11 DEF ParkCheck
  <2> QED
    BY <2>1, <2>2, <2>3
<1>12. CASE ParkPublish(w)
  <2>1. TypeShared'
    BY <1>12 DEF ParkPublish
  <2>2. TypeHeap'
    BY <1>12 DEF ParkPublish
  <2>3. TypeControl'
    BY <1>12 DEF ParkPublish
  <2> QED
    BY <2>1, <2>2, <2>3
<1>13. CASE ParkWake(w)
  <2>1. TypeShared'
    BY <1>13 DEF ParkWake
  <2>2. TypeHeap'
    BY <1>13 DEF ParkWake
  <2>3. TypeControl'
    BY <1>13 DEF ParkWake
  <2> QED
    BY <2>1, <2>2, <2>3
<1>14. CASE AllocEnter(w)
  <2>1. TypeShared'
    BY <1>14 DEF AllocEnter
  <2>2. TypeHeap'
    BY <1>14 DEF AllocEnter
  <2>3. TypeControl'
    BY <1>14 DEF AllocEnter
  <2> QED
    BY <2>1, <2>2, <2>3
<1>15. CASE SafepointLoad(w)
  <2>1. TypeShared'
    BY <1>15 DEF SafepointLoad
  <2>2. TypeHeap'
    BY <1>15 DEF SafepointLoad
  <2>3. TypeControl'
    BY <1>15 DEF SafepointLoad
  <2> QED
    BY <2>1, <2>2, <2>3
<1>16. CASE jacl_gc_safepoint(w)
  <2>1. TypeShared'
    BY <1>16 DEF jacl_gc_safepoint, AfterSafepoint
  <2>2. TypeHeap'
    BY <1>16 DEF jacl_gc_safepoint, AfterSafepoint
  <2>3. TypeControl'
    BY <1>16 DEF jacl_gc_safepoint, AfterSafepoint
  <2> QED
    BY <2>1, <2>2, <2>3
<1>17. CASE jacl_alloc_off(w)
  <2>1. TypeShared'
    BY <1>17 DEF jacl_alloc_off
  <2>2. TypeHeap'
    BY <1>17 DEF jacl_alloc_off
  <2>3. TypeControl'
    BY <1>17 DEF jacl_alloc_off
  <2> QED
    BY <2>1, <2>2, <2>3
<1>18. CASE AllocFill(w)
  <2>1. TypeShared'
    BY <1>18 DEF AllocFill, Back
  <2>2. TypeHeap'
    BY <1>18 DEF AllocFill, Back
  <2>3. TypeControl'
    BY <1>18 DEF AllocFill, Back
  <2> QED
    BY <2>1, <2>2, <2>3
<1>19. CASE AllocRetry(w)
  <2>1. TypeShared'
    BY <1>19 DEF AllocRetry
  <2>2. TypeHeap'
    BY <1>19 DEF AllocRetry
  <2>3. TypeControl'
    BY <1>19 DEF AllocRetry
  <2> QED
    BY <2>1, <2>2, <2>3
<1>20. CASE CollectElect(w)
  <2>1. TypeShared'
    BY <1>20 DEF CollectElect
  <2>2. TypeHeap'
    BY <1>20 DEF CollectElect
  <2>3. TypeControl'
    BY <1>20 DEF CollectElect
  <2> QED
    BY <2>1, <2>2, <2>3
<1>21. CASE CollectClaim(w)
  <2>1. TypeShared'
    BY <1>21 DEF CollectClaim
  <2>2. TypeHeap'
    BY <1>21 DEF CollectClaim
  <2>3. TypeControl'
    BY <1>21 DEF CollectClaim
  <2> QED
    BY <2>1, <2>2, <2>3
<1>22. CASE CollectRequest(w)
  <2>1. TypeShared'
    BY <1>22 DEF CollectRequest
  <2>2. TypeHeap'
    BY <1>22 DEF CollectRequest
  <2>3. TypeControl'
    BY <1>22 DEF CollectRequest
  <2> QED
    BY <2>1, <2>2, <2>3
<1>23. CASE CollectHandoff(w)
  <2>1. TypeShared'
    BY <1>23 DEF CollectHandoff
  <2>2. TypeHeap'
    BY <1>23 DEF CollectHandoff
  <2>3. TypeControl'
    BY <1>23 DEF CollectHandoff
  <2> QED
    BY <2>1, <2>2, <2>3
<1>24. CASE Barrier(w)
  <2>1. TypeShared'
    BY <1>24 DEF Barrier
  <2>2. TypeHeap'
    BY <1>24 DEF Barrier
  <2>3. TypeControl'
    BY <1>24 DEF Barrier
  <2> QED
    BY <2>1, <2>2, <2>3
<1>25. CASE StopWorld(w)
  <2>1. TypeShared'
    BY <1>25 DEF StopWorld
  <2>2. TypeHeap'
    BY <1>25 DEF StopWorld
  <2>3. TypeControl'
    BY <1>25 DEF StopWorld
  <2> QED
    BY <2>1, <2>2, <2>3
<1>26. CASE jacl_gc_collect_stw(w)
  <2>1. TypeShared'
    BY <1>26 DEF jacl_gc_collect_stw
  <2>2. TypeHeap'
    BY <1>26 DEF jacl_gc_collect_stw
  <2>3. TypeControl'
    BY <1>26 DEF jacl_gc_collect_stw
  <2> QED
    BY <2>1, <2>2, <2>3
<1>27. CASE OpenWorld(w)
  <2>1. TypeShared'
    BY <1>27 DEF OpenWorld
  <2>2. TypeHeap'
    BY <1>27 DEF OpenWorld
  <2>3. TypeControl'
    BY <1>27 DEF OpenWorld
  <2> QED
    BY <2>1, <2>2, <2>3
<1>28. CASE DropCollector(w)
  <2>1. TypeShared'
    BY <1>28 DEF DropCollector
  <2>2. TypeHeap'
    BY <1>28 DEF DropCollector
  <2>3. TypeControl'
    BY <1>28 DEF DropCollector
  <2> QED
    BY <2>1, <2>2, <2>3
<1>29. CASE PublishDone(w)
  <2>1. TypeShared'
    BY <1>29 DEF PublishDone
  <2>2. TypeHeap'
    BY <1>29 DEF PublishDone
  <2>3. TypeControl'
    BY <1>29 DEF PublishDone
  <2> QED
    BY <2>1, <2>2, <2>3
<1>30. CASE Unlock(w)
  <2>1. TypeShared'
    BY <1>30 DEF Unlock
  <2>2. TypeHeap'
    BY <1>30 DEF Unlock
  <2>3. TypeControl'
    BY <1>30 DEF Unlock
  <2> QED
    BY <2>1, <2>2, <2>3
<1> QED
  BY <1>1, <1>2, <1>3, <1>4, <1>5, <1>6, <1>7, <1>8, <1>9, <1>10, <1>11, <1>12, <1>13, <1>14, <1>15, <1>16, <1>17, <1>18, <1>19, <1>20, <1>21, <1>22, <1>23, <1>24, <1>25, <1>26, <1>27, <1>28, <1>29, <1>30 DEF Step, Lifecycle, Park, Alloc, Collect, Sweep

\* Every variable of the quiesce protocol keeps its type through every step of
\* every worker.
THEOREM TypeCorrect == Spec => []TypeOK
<1>1. TypeOK /\ [Next]_vars => TypeOK'
  <2> SUFFICES ASSUME TypeOK, [Next]_vars PROVE TypeOK'
    OBVIOUS
  <2>1. CASE UNCHANGED vars
    BY <2>1 DEF vars, shared, heap, pool, local, TypeOK, TypeShared, TypeHeap, TypeControl
  <2> QED
    BY <2>1, StepTypeOK DEF Next, Over
<1> QED
  BY <1>1, InitTypeOK, PTL DEF Spec

\* The initial state: main alone, nothing requested.
LEMMA InvInit == Init => QuiesceInv
<1> SUFFICES ASSUME Init PROVE QuiesceInv
  OBVIOUS
<1>1. TypeOK
  BY InitTypeOK
<1>2. \A w \in Workers : pc[w] \in {"boot", "new"} /\ (pc[w] = "boot" <=> w = 0)
                          /\ handoff[w] = 0 /\ inTask[w] = 0 /\ cont[w] = "none" /\ parked[w] = 0
                          /\ (active[w] = 1 <=> w = 0)
  BY DEF Init
<1>3. epoch = 0 /\ done = 0 /\ lock = 0 /\ collector = NoOne /\ stopped = 0 /\ violations = 0 /\ ~started
  BY DEF Init
<1>4. LockInv
  BY <1>2, <1>3 DEF LockInv, Holding, Claimed, InSweep, Workers, NoOne
<1>5. EpochInv
  BY <1>2, <1>3 DEF EpochInv, Requesting, InSweep
<1>6. ControlInv
  BY <1>2, <1>3 DEF ControlInv, BareCode, Out, InAlloc, InElect, InSweep
<1>7. BarrierInv
  BY <1>2, <1>3 DEF BarrierInv
<1> QED
  BY <1>1, <1>3, <1>4, <1>5, <1>6, <1>7 DEF QuiesceInv, NoViolations

\* What a step of one worker leaves alone of another.
Same(i) ==
  /\ pc'[i] = pc[i] /\ cont'[i] = cont[i] /\ ep'[i] = ep[i] /\ bar'[i] = bar[i]
  /\ inTask'[i] = inTask[i] /\ handoff'[i] = handoff[i]
  /\ active'[i] = active[i] /\ parked'[i] = parked[i]

\* A step of worker w changes the per-worker state of w alone.
LEMMA Frame ==
  ASSUME TypeOK, NEW w \in Workers, Step(w)
  PROVE  \A i \in Workers : i # w => Same(i)
<1> USE DEF TypeOK, TypeShared, TypeControl, Go, At, shared, heap, pool, local, Same
<1>1. CASE EnterLoop(w)
  BY <1>1 DEF EnterLoop
<1>2. CASE pool_ensure(w)
  BY <1>2 DEF pool_ensure
<1>3. CASE jacl_gc_worker_register(w)
  BY <1>3 DEF jacl_gc_worker_register
<1>4. CASE jacl_gc_worker_unregister(w)
  BY <1>4 DEF jacl_gc_worker_unregister
<1>5. CASE JoinAll(w)
  BY <1>5 DEF JoinAll
<1>6. CASE MainReturns(w)
  BY <1>6 DEF MainReturns
<1>7. CASE Idle(w)
  BY <1>7 DEF Idle
<1>8. CASE jacl_gc_task_begin(w)
  BY <1>8 DEF jacl_gc_task_begin
<1>9. CASE jacl_gc_task_end(w)
  BY <1>9 DEF jacl_gc_task_end
<1>10. CASE ParkEnter(w)
  BY <1>10 DEF ParkEnter
<1>11. CASE ParkCheck(w)
  BY <1>11 DEF ParkCheck
<1>12. CASE ParkPublish(w)
  BY <1>12 DEF ParkPublish
<1>13. CASE ParkWake(w)
  BY <1>13 DEF ParkWake
<1>14. CASE AllocEnter(w)
  BY <1>14 DEF AllocEnter
<1>15. CASE SafepointLoad(w)
  BY <1>15 DEF SafepointLoad
<1>16. CASE jacl_gc_safepoint(w)
  BY <1>16 DEF jacl_gc_safepoint
<1>17. CASE jacl_alloc_off(w)
  BY <1>17 DEF jacl_alloc_off
<1>18. CASE AllocFill(w)
  BY <1>18 DEF AllocFill
<1>19. CASE AllocRetry(w)
  BY <1>19 DEF AllocRetry
<1>20. CASE CollectElect(w)
  BY <1>20 DEF CollectElect
<1>21. CASE CollectClaim(w)
  BY <1>21 DEF CollectClaim
<1>22. CASE CollectRequest(w)
  BY <1>22 DEF CollectRequest
<1>23. CASE CollectHandoff(w)
  BY <1>23 DEF CollectHandoff
<1>24. CASE Barrier(w)
  BY <1>24 DEF Barrier
<1>25. CASE StopWorld(w)
  BY <1>25 DEF StopWorld
<1>26. CASE jacl_gc_collect_stw(w)
  BY <1>26 DEF jacl_gc_collect_stw
<1>27. CASE OpenWorld(w)
  BY <1>27 DEF OpenWorld
<1>28. CASE DropCollector(w)
  BY <1>28 DEF DropCollector
<1>29. CASE PublishDone(w)
  BY <1>29 DEF PublishDone
<1>30. CASE Unlock(w)
  BY <1>30 DEF Unlock
<1> QED
  BY <1>1, <1>2, <1>3, <1>4, <1>5, <1>6, <1>7, <1>8, <1>9, <1>10, <1>11, <1>12, <1>13, <1>14, <1>15, <1>16, <1>17, <1>18, <1>19, <1>20, <1>21, <1>22, <1>23, <1>24, <1>25, <1>26, <1>27, <1>28, <1>29, <1>30 DEF Step, Lifecycle, Park, Alloc, Collect, Sweep

\* One step of one worker keeps the invariant.
LEMMA InvStep ==
  ASSUME QuiesceInv, NEW w \in Workers, Step(w)
  PROVE  (LockInv /\ EpochInv /\ ControlInv /\ BarrierInv /\ NoViolations)'
<1> DEFINE Kept == (LockInv /\ EpochInv /\ ControlInv /\ BarrierInv /\ NoViolations)'
<1>a. \A i \in Workers : i # w => Same(i)
  BY Frame DEF QuiesceInv
<1>b. /\ epoch \in Nat /\ done \in Nat
      /\ \A i \in Workers : inTask[i] \in {0, 1} /\ parked[i] \in Nat /\ ep[i] \in Nat /\ bar[i] \in Nat
  BY GcAssumption DEF GcAssumption, QuiesceInv, TypeOK, TypeShared, TypeControl
<1>1. CASE EnterLoop(w)
  <2>1. /\ pc[w] = "boot"
        /\ pc'[w] = "top"
    BY <1>1 DEF EnterLoop, Go, At, QuiesceInv, TypeOK, TypeShared, TypeControl
  <2>2. UNCHANGED <<cont[w], ep[w], bar[w], inTask[w], handoff[w], active[w], parked[w], epoch, done, lock, collector, stopped, started, violations>>
    BY <1>1 DEF EnterLoop, shared, heap, pool, local
  <2> USE <1>a, <2>1, <2>2 DEF QuiesceInv, Same
  <2>3. LockInv'
    BY DEF LockInv, ControlInv, Holding, Claimed, InSweep, Workers, NoOne
  <2>4. EpochInv'
    BY DEF LockInv, EpochInv, Holding, Claimed, Requesting, ControlInv, BarrierInv, Quiet, Out, InSweep
  <2>5. ControlInv'
    BY DEF LockInv, Claimed, ControlInv, BareCode, Out, InAlloc, InElect, InSweep
  <2>6. BarrierInv'
    BY DEF LockInv, EpochInv, BarrierInv, ControlInv, Holding, Claimed, Requesting, BareCode, Quiet, Out, InSweep, Workers
  <2>7. NoViolations'
    BY DEF LockInv, BarrierInv, Quiet, Out, NoViolations
  <2> QED
    BY <2>3, <2>4, <2>5, <2>6, <2>7
<1>2. CASE pool_ensure(w)
  <2>1. /\ w = 0
        /\ pc[w] = "task"
        /\ started' = TRUE
    BY <1>2 DEF pool_ensure, Go, At, QuiesceInv, TypeOK, TypeShared, TypeControl
  <2>2. UNCHANGED <<pc[w], cont[w], ep[w], bar[w], inTask[w], handoff[w], active[w], parked[w], epoch, done, lock, collector, stopped, violations>>
    BY <1>2 DEF pool_ensure, shared, heap, pool, local
  <2> USE <1>a, <2>1, <2>2 DEF QuiesceInv, Same
  <2>3. LockInv'
    BY DEF LockInv, ControlInv, Holding, Claimed, InSweep, Workers, NoOne
  <2>4. EpochInv'
    BY DEF LockInv, EpochInv, Holding, Claimed, Requesting, ControlInv, BarrierInv, Quiet, Out, InSweep
  <2>5. ControlInv'
    <3>1. \A v \in Workers : ~BareCode(v)
      BY DEF ControlInv, BareCode, InAlloc, InElect, InSweep
    <3>2. UNCHANGED <<pc, cont, inTask, handoff, active>>
      BY <1>2 DEF pool_ensure, shared, local
    <3> QED
      BY <3>1, <3>2 DEF ControlInv, BareCode
  <2>6. BarrierInv'
    BY DEF LockInv, EpochInv, BarrierInv, ControlInv, Holding, Claimed, Requesting, BareCode, Quiet, Out, InSweep, Workers
  <2>7. NoViolations'
    BY DEF LockInv, BarrierInv, Quiet, Out, NoViolations
  <2> QED
    BY <2>3, <2>4, <2>5, <2>6, <2>7
<1>3. CASE jacl_gc_worker_register(w)
  <2>1. /\ pc[w] = "new"
        /\ started
        /\ pc'[w] = "top"
        /\ inTask'[w] = 0
        /\ active'[w] = 1
    BY <1>3 DEF jacl_gc_worker_register, Go, At, QuiesceInv, TypeOK, TypeShared, TypeControl
  <2>2. UNCHANGED <<cont[w], ep[w], bar[w], handoff[w], parked[w], epoch, done, lock, collector, stopped, started, violations>>
    BY <1>3 DEF jacl_gc_worker_register, shared, heap, pool, local
  <2> USE <1>a, <2>1, <2>2 DEF QuiesceInv, Same
  <2>3. LockInv'
    BY DEF LockInv, ControlInv, Holding, Claimed, InSweep, Workers, NoOne
  <2>4. EpochInv'
    BY DEF LockInv, EpochInv, Holding, Claimed, Requesting, ControlInv, BarrierInv, Quiet, Out, InSweep
  <2>5. ControlInv'
    BY DEF LockInv, Claimed, ControlInv, BareCode, Out, InAlloc, InElect, InSweep
  <2>6. BarrierInv'
    BY DEF LockInv, EpochInv, BarrierInv, ControlInv, Holding, Claimed, Requesting, BareCode, Quiet, Out, InSweep, Workers
  <2>7. NoViolations'
    BY DEF LockInv, BarrierInv, Quiet, Out, NoViolations
  <2> QED
    BY <2>3, <2>4, <2>5, <2>6, <2>7
<1>4. CASE jacl_gc_worker_unregister(w)
  <2>1. /\ pc[w] = "go"
        /\ cont[w] = "none"
        /\ active'[w] = 0
        /\ pc'[w] = IF w = 0 THEN "join" ELSE "off"
    BY <1>4 DEF jacl_gc_worker_unregister, Go, At, QuiesceInv, TypeOK, TypeShared, TypeControl
  <2>2. UNCHANGED <<cont[w], ep[w], bar[w], inTask[w], handoff[w], parked[w], epoch, done, lock, collector, stopped, started, violations>>
    BY <1>4 DEF jacl_gc_worker_unregister, shared, heap, pool, local
  <2> USE <1>a, <2>1, <2>2 DEF QuiesceInv, Same
  <2>3. LockInv'
    BY DEF LockInv, ControlInv, Holding, Claimed, InSweep, Workers, NoOne
  <2>4. EpochInv'
    BY DEF LockInv, EpochInv, Holding, Claimed, Requesting, ControlInv, BarrierInv, Quiet, Out, InSweep
  <2>5. ControlInv'
    BY DEF LockInv, Claimed, ControlInv, BareCode, Out, InAlloc, InElect, InSweep
  <2>6. BarrierInv'
    BY DEF LockInv, EpochInv, BarrierInv, ControlInv, Holding, Claimed, Requesting, BareCode, Quiet, Out, InSweep, Workers
  <2>7. NoViolations'
    BY DEF LockInv, BarrierInv, Quiet, Out, NoViolations
  <2> QED
    BY <2>3, <2>4, <2>5, <2>6, <2>7
<1>5. CASE JoinAll(w)
  <2>1. /\ pc[w] = "join"
        /\ started => \A i \in Workers \ {w} : pc[i] = "off"
        /\ inTask'[w] = 0
        /\ active'[w] = 1
        /\ pc'[w] = "boot"
    BY <1>5 DEF JoinAll, Go, At, QuiesceInv, TypeOK, TypeShared, TypeControl
  <2>2. UNCHANGED <<cont[w], ep[w], bar[w], handoff[w], parked[w], epoch, done, lock, collector, stopped, started, violations>>
    BY <1>5 DEF JoinAll, shared, heap, pool, local
  <2> USE <1>a, <2>1, <2>2 DEF QuiesceInv, Same
  <2>3. LockInv'
    BY DEF LockInv, ControlInv, Holding, Claimed, InSweep, Workers, NoOne
  <2>4. EpochInv'
    BY DEF LockInv, EpochInv, Holding, Claimed, Requesting, ControlInv, BarrierInv, Quiet, Out, InSweep
  <2>5. ControlInv'
    BY DEF LockInv, Claimed, ControlInv, BareCode, Out, InAlloc, InElect, InSweep
  <2>6. BarrierInv'
    BY DEF LockInv, EpochInv, BarrierInv, ControlInv, Holding, Claimed, Requesting, BareCode, Quiet, Out, InSweep, Workers
  <2>7. NoViolations'
    BY DEF LockInv, BarrierInv, Quiet, Out, NoViolations
  <2> QED
    BY <2>3, <2>4, <2>5, <2>6, <2>7
<1>6. CASE MainReturns(w)
  <2>1. /\ pc[w] = "boot"
        /\ pc'[w] = "exit"
    BY <1>6 DEF MainReturns, Go, At, QuiesceInv, TypeOK, TypeShared, TypeControl
  <2>2. UNCHANGED <<cont[w], ep[w], bar[w], inTask[w], handoff[w], active[w], parked[w], epoch, done, lock, collector, stopped, started, violations>>
    BY <1>6 DEF MainReturns, shared, heap, pool, local
  <2> USE <1>a, <2>1, <2>2 DEF QuiesceInv, Same
  <2>3. LockInv'
    BY DEF LockInv, ControlInv, Holding, Claimed, InSweep, Workers, NoOne
  <2>4. EpochInv'
    BY DEF LockInv, EpochInv, Holding, Claimed, Requesting, ControlInv, BarrierInv, Quiet, Out, InSweep
  <2>5. ControlInv'
    BY DEF LockInv, Claimed, ControlInv, BareCode, Out, InAlloc, InElect, InSweep
  <2>6. BarrierInv'
    BY DEF LockInv, EpochInv, BarrierInv, ControlInv, Holding, Claimed, Requesting, BareCode, Quiet, Out, InSweep, Workers
  <2>7. NoViolations'
    BY DEF LockInv, BarrierInv, Quiet, Out, NoViolations
  <2> QED
    BY <2>3, <2>4, <2>5, <2>6, <2>7
<1>7. CASE Idle(w)
  <2>1. /\ pc[w] = "go"
        /\ pc'[w] = "top"
    BY <1>7 DEF Idle, Go, At, QuiesceInv, TypeOK, TypeShared, TypeControl
  <2>2. UNCHANGED <<cont[w], ep[w], bar[w], inTask[w], handoff[w], active[w], parked[w], epoch, done, lock, collector, stopped, started, violations>>
    BY <1>7 DEF Idle, shared, heap, pool, local
  <2> USE <1>a, <2>1, <2>2 DEF QuiesceInv, Same
  <2>3. LockInv'
    BY DEF LockInv, ControlInv, Holding, Claimed, InSweep, Workers, NoOne
  <2>4. EpochInv'
    BY DEF LockInv, EpochInv, Holding, Claimed, Requesting, ControlInv, BarrierInv, Quiet, Out, InSweep
  <2>5. ControlInv'
    BY DEF LockInv, Claimed, ControlInv, BareCode, Out, InAlloc, InElect, InSweep
  <2>6. BarrierInv'
    BY DEF LockInv, EpochInv, BarrierInv, ControlInv, Holding, Claimed, Requesting, BareCode, Quiet, Out, InSweep, Workers
  <2>7. NoViolations'
    BY DEF LockInv, BarrierInv, Quiet, Out, NoViolations
  <2> QED
    BY <2>3, <2>4, <2>5, <2>6, <2>7
<1>8. CASE jacl_gc_task_begin(w)
  <2>1. /\ pc[w] = "go"
        /\ inTask'[w] = 1
        /\ cont'[w] = "none"
        /\ pc'[w] \in {"task", "aOff", "aRetry"}
    BY <1>8 DEF jacl_gc_task_begin, Go, At, QuiesceInv, TypeOK, TypeShared, TypeControl
  <2>2. UNCHANGED <<ep[w], bar[w], handoff[w], active[w], parked[w], epoch, done, lock, collector, stopped, started, violations>>
    BY <1>8 DEF jacl_gc_task_begin, shared, heap, pool, local
  <2> USE <1>a, <2>1, <2>2 DEF QuiesceInv, Same
  <2>3. LockInv'
    BY DEF LockInv, ControlInv, Holding, Claimed, InSweep, Workers, NoOne
  <2>4. EpochInv'
    BY DEF LockInv, EpochInv, Holding, Claimed, Requesting, ControlInv, BarrierInv, Quiet, Out, InSweep
  <2>5. ControlInv'
    BY DEF LockInv, Claimed, ControlInv, BareCode, Out, InAlloc, InElect, InSweep
  <2>6. BarrierInv'
    BY DEF LockInv, EpochInv, BarrierInv, ControlInv, Holding, Claimed, Requesting, BareCode, Quiet, Out, InSweep, Workers
  <2>7. NoViolations'
    BY DEF LockInv, BarrierInv, Quiet, Out, NoViolations
  <2> QED
    BY <2>3, <2>4, <2>5, <2>6, <2>7
<1>9. CASE jacl_gc_task_end(w)
  <2>1. /\ pc[w] \in {"task", "susp"}
        /\ inTask'[w] = 0
        /\ pc'[w] = "top"
    BY <1>9 DEF jacl_gc_task_end, Go, At, QuiesceInv, TypeOK, TypeShared, TypeControl
  <2>2. UNCHANGED <<cont[w], ep[w], bar[w], handoff[w], active[w], parked[w], epoch, done, lock, collector, stopped, started, violations>>
    BY <1>9 DEF jacl_gc_task_end, shared, heap, pool, local
  <2> USE <1>a, <2>1, <2>2 DEF QuiesceInv, Same
  <2>3. LockInv'
    BY DEF LockInv, ControlInv, Holding, Claimed, InSweep, Workers, NoOne
  <2>4. EpochInv'
    BY DEF LockInv, EpochInv, Holding, Claimed, Requesting, ControlInv, BarrierInv, Quiet, Out, InSweep
  <2>5. ControlInv'
    BY DEF LockInv, Claimed, ControlInv, BareCode, Out, InAlloc, InElect, InSweep
  <2>6. BarrierInv'
    BY DEF LockInv, EpochInv, BarrierInv, ControlInv, Holding, Claimed, Requesting, BareCode, Quiet, Out, InSweep, Workers
  <2>7. NoViolations'
    BY DEF LockInv, BarrierInv, Quiet, Out, NoViolations
  <2> QED
    BY <2>3, <2>4, <2>5, <2>6, <2>7
<1>10. CASE ParkEnter(w)
  <2>1. /\ pc[w] = "top"
        /\ \/ /\ handoff[w] = 1 /\ handoff'[w] = 0 /\ ep'[w] = epoch /\ bar'[w] = 0 /\ pc'[w] = "qBar"
           \/ /\ handoff[w] = 0 /\ handoff'[w] = 0 /\ bar'[w] = bar[w]
              /\ \/ collector = w /\ pc'[w] = "go" /\ ep'[w] = ep[w]
                 \/ collector # w /\ pc'[w] = "pDone" /\ ep'[w] = epoch
    BY <1>10 DEF ParkEnter, Go, At, QuiesceInv, TypeOK, TypeShared, TypeControl
  <2>2. UNCHANGED <<cont[w], inTask[w], active[w], parked[w], epoch, done, lock, collector, stopped, started, violations>>
    BY <1>10 DEF ParkEnter, shared, heap, pool, local
  <2> USE <1>a, <2>1, <2>2 DEF QuiesceInv, Same
  <2>3. LockInv'
    BY DEF LockInv, ControlInv, Holding, Claimed, InSweep, Workers, NoOne
  <2>4. EpochInv'
    BY DEF LockInv, EpochInv, Holding, Claimed, Requesting, ControlInv, BarrierInv, Quiet, Out, InSweep
  <2>5. ControlInv'
    BY DEF LockInv, Claimed, ControlInv, BareCode, Out, InAlloc, InElect, InSweep
  <2>6. BarrierInv'
    BY DEF LockInv, EpochInv, BarrierInv, ControlInv, Holding, Claimed, Requesting, BareCode, Quiet, Out, InSweep, Workers
  <2>7. NoViolations'
    BY DEF LockInv, BarrierInv, Quiet, Out, NoViolations
  <2> QED
    BY <2>3, <2>4, <2>5, <2>6, <2>7
<1>11. CASE ParkCheck(w)
  <2>1. /\ pc[w] = "pDone"
        /\ pc'[w] = IF ep[w] = done THEN "go" ELSE "pPub"
    BY <1>11 DEF ParkCheck, Go, At, QuiesceInv, TypeOK, TypeShared, TypeControl
  <2>2. UNCHANGED <<cont[w], ep[w], bar[w], inTask[w], handoff[w], active[w], parked[w], epoch, done, lock, collector, stopped, started, violations>>
    BY <1>11 DEF ParkCheck, shared, heap, pool, local
  <2> USE <1>a, <2>1, <2>2 DEF QuiesceInv, Same
  <2>3. LockInv'
    BY DEF LockInv, ControlInv, Holding, Claimed, InSweep, Workers, NoOne
  <2>4. EpochInv'
    BY DEF LockInv, EpochInv, Holding, Claimed, Requesting, ControlInv, BarrierInv, Quiet, Out, InSweep
  <2>5. ControlInv'
    BY DEF LockInv, Claimed, ControlInv, BareCode, Out, InAlloc, InElect, InSweep
  <2>6. BarrierInv'
    BY <1>b DEF LockInv, EpochInv, BarrierInv, ControlInv, Holding, Claimed, Requesting, BareCode, Quiet, Out, InSweep, Workers
  <2>7. NoViolations'
    BY DEF LockInv, BarrierInv, Quiet, Out, NoViolations
  <2> QED
    BY <2>3, <2>4, <2>5, <2>6, <2>7
<1>12. CASE ParkPublish(w)
  <2>1. /\ pc[w] = "pPub"
        /\ pc'[w] = "pWait"
        /\ parked'[w] = ep[w]
    BY <1>12 DEF ParkPublish, Go, At, QuiesceInv, TypeOK, TypeShared, TypeControl
  <2>2. UNCHANGED <<cont[w], ep[w], bar[w], inTask[w], handoff[w], active[w], epoch, done, lock, collector, stopped, started, violations>>
    BY <1>12 DEF ParkPublish, shared, heap, pool, local
  <2> USE <1>a, <2>1, <2>2 DEF QuiesceInv, Same
  <2>3. LockInv'
    BY DEF LockInv, ControlInv, Holding, Claimed, InSweep, Workers, NoOne
  <2>4. EpochInv'
    BY <1>b DEF LockInv, EpochInv, Holding, Claimed, Requesting, ControlInv, BarrierInv, Quiet, Out, InSweep
  <2>5. ControlInv'
    BY DEF LockInv, Claimed, ControlInv, BareCode, Out, InAlloc, InElect, InSweep
  <2>6. BarrierInv'
    BY DEF LockInv, EpochInv, BarrierInv, ControlInv, Holding, Claimed, Requesting, BareCode, Quiet, Out, InSweep, Workers
  <2>7. NoViolations'
    BY DEF LockInv, BarrierInv, Quiet, Out, NoViolations
  <2> QED
    BY <2>3, <2>4, <2>5, <2>6, <2>7
<1>13. CASE ParkWake(w)
  <2>1. /\ pc[w] = "pWait"
        /\ done = ep[w]
        /\ pc'[w] = "go"
    BY <1>13 DEF ParkWake, Go, At, QuiesceInv, TypeOK, TypeShared, TypeControl
  <2>2. UNCHANGED <<cont[w], ep[w], bar[w], inTask[w], handoff[w], active[w], parked[w], epoch, done, lock, collector, stopped, started, violations>>
    BY <1>13 DEF ParkWake, shared, heap, pool, local
  <2> USE <1>a, <2>1, <2>2 DEF QuiesceInv, Same
  <2>3. LockInv'
    BY DEF LockInv, ControlInv, Holding, Claimed, InSweep, Workers, NoOne
  <2>4. EpochInv'
    BY <1>b DEF LockInv, EpochInv, Holding, Claimed, Requesting, ControlInv, BarrierInv, Quiet, Out, InSweep
  <2>5. ControlInv'
    BY DEF LockInv, Claimed, ControlInv, BareCode, Out, InAlloc, InElect, InSweep
  <2>6. BarrierInv'
    BY <1>b DEF LockInv, EpochInv, BarrierInv, ControlInv, Holding, Claimed, Requesting, BareCode, Quiet, Out, InSweep, Workers
  <2>7. NoViolations'
    BY DEF LockInv, BarrierInv, Quiet, Out, NoViolations
  <2> QED
    BY <2>3, <2>4, <2>5, <2>6, <2>7
<1>14. CASE AllocEnter(w)
  <2>1. /\ pc[w] \in {"task", "boot"}
        /\ pc'[w] = "sEpoch"
    BY <1>14 DEF AllocEnter, Go, At, QuiesceInv, TypeOK, TypeShared, TypeControl
  <2>2. UNCHANGED <<cont[w], ep[w], bar[w], inTask[w], handoff[w], active[w], parked[w], epoch, done, lock, collector, stopped, started, violations>>
    BY <1>14 DEF AllocEnter, shared, heap, pool, local
  <2> USE <1>a, <2>1, <2>2 DEF QuiesceInv, Same
  <2>3. LockInv'
    BY DEF LockInv, ControlInv, Holding, Claimed, InSweep, Workers, NoOne
  <2>4. EpochInv'
    BY DEF LockInv, EpochInv, Holding, Claimed, Requesting, ControlInv, BarrierInv, Quiet, Out, InSweep
  <2>5. ControlInv'
    BY DEF LockInv, Claimed, ControlInv, BareCode, Out, InAlloc, InElect, InSweep
  <2>6. BarrierInv'
    BY DEF LockInv, EpochInv, BarrierInv, ControlInv, Holding, Claimed, Requesting, BareCode, Quiet, Out, InSweep, Workers
  <2>7. NoViolations'
    BY DEF LockInv, BarrierInv, Quiet, Out, NoViolations
  <2> QED
    BY <2>3, <2>4, <2>5, <2>6, <2>7
<1>15. CASE SafepointLoad(w)
  <2>1. /\ pc[w] = "sEpoch"
        /\ pc'[w] = "sDone"
    BY <1>15 DEF SafepointLoad, Go, At, QuiesceInv, TypeOK, TypeShared, TypeControl
  <2>2. UNCHANGED <<cont[w], bar[w], inTask[w], handoff[w], active[w], parked[w], epoch, done, lock, collector, stopped, started, violations>>
    BY <1>15 DEF SafepointLoad, shared, heap, pool, local
  <2> USE <1>a, <2>1, <2>2 DEF QuiesceInv, Same
  <2>3. LockInv'
    BY DEF LockInv, ControlInv, Holding, Claimed, InSweep, Workers, NoOne
  <2>4. EpochInv'
    BY DEF LockInv, EpochInv, Holding, Claimed, Requesting, ControlInv, BarrierInv, Quiet, Out, InSweep
  <2>5. ControlInv'
    BY DEF LockInv, Claimed, ControlInv, BareCode, Out, InAlloc, InElect, InSweep
  <2>6. BarrierInv'
    BY DEF LockInv, EpochInv, BarrierInv, ControlInv, Holding, Claimed, Requesting, BareCode, Quiet, Out, InSweep, Workers
  <2>7. NoViolations'
    BY DEF LockInv, BarrierInv, Quiet, Out, NoViolations
  <2> QED
    BY <2>3, <2>4, <2>5, <2>6, <2>7
<1>16. CASE jacl_gc_safepoint(w)
  <2>1. /\ pc[w] = "sDone"
        /\ \/ pc'[w] \in {"aOff", "aRetry"} /\ cont'[w] = cont[w]
           \/ inTask[w] # 0 /\ pc'[w] = "susp" /\ cont'[w] \in {"aOff", "aRetry"}
    BY <1>16 DEF jacl_gc_safepoint, AfterSafepoint, Go, At, QuiesceInv, TypeOK, TypeShared, TypeControl
  <2>2. UNCHANGED <<ep[w], bar[w], inTask[w], handoff[w], active[w], parked[w], epoch, done, lock, collector, stopped, started, violations>>
    BY <1>16 DEF jacl_gc_safepoint, shared, heap, pool, local
  <2> USE <1>a, <2>1, <2>2 DEF QuiesceInv, Same
  <2>3. LockInv'
    BY DEF LockInv, ControlInv, Holding, Claimed, InSweep, Workers, NoOne
  <2>4. EpochInv'
    BY DEF LockInv, EpochInv, Holding, Claimed, Requesting, ControlInv, BarrierInv, Quiet, Out, InSweep
  <2>5. ControlInv'
    BY <1>b DEF LockInv, Claimed, ControlInv, BareCode, Out, InAlloc, InElect, InSweep
  <2>6. BarrierInv'
    BY DEF LockInv, EpochInv, BarrierInv, ControlInv, Holding, Claimed, Requesting, BareCode, Quiet, Out, InSweep, Workers
  <2>7. NoViolations'
    BY DEF LockInv, BarrierInv, Quiet, Out, NoViolations
  <2> QED
    BY <2>3, <2>4, <2>5, <2>6, <2>7
<1>17. CASE jacl_alloc_off(w)
  <2>1. /\ pc[w] = "aOff"
        /\ pc'[w] \in {"aMut", "cCas"}
        /\ violations' = violations + (IF stopped = 1 /\ collector # w THEN 1 ELSE 0)
    BY <1>17 DEF jacl_alloc_off, Go, At, QuiesceInv, TypeOK, TypeShared, TypeControl
  <2>2. UNCHANGED <<cont[w], ep[w], bar[w], inTask[w], handoff[w], active[w], parked[w], epoch, done, lock, collector, stopped, started>>
    BY <1>17 DEF jacl_alloc_off, shared, heap, pool, local
  <2> USE <1>a, <2>1, <2>2 DEF QuiesceInv, Same
  <2>3. LockInv'
    BY DEF LockInv, ControlInv, Holding, Claimed, InSweep, Workers, NoOne
  <2>4. EpochInv'
    BY DEF LockInv, EpochInv, Holding, Claimed, Requesting, ControlInv, BarrierInv, Quiet, Out, InSweep
  <2>5. ControlInv'
    BY DEF LockInv, Claimed, ControlInv, BareCode, Out, InAlloc, InElect, InSweep
  <2>6. BarrierInv'
    BY DEF LockInv, EpochInv, BarrierInv, ControlInv, Holding, Claimed, Requesting, BareCode, Quiet, Out, InSweep, Workers
  <2>7. NoViolations'
    BY DEF LockInv, BarrierInv, Quiet, Out, NoViolations
  <2> QED
    BY <2>3, <2>4, <2>5, <2>6, <2>7
<1>18. CASE AllocFill(w)
  <2>1. /\ pc[w] = "aMut"
        /\ pc'[w] = IF inTask[w] = 1 THEN "task" ELSE "boot"
    BY <1>18 DEF AllocFill, Back, Go, At, QuiesceInv, TypeOK, TypeShared, TypeControl
  <2>2. UNCHANGED <<cont[w], ep[w], bar[w], inTask[w], handoff[w], active[w], parked[w], epoch, done, lock, collector, stopped, started, violations>>
    BY <1>18 DEF AllocFill, shared, heap, pool, local
  <2> USE <1>a, <2>1, <2>2 DEF QuiesceInv, Same
  <2>3. LockInv'
    BY DEF LockInv, ControlInv, Holding, Claimed, InSweep, Workers, NoOne
  <2>4. EpochInv'
    BY DEF LockInv, EpochInv, Holding, Claimed, Requesting, ControlInv, BarrierInv, Quiet, Out, InSweep
  <2>5. ControlInv'
    BY <1>b DEF LockInv, Claimed, ControlInv, BareCode, Out, InAlloc, InElect, InSweep
  <2>6. BarrierInv'
    BY DEF LockInv, EpochInv, BarrierInv, ControlInv, Holding, Claimed, Requesting, BareCode, Quiet, Out, InSweep, Workers
  <2>7. NoViolations'
    BY DEF LockInv, BarrierInv, Quiet, Out, NoViolations
  <2> QED
    BY <2>3, <2>4, <2>5, <2>6, <2>7
<1>19. CASE AllocRetry(w)
  <2>1. /\ pc[w] = "aRetry"
        /\ pc'[w] \in {"aMut", "cCas", "trap"}
        /\ violations' = violations + (IF stopped = 1 /\ collector # w THEN 1 ELSE 0)
    BY <1>19 DEF AllocRetry, Go, At, QuiesceInv, TypeOK, TypeShared, TypeControl
  <2>2. UNCHANGED <<cont[w], ep[w], bar[w], inTask[w], handoff[w], active[w], parked[w], epoch, done, lock, collector, stopped, started>>
    BY <1>19 DEF AllocRetry, shared, heap, pool, local
  <2> USE <1>a, <2>1, <2>2 DEF QuiesceInv, Same
  <2>3. LockInv'
    BY DEF LockInv, ControlInv, Holding, Claimed, InSweep, Workers, NoOne
  <2>4. EpochInv'
    BY DEF LockInv, EpochInv, Holding, Claimed, Requesting, ControlInv, BarrierInv, Quiet, Out, InSweep
  <2>5. ControlInv'
    BY DEF LockInv, Claimed, ControlInv, BareCode, Out, InAlloc, InElect, InSweep
  <2>6. BarrierInv'
    BY DEF LockInv, EpochInv, BarrierInv, ControlInv, Holding, Claimed, Requesting, BareCode, Quiet, Out, InSweep, Workers
  <2>7. NoViolations'
    BY DEF LockInv, BarrierInv, Quiet, Out, NoViolations
  <2> QED
    BY <2>3, <2>4, <2>5, <2>6, <2>7
<1>20. CASE CollectElect(w)
  <2>1. /\ pc[w] = "cCas"
        /\ \/ lock = 0 /\ lock' = 1 /\ pc'[w] = "cColl"
           \/ lock' = lock /\ pc'[w] = "sEpoch"
    BY <1>20 DEF CollectElect, Go, At, QuiesceInv, TypeOK, TypeShared, TypeControl
  <2>2. UNCHANGED <<cont[w], ep[w], bar[w], inTask[w], handoff[w], active[w], parked[w], epoch, done, collector, stopped, started, violations>>
    BY <1>20 DEF CollectElect, shared, heap, pool, local
  <2> USE <1>a, <2>1, <2>2 DEF QuiesceInv, Same
  <2>3. LockInv'
    BY DEF LockInv, ControlInv, Holding, Claimed, InSweep, Workers, NoOne
  <2>4. EpochInv'
    BY DEF LockInv, EpochInv, Holding, Claimed, Requesting, ControlInv, BarrierInv, Quiet, Out, InSweep
  <2>5. ControlInv'
    BY DEF LockInv, Claimed, ControlInv, BareCode, Out, InAlloc, InElect, InSweep
  <2>6. BarrierInv'
    BY DEF LockInv, EpochInv, BarrierInv, ControlInv, Holding, Claimed, Requesting, BareCode, Quiet, Out, InSweep, Workers
  <2>7. NoViolations'
    BY DEF LockInv, BarrierInv, Quiet, Out, NoViolations
  <2> QED
    BY <2>3, <2>4, <2>5, <2>6, <2>7
<1>21. CASE CollectClaim(w)
  <2>1. /\ pc[w] = "cColl"
        /\ pc'[w] = "cEpoch"
        /\ collector' = w
    BY <1>21 DEF CollectClaim, Go, At, QuiesceInv, TypeOK, TypeShared, TypeControl
  <2>2. UNCHANGED <<cont[w], ep[w], bar[w], inTask[w], handoff[w], active[w], parked[w], epoch, done, lock, stopped, started, violations>>
    BY <1>21 DEF CollectClaim, shared, heap, pool, local
  <2> USE <1>a, <2>1, <2>2 DEF QuiesceInv, Same
  <2>3. LockInv'
    BY DEF LockInv, ControlInv, Holding, Claimed, InSweep, Workers, NoOne
  <2>4. EpochInv'
    BY DEF LockInv, EpochInv, Holding, Claimed, Requesting, ControlInv, BarrierInv, Quiet, Out, InSweep
  <2>5. ControlInv'
    BY DEF LockInv, Claimed, ControlInv, BareCode, Out, InAlloc, InElect, InSweep
  <2>6. BarrierInv'
    BY DEF LockInv, EpochInv, BarrierInv, ControlInv, Holding, Claimed, Requesting, BareCode, Quiet, Out, InSweep, Workers
  <2>7. NoViolations'
    BY DEF LockInv, BarrierInv, Quiet, Out, NoViolations
  <2> QED
    BY <2>3, <2>4, <2>5, <2>6, <2>7
<1>22. CASE CollectRequest(w)
  <2>1. /\ pc[w] = "cEpoch"
        /\ pc'[w] = "cHand"
        /\ epoch' = epoch + 1
    BY <1>22 DEF CollectRequest, Go, At, QuiesceInv, TypeOK, TypeShared, TypeControl
  <2>2. UNCHANGED <<cont[w], ep[w], bar[w], inTask[w], handoff[w], active[w], parked[w], done, lock, collector, stopped, started, violations>>
    BY <1>22 DEF CollectRequest, shared, heap, pool, local
  <2> USE <1>a, <2>1, <2>2 DEF QuiesceInv, Same
  <2>3. LockInv'
    BY DEF LockInv, ControlInv, Holding, Claimed, InSweep, Workers, NoOne
  <2>4. EpochInv'
    BY <1>b DEF LockInv, EpochInv, Holding, Claimed, Requesting, ControlInv, BarrierInv, Quiet, Out, InSweep
  <2>5. ControlInv'
    BY DEF LockInv, Claimed, ControlInv, BareCode, Out, InAlloc, InElect, InSweep
  <2>6. BarrierInv'
    BY DEF LockInv, EpochInv, BarrierInv, ControlInv, Holding, Claimed, Requesting, BareCode, Quiet, Out, InSweep, Workers
  <2>7. NoViolations'
    BY DEF LockInv, BarrierInv, Quiet, Out, NoViolations
  <2> QED
    BY <2>3, <2>4, <2>5, <2>6, <2>7
<1>23. CASE CollectHandoff(w)
  <2>1. /\ pc[w] = "cHand"
        /\ \/ /\ inTask[w] = 1 /\ handoff'[w] = 1 /\ cont'[w] = "aRetry" /\ pc'[w] = "susp"
              /\ ep'[w] = ep[w] /\ bar'[w] = bar[w]
           \/ /\ inTask[w] # 1 /\ ep'[w] = epoch /\ bar'[w] = 0 /\ pc'[w] = "qBar"
              /\ handoff'[w] = handoff[w] /\ cont'[w] = cont[w]
    BY <1>23 DEF CollectHandoff, Go, At, QuiesceInv, TypeOK, TypeShared, TypeControl
  <2>2. UNCHANGED <<inTask[w], active[w], parked[w], epoch, done, lock, collector, stopped, started, violations>>
    BY <1>23 DEF CollectHandoff, shared, heap, pool, local
  <2> USE <1>a, <2>1, <2>2 DEF QuiesceInv, Same
  <2>3. LockInv'
    BY DEF LockInv, ControlInv, Holding, Claimed, InSweep, Workers, NoOne
  <2>4. EpochInv'
    BY DEF LockInv, EpochInv, Holding, Claimed, Requesting, ControlInv, BarrierInv, Quiet, Out, InSweep
  <2>5. ControlInv'
    BY <1>b DEF LockInv, Claimed, ControlInv, BareCode, Out, InAlloc, InElect, InSweep
  <2>6. BarrierInv'
    BY DEF LockInv, EpochInv, BarrierInv, ControlInv, Holding, Claimed, Requesting, BareCode, Quiet, Out, InSweep, Workers
  <2>7. NoViolations'
    BY DEF LockInv, BarrierInv, Quiet, Out, NoViolations
  <2> QED
    BY <2>3, <2>4, <2>5, <2>6, <2>7
<1>24. CASE Barrier(w)
  <2>1. /\ pc[w] = "qBar"
        /\ \/ bar[w] = NWorkers /\ pc'[w] = "qStop" /\ bar'[w] = bar[w]
           \/ /\ bar[w] < NWorkers /\ (bar[w] = w \/ active[bar[w]] = 0 \/ parked[bar[w]] >= ep[w])
              /\ bar'[w] = bar[w] + 1 /\ pc'[w] = "qBar"
    BY <1>24 DEF Barrier, Go, At, QuiesceInv, TypeOK, TypeShared, TypeControl
  <2>2. UNCHANGED <<cont[w], ep[w], inTask[w], handoff[w], active[w], parked[w], epoch, done, lock, collector, stopped, started, violations>>
    BY <1>24 DEF Barrier, shared, heap, pool, local
  <2> USE <1>a, <2>1, <2>2 DEF QuiesceInv, Same
  <2>3. LockInv'
    BY DEF LockInv, ControlInv, Holding, Claimed, InSweep, Workers, NoOne
  <2>4. EpochInv'
    BY DEF LockInv, EpochInv, Holding, Claimed, Requesting, ControlInv, BarrierInv, Quiet, Out, InSweep
  <2>5. ControlInv'
    BY DEF LockInv, Claimed, ControlInv, BareCode, Out, InAlloc, InElect, InSweep
  <2>6. BarrierInv'
    BY <1>b DEF LockInv, EpochInv, BarrierInv, ControlInv, Holding, Claimed, Requesting, BareCode, Quiet, Out, InSweep, Workers
  <2>7. NoViolations'
    BY DEF LockInv, BarrierInv, Quiet, Out, NoViolations
  <2> QED
    BY <2>3, <2>4, <2>5, <2>6, <2>7
<1>25. CASE StopWorld(w)
  <2>1. /\ pc[w] = "qStop"
        /\ pc'[w] = "qSweep"
        /\ stopped' = 1
    BY <1>25 DEF StopWorld, Go, At, QuiesceInv, TypeOK, TypeShared, TypeControl
  <2>2. UNCHANGED <<cont[w], ep[w], bar[w], inTask[w], handoff[w], active[w], parked[w], epoch, done, lock, collector, started, violations>>
    BY <1>25 DEF StopWorld, shared, heap, pool, local
  <2> USE <1>a, <2>1, <2>2 DEF QuiesceInv, Same
  <2>3. LockInv'
    BY DEF LockInv, ControlInv, Holding, Claimed, InSweep, Workers, NoOne
  <2>4. EpochInv'
    BY DEF LockInv, EpochInv, Holding, Claimed, Requesting, ControlInv, BarrierInv, Quiet, Out, InSweep
  <2>5. ControlInv'
    BY DEF LockInv, Claimed, ControlInv, BareCode, Out, InAlloc, InElect, InSweep
  <2>6. BarrierInv'
    BY DEF LockInv, EpochInv, BarrierInv, ControlInv, Holding, Claimed, Requesting, BareCode, Quiet, Out, InSweep, Workers
  <2>7. NoViolations'
    BY DEF LockInv, BarrierInv, Quiet, Out, NoViolations
  <2> QED
    BY <2>3, <2>4, <2>5, <2>6, <2>7
<1>26. CASE jacl_gc_collect_stw(w)
  <2>1. /\ pc[w] = "qSweep"
        /\ pc'[w] = "qOpen"
    BY <1>26 DEF jacl_gc_collect_stw, Go, At, QuiesceInv, TypeOK, TypeShared, TypeControl
  <2>2. UNCHANGED <<cont[w], ep[w], bar[w], inTask[w], handoff[w], active[w], parked[w], epoch, done, lock, collector, stopped, started, violations>>
    BY <1>26 DEF jacl_gc_collect_stw, shared, heap, pool, local
  <2> USE <1>a, <2>1, <2>2 DEF QuiesceInv, Same
  <2>3. LockInv'
    BY DEF LockInv, ControlInv, Holding, Claimed, InSweep, Workers, NoOne
  <2>4. EpochInv'
    BY DEF LockInv, EpochInv, Holding, Claimed, Requesting, ControlInv, BarrierInv, Quiet, Out, InSweep
  <2>5. ControlInv'
    BY DEF LockInv, Claimed, ControlInv, BareCode, Out, InAlloc, InElect, InSweep
  <2>6. BarrierInv'
    BY DEF LockInv, EpochInv, BarrierInv, ControlInv, Holding, Claimed, Requesting, BareCode, Quiet, Out, InSweep, Workers
  <2>7. NoViolations'
    BY DEF LockInv, BarrierInv, Quiet, Out, NoViolations
  <2> QED
    BY <2>3, <2>4, <2>5, <2>6, <2>7
<1>27. CASE OpenWorld(w)
  <2>1. /\ pc[w] = "qOpen"
        /\ pc'[w] = "qColl"
        /\ stopped' = 0
    BY <1>27 DEF OpenWorld, Go, At, QuiesceInv, TypeOK, TypeShared, TypeControl
  <2>2. UNCHANGED <<cont[w], ep[w], bar[w], inTask[w], handoff[w], active[w], parked[w], epoch, done, lock, collector, started, violations>>
    BY <1>27 DEF OpenWorld, shared, heap, pool, local
  <2> USE <1>a, <2>1, <2>2 DEF QuiesceInv, Same
  <2>3. LockInv'
    BY DEF LockInv, ControlInv, Holding, Claimed, InSweep, Workers, NoOne
  <2>4. EpochInv'
    BY DEF LockInv, EpochInv, Holding, Claimed, Requesting, ControlInv, BarrierInv, Quiet, Out, InSweep
  <2>5. ControlInv'
    BY DEF LockInv, Claimed, ControlInv, BareCode, Out, InAlloc, InElect, InSweep
  <2>6. BarrierInv'
    BY DEF LockInv, EpochInv, BarrierInv, ControlInv, Holding, Claimed, Requesting, BareCode, Quiet, Out, InSweep, Workers
  <2>7. NoViolations'
    BY DEF LockInv, BarrierInv, Quiet, Out, NoViolations
  <2> QED
    BY <2>3, <2>4, <2>5, <2>6, <2>7
<1>28. CASE DropCollector(w)
  <2>1. /\ pc[w] = "qColl"
        /\ pc'[w] = "qDone"
        /\ collector' = NoOne
    BY <1>28 DEF DropCollector, Go, At, QuiesceInv, TypeOK, TypeShared, TypeControl
  <2>2. UNCHANGED <<cont[w], ep[w], bar[w], inTask[w], handoff[w], active[w], parked[w], epoch, done, lock, stopped, started, violations>>
    BY <1>28 DEF DropCollector, shared, heap, pool, local
  <2> USE <1>a, <2>1, <2>2 DEF QuiesceInv, Same
  <2>3. LockInv'
    BY DEF LockInv, ControlInv, Holding, Claimed, InSweep, Workers, NoOne
  <2>4. EpochInv'
    BY DEF LockInv, EpochInv, Holding, Claimed, Requesting, ControlInv, BarrierInv, Quiet, Out, InSweep
  <2>5. ControlInv'
    BY DEF LockInv, Claimed, ControlInv, BareCode, Out, InAlloc, InElect, InSweep
  <2>6. BarrierInv'
    BY DEF LockInv, EpochInv, BarrierInv, ControlInv, Holding, Claimed, Requesting, BareCode, Quiet, Out, InSweep, Workers
  <2>7. NoViolations'
    BY DEF LockInv, BarrierInv, Quiet, Out, NoViolations
  <2> QED
    BY <2>3, <2>4, <2>5, <2>6, <2>7
<1>29. CASE PublishDone(w)
  <2>1. /\ pc[w] = "qDone"
        /\ pc'[w] = "qUnlock"
        /\ done' = ep[w]
    BY <1>29 DEF PublishDone, Go, At, QuiesceInv, TypeOK, TypeShared, TypeControl
  <2>2. UNCHANGED <<cont[w], ep[w], bar[w], inTask[w], handoff[w], active[w], parked[w], epoch, lock, collector, stopped, started, violations>>
    BY <1>29 DEF PublishDone, shared, heap, pool, local
  <2> USE <1>a, <2>1, <2>2 DEF QuiesceInv, Same
  <2>3. LockInv'
    BY DEF LockInv, ControlInv, Holding, Claimed, InSweep, Workers, NoOne
  <2>4. EpochInv'
    BY DEF LockInv, EpochInv, Holding, Claimed, Requesting, ControlInv, BarrierInv, Quiet, Out, InSweep
  <2>5. ControlInv'
    BY DEF LockInv, Claimed, ControlInv, BareCode, Out, InAlloc, InElect, InSweep
  <2>6. BarrierInv'
    BY DEF LockInv, EpochInv, BarrierInv, ControlInv, Holding, Claimed, Requesting, BareCode, Quiet, Out, InSweep, Workers
  <2>7. NoViolations'
    BY DEF LockInv, BarrierInv, Quiet, Out, NoViolations
  <2> QED
    BY <2>3, <2>4, <2>5, <2>6, <2>7
<1>30. CASE Unlock(w)
  <2>1. /\ pc[w] = "qUnlock"
        /\ pc'[w] = IF cont[w] = "none" THEN "aRetry" ELSE "go"
        /\ lock' = 0
    BY <1>30 DEF Unlock, Go, At, QuiesceInv, TypeOK, TypeShared, TypeControl
  <2>2. UNCHANGED <<cont[w], ep[w], bar[w], inTask[w], handoff[w], active[w], parked[w], epoch, done, collector, stopped, started, violations>>
    BY <1>30 DEF Unlock, shared, heap, pool, local
  <2> USE <1>a, <2>1, <2>2 DEF QuiesceInv, Same
  <2>3. LockInv'
    BY DEF LockInv, ControlInv, Holding, Claimed, InSweep, Workers, NoOne
  <2>4. EpochInv'
    BY DEF LockInv, EpochInv, Holding, Claimed, Requesting, ControlInv, BarrierInv, Quiet, Out, InSweep
  <2>5. ControlInv'
    BY DEF LockInv, Claimed, ControlInv, BareCode, Out, InAlloc, InElect, InSweep
  <2>6. BarrierInv'
    BY DEF LockInv, EpochInv, BarrierInv, ControlInv, Holding, Claimed, Requesting, BareCode, Quiet, Out, InSweep, Workers
  <2>7. NoViolations'
    BY DEF LockInv, BarrierInv, Quiet, Out, NoViolations
  <2> QED
    BY <2>3, <2>4, <2>5, <2>6, <2>7
<1> QED
  BY <1>1, <1>2, <1>3, <1>4, <1>5, <1>6, <1>7, <1>8, <1>9, <1>10, <1>11, <1>12, <1>13, <1>14, <1>15, <1>16, <1>17, <1>18, <1>19, <1>20, <1>21, <1>22, <1>23, <1>24, <1>25, <1>26, <1>27, <1>28, <1>29, <1>30 DEF Step, Lifecycle, Park, Alloc, Collect, Sweep

\* QuiesceInv is an invariant.
THEOREM QuiesceInvariant == Spec => []QuiesceInv
<1>1. QuiesceInv /\ [Next]_vars => QuiesceInv'
  <2> SUFFICES ASSUME QuiesceInv, [Next]_vars PROVE QuiesceInv'
    OBVIOUS
  <2>1. ASSUME NEW w \in Workers, Step(w) PROVE QuiesceInv'
    BY <2>1, InvStep, StepTypeOK DEF QuiesceInv
  <2>2. CASE UNCHANGED vars
    BY <2>2 DEF vars, shared, heap, pool, local, QuiesceInv, TypeOK, TypeShared, TypeHeap, TypeControl,
         LockInv, EpochInv, ControlInv, BarrierInv, NoViolations, Holding, Claimed, Requesting, BareCode, Quiet
  <2> QED
    BY <2>1, <2>2 DEF Next, Over
<1> QED
  BY <1>1, InvInit, PTL DEF Spec

\* While one worker sweeps, every other is quiet: no task runs and nobody is in
\* the allocator.
THEOREM WorldStops == Spec => []StopTheWorld
<1>1. QuiesceInv => StopTheWorld
  <2> SUFFICES ASSUME QuiesceInv, NEW w \in Workers, pc[w] \in {"qSweep", "qOpen"},
                      NEW i \in Workers \ {w}
               PROVE  inTask[i] = 0 /\ pc[i] \notin InAlloc
    BY DEF StopTheWorld
  <2>1. Quiet(i)
    BY DEF QuiesceInv, BarrierInv
  <2>2. pc[i] \in {"new", "join", "off", "top", "pDone", "pPub", "pWait"}
    BY <2>1 DEF Quiet, Out
  <2>3. inTask[i] # 1
    BY <2>2 DEF QuiesceInv, ControlInv, InAlloc, InElect
  <2> QED
    BY <2>2, <2>3 DEF QuiesceInv, TypeOK, TypeShared, InAlloc
<1> QED
  BY <1>1, QuiesceInvariant, PTL

\* jacl_gc_violation_count stays 0, whatever the workers do.
THEOREM ViolationsStayZero == Spec => []NoViolations
<1>1. QuiesceInv => NoViolations
  BY DEF QuiesceInv
<1> QED
  BY <1>1, QuiesceInvariant, PTL

\* done never moves past the epoch a parked worker waits for.
THEOREM NoWakeMissed == Spec => []NoMissedWake
<1>1. QuiesceInv => NoMissedWake
  BY DEF QuiesceInv, EpochInv, NoMissedWake, At
<1> QED
  BY <1>1, QuiesceInvariant, PTL

\* One collector at a time, and jacl_gc_collector names it.
THEOREM SingleCollector == Spec => []OneCollector
<1>1. QuiesceInv => OneCollector
  BY DEF QuiesceInv, LockInv, Claimed, OneCollector, InSweep
<1> QED
  BY <1>1, QuiesceInvariant, PTL

\* Collections complete one by one, in the order they were requested.
THEOREM CollectionsInOrder == Spec => EpochsInOrder
<1>1. QuiesceInv /\ [Next]_vars => [done' # done => done' = done + 1 /\ done' = epoch]_vars
  <2> SUFFICES ASSUME QuiesceInv, NEW w \in Workers, Step(w), done' # done
               PROVE  done' = done + 1 /\ done' = epoch
    BY DEF Next, Over
  <2>1. PublishDone(w)
    BY DEF Step, Lifecycle, Park, Alloc, Collect, Sweep, shared,
      EnterLoop, pool_ensure, jacl_gc_worker_register, jacl_gc_worker_unregister, JoinAll, MainReturns,
      Idle, jacl_gc_task_begin, jacl_gc_task_end, ParkEnter, ParkCheck, ParkPublish,
      ParkWake, AllocEnter, SafepointLoad, jacl_gc_safepoint, jacl_alloc_off, AllocFill,
      AllocRetry, CollectElect, CollectClaim, CollectRequest, CollectHandoff, Barrier,
      StopWorld, jacl_gc_collect_stw, OpenWorld, DropCollector, Unlock
  <2> QED
    BY <2>1 DEF PublishDone, At, QuiesceInv, EpochInv, Requesting, InSweep
<1> QED
  BY <1>1, QuiesceInvariant, PTL DEF Spec, EpochsInOrder
=============================================================================

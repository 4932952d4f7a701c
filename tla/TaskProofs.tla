----------------------------- MODULE TaskProofs -----------------------------
(* Proofs about what tasks share: the ambient context (module TaskCtx),        *)
(* pipelines (Pipeline), atoms, watchers and global maps (Atoms), the stacks   *)
(* of timeouts and of calls (GlobalStacks) and the transcript (Transcript).    *)
(* They share no state.                                                        *)
(*                                                                             *)
(* With one worker, for any number of jobs and of context changes, the swap of *)
(* resume_job isolates the jobs' contexts.  With two it does not (run          *)
(* ctx_two): the proof rests on ctxCur having one owner at a time.             *)
(*                                                                             *)
(* For any number of stages, ring size and amount of work, and however starting *)
(* them goes: every stage counted is joined before the call returns, at most   *)
(* one is left behind, and the stage an error names failed for a reason of its *)
(* own, never because a stage before it had.                                   *)
(*                                                                             *)
(* For any number of tasks, keys, names and calls: no update of an atom or of  *)
(* a global map is lost or doubled, and every watcher is told.                 *)
(*                                                                             *)
(* For any tasks, stack depths and lengths: the stacks of sleep budgets and of *)
(* calls serve the task that runs, in the cases StacksServe describes.         *)
(*                                                                             *)
(* For any numbers of fibers, slots, calls and any lengths, whatever the store *)
(* or the memory refuses: output of a call lands together, in an open block of *)
(* the job the caller's handle still names.                                    *)
EXTENDS TaskCtx, Pipeline, Atoms, GlobalStacks, Transcript, WellFoundedInduction, FiniteSetTheorems,
        SequenceTheorems, TLAPS

-----------------------------------------------------------------------------
(* The ambient context *)

Shape ==
  /\ pc \in [Workers -> {"loop", "install", "run", "restore"}]
  /\ cur \in [Workers -> Jobs \cup {None}]
  /\ saved \in [Workers -> Nat]
  /\ jobs \in [Jobs -> {"unborn", "ready", "busy", "done"}]
  /\ jctx \in [Jobs -> Nat] /\ mine \in [Jobs -> Nat]
  /\ ctxCur \in Nat /\ sets \in Nat

\* Where each job's context is: in i64@22 of every job that is born and not
\* running, in jacl_ctx_cur while it runs; the worker's own, empty, is in
\* saved_ctx during a slice and in jacl_ctx_cur between slices.
CtxInv ==
  /\ Shape
  /\ \A j \in Jobs :
       jobs[j] \in {"ready", "done"} \/ (jobs[j] = "busy" /\ pc[0] # "run")
         => jctx[j] = mine[j]
  /\ pc[0] # "loop" => cur[0] \in Jobs /\ jobs[cur[0]] = "busy" /\ saved[0] = 0
  /\ \A j \in Jobs : jobs[j] = "busy" => pc[0] # "loop" /\ j = cur[0]
  /\ pc[0] = "loop" => ctxCur = 0
  /\ pc[0] = "run" => ctxCur = mine[cur[0]]

\* One worker is worker 0.
LEMMA OneWorker ==
  ASSUME NWorkers = 1
  PROVE  Workers = {0}
  BY DEF Workers

\* The first slice has not begun: every context is the empty one.
LEMMA CtxInit ==
  ASSUME NWorkers = 1
  PROVE  Init => CtxInv
  BY OneWorker DEF Init, CtxInv, Shape, None

\* Every step of resume_job, and of the job's code, keeps the contexts in place.
LEMMA CtxStep ==
  ASSUME NWorkers = 1, CtxInv, [Next]_vars
  PROVE  CtxInv'
<1>w. Workers = {0}
  BY OneWorker
<1>t. None \notin Jobs
  BY CtxAssumption DEF CtxAssumption, Jobs, None
<1>1. CASE UNCHANGED vars
  BY <1>1 DEF vars, CtxInv, Shape
<1>2. CASE SaveCtx(0)
  <2>1. PICK j \in Jobs : /\ jobs[j] = "ready"
                          /\ cur' = [cur EXCEPT ![0] = j]
                          /\ jobs' = [jobs EXCEPT ![j] = "busy"]
    BY <1>2 DEF SaveCtx
  <2>2. /\ pc[0] = "loop" /\ saved' = [saved EXCEPT ![0] = ctxCur]
        /\ pc' = [pc EXCEPT ![0] = "install"] /\ UNCHANGED <<ctxCur, jctx, sets, mine>>
    BY <1>2 DEF SaveCtx
  <2> QED
    BY <1>w, <1>t, <2>1, <2>2 DEF CtxInv, Shape
<1>3. CASE InstallCtx(0)
  BY <1>3, <1>w, <1>t DEF InstallCtx, CtxInv, Shape
<1>4. CASE jacl_ctx_set(0)
  BY <1>4, <1>w, <1>t DEF jacl_ctx_set, CtxInv, Shape
<1>5. CASE make_job(0)
  <2>1. PICK k \in Jobs : /\ jobs[k] = "unborn"
                          /\ jobs' = [jobs EXCEPT ![k] = "ready"]
                          /\ jctx' = [jctx EXCEPT ![k] = ctxCur]
                          /\ mine' = [mine EXCEPT ![k] = mine[cur[0]]]
    BY <1>5 DEF make_job
  <2>2. pc[0] = "run" /\ UNCHANGED <<ctxCur, saved, cur, pc, sets>>
    BY <1>5 DEF make_job
  <2> QED
    BY <1>w, <1>t, <2>1, <2>2 DEF CtxInv, Shape
<1>6. CASE CaptureCtx(0)
  BY <1>6, <1>w, <1>t DEF CaptureCtx, CtxInv, Shape
<1>7. CASE RestoreCtx(0)
  <2>1. PICK s \in {"ready", "done"} : jobs' = [jobs EXCEPT ![cur[0]] = s]
    BY <1>7 DEF RestoreCtx
  <2>2. /\ pc[0] = "restore" /\ ctxCur' = saved[0]
        /\ cur' = [cur EXCEPT ![0] = None] /\ pc' = [pc EXCEPT ![0] = "loop"]
        /\ UNCHANGED <<jctx, saved, sets, mine>>
    BY <1>7 DEF RestoreCtx
  <2> QED
    BY <1>w, <1>t, <2>1, <2>2 DEF CtxInv, Shape
<1> QED
  BY <1>w, <1>1, <1>2, <1>3, <1>4, <1>5, <1>6, <1>7 DEF Next, Step, Over

\* On one worker a running job always sees its own $ctx: the snapshot make_job
\* took of its spawner's and its own later changes, and no other job's.
THEOREM OneWorkerIsolated ==
  ASSUME NWorkers = 1
  PROVE  Spec => []CtxIsolated
<1>1. CtxInv => CtxIsolated
  BY OneWorker DEF CtxInv, CtxIsolated
<1> QED
  BY <1>1, CtxInit, CtxStep, PTL DEF Spec

\* On one worker resume_job puts the empty ambient context back after every slice.
THEOREM OneWorkerRestored ==
  ASSUME NWorkers = 1
  PROVE  Spec => []AmbientRestored
<1>1. CtxInv => AmbientRestored
  BY OneWorker DEF CtxInv, AmbientRestored
<1> QED
  BY <1>1, CtxInit, CtxStep, PTL DEF Spec

-----------------------------------------------------------------------------
(* Pipelines *)

\* What the shell still has to reap may only be in these places.
Ended == {"over", "killed"}
Working == {"run", "print", "diag", "read", "parked"}

PipeTypeOK ==
  /\ sh \in {"region", "spawn", "failed", "read", "pump", "join", "returned"}
  /\ outEnd \in [St -> {"open", "complete", "cancel", "severed"}]
  /\ spawned \in 0 .. NStages
  /\ child \in [St -> {"none", "value", "end"} \cup Working \cup Ended]
  /\ status \in [St -> {0, 1}]
  /\ cause \in {-1, 2, 7} /\ own \subseteq St /\ refused \subseteq St

\* How far the shell has come and which stages there are: those counted have a
\* vat, and after a failed start perhaps the next one, uncounted; all are counted
\* while the output is read, and once they are joined none of them runs.
ShellHolds ==
  /\ \A i \in St : /\ child[i] = "none" => i > spawned
                   /\ child[i] # "none" => i <= spawned \/ (i = spawned + 1 /\ sh \notin {"region", "spawn", "read"})
                   /\ child[i] \in {"read", "parked"} => i > 1
  /\ sh = "region" => spawned = 0 /\ joined = {}
  /\ sh = "read" => spawned = NStages
  /\ sh \in {"region", "spawn", "failed", "read"} => cause = -1
  /\ sh \in {"join", "returned"} =>
       joined = 1 .. spawned /\ \A i \in 1 .. spawned : child[i] \in Ended

\* Why each stage failed, while no cancel did it: of itself, for a refused read it
\* returned, or because the stage before it had failed and severed its stdin.
FailuresHold ==
  cause # 7 =>
    \A i \in St :
      /\ child[i] \in {"none"} \cup Working => status[i] = 0
      /\ i \in own => status[i] = 1
      /\ status[i] = 1 => i \in own \cup refused \/ (i > 1 /\ status[i - 1] = 1)
      /\ outEnd[i] = "severed" => status[i] = 1

\* What the call reports for the statuses joined.
Reported == CASE pipe_failure = NoStage -> IF opened THEN "value" ELSE "no output"
              [] pipe_failure = -1 -> "severed"
              [] OTHER -> "stage"

\* It is the result, if any stage was started.
ResultHolds == sh = "returned" /\ (\E i \in St : child[i] # "none") => result = Reported

\* The inductive invariant of a pipeline.
PipeInv == PipeTypeOK /\ ShellHolds /\ FailuresHold /\ ResultHolds

-----------------------------------------------------------------------------
(* The shell's steps *)

LEMMA StagesNat == NStages \in Nat /\ NStages > 0 /\ St = 1 .. NStages
  BY PipeAssumption DEF PipeAssumption, St

\* Nothing has been started.
LEMMA PipeInitInv ==
  ASSUME PipeInit
  PROVE  PipeInv
  BY StagesNat DEF PipeInit, PipeInv, PipeTypeOK, ShellHolds, FailuresHold, ResultHolds, Working, Ended

\* The regions, the starts and the opening of the output (pipe_unir.c).
LEMMA StartsKeep ==
  ASSUME PipeInv, CreateRegions \/ SpawnStage \/ OpenOutput \/ StartFailed
  PROVE  PipeInv'
  <1> USE StagesNat DEF PipeInv, stageVars, histVars, openVars
  <1>1. CASE CreateRegions
    <2>1. /\ sh = "region" /\ sh' \in {"spawn", "returned"}
          /\ UNCHANGED <<outEnd, child, status, own, refused, spawned, joined, cause>>
      BY <1>1 DEF CreateRegions
    <2>2. spawned = 0 /\ joined = 1 .. spawned /\ \A i \in St : child[i] = "none"
      BY <2>1 DEF PipeTypeOK, ShellHolds
    <2>3. ShellHolds'
      BY <2>1, <2>2 DEF ShellHolds
    <2>4. QED
      BY <2>1, <2>2, <2>3 DEF PipeTypeOK, FailuresHold, ResultHolds
  <1>2. CASE SpawnStage
    <2>1. PICK how \in Starts :
            /\ child' = [child EXCEPT ![spawned + 1] = IF how = "nospawn" THEN "none" ELSE "run"]
            /\ spawned' = IF how = "ok" THEN spawned + 1 ELSE spawned
            /\ sh' = IF how = "ok" THEN "spawn" ELSE "failed"
      BY <1>2 DEF SpawnStage
    <2>2. /\ sh = "spawn" /\ spawned < NStages
          /\ UNCHANGED <<outEnd, status, own, refused, joined, cause, result>>
      BY <1>2 DEF SpawnStage
    <2>3. how \in {"ok", "nospawn", "noopen"}
      BY <2>1, PipeAssumption DEF PipeAssumption
    <2>4. PipeTypeOK'
      BY <2>1, <2>2, <2>3 DEF PipeTypeOK, Working, Ended
    <2>5. ShellHolds'
      BY <2>1, <2>2, <2>3 DEF PipeTypeOK, ShellHolds
    <2>6. FailuresHold'
      BY <2>1, <2>2, <2>3 DEF PipeTypeOK, ShellHolds, FailuresHold, Working
    <2>7. QED
      BY <2>1, <2>3, <2>4, <2>5, <2>6 DEF ResultHolds
  <1>3. CASE OpenOutput
    <2>1. sh = "spawn" /\ spawned = NStages /\ sh' \in {"read", "failed"}
      BY <1>3 DEF OpenOutput
    <2>2. UNCHANGED <<outEnd, child, status, own, refused, spawned, joined, cause, result>>
      BY <1>3 DEF OpenOutput
    <2>3. QED
      BY <2>1, <2>2 DEF PipeTypeOK, ShellHolds, FailuresHold, ResultHolds
  <1>4. CASE StartFailed
    <2>1. PICK oc \in BOOLEAN :
            outEnd' = [i \in St |-> IF i = spawned /\ outEnd[i] = "open" /\ oc THEN "cancel" ELSE outEnd[i]]
      BY <1>4 DEF StartFailed
    <2>2. /\ sh = "failed" /\ sh' = "pump"
          /\ UNCHANGED <<child, status, own, refused, spawned, joined, cause, result>>
      BY <1>4 DEF StartFailed
    <2>3. \A i \in St : outEnd'[i] \in {outEnd[i], "cancel"}
      BY <2>1
    <2>4. outEnd' \in [St -> {"open", "complete", "cancel", "severed"}]
      BY <2>1 DEF PipeTypeOK
    <2>5. QED
      BY <2>2, <2>3, <2>4 DEF PipeTypeOK, ShellHolds, FailuresHold, ResultHolds
  <1>5. QED
    BY <1>1, <1>2, <1>3, <1>4

\* Reading, closing, cancelling, reaping and returning.
LEMMA ShellKeeps ==
  ASSUME PipeInv, pipe_read \/ ReadEnd \/ pipe_close \/ pipe_cancel \/ pipe_pump \/ pipe_finish \/ Return
  PROVE  PipeInv'
  <1> USE StagesNat DEF PipeInv, stageVars, histVars, openVars
  <1>1. CASE pipe_read \/ pipe_pump
    <2>1. UNCHANGED <<sh, outEnd, spawned, child, status, joined, cause, result, opened, own, refused>>
      BY <1>1 DEF pipe_read, pipe_pump
    <2>2. QED
      BY <2>1 DEF PipeTypeOK, ShellHolds, FailuresHold, ResultHolds, Reported, pipe_failure, Failed
  <1>2. CASE ReadEnd
    BY <1>2 DEF ReadEnd, PipeTypeOK, ShellHolds, FailuresHold, ResultHolds
  <1>3. CASE pipe_close
    BY <1>3 DEF pipe_close, PipeTypeOK, ShellHolds, FailuresHold, ResultHolds
  <1>4. CASE pipe_cancel
    BY <1>4 DEF pipe_cancel, PipeTypeOK, ShellHolds, FailuresHold, ResultHolds, Ended, Working
  <1>5. CASE pipe_finish
    BY <1>5 DEF pipe_finish, PipeTypeOK, ShellHolds, FailuresHold, ResultHolds, Ended
  <1>6. CASE Return
    <2>1. /\ sh = "join" /\ sh' = "returned"
          /\ UNCHANGED <<outEnd, child, status, own, refused, opened, spawned, joined, cause>>
      BY <1>6 DEF Return
    <2>2. Reported' = Reported
      BY <2>1 DEF Reported, pipe_failure, Failed
    <2>3. result' = Reported
      BY <1>6 DEF Return, Reported
    <2>4. ResultHolds'
      BY <2>2, <2>3 DEF ResultHolds
    <2>5. QED
      BY <2>1, <2>4 DEF PipeTypeOK, ShellHolds, FailuresHold
  <1>7. QED
    BY <1>1, <1>2, <1>3, <1>4, <1>5, <1>6

-----------------------------------------------------------------------------
(* The stages' steps *)

\* The result stands when a stage goes on: if the call has returned, that stage is
\* the uncounted one, whose status is not looked at.
LEMMA ResultStands ==
  ASSUME PipeInv, NEW i \in St, child[i] # "none", sh = "returned" => i > spawned,
         \A j \in St : j # i => status'[j] = status[j],
         UNCHANGED <<sh, spawned, cause, result, opened>>
  PROVE  ResultHolds'
  <1> SUFFICES ASSUME sh = "returned" PROVE result' = Reported'
    BY DEF ResultHolds
  <1>1. i > spawned /\ result = Reported /\ spawned \in 0 .. NStages
    BY DEF PipeInv, ResultHolds, PipeTypeOK
  <1>2. \A j \in 1 .. spawned : j \in St /\ j # i
    BY <1>1, StagesNat
  <1>3. Failed' = Failed
    BY <1>2 DEF Failed
  <1>4. Reported' = Reported
    BY <1>3 DEF Reported, pipe_failure
  <1>5. QED
    BY <1>1, <1>4

\* Where a stage that goes on may be: counted, with the shell not yet done, or not.
LEMMA StageThere ==
  ASSUME PipeInv, NEW i \in St, child[i] \in {"value", "end"} \cup Working
  PROVE  /\ child[i] # "none" /\ i <= spawned + 1 /\ (i > spawned => sh \notin {"region", "spawn", "read"})
         /\ sh \in {"join", "returned"} => i > spawned
  BY StagesNat DEF PipeInv, PipeTypeOK, ShellHolds, Working, Ended

\* A step of a stage that keeps its outputs open and its status.
LEMMA StageGoesOn ==
  ASSUME PipeInv, NEW i \in St, NEW c \in {"value", "end"} \cup Working,
         child[i] \in {"value", "end"} \cup Working,
         c \in Working => child[i] \in Working,
         c \in {"read", "parked"} => i > 1,
         child' = [child EXCEPT ![i] = c],
         UNCHANGED <<sh, outEnd, spawned, status, joined, cause, result, opened, own, refused>>
  PROVE  PipeInv'
  <1> USE StagesNat DEF PipeInv
  <1>1. PipeTypeOK'
    BY DEF PipeTypeOK, Working, Ended
  <1>2. /\ child[i] # "none" /\ i <= spawned + 1 /\ (i > spawned => sh \notin {"region", "spawn", "read"})
        /\ sh \in {"join", "returned"} => i > spawned
    BY StageThere
  <1>3. ShellHolds'
    BY <1>2 DEF PipeTypeOK, ShellHolds, Working
  <1>4. FailuresHold'
    BY DEF PipeTypeOK, FailuresHold, Working
  <1>5. ResultHolds'
    BY <1>2, ResultStands
  <1>6. QED
    BY <1>1, <1>3, <1>4, <1>5

\* The program of a stage ends: it fails of itself, for a refused read, or because
\* its stdin was severed.
LEMMA StageEndsKeeps ==
  ASSUME PipeInv, NEW i \in St, NEW failed \in BOOLEAN, child[i] \in Working,
         StageEnds(i, failed),
         own' \in {own, own \cup {i}}, own' # own => failed,
         refused' \in {refused, refused \cup {i}},
         failed /\ i \notin own' \cup refused' => i > 1 /\ outEnd[i - 1] = "severed",
         UNCHANGED <<sh, outEnd, spawned, joined, cause, result, opened>>
  PROVE  PipeInv'
  <1> USE StagesNat DEF PipeInv
  <1>1. /\ child' = [child EXCEPT ![i] = "value"]
        /\ status' = [status EXCEPT ![i] = IF failed THEN 1 ELSE 0]
    BY DEF StageEnds
  <1>2. PipeTypeOK'
    BY <1>1 DEF PipeTypeOK
  <1>3. /\ child[i] # "none" /\ i <= spawned + 1 /\ (i > spawned => sh \notin {"region", "spawn", "read"})
        /\ sh \in {"join", "returned"} => i > spawned
    BY StageThere
  <1>4. ShellHolds'
    BY <1>1, <1>3 DEF PipeTypeOK, ShellHolds
  <1>5. ASSUME cause # 7, NEW j \in St
        PROVE  /\ child'[j] \in {"none"} \cup Working => status'[j] = 0
               /\ j \in own' => status'[j] = 1
               /\ status'[j] = 1 => j \in own' \cup refused' \/ (j > 1 /\ status'[j - 1] = 1)
               /\ outEnd[j] = "severed" => status'[j] = 1
    <2>1. status[i] = 0 /\ i \notin own /\ outEnd[i] # "severed"
      BY <1>5 DEF FailuresHold
    <2>2. CASE j = i
      BY <1>1, <1>5, <2>1, <2>2 DEF PipeTypeOK, FailuresHold, Working
    <2>3. CASE j # i
      BY <1>1, <1>5, <2>1, <2>3 DEF PipeTypeOK, FailuresHold
    <2>4. QED
      BY <2>2, <2>3
  <1>6. FailuresHold'
    BY <1>5 DEF FailuresHold
  <1>7. ResultHolds'
    <2>1. \A j \in St : j # i => status'[j] = status[j]
      BY <1>1 DEF PipeTypeOK
    <2>2. QED
      BY <1>3, <2>1, ResultStands
  <1>8. QED
    BY <1>2, <1>4, <1>6, <1>7

\* jacl_stage_finish: the stage is over; only a stage that failed severs its stdout.
LEMMA StageFinishKeeps ==
  ASSUME PipeInv, NEW i \in St, jacl_stage_finish(i)
  PROVE  PipeInv'
  <1> USE StagesNat DEF PipeInv, histVars, openVars
  <1>1. PipeTypeOK'
    BY DEF jacl_stage_finish, PipeTypeOK, Ended
  <1>2. /\ child[i] # "none" /\ i <= spawned + 1 /\ (i > spawned => sh \notin {"region", "spawn", "read"})
        /\ sh \in {"join", "returned"} => i > spawned
    BY StageThere DEF jacl_stage_finish
  <1>3. ShellHolds'
    BY <1>2 DEF jacl_stage_finish, PipeTypeOK, ShellHolds
  <1>4. FailuresHold'
    BY DEF jacl_stage_finish, PipeTypeOK, FailuresHold, Working
  <1>5. UNCHANGED <<sh, spawned, status, cause, result, opened>>
    BY DEF jacl_stage_finish
  <1>6. ResultHolds'
    BY <1>2, <1>5, ResultStands
  <1>7. QED
    BY <1>1, <1>3, <1>4, <1>6

\* A read that gives an error, which the program returns or not.
LEMMA ReadFailsKeeps ==
  ASSUME PipeInv, NEW i \in St, NEW orphan \in BOOLEAN, child[i] \in Working, i > 1,
         ReadFails(i, orphan), orphan \/ outEnd[i - 1] = "severed",
         UNCHANGED <<sh, outEnd, spawned, joined, cause, result, opened, own>>
  PROVE  PipeInv'
  <1>1. CASE StageEnds(i, TRUE) /\ refused' = IF orphan THEN refused \cup {i} ELSE refused
    BY <1>1, StageEndsKeeps
  <1>2. CASE child' = [child EXCEPT ![i] = "run"] /\ UNCHANGED <<status, refused>>
    BY <1>2, StageGoesOn DEF Working
  <1>3. QED
    BY <1>1, <1>2 DEF ReadFails

\* Every step of a stage.
LEMMA StageKeeps ==
  ASSUME PipeInv, NEW i \in St, StageStep(i)
  PROVE  PipeInv'
  <1> USE StagesNat DEF histVars, openVars
  <1>t. /\ child \in [St -> {"none", "value", "end"} \cup Working \cup Ended]
        /\ child[i] \in {"read", "parked"} => i > 1
    BY DEF PipeInv, PipeTypeOK, ShellHolds
  <1>1. CASE Turns(i)
    <2>1. PICK c \in {"print", "diag", "read"} : child' = [child EXCEPT ![i] = c] /\ (c = "read" => i > 1)
      BY <1>1 DEF Turns
    <2>2. QED
      BY <1>1, <2>1, StageGoesOn DEF Turns, Working
  <1>2. CASE jacl_out(i)
    <2>1. CASE outEnd[i] # "open"
      BY <1>2, <2>1, StageEndsKeeps DEF jacl_out, Working
    <2>2. CASE outEnd[i] = "open"
      BY <1>2, <2>2, StageGoesOn DEF jacl_out, Working
    <2>3. QED
      BY <2>1, <2>2
  <1>3. CASE StderrWrite(i)
    BY <1>3, StageGoesOn DEF StderrWrite, Working
  <1>4. CASE ReadStdin(i)
    <2>1. /\ child[i] = "read" /\ child[i] \in Working /\ i > 1
          /\ UNCHANGED <<sh, outEnd, spawned, joined, cause, result, opened, own>>
      BY <1>4, <1>t DEF ReadStdin, Working
    <2>2. CASE ReadFails(i, TRUE)
      BY <2>1, <2>2, ReadFailsKeeps
    <2>3. CASE child' = [child EXCEPT ![i] = "parked"] /\ UNCHANGED <<status, refused>>
      BY <2>1, <2>3, StageGoesOn DEF Working
    <2>4. QED
      BY <1>4, <2>2, <2>3 DEF ReadStdin
  <1>5. CASE chan_be_read(i)
    <2>1. /\ child[i] = "parked" /\ child[i] \in Working /\ i > 1
          /\ UNCHANGED <<sh, outEnd, spawned, joined, cause, result, opened, own>>
      BY <1>5, <1>t DEF chan_be_read, Working
    <2>2. CASE outEnd[i - 1] = "severed" /\ ReadFails(i, FALSE)
      BY <2>1, <2>2, ReadFailsKeeps
    <2>3. CASE child' = [child EXCEPT ![i] = "run"] /\ UNCHANGED <<status, refused>>
      BY <2>1, <2>3, StageGoesOn DEF Working
    <2>4. QED
      BY <1>5, <2>2, <2>3 DEF chan_be_read
  <1>6. CASE Finishes(i)
    <2>1. PICK failed \in BOOLEAN : StageEnds(i, failed) /\ own' = IF failed THEN own \cup {i} ELSE own
      BY <1>6 DEF Finishes
    <2>2. child[i] \in Working /\ UNCHANGED <<sh, outEnd, spawned, joined, cause, result, opened, refused>>
      BY <1>6 DEF Finishes, Working
    <2>3. own' \in {own, own \cup {i}} /\ (own' # own => failed) /\ (failed => i \in own')
      BY <2>1
    <2>4. QED
      BY <2>1, <2>2, <2>3, StageEndsKeeps
  <1>7. CASE stage_send_value(i)
    <2>1. PICK c \in {"value", "end"} : child' = [child EXCEPT ![i] = c]
      BY <1>7, <1>t DEF stage_send_value
    <2>2. QED
      BY <1>7, <2>1, StageGoesOn DEF stage_send_value, Working
  <1>8. CASE jacl_stage_finish(i)
    BY <1>8, StageFinishKeeps
  <1>9. QED
    BY <1>1, <1>2, <1>3, <1>4, <1>5, <1>6, <1>7, <1>8 DEF StageStep

\* Every step of the shell and of the stages keeps PipeInv, however starting the
\* stages goes and whatever their reads give (pipe_unir.c).
THEOREM PipeInvariant == PipeSpec => []PipeInv
  <1>1. ASSUME PipeInv, [PipeNext]_pipeVars
        PROVE  PipeInv'
    <2>1. CASE UNCHANGED pipeVars
      BY <1>1, <2>1 DEF pipeVars, PipeInv, PipeTypeOK, ShellHolds, FailuresHold, ResultHolds, Reported, pipe_failure, Failed
    <2>2. CASE PipeNext
      BY <1>1, <2>2, StartsKeep, ShellKeeps, StageKeeps DEF PipeNext, StageStep
    <2>3. QED
      BY <1>1, <2>1, <2>2
  <1>2. QED
    BY <1>1, PipeInitInv, PTL DEF PipeSpec

-----------------------------------------------------------------------------
(* What a pipeline reports *)

\* Min of stages is one of them and the least.
LEMMA LeastStage ==
  ASSUME NEW S \in SUBSET St, S # {}
  PROVE  Min(S) \in S /\ \A j \in S : Min(S) <= j
  <1>1. IsWellFoundedOn(OpToRel(<, Nat), Nat)
    BY NatLessThanWellFounded
  <1>2. S \subseteq Nat
    BY StagesNat
  <1>3. PICK m \in S : \A j \in S : ~(<<j, m>> \in OpToRel(<, Nat))
    BY <1>1, <1>2, WFMin
  <1>4. m \in Nat /\ \A j \in S : j \in Nat /\ ~(j < m)
    BY <1>2, <1>3 DEF OpToRel
  <1>5. ASSUME NEW j \in S PROVE m <= j
    BY <1>4
  <1>6. QED
    BY <1>5 DEF Min

\* Whichever stage ends, fails, does not start or starts without a stderr: when the
\* call has returned every stage counted was joined and runs no more, only the one
\* next to them may have been left behind; and a pipeline, not cancelled, of which a
\* program failed of itself has an error, which names a stage that failed of itself
\* or returned a read refused because its reader had gone (pipe_unir.c:413-473,
\* :574-595).
THEOREM PipelineHolds == PipeSpec => []PipelineReports
  <1>1. ASSUME PipeInv PROVE PipelineReports
    <2> USE <1>1, StagesNat DEF PipeInv
    <2>1. StagesReaped
      BY DEF StagesReaped, PipeTypeOK, ShellHolds, Ended
    <2>2. Failed \subseteq St /\ \A i \in Failed : i \in 1 .. spawned /\ status[i] = 1
      BY DEF Failed, PipeTypeOK
    <2>3. ASSUME Failed # {}
          PROVE  pipe_failure \in Failed /\ \A j \in Failed : pipe_failure <= j
      BY <2>2, <2>3, LeastStage DEF pipe_failure
    <2>4. ASSUME sh = "returned", cause # 7, own # {}
          PROVE  result = "stage"
      <3>1. PICK i \in St : i \in own /\ status[i] = 1 /\ child[i] # "none"
        <4>1. PICK i \in own : i \in St
          BY <2>4 DEF PipeTypeOK
        <4>2. status[i] = 1 /\ (child[i] = "none" => status[i] = 0)
          BY <2>4, <4>1 DEF FailuresHold
        <4>3. QED
          BY <4>1, <4>2
      <3>2. result = Reported /\ i <= spawned + 1 /\ spawned \in Nat
        BY <2>4, <3>1 DEF ResultHolds, ShellHolds, PipeTypeOK
      <3>3. CASE Failed # {}
        <4>1. pipe_failure \in 1 .. spawned
          BY <2>2, <2>3, <3>3
        <4> DEFINE m == pipe_failure
        <4>2. m \in Int /\ m # 0 /\ m # -1
          <5> HIDE DEF m
          <5>1. m \in 1 .. spawned
            BY <4>1 DEF m
          <5>2. QED
            BY <3>2, <5>1
        <4>3. QED
          BY <3>2, <4>2 DEF Reported, NoStage
      <3>4. CASE Failed = {}
        <4>1. i = spawned + 1 /\ spawned < NStages
          BY <3>1, <3>2, <3>4 DEF Failed
        <4>2. pipe_failure = spawned + 1
          BY <3>4, <4>1 DEF pipe_failure
        <4> DEFINE m == pipe_failure
        <4>3. m \in Int /\ m # 0 /\ m # -1
          <5> HIDE DEF m
          <5>1. m = spawned + 1
            BY <4>2 DEF m
          <5>2. QED
            BY <3>2, <5>1
        <4>4. QED
          BY <3>2, <4>3 DEF Reported, NoStage
      <3>5. QED
        BY <3>3, <3>4
    <2>5. ASSUME cause # 7, Failed # {}
          PROVE  pipe_failure \in own \cup refused
      <3> DEFINE m == pipe_failure
      <3>1. m \in Failed /\ \A j \in Failed : m <= j
        BY <2>3, <2>5
      <3> HIDE DEF m
      <3>2. m \in St /\ m <= spawned /\ m >= 1 /\ status[m] = 1 /\ spawned \in Nat
        BY <2>2, <3>1 DEF PipeTypeOK
      <3>3. m - 1 \notin Failed
        BY <3>1, <3>2
      <3>4. m > 1 => status[m - 1] # 1
        BY <3>2, <3>3 DEF Failed
      <3>5. m \in own \cup refused
        BY <2>5, <3>2, <3>4 DEF FailuresHold
      <3>6. QED
        BY <3>5 DEF m
    <2>6. QED
      BY <2>1, <2>4, <2>5 DEF PipelineReports, FailureNamed
  <1>2. QED
    BY <1>1, PipeInvariant, PTL

-----------------------------------------------------------------------------
(* Atoms and global maps *)

\* Adding a key to a list of distinct keys (jacl_watch).
LEMMA WatchedAdds ==
  ASSUME NEW w \in Seq(AtomKeys), NEW k \in AtomKeys, IsInjective(w)
  PROVE  /\ Watched(w, k) \in Seq(AtomKeys) /\ IsInjective(Watched(w, k))
         /\ ToSet(Watched(w, k)) = ToSet(w) \cup {k}
  <1>1. CASE Contains(w, k)
    BY <1>1 DEF Watched, Contains, ToSet
  <1>2. CASE ~Contains(w, k)
    <2>1. Watched(w, k) = Append(w, k)
      BY <1>2 DEF Watched
    <2>2. IsInjective(Append(w, k))
      BY <1>2 DEF Contains, IsInjective
    <2>3. /\ DOMAIN Append(w, k) = DOMAIN w \cup {Len(w) + 1}
          /\ \A i \in DOMAIN w : Append(w, k)[i] = w[i]
          /\ Append(w, k)[Len(w) + 1] = k
      OBVIOUS
    <2>4. ToSet(Append(w, k)) = ToSet(w) \cup {k}
      BY <2>3, Zenon DEF ToSet
    <2>5. QED
      BY <2>1, <2>2, <2>4
  <1>3. QED
    BY <1>1, <1>2

\* Taking a key out of a list of distinct keys (jacl_unwatch).
LEMMA UnwatchedTakes ==
  ASSUME NEW w \in Seq(AtomKeys), NEW k \in AtomKeys, IsInjective(w)
  PROVE  /\ Unwatched(w, k) \in Seq(AtomKeys) /\ IsInjective(Unwatched(w, k))
         /\ ToSet(Unwatched(w, k)) = ToSet(w) \ {k}
  <1>1. CASE ~Contains(w, k)
    BY <1>1 DEF Unwatched, Contains, ToSet
  <1>2. CASE Contains(w, k)
    <2> DEFINE at == CHOOSE i \in DOMAIN w : w[i] = k
               v == RemoveAt(w, at)
    <2>1. at \in 1 .. Len(w) /\ w[at] = k
      BY <1>2 DEF Contains
    <2>2. Unwatched(w, k) = v
      BY <1>2 DEF Unwatched
    <2> HIDE DEF at
    <2>3. /\ v \in Seq(AtomKeys) /\ Len(v) = Len(w) - 1
          /\ \A i \in 1 .. Len(v) : v[i] = IF i < at THEN w[i] ELSE w[i + 1]
      <3> DEFINE l == SubSeq(w, 1, at - 1)
                 r == SubSeq(w, at + 1, Len(w))
      <3>1. /\ l \in Seq(AtomKeys) /\ Len(l) = at - 1
            /\ \A i \in 1 .. at - 1 : l[i] = w[i]
        BY <2>1
      <3>2. /\ r \in Seq(AtomKeys) /\ Len(r) = Len(w) - at
            /\ \A i \in 1 .. Len(w) - at : r[i] = w[at + i]
        BY <2>1
      <3>3. v = l \o r
        BY DEF RemoveAt
      <3> HIDE DEF l, r, v
      <3>4. v \in Seq(AtomKeys) /\ Len(v) = Len(w) - 1
        BY <2>1, <3>1, <3>2, <3>3
      <3>5. ASSUME NEW i \in 1 .. Len(v)
            PROVE  v[i] = IF i < at THEN w[i] ELSE w[i + 1]
        <4>1. CASE i < at
          BY <4>1, <2>1, <3>1, <3>2, <3>3, <3>4
        <4>2. CASE i >= at
          <5>1. v[i] = r[i - Len(l)]
            BY <4>2, <2>1, <3>1, <3>2, <3>3, <3>4
          <5>2. i - Len(l) \in 1 .. Len(w) - at /\ at + (i - Len(l)) = i + 1
            BY <4>2, <2>1, <3>1, <3>4
          <5>3. r[i - Len(l)] = w[at + (i - Len(l))]
            BY <5>2, <3>2
          <5>4. v[i] = w[i + 1]
            BY <5>1, <5>2, <5>3
          <5>5. QED
            BY <5>4, <4>2, <2>1
        <4>3. QED
          BY <4>1, <4>2, <2>1
      <3>6. QED
        BY <3>4, <3>5
    <2> HIDE DEF v
    <2>4. IsInjective(v)
      BY <2>1, <2>3 DEF IsInjective
    <2>5. \A x : x \in ToSet(v) => x \in ToSet(w) \ {k}
      BY <2>1, <2>3 DEF ToSet, IsInjective
    <2>6. ASSUME NEW x \in ToSet(w) \ {k}
          PROVE  x \in ToSet(v)
      <3>1. PICK i \in 1 .. Len(w) : w[i] = x
        BY DEF ToSet
      <3>2. i # at
        BY <3>1, <2>1
      <3>3. CASE i < at
        BY <3>1, <3>3, <2>1, <2>3 DEF ToSet
      <3>4. CASE i > at
        <4>1. i - 1 \in 1 .. Len(v) /\ v[i - 1] = x
          BY <3>1, <3>4, <2>1, <2>3
        <4>2. QED
          BY <4>1, <2>3 DEF ToSet
      <3>5. QED
        BY <3>1, <3>2, <3>3, <3>4, <2>1
    <2>7. QED
      BY <2>2, <2>3, <2>4, <2>5, <2>6
  <1>3. QED
    BY <1>1, <1>2

\* Where a call is tells what it keeps.
LEMMA CallFields ==
  ASSUME NEW c \in CallStates
  PROVE  /\ c.pc = "swapCas" => c \in [pc : {"swapCas"}, cur : Seq(Tokens)]
         /\ c.pc = "fire" => c \in [pc : {"fire"}, due : SUBSET AtomKeys]
         /\ c.pc = "firing" => c \in [pc : {"firing"}, due : SUBSET AtomKeys,
                                      left : Seq(AtomKeys), got : SUBSET AtomKeys]
         /\ c.pc = "watchSet" => c \in [pc : {"watchSet"}, w : Seq(AtomKeys), k : AtomKeys,
                                        how : {"watch", "unwatch"}]
         /\ c.pc = "rootPeek" => c \in [pc : {"rootPeek"}, op : MapOps, n : AtomNames]
         /\ c.pc = "rootSwap" => c \in [pc : {"rootSwap"}, op : MapOps, n : AtomNames,
                                        seen : [ver : Nat, map : Contents]]
  BY DEF CallStates

\* The operations name one of the maps.
LEMMA OpMaps ==
  ASSUME NEW op \in MapOps
  PROVE  op.m \in Maps /\ op.how \in {"set", "append", "register", "forget"}
  BY DEF MapOps, Maps

\* A call changes the map it names under the name it was given, and no other.
LEMMA AppliedTypes ==
  ASSUME NEW map \in Contents, NEW op \in MapOps, NEW n \in AtomNames, NEW v \in Tokens
  PROVE  /\ Applied(map, op.how, n, v) \in Contents
         /\ \A x \in AtomNames \ {n} : Applied(map, op.how, n, v)[x] = map[x]
         /\ op.how = "forget" => Applied(map, op.how, n, v)[n] = NoFile
  <1>1. <<v>> \in Seq(Tokens) /\ NoFile \in Seq(Tokens) /\ Append(map[n], v) \in Seq(Tokens)
    BY DEF NoFile, Contents
  <1>2. CASE op.how = "set"
    BY <1>1, <1>2 DEF Applied, Contents
  <1>3. CASE op.how = "append"
    BY <1>1, <1>3 DEF Applied, Contents
  <1>4. CASE op.how = "register"
    BY <1>1, <1>4 DEF Applied, Contents
  <1>5. CASE op.how = "forget"
    BY <1>1, <1>5 DEF Applied, Contents
  <1>6. QED
    BY <1>2, <1>3, <1>4, <1>5, OpMaps

LEMMA TokenTypes ==
  ASSUME AtomTypeOK, NEW t \in AtomTasks
  PROVE  Token(t) \in Tokens
  BY DEF AtomTypeOK, Token, Tokens

\* A step that leaves the lists and maps alone and moves one call to a place
\* where what it relies on holds.
LEMMA MoveKeeps ==
  ASSUME AtomInv, NEW t \in AtomTasks, NEW c \in CallStates, CallHolds(c),
         aAt' = [aAt EXCEPT ![t] = c],
         aSlot' \in Seq(Tokens), aSlot' = aKept',
         acalls' \in [AtomTasks -> Nat],
         UNCHANGED <<aWatchers, aRoots, aWanted, aRaced>>
  PROVE  AtomInv'
  <1>1. AtomTypeOK'
    BY DEF AtomInv, AtomTypeOK
  <1>2. UpdatesKept' /\ WatchersKept' /\ MapsKept' /\ IsInjective(aWatchers.keys)'
    BY DEF AtomInv, UpdatesKept, WatchersKept, MapsKept
  <1>3. ASSUME NEW u \in AtomTasks
        PROVE  CallHolds(aAt[u])'
    <2>1. CallHolds(aAt[u]) /\ (aAt'[u] = aAt[u] \/ aAt'[u] = c)
      BY DEF AtomInv, AtomTypeOK
    <2>2. QED
      BY <2>1 DEF CallHolds
  <1>4. QED
    BY <1>1, <1>2, <1>3 DEF AtomInv

\* A call that has told one watcher more.
LEMMA ToldFields ==
  ASSUME NEW c \in [pc : {"firing"}, due : SUBSET AtomKeys, left : Seq(AtomKeys), got : SUBSET AtomKeys],
         NEW l \in Seq(AtomKeys), NEW k \in AtomKeys,
         NEW d, d = [c EXCEPT !.left = l, !.got = @ \cup {k}]
  PROVE  /\ d \in [pc : {"firing"}, due : SUBSET AtomKeys, left : Seq(AtomKeys), got : SUBSET AtomKeys]
         /\ d.due = c.due /\ d.left = l /\ d.got = c.got \cup {k}
  <1>1. c.got \cup {k} \in SUBSET AtomKeys
    OBVIOUS
  <1>2. QED
    BY <1>1

\* The steps of swap and reset, and the telling of the watchers, keep it.
LEMMA AtomMoves ==
  ASSUME AtomInv, NEW t \in AtomTasks,
         \/ SwapBegin(t) \/ SwapGet(t) \/ SwapCas(t) \/ ResetGet(t) \/ ResetSet(t)
         \/ FireRead(t) \/ FireOne(t)
  PROVE  AtomInv'
  <1> USE DEF Goes
  <1>1. /\ aSlot \in Seq(Tokens) /\ aSlot = aKept /\ Token(t) \in Tokens
        /\ acalls \in [AtomTasks -> Nat] /\ aAt[t] \in CallStates /\ CallHolds(aAt[t])
        /\ aWatchers.keys \in Seq(AtomKeys) /\ IsInjective(aWatchers.keys)
    BY TokenTypes DEF AtomInv, AtomTypeOK, UpdatesKept
  <1>2. acalls[t] \in Nat /\ (Calls(t) => acalls' \in [AtomTasks -> Nat])
    BY <1>1 DEF Calls
  <1>3. \A p \in {"idle", "swapGet", "resetSet"} : [pc |-> p] \in CallStates /\ CallHolds([pc |-> p])
    BY DEF CallStates, CallHolds
  <1>4. /\ [pc |-> "fire", due |-> ToSet(aWatchers.keys)] \in CallStates
        /\ CallHolds([pc |-> "fire", due |-> ToSet(aWatchers.keys)])
    BY <1>1 DEF CallStates, CallHolds, ToSet
  <1>5. CASE SwapBegin(t)
    BY <1>5, <1>1, <1>2, <1>3, MoveKeeps DEF SwapBegin
  <1>6. CASE SwapGet(t)
    <2> DEFINE c == [pc |-> "swapCas", cur |-> aSlot]
    <2>1. c \in CallStates /\ CallHolds(c)
      BY <1>1 DEF CallStates, CallHolds
    <2>2. QED
      BY <1>6, <1>1, <2>1, MoveKeeps DEF SwapGet
  <1>7. CASE SwapCas(t)
    <2>1. CASE jacl_box_cas(aSlot, aAt[t].cur)
      <3>1. aSlot' = Append(aSlot, Token(t)) /\ aKept' = Append(aKept, Token(t))
        BY <1>7, <2>1 DEF SwapCas, jacl_box_cas
      <3>2. aSlot' \in Seq(Tokens) /\ aSlot' = aKept'
        BY <3>1, <1>1
      <3>3. QED
        BY <1>7, <2>1, <3>2, <1>1, <1>4, MoveKeeps DEF SwapCas
    <2>2. CASE ~jacl_box_cas(aSlot, aAt[t].cur)
      BY <1>7, <2>2, <1>1, <1>3, MoveKeeps DEF SwapCas
    <2>3. QED
      BY <2>1, <2>2
  <1>8. CASE ResetGet(t)
    BY <1>8, <1>1, <1>2, <1>3, MoveKeeps DEF ResetGet
  <1>9. CASE ResetSet(t)
    <2>1. aSlot' \in Seq(Tokens) /\ aSlot' = aKept'
      BY <1>9, <1>1 DEF ResetSet
    <2>2. QED
      BY <1>9, <2>1, <1>1, <1>4, MoveKeeps DEF ResetSet
  <1>10. CASE FireRead(t)
    <2> DEFINE c == [pc |-> "firing", due |-> aAt[t].due, left |-> aWatchers.keys, got |-> {}]
    <2>1. aAt[t] \in [pc : {"fire"}, due : SUBSET AtomKeys] /\ aAt[t].due \subseteq ToSet(aWatchers.keys)
      BY <1>10, <1>1, CallFields DEF FireRead, CallHolds
    <2>2. c \in CallStates /\ CallHolds(c)
      BY <1>1, <2>1 DEF CallStates, CallHolds
    <2>3. QED
      BY <1>10, <1>1, <2>2, MoveKeeps DEF FireRead
  <1>11. CASE FireOne(t)
    <2>1. /\ aAt[t] \in [pc : {"firing"}, due : SUBSET AtomKeys, left : Seq(AtomKeys), got : SUBSET AtomKeys]
          /\ aAt[t].due \subseteq aAt[t].got \cup ToSet(aAt[t].left)
          /\ aAt[t].got \cap ToSet(aAt[t].left) = {} /\ IsInjective(aAt[t].left)
      BY <1>11, <1>1, CallFields DEF FireOne, CallHolds
    <2>2. CASE aAt[t].left = <<>>
      BY <1>11, <1>1, <1>3, <2>2, MoveKeeps DEF FireOne, AtRest
    <2>3. CASE aAt[t].left # <<>>
      <3> DEFINE toFire == aAt[t].left
                 c == [aAt[t] EXCEPT !.left = Tail(@), !.got = @ \cup {Head(toFire)}]
      <3>1. /\ Tail(toFire) \in Seq(AtomKeys) /\ Head(toFire) \in AtomKeys
            /\ Len(Tail(toFire)) = Len(toFire) - 1 /\ Head(toFire) = toFire[1]
            /\ \A i \in 1 .. Len(toFire) - 1 : Tail(toFire)[i] = toFire[i + 1]
        BY <2>1, <2>3
      <3>2. IsInjective(Tail(toFire)) /\ Head(toFire) \notin ToSet(Tail(toFire))
        BY <2>1, <3>1 DEF IsInjective, ToSet
      <3>3. ToSet(toFire) = ToSet(Tail(toFire)) \cup {Head(toFire)}
        <4>1. ASSUME NEW x \in ToSet(toFire) PROVE x \in ToSet(Tail(toFire)) \cup {Head(toFire)}
          <5>1. PICK i \in 1 .. Len(toFire) : toFire[i] = x
            BY <2>1 DEF ToSet
          <5>2. CASE i = 1
            BY <5>1, <5>2, <3>1
          <5>3. CASE i # 1
            <6>1. i - 1 \in 1 .. Len(toFire) - 1 /\ Tail(toFire)[i - 1] = x
              BY <5>1, <5>3, <3>1
            <6>2. DOMAIN Tail(toFire) = 1 .. Len(toFire) - 1
              BY <3>1
            <6>3. QED
              BY <6>1, <6>2 DEF ToSet
          <5>4. QED
            BY <5>2, <5>3
        <4>2. ASSUME NEW x \in ToSet(Tail(toFire)) \cup {Head(toFire)} PROVE x \in ToSet(toFire)
          BY <3>1, <2>1, <2>3 DEF ToSet
        <4>3. QED
          BY <4>1, <4>2
      <3>4. /\ c \in [pc : {"firing"}, due : SUBSET AtomKeys, left : Seq(AtomKeys), got : SUBSET AtomKeys]
            /\ c.due = aAt[t].due /\ c.left = Tail(toFire) /\ c.got = aAt[t].got \cup {Head(toFire)}
        BY <2>1, <3>1, ToldFields
      <3>5. c \in CallStates
        BY <2>1, <3>1, <3>4 DEF CallStates
      <3>6. CallHolds(c)
        BY <2>1, <3>2, <3>3, <3>4 DEF CallHolds
      <3>7. QED
        BY <1>11, <1>1, <2>3, <3>5, <3>6, MoveKeeps DEF FireOne
    <2>4. QED
      BY <2>2, <2>3
  <1>12. QED
    BY <1>5, <1>6, <1>7, <1>8, <1>9, <1>10, <1>11

\* The watchers due are those still listed.
LEMMA DueFields ==
  ASSUME NEW S, NEW c \in CallStates, c.pc \in {"fire", "firing"},
         NEW d, d = [c EXCEPT !.due = @ \cap S]
  PROVE  /\ d \in CallStates /\ d.pc = c.pc /\ d.due = c.due \cap S
         /\ c.pc = "firing" => d.left = c.left /\ d.got = c.got
  <1>1. CASE c.pc = "fire"
    <2>1. c \in [pc : {"fire"}, due : SUBSET AtomKeys] /\ c.due \cap S \in SUBSET AtomKeys
      BY <1>1, CallFields
    <2>2. d \in [pc : {"fire"}, due : SUBSET AtomKeys] /\ d.pc = c.pc /\ d.due = c.due \cap S
      BY <2>1
    <2>3. QED
      BY <1>1, <2>2 DEF CallStates
  <1>2. CASE c.pc = "firing"
    <2>1. /\ c \in [pc : {"firing"}, due : SUBSET AtomKeys, left : Seq(AtomKeys), got : SUBSET AtomKeys]
          /\ c.due \cap S \in SUBSET AtomKeys
      BY <1>2, CallFields
    <2>2. /\ d \in [pc : {"firing"}, due : SUBSET AtomKeys, left : Seq(AtomKeys), got : SUBSET AtomKeys]
          /\ d.pc = c.pc /\ d.due = c.due \cap S /\ d.left = c.left /\ d.got = c.got
      BY <2>1
    <2>3. QED
      BY <2>2 DEF CallStates
  <1>3. QED
    BY <1>1, <1>2

\* The store of a new list of watchers keeps it.
LEMMA WatchSetKeeps ==
  ASSUME AtomInv, NEW t \in AtomTasks, WatchSet(t)
  PROVE  AtomInv'
  <1> DEFINE l == NewList(t)
  <1>1. /\ aAt[t] \in [pc : {"watchSet"}, w : Seq(AtomKeys), k : AtomKeys, how : {"watch", "unwatch"}]
        /\ IsInjective(aAt[t].w)
    BY CallFields DEF AtomInv, AtomTypeOK, WatchSet, CallHolds
  <1>2. /\ l \in Seq(AtomKeys) /\ IsInjective(l)
        /\ ToSet(l) = IF aAt[t].how = "watch" THEN ToSet(aAt[t].w) \cup {aAt[t].k} ELSE ToSet(aAt[t].w) \ {aAt[t].k}
    BY <1>1, WatchedAdds, UnwatchedTakes DEF NewList
  <1> HIDE DEF l
  <1>3. /\ aWatchers' = [made |-> 1, keys |-> l]
        /\ aWanted' = [aWanted EXCEPT !.keys = IF aAt[t].how = "watch" THEN @ \cup {aAt[t].k} ELSE @ \ {aAt[t].k}]
        /\ aRaced' = (aRaced \/ aWatchers.keys # aAt[t].w)
        /\ UNCHANGED <<aSlot, aRoots, acalls, aKept>>
    BY DEF WatchSet, l
  <1>4. ASSUME NEW u \in AtomTasks
        PROVE  aAt'[u] = IF u = t THEN AtRest
                         ELSE IF aAt[u].pc \in {"fire", "firing"} THEN [aAt[u] EXCEPT !.due = @ \cap ToSet(l)]
                         ELSE aAt[u]
    BY DEF WatchSet, l
  <1>5. aAt' = [u \in AtomTasks |-> aAt'[u]]
    BY DEF WatchSet
  <1>6. aWanted \in [maps : [Maps -> Contents], keys : SUBSET AtomKeys] /\ aAt[t].k \in AtomKeys
    BY <1>1 DEF AtomInv, AtomTypeOK
  <1>7. /\ aWanted'.maps = aWanted.maps /\ aWanted' \in [maps : [Maps -> Contents], keys : SUBSET AtomKeys]
        /\ aWanted'.keys = IF aAt[t].how = "watch" THEN aWanted.keys \cup {aAt[t].k} ELSE aWanted.keys \ {aAt[t].k}
    BY <1>3, <1>6
  <1>8. ASSUME NEW u \in AtomTasks
        PROVE  aAt'[u] \in CallStates /\ CallHolds(aAt[u])'
    <2>1. aAt[u] \in CallStates /\ CallHolds(aAt[u])
      BY DEF AtomInv, AtomTypeOK
    <2>2. CASE u = t
      <3>1. aAt'[u] = [pc |-> "idle"]
        BY <2>2, <1>4 DEF AtRest
      <3>2. [pc |-> "idle"] \in CallStates
        BY DEF CallStates
      <3>3. aAt'[u].pc = "idle"
        BY <3>1
      <3>4. QED
        BY <3>1, <3>2, <3>3 DEF CallHolds
    <2>3. CASE u # t /\ aAt[u].pc \in {"fire", "firing"}
      <3>1. /\ aAt'[u] \in CallStates /\ aAt'[u].pc = aAt[u].pc /\ aAt'[u].due = aAt[u].due \cap ToSet(l)
            /\ aAt[u].pc = "firing" => aAt'[u].left = aAt[u].left /\ aAt'[u].got = aAt[u].got
        <4>1. aAt'[u] = [aAt[u] EXCEPT !.due = @ \cap ToSet(l)]
          BY <1>4, <2>3
        <4>2. QED
          BY <4>1, <2>1, <2>3, DueFields
      <3>2. aWatchers'.keys = l
        BY <1>3
      <3>3. QED
        BY <2>1, <2>3, <3>1, <3>2 DEF CallHolds
    <2>4. CASE u # t /\ aAt[u].pc \notin {"fire", "firing"}
      <3>1. aAt'[u] = aAt[u] /\ aRoots' = aRoots
        BY <2>4, <1>3, <1>4
      <3>2. QED
        BY <2>1, <2>4, <3>1 DEF CallHolds
    <2>5. QED
      BY <2>2, <2>3, <2>4
  <1>9. AtomTypeOK'
    <2>1. aWatchers' \in [made : {0, 1}, keys : Seq(AtomKeys)]
      BY <1>2, <1>3
    <2>2. aRaced' \in BOOLEAN
      BY <1>3 DEF AtomInv, AtomTypeOK
    <2>3. aAt' \in [AtomTasks -> CallStates]
      BY <1>5, <1>8
    <2>4. QED
      BY <2>1, <2>2, <2>3, <1>3, <1>7 DEF AtomInv, AtomTypeOK
  <1>10. WatchersKept'
    <2>1. CASE ~aRaced /\ aWatchers.keys = aAt[t].w
      BY <2>1, <1>2, <1>3, <1>7 DEF AtomInv, WatchersKept
    <2>2. CASE aRaced \/ aWatchers.keys # aAt[t].w
      BY <2>2, <1>3 DEF WatchersKept
    <2>3. QED
      BY <2>1, <2>2
  <1>11. UpdatesKept' /\ MapsKept' /\ IsInjective(aWatchers.keys)'
    BY <1>2, <1>3, <1>7 DEF AtomInv, UpdatesKept, MapsKept
  <1>12. QED
    BY <1>8, <1>9, <1>10, <1>11 DEF AtomInv

\* The reads that begin a call on the watchers or on a global map keep it.
LEMMA ReadsKeep ==
  ASSUME AtomInv, NEW t \in AtomTasks,
         \/ RootPeek(t)
         \/ \E k \in AtomKeys, how \in {"watch", "unwatch"} : WatchRead(t, k, how)
         \/ \E op \in MapOps, n \in AtomNames : RootBegin(t, op, n)
  PROVE  AtomInv'
  <1> USE DEF Goes
  <1>1. /\ aSlot \in Seq(Tokens) /\ aSlot = aKept
        /\ acalls \in [AtomTasks -> Nat] /\ aAt[t] \in CallStates
        /\ aWatchers.keys \in Seq(AtomKeys) /\ IsInjective(aWatchers.keys)
        /\ aRoots \in [Maps -> [ver : Nat, map : Contents]]
    BY DEF AtomInv, AtomTypeOK, UpdatesKept
  <1>2. acalls[t] \in Nat /\ (Calls(t) => acalls' \in [AtomTasks -> Nat])
    BY <1>1 DEF Calls
  <1>3. AtRest \in CallStates /\ CallHolds(AtRest)
    BY DEF AtRest, CallStates, CallHolds
  <1>4. CASE RootPeek(t)
    <2> DEFINE seen == aRoots[aAt[t].op.m]
               c == [pc |-> "rootSwap", op |-> aAt[t].op, n |-> aAt[t].n, seen |-> seen]
    <2>1. aAt[t] \in [pc : {"rootPeek"}, op : MapOps, n : AtomNames]
      BY <1>1, <1>4, CallFields DEF RootPeek
    <2>2. aAt[t].op \in MapOps /\ aAt[t].n \in AtomNames /\ seen \in [ver : Nat, map : Contents]
      BY <1>1, <2>1, OpMaps
    <2>3. CASE Skips(seen.map, aAt[t].op, aAt[t].n)
      BY <1>1, <1>3, <1>4, <2>3, MoveKeeps DEF RootPeek
    <2>4. CASE ~Skips(seen.map, aAt[t].op, aAt[t].n)
      <3>1. c \in CallStates
        BY <2>2 DEF CallStates
      <3>2. CallHolds(c)
        BY <2>2, <2>4 DEF CallHolds
      <3>3. QED
        BY <1>1, <1>4, <2>4, <3>1, <3>2, MoveKeeps DEF RootPeek
    <2>5. QED
      BY <2>3, <2>4
  <1>5. ASSUME NEW k \in AtomKeys, NEW how \in {"watch", "unwatch"}, WatchRead(t, k, how)
        PROVE  AtomInv'
    <2> DEFINE c == [pc |-> "watchSet", w |-> aWatchers.keys, k |-> k, how |-> how]
    <2>1. c \in CallStates /\ CallHolds(c)
      BY <1>1 DEF CallStates, CallHolds
    <2>2. QED
      BY <1>1, <1>2, <1>3, <1>5, <2>1, MoveKeeps DEF WatchRead
  <1>6. ASSUME NEW op \in MapOps, NEW n \in AtomNames, RootBegin(t, op, n)
        PROVE  AtomInv'
    <2> DEFINE c == [pc |-> "rootPeek", op |-> op, n |-> n]
    <2>1. c \in CallStates /\ CallHolds(c)
      BY DEF CallStates, CallHolds
    <2>2. QED
      BY <1>1, <1>2, <1>6, <2>1, MoveKeeps DEF RootBegin
  <1>7. QED
    BY <1>4, <1>5, <1>6

\* The replacement of a root, or the failure to replace it, keeps it.
LEMMA RootSwapKeeps ==
  ASSUME AtomInv, NEW t \in AtomTasks, RootSwap(t)
  PROVE  AtomInv'
  <1> DEFINE op == aAt[t].op
             n == aAt[t].n
             seen == aAt[t].seen
             new == Applied(seen.map, op.how, n, Token(t))
  <1>1. /\ aAt[t] \in [pc : {"rootSwap"}, op : MapOps, n : AtomNames, seen : [ver : Nat, map : Contents]]
        /\ seen.ver = aRoots[op.m].ver => seen.map = aRoots[op.m].map
        /\ ~Skips(seen.map, op, n)
    BY CallFields DEF AtomInv, AtomTypeOK, RootSwap, CallHolds
  <1>2. op \in MapOps /\ n \in AtomNames /\ seen.ver \in Nat /\ seen.map \in Contents /\ op.m \in Maps
    BY <1>1, OpMaps
  <1>3. Token(t) \in Tokens /\ acalls \in [AtomTasks -> Nat] /\ aSlot \in Seq(Tokens) /\ aSlot = aKept
    BY TokenTypes DEF AtomInv, AtomTypeOK, UpdatesKept
  <1>4. CASE ~jacl_root_replace(aRoots[op.m], seen)
    <2> DEFINE c == [pc |-> "rootPeek", op |-> op, n |-> n]
    <2>1. c \in CallStates /\ CallHolds(c)
      BY <1>2 DEF CallStates, CallHolds
    <2>2. QED
      BY <1>3, <1>4, <2>1, MoveKeeps DEF RootSwap, Goes
  <1>5. CASE jacl_root_replace(aRoots[op.m], seen)
    <2> DEFINE root == [ver |-> aRoots[op.m].ver + 1, map |-> new]
    <2>1. /\ aRoots' = [aRoots EXCEPT ![op.m] = root]
          /\ aWanted' = [aWanted EXCEPT !.maps[op.m] = Applied(@, op.how, n, Token(t))]
          /\ aAt' = [aAt EXCEPT ![t] = AtRest]
          /\ UNCHANGED <<aSlot, aWatchers, acalls, aKept, aRaced>>
      BY <1>5 DEF RootSwap, Goes
    <2>2. seen.map = aRoots[op.m].map /\ seen.map = aWanted.maps[op.m]
      BY <1>1, <1>2, <1>5 DEF jacl_root_replace, AtomInv, MapsKept
    <2>3. new \in Contents /\ (\A x \in AtomNames \ {n} : new[x] = seen.map[x])
      BY <1>2, <1>3, AppliedTypes
    <2>4. /\ aRoots \in [Maps -> [ver : Nat, map : Contents]]
          /\ aWanted \in [maps : [Maps -> Contents], keys : SUBSET AtomKeys]
          /\ aAt \in [AtomTasks -> CallStates]
      BY DEF AtomInv, AtomTypeOK
    <2>5. aWanted' = [aWanted EXCEPT !.maps = [aWanted.maps EXCEPT ![op.m] = new]]
      BY <2>1, <2>2, <2>4, <1>2
    <2> HIDE DEF new, root
    <2>6. /\ aWanted' \in [maps : [Maps -> Contents], keys : SUBSET AtomKeys]
          /\ aWanted'.keys = aWanted.keys
          /\ aWanted'.maps = [aWanted.maps EXCEPT ![op.m] = new]
      BY <2>3, <2>4, <2>5, <1>2
    <2>7. root \in [ver : Nat, map : Contents] /\ root.map = new /\ root.ver = aRoots[op.m].ver + 1
      BY <2>3, <2>4, <1>2 DEF root
    <2>8. /\ aRoots' \in [Maps -> [ver : Nat, map : Contents]] /\ aRoots'[op.m] = root
          /\ \A m \in Maps \ {op.m} : aRoots'[m] = aRoots[m]
      BY <2>1, <2>4, <2>7, <1>2
    <2>9. AtRest \in CallStates /\ AtRest.pc = "idle"
      BY DEF AtRest, CallStates
    <2>10. AtomTypeOK'
      BY <2>1, <2>4, <2>6, <2>8, <2>9 DEF AtomInv, AtomTypeOK
    <2>11. UpdatesKept' /\ WatchersKept' /\ IsInjective(aWatchers.keys)'
      BY <2>1, <2>6 DEF AtomInv, UpdatesKept, WatchersKept
    <2>12. ASSUME NEW m \in Maps PROVE aRoots'[m].map = aWanted'.maps[m]
      <3>1. CASE m = op.m
        BY <3>1, <2>4, <2>6, <2>7, <2>8
      <3>2. CASE m # op.m
        BY <3>2, <2>4, <2>6, <2>8 DEF AtomInv, MapsKept
      <3>3. QED
        BY <3>1, <3>2
    <2>13. ASSUME NEW x \in AtomLost PROVE aRoots'["vfs"].map[x] = NoFile
      <3>1. aRoots["vfs"].map[x] = NoFile /\ x \in AtomNames /\ "vfs" \in Maps
        BY AtomAssumption DEF AtomInv, MapsKept, AtomAssumption, Maps
      <3>2. CASE op.m # "vfs"
        BY <3>1, <3>2, <2>8
      <3>3. CASE op.m = "vfs" /\ x # n
        BY <3>1, <3>3, <2>2, <2>3, <2>7, <2>8
      <3>4. CASE op.m = "vfs" /\ x = n
        BY <3>1, <3>4, <2>2, <1>1 DEF Skips
      <3>5. QED
        BY <3>2, <3>3, <3>4
    <2>14. ASSUME NEW u \in AtomTasks PROVE CallHolds(aAt[u])'
      <3>1. CASE u = t
        <4>1. aAt'[u].pc = "idle"
          BY <3>1, <2>1, <2>4, <2>9
        <4>2. QED
          BY <4>1 DEF CallHolds
      <3>2. CASE u # t
        <4>1. aAt'[u] = aAt[u] /\ aAt[u] \in CallStates /\ CallHolds(aAt[u])
          BY <3>2, <2>1, <2>4 DEF AtomInv
        <4>2. CASE aAt[u].pc = "rootSwap"
          <5>1. aAt[u] \in [pc : {"rootSwap"}, op : MapOps, n : AtomNames, seen : [ver : Nat, map : Contents]]
            BY <4>1, <4>2, CallFields
          <5>2. aAt[u].op.m \in Maps /\ aAt[u].seen.ver \in Nat
            BY <5>1, OpMaps
          <5>3. aRoots[aAt[u].op.m].ver \in Nat
            BY <5>2, <2>4
          <5>4. CASE aAt[u].op.m = op.m
            <6>1. aRoots'[aAt[u].op.m].ver = aRoots[aAt[u].op.m].ver + 1
              BY <5>4, <2>7, <2>8
            <6>2. QED
              BY <6>1, <4>1, <4>2, <5>2, <5>3 DEF CallHolds
          <5>5. CASE aAt[u].op.m # op.m
            <6>1. aRoots'[aAt[u].op.m] = aRoots[aAt[u].op.m]
              BY <5>5, <5>2, <2>8
            <6>2. QED
              BY <6>1, <4>1, <4>2 DEF CallHolds
          <5>6. QED
            BY <5>4, <5>5
        <4>3. CASE aAt[u].pc # "rootSwap"
          BY <4>1, <4>3, <2>1 DEF CallHolds
        <4>4. QED
          BY <4>2, <4>3
      <3>3. QED
        BY <3>1, <3>2
    <2>15. MapsKept'
      BY <2>12, <2>13 DEF MapsKept
    <2>16. QED
      BY <2>10, <2>11, <2>14, <2>15 DEF AtomInv
  <1>6. QED
    BY <1>4, <1>5

\* AtomInv holds at the start: the atom, the lists and the maps are empty.
LEMMA InitInv == AtomInit => AtomInv
  <1> SUFFICES ASSUME AtomInit PROVE AtomInv
    OBVIOUS
  <1> USE DEF AtomInit
  <1>1. NoFile \in Seq(Tokens) /\ [n \in AtomNames |-> NoFile] \in Contents
    BY DEF NoFile, Contents
  <1>2. AtRest \in CallStates /\ CallHolds(AtRest)
    BY DEF AtRest, CallStates, CallHolds
  <1>3. AtomTypeOK
    <2>1. aSlot \in Seq(Tokens) /\ aWatchers \in [made : {0, 1}, keys : Seq(AtomKeys)]
      OBVIOUS
    <2>2. [ver |-> 0, map |-> [n \in AtomNames |-> NoFile]] \in [ver : Nat, map : Contents]
      BY <1>1
    <2>3. aRoots \in [Maps -> [ver : Nat, map : Contents]] /\ acalls \in [AtomTasks -> Nat]
      BY <2>2
    <2>4. aAt \in [AtomTasks -> CallStates]
      BY <1>2
    <2>5. aWanted \in [maps : [Maps -> Contents], keys : SUBSET AtomKeys] /\ aRaced \in BOOLEAN
      BY <1>1
    <2>6. QED
      BY <2>1, <2>3, <2>4, <2>5 DEF AtomTypeOK
  <1>4. UpdatesKept /\ WatchersKept /\ IsInjective(aWatchers.keys)
    BY DEF UpdatesKept, WatchersKept, ToSet, IsInjective
  <1>5. MapsKept
    BY AtomAssumption DEF MapsKept, Maps, AtomAssumption
  <1>6. QED
    BY <1>2, <1>3, <1>4, <1>5 DEF AtomInv

\* Every step of swap, reset, watch, unwatch and of the calls on the global maps
\* (builtins.c:697-845, jaclrt.h:245-252) keeps AtomInv, so it always holds.
THEOREM AtomInvariant == AtomSpec => []AtomInv
  <1>1. ASSUME AtomInv, [AtomNext]_atomVars
        PROVE  AtomInv'
    <2>1. CASE UNCHANGED atomVars
      <3>1. UNCHANGED <<aSlot, aWatchers, aRoots, acalls, aAt, aKept, aWanted, aRaced>>
        BY <2>1 DEF atomVars
      <3>2. QED
        BY <1>1, <3>1 DEF AtomInv, AtomTypeOK, UpdatesKept, WatchersKept, MapsKept, CallHolds
    <2>2. ASSUME NEW t \in AtomTasks, AtomStep(t)
          PROVE  AtomInv'
      BY <1>1, <2>2, AtomMoves, WatchSetKeeps, ReadsKeep, RootSwapKeeps DEF AtomStep
    <2>3. QED
      BY <1>1, <2>1, <2>2 DEF AtomNext
  <1>2. QED
    BY <1>1, InitInv, PTL DEF AtomSpec

\* For any tasks, keys, names and number of calls: every committed swap is in the
\* atom once and in order, a watcher due a commit is told of it once, the list of
\* watchers is right unless two calls overlapped, and no global map loses an
\* update (builtins.c:697-845, jaclrt.h:245-252).
THEOREM AtomsHold == AtomSpec => []AtomsSound
  <1>1. AtomInv => AtomsSound
    BY DEF AtomInv, AtomsSound, WatchersTold, CallHolds
  <1>2. QED
    BY <1>1, AtomInvariant, PTL

-----------------------------------------------------------------------------
(* The global stacks *)

\* A level of the stack of budgets, and a timeout a task is inside of.
Level == [left : Nat, fired : BOOLEAN]
Timeout == [d : Nat, slept : Nat, cut : BOOLEAN]

GsTypeOK ==
  /\ gBudget \in Seq(Level) /\ Len(gBudget) <= JACL_TIMEOUT_MAX
  /\ gOpen \in [GsTasks -> Seq(Timeout)]
  /\ gAsleep \in [GsTasks -> Nat]
  /\ gTrace \in Seq(Nat) /\ gSnap \in Seq(Nat) /\ gCalls \in Nat
  /\ gInside \in [GsTasks -> Seq(Nat)] /\ gFailed \in Seq(Nat)
  /\ gMixed \in BOOLEAN

\* Budgets b are those of the timeouts o.
Matches(b, o) ==
  /\ Len(b) = Len(o)
  /\ \A i \in 1 .. Len(b) :
       b[i].left = o[i].d - o[i].slept /\ b[i].left >= 0 /\ b[i].fired = o[i].cut

\* At most one task is inside timeouts, and the levels are its own; without
\* one there are none.
BudgetsHold ==
  ~gMixed =>
    /\ \A t \in GsTasks : gOpen[t] # <<>> =>
         Matches(gBudget, gOpen[t]) /\ \A u \in GsTasks \ {t} : gOpen[u] = <<>>
    /\ (\A t \in GsTasks : gOpen[t] = <<>>) => gBudget = <<>>
    /\ gAnswer # <<>> => gAnswer.error = gAnswer.was.cut /\ gAnswer.was.slept <= gAnswer.was.d

\* s is an increasing list of calls, none later than the n-th.
CallsUpTo(s, n) ==
  /\ \A i \in 1 .. Len(s) : s[i] >= 1 /\ s[i] <= n
  /\ \A i, j \in 1 .. Len(s) : i < j => s[i] < s[j]

\* The snapshot is the end of the c calls made when it was taken, as much as the
\* buffer holds, and the calls the error was inside of are among those c.
Snapped(c) ==
  /\ Len(gSnap) = IF c < TraceFrames THEN c ELSE TraceFrames
  /\ \A i \in 1 .. Len(gSnap) : gSnap[i] = c + 1 - i
  /\ CallsUpTo(gFailed, c)

\* Until the shadow stack is full it holds every call made; the last snapshot
\* is of the stack as it was when no more calls had been made than it has frames.
TraceHolds ==
  /\ \A t \in GsTasks : CallsUpTo(gInside[t], gCalls)
  /\ gCalls <= JACL_TRACE_MAX => Len(gTrace) = gCalls /\ \A i \in 1 .. Len(gTrace) : gTrace[i] = i
  /\ gCalls <= JACL_TRACE_MAX => \E c \in Nat : Snapped(c)

\* The inductive invariant of the two stacks.
GsInv == GsTypeOK /\ BudgetsHold /\ TraceHolds

-----------------------------------------------------------------------------
(* The levels after each operation *)

\* Taking the last element off.
LEMMA FrontSeq ==
  ASSUME NEW S, NEW s \in Seq(S), s # <<>>
  PROVE  /\ Front(s) \in Seq(S) /\ Len(Front(s)) = Len(s) - 1
         /\ \A i \in 1 .. Len(s) - 1 : Front(s)[i] = s[i]
         /\ Len(s) \in 1 .. Len(s) /\ Last(s) = s[Len(s)] /\ Last(s) \in S
  <1>1. Len(s) \in Nat /\ Len(s) > 0
    OBVIOUS
  <1> DEFINE n == Len(s) - 1
             t == SubSeq(s, 1, n)
  <1>2. n \in Nat /\ Len(s) = n + 1 /\ (\A i \in 1 .. n : s[i] \in S)
    BY <1>1
  <1> HIDE DEF n
  <1>3. /\ t \in Seq(S) /\ Len(t) = IF 1 <= n THEN n - 1 + 1 ELSE 0
        /\ \A i \in 1 .. n - 1 + 1 : t[i] = s[1 + i - 1]
    BY <1>2, SubSeqProperties
  <1> HIDE DEF t
  <1>4. t \in Seq(S) /\ Len(t) = n /\ \A i \in 1 .. n : t[i] = s[i]
    BY <1>2, <1>3
  <1>5. Len(s) \in 1 .. Len(s) /\ s[Len(s)] \in S
    BY <1>1
  <1>6. QED
    BY <1>4, <1>5 DEF Front, Last, t, n

\* jacl_timeout_begin opens a level for the timeout the task entered.
LEMMA BegunMatches ==
  ASSUME NEW b \in Seq(Level), NEW o \in Seq(Timeout), Matches(b, o), NEW d \in Nat,
         Len(b) < JACL_TIMEOUT_MAX
  PROVE  Matches(Begun(b, d), Append(o, [d |-> d, slept |-> 0, cut |-> FALSE]))
  <1> DEFINE l == [left |-> d, fired |-> FALSE]
             e == [d |-> d, slept |-> 0, cut |-> FALSE]
             b1 == Append(b, l)
             o1 == Append(o, e)
  <1>1. Begun(b, d) = b1
    BY DEF Begun
  <1>2. l.left = e.d - e.slept /\ l.left >= 0 /\ l.fired = e.cut
    OBVIOUS
  <1> HIDE DEF l, e
  <1>3. /\ Len(b1) = Len(b) + 1 /\ Len(o1) = Len(o) + 1 /\ Len(b) = Len(o) /\ Len(b) \in Nat
        /\ \A i \in 1 .. Len(b) : b1[i] = b[i] /\ o1[i] = o[i]
        /\ b1[Len(b) + 1] = l /\ o1[Len(b) + 1] = e
    BY DEF Matches
  <1> HIDE DEF b1, o1
  <1>4. ASSUME NEW i \in 1 .. Len(b1)
        PROVE  b1[i].left = o1[i].d - o1[i].slept /\ b1[i].left >= 0 /\ b1[i].fired = o1[i].cut
    <2>1. CASE i = Len(b) + 1
      <3>1. b1[i] = l /\ o1[i] = e
        BY <1>3, <2>1
      <3>2. QED
        BY <1>2, <3>1
    <2>2. CASE i \in 1 .. Len(b)
      BY <1>3, <2>2 DEF Matches
    <2>3. QED
      BY <1>3, <2>1, <2>2
  <1>5. QED
    BY <1>1, <1>3, <1>4 DEF Matches, b1, o1, l, e

\* jacl_sleep charges the innermost level with what is slept, and fires it
\* exactly if it cut the sleep.
LEMMA ChargedMatches ==
  ASSUME NEW b \in Seq(Level), NEW o \in Seq(Timeout), Matches(b, o), o # <<>>, NEW n \in Nat
  PROVE  LET o1 == [o EXCEPT ![Len(o)] = [d |-> @.d, slept |-> @.slept + Clamped(b, n),
                                          cut |-> @.cut \/ Clamped(b, n) < n]]
         IN  o1 \in Seq(Timeout) /\ o1 # <<>> /\ Matches(Charged(b, n), o1)
  <1> DEFINE k == Len(b)
             c == Clamped(b, n)
             e == [d |-> o[k].d, slept |-> o[k].slept + c, cut |-> o[k].cut \/ c < n]
             l == [left |-> b[k].left - c, fired |-> b[k].fired \/ n > b[k].left]
             o1 == [o EXCEPT ![Len(o)] = e]
             b1 == [b EXCEPT ![Len(b)] = l]
  <1>1. k \in Nat /\ k = Len(o) /\ k \in 1 .. k /\ b # <<>>
    BY DEF Matches
  <1>2. b[k] \in Level /\ o[k] \in Timeout
    BY <1>1
  <1>3. /\ b[k].left \in Nat /\ b[k].fired \in BOOLEAN
        /\ b[k].left = o[k].d - o[k].slept /\ b[k].fired = o[k].cut
        /\ o[k].d \in Nat /\ o[k].slept \in Nat /\ o[k].cut \in BOOLEAN
    BY <1>1, <1>2 DEF Matches, Level, Timeout
  <1>4. c = IF n > b[k].left THEN b[k].left ELSE n
    BY <1>1 DEF Clamped, Last
  <1>5. c \in Nat /\ c <= b[k].left /\ (c < n <=> n > b[k].left)
    BY <1>3, <1>4
  <1>6. Charged(b, n) = b1
    BY <1>1 DEF Charged
  <1>7. o1 = [o EXCEPT ![Len(o)] = [d |-> @.d, slept |-> @.slept + c, cut |-> @.cut \/ c < n]]
    BY <1>1
  <1> HIDE DEF c
  <1>8. e \in Timeout /\ l \in Level
    <2>1. (o[k].cut \/ c < n) \in BOOLEAN /\ (b[k].fired \/ n > b[k].left) \in BOOLEAN
      OBVIOUS
    <2>2. o[k].slept + c \in Nat /\ b[k].left - c \in Nat /\ o[k].d \in Nat
      BY <1>3, <1>5
    <2> HIDE DEF k
    <2>3. QED
      BY <2>1, <2>2, Zenon DEF Timeout, Level
  <1>9. /\ e.d = o[k].d /\ e.slept = o[k].slept + c /\ e.cut = (o[k].cut \/ c < n)
        /\ l.left = b[k].left - c /\ l.fired = (b[k].fired \/ n > b[k].left)
    OBVIOUS
  <1> HIDE DEF e, l
  <1>10. o1 \in Seq(Timeout) /\ Len(o1) = k /\ o1[k] = e /\ \A i \in 1 .. k : i # k => o1[i] = o[i]
    BY <1>1, <1>8
  <1>11. b1 \in Seq(Level) /\ Len(b1) = k /\ b1[k] = l /\ \A i \in 1 .. k : i # k => b1[i] = b[i]
    BY <1>1, <1>8
  <1> HIDE DEF b1, o1
  <1>12. l.left = e.d - e.slept /\ l.left >= 0 /\ l.fired = e.cut
    BY <1>3, <1>5, <1>9
  <1>13. ASSUME NEW i \in 1 .. Len(b1)
         PROVE  b1[i].left = o1[i].d - o1[i].slept /\ b1[i].left >= 0 /\ b1[i].fired = o1[i].cut
    <2>1. CASE i = k
      BY <1>10, <1>11, <1>12, <2>1
    <2>2. CASE i # k
      BY <1>10, <1>11, <2>2 DEF Matches
    <2>3. QED
      BY <2>1, <2>2
  <1>14. Matches(b1, o1)
    BY <1>10, <1>11, <1>13 DEF Matches
  <1>15. o1 # <<>>
    BY <1>1, <1>10
  <1>16. QED
    BY <1>6, <1>7, <1>10, <1>14, <1>15 DEF c

\* Charging keeps the number of levels and their type.
LEMMA ChargedType ==
  ASSUME NEW b \in Seq(Level), NEW n \in Nat
  PROVE  Charged(b, n) \in Seq(Level) /\ Len(Charged(b, n)) = Len(b) /\ Clamped(b, n) \in Nat
  <1>1. CASE b = <<>>
    BY <1>1 DEF Charged, Clamped
  <1>2. CASE b # <<>>
    <2> DEFINE k == Len(b)
               l == [left |-> b[k].left - Clamped(b, n), fired |-> b[k].fired \/ n > b[k].left]
    <2>1. k \in Nat /\ k \in 1 .. k /\ b[k] \in Level
      BY <1>2
    <2>2. b[k].left \in Nat /\ b[k].fired \in BOOLEAN
      BY <2>1 DEF Level
    <2>3. Clamped(b, n) \in Nat /\ Clamped(b, n) <= b[k].left
      BY <1>2, <2>2 DEF Clamped, Last
    <2>4. l \in Level
      <3>1. b[k].left - Clamped(b, n) \in Nat /\ (b[k].fired \/ n > b[k].left) \in BOOLEAN
        BY <2>2, <2>3
      <3> HIDE DEF k
      <3>2. QED
        BY <3>1, Zenon DEF Level
    <2>5. Charged(b, n) = [b EXCEPT ![k] = l]
      BY <1>2 DEF Charged
    <2> HIDE DEF l
    <2>6. QED
      BY <2>1, <2>3, <2>4, <2>5
  <1>3. QED
    BY <1>1, <1>2

\* jacl_timeout_end closes the level of the timeout that ends.
LEMMA EndedMatches ==
  ASSUME NEW b \in Seq(Level), NEW o \in Seq(Timeout), Matches(b, o), o # <<>>
  PROVE  /\ b # <<>> /\ Matches(Front(b), Front(o))
         /\ Last(b).fired = Last(o).cut /\ Last(o).slept <= Last(o).d
         /\ Front(o) = <<>> => Front(b) = <<>>
  <1>1. Len(b) = Len(o) /\ b # <<>> /\ Len(b) \in 1 .. Len(b)
    BY DEF Matches
  <1>2. /\ Front(b) \in Seq(Level) /\ Front(o) \in Seq(Timeout)
        /\ Len(Front(b)) = Len(b) - 1 /\ Len(Front(o)) = Len(b) - 1
        /\ \A i \in 1 .. Len(b) - 1 : Front(b)[i] = b[i] /\ Front(o)[i] = o[i]
        /\ Last(b) = b[Len(b)] /\ Last(o) = o[Len(b)] /\ Last(o) \in Timeout
    BY <1>1, FrontSeq
  <1>3. Matches(Front(b), Front(o))
    BY <1>1, <1>2 DEF Matches
  <1>4. Last(b).fired = Last(o).cut /\ Last(b).left = Last(o).d - Last(o).slept /\ Last(b).left >= 0
    BY <1>1, <1>2 DEF Matches
  <1>5. Last(o).slept <= Last(o).d
    BY <1>2, <1>4 DEF Timeout
  <1>6. Front(o) = <<>> => Front(b) = <<>>
    BY <1>2
  <1>7. QED
    BY <1>1, <1>3, <1>4, <1>5, <1>6

-----------------------------------------------------------------------------
(* The steps *)

\* Nothing is open and nothing was called.
LEMMA GsInitInv ==
  ASSUME GsInit
  PROVE  GsInv
  <1>1. GsTypeOK
    <2>1. Len(<<>>) = 0 /\ JACL_TIMEOUT_MAX \in Nat /\ <<>> \in Seq(Level) /\ <<>> \in Seq(Timeout) /\ <<>> \in Seq(Nat)
      BY GsAssumption DEF GsAssumption
    <2>2. gBudget \in Seq(Level) /\ Len(gBudget) <= JACL_TIMEOUT_MAX
      BY <2>1 DEF GsInit
    <2>3. gOpen \in [GsTasks -> Seq(Timeout)] /\ gInside \in [GsTasks -> Seq(Nat)] /\ gAsleep \in [GsTasks -> Nat]
      BY <2>1 DEF GsInit
    <2>4. QED
      BY <2>1, <2>2, <2>3 DEF GsInit, GsTypeOK
  <1>2. BudgetsHold
    BY DEF GsInit, BudgetsHold
  <1>3. TraceHolds
    <2>1. Snapped(0)
      BY GsAssumption DEF GsAssumption, GsInit, Snapped, CallsUpTo
    <2>2. QED
      BY <2>1 DEF GsInit, TraceHolds, CallsUpTo
  <1>4. QED
    BY <1>1, <1>2, <1>3 DEF GsInv

\* A step that leaves the shadow stack, or the budgets, alone.
LEMMA TraceKept ==
  ASSUME TraceHolds, UNCHANGED <<gTrace, gSnap, gInside, gFailed, gCalls>>
  PROVE  TraceHolds'
  BY DEF TraceHolds, Snapped, CallsUpTo

LEMMA BudgetsKept ==
  ASSUME BudgetsHold, UNCHANGED <<gBudget, gOpen, gAnswer, gMixed>>
  PROVE  BudgetsHold'
  BY DEF BudgetsHold, Matches

\* A task that is not inside another's timeout: its own timeouts, if it is inside
\* any, are the levels there are.
LEMMA OwnLevels ==
  ASSUME GsInv, ~gMixed, NEW t \in GsTasks, ~Meddles(t)
  PROVE  /\ \A u \in GsTasks \ {t} : gOpen[u] = <<>>
         /\ gOpen[t] # <<>> => Matches(gBudget, gOpen[t])
         /\ gOpen[t] = <<>> => gBudget = <<>>
         /\ Matches(gBudget, gOpen[t])
  <1>1. \A u \in GsTasks \ {t} : gOpen[u] = <<>>
    BY DEF Meddles
  <1>2. gOpen[t] # <<>> => Matches(gBudget, gOpen[t])
    BY DEF GsInv, BudgetsHold
  <1>3. gOpen[t] = <<>> => gBudget = <<>>
    BY <1>1 DEF GsInv, BudgetsHold
  <1>4. Matches(<<>>, <<>>)
    BY DEF Matches
  <1>5. QED
    BY <1>1, <1>2, <1>3, <1>4

\* The timeouts of the running task become o and the levels match them.
LEMMA BudgetsMove ==
  ASSUME GsInv, NEW t \in GsTasks, NEW o,
         gOpen' = [gOpen EXCEPT ![t] = o],
         ~gMixed' => /\ ~gMixed /\ ~Meddles(t)
                     /\ Matches(gBudget', o) /\ (o = <<>> => gBudget' = <<>>)
                     /\ gAnswer' # <<>> => gAnswer'.error = gAnswer'.was.cut /\ gAnswer'.was.slept <= gAnswer'.was.d
  PROVE  BudgetsHold'
  <1> SUFFICES ASSUME ~gMixed'
               PROVE  /\ \A u \in GsTasks : gOpen'[u] # <<>> =>
                           Matches(gBudget', gOpen'[u]) /\ \A v \in GsTasks \ {u} : gOpen'[v] = <<>>
                      /\ (\A u \in GsTasks : gOpen'[u] = <<>>) => gBudget' = <<>>
    BY DEF BudgetsHold, Matches
  <1>1. \A u \in GsTasks \ {t} : gOpen[u] = <<>>
    BY OwnLevels
  <1>2. gOpen'[t] = o /\ \A u \in GsTasks \ {t} : gOpen'[u] = <<>>
    BY <1>1 DEF GsInv, GsTypeOK
  <1>3. QED
    BY <1>2

LEMMA BeginKeeps ==
  ASSUME GsInv, NEW t \in GsTasks, NEW d \in GsLens, jacl_timeout_begin(t, d)
  PROVE  GsInv'
  <1> DEFINE e == [d |-> d, slept |-> 0, cut |-> FALSE]
  <1>1. /\ gBudget' = Begun(gBudget, d) /\ gOpen' = [gOpen EXCEPT ![t] = Append(gOpen[t], e)]
        /\ gMixed' = (gMixed \/ Meddles(t) \/ Len(gBudget) = JACL_TIMEOUT_MAX)
        /\ UNCHANGED <<gTrace, gSnap, gAsleep, gInside, gAnswer, gFailed, gCalls>>
    BY DEF jacl_timeout_begin
  <1>2. d \in Nat /\ e \in Timeout /\ JACL_TIMEOUT_MAX \in Nat
    BY GsAssumption DEF GsAssumption, Timeout
  <1>3. /\ gBudget \in Seq(Level) /\ Len(gBudget) <= JACL_TIMEOUT_MAX /\ gOpen \in [GsTasks -> Seq(Timeout)]
        /\ gOpen[t] \in Seq(Timeout) /\ gMixed \in BOOLEAN
    BY DEF GsInv, GsTypeOK
  <1>4. Begun(gBudget, d) \in Seq(Level) /\ Len(Begun(gBudget, d)) <= JACL_TIMEOUT_MAX
    <2>1. [left |-> d, fired |-> FALSE] \in Level
      BY <1>2 DEF Level
    <2>2. QED
      BY <1>2, <1>3, <2>1 DEF Begun
  <1> HIDE DEF e
  <1>5. Append(gOpen[t], e) \in Seq(Timeout) /\ Append(gOpen[t], e) # <<>>
    <2> DEFINE o == gOpen[t]
    <2>1. o \in Seq(Timeout)
      BY <1>3
    <2> HIDE DEF o
    <2>2. Append(o, e) \in Seq(Timeout) /\ Len(Append(o, e)) = Len(o) + 1 /\ Len(o) \in Nat
      BY <1>2, <2>1
    <2>3. Append(o, e) # <<>>
      BY <2>2
    <2>4. QED
      BY <2>2, <2>3 DEF o
  <1>6. gMixed' \in BOOLEAN
    BY <1>1
  <1>7. GsTypeOK'
    BY <1>1, <1>3, <1>4, <1>5, <1>6 DEF GsInv, GsTypeOK
  <1>8. BudgetsHold'
    <2>1. ASSUME ~gMixed' PROVE ~gMixed /\ ~Meddles(t) /\ Len(gBudget) < JACL_TIMEOUT_MAX
      <3>1. ~gMixed /\ ~Meddles(t) /\ Len(gBudget) # JACL_TIMEOUT_MAX
        BY <1>1, <2>1, Zenon
      <3>2. Len(gBudget) \in Nat
        BY <1>3
      <3>3. QED
        BY <1>2, <1>3, <3>1, <3>2
    <2>2. ASSUME ~gMixed' PROVE Matches(gBudget', Append(gOpen[t], e))
      <3>1. Matches(gBudget, gOpen[t])
        BY <2>1, <2>2, OwnLevels
      <3>2. QED
        BY <1>1, <1>2, <1>3, <2>1, <2>2, <3>1, BegunMatches DEF e
    <2>3. ASSUME ~gMixed', gAnswer' # <<>>
          PROVE  gAnswer'.error = gAnswer'.was.cut /\ gAnswer'.was.slept <= gAnswer'.was.d
      BY <1>1, <2>1, <2>3 DEF GsInv, BudgetsHold
    <2>4. QED
      BY <1>1, <1>5, <2>1, <2>2, <2>3, BudgetsMove
  <1>9. QED
    BY <1>1, <1>7, <1>8, TraceKept DEF GsInv

LEMMA EndKeeps ==
  ASSUME GsInv, NEW t \in GsTasks, jacl_timeout_end(t)
  PROVE  GsInv'
  <1> DEFINE a == [was |-> Last(gOpen[t]), error |-> gBudget # <<>> /\ Last(gBudget).fired]
  <1>1. /\ gOpen[t] # <<>> /\ gAnswer' = a
        /\ gBudget' = (IF gBudget = <<>> THEN gBudget ELSE Front(gBudget))
        /\ gOpen' = [gOpen EXCEPT ![t] = Front(gOpen[t])]
        /\ gMixed' = (gMixed \/ Meddles(t))
        /\ UNCHANGED <<gTrace, gSnap, gAsleep, gInside, gFailed, gCalls>>
    BY DEF jacl_timeout_end
  <1>2. a.was = Last(gOpen[t]) /\ a.error = (gBudget # <<>> /\ Last(gBudget).fired)
    OBVIOUS
  <1> HIDE DEF a
  <1>3. /\ gBudget \in Seq(Level) /\ Len(gBudget) <= JACL_TIMEOUT_MAX /\ gOpen \in [GsTasks -> Seq(Timeout)]
        /\ gOpen[t] \in Seq(Timeout) /\ JACL_TIMEOUT_MAX \in Nat
    BY GsAssumption DEF GsInv, GsTypeOK, GsAssumption
  <1>4. Front(gOpen[t]) \in Seq(Timeout)
    BY <1>1, <1>3, FrontSeq
  <1>5. gBudget' \in Seq(Level) /\ Len(gBudget') <= JACL_TIMEOUT_MAX
    <2>1. CASE gBudget = <<>>
      BY <1>1, <1>3, <2>1
    <2>2. CASE gBudget # <<>>
      <3>1. gBudget' \in Seq(Level) /\ Len(gBudget') = Len(gBudget) - 1 /\ Len(gBudget) \in Nat
        <4>1. Front(gBudget) \in Seq(Level) /\ Len(Front(gBudget)) = Len(gBudget) - 1
          BY <1>3, <2>2, FrontSeq
        <4>2. Len(gBudget) \in Nat
          BY <1>3
        <4>3. QED
          BY <1>1, <2>2, <4>1, <4>2
      <3>2. QED
        BY <1>3, <3>1
    <2>3. QED
      BY <2>1, <2>2
  <1>6. gMixed' \in BOOLEAN
    BY <1>1
  <1>7. GsTypeOK'
    BY <1>1, <1>3, <1>4, <1>5, <1>6 DEF GsInv, GsTypeOK
  <1>8. BudgetsHold'
    <2>1. ASSUME ~gMixed' PROVE ~gMixed /\ ~Meddles(t)
      BY <1>1, <2>1
    <2>2. ASSUME ~gMixed'
          PROVE  /\ Matches(gBudget', Front(gOpen[t])) /\ (Front(gOpen[t]) = <<>> => gBudget' = <<>>)
                 /\ gAnswer'.error = gAnswer'.was.cut /\ gAnswer'.was.slept <= gAnswer'.was.d
      <3>1. Matches(gBudget, gOpen[t])
        BY <2>1, <2>2, OwnLevels
      <3>2. /\ gBudget # <<>> /\ Matches(Front(gBudget), Front(gOpen[t]))
            /\ Last(gBudget).fired = Last(gOpen[t]).cut /\ Last(gOpen[t]).slept <= Last(gOpen[t]).d
            /\ Front(gOpen[t]) = <<>> => Front(gBudget) = <<>>
        BY <1>1, <1>3, <3>1, EndedMatches
      <3>3. Last(gOpen[t]) \in Timeout
        BY <1>1, <1>3, FrontSeq
      <3>4. gAnswer'.error = gAnswer'.was.cut
        BY <1>1, <1>2, <3>2, <3>3 DEF Timeout
      <3>5. QED
        BY <1>1, <1>2, <3>2, <3>4
    <2>3. QED
      BY <1>1, <2>1, <2>2, BudgetsMove
  <1>9. QED
    BY <1>1, <1>7, <1>8, TraceKept DEF GsInv

LEMMA LeaveKeeps ==
  ASSUME GsInv, NEW t \in GsTasks, LeaveTimeout(t)
  PROVE  GsInv'
  <1>1. /\ gOpen[t] # <<>> /\ gOpen' = [gOpen EXCEPT ![t] = Front(gOpen[t])] /\ gMixed' = TRUE
        /\ UNCHANGED <<gBudget, gTrace, gSnap, gAsleep, gInside, gAnswer, gFailed, gCalls>>
    BY DEF LeaveTimeout
  <1>2. Front(gOpen[t]) \in Seq(Timeout)
    BY <1>1, FrontSeq DEF GsInv, GsTypeOK
  <1>3. GsTypeOK'
    BY <1>1, <1>2 DEF GsInv, GsTypeOK
  <1>4. QED
    BY <1>1, <1>3, TraceKept DEF GsInv, BudgetsHold

LEMMA SleepKeeps ==
  ASSUME GsInv, NEW t \in GsTasks, NEW n \in GsLens, jacl_sleep(t, n)
  PROVE  GsInv'
  <1> DEFINE c == Clamped(gBudget, n)
             o == gOpen[t]
             o1 == [o EXCEPT ![Len(o)] = [d |-> @.d, slept |-> @.slept + c, cut |-> @.cut \/ c < n]]
  <1>1. /\ gAsleep' = [gAsleep EXCEPT ![t] = c] /\ gBudget' = Charged(gBudget, n)
        /\ gOpen' = [gOpen EXCEPT ![t] = IF o = <<>> THEN o ELSE o1]
        /\ gMixed' = (gMixed \/ Meddles(t))
        /\ UNCHANGED <<gTrace, gSnap, gInside, gAnswer, gFailed, gCalls>>
    <2>1. /\ gAsleep' = [gAsleep EXCEPT ![t] = c] /\ gBudget' = Charged(gBudget, n)
          /\ gMixed' = (gMixed \/ Meddles(t))
          /\ UNCHANGED <<gTrace, gSnap, gInside, gAnswer, gFailed, gCalls>>
      BY DEF jacl_sleep
    <2>2. gOpen' = [gOpen EXCEPT ![t] = IF o = <<>> THEN o ELSE o1]
      BY DEF jacl_sleep, SleptIn
    <2>3. QED
      BY <2>1, <2>2
  <1>2. n \in Nat
    BY GsAssumption DEF GsAssumption
  <1>3. gBudget \in Seq(Level) /\ o \in Seq(Timeout) /\ gOpen \in [GsTasks -> Seq(Timeout)]
    BY DEF GsInv, GsTypeOK
  <1>4. gBudget' \in Seq(Level) /\ Len(gBudget') = Len(gBudget) /\ c \in Nat
    BY <1>1, <1>2, <1>3, ChargedType
  <1>5. ASSUME o # <<>> PROVE o1 \in Seq(Timeout)
    <2> DEFINE e == [d |-> o[Len(o)].d, slept |-> o[Len(o)].slept + c, cut |-> o[Len(o)].cut \/ c < n]
    <2> HIDE DEF c, o
    <2>1. Len(o) \in 1 .. Len(o) /\ o[Len(o)] \in Timeout
      BY <1>3, <1>5
    <2>2. o[Len(o)].d \in Nat /\ o[Len(o)].slept + c \in Nat /\ (o[Len(o)].cut \/ c < n) \in BOOLEAN
      BY <1>4, <2>1 DEF Timeout
    <2>3. e \in Timeout
      BY <2>2, Zenon DEF Timeout
    <2>4. o1 = [o EXCEPT ![Len(o)] = e]
      BY <2>1
    <2> HIDE DEF e
    <2>5. QED
      BY <1>3, <2>1, <2>3, <2>4
  <1>6. gMixed' \in BOOLEAN
    BY <1>1
  <1>7. GsTypeOK'
    <2> HIDE DEF o1, c
    <2>1. (IF o = <<>> THEN o ELSE o1) \in Seq(Timeout)
      BY <1>3, <1>5
    <2>2. QED
      BY <1>1, <1>3, <1>4, <1>6, <2>1 DEF GsInv, GsTypeOK
  <1>8. BudgetsHold'
    <2> DEFINE p == IF o = <<>> THEN o ELSE o1
    <2>1. ASSUME ~gMixed' PROVE ~gMixed /\ ~Meddles(t)
      BY <1>1, <2>1
    <2>2. ASSUME ~gMixed'
          PROVE  Matches(gBudget', p) /\ (p = <<>> => gBudget' = <<>>)
      <3>1. Matches(gBudget, o) /\ (o = <<>> => gBudget = <<>>)
        BY <2>1, <2>2, OwnLevels
      <3>2. CASE o = <<>>
        BY <1>1, <3>1, <3>2 DEF Charged
      <3>3. CASE o # <<>>
        <4>1. o1 # <<>> /\ Matches(Charged(gBudget, n), o1)
          BY <1>2, <1>3, <3>1, <3>3, ChargedMatches
        <4>2. QED
          BY <1>1, <3>3, <4>1
      <3>4. QED
        BY <3>2, <3>3
    <2>3. ASSUME ~gMixed', gAnswer' # <<>>
          PROVE  gAnswer'.error = gAnswer'.was.cut /\ gAnswer'.was.slept <= gAnswer'.was.d
      BY <1>1, <2>1, <2>3 DEF GsInv, BudgetsHold
    <2> HIDE DEF o1
    <2>4. gOpen' = [gOpen EXCEPT ![t] = p]
      BY <1>1
    <2> HIDE DEF p
    <2>5. QED
      BY <2>1, <2>2, <2>3, <2>4, BudgetsMove
  <1>9. QED
    BY <1>1, <1>7, <1>8, TraceKept DEF GsInv

LEMMA ChunkTurnKeep ==
  ASSUME GsInv, NEW t \in GsTasks, SleepChunk(t) \/ TurnTo(t)
  PROVE  GsInv'
  <1>1. UNCHANGED <<gBudget, gTrace, gSnap, gOpen, gInside, gAnswer, gFailed, gCalls, gMixed>>
    BY DEF SleepChunk, TurnTo
  <1>2. gAsleep' \in [GsTasks -> Nat]
    <2>1. CASE SleepChunk(t)
      BY <2>1 DEF SleepChunk, GsInv, GsTypeOK
    <2>2. CASE TurnTo(t)
      BY <2>2 DEF TurnTo, GsInv, GsTypeOK
    <2>3. QED
      BY <2>1, <2>2
  <1>3. QED
    BY <1>1, <1>2, TraceKept, BudgetsKept DEF GsInv, GsTypeOK

-----------------------------------------------------------------------------
(* The shadow stack *)

LEMMA CallKeeps ==
  ASSUME GsInv, NEW t \in GsTasks, CallProc(t)
  PROVE  GsInv'
  <1> DEFINE k == gCalls + 1
  <1>1. /\ gTrace' = Pushed(gTrace, k) /\ gCalls' = k
        /\ gInside' = [gInside EXCEPT ![t] = Append(gInside[t], k)]
        /\ UNCHANGED <<gBudget, gSnap, gAsleep, gOpen, gAnswer, gFailed, gMixed>>
    BY DEF CallProc
  <1>2. /\ gCalls \in Nat /\ gTrace \in Seq(Nat) /\ gInside \in [GsTasks -> Seq(Nat)]
        /\ JACL_TRACE_MAX \in Nat
    BY GsAssumption DEF GsInv, GsTypeOK, GsAssumption
  <1>3. gTrace' \in Seq(Nat) /\ Append(gInside[t], k) \in Seq(Nat)
    BY <1>1, <1>2 DEF Pushed
  <1>4. GsTypeOK'
    BY <1>1, <1>2, <1>3 DEF GsInv, GsTypeOK
  <1>5. ASSUME NEW u \in GsTasks PROVE CallsUpTo(gInside'[u], k)
    <2> DEFINE s == gInside[u]
    <2>1. s \in Seq(Nat) /\ CallsUpTo(s, gCalls)
      BY <1>2 DEF GsInv, TraceHolds
    <2>2. gInside'[u] \in {s, Append(s, k)}
      BY <1>1, <1>2
    <2> HIDE DEF s
    <2>3. CASE gInside'[u] = s
      <3>1. Len(s) \in Nat /\ \A i \in 1 .. Len(s) : s[i] \in Nat
        BY <2>1
      <3>2. CallsUpTo(s, k)
        BY <1>2, <2>1, <3>1 DEF CallsUpTo
      <3>3. QED
        BY <2>3, <3>2
    <2>4. CASE gInside'[u] = Append(s, k)
      <3>1. /\ Len(Append(s, k)) = Len(s) + 1 /\ Append(s, k)[Len(s) + 1] = k
            /\ \A i \in 1 .. Len(s) : Append(s, k)[i] = s[i] /\ s[i] \in Nat
        BY <1>2, <2>1
      <3>2. Len(s) \in Nat /\ gCalls \in Nat /\ k = gCalls + 1 /\ \A i \in 1 .. Len(s) : s[i] <= gCalls /\ s[i] >= 1
        BY <1>2, <2>1 DEF CallsUpTo
      <3>3. \A i, j \in 1 .. Len(s) : i < j => s[i] < s[j]
        BY <2>1 DEF CallsUpTo
      <3> DEFINE a == Append(s, k)
      <3> HIDE DEF k, a
      <3>4. /\ Len(a) = Len(s) + 1 /\ a[Len(s) + 1] = k
            /\ \A i \in 1 .. Len(s) : a[i] = s[i] /\ s[i] \in Nat
        BY <3>1 DEF a
      <3>5. \A i \in 1 .. Len(a) : a[i] >= 1 /\ a[i] <= k
        BY <3>2, <3>4
      <3>6. \A i, j \in 1 .. Len(a) : i < j => a[i] < a[j]
        <4> SUFFICES ASSUME NEW i \in 1 .. Len(a), NEW j \in 1 .. Len(a), i < j PROVE a[i] < a[j]
          OBVIOUS
        <4>1. i \in 1 .. Len(s) /\ a[i] = s[i]
          BY <3>2, <3>4
        <4>2. CASE j \in 1 .. Len(s)
          <5>1. a[j] = s[j]
            BY <3>4, <4>2
          <5>2. QED
            BY <3>3, <4>1, <4>2, <5>1
        <4>3. CASE j = Len(s) + 1
          <5>1. a[j] = k /\ s[i] <= gCalls /\ s[i] \in Nat
            BY <3>2, <3>4, <4>1, <4>3
          <5>2. QED
            BY <3>2, <4>1, <5>1
        <4>4. j \in 1 .. Len(s) \/ j = Len(s) + 1
          BY <3>2, <3>4
        <4>5. QED
          BY <4>2, <4>3, <4>4
      <3>7. CallsUpTo(a, k)
        BY <3>5, <3>6 DEF CallsUpTo
      <3>8. QED
        BY <2>4, <3>7 DEF a
    <2>5. QED
      BY <2>2, <2>3, <2>4
  <1>6. ASSUME k <= JACL_TRACE_MAX
        PROVE  Len(gTrace') = k /\ \A i \in 1 .. Len(gTrace') : gTrace'[i] = i
    <2>1. gTrace' = Append(gTrace, k) /\ gCalls <= JACL_TRACE_MAX
      BY <1>1, <1>2, <1>6 DEF Pushed
    <2>2. Len(gTrace) = gCalls /\ \A i \in 1 .. Len(gTrace) : gTrace[i] = i
      BY <2>1 DEF GsInv, TraceHolds
    <2>3. QED
      BY <1>2, <2>1, <2>2
  <1>7. k <= JACL_TRACE_MAX => gCalls <= JACL_TRACE_MAX
    BY <1>2
  <1>8. TraceHolds'
    <2>1. k <= JACL_TRACE_MAX => (\E c \in Nat : Snapped(c))'
      <3>1. k <= JACL_TRACE_MAX => \E c \in Nat : Snapped(c)
        BY <1>7 DEF GsInv, TraceHolds
      <3>2. QED
        BY <1>1, <3>1 DEF Snapped, CallsUpTo
    <2> HIDE DEF k
    <2>2. \A u \in GsTasks : CallsUpTo(gInside'[u], gCalls')
      BY <1>1, <1>5
    <2>3. QED
      BY <1>1, <1>6, <2>1, <2>2 DEF TraceHolds, CallsUpTo
  <1>9. QED
    BY <1>1, <1>4, <1>8, BudgetsKept DEF GsInv

LEMMA ReturnKeeps ==
  ASSUME GsInv, NEW t \in GsTasks, ReturnProc(t)
  PROVE  GsInv'
  <1> DEFINE s == gInside[t]
  <1>1. /\ s # <<>> /\ gInside' = [gInside EXCEPT ![t] = Front(s)]
        /\ UNCHANGED <<gBudget, gTrace, gSnap, gAsleep, gOpen, gAnswer, gFailed, gCalls, gMixed>>
    BY DEF ReturnProc
  <1>2. s \in Seq(Nat) /\ gInside \in [GsTasks -> Seq(Nat)] /\ CallsUpTo(s, gCalls)
    BY DEF GsInv, GsTypeOK, TraceHolds
  <1>3. /\ Front(s) \in Seq(Nat) /\ Len(Front(s)) = Len(s) - 1 /\ Len(s) \in Nat
        /\ \A i \in 1 .. Len(s) - 1 : Front(s)[i] = s[i]
    <2> HIDE DEF s
    <2>1. Len(s) \in Nat
      BY <1>2
    <2>2. QED
      BY <1>1, <1>2, <2>1, FrontSeq
  <1>4. CallsUpTo(Front(s), gCalls)
    <2> DEFINE f == Front(s)
    <2> HIDE DEF s, f
    <2>1. Len(f) = Len(s) - 1 /\ Len(s) \in Nat /\ \A i \in 1 .. Len(s) - 1 : f[i] = s[i]
      BY <1>3 DEF f
    <2>2. CallsUpTo(f, gCalls)
      BY <1>2, <2>1 DEF CallsUpTo
    <2>3. QED
      BY <2>2 DEF f
  <1>5. GsTypeOK'
    BY <1>1, <1>2, <1>3 DEF GsInv, GsTypeOK
  <1>6. \A u \in GsTasks : CallsUpTo(gInside'[u], gCalls)
    BY <1>1, <1>2, <1>4 DEF GsInv, TraceHolds
  <1>7. TraceHolds'
    BY <1>1, <1>6 DEF GsInv, TraceHolds, Snapped, CallsUpTo
  <1>8. QED
    BY <1>1, <1>5, <1>7, BudgetsKept DEF GsInv

LEMMA FailKeeps ==
  ASSUME GsInv, NEW t \in GsTasks, FailHere(t)
  PROVE  GsInv'
  <1> DEFINE m == IF Len(gTrace) < TraceFrames THEN Len(gTrace) ELSE TraceFrames
  <1>1. /\ gSnap' = jacl_trace_snapshot(gTrace) /\ gFailed' = gInside[t]
        /\ UNCHANGED <<gBudget, gTrace, gAsleep, gOpen, gInside, gAnswer, gCalls, gMixed>>
    BY DEF FailHere
  <1>2. gTrace \in Seq(Nat) /\ gInside[t] \in Seq(Nat) /\ gCalls \in Nat /\ TraceFrames \in Nat
    BY GsAssumption DEF GsInv, GsTypeOK, GsAssumption
  <1>3. Len(gTrace) \in Nat /\ m \in Nat /\ m <= Len(gTrace)
    BY <1>2
  <1>4. gSnap' = [i \in 1 .. m |-> gTrace[Len(gTrace) + 1 - i]]
    BY <1>1 DEF jacl_trace_snapshot
  <1>5. /\ gSnap' \in Seq(Nat) /\ Len(gSnap') = m
        /\ \A i \in 1 .. m : gSnap'[i] = gTrace[Len(gTrace) + 1 - i]
    <2> HIDE DEF m
    <2>1. \A i \in 1 .. m : gTrace[Len(gTrace) + 1 - i] \in Nat
      BY <1>2, <1>3
    <2>2. QED
      BY <1>3, <1>4, <2>1
  <1>6. GsTypeOK'
    BY <1>1, <1>2, <1>5 DEF GsInv, GsTypeOK
  <1>7. ASSUME gCalls <= JACL_TRACE_MAX
        PROVE  Snapped(gCalls)'
    <2>1. Len(gTrace) = gCalls /\ (\A i \in 1 .. Len(gTrace) : gTrace[i] = i) /\ CallsUpTo(gInside[t], gCalls)
      BY <1>7 DEF GsInv, TraceHolds
    <2>2. Len(gSnap') = IF gCalls < TraceFrames THEN gCalls ELSE TraceFrames
      BY <1>5, <2>1
    <2>3. \A i \in 1 .. m : gSnap'[i] = gCalls + 1 - i
      <3> HIDE DEF m
      <3>1. QED
        BY <1>2, <1>3, <1>5, <2>1
    <2> HIDE DEF m
    <2>4. QED
      BY <1>1, <1>5, <2>1, <2>2, <2>3 DEF Snapped, CallsUpTo
  <1>8. TraceHolds'
    BY <1>1, <1>2, <1>7 DEF GsInv, TraceHolds, CallsUpTo
  <1>9. QED
    BY <1>1, <1>6, <1>8, BudgetsKept DEF GsInv

\* Every step of the tasks keeps GsInv (builtins.c:743-772, :1320-1338).
THEOREM GsInvariant == GsSpec => []GsInv
  <1>1. ASSUME GsInv, [GsNext]_gsVars
        PROVE  GsInv'
    <2>1. CASE UNCHANGED gsVars
      BY <1>1, <2>1, TraceKept, BudgetsKept DEF gsVars, GsInv, GsTypeOK
    <2>2. CASE GsNext
      BY <1>1, <2>2, BeginKeeps, SleepKeeps, EndKeeps, LeaveKeeps, ChunkTurnKeep, CallKeeps, ReturnKeeps, FailKeeps DEF GsNext
    <2>3. QED
      BY <1>1, <2>1, <2>2
  <1>2. QED
    BY <1>1, GsInitInv, PTL DEF GsSpec

\* For any tasks, depths of the two stacks, lengths and number of operations: the
\* budgets are those of the task inside its timeouts and a timeout answers for
\* its own sleeps, unless tasks' timeouts overlap or one was left open; and, until
\* the shadow stack has overflowed, the trace of an error holds, inner before outer,
\* every call it was inside of that is among the last calls the snapshot's buffer
\* has room for (builtins.c:743-772, :1320-1365).
THEOREM StacksHold == GsSpec => []StacksServe
  <1>1. ASSUME GsInv PROVE StacksServe
    <2>1. TimeoutsOwn
      <3>1. \A t \in GsTasks : gOpen[t] \in Seq(Timeout) /\ gBudget \in Seq(Level)
        BY <1>1 DEF GsInv, GsTypeOK
      <3>2. QED
        BY <1>1, <3>1 DEF GsInv, BudgetsHold, Matches, TimeoutsOwn
    <2>2. ASSUME gCalls <= JACL_TRACE_MAX
          PROVE  \E is \in [Recent -> DOMAIN gSnap] :
                   /\ \A i \in Recent : gSnap[is[i]] = gFailed[i]
                   /\ \A i, j \in Recent : i < j => is[i] > is[j]
      <3>1. PICK c \in Nat : Snapped(c)
        BY <1>1, <2>2 DEF GsInv, TraceHolds
      <3> DEFINE n == Len(gSnap)
                 is == [i \in Recent |-> c + 1 - gFailed[i]]
      <3>2. /\ DOMAIN gFailed = 1 .. Len(gFailed) /\ DOMAIN gSnap = 1 .. n /\ n \in Nat
            /\ Len(gFailed) \in Nat /\ \A i \in 1 .. Len(gFailed) : gFailed[i] \in Nat
            /\ TraceFrames \in Nat /\ TraceFrames > 0
        BY <1>1, GsAssumption DEF GsInv, GsTypeOK, GsAssumption
      <3>3. /\ n = IF c < TraceFrames THEN c ELSE TraceFrames
            /\ \A i \in 1 .. n : gSnap[i] = c + 1 - i
            /\ CallsUpTo(gFailed, c)
        BY <3>1 DEF Snapped
      <3> HIDE DEF n
      <3>4. ASSUME NEW i \in Recent
            PROVE  /\ i \in 1 .. Len(gFailed) /\ gFailed[i] \in 1 .. c
                   /\ c + 1 - gFailed[i] \in 1 .. n
        <4>1. i \in 1 .. Len(gFailed) /\ gFailed[i] + TraceFrames > gSnap[1]
          BY <3>2 DEF Recent
        <4>2. gFailed[i] \in Nat /\ gFailed[i] >= 1 /\ gFailed[i] <= c
          BY <3>2, <3>3, <4>1 DEF CallsUpTo
        <4>3. n >= 1 /\ gSnap[1] = c
          BY <3>1, <3>2, <3>3, <4>2
        <4>4. QED
          BY <3>1, <3>2, <3>3, <4>1, <4>2, <4>3
      <3>5. is \in [Recent -> 1 .. n]
        BY <3>4
      <3>6. \A i \in Recent : gSnap[is[i]] = gFailed[i]
        <4> SUFFICES ASSUME NEW i \in Recent PROVE gSnap[is[i]] = gFailed[i]
          OBVIOUS
        <4>1. is[i] \in 1 .. n /\ is[i] = c + 1 - gFailed[i] /\ gFailed[i] \in Nat
          BY <3>4
        <4> HIDE DEF is
        <4>2. QED
          BY <3>1, <3>3, <4>1
      <3>7. \A i, j \in Recent : i < j => is[i] > is[j]
        <4> SUFFICES ASSUME NEW i \in Recent, NEW j \in Recent, i < j PROVE is[i] > is[j]
          OBVIOUS
        <4>1. gFailed[i] < gFailed[j]
          BY <3>3, <3>4 DEF CallsUpTo
        <4>2. /\ is[i] = c + 1 - gFailed[i] /\ is[j] = c + 1 - gFailed[j]
              /\ gFailed[i] \in Nat /\ gFailed[j] \in Nat
          BY <3>4
        <4> HIDE DEF is
        <4>3. QED
          BY <3>1, <4>1, <4>2
      <3> HIDE DEF is
      <3>8. QED
        BY <3>2, <3>5, <3>6, <3>7
    <2>3. QED
      BY <2>1, <2>2 DEF StacksServe, TraceHoldsCalls
  <1>2. QED
    BY <1>1, GsInvariant, PTL

-----------------------------------------------------------------------------
(* The transcript: its inductive invariant *)

TxSlots == 0 .. (JACL_JOBS - 1)
TxPcs    == {"idle", "wait", "body", "add", "commit", "done", "loop", "gone"}
TxOps    == {"none", "write", "emit", "forward", "piped", "end", "output", "put", "close", "flush",
             "screen"}
TxAgrees == {"none", "own", "link", "piped", "grid"}
TxKinds  == {"none", "text", "values", "adopted"}
TxStates == {"open", "complete", "cancelled"}

TxBlock == [by : Int, kind : TxKinds, state : TxStates, parts : Nat]
TxSlot  == [used : BOOLEAN, gen : Nat, job : Nat, block : Nat, kind : TxKinds, agree : TxAgrees, blocks : Nat]
TxCall  == [pc : TxPcs, op : TxOps, h : Int, n : Nat, done : Nat, agree : TxAgrees,
            call : Nat, failed : BOOLEAN, before : Seq(TxBlock)]
TxEntry == [call : Nat, block : Nat, n : Nat, via : Int, lost : BOOLEAN]
TxState == [pending : Nat, blocks : Nat, refs : Seq([block : Nat, name : Nat])]

\* Handle h names a job of the slots given.
Names(js, h) == js[SlotOf(h)].used /\ js[SlotOf(h)].gen = h \div JACL_JOBS

TxTypeOK ==
  /\ txBusy \in TxFibers \cup {NoFiber}
  /\ tx \in TxState /\ txDoc \in Seq(TxBlock) /\ txHeld \in Nat
  /\ txJobs \in [TxSlots -> TxSlot]
  /\ txFib \in [TxFibers -> TxCall]
  /\ issued \in Seq(Nat) /\ txLog \in Seq(TxEntry) /\ txCalls \in Nat

\* A handle is of its slot's generation or of an earlier one, and of an earlier one
\* while the slot is free.
HandlesHold ==
  \A k \in DOMAIN issued :
    LET j == txJobs[SlotOf(issued[k])]
        g == issued[k] \div JACL_JOBS
    IN  /\ g <= j.gen
        /\ ~j.used => g < j.gen
        /\ j.used /\ g = j.gen => j.job = k

\* The block a slot records is open, and was opened through the slot's present handle.
SlotsHold ==
  \A s \in TxSlots :
    LET j == txJobs[s]
    IN  j.block # TxNoBlock =>
          /\ j.used /\ j.block \in DOMAIN txDoc
          /\ txDoc[j.block].state = "open"
          /\ txDoc[j.block].by >= 0 /\ SlotOf(txDoc[j.block].by) = s /\ job_of_handle(txDoc[j.block].by)

DocHolds ==
  /\ tx.blocks <= Len(txDoc)
  /\ OneOpenBlock
  /\ \A i \in DOMAIN tx.refs : tx.refs[i].block \in DOMAIN txDoc
  /\ \A i \in DOMAIN txLog : txLog[i].block \in DOMAIN txDoc

\* What a call under way has found out: its handle still names its job once it has the
\* turn, and the block it adds to is open and was opened through that handle.
TxCallHolds(c) ==
  /\ c.pc \in {"wait", "body", "add", "commit"} =>
       /\ c.agree = "link" => c.op = "emit"
       /\ c.op \in {"output", "flush", "put", "close"} => c.h < 0
       /\ c.op \notin {"output", "flush", "put", "close"} => c.h >= 0
  /\ c.pc \in {"wait", "body"} /\ c.op \in {"put", "close"} =>
       OwnBlock(c.h) \in DOMAIN txDoc /\ txDoc[OwnBlock(c.h)].by = c.h
  /\ c.pc \in {"body", "add", "commit"} /\ c.h >= 0 => job_of_handle(c.h)
  /\ c.pc \in {"add", "commit"} /\ c.op # "flush" =>
       /\ Target(c) \in DOMAIN txDoc
       /\ txDoc[Target(c)].by = c.h /\ txDoc[Target(c)].state = "open"
       /\ c.h >= 0 => txJobs[SlotOf(c.h)].agree = c.agree

UnderWay == {"wait", "body", "add", "commit", "done"}

\* A call is written in the log once it adds, and then last.
InLog(c) ==
  /\ c.pc \in UnderWay => c.call <= txCalls
  /\ c.pc \in {"wait", "body"} => \A i \in DOMAIN txLog : txLog[i].call # c.call
  /\ c.pc \in {"add", "commit"} =>
       \A i \in DOMAIN txLog : txLog[i].call = c.call =>
         /\ txLog[i].block = Target(c)
         /\ \A k \in DOMAIN txLog : i < k => txLog[k].call = c.call

LogHolds ==
  /\ WritesTogether
  /\ \A i \in DOMAIN txLog : txLog[i].call <= txCalls
  /\ \A f, g \in TxFibers :
       f # g /\ txFib[f].pc \in UnderWay /\ txFib[g].pc \in UnderWay => txFib[f].call # txFib[g].call

NoRefs(b)   == \A i \in DOMAIN tx.refs : tx.refs[i].block # b
NameLost(b) == \E i \in DOMAIN txLog : txLog[i].block = b /\ txLog[i].lost

\* Block b has a reference for every value, under the value's name.
Matched(b) ==
  /\ Rank(tx.refs, b, Len(tx.refs)) = Rank(txLog, b, Len(txLog))
  /\ \A i \in DOMAIN txLog : txLog[i].block = b =>
       LET at == Nth(b, Rank(txLog, b, i))
       IN  at # {} /\ \A k \in at : tx.refs[k].name = txLog[i].call

\* A block has links only, or none.
PicksHold ==
  /\ \A b \in DOMAIN txDoc : NoRefs(b) \/ NameLost(b) \/ Matched(b)
  /\ \A b \in DOMAIN txDoc : txDoc[b].by < 0 => NoRefs(b)
  /\ \A s \in TxSlots :
       LET j == txJobs[s]
       IN  j.block # TxNoBlock =>
             IF j.agree = "link" THEN NameLost(j.block) \/ Matched(j.block) ELSE NoRefs(j.block)

TxInv ==
  /\ TxTypeOK /\ HandlesHold /\ SlotsHold /\ DocHolds /\ LogHolds /\ PicksHold
  /\ HeldBounded /\ TurnHeld
  /\ \A f \in TxFibers : TxCallHolds(txFib[f]) /\ InLog(txFib[f])

-----------------------------------------------------------------------------
(* The transcript: proofs *)

\* A handle is its generation and its slot, and names a job only if it is not negative.
LEMMA HandleFacts ==
  /\ JACL_JOBS \in Nat \ {0}
  /\ \A h \in Int : SlotOf(h) \in TxSlots /\ h \div JACL_JOBS \in Int /\ h = JACL_JOBS * (h \div JACL_JOBS) + SlotOf(h)
  /\ \A g \in Nat, s \in TxSlots :
       /\ g * JACL_JOBS + s \in Nat
       /\ SlotOf(g * JACL_JOBS + s) = s /\ (g * JACL_JOBS + s) \div JACL_JOBS = g
  /\ \A h, k \in Int : SlotOf(h) = SlotOf(k) /\ h \div JACL_JOBS = k \div JACL_JOBS => h = k
  /\ \A h \in Int : h \div JACL_JOBS \in Nat => h >= 0
  <1>1. PICK J \in Nat \ {0} : J = JACL_JOBS
    BY TranscriptAssumption DEF TranscriptAssumption
  <1>2. ASSUME NEW h \in Int PROVE h % J \in 0 .. (J - 1) /\ h \div J \in Int /\ h = J * (h \div J) + (h % J)
    BY <1>1
  <1>3. ASSUME NEW g \in Nat, NEW s \in 0 .. (J - 1)
        PROVE  g * J + s \in Nat /\ (g * J + s) % J = s /\ (g * J + s) \div J = g
    <2>1. PICK q \in Int, r \in 0 .. (J - 1) : q = (g * J + s) \div J /\ r = (g * J + s) % J /\ g * J + s = J * q + r
      <3>1. g * J + s \in Int
        BY <1>1
      <3>2. QED
        BY <3>1, <1>2
    <2>2. q = g
      <3>1. CASE q > g
        <4>1. PICK d \in Nat : q = g + 1 + d
          <5>1. q - g - 1 \in Nat /\ q = g + 1 + (q - g - 1)
            BY <3>1
          <5>2. QED
            BY <5>1
        <4>2. J * q = g * J + J + J * d /\ J * d \in Nat
          BY <4>1
        <4>3. QED
          BY <4>2, <2>1
      <3>2. CASE q < g
        <4>1. PICK d \in Nat : g = q + 1 + d
          <5>1. g - q - 1 \in Nat /\ g = q + 1 + (g - q - 1)
            BY <3>2
          <5>2. QED
            BY <5>1
        <4>2. g * J = J * q + J + J * d /\ J * d \in Nat /\ J * q \in Int
          BY <4>1
        <4>3. QED
          BY <4>2, <2>1
      <3>3. QED
        BY <3>1, <3>2
    <2>3. J * g = g * J /\ g * J \in Nat
      BY <1>1
    <2>4. QED
      BY <2>1, <2>2, <2>3
  <1>4. ASSUME NEW h \in Int, NEW k \in Int, h % J = k % J, h \div J = k \div J PROVE h = k
    BY <1>4, <1>2
  <1>5. ASSUME NEW h \in Int, h \div J \in Nat PROVE h >= 0
    <2>1. J * (h \div J) \in Nat
      BY <1>5
    <2>2. QED
      BY <2>1, <1>2
  <1>6. QED
    BY <1>1, <1>2, <1>3, <1>4, <1>5 DEF SlotOf, TxSlots

\* What a sequence is.
LEMMA SeqFacts ==
  ASSUME NEW S, NEW s \in Seq(S)
  PROVE  Len(s) \in Nat /\ DOMAIN s = 1 .. Len(s) /\ \A i \in DOMAIN s : s[i] \in S
  OBVIOUS

\* The types of the parts.
LEMMA TxTypes ==
  ASSUME TxTypeOK
  PROVE  /\ tx.pending \in Nat /\ tx.blocks \in Nat /\ tx.refs \in Seq([block : Nat, name : Nat])
         /\ Len(txDoc) \in Nat /\ DOMAIN txDoc = 1 .. Len(txDoc)
         /\ Len(tx.refs) \in Nat /\ DOMAIN tx.refs = 1 .. Len(tx.refs)
         /\ Len(txLog) \in Nat /\ DOMAIN txLog = 1 .. Len(txLog)
         /\ Len(issued) \in Nat /\ DOMAIN issued = 1 .. Len(issued)
         /\ \A b \in DOMAIN txDoc : txDoc[b] \in TxBlock /\ txDoc[b].by \in Int /\ txDoc[b].parts \in Nat
         /\ \A i \in DOMAIN tx.refs : tx.refs[i].block \in Nat /\ tx.refs[i].name \in Nat
         /\ \A i \in DOMAIN txLog : txLog[i].call \in Nat /\ txLog[i].block \in Nat /\ txLog[i].via \in Int
              /\ txLog[i].lost \in BOOLEAN
         /\ \A k \in DOMAIN issued : issued[k] \in Nat
         /\ \A s \in TxSlots : txJobs[s] \in TxSlot /\ txJobs[s].gen \in Nat /\ txJobs[s].block \in Nat
              /\ txJobs[s].used \in BOOLEAN
         /\ \A f \in TxFibers : txFib[f] \in TxCall /\ txFib[f].h \in Int /\ txFib[f].n \in Nat /\ txFib[f].done \in Nat
                                /\ txFib[f].call \in Nat /\ txFib[f].pc \in TxPcs /\ txFib[f].op \in TxOps
                                     /\ txFib[f].agree \in TxAgrees
         /\ DOMAIN txJobs = TxSlots
  <1>1. tx.pending \in Nat /\ tx.blocks \in Nat /\ tx.refs \in Seq([block : Nat, name : Nat])
    BY DEF TxTypeOK, TxState
  <1>2. /\ Len(tx.refs) \in Nat /\ DOMAIN tx.refs = 1 .. Len(tx.refs)
        /\ \A i \in DOMAIN tx.refs : tx.refs[i] \in [block : Nat, name : Nat]
    BY <1>1, SeqFacts, Zenon
  <1>3. /\ Len(txDoc) \in Nat /\ DOMAIN txDoc = 1 .. Len(txDoc)
        /\ \A b \in DOMAIN txDoc : txDoc[b] \in TxBlock
    BY DEF TxTypeOK
  <1>4. /\ Len(txLog) \in Nat /\ DOMAIN txLog = 1 .. Len(txLog)
        /\ \A b \in DOMAIN txLog : txLog[b] \in TxEntry
    BY DEF TxTypeOK
  <1>5. /\ Len(issued) \in Nat /\ DOMAIN issued = 1 .. Len(issued)
        /\ \A k \in DOMAIN issued : issued[k] \in Nat
    BY DEF TxTypeOK
  <1>6. \A s \in TxSlots : txJobs[s] \in TxSlot
    BY DEF TxTypeOK
  <1>7. \A f \in TxFibers : txFib[f] \in TxCall
    BY DEF TxTypeOK
  <1>8. DOMAIN txJobs = TxSlots
    BY DEF TxTypeOK
  <1>9. \A b \in DOMAIN txDoc : txDoc[b].by \in Int /\ txDoc[b].parts \in Nat
    BY <1>3 DEF TxBlock
  <1>10. \A i \in DOMAIN txLog : txLog[i].call \in Nat /\ txLog[i].block \in Nat /\ txLog[i].via \in Int
           /\ txLog[i].lost \in BOOLEAN
    BY <1>4 DEF TxEntry
  <1>11. \A s \in TxSlots : txJobs[s].gen \in Nat /\ txJobs[s].block \in Nat /\ txJobs[s].used \in BOOLEAN
    BY <1>6 DEF TxSlot
  <1>12. \A f \in TxFibers : txFib[f].h \in Int /\ txFib[f].n \in Nat /\ txFib[f].done \in Nat
           /\ txFib[f].call \in Nat /\ txFib[f].pc \in TxPcs /\ txFib[f].op \in TxOps /\ txFib[f].agree \in TxAgrees
    BY <1>7 DEF TxCall
  <1>13. \A i \in DOMAIN tx.refs : tx.refs[i].block \in Nat /\ tx.refs[i].name \in Nat
    BY <1>2
  <1>14. QED
    BY <1>1, <1>2, <1>3, <1>4, <1>5, <1>6, <1>7, <1>8, <1>9, <1>10, <1>11, <1>12, <1>13

\* Appending to a sequence.
LEMMA AppendFacts ==
  ASSUME NEW S, NEW s \in Seq(S), NEW e \in S
  PROVE  /\ Append(s, e) \in Seq(S) /\ Len(Append(s, e)) = Len(s) + 1 /\ Len(s) \in Nat
         /\ DOMAIN Append(s, e) = 1 .. (Len(s) + 1) /\ DOMAIN s = 1 .. Len(s)
         /\ \A i \in 1 .. Len(s) : Append(s, e)[i] = s[i]
         /\ Append(s, e)[Len(s) + 1] = e
  OBVIOUS

\* The ranks in a sequence that grows: those that were there stay, and the new element's is one more.
LEMMA RankAppend ==
  ASSUME NEW S, NEW s \in Seq(S), NEW e \in S, NEW b
  PROVE  /\ \A i \in 0 .. Len(s) : /\ Rank(s, b, i) \in Nat /\ Rank(s, b, i) <= Rank(s, b, Len(s))
                                   /\ Rank(Append(s, e), b, i) = Rank(s, b, i)
         /\ e.block = b => Rank(Append(s, e), b, Len(s) + 1) = Rank(s, b, Len(s)) + 1
         /\ e.block # b => Rank(Append(s, e), b, Len(s) + 1) = Rank(s, b, Len(s))
  <1> DEFINE t == Append(s, e)  R(i) == {k \in 1 .. i : s[k].block = b}  Q(i) == {k \in 1 .. i : t[k].block = b}
  <1>1. Len(s) \in Nat /\ (\A i \in 1 .. Len(s) : t[i] = s[i]) /\ t[Len(s) + 1] = e
    BY AppendFacts
  <1>2. ASSUME NEW i \in 0 .. Len(s) PROVE IsFiniteSet(R(i)) /\ R(i) \subseteq R(Len(s)) /\ Q(i) = R(i)
    <2>1. i \in Nat /\ 0 \in Int
      BY <1>1
    <2>2. IsFiniteSet(1 .. i)
      BY <2>1, FS_Interval
    <2>3. R(i) \subseteq 1 .. i
      OBVIOUS
    <2>4. IsFiniteSet(R(i))
      BY <2>2, <2>3, FS_Subset
    <2>5. R(i) \subseteq R(Len(s)) /\ Q(i) = R(i)
      BY <1>1
    <2>6. QED
      BY <2>4, <2>5
  <1>3. Len(s) \in 0 .. Len(s)
    BY <1>1
  <1>4. ASSUME NEW i \in 0 .. Len(s)
        PROVE  Cardinality(R(i)) \in Nat /\ Cardinality(R(i)) <= Cardinality(R(Len(s)))
                 /\ Cardinality(Q(i)) = Cardinality(R(i))
    <2>1. IsFiniteSet(R(i)) /\ IsFiniteSet(R(Len(s))) /\ R(i) \subseteq R(Len(s)) /\ Q(i) = R(i)
      BY <1>2, <1>3
    <2>2. Cardinality(R(i)) \in Nat
      BY <2>1, FS_CardinalityType
    <2>3. Cardinality(R(i)) <= Cardinality(R(Len(s)))
      BY <2>1, FS_Subset
    <2>4. QED
      BY <2>1, <2>2, <2>3
  <1>5. ASSUME e.block = b PROVE Cardinality(Q(Len(s) + 1)) = Cardinality(R(Len(s))) + 1
    <2>1. Q(Len(s) + 1) = R(Len(s)) \cup {Len(s) + 1} /\ Len(s) + 1 \notin R(Len(s))
      BY <1>1, <1>5
    <2>2. IsFiniteSet(R(Len(s)))
      BY <1>2, <1>3
    <2>3. QED
      BY <2>1, <2>2, FS_AddElement
  <1>6. ASSUME e.block # b PROVE Q(Len(s) + 1) = R(Len(s))
    BY <1>1, <1>6
  <1>7. QED
    BY <1>4, <1>5, <1>6 DEF Rank

\* A step of one fiber that leaves the document, the jobs, the log and the references alone.
LEMMA FiberStep ==
  ASSUME TxInv, NEW f \in TxFibers, NEW c \in TxCall,
         txFib' = [txFib EXCEPT ![f] = c],
         txDoc' = txDoc, txJobs' = txJobs, txLog' = txLog, issued' = issued,
         tx' \in TxState, tx'.refs = tx.refs, tx'.blocks = tx.blocks,
         txHeld' \in Nat, HeldBounded', txBusy' \in TxFibers \cup {NoFiber}, TurnHeld',
         txCalls' \in Nat, txCalls <= txCalls',
         TxCallHolds(c), InLog(c)',
         c.pc \in UnderWay => \A g \in TxFibers \ {f} : txFib[g].pc \in UnderWay => txFib[g].call # c.call
  PROVE  TxInv'
  <1>1. TxTypeOK /\ txFib \in [TxFibers -> TxCall] /\ txCalls \in Nat
    BY DEF TxInv, TxTypeOK
  <1>2. txFib' \in [TxFibers -> TxCall] /\ txFib'[f] = c /\ \A g \in TxFibers \ {f} : txFib'[g] = txFib[g]
    BY <1>1
  <1>3. TxTypeOK'
    BY <1>1, <1>2 DEF TxTypeOK
  <1>4. HandlesHold'
    BY DEF TxInv, HandlesHold, SlotOf
  <1>5. SlotsHold'
    BY DEF TxInv, SlotsHold, SlotOf, job_of_handle
  <1>6. DocHolds'
    BY DEF TxInv, DocHolds, OneOpenBlock, SlotOf, job_of_handle
  <1>7. LogHolds'
    <2>1. WritesTogether'
      BY DEF TxInv, LogHolds, WritesTogether
    <2>2. \A i \in DOMAIN txLog' : txLog'[i].call <= txCalls'
      <3>1. ASSUME NEW i \in DOMAIN txLog PROVE txLog[i].call <= txCalls'
        <4>1. txLog[i].call \in Nat /\ txLog[i].call <= txCalls
          BY <1>1, TxTypes DEF TxInv, LogHolds
        <4>2. QED
          BY <4>1, <1>1
      <3>2. QED
        BY <3>1
    <2>3. \A g, k \in TxFibers : g # k /\ txFib'[g].pc \in UnderWay
            /\ txFib'[k].pc \in UnderWay => txFib'[g].call # txFib'[k].call
      BY <1>2 DEF TxInv, LogHolds
    <2>4. QED
      BY <2>1, <2>2, <2>3 DEF LogHolds
  <1>8. PicksHold'
    <2>1. \A b : NoRefs(b)' <=> NoRefs(b)
      BY DEF NoRefs
    <2>2. \A b : NameLost(b)' <=> NameLost(b)
      BY DEF NameLost
    <2>3. \A b : Matched(b)' <=> Matched(b)
      BY DEF Matched, Nth, Rank
    <2>4. QED
      BY <2>1, <2>2, <2>3 DEF TxInv, PicksHold
  <1>9. \A g \in TxFibers : TxCallHolds(txFib[g])' /\ InLog(txFib[g])'
    <2>1. TxCallHolds(c)' /\ InLog(c)'
      BY DEF TxCallHolds, Target, OwnBlock, SlotOf, job_of_handle
    <2>2. ASSUME NEW g \in TxFibers \ {f} PROVE TxCallHolds(txFib[g])' /\ InLog(txFib[g])'
      <3>1. PICK d : d = txFib[g] /\ d = txFib'[g] /\ TxCallHolds(d) /\ InLog(d) /\ d.call \in Nat
        BY <1>1, <1>2, TxTypes DEF TxInv
      <3>2. TxCallHolds(d)'
        BY <3>1 DEF TxCallHolds, Target, OwnBlock, SlotOf, job_of_handle
      <3>3. InLog(d)'
        <4>1. d.pc \in UnderWay => d.call <= txCalls'
          BY <3>1, <1>1 DEF InLog
        <4>2. QED
          BY <4>1, <3>1 DEF InLog, Target, OwnBlock, SlotOf
      <3>4. QED
        BY <3>1, <3>2, <3>3
    <2>3. QED
      BY <1>2, <2>1, <2>2
  <1>10. QED
    BY <1>3, <1>4, <1>5, <1>6, <1>7, <1>8, <1>9 DEF TxInv

\* Whoever has the turn keeps it.
LEMMA TurnSame ==
  ASSUME TurnHeld, NEW f \in TxFibers, NEW c, txBusy' = txBusy, txFib \in [TxFibers -> TxCall],
         txFib' = [txFib EXCEPT ![f] = c],
         c.pc \in {"body", "add", "commit", "done"} <=> txFib[f].pc \in {"body", "add", "commit", "done"}
  PROVE  TurnHeld'
  <1>1. txFib'[f] = c /\ \A g \in TxFibers \ {f} : txFib'[g] = txFib[g]
    OBVIOUS
  <1>2. ASSUME NEW g \in TxFibers
        PROVE  (txBusy' = g) <=> txFib'[g].pc \in {"body", "add", "commit", "done"}
    BY <1>1 DEF TurnHeld
  <1>3. QED
    BY <1>2 DEF TurnHeld

\* The fiber with the turn is the only one past its wait.
LEMMA OthersWait ==
  ASSUME TxInv, NEW f \in TxFibers, txFib[f].pc \in {"body", "add", "commit", "done"}
  PROVE  txBusy = f /\ \A g \in TxFibers \ {f} : txFib[g].pc \notin {"body", "add", "commit", "done"}
  BY DEF TxInv, TurnHeld

\* What a call is begun through: a job's handle, or a name of the shell's.
CallFits(op, agree, h) ==
  /\ agree = "link" => op = "emit"
  /\ op \in {"output", "flush", "put", "close"} => h < 0
  /\ op \notin {"output", "flush", "put", "close"} => h >= 0
  /\ op \in {"put", "close"} => OwnBlock(h) \in DOMAIN txDoc /\ txDoc[OwnBlock(h)].by = h

\* A call begins: its number is new, and it has added nothing.
LEMMA FreshCall ==
  ASSUME TxInv, NEW f \in TxFibers, NEW op \in TxOps, NEW n \in Nat, NEW agree \in TxAgrees, NEW h \in Int,
         NEW c, c = [pc |-> "wait", op |-> op, h |-> h, n |-> n, done |-> 0, agree |-> agree,
                     call |-> txCalls + 1, failed |-> FALSE, before |-> <<>>],
         CallFits(op, agree, h),
         txFib[f].pc \notin {"body", "add", "commit", "done"},
         txFib' = [txFib EXCEPT ![f] = c], txCalls' = txCalls + 1,
         txBusy' = txBusy, tx' = tx, txDoc' = txDoc, txHeld' = txHeld, txJobs' = txJobs,
         issued' = issued, txLog' = txLog
  PROVE  TxInv'
  <1>1. TxTypeOK /\ txFib \in [TxFibers -> TxCall] /\ txCalls \in Nat /\ tx \in TxState /\ txHeld \in Nat
        /\ txBusy \in TxFibers \cup {NoFiber} /\ HeldBounded /\ TurnHeld
    BY DEF TxInv, TxTypeOK
  <1>2. c \in TxCall
    <2>1. <<>> \in Seq(TxBlock) /\ txCalls + 1 \in Nat
      BY <1>1
    <2>2. QED
      BY <2>1 DEF TxCall, TxPcs
  <1>3. c.pc = "wait" /\ c.op = op /\ c.h = h /\ c.agree = agree /\ c.call = txCalls + 1
    OBVIOUS
  <1>4. HeldBounded'
    BY <1>1 DEF HeldBounded
  <1>5. TurnHeld'
    BY <1>1, <1>3, TurnSame
  <1>6. TxCallHolds(c)
    BY <1>3 DEF TxCallHolds, CallFits
  <1>7. ASSUME NEW i \in DOMAIN txLog PROVE txLog[i].call # c.call
    <2>1. txLog[i].call \in Nat /\ txLog[i].call <= txCalls
      BY <1>1, TxTypes DEF TxInv, LogHolds
    <2>2. QED
      BY <2>1, <1>1, <1>3
  <1>8. InLog(c)'
    BY <1>1, <1>3, <1>7 DEF InLog
  <1>9. ASSUME NEW g \in TxFibers \ {f}, txFib[g].pc \in UnderWay PROVE txFib[g].call # c.call
    <2>1. txFib[g].call \in Nat /\ txFib[g].call <= txCalls
      BY <1>1, <1>9, TxTypes DEF TxInv, InLog
    <2>2. QED
      BY <2>1, <1>1, <1>3
  <1>10. txCalls' \in Nat /\ txCalls <= txCalls'
    BY <1>1
  <1>11. QED
    BY <1>1, <1>2, <1>4, <1>5, <1>6, <1>8, <1>9, <1>10, FiberStep

\* A fiber that is idle, in its adapter's loop or gone owes nothing.
LEMMA QuietStep ==
  ASSUME TxInv, NEW f \in TxFibers, NEW c \in TxCall, c.pc \in {"idle", "loop", "gone"},
         txFib[f].pc \notin {"body", "add", "commit", "done"},
         txFib' = [txFib EXCEPT ![f] = c], txCalls' \in Nat, txCalls <= txCalls',
         txBusy' = txBusy, tx' = tx, txDoc' = txDoc, txHeld' = txHeld, txJobs' = txJobs,
         issued' = issued, txLog' = txLog
  PROVE  TxInv'
  <1>1. TxTypeOK /\ txFib \in [TxFibers -> TxCall] /\ txCalls \in Nat /\ tx \in TxState /\ txHeld \in Nat
        /\ txBusy \in TxFibers \cup {NoFiber} /\ HeldBounded /\ TurnHeld
    BY DEF TxInv, TxTypeOK
  <1>4. HeldBounded'
    BY <1>1 DEF HeldBounded
  <1>5. TurnHeld'
    BY <1>1, TurnSame
  <1>6. TxCallHolds(c) /\ InLog(c)' /\ c.pc \notin UnderWay
    BY DEF TxCallHolds, InLog, UnderWay
  <1>7. QED
    BY <1>1, <1>4, <1>5, <1>6, FiberStep

\* A call through a job's handle.
LEMMA CallJobStep == ASSUME TxInv, NEW f \in TxFibers, CallJob(f) PROVE TxInv'
  <1>1. PICK h \in ToSet(issued), k \in JobCalls :
          /\ job_of_handle(h)
          /\ txFib' = [txFib EXCEPT ![f] = CallBegun(k, h)]
    BY DEF CallJob
  <1>2. h \in Nat
    <2>1. TxTypeOK
      BY DEF TxInv
    <2>2. PICK i \in DOMAIN issued : h = issued[i]
      BY DEF ToSet
    <2>3. QED
      BY <2>1, <2>2, TxTypes
  <1>3. /\ k.op \in TxOps /\ k.n \in Nat /\ k.agree \in TxAgrees
        /\ k.agree = "link" => k.op = "emit"
        /\ k.op \notin {"output", "flush", "put", "close"}
    <2>1. TxLens \subseteq Nat
      BY TranscriptAssumption DEF TranscriptAssumption
    <2>2. CASE k \in {[op |-> "write", n |-> m, agree |-> "none"] : m \in TxLens}
      BY <2>1, <2>2 DEF TxOps, TxAgrees
    <2>3. CASE k \in {[op |-> "emit", n |-> 1, agree |-> a] : a \in {"own", "link"}}
      BY <2>3 DEF TxOps, TxAgrees
    <2>4. CASE k \in {[op |-> "forward", n |-> 1, agree |-> "piped"]}
      BY <2>4 DEF TxOps, TxAgrees
    <2>5. CASE k \in {[op |-> o, n |-> 0, agree |-> "none"] : o \in {"piped", "end"}}
      BY <2>5 DEF TxOps, TxAgrees
    <2>6. QED
      BY <2>2, <2>3, <2>4, <2>5 DEF JobCalls
  <1>4. PICK op \in TxOps, n \in Nat, agree \in TxAgrees : op = k.op /\ n = k.n /\ agree = k.agree
    BY <1>3
  <1>5. PICK c : c = [pc |-> "wait", op |-> op, h |-> h, n |-> n, done |-> 0, agree |-> agree,
                     call |-> txCalls + 1, failed |-> FALSE, before |-> <<>>]
    OBVIOUS
  <1>6. txFib' = [txFib EXCEPT ![f] = c]
    BY <1>1, <1>4, <1>5 DEF CallBegun
  <1>7. /\ txFib[f].pc \notin {"body", "add", "commit", "done"} /\ txCalls' = txCalls + 1
        /\ txBusy' = txBusy /\ tx' = tx /\ txDoc' = txDoc /\ txHeld' = txHeld /\ txJobs' = txJobs
        /\ issued' = issued /\ txLog' = txLog
    BY DEF CallJob
  <1>8. CallFits(op, agree, h)
    BY <1>2, <1>3, <1>4 DEF CallFits
  <1>9. h \in Int
    BY <1>2
  <1>10. QED
    BY <1>5, <1>6, <1>7, <1>8, <1>9, FreshCall

\* A call of the shell's own.
LEMMA CallShellStep == ASSUME TxInv, NEW f \in TxFibers, CallShell(f) PROVE TxInv'
  <1>0. TxTypeOK
    BY DEF TxInv
  <1>1. PICK k \in ShellCalls \cup BlockCalls, h \in Int :
          /\ k.op \in {"output", "flush", "put", "close"} /\ k.n \in Nat /\ k.agree = "none" /\ h < 0
          /\ k.op \in {"put", "close"} => OwnBlock(h) \in DOMAIN txDoc /\ txDoc[OwnBlock(h)].by = h
          /\ txFib' = [txFib EXCEPT ![f] = CallBegun(k, h)]
    <2>1. CASE \E c \in ShellCalls : txFib' = [txFib EXCEPT ![f] = CallBegun(c, -1)]
      <3>1. PICK k \in ShellCalls : txFib' = [txFib EXCEPT ![f] = CallBegun(k, -1)]
        BY <2>1
      <3>2. k.op \in {"output", "flush"} /\ k.n \in Nat /\ k.agree = "none"
        BY DEF ShellCalls
      <3>3. PICK h \in Int : h = -1 /\ h < 0
        OBVIOUS
      <3>4. QED
        BY <3>1, <3>2, <3>3
    <2>2. CASE \E c \in BlockCalls, b \in DOMAIN txDoc :
                 /\ b <= tx.blocks /\ txDoc[b].by = OwnName(b)
                 /\ txFib' = [txFib EXCEPT ![f] = CallBegun(c, OwnName(b))]
      <3>1. PICK k \in BlockCalls, b \in DOMAIN txDoc :
              txDoc[b].by = OwnName(b) /\ txFib' = [txFib EXCEPT ![f] = CallBegun(k, OwnName(b))]
        BY <2>2
      <3>2. k.op \in {"put", "close"} /\ k.n \in Nat /\ k.agree = "none"
        BY TranscriptAssumption DEF BlockCalls, TranscriptAssumption
      <3>3. b \in Nat /\ b >= 1
        BY <1>0, TxTypes
      <3>4. PICK h \in Int : h = OwnName(b) /\ h < 0 /\ OwnBlock(h) = b
        BY <3>3 DEF OwnName, OwnBlock
      <3>5. QED
        BY <3>1, <3>2, <3>4
    <2>3. QED
      BY <2>1, <2>2 DEF CallShell
  <1>4. PICK op \in TxOps, n \in Nat : op = k.op /\ n = k.n
    BY <1>1 DEF TxOps
  <1>n. PICK agree \in TxAgrees : agree = "none"
    BY DEF TxAgrees
  <1>5. PICK c : c = [pc |-> "wait", op |-> op, h |-> h, n |-> n, done |-> 0, agree |-> agree,
                     call |-> txCalls + 1, failed |-> FALSE, before |-> <<>>]
    OBVIOUS
  <1>6. txFib' = [txFib EXCEPT ![f] = c]
    BY <1>n, <1>1, <1>4, <1>5 DEF CallBegun
  <1>7. /\ txFib[f].pc \notin {"body", "add", "commit", "done"} /\ txCalls' = txCalls + 1
        /\ txBusy' = txBusy /\ tx' = tx /\ txDoc' = txDoc /\ txHeld' = txHeld /\ txJobs' = txJobs
        /\ issued' = issued /\ txLog' = txLog
    BY DEF CallShell
  <1>8. CallFits(op, agree, h)
    BY <1>n, <1>1, <1>4 DEF CallFits
  <1>10. QED
    BY <1>5, <1>6, <1>7, <1>8, FreshCall

\* A screen is a call of its own, unless the job has ended.
LEMMA ScreenStep ==
  ASSUME TxInv, NEW f \in TxFibers, NEW h \in Int, Screen(f, h),
         txFib[f].pc \notin {"body", "add", "commit", "done"}, txCalls' = txCalls + 1,
         txBusy' = txBusy, tx' = tx, txDoc' = txDoc, txHeld' = txHeld, txJobs' = txJobs,
         issued' = issued, txLog' = txLog
  PROVE  TxInv'
  <1>0. TxTypeOK /\ txCalls \in Nat
    BY DEF TxInv, TxTypeOK
  <1>1. CASE job_of_handle(h)
    <2>1. h >= 0
      <3>1. SlotOf(h) \in TxSlots
        BY HandleFacts
      <3>2. h \div JACL_JOBS \in Nat
        BY <1>0, <1>1, <3>1, TxTypes DEF job_of_handle
      <3>3. QED
        BY <3>2, HandleFacts
    <2>0. PICK op \in TxOps, n \in Nat, agree \in TxAgrees : op = "screen" /\ n = 1 /\ agree = "grid"
      BY DEF TxOps, TxAgrees
    <2>2. PICK c : c = [pc |-> "wait", op |-> op, h |-> h, n |-> n, done |-> 0, agree |-> agree,
                       call |-> txCalls + 1, failed |-> FALSE, before |-> <<>>]
      OBVIOUS
    <2>3. txFib' = [txFib EXCEPT ![f] = c]
      BY <1>1, <2>0, <2>2 DEF Screen, CallBegun
    <2>4. CallFits(op, agree, h)
      BY <2>0, <2>1 DEF CallFits
    <2>5. QED
      BY <2>1, <2>2, <2>3, <2>4, FreshCall
  <1>2. CASE ~job_of_handle(h)
    <2>1. PICK c : c = [TxIdle EXCEPT !.pc = "loop", !.h = h, !.failed = TRUE]
      OBVIOUS
    <2>2. txFib' = [txFib EXCEPT ![f] = c]
      BY <1>2, <2>1 DEF Screen
    <2>3. c \in TxCall /\ c.pc = "loop"
      <3>1. c = [pc |-> "loop", op |-> "none", h |-> h, n |-> 0, done |-> 0, agree |-> "none",
                 call |-> 0, failed |-> TRUE, before |-> <<>>]
        BY <2>1 DEF TxIdle
      <3>2. <<>> \in Seq(TxBlock)
        OBVIOUS
      <3>3. QED
        BY <3>1, <3>2 DEF TxCall, TxPcs, TxOps, TxAgrees
    <2>4. txCalls' \in Nat /\ txCalls <= txCalls'
      BY <1>0
    <2>5. QED
      BY <2>2, <2>3, <2>4, QuietStep
  <1>3. QED
    BY <1>1, <1>2

SameCall(c, r) == c.op = r.op /\ c.h = r.h /\ c.n = r.n /\ c.agree = r.agree /\ c.call = r.call

\* What the steps of a call change in its fiber.
LEMMA CallExcept ==
  ASSUME NEW r \in TxCall, NEW p \in TxPcs, NEW d \in Nat, NEW bf \in Seq(TxBlock)
  PROVE  /\ [r EXCEPT !.pc = p] \in TxCall /\ SameCall([r EXCEPT !.pc = p], r) /\ [r EXCEPT !.pc = p].pc = p
         /\ [r EXCEPT !.pc = p, !.failed = TRUE] \in TxCall /\ SameCall([r EXCEPT !.pc = p, !.failed = TRUE], r)
         /\ [r EXCEPT !.pc = p, !.failed = TRUE].pc = p
         /\ [r EXCEPT !.pc = p, !.before = bf] \in TxCall /\ SameCall([r EXCEPT !.pc = p, !.before = bf], r)
         /\ [r EXCEPT !.pc = p, !.before = bf].pc = p
         /\ [r EXCEPT !.done = d, !.pc = p] \in TxCall /\ SameCall([r EXCEPT !.done = d, !.pc = p], r)
         /\ [r EXCEPT !.done = d, !.pc = p].pc = p
  <1>1. [r EXCEPT !.pc = p] \in TxCall /\ SameCall([r EXCEPT !.pc = p], r) /\ [r EXCEPT !.pc = p].pc = p
    BY DEF TxCall, SameCall
  <1>2. [r EXCEPT !.pc = p, !.failed = TRUE] \in TxCall /\ SameCall([r EXCEPT !.pc = p, !.failed = TRUE], r)
         /\ [r EXCEPT !.pc = p, !.failed = TRUE].pc = p
    BY DEF TxCall, SameCall
  <1>3. [r EXCEPT !.pc = p, !.before = bf] \in TxCall /\ SameCall([r EXCEPT !.pc = p, !.before = bf], r)
         /\ [r EXCEPT !.pc = p, !.before = bf].pc = p
    BY DEF TxCall, SameCall
  <1>4. [r EXCEPT !.done = d, !.pc = p] \in TxCall /\ SameCall([r EXCEPT !.done = d, !.pc = p], r)
         /\ [r EXCEPT !.done = d, !.pc = p].pc = p
    BY DEF TxCall, SameCall
  <1>5. QED
    BY <1>1, <1>2, <1>3, <1>4

\* What a step under the turn may rely on.
LEMMA TurnTypes ==
  ASSUME TxInv
  PROVE  /\ TxTypeOK /\ txFib \in [TxFibers -> TxCall] /\ txCalls \in Nat /\ tx \in TxState /\ txHeld \in Nat
         /\ txBusy \in TxFibers \cup {NoFiber} /\ HeldBounded /\ TurnHeld
         /\ txDoc \in Seq(TxBlock) /\ txLog \in Seq(TxEntry) /\ txJobs \in [TxSlots -> TxSlot]
         /\ \A f \in TxFibers : txFib[f] \in TxCall /\ TxCallHolds(txFib[f]) /\ InLog(txFib[f])
  BY DEF TxInv, TxTypeOK

\* A step of a call that keeps the turn and only moves on.
LEMMA MoveOn ==
  ASSUME TxInv, NEW f \in TxFibers, NEW c \in TxCall, txFib' = [txFib EXCEPT ![f] = c],
         SameCall(c, txFib[f]), txFib[f].pc \in {"body", "add", "commit"}, c.pc \in {"body", "add", "commit", "done"},
         c.pc \in {"add", "commit"} => TxCallHolds(c), c.pc # "body",
         txBusy' = txBusy, txDoc' = txDoc, txJobs' = txJobs, issued' = issued, txLog' = txLog, txCalls' = txCalls,
         tx' \in TxState, tx'.refs = tx.refs, tx'.blocks = tx.blocks, txHeld' \in Nat, HeldBounded'
  PROVE  TxInv'
  <1>1. /\ TxTypeOK /\ txFib \in [TxFibers -> TxCall] /\ txCalls \in Nat
        /\ txBusy \in TxFibers \cup {NoFiber} /\ TurnHeld
        /\ TxCallHolds(txFib[f]) /\ InLog(txFib[f])
    BY TurnTypes
  <1>2. TurnHeld'
    BY <1>1, TurnSame
  <1>3. TxCallHolds(c)
    BY DEF TxCallHolds
  <1>4. InLog(c)'
    <2>1. InLog(c)
      BY <1>1 DEF InLog, SameCall, Target, OwnBlock, UnderWay
    <2>2. QED
      BY <2>1 DEF InLog, Target, OwnBlock, SlotOf
  <1>5. ASSUME NEW g \in TxFibers \ {f}, txFib[g].pc \in UnderWay PROVE txFib[g].call # c.call
    BY <1>5 DEF TxInv, LogHolds, SameCall, UnderWay
  <1>6. txCalls' \in Nat /\ txCalls <= txCalls'
    BY <1>1
  <1>7. QED
    BY <1>1, <1>2, <1>3, <1>4, <1>5, <1>6, FiberStep

\* The turn is taken by one fiber, whose handle still names its job if it goes on.
LEMMA WaitStep == ASSUME TxInv, NEW f \in TxFibers, transcript_wait(f) PROVE TxInv'
  <1>1. /\ TxTypeOK /\ txFib \in [TxFibers -> TxCall] /\ txCalls \in Nat /\ txDoc \in Seq(TxBlock)
             /\ tx \in TxState /\ txHeld \in Nat
        /\ HeldBounded /\ TurnHeld /\ txFib[f] \in TxCall
        /\ TxCallHolds(txFib[f]) /\ InLog(txFib[f])
    BY TurnTypes
  <1>2. /\ txFib[f].pc = "wait" /\ txBusy = NoFiber /\ txBusy' = f /\ tx' = tx /\ txDoc' = txDoc /\ txHeld' = txHeld
        /\ txJobs' = txJobs /\ issued' = issued /\ txLog' = txLog /\ txCalls' = txCalls
    BY DEF transcript_wait
  <1>3. PICK p \in TxPcs : p = IF StillNamed(txFib[f].h) THEN "body" ELSE "done"
    BY DEF TxPcs
  <1>4. PICK c : c = [txFib[f] EXCEPT !.pc = p, !.before = txDoc]
    OBVIOUS
  <1>5. c \in TxCall /\ SameCall(c, txFib[f]) /\ c.pc = p
    BY <1>1, <1>4, CallExcept
  <1>6. txFib' = [txFib EXCEPT ![f] = c]
    BY <1>1, <1>3, <1>4 DEF transcript_wait
  <1>7. TurnHeld'
    <2>1. txFib'[f] = c /\ \A g \in TxFibers \ {f} : txFib'[g] = txFib[g]
      BY <1>1, <1>6
    <2>2. \A g \in TxFibers : txFib[g].pc \notin {"body", "add", "commit", "done"}
      BY <1>1, <1>2, TranscriptAssumption DEF TurnHeld, TranscriptAssumption
    <2>3. ASSUME NEW g \in TxFibers PROVE (txBusy' = g) <=> txFib'[g].pc \in {"body", "add", "commit", "done"}
      BY <2>1, <2>2, <1>2, <1>3, <1>5
    <2>4. QED
      BY <2>3 DEF TurnHeld
  <1>8. TxCallHolds(c)
    BY <1>1, <1>2, <1>3, <1>5 DEF TxCallHolds, SameCall, StillNamed
  <1>9. InLog(c)'
    BY <1>1, <1>2, <1>3, <1>5 DEF InLog, SameCall, UnderWay
  <1>10. ASSUME NEW g \in TxFibers \ {f}, txFib[g].pc \in UnderWay PROVE txFib[g].call # c.call
    BY <1>2, <1>5, <1>10 DEF TxInv, LogHolds, SameCall, UnderWay
  <1>11. HeldBounded' /\ txCalls' \in Nat /\ txCalls <= txCalls'
    BY <1>1, <1>2 DEF HeldBounded
  <1>12. QED
    BY <1>1, <1>2, <1>5, <1>6, <1>7, <1>8, <1>9, <1>10, <1>11, FiberStep

\* The turn is given back.
LEMMA DoneStep == ASSUME TxInv, NEW f \in TxFibers, transcript_done(f) PROVE TxInv'
  <1>1. /\ TxTypeOK /\ txFib \in [TxFibers -> TxCall] /\ txCalls \in Nat /\ txDoc \in Seq(TxBlock)
             /\ tx \in TxState /\ txHeld \in Nat
        /\ HeldBounded /\ TurnHeld /\ txFib[f] \in TxCall
    BY TurnTypes
  <1>2. /\ txFib[f].pc = "done" /\ txBusy' = NoFiber /\ tx' = tx /\ txDoc' = txDoc /\ txHeld' = txHeld
        /\ txJobs' = txJobs /\ issued' = issued /\ txLog' = txLog /\ txCalls' = txCalls
    BY DEF transcript_done
  <1>3. PICK c : c = IF adapter[f] = "running"
                     THEN [TxIdle EXCEPT !.pc = "loop", !.h = txFib[f].h, !.failed = txFib[f].failed]
                     ELSE TxIdle
    OBVIOUS
  <1>4. c \in TxCall /\ c.pc \in {"idle", "loop"}
    <2>1. txFib[f].h \in Int /\ txFib[f].failed \in BOOLEAN /\ <<>> \in Seq(TxBlock)
      BY <1>1 DEF TxCall
    <2>2. CASE adapter[f] = "running"
      <3>1. c = [pc |-> "loop", op |-> "none", h |-> txFib[f].h, n |-> 0, done |-> 0, agree |-> "none",
                 call |-> 0, failed |-> txFib[f].failed, before |-> <<>>]
        BY <1>3, <2>2 DEF TxIdle
      <3>2. QED
        BY <3>1, <2>1 DEF TxCall, TxPcs, TxOps, TxAgrees
    <2>3. CASE adapter[f] # "running"
      BY <1>3, <2>1, <2>3 DEF TxIdle, TxCall, TxPcs, TxOps, TxAgrees
    <2>4. QED
      BY <2>2, <2>3
  <1>6. txFib' = [txFib EXCEPT ![f] = c]
    BY <1>3 DEF transcript_done
  <1>7. TurnHeld'
    <2>1. txFib'[f] = c /\ \A g \in TxFibers \ {f} : txFib'[g] = txFib[g]
      BY <1>1, <1>6
    <2>2. \A g \in TxFibers \ {f} : txFib[g].pc \notin {"body", "add", "commit", "done"}
      BY <1>2, OthersWait
    <2>3. ASSUME NEW g \in TxFibers PROVE (txBusy' = g) <=> txFib'[g].pc \in {"body", "add", "commit", "done"}
      BY <2>1, <2>2, <1>2, <1>4, TranscriptAssumption DEF TranscriptAssumption
    <2>4. QED
      BY <2>3 DEF TurnHeld
  <1>8. TxCallHolds(c) /\ InLog(c)' /\ c.pc \notin UnderWay
    BY <1>4 DEF TxCallHolds, InLog, UnderWay
  <1>11. HeldBounded' /\ txCalls' \in Nat /\ txCalls <= txCalls'
    BY <1>1, <1>2 DEF HeldBounded
  <1>12. QED
    BY <1>1, <1>2, <1>4, <1>6, <1>7, <1>8, <1>11, FiberStep

\* A cancelled wait, and the adapter's loop.
LEMMA QuietSteps ==
  ASSUME TxInv, NEW f \in TxFibers, CtlPoint(f) \/ LegacyClose(f) \/ LegacyCancel(f)
  PROVE  TxInv'
  <1>1. txFib \in [TxFibers -> TxCall] /\ txCalls \in Nat /\ txFib[f] \in TxCall
    BY TurnTypes
  <1>2. /\ txBusy' = txBusy /\ tx' = tx /\ txDoc' = txDoc /\ txHeld' = txHeld
        /\ txJobs' = txJobs /\ issued' = issued /\ txLog' = txLog /\ txCalls' = txCalls
        /\ txFib[f].pc \in {"wait", "loop"}
    BY DEF CtlPoint, LegacyClose, LegacyCancel
  <1>3. \E c \in TxCall : c.pc \in {"idle", "gone"} /\ txFib' = [txFib EXCEPT ![f] = c]
    <2>1. CASE CtlPoint(f) \/ LegacyCancel(f)
      <3>1. txFib' = [txFib EXCEPT ![f] = [txFib[f] EXCEPT !.pc = "gone"]]
        BY <1>1, <2>1 DEF CtlPoint, LegacyCancel
      <3>2. "gone" \in TxPcs /\ txDoc \in Seq(TxBlock)
        BY TurnTypes DEF TxPcs
      <3>3. [txFib[f] EXCEPT !.pc = "gone"] \in TxCall /\ [txFib[f] EXCEPT !.pc = "gone"].pc = "gone"
        BY <3>2, <1>1, CallExcept
      <3>4. QED
        BY <3>1, <3>3
    <2>2. CASE LegacyClose(f)
      <3>1. TxIdle \in TxCall /\ TxIdle.pc = "idle"
        <4>1. <<>> \in Seq(TxBlock)
          OBVIOUS
        <4>2. QED
          BY <4>1 DEF TxIdle, TxCall, TxPcs, TxOps, TxAgrees
      <3>2. QED
        BY <3>1, <2>2 DEF LegacyClose
    <2>3. QED
      BY <2>1, <2>2
  <1>4. txCalls' \in Nat /\ txCalls <= txCalls'
    BY <1>1, <1>2
  <1>5. QED
    BY <1>2, <1>3, <1>4, QuietStep

\* The adapter's screens.
LEMMA LegacySteps ==
  ASSUME TxInv, NEW f \in TxFibers, jacl_legacy_job(f) \/ LegacyScreen(f)
  PROVE  TxInv'
  <1>1. /\ txBusy' = txBusy /\ tx' = tx /\ txDoc' = txDoc /\ txHeld' = txHeld
        /\ txJobs' = txJobs /\ issued' = issued /\ txLog' = txLog /\ txCalls' = txCalls + 1
        /\ txFib[f].pc \in {"idle", "loop"}
    BY DEF jacl_legacy_job, LegacyScreen
  <1>2. \E h \in Int : Screen(f, h)
    <2>0. TxTypeOK
      BY TurnTypes
    <2>1. CASE jacl_legacy_job(f)
      <3>1. PICK h \in ToSet(issued) : Screen(f, h)
        BY <2>1 DEF jacl_legacy_job
      <3>2. h \in Nat
        BY <2>0, TxTypes DEF ToSet
      <3>3. QED
        BY <3>1, <3>2
    <2>2. CASE LegacyScreen(f)
      BY <2>0, <2>2, TxTypes DEF LegacyScreen
    <2>3. QED
      BY <2>1, <2>2
  <1>3. QED
    BY <1>1, <1>2, ScreenStep

\* A cancel, and a step of another component.
LEMMA StillStep ==
  ASSUME TxInv, txBusy' = txBusy, tx' = tx, txDoc' = txDoc, txHeld' = txHeld, txJobs' = txJobs, txFib' = txFib,
         issued' = issued, txLog' = txLog, txCalls' = txCalls
  PROVE  TxInv'
  <1>1. TxTypeOK' /\ HandlesHold' /\ SlotsHold' /\ HeldBounded' /\ TurnHeld'
    BY DEF TxInv, TxTypeOK, HandlesHold, SlotsHold, HeldBounded, TurnHeld, SlotOf, job_of_handle
  <1>2. DocHolds' /\ LogHolds'
    BY DEF TxInv, DocHolds, OneOpenBlock, LogHolds, WritesTogether, SlotOf, job_of_handle
  <1>3. PicksHold'
    <2>1. \A b : NoRefs(b)' <=> NoRefs(b)
      BY DEF NoRefs
    <2>2. \A b : NameLost(b)' <=> NameLost(b)
      BY DEF NameLost
    <2>3. \A b : Matched(b)' <=> Matched(b)
      BY DEF Matched, Nth, Rank
    <2>4. QED
      BY <2>1, <2>2, <2>3 DEF TxInv, PicksHold
  <1>4. ASSUME NEW f \in TxFibers PROVE TxCallHolds(txFib[f])' /\ InLog(txFib[f])'
    BY DEF TxInv, TxCallHolds, InLog, Target, OwnBlock, SlotOf, job_of_handle
  <1>5. QED
    BY <1>1, <1>2, <1>3, <1>4 DEF TxInv

\* A flush goes to the commit.
LEMMA FlushStep == ASSUME TxInv, NEW f \in TxFibers, jacl_transcript_flush(f) PROVE TxInv'
  <1>1. /\ txFib \in [TxFibers -> TxCall] /\ txFib[f] \in TxCall /\ tx \in TxState /\ txHeld \in Nat /\ HeldBounded
        /\ TxCallHolds(txFib[f]) /\ txDoc \in Seq(TxBlock)
    BY TurnTypes
  <1>2. /\ txBusy' = txBusy /\ tx' = tx /\ txDoc' = txDoc /\ txHeld' = txHeld
        /\ txJobs' = txJobs /\ issued' = issued /\ txLog' = txLog /\ txCalls' = txCalls
        /\ txFib[f].pc = "body" /\ txFib[f].op = "flush"
    BY DEF jacl_transcript_flush
  <1>3. PICK c : c = [txFib[f] EXCEPT !.pc = "commit"]
    OBVIOUS
  <1>4. "commit" \in TxPcs
    BY DEF TxPcs
  <1>5. c \in TxCall /\ SameCall(c, txFib[f]) /\ c.pc = "commit"
    BY <1>1, <1>3, <1>4, CallExcept
  <1>6. txFib' = [txFib EXCEPT ![f] = c]
    BY <1>1, <1>3 DEF jacl_transcript_flush
  <1>7. TxCallHolds(c)
    BY <1>1, <1>2, <1>5 DEF TxCallHolds, SameCall
  <1>8. HeldBounded'
    BY <1>1, <1>2 DEF HeldBounded
  <1>9. QED
    BY <1>1, <1>2, <1>5, <1>6, <1>7, <1>8, MoveOn

\* The store answers: what it carried is no longer held, or the call fails.
LEMMA CommitStep == ASSUME TxInv, NEW f \in TxFibers, transcript_commit(f) PROVE TxInv'
  <1>1. /\ txFib \in [TxFibers -> TxCall] /\ txFib[f] \in TxCall /\ tx \in TxState /\ txHeld \in Nat /\ HeldBounded
        /\ TxCallHolds(txFib[f]) /\ txDoc \in Seq(TxBlock)
    BY TurnTypes
  <1>2. /\ txBusy' = txBusy /\ txDoc' = txDoc
        /\ txJobs' = txJobs /\ issued' = issued /\ txLog' = txLog /\ txCalls' = txCalls
        /\ txFib[f].pc = "commit"
    BY DEF transcript_commit
  <1>3. CASE /\ txHeld' = 0 /\ tx' = [tx EXCEPT !.pending = 0]
             /\ txFib' = [txFib EXCEPT ![f].pc = IF txFib[f].op \in {"flush", "screen"} THEN "done" ELSE "add"]
    <2>1. PICK p \in TxPcs : p = IF txFib[f].op \in {"flush", "screen"} THEN "done" ELSE "add"
      BY DEF TxPcs
    <2>2. PICK c : c = [txFib[f] EXCEPT !.pc = p]
      OBVIOUS
    <2>3. c \in TxCall /\ SameCall(c, txFib[f]) /\ c.pc = p
      BY <1>1, <2>2, CallExcept
    <2>4. txFib' = [txFib EXCEPT ![f] = c]
      BY <1>1, <1>3, <2>1, <2>2
    <2>5. TxCallHolds(c)
      BY <1>1, <1>2, <2>1, <2>3 DEF TxCallHolds, SameCall, Target, OwnBlock
    <2>6. tx' \in TxState /\ tx'.refs = tx.refs /\ tx'.blocks = tx.blocks /\ tx'.pending = 0 /\ txHeld' \in Nat
      BY <1>1, <1>3 DEF TxState
    <2>7. HeldBounded'
      BY <1>3, <2>6, TranscriptAssumption DEF HeldBounded, TranscriptAssumption
    <2>8. QED
      BY <1>2, <2>1, <2>3, <2>4, <2>5, <2>6, <2>7, MoveOn
  <1>4. CASE /\ txFib' = [txFib EXCEPT ![f].pc = "done", ![f].failed = TRUE]
             /\ UNCHANGED <<txHeld, tx>>
    <2>1. "done" \in TxPcs
      BY DEF TxPcs
    <2>2. PICK c : c = [txFib[f] EXCEPT !.pc = "done", !.failed = TRUE]
      OBVIOUS
    <2>3. c \in TxCall /\ SameCall(c, txFib[f]) /\ c.pc = "done"
      BY <1>1, <2>1, <2>2, CallExcept
    <2>4. txFib' = [txFib EXCEPT ![f] = c]
      BY <1>1, <1>4, <2>2
    <2>5. tx' \in TxState /\ txHeld' \in Nat /\ HeldBounded' /\ tx'.refs = tx.refs /\ tx'.blocks = tx.blocks
      BY <1>1, <1>4 DEF HeldBounded
    <2>6. QED
      BY <1>2, <2>3, <2>4, <2>5, MoveOn
  <1>5. QED
    BY <1>3, <1>4 DEF transcript_commit

\* A block that nothing refers to and nothing was added to yet.
LEMMA NewBlock ==
  ASSUME TxInv, NEW b \in Nat, b \notin DOMAIN txDoc
  PROVE  NoRefs(b) /\ Matched(b)
  <1>1. (\A i \in DOMAIN tx.refs : tx.refs[i].block # b) /\ (\A i \in DOMAIN txLog : txLog[i].block # b)
    BY DEF TxInv, DocHolds
  <1>2. TxTypeOK
    BY DEF TxInv
  <1>3. DOMAIN tx.refs = 1 .. Len(tx.refs) /\ DOMAIN txLog = 1 .. Len(txLog)
    BY <1>2, TxTypes
  <1>4. {k \in 1 .. Len(tx.refs) : tx.refs[k].block = b} = {k \in 1 .. Len(txLog) : txLog[k].block = b}
    BY <1>1, <1>3
  <1>5. Rank(tx.refs, b, Len(tx.refs)) = Rank(txLog, b, Len(txLog))
    BY <1>4, Zenon DEF Rank
  <1>6. QED
    BY <1>1, <1>5 DEF NoRefs, Matched

\* A step under the turn that opens or ends blocks, and adds nothing to any.
LEMMA DocStep ==
  ASSUME TxInv, NEW f \in TxFibers, NEW c \in TxCall, txFib' = [txFib EXCEPT ![f] = c],
         SameCall(c, txFib[f]), txFib[f].pc = "body", c.pc \in {"add", "done"},
         txBusy' = txBusy, txHeld' = txHeld, issued' = issued, txLog' = txLog, txCalls' = txCalls,
         tx' \in TxState, tx'.refs = tx.refs, tx'.pending = tx.pending,
         txDoc' \in Seq(TxBlock), Len(txDoc) <= Len(txDoc'),
         \A b \in DOMAIN txDoc : txDoc'[b].by = txDoc[b].by,
         txJobs' \in [TxSlots -> TxSlot], HandlesHold', SlotsHold', tx'.blocks <= Len(txDoc'), OneOpenBlock',
         TxCallHolds(c)',
         \A s \in TxSlots : txJobs'[s].block # TxNoBlock =>
            \/ txJobs'[s].block = txJobs[s].block /\ txJobs'[s].agree = txJobs[s].agree
            \/ txJobs'[s].block \notin DOMAIN txDoc
  PROVE  TxInv'
  <1>1. /\ TxTypeOK /\ txFib \in [TxFibers -> TxCall] /\ txCalls \in Nat /\ TurnHeld /\ HeldBounded
        /\ txDoc \in Seq(TxBlock) /\ InLog(txFib[f])
    BY TurnTypes
  <1>2. txFib' \in [TxFibers -> TxCall] /\ txFib'[f] = c /\ \A g \in TxFibers \ {f} : txFib'[g] = txFib[g]
    BY <1>1
  <1>3. TxTypeOK'
    BY <1>1, <1>2 DEF TxTypeOK
  <1>4. TurnHeld'
    BY <1>1, TurnSame
  <1>5. HeldBounded'
    BY <1>1 DEF HeldBounded
  <1>6. DOMAIN txDoc = 1 .. Len(txDoc) /\ DOMAIN txDoc' = 1 .. Len(txDoc') /\ Len(txDoc) \in Nat /\ Len(txDoc') \in Nat
    BY <1>1, <1>3, SeqFacts DEF TxTypeOK
  <1>7. DOMAIN txDoc \subseteq DOMAIN txDoc'
    BY <1>6
  <1>8. DocHolds'
    BY <1>7 DEF TxInv, DocHolds
  <1>9. LogHolds'
    <2>1. WritesTogether'
      BY DEF TxInv, LogHolds, WritesTogether
    <2>2. \A i \in DOMAIN txLog' : txLog'[i].call <= txCalls'
      BY DEF TxInv, LogHolds
    <2>3. \A g, k \in TxFibers : g # k /\ txFib'[g].pc \in UnderWay
            /\ txFib'[k].pc \in UnderWay => txFib'[g].call # txFib'[k].call
      <3>1. \A g \in TxFibers : txFib'[g].call = txFib[g].call
              /\ (txFib'[g].pc \in UnderWay => txFib[g].pc \in UnderWay)
        BY <1>2 DEF SameCall, UnderWay
      <3>2. QED
        BY <3>1 DEF TxInv, LogHolds
    <2>4. QED
      BY <2>1, <2>2, <2>3 DEF LogHolds
  <1>10. PicksHold'
    <2>1. \A b : NoRefs(b)' <=> NoRefs(b)
      BY DEF NoRefs
    <2>2. \A b : NameLost(b)' <=> NameLost(b)
      BY DEF NameLost
    <2>3. \A b : Matched(b)' <=> Matched(b)
      BY DEF Matched, Nth, Rank
    <2>4. \A b \in DOMAIN txDoc' \ DOMAIN txDoc : NoRefs(b) /\ Matched(b)
      BY <1>6, NewBlock
    <2>5. ASSUME NEW b \in DOMAIN txDoc'
          PROVE  (NoRefs(b)' \/ NameLost(b)' \/ Matched(b)') /\ (txDoc'[b].by < 0 => NoRefs(b)')
      BY <2>1, <2>2, <2>3, <2>4 DEF TxInv, PicksHold
    <2>6. ASSUME NEW s \in TxSlots, NEW j, j = txJobs'[s], j.block # TxNoBlock
          PROVE  IF j.agree = "link" THEN NameLost(j.block)' \/ Matched(j.block)' ELSE NoRefs(j.block)'
      <3>1. CASE txJobs'[s].block = txJobs[s].block /\ txJobs'[s].agree = txJobs[s].agree
        BY <3>1, <2>6, <2>1, <2>2, <2>3 DEF TxInv, PicksHold
      <3>2. CASE txJobs'[s].block \notin DOMAIN txDoc
        <4>1. j.block \in DOMAIN txDoc'
          BY <2>6 DEF SlotsHold
        <4>2. QED
          BY <4>1, <3>2, <2>6, <2>4, <2>1, <2>3
      <3>3. QED
        BY <2>6, <3>1, <3>2
    <2>7. QED
      BY <2>5, <2>6 DEF PicksHold
  <1>11. ASSUME NEW g \in TxFibers PROVE TxCallHolds(txFib[g])' /\ InLog(txFib[g])'
    <2>1. CASE g = f
      <3>1. InLog(c)'
        BY <1>1 DEF InLog, SameCall, UnderWay
      <3>2. QED
        BY <3>1, <2>1, <1>2
    <2>2. CASE g # f
      <3>1. txFib[g].pc \notin {"body", "add", "commit", "done"} /\ txFib'[g] = txFib[g]
        BY <2>2, <1>2, OthersWait
      <3>2. TxCallHolds(txFib[g]) /\ InLog(txFib[g])
        BY TurnTypes
      <3>3. PICK d : d = txFib[g] /\ d = txFib'[g]
        BY <3>1
      <3>4. TxCallHolds(d)' /\ InLog(d)'
        BY <3>1, <3>2, <3>3, <1>7 DEF TxCallHolds, InLog, OwnBlock
      <3>5. QED
        BY <3>3, <3>4
    <2>3. QED
      BY <2>1, <2>2
  <1>12. QED
    BY <1>3, <1>4, <1>5, <1>8, <1>9, <1>10, <1>11 DEF TxInv

\* Ending a block changes its state only.
LEMMA EndedFacts ==
  ASSUME txDoc \in Seq(TxBlock), NEW b, b = TxNoBlock \/ b \in DOMAIN txDoc, NEW how \in TxStates,
           NEW d, d = BlockEnded(txDoc, b, how)
  PROVE  /\ d \in Seq(TxBlock) /\ Len(d) = Len(txDoc) /\ DOMAIN d = DOMAIN txDoc
         /\ \A k \in DOMAIN txDoc : d[k].by = txDoc[k].by
         /\ \A k \in DOMAIN txDoc : k # b => d[k] = txDoc[k]
         /\ b # TxNoBlock => d[b].state = how
  <1>1. CASE b = TxNoBlock
    BY <1>1 DEF BlockEnded, TxNoBlock
  <1>2. CASE b # TxNoBlock
    <2>1. d = [txDoc EXCEPT ![b].state = how] /\ b \in DOMAIN txDoc
      BY <1>2 DEF BlockEnded
    <2>2. txDoc[b] \in TxBlock
      BY <2>1, SeqFacts
    <2>3. PICK e : e = [txDoc[b] EXCEPT !.state = how]
      OBVIOUS
    <2>4. e \in TxBlock /\ e.by = txDoc[b].by /\ e.state = how
      BY <2>2, <2>3 DEF TxBlock
    <2>5. d = [txDoc EXCEPT ![b] = e]
      BY <2>1, <2>3
    <2>6. d \in Seq(TxBlock) /\ Len(d) = Len(txDoc) /\ DOMAIN d = DOMAIN txDoc
      BY <2>1, <2>4, <2>5
    <2>7. d[b] = e /\ \A k \in DOMAIN txDoc : k # b => d[k] = txDoc[k]
      BY <2>1, <2>5
    <2>8. QED
      BY <2>4, <2>6, <2>7
  <1>3. QED
    BY <1>1, <1>2

\* The block a slot records is noted nowhere else, and no other open block is of its handles.
LEMMA SlotBlock ==
  ASSUME TxInv, NEW s \in TxSlots
  PROVE  /\ txJobs[s].block = TxNoBlock \/ txJobs[s].block \in DOMAIN txDoc
         /\ \A t \in TxSlots : t # s /\ txJobs[t].block # TxNoBlock => txJobs[t].block # txJobs[s].block
         /\ tx.blocks = Len(txDoc) =>
              \A b \in DOMAIN txDoc : txDoc[b].state = "open" /\ txDoc[b].by >= 0 /\ SlotOf(txDoc[b].by) = s =>
                b = txJobs[s].block
  BY DEF TxInv, SlotsHold, DocHolds, OneOpenBlock

\* The open block of slot s is ended and the slot records none.
LEMMA EndOpen ==
  ASSUME TxInv, NEW s \in TxSlots, NEW how \in TxStates \ {"open"},
         txDoc' = BlockEnded(txDoc, txJobs[s].block, how), tx'.blocks = tx.blocks,
         txJobs' \in [TxSlots -> TxSlot], txJobs'[s].block = TxNoBlock,
         \A t \in TxSlots : t # s => txJobs'[t] = txJobs[t]
  PROVE  /\ txDoc' \in Seq(TxBlock) /\ Len(txDoc') = Len(txDoc) /\ DOMAIN txDoc' = DOMAIN txDoc /\ Len(txDoc) \in Nat
         /\ \A b \in DOMAIN txDoc : txDoc'[b].by = txDoc[b].by
         /\ SlotsHold' /\ OneOpenBlock' /\ tx'.blocks <= Len(txDoc')
         /\ \A t \in TxSlots : txJobs'[t].block # TxNoBlock => txJobs'[t] = txJobs[t]
  <1>1. PICK o : o = txJobs[s].block
    OBVIOUS
  <1>2. /\ o = TxNoBlock \/ o \in DOMAIN txDoc
        /\ \A t \in TxSlots : t # s /\ txJobs[t].block # TxNoBlock => txJobs[t].block # o
        /\ tx.blocks = Len(txDoc) =>
              \A b \in DOMAIN txDoc : txDoc[b].state = "open" /\ txDoc[b].by >= 0 /\ SlotOf(txDoc[b].by) = s => b = o
    BY <1>1, SlotBlock
  <1>3. txDoc \in Seq(TxBlock) /\ TxTypeOK
    BY TurnTypes
  <1>4. /\ txDoc' \in Seq(TxBlock) /\ Len(txDoc') = Len(txDoc) /\ DOMAIN txDoc' = DOMAIN txDoc
        /\ \A k \in DOMAIN txDoc : txDoc'[k].by = txDoc[k].by
        /\ \A k \in DOMAIN txDoc : k # o => txDoc'[k] = txDoc[k]
        /\ o # TxNoBlock => txDoc'[o].state = how
    <2>1. PICK w \in TxStates : w = how
      OBVIOUS
    <2>2. PICK d : d = BlockEnded(txDoc, o, w)
      OBVIOUS
    <2>3. o = TxNoBlock \/ o \in DOMAIN txDoc
      BY <1>2
    <2>4. txDoc \in Seq(TxBlock)
      BY <1>3
    <2>5. d \in Seq(TxBlock) /\ Len(d) = Len(txDoc) /\ DOMAIN d = DOMAIN txDoc
      BY <2>2, <2>3, <2>4, EndedFacts, Zenon
    <2>6. ASSUME NEW k \in DOMAIN txDoc, k # o PROVE d[k] = txDoc[k]
      BY <2>6, <2>2, <2>3, <2>4 DEF BlockEnded
    <2>7. ASSUME NEW k \in DOMAIN txDoc PROVE d[k].by = txDoc[k].by
      <3>1. CASE k # o
        BY <3>1, <2>6
      <3>2. CASE k = o /\ o # TxNoBlock
        <4>1. d = [txDoc EXCEPT ![o].state = w]
          BY <2>2, <3>2 DEF BlockEnded
        <4>2. d[o] = [txDoc[o] EXCEPT !.state = w]
          BY <2>4, <3>2, <4>1
        <4>3. txDoc[o] \in TxBlock
          BY <2>4, <3>2, SeqFacts
        <4>4. QED
          BY <3>2, <4>2, <4>3 DEF TxBlock
      <3>3. CASE k = o /\ o = TxNoBlock
        BY <2>2, <3>3 DEF BlockEnded
      <3>4. QED
        BY <3>1, <3>2, <3>3
    <2>8. o # TxNoBlock => d[o].state = w
      BY <2>2, <2>3, <2>4, EndedFacts, Zenon
    <2>9. txDoc' = d
      BY <1>1, <2>1, <2>2
    <2>10. QED
      BY <2>1, <2>5, <2>6, <2>7, <2>8, <2>9
  <1>5. /\ \A k \in DOMAIN txDoc : txDoc[k].by \in Int /\ SlotOf(txDoc[k].by) \in TxSlots
        /\ \A k \in DOMAIN txDoc : k # TxNoBlock
    <2>1. DOMAIN txDoc = 1 .. Len(txDoc) /\ \A k \in DOMAIN txDoc : txDoc[k].by \in Int
      BY <1>3, TxTypes
    <2>2. \A k \in DOMAIN txDoc : k # TxNoBlock
      BY <2>1 DEF TxNoBlock
    <2>3. \A x \in Int : SlotOf(x) \in TxSlots
      BY HandleFacts
    <2>4. QED
      BY <2>1, <2>2, <2>3
  <1>6. \A x \in Int : SlotOf(x) # s => (Names(txJobs', x) <=> Names(txJobs, x))
    BY HandleFacts DEF Names
  <1>7. SlotsHold'
    <2>1. ASSUME NEW t \in TxSlots, txJobs'[t].block # TxNoBlock
          PROVE  LET j == txJobs'[t]
                 IN  /\ j.used /\ j.block \in DOMAIN txDoc'
                     /\ txDoc'[j.block].state = "open"
                     /\ txDoc'[j.block].by >= 0 /\ SlotOf(txDoc'[j.block].by) = t /\ Names(txJobs', txDoc'[j.block].by)
      <3>1. t # s /\ txJobs'[t] = txJobs[t]
        BY <2>1
      <3>2. PICK b : b = txJobs[t].block
        OBVIOUS
      <3>3. /\ txJobs[t].used /\ b \in DOMAIN txDoc /\ txDoc[b].state = "open"
            /\ txDoc[b].by >= 0 /\ SlotOf(txDoc[b].by) = t /\ Names(txJobs, txDoc[b].by)
        BY <2>1, <3>1, <3>2 DEF TxInv, SlotsHold, job_of_handle, Names
      <3>4. b # o
        BY <1>2, <2>1, <3>1, <3>2
      <3>5. QED
        BY <1>4, <1>5, <1>6, <3>1, <3>2, <3>3, <3>4
    <2>2. QED
      BY <2>1 DEF SlotsHold, SlotOf, job_of_handle, Names
  <1>8. OneOpenBlock'
    <2>1. ASSUME tx.blocks = Len(txDoc), NEW b \in DOMAIN txDoc, txDoc'[b].state = "open", txDoc'[b].by >= 0
          PROVE  Names(txJobs', txDoc'[b].by) /\ txJobs'[SlotOf(txDoc'[b].by)].block = b
      <3>1. b # o
        BY <1>4, <1>5, <2>1
      <3>2. txDoc'[b] = txDoc[b]
        BY <1>4, <3>1
      <3>3. Names(txJobs, txDoc[b].by) /\ txJobs[SlotOf(txDoc[b].by)].block = b
        BY <2>1, <3>2 DEF TxInv, DocHolds, OneOpenBlock, job_of_handle, Names
      <3>4. SlotOf(txDoc[b].by) # s
        BY <1>2, <2>1, <3>1, <3>2
      <3>5. QED
        BY <1>5, <1>6, <3>2, <3>3, <3>4
    <2>2. QED
      BY <2>1, <1>4 DEF OneOpenBlock, SlotOf, job_of_handle, Names
  <1>9. tx'.blocks <= Len(txDoc') /\ Len(txDoc) \in Nat
    BY <1>3, <1>4, TxTypes DEF TxInv, DocHolds
  <1>10. QED
    BY <1>4, <1>7, <1>8, <1>9

\* Handles keep their meaning when a slot's other fields change.
LEMMA HandlesSame ==
  ASSUME TxInv, issued' = issued,
         \A t \in TxSlots : txJobs'[t].gen = txJobs[t].gen /\ txJobs'[t].used = txJobs[t].used
           /\ txJobs'[t].job = txJobs[t].job
  PROVE  HandlesHold' /\ \A x \in Int : job_of_handle(x)' <=> job_of_handle(x)
  <1>1. \A k \in DOMAIN issued : issued[k] \in Int
    BY TurnTypes, TxTypes
  <1>2. \A x \in Int : SlotOf(x) \in TxSlots /\ SlotOf(x)' = SlotOf(x)
    BY HandleFacts DEF SlotOf
  <1>3. HandlesHold'
    BY <1>1, <1>2 DEF TxInv, HandlesHold
  <1>4. \A x \in Int : job_of_handle(x)' <=> job_of_handle(x)
    BY <1>2 DEF job_of_handle
  <1>5. QED
    BY <1>3, <1>4

\* A pipeline's end.
LEMMA PipedStep == ASSUME TxInv, NEW f \in TxFibers, job_pipeline_done(f) PROVE TxInv'
  <1> DEFINE s == SlotOf(txFib[f].h)
             j == txJobs[s]
  <1>1. /\ txFib \in [TxFibers -> TxCall] /\ txFib[f] \in TxCall /\ tx \in TxState /\ txDoc \in Seq(TxBlock) /\ TxTypeOK
        /\ TxCallHolds(txFib[f]) /\ txJobs \in [TxSlots -> TxSlot] /\ HeldBounded /\ txHeld \in Nat
    BY TurnTypes
  <1>2. /\ txBusy' = txBusy /\ tx' = tx /\ txHeld' = txHeld
        /\ issued' = issued /\ txLog' = txLog /\ txCalls' = txCalls
        /\ txFib[f].pc = "body" /\ txFib[f].op = "piped"
    BY DEF job_pipeline_done
  <1>3. PICK c : c = [txFib[f] EXCEPT !.pc = "done"]
    OBVIOUS
  <1>4. "done" \in TxPcs
    BY DEF TxPcs
  <1>5. c \in TxCall /\ SameCall(c, txFib[f]) /\ c.pc = "done"
    BY <1>1, <1>3, <1>4, CallExcept
  <1>6. txFib' = [txFib EXCEPT ![f] = c]
    BY <1>1, <1>3 DEF job_pipeline_done
  <1>7. s \in TxSlots
    BY <1>1, HandleFacts, TxTypes
  <1>8. CASE j.block # TxNoBlock /\ j.kind = "adopted"
    <2>1. /\ txDoc' = BlockEnded(txDoc, j.block, "complete")
          /\ txJobs' = [txJobs EXCEPT ![s].block = TxNoBlock, ![s].agree = "none"]
      BY <1>8 DEF job_pipeline_done
    <2>2. /\ txJobs' \in [TxSlots -> TxSlot] /\ txJobs'[s].block = TxNoBlock
          /\ \A t \in TxSlots : t # s => txJobs'[t] = txJobs[t]
          /\ txJobs'[s].gen = txJobs[s].gen /\ txJobs'[s].used = txJobs[s].used /\ txJobs'[s].job = txJobs[s].job
      <3>1. PICK k : k = [j EXCEPT !.block = TxNoBlock, !.agree = "none"]
        OBVIOUS
      <3>2. k \in TxSlot /\ k.block = TxNoBlock /\ k.gen = j.gen /\ k.used = j.used /\ k.job = j.job
        BY <3>1, <1>1, <1>7 DEF TxSlot, TxAgrees, TxNoBlock
      <3>3. txJobs' = [txJobs EXCEPT ![s] = k]
        BY <3>1, <2>1, <1>1
      <3>4. QED
        BY <3>2, <3>3, <1>1, <1>7
    <2>3. "complete" \in TxStates \ {"open"}
      BY DEF TxStates
    <2>4. /\ txDoc' \in Seq(TxBlock) /\ Len(txDoc') = Len(txDoc) /\ DOMAIN txDoc' = DOMAIN txDoc /\ Len(txDoc) \in Nat
          /\ \A b \in DOMAIN txDoc : txDoc'[b].by = txDoc[b].by
          /\ SlotsHold' /\ OneOpenBlock' /\ tx'.blocks <= Len(txDoc')
          /\ \A t \in TxSlots : txJobs'[t].block # TxNoBlock => txJobs'[t] = txJobs[t]
      BY <1>2, <1>7, <2>1, <2>2, <2>3, EndOpen
    <2>5. HandlesHold'
      BY <1>2, <2>2, HandlesSame
    <2>6. TxCallHolds(c)'
      BY <1>5 DEF TxCallHolds
    <2>7. QED
      <3>1. /\ tx' \in TxState /\ tx'.refs = tx.refs /\ tx'.pending = tx.pending /\ Len(txDoc) <= Len(txDoc')
            /\ c.pc \in {"add", "done"}
        BY <1>1, <1>2, <1>5, <2>4
      <3>2. \A t \in TxSlots : txJobs'[t].block # TxNoBlock =>
              \/ txJobs'[t].block = txJobs[t].block /\ txJobs'[t].agree = txJobs[t].agree
              \/ txJobs'[t].block \notin DOMAIN txDoc
        BY <2>4
      <3>3. QED
        BY <1>2, <1>5, <1>6, <2>2, <2>4, <2>5, <2>6, <3>1, <3>2, DocStep
  <1>9. CASE ~(j.block # TxNoBlock /\ j.kind = "adopted")
    <2>1. txDoc' = txDoc /\ txJobs' = txJobs
      BY <1>9 DEF job_pipeline_done
    <2>2. HeldBounded'
      BY <1>1, <1>2 DEF HeldBounded
    <2>3. QED
      BY <1>1, <1>2, <1>5, <1>6, <2>1, <2>2, MoveOn
  <1>10. QED
    BY <1>8, <1>9

\* A job's end: the generation moves on, so its handles name nothing any more.
LEMMA JobEndStep == ASSUME TxInv, NEW f \in TxFibers, jacl_transcript_job_end(f) PROVE TxInv'
  <1> DEFINE s == SlotOf(txFib[f].h)
             j == txJobs[s]
  <1>1. /\ txFib \in [TxFibers -> TxCall] /\ txFib[f] \in TxCall /\ tx \in TxState /\ txDoc \in Seq(TxBlock) /\ TxTypeOK
        /\ txJobs \in [TxSlots -> TxSlot]
    BY TurnTypes
  <1>2. /\ txBusy' = txBusy /\ tx' = tx /\ txHeld' = txHeld
        /\ issued' = issued /\ txLog' = txLog /\ txCalls' = txCalls
        /\ txFib[f].pc = "body" /\ txFib[f].op = "end"
    BY DEF jacl_transcript_job_end
  <1>3. PICK c : c = [txFib[f] EXCEPT !.pc = "done"]
    OBVIOUS
  <1>4. "done" \in TxPcs
    BY DEF TxPcs
  <1>5. c \in TxCall /\ SameCall(c, txFib[f]) /\ c.pc = "done"
    BY <1>1, <1>3, <1>4, CallExcept
  <1>6. txFib' = [txFib EXCEPT ![f] = c]
    BY <1>1, <1>3 DEF jacl_transcript_job_end
  <1>7. s \in TxSlots
    BY <1>1, HandleFacts, TxTypes
  <1>8. PICK how \in TxStates \ {"open"} : txDoc' = BlockEnded(txDoc, j.block, how)
    <2>1. PICK how \in {"complete", "cancelled"} : txDoc' = BlockEnded(txDoc, j.block, how)
      BY DEF jacl_transcript_job_end
    <2>2. QED
      BY <2>1 DEF TxStates
  <1>9. /\ txJobs' \in [TxSlots -> TxSlot] /\ txJobs'[s].block = TxNoBlock
        /\ \A t \in TxSlots : t # s => txJobs'[t] = txJobs[t]
        /\ txJobs'[s].gen = j.gen + 1 /\ txJobs'[s].used = FALSE /\ j.gen \in Nat
    <2>1. PICK k : k = [j EXCEPT !.block = TxNoBlock, !.gen = j.gen + 1, !.used = FALSE]
      OBVIOUS
    <2>2. j \in TxSlot /\ j.gen \in Nat
      BY <1>1, <1>7 DEF TxSlot
    <2>0. (j.gen + 1) % TxGens = j.gen + 1
      <3>1. PICK G \in Nat \ {0} : G = TxGens
        BY TranscriptAssumption DEF TranscriptAssumption
      <3>2. PICK g \in Nat : g = j.gen + 1
        BY <2>2
      <3>3. g < G
        BY <3>1, <3>2 DEF jacl_transcript_job_end
      <3>4. g % G = g
        BY <3>1, <3>3
      <3>5. QED
        BY <3>1, <3>2, <3>4
    <2>3. k \in TxSlot /\ k.block = TxNoBlock /\ k.gen = j.gen + 1 /\ k.used = FALSE
      <3>1. PICK m \in Nat : m = j.gen + 1
        BY <2>2
      <3>2. PICK q : q = j
        OBVIOUS
      <3>3. k = [q EXCEPT !.block = TxNoBlock, !.gen = m, !.used = FALSE] /\ q \in TxSlot
        BY <2>1, <2>2, <3>1, <3>2
      <3>4. k \in TxSlot /\ k.block = TxNoBlock /\ k.gen = m /\ k.used = FALSE
        BY <3>3 DEF TxSlot, TxNoBlock
      <3>5. QED
        BY <3>1, <3>4
    <2>4. txJobs' = [txJobs EXCEPT ![s] = k]
      BY <2>0, <2>1, <1>1, <1>7 DEF jacl_transcript_job_end
    <2>5. QED
      BY <2>2, <2>3, <2>4, <1>1, <1>7
  <1>10. /\ txDoc' \in Seq(TxBlock) /\ Len(txDoc') = Len(txDoc) /\ DOMAIN txDoc' = DOMAIN txDoc /\ Len(txDoc) \in Nat
         /\ \A b \in DOMAIN txDoc : txDoc'[b].by = txDoc[b].by
         /\ SlotsHold' /\ OneOpenBlock' /\ tx'.blocks <= Len(txDoc')
         /\ \A t \in TxSlots : txJobs'[t].block # TxNoBlock => txJobs'[t] = txJobs[t]
    BY <1>2, <1>7, <1>8, <1>9, EndOpen
  <1>11. HandlesHold'
    <2>1. ASSUME NEW k \in DOMAIN issued
          PROVE  LET i == txJobs'[SlotOf(issued[k])]
                     g == issued[k] \div JACL_JOBS
                 IN  g <= i.gen /\ (~i.used => g < i.gen) /\ (i.used /\ g = i.gen => i.job = k)
      <3>0. issued[k] \in Int
        BY <1>1, TxTypes
      <3>1. issued[k] \in Int /\ SlotOf(issued[k]) \in TxSlots /\ issued[k] \div JACL_JOBS \in Int
        BY <3>0, HandleFacts
      <3>2. LET i == txJobs[SlotOf(issued[k])]
                g == issued[k] \div JACL_JOBS
            IN  g <= i.gen /\ (~i.used => g < i.gen) /\ (i.used /\ g = i.gen => i.job = k)
        BY DEF TxInv, HandlesHold
      <3>3. CASE SlotOf(issued[k]) = s
        <4>1. PICK g \in Int : g = issued[k] \div JACL_JOBS /\ g <= j.gen
          BY <3>1, <3>2, <3>3
        <4>2. g <= j.gen + 1 /\ g < j.gen + 1
          BY <4>1, <1>9
        <4>3. QED
          BY <4>1, <4>2, <3>3, <1>9
      <3>4. CASE SlotOf(issued[k]) # s
        BY <3>1, <3>2, <3>4, <1>9
      <3>5. QED
        BY <3>3, <3>4
    <2>2. QED
      BY <2>1, <1>2 DEF HandlesHold, SlotOf
  <1>12. TxCallHolds(c)'
    BY <1>5 DEF TxCallHolds
  <1>13. /\ tx' \in TxState /\ tx'.refs = tx.refs /\ tx'.pending = tx.pending /\ Len(txDoc) <= Len(txDoc')
         /\ c.pc \in {"add", "done"}
    BY <1>1, <1>2, <1>5, <1>10
  <1>14. \A t \in TxSlots : txJobs'[t].block # TxNoBlock =>
           \/ txJobs'[t].block = txJobs[t].block /\ txJobs'[t].agree = txJobs[t].agree
           \/ txJobs'[t].block \notin DOMAIN txDoc
    BY <1>10
  <1>15. QED
    BY <1>2, <1>5, <1>6, <1>9, <1>10, <1>11, <1>12, <1>13, <1>14, DocStep

\* Two handles of one slot that name its job are one.
LEMMA OneHandle ==
  ASSUME NEW x \in Int, NEW y \in Int, job_of_handle(x), job_of_handle(y), SlotOf(x) = SlotOf(y)
  PROVE  x = y
  BY HandleFacts DEF job_of_handle

\* A block of the caller's job is open for what it adds.
LEMMA ServesStep ==
  ASSUME TxInv, NEW f \in TxFibers, txFib[f].pc = "body", txFib[f].op \in TxBlocked,
         Serves(txJobs[SlotOf(txFib[f].h)], KindOf(txFib[f].op), txFib[f].agree),
         txFib' = [txFib EXCEPT ![f].pc = "add"],
         txBusy' = txBusy, tx' = tx, txDoc' = txDoc, txHeld' = txHeld, txJobs' = txJobs,
         issued' = issued, txLog' = txLog, txCalls' = txCalls
  PROVE  TxInv'
  <1> DEFINE s == SlotOf(txFib[f].h)
             b == txJobs[s].block
  <1>1. /\ txFib \in [TxFibers -> TxCall] /\ txFib[f] \in TxCall /\ tx \in TxState /\ txDoc \in Seq(TxBlock) /\ TxTypeOK
        /\ TxCallHolds(txFib[f]) /\ HeldBounded /\ txHeld \in Nat
    BY TurnTypes
  <1>2. PICK c : c = [txFib[f] EXCEPT !.pc = "add"]
    OBVIOUS
  <1>3. "add" \in TxPcs
    BY DEF TxPcs
  <1>4. c \in TxCall /\ SameCall(c, txFib[f]) /\ c.pc = "add"
    BY <1>1, <1>2, <1>3, CallExcept
  <1>5. txFib' = [txFib EXCEPT ![f] = c]
    BY <1>1, <1>2
  <1>6. txFib[f].h \in Int /\ txFib[f].h >= 0 /\ job_of_handle(txFib[f].h)
    BY <1>1, TxTypes DEF TxCallHolds, TxBlocked
  <1>7. s \in TxSlots
    BY <1>6, HandleFacts
  <1>8. /\ b # TxNoBlock /\ b \in DOMAIN txDoc /\ txDoc[b].state = "open" /\ SlotOf(txDoc[b].by) = s
        /\ job_of_handle(txDoc[b].by) /\ txJobs[s].agree = txFib[f].agree
    BY <1>7 DEF TxInv, SlotsHold, Serves
  <1>9. txDoc[b].by = txFib[f].h
    <2>1. txDoc[b].by \in Int
      BY <1>1, <1>8, TxTypes
    <2>2. QED
      BY <2>1, <1>6, <1>8, OneHandle
  <1>10. TxCallHolds(c)
    <2>1. c.h = txFib[f].h /\ c.op = txFib[f].op /\ c.agree = txFib[f].agree /\ Target(c) = b
      BY <1>4, <1>6 DEF SameCall, Target, OwnBlock
    <2>2. QED
      BY <2>1, <1>1, <1>4, <1>6, <1>8, <1>9 DEF TxCallHolds
  <1>11. HeldBounded'
    BY <1>1 DEF HeldBounded
  <1>12. QED
    BY <1>1, <1>4, <1>5, <1>10, <1>11, MoveOn

\* What job_block does to the document and the slot when it begins a block.
BlockBegins(r, p, s) ==
  /\ txDoc' = Append(BlockEnded(txDoc, txJobs[s].block, "complete"), BlockFor(r.h, KindOf(r.op)))
  /\ \/ /\ Len(txDoc) + 1 = tx.blocks + 1 /\ tx' = [tx EXCEPT !.blocks = @ + 1] /\ p = "add"
        /\ txJobs' = [txJobs EXCEPT ![s].block = Len(txDoc) + 1, ![s].kind = KindOf(r.op),
                                    ![s].agree = r.agree, ![s].blocks = @ + 1]
     \/ tx' = tx /\ p = "done" /\ txJobs' = [txJobs EXCEPT ![s].block = TxNoBlock]

\* The open block of the job is ended, and another is begun: noted and recorded, or not noted and not recorded.
LEMMA BeginStep ==
  ASSUME TxInv, NEW f \in TxFibers, txFib[f].pc = "body", txFib[f].op \in TxBlocked,
         NEW s, s = SlotOf(txFib[f].h), NEW j, j = txJobs[s], NEW c \in TxCall, SameCall(c, txFib[f]),
         txFib' = [txFib EXCEPT ![f] = c],
         BlockBegins(txFib[f], c.pc, s),
         txBusy' = txBusy, txHeld' = txHeld, issued' = issued, txLog' = txLog, txCalls' = txCalls
  PROVE  TxInv'
  <1>1. /\ txFib \in [TxFibers -> TxCall] /\ txFib[f] \in TxCall /\ tx \in TxState /\ txDoc \in Seq(TxBlock) /\ TxTypeOK
        /\ TxCallHolds(txFib[f]) /\ txJobs \in [TxSlots -> TxSlot]
    BY TurnTypes
  <1>2. PICK h \in Int : h = txFib[f].h /\ h >= 0 /\ job_of_handle(h) /\ s = SlotOf(h) /\ s \in TxSlots
    BY <1>1, TxTypes, HandleFacts DEF TxCallHolds, TxBlocked
  <1>3. PICK kd \in TxKinds : kd = KindOf(txFib[f].op)
    BY DEF TxKinds, KindOf, TxBlocked
  <1>4. PICK m \in Nat : m = Len(txDoc) /\ DOMAIN txDoc = 1 .. m
    BY <1>1, TxTypes
  <1>5. PICK o : o = j.block
    OBVIOUS
  <1>6. PICK e : e = BlockEnded(txDoc, o, "complete")
    OBVIOUS
  <1>7. /\ o = TxNoBlock \/ o \in DOMAIN txDoc
        /\ \A t \in TxSlots : t # s /\ txJobs[t].block # TxNoBlock => txJobs[t].block # o
        /\ tx.blocks = Len(txDoc) =>
              \A b \in DOMAIN txDoc : txDoc[b].state = "open" /\ txDoc[b].by >= 0 /\ SlotOf(txDoc[b].by) = s => b = o
    BY <1>2, <1>5, SlotBlock
  <1>8. /\ e \in Seq(TxBlock) /\ Len(e) = m /\ DOMAIN e = DOMAIN txDoc
        /\ \A k \in DOMAIN txDoc : e[k].by = txDoc[k].by
        /\ \A k \in DOMAIN txDoc : k # o => e[k] = txDoc[k]
        /\ o # TxNoBlock => e[o].state = "complete"
    <2>1. PICK w \in TxStates : w = "complete"
      BY DEF TxStates
    <2>2. o = TxNoBlock \/ o \in DOMAIN txDoc
      BY <1>7
    <2>3. e = BlockEnded(txDoc, o, w)
      BY <1>6, <2>1
    <2>4. e \in Seq(TxBlock) /\ Len(e) = Len(txDoc) /\ DOMAIN e = DOMAIN txDoc
      BY <1>1, <2>2, <2>3, EndedFacts
    <2>5. \A k \in DOMAIN txDoc : e[k].by = txDoc[k].by
      BY <1>1, <2>2, <2>3, EndedFacts
    <2>6. ASSUME NEW k \in DOMAIN txDoc, k # o PROVE e[k] = txDoc[k]
      BY <2>6, <1>1, <2>2, <2>3 DEF BlockEnded
    <2>7. o # TxNoBlock => e[o].state = w
      BY <1>1, <2>2, <2>3, EndedFacts
    <2>8. QED
      BY <1>4, <2>1, <2>4, <2>5, <2>6, <2>7
  <1>9. PICK nb \in TxBlock : nb = BlockFor(h, kd) /\ nb.by = h /\ nb.state = "open"
    <2>1. PICK w \in TxStates : w = "open"
      BY DEF TxStates
    <2>2. PICK nb : nb = [by |-> h, kind |-> kd, state |-> w, parts |-> 0]
      OBVIOUS
    <2>3. nb \in TxBlock /\ nb.by = h /\ nb.state = w
      BY <2>2 DEF TxBlock
    <2>4. nb = BlockFor(h, kd)
      BY <2>1, <2>2 DEF BlockFor
    <2>5. QED
      BY <2>1, <2>3, <2>4
  <1>10. txDoc' = Append(e, nb)
    BY <1>2, <1>3, <1>5, <1>6, <1>9 DEF BlockBegins
  <1>11. /\ txDoc' \in Seq(TxBlock) /\ Len(txDoc') = m + 1 /\ DOMAIN txDoc' = 1 .. (m + 1)
         /\ \A k \in DOMAIN txDoc : txDoc'[k] = e[k]
         /\ txDoc'[m + 1] = nb
    BY <1>4, <1>8, <1>10, AppendFacts
  <1>12. \A k \in DOMAIN txDoc : txDoc'[k].by = txDoc[k].by /\ txDoc[k].by \in Int
    BY <1>1, <1>8, <1>11, TxTypes
  <1>13. PICK k : k = txJobs'[s]
    OBVIOUS
  <1>14. /\ txJobs' \in [TxSlots -> TxSlot]
         /\ \A t \in TxSlots : t # s => txJobs'[t] = txJobs[t]
         /\ k.gen = j.gen /\ k.used = j.used /\ k.job = j.job
         /\ \/ tx.blocks = m /\ tx'.blocks = m + 1 /\ k.block = m + 1 /\ k.agree = txFib[f].agree /\ c.pc = "add"
            \/ tx'.blocks = tx.blocks /\ k.block = TxNoBlock /\ c.pc = "done"
         /\ tx' \in TxState /\ tx'.refs = tx.refs /\ tx'.pending = tx.pending
    <2>0. j \in TxSlot /\ tx.blocks \in Nat /\ txFib[f].agree \in TxAgrees /\ j.blocks \in Nat
      BY <1>1, <1>2, TxTypes DEF TxSlot
    <2>1. CASE /\ Len(txDoc) + 1 = tx.blocks + 1 /\ tx' = [tx EXCEPT !.blocks = @ + 1] /\ c.pc = "add"
               /\ txJobs' = [txJobs EXCEPT ![s].block = Len(txDoc) + 1, ![s].kind = KindOf(txFib[f].op),
                                        ![s].agree = txFib[f].agree, ![s].blocks = @ + 1]
      <3>1. PICK p \in Nat, q \in Nat, a \in TxAgrees : p = m + 1 /\ q = j.blocks + 1 /\ a = txFib[f].agree
        BY <2>0
      <3>2. PICK i : i = [j EXCEPT !.block = p, !.kind = kd, !.agree = a, !.blocks = q]
        OBVIOUS
      <3>3. i \in TxSlot /\ i.block = p /\ i.agree = a /\ i.gen = j.gen /\ i.used = j.used /\ i.job = j.job
        BY <2>0, <3>2 DEF TxSlot
      <3>4. txJobs' = [txJobs EXCEPT ![s] = i]
        BY <1>1, <1>2, <1>3, <1>4, <2>1, <3>1, <3>2
      <3>5. /\ txJobs' \in [TxSlots -> TxSlot] /\ k = i
            /\ \A t \in TxSlots : t # s => txJobs'[t] = txJobs[t]
        BY <3>3, <3>4, <1>1, <1>2, <1>13
      <3>6. /\ tx.blocks = m /\ tx'.blocks = m + 1
            /\ tx' \in TxState /\ tx'.refs = tx.refs /\ tx'.pending = tx.pending
        <4>1. tx.blocks = m
          BY <2>1, <1>4, <2>0
        <4>2. tx' = [tx EXCEPT !.blocks = p]
          BY <2>1, <4>1, <3>1
        <4>3. tx' \in TxState /\ tx'.refs = tx.refs /\ tx'.pending = tx.pending /\ tx'.blocks = p
          BY <4>2, <1>1 DEF TxState
        <4>4. QED
          BY <4>1, <4>3, <3>1
      <3>7. QED
        BY <2>1, <3>1, <3>3, <3>5, <3>6
    <2>2. CASE tx' = tx /\ c.pc = "done" /\ txJobs' = [txJobs EXCEPT ![s].block = TxNoBlock]
      <3>2. PICK i : i = [j EXCEPT !.block = TxNoBlock]
        OBVIOUS
      <3>3. i \in TxSlot /\ i.block = TxNoBlock /\ i.gen = j.gen /\ i.used = j.used /\ i.job = j.job
        BY <2>0, <3>2 DEF TxSlot, TxNoBlock
      <3>4. txJobs' = [txJobs EXCEPT ![s] = i]
        BY <1>1, <1>2, <2>2, <3>2
      <3>5. /\ txJobs' \in [TxSlots -> TxSlot] /\ k = i
            /\ \A t \in TxSlots : t # s => txJobs'[t] = txJobs[t]
        BY <3>3, <3>4, <1>1, <1>2, <1>13
      <3>6. QED
        BY <1>1, <2>2, <3>3, <3>5
    <2>3. QED
      BY <2>1, <2>2 DEF BlockBegins
  <1>15. \A t \in TxSlots : txJobs'[t].gen = txJobs[t].gen /\ txJobs'[t].used = txJobs[t].used
           /\ txJobs'[t].job = txJobs[t].job
    BY <1>13, <1>14
  <1>16. HandlesHold' /\ \A x \in Int : job_of_handle(x)' <=> job_of_handle(x)
    BY <1>15, HandlesSame
  <1>17. \A x \in Int : Names(txJobs', x) <=> job_of_handle(x)
    BY <1>15, HandleFacts DEF Names, job_of_handle
  <1>18. SlotsHold'
    <2>1. ASSUME NEW t \in TxSlots, txJobs'[t].block # TxNoBlock
          PROVE  LET i == txJobs'[t]
                 IN  /\ i.used /\ i.block \in DOMAIN txDoc'
                     /\ txDoc'[i.block].state = "open"
                     /\ txDoc'[i.block].by >= 0 /\ SlotOf(txDoc'[i.block].by) = t /\ Names(txJobs', txDoc'[i.block].by)
      <3>1. CASE t = s
        <4>1. k.block = m + 1 /\ k.used
          BY <2>1, <3>1, <1>2, <1>13, <1>14 DEF job_of_handle
        <4>2. m + 1 \in 1 .. (m + 1)
          BY <1>4
        <4>3. QED
          BY <3>1, <4>1, <4>2, <1>2, <1>9, <1>11, <1>13, <1>17
      <3>2. CASE t # s
        <4>1. txJobs'[t] = txJobs[t]
          BY <3>2, <1>14
        <4>2. PICK b : b = txJobs[t].block
          OBVIOUS
        <4>3. /\ txJobs[t].used /\ b \in DOMAIN txDoc /\ txDoc[b].state = "open"
              /\ txDoc[b].by >= 0 /\ SlotOf(txDoc[b].by) = t /\ job_of_handle(txDoc[b].by)
          BY <2>1, <4>1, <4>2 DEF TxInv, SlotsHold
        <4>4. b # o
          BY <1>7, <2>1, <3>2, <4>1, <4>2
        <4>5. txDoc'[b] = txDoc[b] /\ b \in DOMAIN txDoc'
          BY <4>3, <4>4, <1>4, <1>8, <1>11
        <4>6. QED
          BY <4>1, <4>2, <4>3, <4>5, <1>12, <1>17
      <3>3. QED
        BY <3>1, <3>2
    <2>2. QED
      BY <2>1 DEF SlotsHold, SlotOf, job_of_handle, Names
  <1>19. tx'.blocks <= Len(txDoc') /\ OneOpenBlock'
    <2>0. tx.blocks \in Nat /\ tx.blocks <= m
      BY <1>1, <1>4, TxTypes DEF TxInv, DocHolds
    <2>1. CASE tx.blocks = m /\ tx'.blocks = m + 1 /\ k.block = m + 1
      <3>1. ASSUME NEW b \in DOMAIN txDoc', txDoc'[b].state = "open", txDoc'[b].by >= 0
            PROVE  Names(txJobs', txDoc'[b].by) /\ txJobs'[SlotOf(txDoc'[b].by)].block = b
        <4>1. CASE b = m + 1
          BY <4>1, <2>1, <1>2, <1>9, <1>11, <1>13, <1>17
        <4>2. CASE b # m + 1
          <5>1. b \in DOMAIN txDoc /\ b # TxNoBlock
            BY <4>2, <1>4, <1>11 DEF TxNoBlock
          <5>2. b # o /\ txDoc'[b] = txDoc[b]
            <6>1. b # o
              BY <5>1, <3>1, <1>8, <1>11
            <6>2. QED
              BY <6>1, <5>1, <1>8, <1>11
          <5>3. job_of_handle(txDoc[b].by) /\ txJobs[SlotOf(txDoc[b].by)].block = b
            BY <2>1, <1>4, <3>1, <5>1, <5>2 DEF TxInv, DocHolds, OneOpenBlock
          <5>4. SlotOf(txDoc[b].by) # s
            BY <1>4, <1>7, <2>1, <3>1, <5>1, <5>2
          <5>5. txDoc[b].by \in Int /\ SlotOf(txDoc[b].by) \in TxSlots
            BY <5>1, <1>12, HandleFacts
          <5>6. QED
            BY <5>2, <5>3, <5>4, <5>5, <1>14, <1>17
        <4>3. QED
          BY <4>1, <4>2
      <3>2. OneOpenBlock'
        BY <3>1 DEF OneOpenBlock, SlotOf, job_of_handle, Names
      <3>3. QED
        BY <3>2, <2>1, <1>4, <1>11
    <2>2. CASE tx'.blocks = tx.blocks
      <3>1. tx'.blocks # Len(txDoc') /\ tx'.blocks <= Len(txDoc')
        BY <2>0, <2>2, <1>4, <1>11
      <3>2. QED
        BY <3>1 DEF OneOpenBlock
    <2>3. QED
      BY <2>1, <2>2, <1>14
  <1>20. TxCallHolds(c)'
    <2>1. CASE c.pc = "done"
      BY <2>1 DEF TxCallHolds
    <2>2. CASE c.pc = "add" /\ k.block = m + 1 /\ k.agree = txFib[f].agree
      <3>1. c.h = h /\ c.op = txFib[f].op /\ c.agree = txFib[f].agree
        BY <1>2 DEF SameCall
      <3>2. Target(c)' = m + 1 /\ SlotOf(c.h)' = s
        BY <3>1, <2>2, <1>2, <1>13 DEF Target, OwnBlock, SlotOf
      <3>3. m + 1 \in DOMAIN txDoc'
        BY <1>4, <1>11
      <3>4. job_of_handle(c.h)'
        BY <3>1, <1>2, <1>17 DEF job_of_handle, Names, SlotOf
      <3>5. /\ c.agree = "link" => c.op = "emit"
            /\ c.op \notin {"output", "flush", "put", "close"}
        BY <3>1, <1>1 DEF TxCallHolds, TxBlocked
      <3>6. /\ c.op \in {"output", "flush", "put", "close"} => c.h < 0
            /\ c.op \notin {"output", "flush", "put", "close"} => c.h >= 0
        BY <3>1, <3>5, <1>2
      <3>7. /\ Target(c)' \in DOMAIN txDoc'
            /\ txDoc'[Target(c)'].by = c.h /\ txDoc'[Target(c)'].state = "open"
            /\ txJobs'[SlotOf(c.h)'].agree = c.agree
        BY <3>1, <3>2, <3>3, <2>2, <1>9, <1>11, <1>13
      <3>8. QED
        BY <2>2, <3>4, <3>5, <3>6, <3>7 DEF TxCallHolds
    <2>3. QED
      BY <2>1, <2>2, <1>14
  <1>21. \A t \in TxSlots : txJobs'[t].block # TxNoBlock =>
            \/ txJobs'[t].block = txJobs[t].block /\ txJobs'[t].agree = txJobs[t].agree
            \/ txJobs'[t].block \notin DOMAIN txDoc
    <2>1. m + 1 \notin DOMAIN txDoc
      BY <1>4
    <2>2. QED
      BY <2>1, <1>13, <1>14
  <1>22. Len(txDoc) <= Len(txDoc') /\ c.pc \in {"add", "done"}
    BY <1>4, <1>11, <1>14
  <1>23. QED
    BY <1>11, <1>12, <1>14, <1>16, <1>18, <1>19, <1>20, <1>21, <1>22, DocStep

\* job_block: the open block serves, another is begun, or the begin fails.
LEMMA JobBlockStep == ASSUME TxInv, NEW f \in TxFibers, job_block(f) PROVE TxInv'
  <1> DEFINE s == SlotOf(txFib[f].h)
             j == txJobs[s]
  <1>1. /\ txFib \in [TxFibers -> TxCall] /\ txFib[f] \in TxCall /\ tx \in TxState /\ txDoc \in Seq(TxBlock) /\ TxTypeOK
        /\ txJobs \in [TxSlots -> TxSlot] /\ TxCallHolds(txFib[f])
    BY TurnTypes
  <1>2. /\ txFib[f].pc = "body" /\ txFib[f].op \in TxBlocked
        /\ txBusy' = txBusy /\ txHeld' = txHeld /\ issued' = issued /\ txLog' = txLog /\ txCalls' = txCalls
    BY DEF job_block
  <1>3. s \in TxSlots
    BY <1>1, HandleFacts, TxTypes
  <1>4. CASE /\ Serves(j, KindOf(txFib[f].op), txFib[f].agree)
             /\ txFib' = [txFib EXCEPT ![f].pc = "add"]
             /\ tx' = tx /\ txDoc' = txDoc /\ txJobs' = txJobs
    BY <1>2, <1>4, ServesStep
  <1>5. CASE /\ txDoc' = Append(BlockEnded(txDoc, j.block, "complete"), BlockFor(txFib[f].h, KindOf(txFib[f].op)))
             /\ \/ /\ transcript_note(Len(txDoc) + 1)
                   /\ tx' = [tx EXCEPT !.blocks = @ + 1]
                   /\ txJobs' = [txJobs EXCEPT ![s].block = Len(txDoc) + 1, ![s].kind = KindOf(txFib[f].op),
                                               ![s].agree = txFib[f].agree, ![s].blocks = @ + 1]
                   /\ txFib' = [txFib EXCEPT ![f].pc = "add"]
                \/ /\ txJobs' = [txJobs EXCEPT ![s].block = TxNoBlock]
                   /\ txFib' = [txFib EXCEPT ![f].pc = "done", ![f].failed = TRUE]
                   /\ tx' = tx
    <2>1. \E c \in TxCall : SameCall(c, txFib[f]) /\ txFib' = [txFib EXCEPT ![f] = c] /\ BlockBegins(txFib[f], c.pc, s)
      <3>0. "add" \in TxPcs /\ "done" \in TxPcs
        BY DEF TxPcs
      <3>1. CASE /\ transcript_note(Len(txDoc) + 1)
                 /\ tx' = [tx EXCEPT !.blocks = @ + 1]
                 /\ txJobs' = [txJobs EXCEPT ![s].block = Len(txDoc) + 1, ![s].kind = KindOf(txFib[f].op),
                                             ![s].agree = txFib[f].agree, ![s].blocks = @ + 1]
                 /\ txFib' = [txFib EXCEPT ![f].pc = "add"]
        <4>1. PICK c : c = [txFib[f] EXCEPT !.pc = "add"]
          OBVIOUS
        <4>2. c \in TxCall /\ SameCall(c, txFib[f]) /\ c.pc = "add"
          BY <1>1, <3>0, <4>1, CallExcept
        <4>3. txFib' = [txFib EXCEPT ![f] = c]
          BY <1>1, <3>1, <4>1
        <4>4. BlockBegins(txFib[f], c.pc, s)
          BY <1>5, <3>1, <4>2 DEF BlockBegins, transcript_note
        <4>5. QED
          BY <4>2, <4>3, <4>4
      <3>2. CASE /\ txJobs' = [txJobs EXCEPT ![s].block = TxNoBlock]
                 /\ txFib' = [txFib EXCEPT ![f].pc = "done", ![f].failed = TRUE]
                 /\ tx' = tx
        <4>1. PICK c : c = [txFib[f] EXCEPT !.pc = "done", !.failed = TRUE]
          OBVIOUS
        <4>2. c \in TxCall /\ SameCall(c, txFib[f]) /\ c.pc = "done"
          BY <1>1, <3>0, <4>1, CallExcept
        <4>3. txFib' = [txFib EXCEPT ![f] = c]
          BY <1>1, <3>2, <4>1
        <4>4. BlockBegins(txFib[f], c.pc, s)
          BY <1>5, <3>2, <4>2 DEF BlockBegins
        <4>5. QED
          BY <4>2, <4>3, <4>4
      <3>3. QED
        BY <1>5, <3>1, <3>2
    <2>2. QED
      BY <1>2, <2>1, BeginStep
  <1>6. CASE /\ txDoc' = BlockEnded(txDoc, j.block, "complete")
             /\ txJobs' = [txJobs EXCEPT ![s].block = TxNoBlock]
             /\ txFib' = [txFib EXCEPT ![f].pc = "done", ![f].failed = TRUE]
             /\ tx' = tx
    <2>0. "done" \in TxPcs
      BY DEF TxPcs
    <2>1. PICK c : c = [txFib[f] EXCEPT !.pc = "done", !.failed = TRUE]
      OBVIOUS
    <2>2. c \in TxCall /\ SameCall(c, txFib[f]) /\ c.pc = "done"
      BY <1>1, <2>0, <2>1, CallExcept
    <2>3. txFib' = [txFib EXCEPT ![f] = c]
      BY <1>1, <1>6, <2>1
    <2>4. /\ txJobs' \in [TxSlots -> TxSlot] /\ txJobs'[s].block = TxNoBlock
          /\ \A t \in TxSlots : t # s => txJobs'[t] = txJobs[t]
          /\ txJobs'[s].gen = txJobs[s].gen /\ txJobs'[s].used = txJobs[s].used /\ txJobs'[s].job = txJobs[s].job
      <3>1. PICK k : k = [j EXCEPT !.block = TxNoBlock]
        OBVIOUS
      <3>2. k \in TxSlot /\ k.block = TxNoBlock /\ k.gen = j.gen /\ k.used = j.used /\ k.job = j.job
        BY <3>1, <1>1, <1>3 DEF TxSlot, TxNoBlock
      <3>3. txJobs' = [txJobs EXCEPT ![s] = k]
        BY <3>1, <1>6, <1>1
      <3>4. QED
        BY <3>2, <3>3, <1>1, <1>3
    <2>5. "complete" \in TxStates \ {"open"}
      BY DEF TxStates
    <2>6. /\ txDoc' \in Seq(TxBlock) /\ Len(txDoc') = Len(txDoc) /\ DOMAIN txDoc' = DOMAIN txDoc /\ Len(txDoc) \in Nat
          /\ \A b \in DOMAIN txDoc : txDoc'[b].by = txDoc[b].by
          /\ SlotsHold' /\ OneOpenBlock' /\ tx'.blocks <= Len(txDoc')
          /\ \A t \in TxSlots : txJobs'[t].block # TxNoBlock => txJobs'[t] = txJobs[t]
      BY <1>3, <1>6, <2>4, <2>5, EndOpen
    <2>7. HandlesHold'
      BY <1>2, <2>4, HandlesSame
    <2>8. TxCallHolds(c)'
      BY <2>2 DEF TxCallHolds
    <2>9. /\ tx' \in TxState /\ tx'.refs = tx.refs /\ tx'.pending = tx.pending /\ Len(txDoc) <= Len(txDoc')
          /\ c.pc \in {"add", "done"}
      BY <1>1, <1>6, <2>2, <2>6
    <2>10. \A t \in TxSlots : txJobs'[t].block # TxNoBlock =>
             \/ txJobs'[t].block = txJobs[t].block /\ txJobs'[t].agree = txJobs[t].agree
             \/ txJobs'[t].block \notin DOMAIN txDoc
      BY <2>6
    <2>11. QED
      BY <1>2, <2>2, <2>3, <2>4, <2>6, <2>7, <2>8, <2>9, <2>10, DocStep
  <1>7. QED
    BY <1>4, <1>5, <1>6 DEF job_block

\* A block of the shell's own: no job's, so no slot records it.
LEMMA OutputStep == ASSUME TxInv, NEW f \in TxFibers, jacl_transcript_output(f) PROVE TxInv'
  <1>1. /\ txFib \in [TxFibers -> TxCall] /\ txFib[f] \in TxCall /\ tx \in TxState /\ txDoc \in Seq(TxBlock) /\ TxTypeOK
        /\ txJobs \in [TxSlots -> TxSlot] /\ TxCallHolds(txFib[f]) /\ HeldBounded /\ txHeld \in Nat
    BY TurnTypes
  <1>2. /\ txFib[f].pc = "body" /\ txFib[f].op = "output" /\ txJobs' = txJobs
        /\ txBusy' = txBusy /\ txHeld' = txHeld /\ issued' = issued /\ txLog' = txLog /\ txCalls' = txCalls
    BY DEF jacl_transcript_output
  <1>0. "add" \in TxPcs /\ "done" \in TxPcs
    BY DEF TxPcs
  <1>3. CASE txFib' = [txFib EXCEPT ![f].pc = "done", ![f].failed = TRUE] /\ tx' = tx /\ txDoc' = txDoc
    <2>1. PICK c : c = [txFib[f] EXCEPT !.pc = "done", !.failed = TRUE]
      OBVIOUS
    <2>2. c \in TxCall /\ SameCall(c, txFib[f]) /\ c.pc = "done"
      BY <1>1, <1>0, <2>1, CallExcept
    <2>3. txFib' = [txFib EXCEPT ![f] = c]
      BY <1>1, <1>3, <2>1
    <2>4. HeldBounded'
      BY <1>1, <1>2, <1>3 DEF HeldBounded
    <2>5. QED
      BY <1>1, <1>2, <1>3, <2>2, <2>3, <2>4, MoveOn
  <1>4. CASE /\ txDoc' = Append(txDoc, BlockFor(OwnName(Len(txDoc) + 1), "text"))
             /\ \/ /\ transcript_note(Len(txDoc) + 1) /\ tx' = [tx EXCEPT !.blocks = @ + 1]
                   /\ txFib' = [txFib EXCEPT ![f].pc = "done"]
                \/ txFib' = [txFib EXCEPT ![f].pc = "done", ![f].failed = TRUE] /\ tx' = tx
    <2>1. PICK m \in Nat : m = Len(txDoc) /\ DOMAIN txDoc = 1 .. m
      BY <1>1, TxTypes
    <2>2. PICK nb \in TxBlock : nb = BlockFor(OwnName(m + 1), "text") /\ nb.by < 0 /\ nb.by \in Int
      <3>1. PICK w \in TxStates, kd \in TxKinds, h \in Int : w = "open" /\ kd = "text" /\ h = OwnName(m + 1) /\ h < 0
        BY <2>1 DEF TxStates, TxKinds, OwnName
      <3>2. PICK nb : nb = [by |-> h, kind |-> kd, state |-> w, parts |-> 0]
        OBVIOUS
      <3>3. nb \in TxBlock /\ nb.by = h /\ nb.state = w
        BY <3>2 DEF TxBlock
      <3>4. nb = BlockFor(OwnName(m + 1), "text")
        BY <3>1, <3>2 DEF BlockFor
      <3>5. QED
        BY <3>1, <3>3, <3>4
    <2>3. txDoc' = Append(txDoc, nb)
      BY <1>4, <2>1, <2>2
    <2>4. /\ txDoc' \in Seq(TxBlock) /\ Len(txDoc') = m + 1 /\ DOMAIN txDoc' = 1 .. (m + 1)
          /\ \A k \in DOMAIN txDoc : txDoc'[k] = txDoc[k]
          /\ txDoc'[m + 1] = nb
      BY <1>1, <2>1, <2>3, AppendFacts
    <2>5. PICK c \in TxCall : /\ SameCall(c, txFib[f]) /\ txFib' = [txFib EXCEPT ![f] = c]
                              /\ \/ tx.blocks = m /\ tx'.blocks = m + 1
                                 \/ tx'.blocks = tx.blocks
                              /\ c.pc = "done"
                              /\ tx' \in TxState /\ tx'.refs = tx.refs /\ tx'.pending = tx.pending
      <3>1. CASE /\ transcript_note(Len(txDoc) + 1) /\ tx' = [tx EXCEPT !.blocks = @ + 1]
                 /\ txFib' = [txFib EXCEPT ![f].pc = "done"]
        <4>1. PICK c : c = [txFib[f] EXCEPT !.pc = "done"]
          OBVIOUS
        <4>2. c \in TxCall /\ SameCall(c, txFib[f]) /\ c.pc = "done"
          BY <1>1, <1>0, <4>1, CallExcept
        <4>3. txFib' = [txFib EXCEPT ![f] = c]
          BY <1>1, <3>1, <4>1
        <4>4. tx.blocks \in Nat /\ tx.blocks = m
          BY <1>1, <3>1, <2>1, TxTypes DEF transcript_note
        <4>5. PICK p \in Nat : p = m + 1
          OBVIOUS
        <4>6. tx' = [tx EXCEPT !.blocks = p]
          BY <3>1, <4>4, <4>5
        <4>7. tx' \in TxState /\ tx'.refs = tx.refs /\ tx'.pending = tx.pending /\ tx'.blocks = p
          BY <4>6, <1>1 DEF TxState
        <4>8. QED
          BY <4>2, <4>3, <4>4, <4>5, <4>7
      <3>2. CASE txFib' = [txFib EXCEPT ![f].pc = "done", ![f].failed = TRUE] /\ tx' = tx
        <4>1. PICK c : c = [txFib[f] EXCEPT !.pc = "done", !.failed = TRUE]
          OBVIOUS
        <4>2. c \in TxCall /\ SameCall(c, txFib[f]) /\ c.pc = "done"
          BY <1>1, <1>0, <4>1, CallExcept
        <4>3. txFib' = [txFib EXCEPT ![f] = c]
          BY <1>1, <3>2, <4>1
        <4>4. QED
          BY <4>2, <4>3, <3>2, <1>1
      <3>3. QED
        BY <1>4, <3>1, <3>2
    <2>6. HandlesHold'
      BY <1>2, HandlesSame
    <2>7. SlotsHold'
      <3>1. ASSUME NEW t \in TxSlots, txJobs[t].block # TxNoBlock
            PROVE  txJobs[t].block \in DOMAIN txDoc' /\ txDoc'[txJobs[t].block] = txDoc[txJobs[t].block]
        <4>1. txJobs[t].block \in DOMAIN txDoc
          BY <3>1 DEF TxInv, SlotsHold
        <4>2. DOMAIN txDoc \subseteq DOMAIN txDoc'
          BY <2>1, <2>4
        <4>3. QED
          BY <4>1, <4>2, <2>4
      <3>2. QED
        BY <3>1, <1>2 DEF TxInv, SlotsHold, SlotOf, job_of_handle
    <2>8. tx'.blocks <= Len(txDoc') /\ OneOpenBlock'
      <3>0. tx.blocks \in Nat /\ tx.blocks <= m
        BY <1>1, <2>1, TxTypes DEF TxInv, DocHolds
      <3>1. CASE tx.blocks = m /\ tx'.blocks = m + 1
        <4>1. ASSUME NEW b \in DOMAIN txDoc', txDoc'[b].state = "open", txDoc'[b].by >= 0
              PROVE  Names(txJobs, txDoc'[b].by) /\ txJobs[SlotOf(txDoc'[b].by)].block = b
          <5>1. b # m + 1
            BY <2>2, <2>4, <4>1
          <5>2. b \in DOMAIN txDoc
            BY <5>1, <2>1, <2>4
          <5>3. QED
            BY <5>2, <2>1, <2>4, <3>1, <4>1 DEF TxInv, DocHolds, OneOpenBlock, Names, job_of_handle
        <4>2. OneOpenBlock'
          BY <4>1, <1>2 DEF OneOpenBlock, SlotOf, job_of_handle, Names
        <4>3. QED
          BY <4>2, <3>1, <2>4
      <3>2. CASE tx'.blocks = tx.blocks
        <4>1. tx'.blocks # Len(txDoc') /\ tx'.blocks <= Len(txDoc')
          BY <3>0, <3>2, <2>1, <2>4
        <4>2. QED
          BY <4>1 DEF OneOpenBlock
      <3>3. QED
        BY <3>1, <3>2, <2>5
    <2>9. TxCallHolds(c)'
      BY <2>5 DEF TxCallHolds
    <2>10. /\ Len(txDoc) <= Len(txDoc') /\ c.pc \in {"add", "done"}
           /\ \A b \in DOMAIN txDoc : txDoc'[b].by = txDoc[b].by
      BY <2>1, <2>4, <2>5
    <2>11. \A t \in TxSlots : txJobs'[t].block # TxNoBlock =>
             \/ txJobs'[t].block = txJobs[t].block /\ txJobs'[t].agree = txJobs[t].agree
             \/ txJobs'[t].block \notin DOMAIN txDoc
      BY <1>2
    <2>12. txJobs' \in [TxSlots -> TxSlot]
      BY <1>1, <1>2
    <2>13. QED
      BY <1>2, <2>4, <2>5, <2>6, <2>7, <2>8, <2>9, <2>10, <2>11, <2>12, DocStep
  <1>5. QED
    BY <1>3, <1>4 DEF jacl_transcript_output

\* The shell's block takes what is written to it, unless it has ended.
LEMMA PutStep == ASSUME TxInv, NEW f \in TxFibers, jacl_transcript_write(f) PROVE TxInv'
  <1>1. /\ txFib \in [TxFibers -> TxCall] /\ txFib[f] \in TxCall /\ tx \in TxState /\ txHeld \in Nat /\ HeldBounded
        /\ TxCallHolds(txFib[f]) /\ txDoc \in Seq(TxBlock) /\ TxTypeOK
    BY TurnTypes
  <1>2. /\ txBusy' = txBusy /\ tx' = tx /\ txDoc' = txDoc /\ txHeld' = txHeld
        /\ txJobs' = txJobs /\ issued' = issued /\ txLog' = txLog /\ txCalls' = txCalls
        /\ txFib[f].pc = "body" /\ txFib[f].op = "put"
    BY DEF jacl_transcript_write
  <1>3. "add" \in TxPcs /\ "done" \in TxPcs
    BY DEF TxPcs
  <1>4. PICK b : b = OwnBlock(txFib[f].h)
    OBVIOUS
  <1>5. PICK c \in TxCall : /\ SameCall(c, txFib[f]) /\ txFib' = [txFib EXCEPT ![f] = c]
                            /\ c.pc \in {"add", "done"} /\ (c.pc = "add" => txDoc[b].state = "open")
    <2>1. CASE txDoc[b].state = "open"
      <3>1. PICK c : c = [txFib[f] EXCEPT !.pc = "add"]
        OBVIOUS
      <3>2. c \in TxCall /\ SameCall(c, txFib[f]) /\ c.pc = "add"
        BY <1>1, <1>3, <3>1, CallExcept
      <3>3. txFib' = [txFib EXCEPT ![f].pc = "add"]
        BY <1>4, <2>1 DEF jacl_transcript_write
      <3>4. QED
        BY <2>1, <3>1, <3>2, <3>3
    <2>2. CASE txDoc[b].state # "open"
      <3>1. PICK c : c = [txFib[f] EXCEPT !.pc = "done", !.failed = TRUE]
        OBVIOUS
      <3>2. c \in TxCall /\ SameCall(c, txFib[f]) /\ c.pc = "done"
        BY <1>1, <1>3, <3>1, CallExcept
      <3>3. txFib' = [txFib EXCEPT ![f].pc = "done", ![f].failed = TRUE]
        BY <1>4, <2>2 DEF jacl_transcript_write
      <3>4. txFib' = [txFib EXCEPT ![f] = c]
        BY <1>1, <3>1, <3>3
      <3>5. QED
        BY <3>2, <3>4
    <2>3. QED
      BY <2>1, <2>2
  <1>6. c.pc = "add" => TxCallHolds(c)
    <2>1. /\ c.op = "put" /\ c.h = txFib[f].h /\ c.agree = txFib[f].agree /\ c.h \in Int
      BY <1>2, <1>5 DEF SameCall, TxCall
    <2>2. c.h < 0 /\ b \in DOMAIN txDoc /\ txDoc[b].by = c.h /\ (c.agree = "link" => c.op = "emit")
      BY <1>1, <1>2, <1>4, <2>1 DEF TxCallHolds
    <2>3. ~(c.h >= 0)
      BY <2>1, <2>2
    <2>4. Target(c) = b
      BY <1>4, <2>1, <2>3 DEF Target
    <2>5. QED
      BY <1>5, <2>1, <2>2, <2>3, <2>4 DEF TxCallHolds
  <1>7. HeldBounded'
    BY <1>1, <1>2 DEF HeldBounded
  <1>8. QED
    BY <1>1, <1>2, <1>5, <1>6, <1>7, MoveOn

\* The shell ends a block of its own: no slot records it.
LEMMA CloseStep == ASSUME TxInv, NEW f \in TxFibers, jacl_transcript_end(f) PROVE TxInv'
  <1>1. /\ txFib \in [TxFibers -> TxCall] /\ txFib[f] \in TxCall /\ tx \in TxState /\ txHeld \in Nat /\ HeldBounded
        /\ TxCallHolds(txFib[f]) /\ txDoc \in Seq(TxBlock) /\ TxTypeOK /\ txJobs \in [TxSlots -> TxSlot]
    BY TurnTypes
  <1>2. /\ txBusy' = txBusy /\ tx' = tx /\ txHeld' = txHeld
        /\ txJobs' = txJobs /\ issued' = issued /\ txLog' = txLog /\ txCalls' = txCalls
        /\ txFib[f].pc = "body" /\ txFib[f].op = "close"
    BY DEF jacl_transcript_end
  <1>3. "done" \in TxPcs
    BY DEF TxPcs
  <1>4. PICK b : b = OwnBlock(txFib[f].h)
    OBVIOUS
  <1>5. b \in DOMAIN txDoc /\ txDoc[b].by < 0 /\ b \in Nat /\ b # TxNoBlock
    <2>1. b \in DOMAIN txDoc /\ txDoc[b].by < 0
      BY <1>1, <1>2, <1>4 DEF TxCallHolds
    <2>2. QED
      BY <1>1, <2>1, TxTypes DEF TxNoBlock
  <1>6. CASE txDoc[b].state = "open"
    <2>1. PICK c : c = [txFib[f] EXCEPT !.pc = "done"]
      OBVIOUS
    <2>2. c \in TxCall /\ SameCall(c, txFib[f]) /\ c.pc = "done"
      BY <1>1, <1>3, <2>1, CallExcept
    <2>3. txFib' = [txFib EXCEPT ![f] = c] /\ txDoc' = BlockEnded(txDoc, b, "complete")
      BY <1>4, <1>6, <2>1 DEF jacl_transcript_end
    <2>4. PICK how \in TxStates : how = "complete"
      BY DEF TxStates
    <2>5. PICK d : d = BlockEnded(txDoc, b, how)
      OBVIOUS
    <2>6. /\ d \in Seq(TxBlock) /\ Len(d) = Len(txDoc) /\ DOMAIN d = DOMAIN txDoc
          /\ \A k \in DOMAIN txDoc : d[k].by = txDoc[k].by
          /\ \A k \in DOMAIN txDoc : k # b => d[k] = txDoc[k]
          /\ d[b].state = how
      <3>1. d \in Seq(TxBlock) /\ Len(d) = Len(txDoc) /\ DOMAIN d = DOMAIN txDoc
        BY <1>1, <1>5, <2>5, EndedFacts, Zenon
      <3>2. d = [txDoc EXCEPT ![b].state = how]
        BY <1>5, <2>5 DEF BlockEnded
      <3>3. txDoc[b] \in TxBlock
        BY <1>1, <1>5, SeqFacts
      <3>4. d[b] = [txDoc[b] EXCEPT !.state = how] /\ \A k \in DOMAIN txDoc : k # b => d[k] = txDoc[k]
        BY <1>1, <1>5, <3>2
      <3>5. d[b].by = txDoc[b].by /\ d[b].state = how
        BY <3>3, <3>4 DEF TxBlock
      <3>6. QED
        BY <3>1, <3>4, <3>5
    <2>7. txDoc' = d
      BY <2>3, <2>4, <2>5
    <2>8. HandlesHold'
      BY <1>2, HandlesSame
    <2>9. SlotsHold'
      <3>1. ASSUME NEW t \in TxSlots, txJobs[t].block # TxNoBlock
            PROVE  txJobs[t].block \in DOMAIN txDoc' /\ txDoc'[txJobs[t].block] = txDoc[txJobs[t].block]
        <4>1. txJobs[t].block \in DOMAIN txDoc /\ txDoc[txJobs[t].block].by >= 0
          BY <3>1 DEF TxInv, SlotsHold
        <4>2. txDoc[b].by \in Int
          BY <1>1, <1>5, TxTypes
        <4>3. txJobs[t].block # b
          BY <1>5, <4>1, <4>2
        <4>4. QED
          BY <4>1, <4>3, <2>6, <2>7
      <3>2. QED
        BY <3>1, <1>2 DEF TxInv, SlotsHold, SlotOf, job_of_handle
    <2>10. OneOpenBlock' /\ tx'.blocks <= Len(txDoc')
      <3>1. ASSUME NEW k \in DOMAIN txDoc, d[k].state = "open" PROVE d[k] = txDoc[k]
        BY <3>1, <2>4, <2>6
      <3>2. OneOpenBlock /\ tx.blocks <= Len(txDoc)
        BY DEF TxInv, DocHolds
      <3>3. OneOpenBlock'
        BY <3>1, <3>2, <2>6, <2>7, <1>2 DEF OneOpenBlock, SlotOf, job_of_handle
      <3>4. QED
        BY <3>2, <3>3, <2>6, <2>7, <1>2
    <2>11. TxCallHolds(c)'
      BY <2>2 DEF TxCallHolds
    <2>12. /\ Len(txDoc) <= Len(txDoc') /\ c.pc \in {"add", "done"} /\ txDoc' \in Seq(TxBlock)
           /\ \A k \in DOMAIN txDoc : txDoc'[k].by = txDoc[k].by
      <3>1. Len(txDoc) \in Nat
        BY <1>1, TxTypes
      <3>2. QED
        BY <3>1, <2>2, <2>6, <2>7
    <2>13. \A t \in TxSlots : txJobs'[t].block # TxNoBlock =>
             \/ txJobs'[t].block = txJobs[t].block /\ txJobs'[t].agree = txJobs[t].agree
             \/ txJobs'[t].block \notin DOMAIN txDoc
      BY <1>2
    <2>14. txJobs' \in [TxSlots -> TxSlot] /\ tx' \in TxState /\ tx'.refs = tx.refs /\ tx'.pending = tx.pending
      BY <1>1, <1>2
    <2>15. QED
      BY <1>2, <2>2, <2>3, <2>8, <2>9, <2>10, <2>11, <2>12, <2>13, <2>14, DocStep
  <1>7. CASE txDoc[b].state # "open"
    <2>1. PICK c : c = [txFib[f] EXCEPT !.pc = "done", !.failed = TRUE]
      OBVIOUS
    <2>2. c \in TxCall /\ SameCall(c, txFib[f]) /\ c.pc = "done"
      BY <1>1, <1>3, <2>1, CallExcept
    <2>3. txFib' = [txFib EXCEPT ![f].pc = "done", ![f].failed = TRUE] /\ txDoc' = txDoc
      BY <1>4, <1>7 DEF jacl_transcript_end
    <2>4. txFib' = [txFib EXCEPT ![f] = c]
      BY <1>1, <2>1, <2>3
    <2>5. HeldBounded'
      BY <1>1, <1>2 DEF HeldBounded
    <2>6. QED
      BY <1>1, <1>2, <2>2, <2>3, <2>4, <2>5, MoveOn
  <1>8. QED
    BY <1>6, <1>7

\* What unir refuses ends the call, and nothing is added.
LEMMA FailStep == ASSUME TxInv, NEW f \in TxFibers, AddFails(f) PROVE TxInv'
  <1>1. /\ txFib \in [TxFibers -> TxCall] /\ txFib[f] \in TxCall /\ tx \in TxState /\ txHeld \in Nat /\ HeldBounded
        /\ txDoc \in Seq(TxBlock)
    BY TurnTypes
  <1>2. /\ txBusy' = txBusy /\ tx' = tx /\ txDoc' = txDoc /\ txHeld' = txHeld
        /\ txJobs' = txJobs /\ issued' = issued /\ txLog' = txLog /\ txCalls' = txCalls
        /\ txFib[f].pc = "add" /\ txFib' = [txFib EXCEPT ![f].pc = "done", ![f].failed = TRUE]
    BY DEF AddFails
  <1>3. "done" \in TxPcs
    BY DEF TxPcs
  <1>4. PICK c : c = [txFib[f] EXCEPT !.pc = "done", !.failed = TRUE]
    OBVIOUS
  <1>5. c \in TxCall /\ SameCall(c, txFib[f]) /\ c.pc = "done"
    BY <1>1, <1>3, <1>4, CallExcept
  <1>6. txFib' = [txFib EXCEPT ![f] = c]
    BY <1>1, <1>2, <1>4
  <1>7. HeldBounded'
    BY <1>1, <1>2 DEF HeldBounded
  <1>8. QED
    BY <1>1, <1>2, <1>5, <1>6, <1>7, MoveOn

TxRef == [block : Nat, name : Nat]

\* The references of block b that come v-th, and the match of references and log.
NthOf(r, b, v) == {i \in DOMAIN r : r[i].block = b /\ Rank(r, b, i) = v}
MatchedIn(r, l, b) ==
  /\ Rank(r, b, Len(r)) = Rank(l, b, Len(l))
  /\ \A i \in DOMAIN l : l[i].block = b =>
       /\ NthOf(r, b, Rank(l, b, i)) # {}
       /\ \A k \in NthOf(r, b, Rank(l, b, i)) : r[k].name = l[i].call

\* What another block gets does not disturb a block's match.
LEMMA MatchedSkip ==
  ASSUME NEW r \in Seq(TxRef), NEW l \in Seq(TxEntry), NEW e \in TxEntry, NEW b, e.block # b, MatchedIn(r, l, b)
  PROVE  MatchedIn(r, Append(l, e), b)
  <1>1. PICK q : q = Append(l, e)
    OBVIOUS
  <1>2. /\ Len(q) = Len(l) + 1 /\ Len(l) \in Nat /\ DOMAIN q = 1 .. (Len(l) + 1) /\ DOMAIN l = 1 .. Len(l)
        /\ (\A i \in 1 .. Len(l) : q[i] = l[i]) /\ q[Len(l) + 1] = e
    BY <1>1, AppendFacts
  <1>3. /\ \A i \in 0 .. Len(l) : Rank(q, b, i) = Rank(l, b, i)
        /\ Rank(q, b, Len(l) + 1) = Rank(l, b, Len(l))
    BY <1>1, RankAppend
  <1>4. Rank(r, b, Len(r)) = Rank(q, b, Len(q))
    BY <1>2, <1>3 DEF MatchedIn
  <1>5. ASSUME NEW i \in DOMAIN q, q[i].block = b
        PROVE  i \in DOMAIN l /\ l[i] = q[i] /\ Rank(q, b, i) = Rank(l, b, i)
    <2>1. i # Len(l) + 1
      BY <1>2, <1>5
    <2>2. i \in 1 .. Len(l) /\ i \in 0 .. Len(l)
      BY <2>1, <1>2
    <2>3. QED
      BY <2>2, <1>2, <1>3
  <1>6. ASSUME NEW i \in DOMAIN q, q[i].block = b
        PROVE  /\ NthOf(r, b, Rank(q, b, i)) # {}
               /\ \A k \in NthOf(r, b, Rank(q, b, i)) : r[k].name = q[i].call
    BY <1>5, <1>6 DEF MatchedIn
  <1>7. QED
    BY <1>1, <1>4, <1>6 DEF MatchedIn

\* The v-th references of a block in a sequence of references that grows.
LEMMA NthAppend ==
  ASSUME NEW r \in Seq(TxRef), NEW m \in TxRef, NEW b
  PROVE  /\ m.block # b => \A v : NthOf(Append(r, m), b, v) = NthOf(r, b, v)
         /\ m.block = b =>
              /\ NthOf(Append(r, m), b, Rank(r, b, Len(r)) + 1) = {Len(r) + 1}
              /\ \A v \in Nat : v <= Rank(r, b, Len(r)) => NthOf(Append(r, m), b, v) = NthOf(r, b, v)
         /\ Rank(r, b, Len(r)) \in Nat
  <1>1. PICK q : q = Append(r, m)
    OBVIOUS
  <1>2. /\ Len(q) = Len(r) + 1 /\ Len(r) \in Nat /\ DOMAIN q = 1 .. (Len(r) + 1) /\ DOMAIN r = 1 .. Len(r)
        /\ (\A i \in 1 .. Len(r) : q[i] = r[i]) /\ q[Len(r) + 1] = m
    BY <1>1, AppendFacts
  <1>3. /\ \A i \in 0 .. Len(r) : Rank(r, b, i) \in Nat /\ Rank(r, b, i) <= Rank(r, b, Len(r))
             /\ Rank(q, b, i) = Rank(r, b, i)
        /\ m.block = b => Rank(q, b, Len(r) + 1) = Rank(r, b, Len(r)) + 1
    BY <1>1, RankAppend
  <1>4. \A i \in DOMAIN r : i \in DOMAIN q /\ q[i] = r[i] /\ Rank(q, b, i) = Rank(r, b, i)
                            /\ Rank(r, b, i) \in Nat /\ Rank(r, b, i) <= Rank(r, b, Len(r))
    <2>1. ASSUME NEW i \in DOMAIN r PROVE i \in DOMAIN q /\ i \in 0 .. Len(r) /\ i \in 1 .. Len(r)
      BY <1>2
    <2>2. QED
      BY <2>1, <1>2, <1>3
  <1>5. Rank(r, b, Len(r)) \in Nat
    <2>1. Len(r) \in 0 .. Len(r)
      BY <1>2
    <2>2. QED
      BY <2>1, <1>3
  <1>6. \A i \in DOMAIN q : i \in DOMAIN r \/ i = Len(r) + 1
    BY <1>2
  <1>6a. Len(r) + 1 \in DOMAIN q /\ q[Len(r) + 1] = m
    BY <1>2
  <1>7. ASSUME m.block # b, NEW v PROVE NthOf(q, b, v) = NthOf(r, b, v)
    <2>1. \A i \in DOMAIN q : q[i].block = b => i \in DOMAIN r
      BY <1>6, <1>6a, <1>7
    <2>2. QED
      BY <2>1, <1>4 DEF NthOf
  <1>8. ASSUME m.block = b
        PROVE  /\ NthOf(q, b, Rank(r, b, Len(r)) + 1) = {Len(r) + 1}
               /\ \A v \in Nat : v <= Rank(r, b, Len(r)) => NthOf(q, b, v) = NthOf(r, b, v)
    <2>1. PICK T \in Nat : T = Rank(r, b, Len(r))
      BY <1>5
    <2>2. Rank(q, b, Len(r) + 1) = T + 1
      BY <1>3, <1>8, <2>1
    <2>3. \A i \in DOMAIN r : Rank(q, b, i) # T + 1
      BY <1>4, <2>1
    <2>4. NthOf(q, b, T + 1) = {Len(r) + 1}
      BY <2>2, <2>3, <1>6, <1>6a, <1>8 DEF NthOf
    <2>5. ASSUME NEW v \in Nat, v <= T PROVE NthOf(q, b, v) = NthOf(r, b, v)
      <3>1. Rank(q, b, Len(r) + 1) # v
        BY <2>2, <2>5
      <3>2. \A i \in DOMAIN q : Rank(q, b, i) = v => i \in DOMAIN r
        BY <3>1, <1>6
      <3>3. QED
        BY <3>2, <1>4 DEF NthOf
    <2>6. QED
      BY <2>1, <2>4, <2>5
  <1>9. QED
    BY <1>1, <1>5, <1>7, <1>8

\* A reference of another block does not disturb a block's match.
LEMMA MatchedSkipRef ==
  ASSUME NEW r \in Seq(TxRef), NEW m \in TxRef, NEW l, NEW b, m.block # b, MatchedIn(r, l, b)
  PROVE  MatchedIn(Append(r, m), l, b)
  <1>1. PICK q : q = Append(r, m)
    OBVIOUS
  <1>2. /\ Len(q) = Len(r) + 1 /\ DOMAIN r = 1 .. Len(r) /\ \A i \in 1 .. Len(r) : q[i] = r[i]
    BY <1>1, AppendFacts
  <1>3. Rank(q, b, Len(r) + 1) = Rank(r, b, Len(r))
    BY <1>1, RankAppend
  <1>4. \A v : NthOf(q, b, v) = NthOf(r, b, v)
    <2>1. \A v : NthOf(Append(r, m), b, v) = NthOf(r, b, v)
      BY NthAppend, Zenon
    <2>2. QED
      BY <1>1, <2>1, Zenon
  <1>5. \A v : \A k \in NthOf(r, b, v) : q[k] = r[k]
    BY <1>2 DEF NthOf
  <1>6. Rank(q, b, Len(q)) = Rank(l, b, Len(l))
    BY <1>2, <1>3 DEF MatchedIn
  <1>7. ASSUME NEW i \in DOMAIN l, l[i].block = b
        PROVE  /\ NthOf(q, b, Rank(l, b, i)) # {}
               /\ \A k \in NthOf(q, b, Rank(l, b, i)) : q[k].name = l[i].call
    <2>1. /\ NthOf(r, b, Rank(l, b, i)) # {}
          /\ \A k \in NthOf(r, b, Rank(l, b, i)) : r[k].name = l[i].call
      BY <1>7 DEF MatchedIn
    <2>2. QED
      BY <2>1, <1>4, <1>5
  <1>8. MatchedIn(q, l, b)
    BY <1>6, <1>7, Zenon DEF MatchedIn
  <1>9. QED
    BY <1>1, <1>8

\* A value and its reference, added together, match.
LEMMA MatchedBoth ==
  ASSUME NEW r \in Seq(TxRef), NEW m \in TxRef, NEW l \in Seq(TxEntry), NEW e \in TxEntry, NEW b,
         m.block = b, e.block = b, m.name = e.call, MatchedIn(r, l, b)
  PROVE  MatchedIn(Append(r, m), Append(l, e), b)
  <1>1. PICK q, p : q = Append(r, m) /\ p = Append(l, e)
    OBVIOUS
  <1>2. /\ Len(q) = Len(r) + 1 /\ Len(r) \in Nat /\ DOMAIN r = 1 .. Len(r)
             /\ (\A i \in 1 .. Len(r) : q[i] = r[i]) /\ q[Len(r) + 1] = m
    BY <1>1, AppendFacts
  <1>3. /\ Len(p) = Len(l) + 1 /\ Len(l) \in Nat /\ DOMAIN p = 1 .. (Len(l) + 1) /\ DOMAIN l = 1 .. Len(l)
        /\ (\A i \in 1 .. Len(l) : p[i] = l[i]) /\ p[Len(l) + 1] = e
    BY <1>1, AppendFacts
  <1>4. PICK T \in Nat : T = Rank(r, b, Len(r)) /\ T = Rank(l, b, Len(l))
    BY NthAppend DEF MatchedIn
  <1>5. Rank(q, b, Len(r) + 1) = T + 1
    <2>1. Rank(Append(r, m), b, Len(r) + 1) = Rank(r, b, Len(r)) + 1
      BY RankAppend, Zenon
    <2>2. QED
      BY <1>1, <1>4, <2>1
  <1>6. /\ Rank(p, b, Len(l) + 1) = T + 1
        /\ \A i \in 0 .. Len(l) : Rank(p, b, i) = Rank(l, b, i) /\ Rank(l, b, i) \in Nat /\ Rank(l, b, i) <= T
    BY <1>1, <1>4, RankAppend
  <1>7. NthOf(q, b, T + 1) = {Len(r) + 1} /\ \A v \in Nat : v <= T => NthOf(q, b, v) = NthOf(r, b, v)
    <2>1. /\ NthOf(Append(r, m), b, Rank(r, b, Len(r)) + 1) = {Len(r) + 1}
          /\ \A v \in Nat : v <= Rank(r, b, Len(r)) => NthOf(Append(r, m), b, v) = NthOf(r, b, v)
      BY NthAppend, Zenon
    <2>2. QED
      BY <1>1, <1>4, <2>1
  <1>8. ASSUME NEW i \in DOMAIN p, p[i].block = b
        PROVE  /\ NthOf(q, b, Rank(p, b, i)) # {}
               /\ \A k \in NthOf(q, b, Rank(p, b, i)) : q[k].name = p[i].call
    <2>1. CASE i = Len(l) + 1
      BY <2>1, <1>2, <1>3, <1>6, <1>7
    <2>2. CASE i # Len(l) + 1
      <3>1. i \in DOMAIN l /\ i \in 0 .. Len(l) /\ i \in 1 .. Len(l)
        BY <2>2, <1>3
      <3>2. PICK v \in Nat : v = Rank(p, b, i) /\ v = Rank(l, b, i) /\ v <= T
        BY <3>1, <1>6
      <3>3. NthOf(q, b, v) = NthOf(r, b, v)
        BY <3>2, <1>7
      <3>4. p[i] = l[i]
        BY <3>1, <1>3
      <3>5. NthOf(r, b, v) # {} /\ \A k \in NthOf(r, b, v) : r[k].name = l[i].call
        BY <3>1, <3>2, <3>4, <1>8 DEF MatchedIn
      <3>6. \A k \in NthOf(r, b, v) : q[k] = r[k]
        BY <1>2 DEF NthOf
      <3>7. QED
        BY <3>2, <3>3, <3>4, <3>5, <3>6
    <2>3. QED
      BY <2>1, <2>2
  <1>9. QED
    BY <1>1, <1>2, <1>3, <1>5, <1>6, <1>8 DEF MatchedIn

\* What a step adds to a block, and to its references: links are added to a block of
\* links only, other values to a block with no references.
LEMMA PicksStep ==
  ASSUME TxInv, NEW e \in TxEntry, txLog' = Append(txLog, e), txJobs' = txJobs,
         DOMAIN txDoc' = DOMAIN txDoc, \A b \in DOMAIN txDoc : txDoc'[b].by = txDoc[b].by,
         \/ /\ tx'.refs = tx.refs
            /\ \/ e.lost
               \/ NoRefs(e.block) /\ \A s \in TxSlots : txJobs[s].block = e.block => txJobs[s].agree # "link"
         \/ /\ tx'.refs = Append(tx.refs, [block |-> e.block, name |-> e.call])
            /\ NameLost(e.block) \/ Matched(e.block)
            /\ \A b \in DOMAIN txDoc : b = e.block => txDoc[b].by >= 0
            /\ \A s \in TxSlots : txJobs[s].block = e.block => txJobs[s].block = TxNoBlock \/ txJobs[s].agree = "link"
  PROVE  PicksHold'
  <1>0. txLog \in Seq(TxEntry) /\ tx.refs \in Seq(TxRef) /\ TxTypeOK
    BY TurnTypes, TxTypes DEF TxRef
  <1>1. PICK m \in TxRef : m = [block |-> e.block, name |-> e.call] /\ m.block = e.block /\ m.name = e.call
    BY DEF TxEntry, TxRef
  <1>2. \A b : Matched(b) <=> MatchedIn(tx.refs, txLog, b)
    BY DEF Matched, MatchedIn, Nth, NthOf
  <1>3. \A b : Matched(b)' <=> MatchedIn(tx'.refs, txLog', b)
    BY DEF Matched, MatchedIn, Nth, NthOf, Rank
  <1>4. /\ DOMAIN txLog = 1 .. Len(txLog) /\ DOMAIN txLog' = 1 .. (Len(txLog) + 1) /\ Len(txLog) \in Nat
        /\ \A i \in 1 .. Len(txLog) : txLog'[i] = txLog[i]
        /\ txLog'[Len(txLog) + 1] = e
    BY <1>0, AppendFacts
  <1>5. ASSUME NEW b, NameLost(b) PROVE NameLost(b)'
    <2>1. PICK i \in DOMAIN txLog : txLog[i].block = b /\ txLog[i].lost
      BY <1>5 DEF NameLost
    <2>2. i \in DOMAIN txLog' /\ txLog'[i] = txLog[i]
      BY <1>4
    <2>3. QED
      BY <2>1, <2>2 DEF NameLost
  <1>6. ASSUME e.lost PROVE NameLost(e.block)'
    <2>1. Len(txLog) + 1 \in DOMAIN txLog'
      BY <1>4
    <2>2. QED
      BY <2>1, <1>4, <1>6 DEF NameLost
  <1>7. CASE /\ tx'.refs = tx.refs
             /\ \/ e.lost
                \/ NoRefs(e.block) /\ \A s \in TxSlots : txJobs[s].block = e.block => txJobs[s].agree # "link"
    <2>1. \A b : NoRefs(b)' <=> NoRefs(b)
      BY <1>7 DEF NoRefs
    <2>2. ASSUME NEW b, b # e.block, Matched(b) PROVE Matched(b)'
      BY <1>0, <1>2, <1>3, <1>7, <2>2, MatchedSkip
    <2>3. ASSUME NEW b \in DOMAIN txDoc' PROVE NoRefs(b)' \/ NameLost(b)' \/ Matched(b)'
      <3>1. NoRefs(b) \/ NameLost(b) \/ Matched(b)
        BY DEF TxInv, PicksHold
      <3>2. QED
        BY <3>1, <2>1, <2>2, <1>5, <1>6, <1>7
    <2>4. \A b \in DOMAIN txDoc' : txDoc'[b].by < 0 => NoRefs(b)'
      BY <2>1 DEF TxInv, PicksHold
    <2>5. ASSUME NEW s \in TxSlots, NEW j, j = txJobs'[s], j.block # TxNoBlock
          PROVE  IF j.agree = "link" THEN NameLost(j.block)' \/ Matched(j.block)' ELSE NoRefs(j.block)'
      <3>1. j = txJobs[s]
        BY <2>5
      <3>2. IF j.agree = "link" THEN NameLost(j.block) \/ Matched(j.block) ELSE NoRefs(j.block)
        BY <3>1, <2>5 DEF TxInv, PicksHold
      <3>3. CASE j.block = e.block
        BY <3>1, <3>2, <3>3, <2>1, <1>6, <1>7
      <3>4. CASE j.block # e.block
        BY <3>2, <3>4, <2>1, <2>2, <1>5
      <3>5. QED
        BY <3>3, <3>4
    <2>6. QED
      BY <2>3, <2>4, <2>5 DEF PicksHold
  <1>8. CASE /\ tx'.refs = Append(tx.refs, m)
             /\ NameLost(e.block) \/ Matched(e.block)
             /\ \A b \in DOMAIN txDoc : b = e.block => txDoc[b].by >= 0
             /\ \A s \in TxSlots : txJobs[s].block = e.block => txJobs[s].block = TxNoBlock \/ txJobs[s].agree = "link"
    <2>0. /\ DOMAIN tx.refs = 1 .. Len(tx.refs) /\ DOMAIN tx'.refs = 1 .. (Len(tx.refs) + 1) /\ Len(tx.refs) \in Nat
          /\ \A i \in 1 .. Len(tx.refs) : tx'.refs[i] = tx.refs[i]
          /\ tx'.refs[Len(tx.refs) + 1] = m
      BY <1>0, <1>8, AppendFacts
    <2>1. ASSUME NEW b, b # e.block, NoRefs(b) PROVE NoRefs(b)'
      <3>1. ASSUME NEW i \in DOMAIN tx'.refs PROVE tx'.refs[i].block # b
        <4>1. CASE i = Len(tx.refs) + 1
          BY <4>1, <2>0, <2>1, <1>1
        <4>2. CASE i # Len(tx.refs) + 1
          <5>1. i \in 1 .. Len(tx.refs)
            BY <4>2, <2>0
          <5>2. QED
            BY <5>1, <2>0, <2>1 DEF NoRefs
        <4>3. QED
          BY <4>1, <4>2
      <3>2. QED
        BY <3>1 DEF NoRefs
    <2>2. ASSUME NEW b, b # e.block, Matched(b) PROVE Matched(b)'
      <3>1. MatchedIn(tx.refs, Append(txLog, e), b)
        BY <1>0, <1>2, <2>2, MatchedSkip
      <3>2. MatchedIn(Append(tx.refs, m), Append(txLog, e), b)
        BY <1>0, <1>1, <2>2, <3>1, MatchedSkipRef
      <3>3. QED
        BY <3>2, <1>3, <1>8
    <2>3. NameLost(e.block)' \/ Matched(e.block)'
      <3>1. ASSUME Matched(e.block) PROVE Matched(e.block)'
        <4>1. MatchedIn(Append(tx.refs, m), Append(txLog, e), e.block)
          BY <1>0, <1>1, <1>2, <3>1, MatchedBoth
        <4>2. QED
          BY <4>1, <1>3, <1>8
      <3>2. QED
        BY <3>1, <1>5, <1>8
    <2>4. ASSUME NEW b \in DOMAIN txDoc' PROVE NoRefs(b)' \/ NameLost(b)' \/ Matched(b)'
      <3>1. NoRefs(b) \/ NameLost(b) \/ Matched(b)
        BY DEF TxInv, PicksHold
      <3>2. QED
        BY <3>1, <2>1, <2>2, <2>3, <1>5
    <2>5. \A b \in DOMAIN txDoc' : txDoc'[b].by < 0 => NoRefs(b)'
      <3>1. \A b \in DOMAIN txDoc : txDoc[b].by \in Int
        BY <1>0, TxTypes
      <3>2. ASSUME NEW b \in DOMAIN txDoc, txDoc[b].by < 0 PROVE NoRefs(b)'
        <4>1. b # e.block
          BY <3>1, <3>2, <1>8
        <4>2. NoRefs(b)
          BY <3>2 DEF TxInv, PicksHold
        <4>3. QED
          BY <4>1, <4>2, <2>1
      <3>3. QED
        BY <3>2
    <2>6. ASSUME NEW s \in TxSlots, NEW j, j = txJobs'[s], j.block # TxNoBlock
          PROVE  IF j.agree = "link" THEN NameLost(j.block)' \/ Matched(j.block)' ELSE NoRefs(j.block)'
      <3>1. j = txJobs[s]
        BY <2>6
      <3>2. IF j.agree = "link" THEN NameLost(j.block) \/ Matched(j.block) ELSE NoRefs(j.block)
        BY <3>1, <2>6 DEF TxInv, PicksHold
      <3>3. CASE j.block = e.block
        BY <3>1, <3>3, <2>3, <2>6, <1>8
      <3>4. CASE j.block # e.block
        BY <3>2, <3>4, <2>1, <2>2, <1>5
      <3>5. QED
        BY <3>3, <3>4
    <2>7. QED
      BY <2>4, <2>5, <2>6 DEF PicksHold
  <1>9. QED
    BY <1>1, <1>7, <1>8

\* Where a call adds: to no other slot's block, and to one of its own agreement.
LEMMA AddsTo ==
  ASSUME TxInv, NEW f \in TxFibers, txFib[f].pc \in {"add", "commit"}, txFib[f].op # "flush",
           NEW t, t = Target(txFib[f])
  PROVE  /\ t \in DOMAIN txDoc /\ t # TxNoBlock /\ txDoc[t].by = txFib[f].h /\ txDoc[t].state = "open"
         /\ txFib[f].h >= 0 => job_of_handle(txFib[f].h)
         /\ txFib[f].agree # "link" =>
              NoRefs(t) /\ \A s \in TxSlots : txJobs[s].block = t => txJobs[s].agree # "link"
         /\ txFib[f].agree = "link" =>
              /\ NameLost(t) \/ Matched(t)
              /\ \A b \in DOMAIN txDoc : b = t => txDoc[b].by >= 0
              /\ \A s \in TxSlots : txJobs[s].block = t => txJobs[s].block = TxNoBlock \/ txJobs[s].agree = "link"
  <1>1. /\ TxTypeOK /\ TxCallHolds(txFib[f]) /\ txFib[f] \in TxCall
    BY TurnTypes
  <1>2. PICK h \in Int : h = txFib[f].h
    BY <1>1 DEF TxCall
  <1>3. /\ t \in DOMAIN txDoc /\ txDoc[t].by = h /\ txDoc[t].state = "open"
        /\ h >= 0 => txJobs[SlotOf(h)].agree = txFib[f].agree /\ job_of_handle(h)
        /\ txFib[f].agree = "link" => txFib[f].op = "emit"
        /\ txFib[f].op \notin {"output", "flush", "put", "close"} => h >= 0
        /\ txFib[f].op \in {"output", "flush", "put", "close"} => h < 0
    BY <1>1, <1>2 DEF TxCallHolds
  <1>4. t # TxNoBlock
    BY <1>1, <1>3, TxTypes DEF TxNoBlock
  <1>5. CASE h >= 0
    <2>1. PICK s \in TxSlots : s = SlotOf(h)
      BY HandleFacts
    <2>2. t = txJobs[s].block /\ txJobs[s].agree = txFib[f].agree
      BY <1>2, <1>3, <1>5, <2>1 DEF Target, OwnBlock
    <2>3. \A u \in TxSlots : txJobs[u].block = t => u = s
      BY <2>2, <1>4, SlotBlock
    <2>4. IF txJobs[s].agree = "link" THEN NameLost(t) \/ Matched(t) ELSE NoRefs(t)
      BY <1>4, <2>2 DEF TxInv, PicksHold
    <2>5. ~(h < 0)
      BY <1>5
    <2>6. QED
      BY <1>2, <1>3, <1>4, <2>2, <2>3, <2>4, <2>5
  <1>6. CASE h < 0
    <2>1. NoRefs(t)
      BY <1>3, <1>6 DEF TxInv, PicksHold
    <2>2. ASSUME NEW u \in TxSlots PROVE txJobs[u].block # t
      <3>1. ~(h >= 0)
        BY <1>6
      <3>2. QED
        BY <3>1, <1>3, <1>4 DEF TxInv, SlotsHold
    <2>3. txFib[f].agree # "link" /\ ~(h >= 0)
      BY <1>3, <1>6
    <2>4. QED
      BY <1>2, <1>3, <1>4, <2>1, <2>2, <2>3
  <1>7. QED
    BY <1>3, <1>5, <1>6

\* What a call that adds does to the log, the document and the references.
Adds(r, e) ==
  /\ e.call = r.call /\ e.block = Target(r) /\ txLog' = Append(txLog, e)
  /\ DOMAIN txDoc' = DOMAIN txDoc
  /\ \A b \in DOMAIN txDoc : txDoc'[b].by = txDoc[b].by /\ txDoc'[b].state = txDoc[b].state
  /\ \/ tx'.refs = tx.refs /\ (e.lost \/ r.agree # "link")
     \/ tx'.refs = Append(tx.refs, [block |-> e.block, name |-> e.call]) /\ r.agree = "link"

\* The log stays a sequence of whole calls.
LEMMA AddLog ==
  ASSUME TxInv, NEW f \in TxFibers, NEW c \in TxCall, SameCall(c, txFib[f]), NEW e \in TxEntry,
         txFib[f].pc = "add", txFib[f].op # "flush", c.pc \in {"add", "commit", "done"},
         e.call = txFib[f].call, e.block = Target(txFib[f]), txLog' = Append(txLog, e),
         Len(txDoc') = Len(txDoc), txJobs' = txJobs, txCalls' = txCalls
  PROVE  /\ WritesTogether' /\ (\A i \in DOMAIN txLog' : txLog'[i].call <= txCalls')
         /\ \A i \in DOMAIN txLog' : txLog'[i].block \in DOMAIN txDoc
         /\ InLog(c)'
         /\ \A d : /\ d.pc \notin {"body", "add", "commit", "done"} /\ InLog(d)
                   /\ d.pc \in UnderWay => d.call # e.call
                   => InLog(d)'
  <1>1. TxTypeOK /\ InLog(txFib[f]) /\ txLog \in Seq(TxEntry) /\ txCalls \in Nat
    BY TurnTypes
  <1>2. PICK m \in Nat : /\ m = Len(txLog) /\ DOMAIN txLog = 1 .. m /\ DOMAIN txLog' = 1 .. (m + 1)
                         /\ \A i \in 1 .. m : txLog'[i] = txLog[i]
                         /\ txLog'[m + 1] = e
    BY <1>1, AppendFacts
  <1>3. \A i \in DOMAIN txLog' : i = m + 1 \/ (i \in DOMAIN txLog /\ i < m + 1)
    BY <1>2
  <1>4. PICK t : t = Target(txFib[f])
    OBVIOUS
  <1>5. \A i \in DOMAIN txLog : txLog[i].call = e.call =>
          txLog[i].block = t /\ \A k \in DOMAIN txLog : i < k => txLog[k].call = e.call
    BY <1>1, <1>4 DEF InLog
  <1>6. WritesTogether'
    <2>1. ASSUME NEW i \in DOMAIN txLog', NEW j \in DOMAIN txLog', NEW k \in DOMAIN txLog',
                 i < j, j < k, txLog'[i].call = txLog'[k].call
          PROVE  txLog'[j].call = txLog'[i].call /\ txLog'[k].block = txLog'[i].block
      <3>1. i \in DOMAIN txLog /\ j \in DOMAIN txLog /\ txLog'[i] = txLog[i] /\ txLog'[j] = txLog[j]
        BY <1>2, <2>1
      <3>2. CASE k = m + 1
        <4>1. txLog[i].call = e.call /\ txLog'[k].block = t
          BY <3>1, <3>2, <2>1, <1>2, <1>4
        <4>2. txLog[i].block = t /\ txLog[j].call = e.call
          BY <4>1, <3>1, <2>1, <1>5
        <4>3. QED
          BY <3>1, <4>1, <4>2
      <3>3. CASE k # m + 1
        <4>1. k \in DOMAIN txLog /\ txLog'[k] = txLog[k]
          BY <3>3, <1>2
        <4>2. QED
          BY <4>1, <3>1, <2>1 DEF TxInv, LogHolds, WritesTogether
      <3>4. QED
        BY <3>2, <3>3
    <2>2. QED
      BY <2>1 DEF WritesTogether
  <1>7. c.call = e.call /\ e.call <= txCalls
    BY <1>1 DEF InLog, SameCall, UnderWay
  <1>8. ASSUME NEW i \in DOMAIN txLog' PROVE txLog'[i].call <= txCalls' /\ txLog'[i].block \in DOMAIN txDoc
    <2>1. CASE i = m + 1
      <3>1. e.block \in DOMAIN txDoc
        BY AddsTo
      <3>2. QED
        BY <2>1, <3>1, <1>2, <1>7
    <2>2. CASE i # m + 1
      <3>1. i \in DOMAIN txLog /\ txLog'[i] = txLog[i]
        BY <2>2, <1>2
      <3>2. QED
        BY <3>1 DEF TxInv, LogHolds, DocHolds
    <2>3. QED
      BY <2>1, <2>2
  <1>9. InLog(c)'
    <2>1. Target(c)' = t
      BY <1>4 DEF Target, OwnBlock, SameCall, SlotOf
    <2>2. ASSUME NEW i \in DOMAIN txLog', txLog'[i].call = e.call
          PROVE  txLog'[i].block = t /\ \A k \in DOMAIN txLog' : i < k => txLog'[k].call = e.call
      <3>1. CASE i = m + 1
        <4>1. txLog'[i].block = t
          BY <3>1, <1>2, <1>4
        <4>2. \A k \in DOMAIN txLog' : ~(i < k)
          BY <3>1, <1>2
        <4>3. QED
          BY <4>1, <4>2
      <3>2. CASE i # m + 1
        <4>1. i \in DOMAIN txLog /\ txLog'[i] = txLog[i]
          BY <3>2, <1>2
        <4>2. txLog[i].block = t /\ \A k \in DOMAIN txLog : i < k => txLog[k].call = e.call
          BY <4>1, <2>2, <1>5
        <4>3. ASSUME NEW k \in DOMAIN txLog', i < k PROVE txLog'[k].call = e.call
          <5>1. k = m + 1 \/ (k \in DOMAIN txLog /\ txLog'[k] = txLog[k])
            BY <1>2
          <5>2. QED
            BY <5>1, <4>2, <4>3, <1>2
        <4>4. QED
          BY <4>1, <4>2, <4>3
      <3>3. QED
        BY <3>1, <3>2
    <2>3. QED
      BY <2>1, <2>2, <1>7 DEF InLog
  <1>10. ASSUME NEW d, d.pc \notin {"body", "add", "commit", "done"}, InLog(d), d.pc \in UnderWay => d.call # e.call
         PROVE  InLog(d)'
    <2>1. ASSUME d.pc = "wait", NEW i \in DOMAIN txLog' PROVE txLog'[i].call # d.call
      <3>1. d.call # e.call /\ \A k \in DOMAIN txLog : txLog[k].call # d.call
        BY <1>10, <2>1 DEF InLog, UnderWay
      <3>2. i = m + 1 \/ (i \in DOMAIN txLog /\ txLog'[i] = txLog[i])
        BY <1>2
      <3>3. QED
        BY <3>1, <3>2, <1>2
    <2>2. QED
      BY <1>10, <2>1 DEF InLog
  <1>11. QED
    BY <1>6, <1>8, <1>9, <1>10

\* A call adds to its block.
LEMMA AddStep ==
  ASSUME TxInv, NEW f \in TxFibers, NEW c \in TxCall, txFib' = [txFib EXCEPT ![f] = c],
         SameCall(c, txFib[f]), txFib[f].pc = "add", txFib[f].op # "flush", c.pc \in {"add", "commit", "done"},
         NEW e \in TxEntry, Adds(txFib[f], e), txDoc' \in Seq(TxBlock),
         txBusy' = txBusy, txJobs' = txJobs, issued' = issued, txCalls' = txCalls,
         tx' \in TxState, tx'.blocks = tx.blocks, txHeld' \in Nat, HeldBounded'
  PROVE  TxInv'
  <1>1. /\ TxTypeOK /\ txFib \in [TxFibers -> TxCall] /\ txCalls \in Nat /\ TurnHeld /\ txLog \in Seq(TxEntry)
        /\ txDoc \in Seq(TxBlock) /\ InLog(txFib[f]) /\ TxCallHolds(txFib[f]) /\ txFib[f] \in TxCall
    BY TurnTypes
  <1>2. /\ e.call = txFib[f].call /\ e.block = Target(txFib[f]) /\ txLog' = Append(txLog, e)
        /\ DOMAIN txDoc' = DOMAIN txDoc
        /\ \A b \in DOMAIN txDoc : txDoc'[b].by = txDoc[b].by /\ txDoc'[b].state = txDoc[b].state
    BY DEF Adds
  <1>3. Len(txDoc') = Len(txDoc)
    BY <1>1, <1>2, SeqFacts
  <1>4. txFib' \in [TxFibers -> TxCall] /\ txFib'[f] = c /\ \A g \in TxFibers \ {f} : txFib'[g] = txFib[g]
    BY <1>1
  <1>5. txLog' \in Seq(TxEntry)
    BY <1>1, <1>2, AppendFacts
  <1>6. TxTypeOK'
    BY <1>1, <1>4, <1>5 DEF TxTypeOK
  <1>7. TurnHeld'
    BY <1>1, TurnSame
  <1>8. HandlesHold' /\ \A x \in Int : job_of_handle(x)' <=> job_of_handle(x)
    BY HandlesSame
  <1>9. SlotsHold'
    BY <1>2 DEF TxInv, SlotsHold, SlotOf, job_of_handle
  <1>10. /\ WritesTogether' /\ (\A i \in DOMAIN txLog' : txLog'[i].call <= txCalls')
         /\ \A i \in DOMAIN txLog' : txLog'[i].block \in DOMAIN txDoc
         /\ InLog(c)'
         /\ \A d : /\ d.pc \notin {"body", "add", "commit", "done"} /\ InLog(d)
                   /\ d.pc \in UnderWay => d.call # e.call
                   => InLog(d)'
    BY <1>2, <1>3, AddLog
  <1>11. PICK t : /\ t = Target(txFib[f]) /\ t \in DOMAIN txDoc /\ t # TxNoBlock /\ txDoc[t].by = txFib[f].h
                       /\ txDoc[t].state = "open"
                  /\ txFib[f].h >= 0 => job_of_handle(txFib[f].h)
                  /\ txFib[f].agree # "link" =>
                       NoRefs(t) /\ \A s \in TxSlots : txJobs[s].block = t => txJobs[s].agree # "link"
                  /\ txFib[f].agree = "link" =>
                       /\ NameLost(t) \/ Matched(t)
                       /\ \A b \in DOMAIN txDoc : b = t => txDoc[b].by >= 0
                       /\ \A s \in TxSlots : txJobs[s].block = t => txJobs[s].block = TxNoBlock \/ txJobs[s].agree = "link"
    BY AddsTo
  <1>12. DocHolds'
    <2>1. OneOpenBlock'
      BY <1>2, <1>3 DEF TxInv, DocHolds, OneOpenBlock, SlotOf, job_of_handle
    <2>2. \A i \in DOMAIN tx'.refs : tx'.refs[i].block \in DOMAIN txDoc
      <3>1. CASE tx'.refs = tx.refs
        BY <3>1 DEF TxInv, DocHolds
      <3>2. CASE tx'.refs = Append(tx.refs, [block |-> e.block, name |-> e.call])
        <4>1. PICK m \in TxRef : m = [block |-> e.block, name |-> e.call] /\ m.block = t
          <5>1. PICK x \in Nat, y \in Nat : x = e.block /\ y = e.call
            BY DEF TxEntry
          <5>2. PICK m : m = [block |-> x, name |-> y]
            OBVIOUS
          <5>3. m \in TxRef /\ m.block = x
            BY <5>2 DEF TxRef
          <5>4. m = [block |-> e.block, name |-> e.call]
            BY <5>1, <5>2
          <5>5. x = t
            BY <5>1, <1>2, <1>11
          <5>6. QED
            BY <5>3, <5>4, <5>5
        <4>2. tx.refs \in Seq(TxRef)
          BY <1>1, TxTypes DEF TxRef
        <4>3. /\ DOMAIN tx.refs = 1 .. Len(tx.refs) /\ DOMAIN tx'.refs = 1 .. (Len(tx.refs) + 1) /\ Len(tx.refs) \in Nat
              /\ \A i \in 1 .. Len(tx.refs) : tx'.refs[i] = tx.refs[i]
              /\ tx'.refs[Len(tx.refs) + 1] = m
          BY <3>2, <4>1, <4>2, AppendFacts
        <4>4. ASSUME NEW i \in DOMAIN tx'.refs PROVE i = Len(tx.refs) + 1 \/ (i \in DOMAIN tx.refs
                       /\ tx'.refs[i] = tx.refs[i])
          BY <4>3
        <4>5. \A i \in DOMAIN tx.refs : tx.refs[i].block \in DOMAIN txDoc
          BY DEF TxInv, DocHolds
        <4>6. QED
          BY <4>1, <4>3, <4>4, <4>5, <1>11
      <3>3. QED
        BY <3>1, <3>2 DEF Adds
    <2>3. tx'.blocks <= Len(txDoc')
      BY <1>3 DEF TxInv, DocHolds
    <2>4. QED
      BY <2>1, <2>2, <2>3, <1>2, <1>10 DEF DocHolds
  <1>13. LogHolds'
    <2>1. \A g \in TxFibers : txFib'[g].call = txFib[g].call /\ (txFib'[g].pc \in UnderWay => txFib[g].pc \in UnderWay)
      BY <1>4 DEF SameCall, UnderWay
    <2>2. \A g, k \in TxFibers : g # k /\ txFib'[g].pc \in UnderWay
            /\ txFib'[k].pc \in UnderWay => txFib'[g].call # txFib'[k].call
      BY <2>1 DEF TxInv, LogHolds
    <2>3. QED
      BY <2>2, <1>10 DEF LogHolds
  <1>14. PicksHold'
    <2>1. \/ /\ tx'.refs = tx.refs
             /\ \/ e.lost
                \/ NoRefs(e.block) /\ \A s \in TxSlots : txJobs[s].block = e.block => txJobs[s].agree # "link"
          \/ /\ tx'.refs = Append(tx.refs, [block |-> e.block, name |-> e.call])
             /\ NameLost(e.block) \/ Matched(e.block)
             /\ \A b \in DOMAIN txDoc : b = e.block => txDoc[b].by >= 0
             /\ \A s \in TxSlots : txJobs[s].block = e.block => txJobs[s].block = TxNoBlock \/ txJobs[s].agree = "link"
      <3>1. e.block = t
        BY <1>2, <1>11
      <3>2. CASE tx'.refs = tx.refs /\ (e.lost \/ txFib[f].agree # "link")
        BY <3>1, <3>2, <1>11
      <3>3. CASE tx'.refs = Append(tx.refs, [block |-> e.block, name |-> e.call]) /\ txFib[f].agree = "link"
        BY <3>1, <3>3, <1>11
      <3>4. QED
        BY <3>2, <3>3 DEF Adds
    <2>2. QED
      BY <2>1, <1>2, PicksStep
  <1>15. ASSUME NEW g \in TxFibers PROVE TxCallHolds(txFib[g])' /\ InLog(txFib[g])'
    <2>1. CASE g = f
      <3>1. TxCallHolds(c)'
        <4>1. c.h = txFib[f].h /\ c.op = txFib[f].op /\ c.agree = txFib[f].agree
          BY DEF SameCall
        <4>2. Target(c)' = t
          BY <4>1, <1>3, <1>11 DEF Target, OwnBlock, SlotOf
        <4>3. c.h \in Int
          BY DEF TxCall
        <4>4. c.h >= 0 => job_of_handle(c.h)'
          BY <4>1, <4>3, <1>8, <1>11
        <4>5. /\ t \in DOMAIN txDoc' /\ txDoc'[t].by = c.h /\ txDoc'[t].state = "open"
          BY <4>1, <1>2, <1>11
        <4>6. /\ c.agree = "link" => c.op = "emit"
              /\ c.op \in {"output", "flush", "put", "close"} => c.h < 0
              /\ c.op \notin {"output", "flush", "put", "close"} => c.h >= 0
              /\ c.h >= 0 => txJobs[SlotOf(c.h)].agree = c.agree
          BY <4>1, <1>1 DEF TxCallHolds
        <4>7. c.h >= 0 => txJobs'[SlotOf(c.h)'].agree = c.agree
          BY <4>6 DEF SlotOf
        <4>8. QED
          BY <4>2, <4>4, <4>5, <4>6, <4>7 DEF TxCallHolds
      <3>2. QED
        BY <3>1, <2>1, <1>4, <1>10
    <2>2. CASE g # f
      <3>1. txFib[g].pc \notin {"body", "add", "commit", "done"} /\ txFib'[g] = txFib[g]
        BY <2>2, <1>4, OthersWait
      <3>2. TxCallHolds(txFib[g]) /\ InLog(txFib[g])
        BY TurnTypes
      <3>3. PICK d : d = txFib[g] /\ d = txFib'[g]
        BY <3>1
      <3>4. TxCallHolds(d)'
        BY <3>1, <3>2, <3>3, <1>2 DEF TxCallHolds, OwnBlock
      <3>5. d.pc \in UnderWay => d.call # e.call
        BY <1>2, <2>2, <3>3 DEF TxInv, LogHolds, UnderWay
      <3>6. InLog(d)'
        BY <3>1, <3>2, <3>3, <3>5, <1>10
      <3>7. QED
        BY <3>3, <3>4, <3>6
    <2>3. QED
      BY <2>1, <2>2
  <1>16. QED
    BY <1>6, <1>7, <1>8, <1>9, <1>12, <1>13, <1>14, <1>15 DEF TxInv

\* A block's parts grow.
LEMMA MoreParts ==
  ASSUME txDoc \in Seq(TxBlock), NEW t \in DOMAIN txDoc, NEW p \in Nat, txDoc' = [txDoc EXCEPT ![t].parts = @ + p]
  PROVE  /\ txDoc' \in Seq(TxBlock) /\ DOMAIN txDoc' = DOMAIN txDoc
         /\ \A b \in DOMAIN txDoc : txDoc'[b].by = txDoc[b].by /\ txDoc'[b].state = txDoc[b].state
  <1>1. txDoc[t] \in TxBlock
    BY SeqFacts
  <1>2. PICK n \in Nat : n = txDoc[t].parts + p
    BY <1>1 DEF TxBlock
  <1>3. PICK x : x = txDoc[t]
    OBVIOUS
  <1>4. PICK k : k = [x EXCEPT !.parts = n]
    OBVIOUS
  <1>5. k \in TxBlock /\ k.by = x.by /\ k.state = x.state
    BY <1>1, <1>3, <1>4 DEF TxBlock
  <1>6. txDoc' = [txDoc EXCEPT ![t] = k]
    BY <1>2, <1>3, <1>4
  <1>7. QED
    BY <1>3, <1>5, <1>6

\* A part of what is written: no more than may wait.
LEMMA WriteStep == ASSUME TxInv, NEW f \in TxFibers, WritePart(f) PROVE TxInv'
  <1>1. /\ txFib \in [TxFibers -> TxCall] /\ txFib[f] \in TxCall /\ tx \in TxState /\ txDoc \in Seq(TxBlock) /\ TxTypeOK
        /\ TxCallHolds(txFib[f]) /\ HeldBounded /\ txHeld \in Nat /\ InLog(txFib[f])
    BY TurnTypes
  <1>2. PICK r \in TxCall : r = txFib[f]
    BY <1>1
  <1>3. /\ r.pc = "add" /\ r.op \in {"write", "put"} /\ r.agree # "link"
        /\ txBusy' = txBusy /\ txJobs' = txJobs /\ issued' = issued /\ txCalls' = txCalls
    BY <1>1, <1>2 DEF WritePart, TxCallHolds
  <1>4. r.n \in Nat /\ r.done \in Nat /\ tx.pending \in Nat /\ TxPending \in Nat /\ tx.pending <= TxPending
          /\ tx.pending <= txHeld /\ txHeld \in Nat
        /\ r.call \in Nat /\ r.h \in Int
    BY <1>1, TxTypes, TranscriptAssumption DEF TxCall, HeldBounded, TranscriptAssumption
  <1>5. CASE r.done >= r.n
    <2>1. txFib' = [txFib EXCEPT ![f].pc = "done"] /\ tx' = tx /\ txDoc' = txDoc /\ txHeld' = txHeld /\ txLog' = txLog
      BY <1>2, <1>5 DEF WritePart
    <2>2. "done" \in TxPcs
      BY DEF TxPcs
    <2>3. PICK c : c = [r EXCEPT !.pc = "done"]
      OBVIOUS
    <2>4. c \in TxCall /\ SameCall(c, r) /\ c.pc = "done"
      BY <1>1, <2>2, <2>3, CallExcept
    <2>5. txFib' = [txFib EXCEPT ![f] = c]
      BY <1>1, <1>2, <2>1, <2>3
    <2>6. HeldBounded'
      BY <1>1, <2>1 DEF HeldBounded
    <2>7. QED
      BY <1>1, <1>2, <1>3, <2>1, <2>4, <2>5, <2>6, MoveOn
  <1>6. CASE ~(r.done >= r.n)
    <2>1. PICK p \in Nat : p = Part(r) /\ tx.pending + p <= TxPending
      <3>1. CASE r.n - r.done > TxPending - tx.pending
        <4>1. Part(r) = TxPending - tx.pending
          BY <3>1 DEF Part
        <4>2. TxPending - tx.pending \in Nat /\ tx.pending + (TxPending - tx.pending) <= TxPending
          BY <1>4
        <4>3. QED
          BY <4>1, <4>2
      <3>2. CASE ~(r.n - r.done > TxPending - tx.pending)
        <4>1. Part(r) = r.n - r.done
          BY <3>2 DEF Part
        <4>2. r.n - r.done \in Nat /\ tx.pending + (r.n - r.done) <= TxPending
          BY <1>4, <1>6, <3>2
        <4>3. QED
          BY <4>1, <4>2
      <3>3. QED
        BY <3>1, <3>2
    <2>2. PICK t : t = Target(r)
      OBVIOUS
    <2>3. PICK e : e = [call |-> r.call, block |-> t, n |-> p, via |-> r.h, lost |-> FALSE]
      OBVIOUS
    <2>4. PICK w \in TxPcs : w = IF tx.pending + p >= TxPending THEN "commit" ELSE "add"
      BY DEF TxPcs
    <2>5. PICK d \in Nat : d = r.done + p
      BY <1>4
    <2>6. PICK c : c = [r EXCEPT !.done = d, !.pc = w]
      OBVIOUS
    <2>7. /\ txDoc' = [txDoc EXCEPT ![t].parts = @ + p] /\ txHeld' = txHeld + p /\ txLog' = Append(txLog, e)
          /\ tx' = [tx EXCEPT !.pending = @ + p]
          /\ txFib' = [txFib EXCEPT ![f].done = @ + p, ![f].pc = w]
      BY <1>2, <1>6, <2>1, <2>2, <2>3, <2>4 DEF WritePart
    <2>8. c \in TxCall /\ SameCall(c, r) /\ c.pc = w
      BY <1>1, <2>6, CallExcept
    <2>9. txFib' = [txFib EXCEPT ![f] = c]
      BY <1>1, <1>2, <2>5, <2>6, <2>7
    <2>10. t \in DOMAIN txDoc /\ t \in Nat
      <3>1. t \in DOMAIN txDoc
        BY <1>2, <1>3, <2>2, AddsTo
      <3>2. QED
        BY <3>1, <1>1, TxTypes
    <2>11. e \in TxEntry /\ e.call = r.call /\ e.block = t /\ ~e.lost
      BY <1>4, <2>3, <2>10 DEF TxEntry
    <2>12. /\ txDoc' \in Seq(TxBlock) /\ DOMAIN txDoc' = DOMAIN txDoc
           /\ \A b \in DOMAIN txDoc : txDoc'[b].by = txDoc[b].by /\ txDoc'[b].state = txDoc[b].state
      BY <1>1, <2>7, <2>10, MoreParts
    <2>13. PICK q \in Nat : q = tx.pending + p
      BY <1>4
    <2>14. tx' = [tx EXCEPT !.pending = q]
      BY <2>7, <2>13
    <2>15. tx' \in TxState /\ tx'.refs = tx.refs /\ tx'.blocks = tx.blocks /\ tx'.pending = q
      BY <1>1, <2>14 DEF TxState
    <2>16. txHeld' \in Nat /\ q <= txHeld' /\ q <= TxPending
      BY <1>4, <2>1, <2>7, <2>13
    <2>17. HeldBounded'
      BY <2>15, <2>16 DEF HeldBounded
    <2>18. Adds(txFib[f], e)
      BY <1>2, <1>3, <2>2, <2>7, <2>11, <2>12, <2>15 DEF Adds
    <2>19. c.pc \in {"add", "commit", "done"} /\ txFib[f].pc = "add" /\ txFib[f].op # "flush" /\ SameCall(c, txFib[f])
      BY <1>2, <1>3, <2>4, <2>8
    <2>20. QED
      BY <1>3, <2>8, <2>9, <2>11, <2>12, <2>15, <2>16, <2>17, <2>18, <2>19, AddStep
  <1>7. QED
    BY <1>5, <1>6

\* A value, and its name if it is a link's and is kept.
LEMMA PushStep == ASSUME TxInv, NEW f \in TxFibers, PushValue(f) PROVE TxInv'
  <1>1. /\ txFib \in [TxFibers -> TxCall] /\ txFib[f] \in TxCall /\ tx \in TxState /\ txDoc \in Seq(TxBlock) /\ TxTypeOK
        /\ TxCallHolds(txFib[f]) /\ HeldBounded /\ txHeld \in Nat /\ InLog(txFib[f])
    BY TurnTypes
  <1>2. PICK r \in TxCall : r = txFib[f]
    BY <1>1
  <1>3. /\ r.pc = "add" /\ r.op \in {"emit", "screen", "forward"} /\ (r.agree = "link" => r.op = "emit")
        /\ txBusy' = txBusy /\ txHeld' = txHeld + 1 /\ txJobs' = txJobs /\ issued' = issued /\ txCalls' = txCalls
    BY <1>1, <1>2 DEF PushValue, TxCallHolds
  <1>4. r.call \in Nat /\ r.h \in Int
    BY DEF TxCall
  <1>5. PICK t : t = Target(r)
    OBVIOUS
  <1>6. t \in DOMAIN txDoc /\ t \in Nat
    <2>1. t \in DOMAIN txDoc
      BY <1>2, <1>3, <1>5, AddsTo
    <2>2. QED
      BY <2>1, <1>1, TxTypes
  <1>7. PICK w \in TxPcs : w = IF r.op = "screen" THEN "commit" ELSE "done"
    BY DEF TxPcs
  <1>8. PICK kept \in BOOLEAN, lost \in BOOLEAN :
          /\ kept => r.agree = "link"
          /\ r.agree = "link" => kept \/ lost
          /\ tx' = IF kept THEN transcript_ref(r) ELSE tx
          /\ txLog' = Append(txLog, [call |-> r.call, block |-> t, n |-> 1, via |-> r.h, lost |-> lost])
    <2>1. CASE r.op = "emit" /\ r.agree = "link"
      <3>1. PICK kept \in BOOLEAN :
              /\ tx' = IF kept THEN transcript_ref(r) ELSE tx
              /\ txLog' = Append(txLog, [call |-> r.call, block |-> t, n |-> 1, via |-> r.h, lost |-> ~kept])
        BY <1>2, <1>5, <2>1 DEF PushValue
      <3>2. PICK lost \in BOOLEAN : lost = ~kept
        OBVIOUS
      <3>3. QED
        BY <3>1, <3>2, <2>1
    <2>2. CASE ~(r.op = "emit" /\ r.agree = "link")
      <3>1. /\ tx' = tx
            /\ txLog' = Append(txLog, [call |-> r.call, block |-> t, n |-> 1, via |-> r.h, lost |-> FALSE])
        BY <1>2, <1>5, <2>2 DEF PushValue
      <3>2. QED
        BY <3>1, <2>2, <1>3
    <2>3. QED
      BY <2>1, <2>2
  <1>9. PICK e : e = [call |-> r.call, block |-> t, n |-> 1, via |-> r.h, lost |-> lost]
    OBVIOUS
  <1>10. e \in TxEntry /\ e.call = r.call /\ e.block = t /\ e.lost = lost
    BY <1>4, <1>6, <1>9 DEF TxEntry
  <1>11. PICK c : c = [r EXCEPT !.pc = w]
    OBVIOUS
  <1>12. c \in TxCall /\ SameCall(c, r) /\ c.pc = w
    BY <1>1, <1>11, CallExcept
  <1>13. txFib' = [txFib EXCEPT ![f] = c]
    BY <1>1, <1>2, <1>7, <1>11 DEF PushValue
  <1>14. /\ txDoc' \in Seq(TxBlock) /\ DOMAIN txDoc' = DOMAIN txDoc
         /\ \A b \in DOMAIN txDoc : txDoc'[b].by = txDoc[b].by /\ txDoc'[b].state = txDoc[b].state
    <2>1. txDoc' = [txDoc EXCEPT ![t].parts = @ + 1] /\ 1 \in Nat
      BY <1>2, <1>5 DEF PushValue
    <2>2. QED
      BY <2>1, <1>1, <1>6, MoreParts
  <1>15. /\ tx' \in TxState /\ tx'.blocks = tx.blocks /\ tx'.pending = tx.pending
         /\ \/ tx'.refs = tx.refs /\ (e.lost \/ r.agree # "link")
            \/ tx'.refs = Append(tx.refs, [block |-> e.block, name |-> e.call]) /\ r.agree = "link"
    <2>1. CASE kept
      <3>1. PICK m \in TxRef : m = [block |-> t, name |-> r.call]
        BY <1>4, <1>6 DEF TxRef
      <3>2. tx.refs \in Seq(TxRef)
        BY <1>1, TxTypes DEF TxRef
      <3>3. PICK q \in Seq(TxRef) : q = Append(tx.refs, m)
        BY <3>2, AppendFacts
      <3>4. tx' = [tx EXCEPT !.refs = q]
        BY <1>5, <1>8, <2>1, <3>1, <3>3 DEF transcript_ref
      <3>5. tx' \in TxState /\ tx'.blocks = tx.blocks /\ tx'.pending = tx.pending /\ tx'.refs = q
        BY <3>4, <1>1 DEF TxState, TxRef
      <3>6. q = Append(tx.refs, [block |-> e.block, name |-> e.call])
        BY <3>1, <3>3, <1>10
      <3>7. QED
        BY <3>5, <3>6, <2>1, <1>8
    <2>2. CASE ~kept
      BY <2>2, <1>1, <1>8, <1>10
    <2>3. QED
      BY <2>1, <2>2
  <1>16. HeldBounded' /\ txHeld' \in Nat
    <2>1. tx.pending \in Nat /\ tx.pending <= TxPending /\ tx.pending <= txHeld
      BY <1>1, TxTypes DEF HeldBounded
    <2>2. tx'.pending <= TxPending /\ tx'.pending <= txHeld'
      BY <1>1, <1>3, <1>15, <2>1
    <2>3. QED
      BY <1>1, <1>3, <2>2 DEF HeldBounded
  <1>17. Adds(txFib[f], e)
    <2>1. txLog' = Append(txLog, e)
      BY <1>8, <1>9
    <2>2. QED
      BY <2>1, <1>2, <1>5, <1>10, <1>14, <1>15 DEF Adds
  <1>18. c.pc \in {"add", "commit", "done"} /\ txFib[f].pc = "add" /\ txFib[f].op # "flush" /\ SameCall(c, txFib[f])
    BY <1>2, <1>3, <1>7, <1>12
  <1>19. QED
    BY <1>3, <1>10, <1>12, <1>13, <1>14, <1>15, <1>16, <1>17, <1>18, AddStep

\* A job takes a free slot: its handle is of the slot's present generation, which no
\* handle made before it is.
LEMMA JobStep == ASSUME TxInv, NEW f \in TxFibers, jacl_transcript_job(f) PROVE TxInv'
  <1>1. /\ TxTypeOK /\ txJobs \in [TxSlots -> TxSlot] /\ HeldBounded /\ TurnHeld
    BY TurnTypes
  <1>2. /\ txBusy' = txBusy /\ tx' = tx /\ txDoc' = txDoc /\ txHeld' = txHeld /\ txFib' = txFib
        /\ txLog' = txLog /\ txCalls' = txCalls
    BY DEF jacl_transcript_job
  <1>3. PICK i \in TxSlots :
          /\ ~txJobs[i].used
          /\ txJobs' = [txJobs EXCEPT ![i] = [FreeSlot EXCEPT !.used = TRUE, !.gen = txJobs[i].gen, !.job = Len(issued) + 1]]
          /\ issued' = Append(issued, txJobs[i].gen * JACL_JOBS + i)
    BY <1>1 DEF jacl_transcript_job
  <1>4. PICK g \in Nat, n \in Nat : g = txJobs[i].gen /\ n = Len(issued) /\ DOMAIN issued = 1 .. n
    BY <1>1, <1>3, TxTypes
  <1>5. PICK fs \in TxSlot, v \in Nat : fs = FreeSlot /\ fs.block = TxNoBlock /\ v = n + 1
    <2>1. FreeSlot \in TxSlot /\ FreeSlot.block = TxNoBlock
      BY DEF FreeSlot, TxSlot, TxNoBlock, TxKinds, TxAgrees
    <2>2. n + 1 \in Nat
      OBVIOUS
    <2>3. QED
      BY <2>1, <2>2
  <1>5a. PICK k : k = [fs EXCEPT !.used = TRUE, !.gen = g, !.job = v]
    OBVIOUS
  <1>5b. k \in TxSlot /\ k.used /\ k.gen = g /\ k.job = v /\ k.block = fs.block
    BY <1>5a DEF TxSlot
  <1>6. k \in TxSlot /\ k.used /\ k.gen = g /\ k.job = n + 1 /\ k.block = TxNoBlock
    BY <1>5, <1>5b
  <1>7. txJobs' = [txJobs EXCEPT ![i] = k]
    BY <1>3, <1>4, <1>5, <1>5a
  <1>8. txJobs' \in [TxSlots -> TxSlot] /\ txJobs'[i] = k /\ \A t \in TxSlots : t # i => txJobs'[t] = txJobs[t]
    BY <1>1, <1>6, <1>7
  <1>9. PICK x \in Nat : x = g * JACL_JOBS + i /\ SlotOf(x) = i /\ x \div JACL_JOBS = g
    BY HandleFacts
  <1>10. /\ issued' \in Seq(Nat) /\ DOMAIN issued' = 1 .. (n + 1)
         /\ (\A a \in 1 .. n : issued'[a] = issued[a]) /\ issued'[n + 1] = x
    <2>1. issued \in Seq(Nat) /\ issued' = Append(issued, x)
      BY <1>1, <1>3, <1>4, <1>9 DEF TxTypeOK
    <2>2. QED
      BY <2>1, <1>4, AppendFacts
  <1>11. TxTypeOK'
    BY <1>1, <1>2, <1>8, <1>10 DEF TxTypeOK
  <1>12. \A h \in Int : SlotOf(h) \in TxSlots
    BY HandleFacts
  <1>13. ASSUME NEW h \in Int, Names(txJobs, h) PROVE SlotOf(h) # i /\ Names(txJobs', h)
                  /\ txJobs'[SlotOf(h)] = txJobs[SlotOf(h)]
    BY <1>3, <1>8, <1>12, <1>13 DEF Names
  <1>14. HandlesHold'
    <2>1. ASSUME NEW a \in DOMAIN issued'
          PROVE  LET j == txJobs'[SlotOf(issued'[a])]
                     q == issued'[a] \div JACL_JOBS
                 IN  q <= j.gen /\ (~j.used => q < j.gen) /\ (j.used /\ q = j.gen => j.job = a)
      <3>1. CASE a = n + 1
        <4>1. issued'[a] = x /\ txJobs'[SlotOf(x)] = k /\ x \div JACL_JOBS = g
          BY <3>1, <1>8, <1>9, <1>10
        <4>2. g <= k.gen /\ k.used /\ k.job = a
          BY <3>1, <1>6
        <4>3. QED
          BY <4>1, <4>2
      <3>2. CASE a # n + 1
        <4>1. a \in DOMAIN issued /\ issued'[a] = issued[a]
          BY <3>2, <1>4, <1>10
        <4>2. PICK h \in Int : h = issued[a] /\ SlotOf(h) \in TxSlots
          BY <4>1, <1>1, <1>12, TxTypes
        <4>3. LET j == txJobs[SlotOf(h)]
                  q == h \div JACL_JOBS
              IN  q <= j.gen /\ (~j.used => q < j.gen) /\ (j.used /\ q = j.gen => j.job = a)
          BY <4>1, <4>2 DEF TxInv, HandlesHold
        <4>4. CASE SlotOf(h) = i
          <5>1. PICK q \in Int : q = h \div JACL_JOBS
            BY HandleFacts
          <5>2. q < g
            BY <4>3, <4>4, <5>1, <1>3, <1>4
          <5>3. q <= k.gen /\ q # k.gen /\ k.used
            BY <5>2, <1>6
          <5>4. QED
            BY <5>1, <5>3, <4>1, <4>2, <4>4, <1>8
        <4>5. CASE SlotOf(h) # i
          BY <4>1, <4>2, <4>3, <4>5, <1>8
        <4>6. QED
          BY <4>4, <4>5
      <3>3. QED
        BY <3>1, <3>2
    <2>2. QED
      BY <2>1 DEF HandlesHold, SlotOf
  <1>15. \A b \in DOMAIN txDoc : txDoc[b].by \in Int
    BY <1>1, TxTypes
  <1>16. SlotsHold'
    <2>1. ASSUME NEW t \in TxSlots, txJobs'[t].block # TxNoBlock
          PROVE  LET j == txJobs'[t]
                 IN  /\ j.used /\ j.block \in DOMAIN txDoc
                     /\ txDoc[j.block].state = "open"
                     /\ txDoc[j.block].by >= 0 /\ SlotOf(txDoc[j.block].by) = t /\ Names(txJobs', txDoc[j.block].by)
      <3>1. t # i /\ txJobs'[t] = txJobs[t]
        BY <2>1, <1>6, <1>8
      <3>2. PICK b : b = txJobs[t].block
        OBVIOUS
      <3>3. /\ txJobs[t].used /\ b \in DOMAIN txDoc /\ txDoc[b].state = "open"
            /\ txDoc[b].by >= 0 /\ SlotOf(txDoc[b].by) = t /\ Names(txJobs, txDoc[b].by)
        BY <2>1, <3>1, <3>2 DEF TxInv, SlotsHold, job_of_handle, Names
      <3>4. QED
        BY <3>1, <3>2, <3>3, <1>13, <1>15
    <2>2. QED
      BY <2>1, <1>2 DEF SlotsHold, SlotOf, job_of_handle, Names
  <1>17. DocHolds'
    <2>1. OneOpenBlock'
      <3>1. ASSUME tx.blocks = Len(txDoc), NEW b \in DOMAIN txDoc, txDoc[b].state = "open", txDoc[b].by >= 0
            PROVE  Names(txJobs', txDoc[b].by) /\ txJobs'[SlotOf(txDoc[b].by)].block = b
        <4>1. Names(txJobs, txDoc[b].by) /\ txJobs[SlotOf(txDoc[b].by)].block = b
          BY <3>1 DEF TxInv, DocHolds, OneOpenBlock, job_of_handle, Names
        <4>2. QED
          BY <4>1, <1>13, <1>15
      <3>2. QED
        BY <3>1, <1>2 DEF OneOpenBlock, SlotOf, job_of_handle, Names
    <2>2. QED
      BY <2>1, <1>2 DEF TxInv, DocHolds
  <1>18. LogHolds'
    BY <1>2 DEF TxInv, LogHolds, WritesTogether
  <1>19. PicksHold'
    <2>1. \A b : NoRefs(b)' <=> NoRefs(b)
      BY <1>2 DEF NoRefs
    <2>2. \A b : NameLost(b)' <=> NameLost(b)
      BY <1>2 DEF NameLost
    <2>3. \A b : Matched(b)' <=> Matched(b)
      BY <1>2 DEF Matched, Nth, Rank
    <2>4. \A t \in TxSlots : txJobs'[t].block # TxNoBlock => txJobs'[t] = txJobs[t]
      BY <1>6, <1>8
    <2>5. ASSUME NEW t \in TxSlots, NEW j, j = txJobs'[t], j.block # TxNoBlock
          PROVE  IF j.agree = "link" THEN NameLost(j.block)' \/ Matched(j.block)' ELSE NoRefs(j.block)'
      <3>1. j = txJobs[t]
        BY <2>4, <2>5
      <3>2. IF j.agree = "link" THEN NameLost(j.block) \/ Matched(j.block) ELSE NoRefs(j.block)
        BY <3>1, <2>5 DEF TxInv, PicksHold
      <3>3. QED
        BY <3>2, <2>1, <2>2, <2>3
    <2>6. \A b \in DOMAIN txDoc : NoRefs(b)' \/ NameLost(b)' \/ Matched(b)'
      BY <2>1, <2>2, <2>3 DEF TxInv, PicksHold
    <2>7. \A b \in DOMAIN txDoc : txDoc[b].by < 0 => NoRefs(b)'
      BY <2>1 DEF TxInv, PicksHold
    <2>8. QED
      BY <2>5, <2>6, <2>7, <1>2 DEF PicksHold
  <1>20. HeldBounded' /\ TurnHeld'
    BY <1>1, <1>2 DEF HeldBounded, TurnHeld
  <1>21. ASSUME NEW a \in TxFibers PROVE TxCallHolds(txFib[a])' /\ InLog(txFib[a])'
    <2>1. PICK d : d = txFib[a] /\ d = txFib'[a]
      BY <1>2
    <2>2. TxCallHolds(d) /\ InLog(d) /\ d \in TxCall /\ d.h \in Int
      BY <2>1, <1>1, TurnTypes, TxTypes
    <2>3. ASSUME d.pc \in {"body", "add", "commit"}, d.h >= 0
          PROVE  Names(txJobs', d.h) /\ txJobs'[SlotOf(d.h)] = txJobs[SlotOf(d.h)]
      BY <2>2, <2>3, <1>13 DEF TxCallHolds, job_of_handle, Names
    <2>4. d.pc \in {"body", "add", "commit"} => Target(d)' = Target(d)
      BY <2>2, <2>3, <1>2 DEF Target, OwnBlock, SlotOf
    <2>5. d.pc \in {"body", "add", "commit"} /\ d.h >= 0 =>
            /\ job_of_handle(d.h)'
            /\ txJobs'[SlotOf(d.h)'].agree = txJobs[SlotOf(d.h)].agree
      BY <2>3 DEF job_of_handle, Names, SlotOf
    <2>6. TxCallHolds(d)'
      BY <2>2, <2>4, <2>5, <1>2 DEF TxCallHolds
    <2>7. InLog(d)'
      BY <2>2, <2>4, <1>2 DEF InLog
    <2>8. QED
      BY <2>1, <2>6, <2>7
  <1>22. QED
    BY <1>11, <1>14, <1>16, <1>17, <1>18, <1>19, <1>20, <1>21 DEF TxInv

\* The transcript starts empty.
LEMMA TxInitInv == TxInit => TxInv
  <1> SUFFICES ASSUME TxInit PROVE TxInv
    OBVIOUS
  <1>1. /\ txBusy = NoFiber /\ tx = [pending |-> 0, blocks |-> 0, refs |-> <<>>]
        /\ txDoc = <<>> /\ txHeld = 0 /\ issued = <<>> /\ txLog = <<>> /\ txCalls = 0
        /\ txJobs = [i \in TxSlots |-> FreeSlot] /\ txFib = [f \in TxFibers |-> TxIdle]
    BY DEF TxInit, TxSlots
  <1>2. DOMAIN txDoc = {} /\ DOMAIN issued = {} /\ DOMAIN txLog = {} /\ Len(txDoc) = 0
    BY <1>1
  <1>3. tx.refs = <<>> /\ tx.pending = 0 /\ tx.blocks = 0
    BY <1>1
  <1>4. DOMAIN tx.refs = {}
    BY <1>3
  <1>5. tx \in TxState
    <2>0. <<>> \in Seq([block : Nat, name : Nat])
      OBVIOUS
    <2>1. PICK r \in Seq([block : Nat, name : Nat]) : r = <<>>
      BY <2>0
    <2>2. tx = [pending |-> 0, blocks |-> 0, refs |-> r]
      BY <1>1, <2>1
    <2>3. QED
      BY <2>2 DEF TxState
  <1>6. FreeSlot \in TxSlot /\ FreeSlot.block = TxNoBlock
    BY DEF FreeSlot, TxSlot, TxNoBlock, TxKinds, TxAgrees
  <1>7. TxIdle \in TxCall /\ TxIdle.pc = "idle"
    <2>1. <<>> \in Seq(TxBlock)
      OBVIOUS
    <2>2. QED
      BY <2>1 DEF TxIdle, TxCall, TxPcs, TxOps, TxAgrees
  <1>8. TxTypeOK
    <2>1. txDoc \in Seq(TxBlock) /\ issued \in Seq(Nat) /\ txLog \in Seq(TxEntry) /\ txHeld \in Nat /\ txCalls \in Nat
      BY <1>1
    <2>2. txJobs \in [TxSlots -> TxSlot] /\ txFib \in [TxFibers -> TxCall]
      BY <1>1, <1>6, <1>7
    <2>3. QED
      BY <2>1, <2>2, <1>1, <1>5 DEF TxTypeOK
  <1>9. HandlesHold /\ SlotsHold
    BY <1>1, <1>2, <1>6 DEF HandlesHold, SlotsHold
  <1>10. DocHolds
    BY <1>2, <1>3, <1>4 DEF DocHolds, OneOpenBlock
  <1>11. LogHolds
    BY <1>1, <1>2, <1>7 DEF LogHolds, WritesTogether, UnderWay
  <1>12. PicksHold
    BY <1>1, <1>2, <1>6 DEF PicksHold
  <1>13. HeldBounded
    BY <1>1, <1>3, TranscriptAssumption DEF HeldBounded, TranscriptAssumption
  <1>14. TurnHeld
    BY <1>1, <1>7, TranscriptAssumption DEF TurnHeld, TranscriptAssumption
  <1>15. \A f \in TxFibers : TxCallHolds(txFib[f]) /\ InLog(txFib[f])
    BY <1>1, <1>7 DEF TxCallHolds, InLog, UnderWay
  <1>16. QED
    BY <1>8, <1>9, <1>10, <1>11, <1>12, <1>13, <1>14, <1>15 DEF TxInv

\* Every step keeps the invariant.
LEMMA TxNextInv == TxInv /\ [TxNext]_txVars => TxInv'
  <1> SUFFICES ASSUME TxInv, [TxNext]_txVars PROVE TxInv'
    OBVIOUS
  <1>1. CASE UNCHANGED txVars
    BY <1>1, StillStep DEF txVars
  <1>2. CASE TxNext
    <2>1. PICK f \in TxFibers :
            \/ jacl_transcript_job(f) \/ CallJob(f) \/ CallShell(f) \/ CtlPoint(f)
            \/ transcript_wait(f) \/ UnderTurn(f)
            \/ cancel(f) \/ jacl_legacy_job(f) \/ LegacyScreen(f) \/ LegacyClose(f) \/ LegacyCancel(f)
      BY <1>2 DEF TxNext
    <2>2. CASE jacl_transcript_job(f)
      BY <2>2, JobStep
    <2>3. CASE CallJob(f)
      BY <2>3, CallJobStep
    <2>4. CASE CallShell(f)
      BY <2>4, CallShellStep
    <2>5. CASE CtlPoint(f) \/ LegacyClose(f) \/ LegacyCancel(f)
      BY <2>5, QuietSteps
    <2>6. CASE transcript_wait(f)
      BY <2>6, WaitStep
    <2>7. CASE UnderTurn(f)
      <3>1. CASE transcript_done(f)
        BY <3>1, DoneStep
      <3>2. CASE job_block(f)
        BY <3>2, JobBlockStep
      <3>3. CASE jacl_transcript_output(f)
        BY <3>3, OutputStep
      <3>4. CASE WritePart(f)
        BY <3>4, WriteStep
      <3>5. CASE PushValue(f)
        BY <3>5, PushStep
      <3>6. CASE jacl_transcript_flush(f)
        BY <3>6, FlushStep
      <3>7. CASE transcript_commit(f)
        BY <3>7, CommitStep
      <3>8. CASE job_pipeline_done(f)
        BY <3>8, PipedStep
      <3>9. CASE jacl_transcript_job_end(f)
        BY <3>9, JobEndStep
      <3>10. CASE jacl_transcript_write(f)
        BY <3>10, PutStep
      <3>11. CASE jacl_transcript_end(f)
        BY <3>11, CloseStep
      <3>12. CASE AddFails(f)
        BY <3>12, FailStep
      <3>13. QED
        BY <2>7, <3>1, <3>2, <3>3, <3>4, <3>5, <3>6, <3>7, <3>8, <3>9, <3>10, <3>11, <3>12 DEF UnderTurn
    <2>8. CASE cancel(f)
      BY <2>8, StillStep DEF cancel
    <2>9. CASE jacl_legacy_job(f) \/ LegacyScreen(f)
      BY <2>9, LegacySteps
    <2>10. QED
      BY <2>1, <2>2, <2>3, <2>4, <2>5, <2>6, <2>7, <2>8, <2>9
  <1>3. QED
    BY <1>1, <1>2

\* The transcript's inductive invariant holds in every reachable state (transcript_unir.c).
THEOREM TranscriptInvariant == TxSpec => []TxInv
  BY TxInitInv, TxNextInv, PTL DEF TxSpec

\* What the invariant says of picks and handles.
LEMMA TxInvSound == TxInv => WritesTogether /\ HandleNames /\ OneOpenBlock /\ HeldBounded /\ TurnHeld /\ PicksExact
  <1> SUFFICES ASSUME TxInv PROVE WritesTogether /\ HandleNames /\ OneOpenBlock /\ HeldBounded /\ TurnHeld /\ PicksExact
    OBVIOUS
  <1>1. WritesTogether /\ OneOpenBlock /\ HeldBounded /\ TurnHeld
    BY DEF TxInv, LogHolds, DocHolds
  <1>2. HandleNames
    BY DEF TxInv, HandlesHold, HandleNames, job_of_handle
  <1>3. PicksExact
    <2>1. ASSUME NEW b \in DOMAIN txDoc, \E i \in DOMAIN tx.refs : tx.refs[i].block = b,
                 \A i \in DOMAIN txLog : txLog[i].block = b => ~txLog[i].lost,
                 NEW i \in DOMAIN txLog, txLog[i].block = b
          PROVE  jacl_transcript_pick(b, Rank(txLog, b, i)) = txLog[i].call
      <3>1. ~NoRefs(b) /\ ~NameLost(b)
        BY <2>1 DEF NoRefs, NameLost
      <3>2. Matched(b)
        BY <3>1 DEF TxInv, PicksHold
      <3>3. PICK at : at = Nth(b, Rank(txLog, b, i)) /\ at # {} /\ \A k \in at : tx.refs[k].name = txLog[i].call
        BY <3>2, <2>1 DEF Matched
      <3>4. PICK k \in at : k = CHOOSE x \in at : TRUE
        BY <3>3
      <3>5. jacl_transcript_pick(b, Rank(txLog, b, i)) = tx.refs[k].name
        BY <3>3, <3>4 DEF jacl_transcript_pick
      <3>6. QED
        BY <3>3, <3>4, <3>5
    <2>2. QED
      BY <2>1 DEF PicksExact
  <1>4. QED
    BY <1>1, <1>2, <1>3

\* What a step adds lands in an open block of the caller's own.
LEMMA TxLands ==
  TxInv /\ [TxNext]_txVars =>
    [Len(txLog') > Len(txLog) =>
       LET e == Last(txLog') IN
       /\ txDoc[e.block].by = e.via /\ txDoc[e.block].state = "open"
       /\ e.via >= 0 => job_of_handle(e.via)]_txVars
  <1> SUFFICES ASSUME TxInv, [TxNext]_txVars, Len(txLog') > Len(txLog)
               PROVE  LET e == Last(txLog') IN
                      /\ txDoc[e.block].by = e.via /\ txDoc[e.block].state = "open"
                      /\ e.via >= 0 => job_of_handle(e.via)
    OBVIOUS
  <1>0. txLog \in Seq(TxEntry) /\ TxTypeOK /\ Len(txLog) \in Nat
    BY TurnTypes, TxTypes
  <1>1. txLog' # txLog
    BY <1>0
  <1>2. PICK f \in TxFibers : WritePart(f) \/ PushValue(f)
    <2>1. TxNext
      BY <1>1 DEF txVars
    <2>2. PICK f \in TxFibers :
            \/ jacl_transcript_job(f) \/ CallJob(f) \/ CallShell(f) \/ CtlPoint(f)
            \/ transcript_wait(f) \/ UnderTurn(f)
            \/ cancel(f) \/ jacl_legacy_job(f) \/ LegacyScreen(f) \/ LegacyClose(f) \/ LegacyCancel(f)
      BY <2>1 DEF TxNext
    <2>3. ~jacl_transcript_job(f) /\ ~CallJob(f) /\ ~CallShell(f) /\ ~CtlPoint(f) /\ ~transcript_wait(f) /\ ~cancel(f)
          /\ ~jacl_legacy_job(f) /\ ~LegacyScreen(f) /\ ~LegacyClose(f) /\ ~LegacyCancel(f)
      BY <1>1 DEF jacl_transcript_job, CallJob, CallShell, CtlPoint, transcript_wait, cancel, jacl_legacy_job,
                  LegacyScreen, LegacyClose, LegacyCancel
    <2>4. UnderTurn(f)
      BY <2>2, <2>3
    <2>5. ~transcript_done(f) /\ ~job_block(f) /\ ~jacl_transcript_output(f) /\ ~jacl_transcript_flush(f)
          /\ ~transcript_commit(f) /\ ~job_pipeline_done(f) /\ ~jacl_transcript_job_end(f)
          /\ ~jacl_transcript_write(f) /\ ~jacl_transcript_end(f) /\ ~AddFails(f)
      BY <1>1 DEF jacl_transcript_write, jacl_transcript_end, AddFails, transcript_done, job_block, jacl_transcript_output, jacl_transcript_flush, transcript_commit,
                  job_pipeline_done, jacl_transcript_job_end
    <2>6. QED
      BY <2>4, <2>5 DEF UnderTurn
  <1>3. txFib[f].pc = "add" /\ txFib[f].op # "flush"
    BY <1>2 DEF WritePart, PushValue
  <1>4. PICK t : t = Target(txFib[f])
    OBVIOUS
  <1>5. /\ t \in DOMAIN txDoc /\ txDoc[t].by = txFib[f].h /\ txDoc[t].state = "open"
        /\ txFib[f].h >= 0 => job_of_handle(txFib[f].h)
    BY <1>3, <1>4, AddsTo
  <1>6. PICK e : txLog' = Append(txLog, e) /\ e.block = t /\ e.via = txFib[f].h
    <2>1. CASE WritePart(f)
      <3>1. txLog' = Append(txLog, [call |-> txFib[f].call, block |-> Target(txFib[f]), n |-> Part(txFib[f]),
                                    via |-> txFib[f].h, lost |-> FALSE])
        BY <2>1, <1>1 DEF WritePart
      <3>2. PICK e : e = [call |-> txFib[f].call, block |-> Target(txFib[f]), n |-> Part(txFib[f]),
                          via |-> txFib[f].h, lost |-> FALSE]
        OBVIOUS
      <3>3. e.block = t /\ e.via = txFib[f].h
        BY <3>2, <1>4
      <3>4. QED
        BY <3>1, <3>2, <3>3
    <2>2. CASE PushValue(f)
      <3>1. PICK lost : txLog' = Append(txLog, [call |-> txFib[f].call, block |-> Target(txFib[f]), n |-> 1,
                                                via |-> txFib[f].h, lost |-> lost])
        BY <2>2 DEF PushValue
      <3>2. PICK e : e = [call |-> txFib[f].call, block |-> Target(txFib[f]), n |-> 1,
                          via |-> txFib[f].h, lost |-> lost]
        OBVIOUS
      <3>3. e.block = t /\ e.via = txFib[f].h
        BY <3>2, <1>4
      <3>4. QED
        BY <3>1, <3>2, <3>3
    <2>3. QED
      BY <1>2, <2>1, <2>2
  <1>7. Last(txLog') = e
    <2>1. Len(Append(txLog, e)) = Len(txLog) + 1 /\ Append(txLog, e)[Len(txLog) + 1] = e
      BY <1>0
    <2>2. QED
      BY <2>1, <1>6 DEF Last
  <1>8. QED
    BY <1>5, <1>6, <1>7

\* Output of a call lands together, in an open block of the job the caller's handle
\* names, of its text never more than the limit waits for a commit, picks name what was
\* shown, and a call under way holds the turn, whatever fails (transcript_unir.c).
THEOREM TranscriptIsSound == TxSpec => TranscriptSound
  <1>1. TxInv => WritesTogether /\ HandleNames /\ OneOpenBlock /\ HeldBounded /\ TurnHeld /\ PicksExact
    BY TxInvSound
  <1>2. TxSpec => [](WritesTogether /\ HandleNames /\ OneOpenBlock /\ HeldBounded /\ TurnHeld /\ PicksExact)
    BY <1>1, TranscriptInvariant, PTL
  <1>3. TxSpec => OutputLands
    BY TxLands, TranscriptInvariant, PTL DEF TxSpec, OutputLands
  <1>4. QED
    BY <1>2, <1>3, PTL DEF TranscriptSound
=============================================================================

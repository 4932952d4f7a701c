------------------------------- MODULE TaskCtx -------------------------------
(***************************************************************************)
(* The task-isolated $ctx: one runtime global, jacl_ctx_cur (builtins.c),  *)
(* that resume_job (sched.c) swaps around every slice of a job.  The job   *)
(* keeps its own context in i64@22 while it is not running.                *)
(*                                                                         *)
(* jacl_ctx_cur is a plain global: each load and store is a step of its    *)
(* own.  A context is a number; 0 is the empty one.                        *)
(***************************************************************************)
EXTENDS Integers, FiniteSets

CONSTANTS
  NWorkers,  \* jacl_pool_workers
  NJobs,     \* bound: jobs of the run, the root job included
  MaxSets    \* bound: changes of a context

ASSUME CtxAssumption == NWorkers \in Nat \ {0} /\ NJobs \in Nat \ {0} /\ MaxSets \in Nat

VARIABLES
  ctxCur,  \* jacl_ctx_cur
  jctx,    \* i64@22 of each job
  saved,   \* saved_ctx of each worker's resume_job
  jobs,    \* "unborn", "ready", "busy" or "done"
  cur,     \* each worker's job, or None
  pc,
  sets,    \* changes so far; each makes a context no job had before
  mine     \* what $ctx is to the job: its snapshot and its own changes

vars == <<ctxCur, jctx, saved, jobs, cur, pc, sets, mine>>

Workers == 0 .. NWorkers - 1
Jobs    == 0 .. NJobs - 1
None    == -1

\* next_owner: the root job is main's, spawned jobs go round the pool.
owner(j) == IF j = 0 THEN 0 ELSE (j - 1) % NWorkers

Init ==
  /\ ctxCur = 0 /\ sets = 0
  /\ jctx = [j \in Jobs |-> 0] /\ mine = [j \in Jobs |-> 0]
  /\ saved = [w \in Workers |-> 0]
  /\ jobs = [j \in Jobs |-> IF j = 0 THEN "ready" ELSE "unborn"]
  /\ cur = [w \in Workers |-> None]
  /\ pc = [w \in Workers |-> "loop"]

\* A worker takes up one of its jobs: resume_job saves the worker's context.
SaveCtx(w) ==
  /\ pc[w] = "loop"
  /\ \E j \in Jobs :
       /\ jobs[j] = "ready" /\ owner(j) = w
       /\ cur' = [cur EXCEPT ![w] = j]
       /\ jobs' = [jobs EXCEPT ![j] = "busy"]
  /\ saved' = [saved EXCEPT ![w] = ctxCur]
  /\ pc' = [pc EXCEPT ![w] = "install"]
  /\ UNCHANGED <<ctxCur, jctx, sets, mine>>

InstallCtx(w) ==
  /\ pc[w] = "install"
  /\ ctxCur' = jctx[cur[w]]
  /\ pc' = [pc EXCEPT ![w] = "run"]
  /\ UNCHANGED <<jctx, saved, jobs, cur, sets, mine>>

\* The job's code changes its context: jacl_ctx_set_field, or the
\* jacl_ctx_swap of a with-ctx.
jacl_ctx_set(w) ==
  /\ pc[w] = "run" /\ sets < MaxSets
  /\ sets' = sets + 1
  /\ ctxCur' = sets + 1
  /\ mine' = [mine EXCEPT ![cur[w]] = sets + 1]
  /\ UNCHANGED <<jctx, saved, jobs, cur, pc>>

\* make_job: the new job snapshots its spawner's context.
make_job(w) ==
  /\ pc[w] = "run"
  /\ \E k \in Jobs :
       /\ jobs[k] = "unborn" /\ \A i \in 0 .. k - 1 : jobs[i] # "unborn"
       /\ jobs' = [jobs EXCEPT ![k] = "ready"]
       /\ jctx' = [jctx EXCEPT ![k] = ctxCur]
       /\ mine' = [mine EXCEPT ![k] = mine[cur[w]]]
  /\ UNCHANGED <<ctxCur, saved, cur, pc, sets>>

\* Mutant: the changes of the slice are not captured.
MutNoCapture(w) ==
  /\ pc[w] = "run"
  /\ pc' = [pc EXCEPT ![w] = "restore"]
  /\ UNCHANGED <<ctxCur, jctx, saved, jobs, cur, sets, mine>>

\* The slice ends: the job's context is captured, then the worker's restored.
CaptureCtx(w) ==
  /\ pc[w] = "run"
  /\ jctx' = [jctx EXCEPT ![cur[w]] = ctxCur]
  /\ pc' = [pc EXCEPT ![w] = "restore"]
  /\ UNCHANGED <<ctxCur, saved, jobs, cur, sets, mine>>

\* Mutant: the worker's context is not restored.
MutNoRestore(w) ==
  /\ pc[w] = "restore"
  /\ \E s \in {"ready", "done"} : jobs' = [jobs EXCEPT ![cur[w]] = s]
  /\ cur' = [cur EXCEPT ![w] = None]
  /\ pc' = [pc EXCEPT ![w] = "loop"]
  /\ UNCHANGED <<ctxCur, jctx, saved, sets, mine>>

\* ... and the job is done, or will run again.
RestoreCtx(w) ==
  /\ pc[w] = "restore"
  /\ ctxCur' = saved[w]
  /\ \E s \in {"ready", "done"} : jobs' = [jobs EXCEPT ![cur[w]] = s]
  /\ cur' = [cur EXCEPT ![w] = None]
  /\ pc' = [pc EXCEPT ![w] = "loop"]
  /\ UNCHANGED <<jctx, saved, sets, mine>>

Step(w) ==
  \/ SaveCtx(w) \/ InstallCtx(w) \/ jacl_ctx_set(w) \/ make_job(w)
  \/ CaptureCtx(w) \/ RestoreCtx(w)

\* The program is over once the root job is done.
Over == jobs[0] = "done" /\ UNCHANGED vars

Next == (jobs[0] # "done" /\ \E w \in Workers : Step(w)) \/ Over

Spec == Init /\ [][Next]_vars

-----------------------------------------------------------------------------
(* Properties *)

\* sched.c:58: "Each task snapshots it at spawn and runs with its own copy, so
\* a parent's later `set $ctx->...` doesn't reach an in-flight task and a task's
\* mutations don't leak back": while a job runs, $ctx is its own.
CtxIsolated == \A w \in Workers : pc[w] = "run" => ctxCur = mine[cur[w]]

\* Between slices the worker's own context (empty) is back, so what a job set
\* reaches no code that runs outside jobs.
AmbientRestored == (\A w \in Workers : pc[w] = "loop") => ctxCur = 0
=============================================================================

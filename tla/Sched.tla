-------------------------------- MODULE Sched --------------------------------
(***************************************************************************)
(* The persistent M:N scheduler of the TEMEN runtime (runtime/sched.c).    *)
(* A job is a stackful fiber pinned to one worker.  It is queued on its    *)
(* owner's ready queue, running, parked on the job it awaits, parked on a  *)
(* VM wait (the owner's blocked list), or suspended by job control.        *)
(*                                                                         *)
(* A critical section under slock is one step; the one loop that holds the *)
(* lock over several jobs (the pop loop) holds `slk' between its steps.    *)
(* The three intrusive lists share the link p[12]; they are sequences      *)
(* here, which OnePlace justifies: no job is ever on two of them.          *)
(*                                                                         *)
(* What a job's code does is chosen by \E: spawn, await any job, sleep,    *)
(* loop, end, return, and cancel, suspend or resume any job.  Futex waits  *)
(* have a 1 ms timeout, so an idle worker may look again at any time.      *)
(***************************************************************************)
EXTENDS Integers, Sequences, FiniteSets

CONSTANTS
  NWorkers,  \* jacl_pool_workers; worker 0 is main
  NJobs,     \* bound: jobs of the run, the root job included
  RQCap,     \* JACL_RQ_CAP (1024)
  NStacks,   \* JACL_TASK_STACKS (64)
  MaxOps     \* bound: operations the jobs' code performs

ASSUME SchedAssumption ==
  /\ NWorkers \in Nat \ {0} /\ NJobs \in Nat \ {0}
  /\ RQCap \in Nat \ {0} /\ NStacks \in Nat /\ MaxOps \in Nat

VARIABLES
  jstate,    \* p[0]: "none" before make_job, "new", "done"
  owner,     \* p[20]: the worker the job is pinned to
  result,    \* i64@8
  arg,       \* i64@10: what the job's suspend returns when it is resumed
  waiters,   \* i64@14 and the p[12] chain: the jobs parked on this one
  target,    \* i64@26: the job this one is parked on
  flags,     \* p[24]
  inRq,      \* p[18]
  claim,     \* p[19]
  stack,     \* i64@16: its fiber's data stack, 0 for NULL
  fiber,     \* i64@6: whether its fiber exists, and what it is suspended in
  awaited,   \* the job its fiber last called jacl_await on
  rq,        \* jacl_rq: per-worker ready queues
  blocked,   \* jacl_blocked_head: per-worker VM-parked jobs
  suspended, \* jacl_suspended_head
  freeStacks,\* jacl_task_stack_free
  shutdown, poolStarted, ownerRr, slk,
  pc, cur, oc, out,  \* where each worker is, its job, the slice's outcome
  sweep,     \* "none", or why the worker re-polls: "idle" or "ctl"
  rest,      \* the blocked jobs this re-poll has still to visit
  ops

jobVars  == <<jstate, owner, result, arg, waiters, target, flags, inRq, claim, stack, fiber, awaited>>
listVars == <<rq, blocked, suspended, freeStacks>>
poolVars == <<shutdown, poolStarted, ownerRr, slk>>
wVars    == <<pc, cur, oc, out, sweep, rest>>
vars     == <<jobVars, listVars, poolVars, wVars, ops>>

Workers == 0 .. NWorkers - 1
Jobs    == 0 .. NJobs - 1
Root    == 0
None    == -1

\* Values.  A job's own return value is its number.
Nil       == -1
Cancelled == -2   \* jacl_cancelled_err
Ended     == -3   \* the value handed to jacl_task_end
\* Suspend values that are not a target.
Prime == -11
Ctl   == -12

FlagSet  == {"cancel", "suspend", "held", "ends"}
\* Where a job's fiber is: unstarted, about to prime, in the job's code, or
\* suspended in an await, at a job-control point, at sleep's own job-control
\* point ("nap") or in a VM wait; "ret" once it has returned.
FiberSet == {"none", "start", "go", "await", "ctl", "nap", "wait", "ret"}

Elems(s) == {s[i] : i \in DOMAIN s}

\* list_unlink: the first link to j goes past it.
Without(s, j) ==
  IF j \in Elems(s)
    THEN LET i == CHOOSE n \in DOMAIN s : s[n] = j /\ \A m \in 1 .. n - 1 : s[m] # j
         IN  SubSeq(s, 1, i - 1) \o SubSeq(s, i + 1, Len(s))
    ELSE s

Exists(j) == jstate[j] # "none"
Live(j)   == jstate[j] = "new"
Unlocked  == slk = None

Init ==
  /\ jstate = [j \in Jobs |-> IF j = Root THEN "new" ELSE "none"]
  /\ owner = [j \in Jobs |-> 0]
  /\ result = [j \in Jobs |-> 0] /\ arg = [j \in Jobs |-> 0]
  /\ waiters = [j \in Jobs |-> <<>>] /\ target = [j \in Jobs |-> None]
  /\ flags = [j \in Jobs |-> {}]
  /\ inRq = [j \in Jobs |-> IF j = Root THEN 1 ELSE 0]
  /\ claim = [j \in Jobs |-> 0] /\ stack = [j \in Jobs |-> 0]
  /\ fiber = [j \in Jobs |-> "none"] /\ awaited = [j \in Jobs |-> None]
  /\ rq = [w \in Workers |-> IF w = 0 THEN <<Root>> ELSE <<>>]
  /\ blocked = [w \in Workers |-> <<>>] /\ suspended = <<>>
  /\ freeStacks = [i \in 1 .. NStacks |-> i]
  /\ shutdown = FALSE /\ poolStarted = FALSE /\ ownerRr = 0 /\ slk = None
  /\ pc = [w \in Workers |-> IF w = 0 THEN "loop" ELSE "off"]
  /\ cur = [w \in Workers |-> None]
  /\ oc = [w \in Workers |-> 0] /\ out = [w \in Workers |-> 0]
  /\ sweep = [w \in Workers |-> "none"] /\ rest = [w \in Workers |-> <<>>]
  /\ ops = 0

-----------------------------------------------------------------------------
(* Pieces of the critical sections.  Each takes the queues (q, ir) as the    *)
(* steps before it in the same section left them.                            *)

\* rq_push: to the queue of the job's owner w, unless the job is queued already;
\* a job that finds the queue full is dropped.
rq_push(r, j, w) ==
  IF r.ir[j] = 1 \/ Len(r.q[w]) >= RQCap THEN r
  ELSE [q |-> [r.q EXCEPT ![w] = Append(@, j)], ir |-> [r.ir EXCEPT ![j] = 1]]

\* rq_push of each job of s in turn.
PushAll(s, q, ir) ==
  LET after[i \in 0 .. Len(s)] ==
        IF i = 0 THEN [q |-> q, ir |-> ir] ELSE rq_push(after[i - 1], s[i], owner[s[i]])
  IN  rq' = after[Len(s)].q /\ inRq' = after[Len(s)].ir

\* Mutant: a woken waiter is still marked as parked on the job.
MutTargetKept(j, v, q, ir, ws, tg) ==
  LET woken == Elems(ws[j])
  IN  /\ result' = [result EXCEPT ![j] = v]
      /\ jstate' = [jstate EXCEPT ![j] = "done"]
      /\ waiters' = [ws EXCEPT ![j] = <<>>]
      /\ target' = tg
      /\ arg' = [k \in Jobs |-> IF k \in woken THEN v ELSE arg[k]]
      /\ PushAll(ws[j], q, ir)
      /\ shutdown' = (shutdown \/ j = Root)

\* Mutant: the waiters are woken without the result.
MutArgKept(j, v, q, ir, ws, tg) ==
  LET woken == Elems(ws[j])
  IN  /\ result' = [result EXCEPT ![j] = v]
      /\ jstate' = [jstate EXCEPT ![j] = "done"]
      /\ waiters' = [ws EXCEPT ![j] = <<>>]
      /\ target' = [k \in Jobs |-> IF k \in woken THEN None ELSE tg[k]]
      /\ arg' = arg
      /\ PushAll(ws[j], q, ir)
      /\ shutdown' = (shutdown \/ j = Root)

\* complete_job: publish the result, mark DONE, wake the waiters.
complete_job(j, v, q, ir, ws, tg) ==
  LET woken == Elems(ws[j])
  IN  /\ result' = [result EXCEPT ![j] = v]
      /\ jstate' = [jstate EXCEPT ![j] = "done"]
      /\ waiters' = [ws EXCEPT ![j] = <<>>]
      /\ target' = [k \in Jobs |-> IF k \in woken THEN None ELSE tg[k]]
      /\ arg' = [k \in Jobs |-> IF k \in woken THEN v ELSE arg[k]]
      /\ PushAll(ws[j], q, ir)
      /\ shutdown' = (shutdown \/ j = Root)

\* Mutant: the NULL stack of an unstarted job is released too.
MutReleaseNull(j) == freeStacks' = Append(freeStacks, stack[j])

release_task_stack(j) ==
  freeStacks' = IF stack[j] = 0 THEN freeStacks ELSE Append(freeStacks, stack[j])

\* Mutant: the free count is not decremented.
MutGrabKeeps(j) ==
  LET n == Len(freeStacks) IN
  /\ stack' = [stack EXCEPT ![j] = IF n = 0 THEN 0 ELSE freeStacks[n]]
  /\ freeStacks' = freeStacks

\* grab_task_stack: the last one released, or NULL.
grab_task_stack(j) ==
  LET n == Len(freeStacks) IN
  /\ stack' = [stack EXCEPT ![j] = IF n = 0 THEN 0 ELSE freeStacks[n]]
  /\ freeStacks' = SubSeq(freeStacks, 1, n - 1)

\* Mutant: a cancelled job keeps its stack.
MutCancelLeaksStack(j, q, ir, ws, tg) ==
  /\ freeStacks' = freeStacks
  /\ stack' = [stack EXCEPT ![j] = 0]
  /\ complete_job(j, IF "ends" \in flags[j] THEN Ended ELSE Cancelled, q, ir, ws, tg)

\* job_cancel_now: end a job that is not running.
job_cancel_now(j, q, ir, ws, tg) ==
  /\ release_task_stack(j)
  /\ stack' = [stack EXCEPT ![j] = 0]
  /\ complete_job(j, IF "ends" \in flags[j] THEN Ended ELSE Cancelled, q, ir, ws, tg)

\* The suspended half of job_ctl_take: hold the job.
Hold(j) ==
  /\ flags' = [flags EXCEPT ![j] = @ \cup {"held"}]
  /\ suspended' = <<j>> \o suspended

-----------------------------------------------------------------------------
(* worker_loop *)

\* worker_thread: a pool thread starts.
worker_thread(w) ==
  /\ pc[w] = "off" /\ poolStarted
  /\ pc' = [pc EXCEPT ![w] = "loop"]
  /\ UNCHANGED <<jobVars, listVars, poolVars, cur, oc, out, sweep, rest, ops>>

\* Pop a job and act on a pending request (job_ctl_take), holding slock until
\* a job that should run, or an empty queue, is found.
Pop(w) ==
  /\ \/ pc[w] = "loop" /\ Unlocked
     \/ pc[w] = "pop"
  /\ UNCHANGED <<owner, claim, fiber, awaited, blocked, poolStarted, ownerRr, oc, out, sweep, rest, ops>>
  /\ IF rq[w] = <<>>
       THEN /\ pc' = [pc EXCEPT ![w] = "nojob"]
            /\ slk' = None
            /\ UNCHANGED <<jstate, result, arg, waiters, target, flags, inRq, stack, rq, suspended, freeStacks, shutdown, cur>>
       ELSE LET j  == Head(rq[w])
                q  == [rq EXCEPT ![w] = Tail(@)]
                ir == [inRq EXCEPT ![j] = 0]
            IN  \/ /\ "cancel" \in flags[j]
                   /\ job_cancel_now(j, q, ir, waiters, target)
                   /\ pc' = [pc EXCEPT ![w] = "pop"] /\ slk' = w
                   /\ UNCHANGED <<flags, suspended, cur>>
                \/ /\ "cancel" \notin flags[j] /\ "suspend" \in flags[j]
                   /\ Hold(j)
                   /\ rq' = q /\ inRq' = ir
                   /\ pc' = [pc EXCEPT ![w] = "pop"] /\ slk' = w
                   /\ UNCHANGED <<jstate, result, arg, waiters, target, stack, freeStacks, shutdown, cur>>
                \/ /\ flags[j] \cap {"cancel", "suspend"} = {}
                   /\ rq' = q /\ inRq' = ir
                   /\ cur' = [cur EXCEPT ![w] = j]
                   /\ pc' = [pc EXCEPT ![w] = "resume"] /\ slk' = None
                   /\ UNCHANGED <<jstate, result, arg, waiters, target, flags, stack, suspended, freeStacks, shutdown>>

\* Mutant: a worker with nothing parked never looks at the shutdown flag.
MutIdleForever(w) ==
  /\ pc[w] = "nojob"
  /\ \/ /\ blocked[w] # <<>>
        /\ sweep' = [sweep EXCEPT ![w] = "idle"]
        /\ rest' = [rest EXCEPT ![w] = blocked[w]]
        /\ pc' = [pc EXCEPT ![w] = "poll"]
     \/ /\ blocked[w] = <<>>
        /\ pc' = [pc EXCEPT ![w] = "loop"]
        /\ UNCHANGED <<sweep, rest>>
  /\ UNCHANGED <<jobVars, listVars, poolVars, cur, oc, out, ops>>

\* No ready job: re-poll the blocked ones, leave if the pool shut down, or idle.
NoJob(w) ==
  /\ pc[w] = "nojob"
  /\ \/ /\ blocked[w] # <<>>
        /\ sweep' = [sweep EXCEPT ![w] = "idle"]
        /\ rest' = [rest EXCEPT ![w] = blocked[w]]
        /\ pc' = [pc EXCEPT ![w] = "poll"]
     \/ /\ blocked[w] = <<>>
        /\ pc' = [pc EXCEPT ![w] = IF shutdown THEN "exit" ELSE "loop"]
        /\ UNCHANGED <<sweep, rest>>
  /\ UNCHANGED <<jobVars, listVars, poolVars, cur, oc, out, ops>>

\* resume_job: claim the job, and give an unstarted one a fiber and a stack
\* (NULL when the pool has none left).
resume_job(w) ==
  LET j == cur[w] IN
  /\ pc[w] = "resume"
  /\ IF claim[j] = 1
       THEN /\ oc' = [oc EXCEPT ![w] = 2]
            /\ pc' = [pc EXCEPT ![w] = "fin"]
            /\ UNCHANGED <<claim, fiber, stack, freeStacks>>
       ELSE /\ claim' = [claim EXCEPT ![j] = 1]
            /\ pc' = [pc EXCEPT ![w] = "run"]
            /\ UNCHANGED oc
            /\ \/ /\ fiber[j] = "none" /\ Unlocked
                  /\ fiber' = [fiber EXCEPT ![j] = IF j = Root THEN "start" ELSE "go"]
                  /\ grab_task_stack(j)
               \/ /\ fiber[j] # "none"
                  /\ fiber' = [fiber EXCEPT ![j] = IF @ \in {"wait", "nap"} THEN @ ELSE "go"]
                  /\ UNCHANGED <<stack, freeStacks>>
  /\ UNCHANGED <<jstate, owner, result, arg, waiters, target, flags, inRq, awaited,
                 rq, blocked, suspended, poolVars, cur, out, sweep, rest, ops>>

\* The slice ends with outcome o: the claim is released, and the worker goes
\* on to the outcome, or to the next blocked job when this one is parked still.
EndSlice(w, o, x) ==
  /\ claim' = [claim EXCEPT ![cur[w]] = 0]
  /\ oc' = [oc EXCEPT ![w] = o]
  /\ out' = [out EXCEPT ![w] = x]
  /\ pc' = [pc EXCEPT ![w] = IF sweep[w] = "none" THEN "fin" ELSE IF o = 3 THEN "poll" ELSE "unlink"]

\* Mutant: the awaited job is not looked at again under the lock.
MutNoRecheck(j, t) == t = j

\* An await that is answered at once: of the job itself, or of a finished job.
AnswerNow(j, t) == t = j \/ jstate[t] = "done"

\* finish_job_outcome: under slock.
finish_job_outcome(w) ==
  LET j == cur[w]
      t == out[w]
      Keep(q) == /\ PushAll(q, rq, inRq)
                 /\ UNCHANGED <<jstate, result, waiters, target, flags, stack, suspended, freeStacks, shutdown>>
      Requeue(v) == arg' = [arg EXCEPT ![j] = v] /\ Keep(<<j>>)
  IN
  /\ pc[w] = "fin" /\ oc[w] # 3 /\ Unlocked
  /\ IF oc[w] = 2
       THEN Keep(<<>>) /\ UNCHANGED arg   \* another worker has the claim
       ELSE
          \/ /\ oc[w] = 0
             /\ release_task_stack(j)
             /\ complete_job(j, t, rq, inRq, waiters, target)
             /\ UNCHANGED <<flags, stack, suspended>>
          \/ /\ oc[w] = 1 /\ t = Prime /\ Requeue(Nil)
          \/ /\ oc[w] = 1 /\ t = Ctl
             /\ \/ /\ "cancel" \in flags[j]
                   /\ job_cancel_now(j, rq, inRq, waiters, target)
                   /\ UNCHANGED <<flags, suspended>>
                \/ /\ "cancel" \notin flags[j] /\ "suspend" \in flags[j]
                   /\ Hold(j)
                   /\ arg' = [arg EXCEPT ![j] = Nil]
                   /\ UNCHANGED <<jstate, result, waiters, target, inRq, stack, rq, freeStacks, shutdown>>
                \/ /\ flags[j] \cap {"cancel", "suspend"} = {} /\ Requeue(Nil)
          \/ /\ oc[w] = 1 /\ t \in Jobs
             /\ \/ /\ "cancel" \in flags[j]
                   /\ job_cancel_now(j, rq, inRq, waiters, target)
                   /\ UNCHANGED <<flags, suspended>>
                \/ /\ "cancel" \notin flags[j] /\ AnswerNow(j, t)
                   /\ Requeue(IF t = j THEN Nil ELSE result[t])
                \/ /\ "cancel" \notin flags[j] /\ ~AnswerNow(j, t)
                   /\ waiters' = [waiters EXCEPT ![t] = <<j>> \o @]
                   /\ target' = [target EXCEPT ![j] = t]
                   /\ UNCHANGED <<jstate, result, arg, flags, inRq, stack, rq, suspended, freeStacks, shutdown>>
  /\ pc' = [pc EXCEPT ![w] = IF sweep[w] = "none" THEN "after" ELSE "poll"]
  /\ UNCHANGED <<owner, claim, fiber, awaited, blocked, poolStarted, ownerRr, slk, cur, oc, out, sweep, rest, ops>>

\* A VM-parked fiber (outcome 3) joins the blocked list.
PushBlocked(w) ==
  /\ pc[w] = "fin" /\ oc[w] = 3 /\ Unlocked
  /\ blocked' = [blocked EXCEPT ![w] = <<cur[w]>> \o @]
  /\ pc' = [pc EXCEPT ![w] = "after"]
  /\ UNCHANGED <<jobVars, rq, suspended, freeStacks, poolVars, cur, oc, out, sweep, rest, ops>>

RootDone == jstate[Root] = "done"

\* Mutant: a yield does not poll the parked fibers.
MutNoPoll(w) == FALSE

\* The slice ended at a job-control point while fibers are parked here.
YieldPolls(w) == oc[w] = 1 /\ out[w] = Ctl /\ blocked[w] # <<>>

\* After a slice: a job that only yielded lets the blocked ones be polled; main
\* leaves once the root job is done.
AfterSlice(w) ==
  /\ pc[w] = "after"
  /\ \/ /\ YieldPolls(w)
        /\ sweep' = [sweep EXCEPT ![w] = "ctl"]
        /\ rest' = [rest EXCEPT ![w] = blocked[w]]
        /\ pc' = [pc EXCEPT ![w] = "poll"]
     \/ /\ ~YieldPolls(w)
        /\ pc' = [pc EXCEPT ![w] = IF w = 0 /\ RootDone THEN "exit" ELSE "loop"]
        /\ UNCHANGED <<sweep, rest>>
  /\ UNCHANGED <<jobVars, listVars, poolVars, cur, oc, out, ops>>

\* repoll_blocked: the next blocked job, or the end of the sweep.
repoll_blocked(w) ==
  /\ pc[w] = "poll"
  /\ \/ /\ rest[w] # <<>>
        /\ cur' = [cur EXCEPT ![w] = Head(rest[w])]
        /\ rest' = [rest EXCEPT ![w] = Tail(@)]
        /\ pc' = [pc EXCEPT ![w] = "resume"]
        /\ UNCHANGED sweep
     \/ /\ rest[w] = <<>>
        /\ sweep' = [sweep EXCEPT ![w] = "none"]
        /\ pc' = [pc EXCEPT ![w] = IF (w = 0 /\ RootDone) \/ (sweep[w] = "idle" /\ shutdown)
                                     THEN "exit" ELSE "loop"]
        /\ UNCHANGED <<cur, rest>>
  /\ UNCHANGED <<jobVars, listVars, poolVars, oc, out, ops>>

\* A polled job that progressed leaves the blocked list.
Unlink(w) ==
  /\ pc[w] = "unlink" /\ Unlocked
  /\ blocked' = [blocked EXCEPT ![w] = Without(@, cur[w])]
  /\ pc' = [pc EXCEPT ![w] = "fin"]
  /\ UNCHANGED <<jobVars, rq, suspended, freeStacks, poolVars, cur, oc, out, sweep, rest, ops>>

-----------------------------------------------------------------------------
(* The code of the running job.  An operation suspends the fiber, which ends *)
(* the slice, or goes on.                                                    *)

Running(w, f) == pc[w] = "run" /\ fiber[cur[w]] = f
Op == ops < MaxOps /\ ops' = ops + 1

\* The fiber suspends at f, giving x, with outcome o.
Suspend(w, f, o, x) ==
  /\ fiber' = [fiber EXCEPT ![cur[w]] = f]
  /\ EndSlice(w, o, x)

\* What suspending leaves alone.
SuspendOnly == <<jstate, owner, result, arg, waiters, target, inRq, stack, listVars, poolVars, cur, sweep, rest>>

\* The compiled entry of the root job suspends once before its body.
PrimeRoot(w) ==
  /\ Running(w, "start")
  /\ Suspend(w, "ctl", 1, Prime)
  /\ UNCHANGED <<SuspendOnly, flags, awaited, ops>>

\* The body returns.
Return(w) ==
  /\ Running(w, "go")
  /\ Suspend(w, "ret", 0, cur[w])
  /\ UNCHANGED <<SuspendOnly, flags, awaited, ops>>

\* The first spawn starts the pool; owners go round it.
jacl_spawn(w) ==
  /\ Running(w, "go") /\ Unlocked /\ Op
  /\ \E k \in Jobs :
       /\ ~Exists(k) /\ \A i \in 0 .. k - 1 : Exists(i)
       /\ jstate' = [jstate EXCEPT ![k] = "new"]
       /\ LET o == ownerRr % NWorkers
              r == rq_push([q |-> rq, ir |-> inRq], k, o) IN
            /\ owner' = [owner EXCEPT ![k] = o]
            /\ rq' = r.q /\ inRq' = r.ir
  /\ ownerRr' = ownerRr + 1
  /\ poolStarted' = TRUE
  /\ UNCHANGED <<result, arg, waiters, target, flags, claim, stack, fiber, awaited,
                 blocked, suspended, freeStacks, shutdown, slk, wVars>>

\* The futures the code may hold: any spawned job's, its own included.
Futures == {k \in Jobs \ {Root} : Exists(k)}

jacl_await(w) ==
  /\ Running(w, "go") /\ Op
  /\ \E k \in Futures :
       /\ awaited' = [awaited EXCEPT ![cur[w]] = k]
       /\ Suspend(w, "await", 1, k)
  /\ UNCHANGED <<SuspendOnly, flags>>

CtlPending(j) == flags[j] \cap {"cancel", "suspend"} # {}

\* jacl_sleep: each tick is a job-control point and then a VM wait.
jacl_sleep(w) ==
  /\ Running(w, "go") /\ Op
  /\ IF CtlPending(cur[w]) THEN Suspend(w, "nap", 1, Ctl) ELSE Suspend(w, "wait", 3, 0)
  /\ UNCHANGED <<SuspendOnly, flags, awaited>>

\* ... back from that job-control point, the tick's wait follows.
SleepOn(w) ==
  /\ Running(w, "nap")
  /\ Suspend(w, "wait", 3, 0)
  /\ UNCHANGED <<SuspendOnly, flags, awaited, ops>>

\* A re-poll of a VM-parked fiber: parked still, or its deadline has passed.
StillParked(w) ==
  /\ Running(w, "wait")
  /\ Suspend(w, "wait", 3, 0)
  /\ UNCHANGED <<SuspendOnly, flags, awaited, ops>>

WaitEnds(w) ==
  /\ Running(w, "wait")
  /\ fiber' = [fiber EXCEPT ![cur[w]] = "go"]
  /\ UNCHANGED <<SuspendOnly, flags, claim, awaited, oc, out, pc, ops>>

\* jacl_ctl_point, with a request pending.
jacl_ctl_point(w) ==
  /\ Running(w, "go") /\ CtlPending(cur[w])
  /\ Suspend(w, "ctl", 1, Ctl)
  /\ UNCHANGED <<SuspendOnly, flags, awaited, ops>>

\* The loop header that ends a slice: a job-control point, request or not.
\* A loop may do this for ever: it is not counted in ops.
jacl_loop_point(w) ==
  /\ Running(w, "go")
  /\ Suspend(w, "ctl", 1, Ctl)
  /\ UNCHANGED <<SuspendOnly, flags, awaited, ops>>

jacl_task_end(w) ==
  /\ Running(w, "go") /\ Unlocked /\ Op
  /\ flags' = [flags EXCEPT ![cur[w]] = @ \cup {"cancel", "ends"}]
  /\ Suspend(w, "ctl", 1, Ctl)
  /\ UNCHANGED <<SuspendOnly, awaited>>

\* job_request delivers nothing to a finished job, nor to the program's own.
Deliverable(w, k) == Running(w, "go") /\ Unlocked /\ Op /\ Live(k) /\ k # Root

RequestOnly == <<owner, claim, fiber, awaited, blocked, poolStarted, ownerRr, slk, wVars>>

jacl_suspend(w) ==
  \E k \in Jobs :
    /\ Deliverable(w, k)
    /\ flags' = [flags EXCEPT ![k] = @ \cup {"suspend"}]
    /\ UNCHANGED <<jstate, result, arg, waiters, target, inRq, stack, rq, suspended, freeStacks, shutdown, RequestOnly>>

\* Mutant: cancel only sets the request.
MutCancelFlagOnly(w) ==
  \E k \in Jobs :
    /\ Deliverable(w, k)
    /\ flags' = [flags EXCEPT ![k] = @ \cup {"cancel"}]
    /\ UNCHANGED <<jstate, result, arg, waiters, target, inRq, stack, rq, suspended, freeStacks, shutdown, RequestOnly>>

\* Mutant: a job on no list is taken to be stopped, and ended.
MutCancelRunning(w) ==
  \E k \in Jobs :
    /\ Deliverable(w, k)
    /\ flags' = [flags EXCEPT ![k] = @ \cup {"cancel"}]
    /\ suspended' = Without(suspended, k)
    /\ job_cancel_now(k, rq, inRq, waiters, target)
    /\ UNCHANGED RequestOnly

\* A held or an awaiting job ends here; another one at its next pop or
\* job-control point.
jacl_cancel(w) ==
  \E k \in Jobs :
    /\ Deliverable(w, k)
    /\ flags' = [flags EXCEPT ![k] = @ \cup {"cancel"}]
    /\ \/ /\ "held" \in flags[k]
          /\ suspended' = Without(suspended, k)
          /\ job_cancel_now(k, rq, inRq, waiters, target)
       \/ /\ "held" \notin flags[k] /\ target[k] # None
          /\ job_cancel_now(k, rq, inRq, [waiters EXCEPT ![target[k]] = Without(@, k)],
                            [target EXCEPT ![k] = None])
          /\ UNCHANGED suspended
       \/ /\ "held" \notin flags[k] /\ target[k] = None
          /\ UNCHANGED <<jstate, result, arg, waiters, target, inRq, stack, rq, suspended, freeStacks, shutdown>>
    /\ UNCHANGED RequestOnly

\* Mutant: resume queues a job that is not held.
MutResumeAlways(w) ==
  \E k \in Jobs :
    /\ Deliverable(w, k)
    /\ flags' = [flags EXCEPT ![k] = @ \ {"suspend", "held"}]
    /\ suspended' = Without(suspended, k)
    /\ PushAll(<<k>>, rq, inRq)
    /\ UNCHANGED <<jstate, result, arg, waiters, target, stack, freeStacks, shutdown, RequestOnly>>

jacl_resume(w) ==
  \E k \in Jobs :
    /\ Deliverable(w, k)
    /\ flags' = [flags EXCEPT ![k] = @ \ {"suspend", "held"}]
    /\ suspended' = Without(suspended, k)
    /\ PushAll(IF "held" \in flags[k] THEN <<k>> ELSE <<>>, rq, inRq)
    /\ UNCHANGED <<jstate, result, arg, waiters, target, stack, freeStacks, shutdown, RequestOnly>>

-----------------------------------------------------------------------------
WorkerLoop(w) ==
  \/ worker_thread(w) \/ Pop(w) \/ NoJob(w) \/ resume_job(w) \/ finish_job_outcome(w)
  \/ PushBlocked(w) \/ AfterSlice(w) \/ repoll_blocked(w) \/ Unlink(w)

JobCode(w) ==
  \/ PrimeRoot(w) \/ Return(w) \/ jacl_spawn(w) \/ jacl_await(w) \/ jacl_sleep(w) \/ SleepOn(w)
  \/ StillParked(w) \/ WaitEnds(w) \/ jacl_ctl_point(w) \/ jacl_loop_point(w) \/ jacl_task_end(w)
  \/ jacl_suspend(w) \/ jacl_cancel(w) \/ jacl_resume(w)

Step(w) == WorkerLoop(w) \/ JobCode(w)

AllExited == \A w \in Workers : pc[w] = "exit" \/ (pc[w] = "off" /\ ~poolStarted)

\* jacl_sched_run_main has joined the pool.
Over == AllExited /\ UNCHANGED vars

Next == (\E w \in Workers : Step(w)) \/ Over

Spec == Init /\ [][Next]_vars

-----------------------------------------------------------------------------
(* Fairness *)

\* Every worker is an OS thread that keeps running, a job's code keeps reaching
\* a return, a suspend or a loop's yield, and a sleep's deadline passes.
FairSpec == Spec /\ \A w \in Workers : WF_vars(Step(w)) /\ SF_vars(WaitEnds(w))

-----------------------------------------------------------------------------
(* Properties *)

PCs == {"off", "loop", "pop", "nojob", "resume", "run", "fin", "after", "poll", "unlink", "exit"}
Values == Jobs \cup {Nil, Cancelled, Ended}

TypeOK ==
  /\ jstate \in [Jobs -> {"none", "new", "done"}]
  /\ owner \in [Jobs -> Workers]
  /\ result \in [Jobs -> Values] /\ arg \in [Jobs -> Values]
  /\ waiters \in [Jobs -> Seq(Jobs)] /\ target \in [Jobs -> Jobs \cup {None}]
  /\ flags \in [Jobs -> SUBSET FlagSet]
  /\ inRq \in [Jobs -> {0, 1}] /\ claim \in [Jobs -> {0, 1}]
  /\ stack \in [Jobs -> 0 .. NStacks] /\ fiber \in [Jobs -> FiberSet]
  /\ awaited \in [Jobs -> Jobs \cup {None}]
  /\ rq \in [Workers -> Seq(Jobs)] /\ blocked \in [Workers -> Seq(Jobs)]
  /\ suspended \in Seq(Jobs) /\ freeStacks \in Seq(1 .. NStacks)
  /\ shutdown \in BOOLEAN /\ poolStarted \in BOOLEAN /\ ownerRr \in Nat
  /\ slk \in Workers \cup {None}
  /\ pc \in [Workers -> PCs] /\ cur \in [Workers -> Jobs \cup {None}]
  /\ oc \in [Workers -> 0 .. 3] /\ out \in [Workers -> Jobs \cup {0, Prime, Ctl}]
  /\ sweep \in [Workers -> {"none", "idle", "ctl"}] /\ rest \in [Workers -> Seq(Jobs)]
  /\ ops \in 0 .. MaxOps

\* Worker w has job j in hand: popped or being polled, its outcome not applied.
InHand(j, w) == cur[w] = j /\ pc[w] \in {"resume", "run", "fin", "unlink"}

\* How often j occurs in s.
Occurs(j, s) == Cardinality({i \in DOMAIN s : s[i] = j})

\* Every live job is somewhere the scheduler will find it again, and in one
\* place only: once in its owner's ready queue, on the waiter list of the live
\* job it awaits, on the suspended list, on its owner's blocked list, or in its
\* owner's hand (a polled job still on the blocked list, as the sweep walks it
\* in place).  So p[12] links one list at a time, and no job is lost.
OnePlace ==
  \A j \in Jobs :
    LET queued == \E w \in Workers : j \in Elems(rq[w])
        handed == {w \in Workers : InHand(j, w)}
        parked == {k \in Jobs : j \in Elems(waiters[k])}
        vm     == {w \in Workers : j \in Elems(blocked[w])}
    IN  IF Live(j)
          THEN /\ Cardinality(parked) + Cardinality(handed \cup vm)
                    + (IF queued THEN 1 ELSE 0) + (IF j \in Elems(suspended) THEN 1 ELSE 0) = 1
               /\ handed \cup vm \subseteq {owner[j]}
               /\ \A w \in Workers : Occurs(j, rq[w]) <= (IF w = owner[j] THEN 1 ELSE 0)
               /\ Occurs(j, suspended) <= 1 /\ \A w \in Workers : Occurs(j, blocked[w]) <= 1
               /\ \A k \in parked : Live(k)
          ELSE ~queued /\ handed \cup vm \cup parked = {} /\ j \notin Elems(suspended)

\* sched.c:5: "Every job is a stackful fiber that runs to completion across the
\* workers", and sched.c:237: "no cap".  A live job is on some list or in hand.  With
\* a ready queue shorter than the number of jobs (RQCap < NJobs) the code does not
\* keep this; the runs give every job a place, so it is in none of them.
NoJobDropped ==
  \A j \in Jobs : Live(j) =>
    \E w \in Workers :
      \/ j \in Elems(rq[w]) \cup Elems(blocked[w]) \cup Elems(suspended)
      \/ target[j] # None \/ InHand(j, w)

\* The words of a job agree with the list it is on: in_rq with the queue, the
\* await target (which cancel unlinks through) with the waiter list, and
\* JOB_HELD (which resume and cancel unlink by) with the suspended list.
WordsAgree ==
  \A j \in Jobs :
    /\ inRq[j] = 1 <=> j \in Elems(rq[owner[j]])
    /\ \A k \in Jobs : target[j] = k <=> j \in Elems(waiters[k])
    /\ Live(j) => ("held" \in flags[j] <=> j \in Elems(suspended))

\* Every fiber has a data stack of its own, which is not in the free pool, from
\* its creation until its job ends.
StackOwned ==
  \A j \in Jobs : Live(j) /\ fiber[j] # "none" =>
    /\ stack[j] \in (1 .. NStacks) \ Elems(freeStacks)
    /\ \A k \in Jobs \ {j} : Live(k) => stack[k] # stack[j]

\* An ended job's stack is back in the pool, once: none leaks and none is
\* released twice, however the job ended.
StackReturned ==
  Len(freeStacks) = NStacks - Cardinality({j \in Jobs : Live(j) /\ stack[j] # 0})

\* A job about to run again after an await gets the result of the job it
\* awaited, however often it was queued, held and resumed in between; nil for
\* an await of itself.
AwaitCarriesResult ==
  \A j \in Jobs :
    fiber[j] = "await" /\ (inRq[j] = 1 \/ (Live(j) /\ "held" \in flags[j]) \/ \E w \in Workers : cur[w] = j /\ pc[w] = "resume")
      => LET k == awaited[j] IN
           IF k = j THEN arg[j] = Nil ELSE jstate[k] = "done" /\ arg[j] = result[k]

\* "a cancelled job's fiber is never resumed again", nor a finished one's; and
\* the claim is never contended (sched.c:209: no fiber migrates).
RunsOnlyLive ==
  \A w \in Workers :
    /\ pc[w] \in {"resume", "run"} => Live(cur[w]) /\ "held" \notin flags[cur[w]] /\ fiber[cur[w]] # "ret"
    /\ pc[w] = "resume" => claim[cur[w]] = 0

\* A finished job stays finished, with the result it was published with: a
\* late cancel, or a second completion, changes nothing an awaiter read.
DoneIsFinal ==
  [][\A j \in Jobs : jstate[j] = "done" => jstate'[j] = "done" /\ result'[j] = result[j]]_vars

\* A job whose await can be answered runs on: no wakeup is lost between the
\* look at the awaited job and the park on it, however busy the worker is.
AwaitReturns ==
  \A j \in Jobs :
    (fiber[j] = "await" /\ jstate[awaited[j]] = "done")
      ~> (fiber[j] # "await" \/ ~Live(j) \/ "held" \in flags[j] \/ shutdown)

\* A sleeping job runs on even if another job of its worker never parks (#218).
SleeperWakes ==
  \A j \in Jobs :
    (\E w \in Workers : j \in Elems(blocked[w]))
      ~> (shutdown \/ \A w \in Workers : j \notin Elems(blocked[w]))

\* A cancelled job ends, wherever the request found it: also parked on an await
\* that will never be answered, and suspended.
CancelEnds ==
  \A j \in Jobs : (Live(j) /\ "cancel" \in flags[j]) ~> (~Live(j) \/ shutdown)

\* When the root job is done every worker leaves its loop, so that main's joins
\* return, unless some loop yields for ever: no job parked, suspended, in an
\* await cycle or queued on main keeps the program alive.
ProgramEnds == ([]<><<\E w \in Workers : jacl_loop_point(w)>>_vars) \/ (shutdown ~> AllExited)

\* A job is in exactly one of the places a job can be, the words its control block
\* keeps say so, and a worker runs only live jobs, whatever cancel, suspend, resume
\* and completion made of the lists (sched.c).
JobsPlaced == TypeOK /\ OnePlace /\ WordsAgree /\ RunsOnlyLive

\* A task stack has one owner while its job lives and is back in the pool after
\* (sched.c).
StacksSound == StackOwned /\ StackReturned

\* What an await returns is the awaited job's result, and a published result never
\* changes (sched.c).
ResultsTrue == []AwaitCarriesResult /\ DoneIsFinal

\* No wakeup is lost, a job that never parks starves no sleeper, a cancel ends
\* its job and the end of the root job ends the program (sched.c).
JobsProgress == AwaitReturns /\ SleeperWakes /\ CancelEnds /\ ProgramEnds
=============================================================================

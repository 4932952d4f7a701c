---------------------------- MODULE GlobalStacks ----------------------------
(* Two stacks the runtime keeps once for the whole program although tasks take *)
(* turns: the sleep budgets of [timeout D { ... }] and the shadow call stack   *)
(* of [stack-trace] (builtins.c, with the calls the compiler emits).  Tasks    *)
(* share one worker here: another one runs only while the running one sleeps   *)
(* or awaits.  What a task does is chosen freely: open and close a timeout,    *)
(* leave its body by a return, sleep, call procs and return from them, fail.   *)
(* A sleep of n units is n of jacl_sleep's chunks.                             *)
EXTENDS Integers, Sequences, SequencesExt

CONSTANTS
  GsTasks,            \* tasks
  JACL_TIMEOUT_MAX,   \* levels of the stack of budgets
  JACL_TRACE_MAX,     \* frames of the shadow stack
  TraceFrames,        \* frames that jacl_trace_snapshot's buf[2048] holds, of names of one length
  GsLens,             \* lengths of sleeps and budgets, in units
  GsOps               \* bound: operations of all tasks

ASSUME GsAssumption ==
  JACL_TIMEOUT_MAX \in Nat /\ JACL_TRACE_MAX \in Nat /\ TraceFrames \in Nat \ {0} /\ GsOps \in Nat /\ GsLens \subseteq Nat

VARIABLES
  gBudget,   \* jacl_to_budget and jacl_to_fired: [left, fired] of each level
  gTrace,    \* jacl_trace_names, as far as they are stored
  gSnap,     \* jacl_last_trace, innermost frame first: the frames that are whole in it
  gruns,    \* the task whose slice it is
  gAsleep,   \* units each task has still to sleep
  gops,     \* operations done
  gOpen,     \* history: the timeouts each task is inside of, outermost first
  gInside,   \* history: the calls each task is inside of, outermost first
  gAnswer,   \* history: the timeout that ended last, and what it answered
  gFailed,   \* history: the calls the last error was inside of
  gCalls,    \* jacl_trace_depth_: the calls made
  gMixed     \* history: a timeout was left open or two tasks were inside one

gsVars == <<gBudget, gTrace, gSnap, gruns, gAsleep, gops, gOpen, gInside, gAnswer, gFailed, gCalls, gMixed>>

GsInit ==
  /\ gBudget = <<>> /\ gTrace = <<>> /\ gSnap = <<>> /\ gCalls = 0
  /\ gruns \in GsTasks /\ gAsleep = [t \in GsTasks |-> 0] /\ gops = 0
  /\ gOpen = [t \in GsTasks |-> <<>>] /\ gInside = [t \in GsTasks |-> <<>>]
  /\ gAnswer = <<>> /\ gFailed = <<>> /\ gMixed = FALSE

Does(t) == gruns = t /\ gAsleep[t] = 0 /\ gops < GsOps /\ gops' = gops + 1

\* Whether what t does to the budgets is done inside another task's timeout.
Meddles(t) == \E u \in GsTasks \ {t} : gOpen[u] # <<>>

--------------------------------------------------------------------------
(* Timeouts. *)

MutBegun(b, d) == IF Len(b) < JACL_TIMEOUT_MAX THEN Append(b, [left |-> d, fired |-> b # <<>>]) ELSE b

\* The levels after one of d is opened: the one past the last is not.
Begun(b, d) == IF Len(b) < JACL_TIMEOUT_MAX THEN Append(b, [left |-> d, fired |-> FALSE]) ELSE b

jacl_timeout_begin(t, d) ==
  /\ Does(t)
  /\ gBudget' = Begun(gBudget, d)
  /\ gOpen' = [gOpen EXCEPT ![t] = Append(@, [d |-> d, slept |-> 0, cut |-> FALSE])]
  /\ gMixed' = (gMixed \/ Meddles(t) \/ Len(gBudget) = JACL_TIMEOUT_MAX)
  /\ UNCHANGED <<gTrace, gSnap, gruns, gAsleep, gInside, gAnswer, gFailed, gCalls>>

\* jacl_timeout_end closes the innermost level, whoever opened it.
jacl_timeout_end(t) ==
  /\ Does(t) /\ gOpen[t] # <<>>
  /\ gAnswer' = [was |-> Last(gOpen[t]), error |-> gBudget # <<>> /\ Last(gBudget).fired]
  /\ gBudget' = IF gBudget = <<>> THEN gBudget ELSE Front(gBudget)
  /\ gOpen' = [gOpen EXCEPT ![t] = Front(@)]
  /\ gMixed' = (gMixed \/ Meddles(t))
  /\ UNCHANGED <<gTrace, gSnap, gruns, gAsleep, gInside, gFailed, gCalls>>

\* A return out of the body passes over jacl_timeout_end: the level stays.
LeaveTimeout(t) ==
  /\ Does(t) /\ gOpen[t] # <<>>
  /\ gOpen' = [gOpen EXCEPT ![t] = Front(@)]
  /\ gMixed' = TRUE
  /\ UNCHANGED <<gBudget, gTrace, gSnap, gruns, gAsleep, gInside, gAnswer, gFailed, gCalls>>

MutClamped(b, n) == IF b # <<>> /\ n > b[1].left THEN b[1].left ELSE n

\* What is slept of n units under the innermost budget.
Clamped(b, n) == IF b # <<>> /\ n > Last(b).left THEN Last(b).left ELSE n

MutCharged(b, n) ==
  IF b = <<>> THEN b ELSE [b EXCEPT ![Len(b)] = [left |-> @.left, fired |-> @.fired \/ n > @.left]]

\* The budgets after it: the innermost is charged, and fires if it cut the sleep.
Charged(b, n) ==
  IF b = <<>> THEN b
  ELSE [b EXCEPT ![Len(b)] = [left |-> @.left - Clamped(b, n), fired |-> @.fired \/ n > @.left]]

\* The timeouts o when c of n units are slept inside them.
SleptIn(o, c, n) ==
  IF o = <<>> THEN o
  ELSE [o EXCEPT ![Len(o)] = [d |-> @.d, slept |-> @.slept + c, cut |-> @.cut \/ c < n]]

jacl_sleep(t, n) ==
  /\ Does(t)
  /\ gAsleep' = [gAsleep EXCEPT ![t] = Clamped(gBudget, n)]
  /\ gBudget' = Charged(gBudget, n)
  /\ gOpen' = [gOpen EXCEPT ![t] = SleptIn(@, Clamped(gBudget, n), n)]
  /\ gMixed' = (gMixed \/ Meddles(t))
  /\ UNCHANGED <<gTrace, gSnap, gruns, gInside, gAnswer, gFailed, gCalls>>

\* One chunk: the fiber is parked, and other tasks may run.
SleepChunk(t) ==
  /\ gAsleep[t] > 0
  /\ gAsleep' = [gAsleep EXCEPT ![t] = @ - 1]
  /\ UNCHANGED <<gBudget, gTrace, gSnap, gruns, gops, gOpen, gInside, gAnswer, gFailed, gCalls, gMixed>>

\* The worker takes another task while the running one sleeps or awaits.
TurnTo(t) ==
  /\ t # gruns /\ gops < GsOps
  /\ gruns' = t
  /\ UNCHANGED <<gBudget, gTrace, gSnap, gAsleep, gops, gOpen, gInside, gAnswer, gFailed, gCalls, gMixed>>

--------------------------------------------------------------------------
(* The shadow stack. *)

MutPushed(tr, p) == IF gCalls < JACL_TRACE_MAX - 1 THEN Append(tr, p) ELSE tr

\* jacl_trace_push stores a frame while there is room and counts it anyway.
Pushed(tr, p) == IF gCalls < JACL_TRACE_MAX THEN Append(tr, p) ELSE tr

\* The entry of a proc; the n-th call of the program is told apart as n.
CallProc(t) ==
  /\ Does(t)
  /\ gTrace' = Pushed(gTrace, gCalls + 1) /\ gCalls' = gCalls + 1
  /\ gInside' = [gInside EXCEPT ![t] = Append(@, gCalls + 1)]
  /\ UNCHANGED <<gBudget, gSnap, gruns, gAsleep, gOpen, gAnswer, gFailed, gMixed>>

\* Nothing is emitted at a proc's return: its frame stays.
ReturnProc(t) ==
  /\ Does(t) /\ gInside[t] # <<>>
  /\ gInside' = [gInside EXCEPT ![t] = Front(@)]
  /\ UNCHANGED <<gBudget, gTrace, gSnap, gruns, gAsleep, gOpen, gAnswer, gFailed, gCalls, gMixed>>

MutSnapshot(tr) == [i \in 1 .. (IF Len(tr) < TraceFrames THEN Len(tr) ELSE TraceFrames) |-> tr[i]]

\* jacl_trace_snapshot writes from the top frame down until its buffer is full.
jacl_trace_snapshot(tr) ==
  [i \in 1 .. (IF Len(tr) < TraceFrames THEN Len(tr) ELSE TraceFrames) |-> tr[Len(tr) + 1 - i]]

\* error V takes the snapshot.
FailHere(t) ==
  /\ Does(t)
  /\ gSnap' = jacl_trace_snapshot(gTrace) /\ gFailed' = gInside[t]
  /\ UNCHANGED <<gBudget, gTrace, gruns, gAsleep, gOpen, gInside, gAnswer, gCalls, gMixed>>

GsNext ==
  \E t \in GsTasks :
    \/ \E d \in GsLens : jacl_timeout_begin(t, d) \/ jacl_sleep(t, d)
    \/ jacl_timeout_end(t) \/ LeaveTimeout(t) \/ SleepChunk(t) \/ TurnTo(t)
    \/ CallProc(t) \/ ReturnProc(t) \/ FailHere(t)

GsSpec == GsInit /\ [][GsNext]_gsVars

--------------------------------------------------------------------------
(* Properties. *)

\* While tasks are inside timeouts one after the other, and none is left by a
\* return, the levels are those of the task inside: what a body sleeps itself
\* stays within its own D, and the timeout answers an error exactly if a sleep
\* of its own body was cut short (builtins.c:743-748).
TimeoutsOwn ==
  ~gMixed =>
    /\ \A t \in GsTasks : gOpen[t] # <<>> =>
         /\ Len(gBudget) = Len(gOpen[t])
         /\ \A i \in DOMAIN gBudget :
              /\ gBudget[i].left = gOpen[t][i].d - gOpen[t][i].slept /\ gBudget[i].left >= 0
              /\ gBudget[i].fired = gOpen[t][i].cut
    /\ gAnswer # <<>> => gAnswer.error = gAnswer.was.cut /\ gAnswer.was.slept <= gAnswer.was.d

\* The calls an error was inside of that are among the last TraceFrames calls the
\* program had made: the buffer of the snapshot cuts off the earlier ones, and since
\* nothing is popped, calls that have returned take their share of it.
Recent == {i \in DOMAIN gFailed : gFailed[i] + TraceFrames > gSnap[1]}

\* Each of those calls is in the trace the error took, the inner before the outer, as
\* long as the program has made no more calls than the stack has frames
\* (builtins.c:1320-1326, :1346-1365).
TraceHoldsCalls ==
  gCalls <= JACL_TRACE_MAX =>
    \E is \in [Recent -> DOMAIN gSnap] :
      /\ \A i \in Recent : gSnap[is[i]] = gFailed[i]
      /\ \A i, j \in Recent : i < j => is[i] > is[j]

\* The stacks all tasks share serve the task that runs, within those limits: tasks
\* whose timeouts overlap share levels, and the trace loses what its buffer cuts off.
StacksServe == TimeoutsOwn /\ TraceHoldsCalls
=============================================================================

------------------------------ MODULE EventWait ------------------------------
(***************************************************************************)
(* Waiting for a service's event without polling: the vat's notification,  *)
(* the idle worker that waits on it, and [service-event]                   *)
(* (src/runtime/chan_unir.c, service_unir.c, sched.c).  One worker, as     *)
(* idle_ns requires before it waits without a tick; jobs 1 .. NWaiters     *)
(* wait for events of their service, job 0 runs, sleeps and writes to a    *)
(* transcript.  The services and the notification are unir's, external:    *)
(* a service that is armed signals the notification with its next event.   *)
(***************************************************************************)
EXTENDS Integers, FiniteSets

CONSTANTS
  NWaiters,  \* jobs that call service-event, one service each
  MaxEvents, \* bound: events each service sends
  MaxStirs   \* bound: what job 0 writes

ASSUME EventAssumption == NWaiters \in Nat \ {0} /\ MaxEvents \in Nat /\ MaxStirs \in Nat

VARIABLES
  woken,    \* jacl_service_woken: opened with the notification
  note,     \* jacl_unir_note: 0 or 1
  badges,   \* the notification's pending badges
  events, stirs, \* jacl_unir_events, jacl_unir_stirs
  sent, queue, armed, \* each service: events sent, pending, armed
  jpc,      \* where each job is
  timed,    \* the jobs whose service-event has a WAIT in seconds
  seen, start, \* service-event's locals
  evMark,     \* p[25] of each job: 0, -1, or 1 for a timeout
  kicked,   \* the parked fibers whose wait was notified or timed out
  wpc,      \* the worker: "loop", "idle", or "tick"
  wrote     \* job 0's writes so far

evVars == <<woken, note, badges, events, stirs, sent, queue, armed, jpc, timed, seen, start, evMark, kicked, wpc, wrote>>
Waiters == 1 .. NWaiters
EvJobs    == 0 .. NWaiters

EvInit ==
  /\ woken = [j \in Waiters |-> 0] /\ note = 0 /\ badges = {} /\ events = 0 /\ stirs = 0
  /\ sent = [j \in Waiters |-> 0] /\ queue = [j \in Waiters |-> 0] /\ armed = [j \in Waiters |-> 0]
  /\ jpc = [j \in EvJobs |-> IF j = 0 THEN "run" ELSE "open"]
  /\ timed = {} /\ seen = [j \in Waiters |-> 0] /\ start = [j \in Waiters |-> 0]
  /\ evMark = [j \in EvJobs |-> 0] /\ kicked = {}
  /\ wpc = "loop" /\ wrote = 0

\* service_open: [service NAME] or [service NAME N]. The notification is
\* opened before the service, and stays open if the service does not connect.
service_open(j) ==
  /\ wpc = "loop" /\ jpc[j] = "open"
  /\ \E n \in 0 .. 1, ok \in BOOLEAN :
       /\ note' = IF n = 1 THEN 1 ELSE note
       /\ woken' = IF ok THEN [woken EXCEPT ![j] = n] ELSE woken
       /\ jpc' = IF ok THEN [jpc EXCEPT ![j] = "begin"] ELSE jpc
  /\ UNCHANGED <<badges, events, stirs, sent, queue, armed, timed, seen, start, evMark, kicked, wpc, wrote>>

-----------------------------------------------------------------------------
(* [service-event S WAIT], on the worker *)

Begin(j) ==
  /\ wpc = "loop" /\ jpc[j] = "begin"
  /\ timed' \in {timed \cup {j}, timed \ {j}}
  /\ start' = [start EXCEPT ![j] = stirs]
  /\ jpc' = [jpc EXCEPT ![j] = "look"]
  /\ UNCHANGED <<woken, note, badges, events, stirs, sent, queue, armed, seen, evMark, kicked, wpc, wrote>>

\* The top of its loop: remember the events word; a timed wait ends when a
\* task wrote or ended since it began.
Look(j) ==
  /\ wpc = "loop" /\ jpc[j] = "look"
  /\ seen' = [seen EXCEPT ![j] = events]
  /\ jpc' = [jpc EXCEPT ![j] = IF j \in timed /\ stirs # start[j] THEN "begin" ELSE "poll"]
  /\ UNCHANGED <<woken, note, badges, events, stirs, sent, queue, armed, timed, start, evMark, kicked, wpc, wrote>>

\* Under the vat's lock: take the next event, or go on to arm the service.
unir_service_event(j) ==
  /\ wpc = "loop" /\ jpc[j] = "poll"
  /\ IF queue[j] > 0
     THEN queue' = [queue EXCEPT ![j] = @ - 1] /\ jpc' = [jpc EXCEPT ![j] = "begin"]
     ELSE jpc' = [jpc EXCEPT ![j] = IF woken[j] = 1 THEN "arm" ELSE "wait"] /\ UNCHANGED queue
  /\ UNCHANGED <<woken, note, badges, events, stirs, sent, armed, timed, seen, start, evMark, kicked, wpc, wrote>>

\* Mutant: the service is armed whatever is ready.
MutArmAlways(j) ==
  /\ wpc = "loop" /\ jpc[j] = "arm"
  /\ armed' = [armed EXCEPT ![j] = 1]
  /\ jpc' = [jpc EXCEPT ![j] = "wait"]
  /\ UNCHANGED <<woken, note, badges, events, stirs, sent, queue, timed, seen, start, evMark, kicked, wpc, wrote>>

\* unir_service_arm: refused when an event is ready; then the loop looks again.
unir_service_arm(j) ==
  /\ wpc = "loop" /\ jpc[j] = "arm"
  /\ armed' = [armed EXCEPT ![j] = IF queue[j] > 0 THEN 0 ELSE 1]
  /\ jpc' = [jpc EXCEPT ![j] = IF queue[j] > 0 THEN "look" ELSE "wait"]
  /\ UNCHANGED <<woken, note, badges, events, stirs, sent, queue, timed, seen, start, evMark, kicked, wpc, wrote>>

\* Mutant: the word is not compared, so a move since Look goes unseen.
MutAwaitBlind(j) ==
  /\ wpc = "loop" /\ jpc[j] = "wait"
  /\ jpc' = [jpc EXCEPT ![j] = "parked"]
  /\ evMark' = [evMark EXCEPT ![j] = IF woken[j] = 0 THEN 0 ELSE IF j \in timed THEN 1 ELSE -1]
  /\ kicked' = kicked \ {j}
  /\ UNCHANGED <<woken, note, badges, events, stirs, sent, queue, armed, timed, seen, start, wpc, wrote>>

\* vat_await: evMark the job, then park unless the events word moved.
vat_await(j) ==
  /\ wpc = "loop" /\ jpc[j] = "wait"
  /\ IF events # seen[j]
     THEN jpc' = [jpc EXCEPT ![j] = "disarm"] /\ UNCHANGED <<evMark, kicked>>
     ELSE /\ jpc' = [jpc EXCEPT ![j] = "parked"]
          /\ evMark' = [evMark EXCEPT ![j] = IF woken[j] = 0 THEN 0 ELSE IF j \in timed THEN 1 ELSE -1]
          /\ kicked' = kicked \ {j}
  /\ UNCHANGED <<woken, note, badges, events, stirs, sent, queue, armed, timed, seen, start, wpc, wrote>>

\* repoll_blocked finds the wait over: the evMark is cleared and the service
\* disarmed, and service-event looks again.
Repoll(j) ==
  /\ wpc = "loop" /\ jpc[j] = "parked" /\ j \in kicked
  /\ jpc' = [jpc EXCEPT ![j] = IF j = 0 THEN "run" ELSE "disarm"]
  /\ evMark' = [evMark EXCEPT ![j] = 0]
  /\ kicked' = kicked \ {j}
  /\ UNCHANGED <<woken, note, badges, events, stirs, sent, queue, armed, timed, seen, start, wpc, wrote>>

unir_service_disarm(j) ==
  /\ wpc = "loop" /\ jpc[j] = "disarm"
  /\ armed' = [armed EXCEPT ![j] = 0]
  /\ jpc' = [jpc EXCEPT ![j] = "look"]
  /\ UNCHANGED <<woken, note, badges, events, stirs, sent, queue, timed, seen, start, evMark, kicked, wpc, wrote>>

-----------------------------------------------------------------------------
(* Job 0, the worker and the outside *)

\* __vm_notify on jacl_unir_events: every fiber parked on it.
Notified == kicked \cup {j \in Waiters : jpc[j] = "parked"}

\* Mutant: it moves the words and forgets the fibers parked on them.
MutStirQuiet ==
  /\ wpc = "loop" /\ jpc[0] = "run" /\ wrote < MaxStirs
  /\ wrote' = wrote + 1 /\ stirs' = stirs + 1 /\ events' = events + 1
  /\ badges' = IF note = 1 THEN badges \cup {"own"} ELSE badges
  /\ \E pc \in {"run", "done"} : jpc' = [jpc EXCEPT ![0] = pc]
  /\ UNCHANGED <<woken, note, sent, queue, armed, timed, seen, start, evMark, wpc, kicked>>

\* vat_stir: a task wrote to a transcript, or ended.
vat_stir ==
  /\ wpc = "loop" /\ jpc[0] = "run" /\ wrote < MaxStirs
  /\ wrote' = wrote + 1 /\ stirs' = stirs + 1 /\ events' = events + 1
  /\ kicked' = Notified
  /\ badges' = IF note = 1 THEN badges \cup {"own"} ELSE badges
  /\ \E pc \in {"run", "done"} : jpc' = [jpc EXCEPT ![0] = pc]
  /\ UNCHANGED <<woken, note, sent, queue, armed, timed, seen, start, evMark, wpc>>

\* Job 0 sleeps: an ordinary wait, unmarked.
Sleep0 ==
  /\ wpc = "loop" /\ jpc[0] = "run"
  /\ jpc' = [jpc EXCEPT ![0] = "parked"]
  /\ UNCHANGED <<woken, note, badges, events, stirs, sent, queue, armed, timed, seen, start, evMark, kicked, wpc, wrote>>

Ready == {j \in EvJobs : jpc[j] \notin {"parked", "done"} \/ (jpc[j] = "parked" /\ j \in kicked)}
Blocked == {j \in EvJobs : jpc[j] = "parked"}

\* Mutant: the tick is kept only when nobody waits on the notification.
MutIdleNs ==
  IF \A j \in Blocked : evMark[j] = 0 THEN "tick"
  ELSE IF \E j \in Blocked : evMark[j] = 1 THEN "timed" ELSE "idle"

\* idle_ns: a tick, unless each parked fiber waits on the notification.
idle_ns ==
  IF \E j \in Blocked : evMark[j] = 0 THEN "tick"
  ELSE IF \E j \in Blocked : evMark[j] = 1 THEN "timed" ELSE "idle"

\* idle_wait: the repoll made no progress. Without a notification the wait is
\* for a tick even when idle_ns says as long as it takes.
idle_wait ==
  /\ wpc = "loop" /\ Ready = {} /\ Blocked # {}
  /\ wpc' = IF note = 0 THEN "tick" ELSE idle_ns
  /\ UNCHANGED <<woken, note, badges, events, stirs, sent, queue, armed, jpc, timed, seen, start, evMark, kicked, wrote>>

\* Mutant: a badge from outside wakes the worker only.
MutBadgeIgnored ==
  /\ wpc # "loop" /\ note = 1 /\ badges # {}
  /\ wpc' = "loop" /\ badges' = {}
  /\ UNCHANGED <<woken, note, events, kicked, stirs, sent, queue, armed, jpc, timed, seen, start, evMark, wrote>>

\* vat_wait_idle: a badge ends the wait; one from outside moves the events word.
WaitBadge ==
  /\ wpc # "loop" /\ note = 1 /\ badges # {}
  /\ wpc' = "loop" /\ badges' = {}
  /\ IF badges # {"own"} THEN events' = events + 1 /\ kicked' = Notified ELSE UNCHANGED <<events, kicked>>
  /\ UNCHANGED <<woken, note, stirs, sent, queue, armed, jpc, timed, seen, start, evMark, wrote>>

\* A tick or a timeout passes: time reaches the timed waits and the sleeper.
WaitTimeout ==
  /\ wpc \in {"tick", "timed"}
  /\ wpc' = "loop"
  /\ kicked' = kicked \cup {j \in EvJobs : jpc[j] = "parked" /\ evMark[j] >= 0}
  /\ UNCHANGED <<woken, note, badges, events, stirs, sent, queue, armed, jpc, timed, seen, start, evMark, wrote>>

\* A service sends an event; an armed one signals the notification, once.
ServiceSends(j) ==
  /\ jpc[j] # "open" /\ sent[j] < MaxEvents
  /\ sent' = [sent EXCEPT ![j] = @ + 1] /\ queue' = [queue EXCEPT ![j] = @ + 1]
  /\ badges' = IF armed[j] = 1 /\ note = 1 THEN badges \cup {"ext"} ELSE badges
  /\ armed' = [armed EXCEPT ![j] = 0]
  /\ UNCHANGED <<woken, note, events, stirs, jpc, timed, seen, start, evMark, kicked, wpc, wrote>>

\* The polling waiters and a program whose jobs all wait never stop on their own.
WorkerStep ==
  \/ \E j \in Waiters : \/ service_open(j) \/ Begin(j) \/ Look(j) \/ unir_service_event(j)
                        \/ unir_service_arm(j) \/ vat_await(j) \/ unir_service_disarm(j)
  \/ \E j \in EvJobs : Repoll(j)
  \/ vat_stir \/ Sleep0 \/ idle_wait \/ WaitBadge \/ WaitTimeout

EvNext == WorkerStep \/ \E j \in Waiters : ServiceSends(j)

EvSpec == EvInit /\ [][EvNext]_evVars

-----------------------------------------------------------------------------
(* Properties *)

\* The worker never waits as long as it takes while there is something to do:
\* if no badge is pending, no service it would deliver has an event, no parked
\* fiber's wait is over and no job is ready (sched.c:452-466, #219).
IdleIsSafe ==
  wpc = "idle" /\ badges = {} =>
    /\ \A j \in Waiters : jpc[j] = "parked" => queue[j] = 0
    /\ \A j \in EvJobs : jpc[j] \in {"parked", "done"} /\ j \notin kicked

\* A parked job can be woken by what it waits for: its service is armed, or
\* its event is signalled already, or the worker ticks (service_unir.c:121-131).
ParkedIsArmed ==
  \A j \in Waiters : jpc[j] = "parked" /\ evMark[j] = -1 =>
     \/ armed[j] = 1 \/ "ext" \in badges \/ j \in kicked \/ events # seen[j]

\* What job 0 writes is noticed: nobody stays parked with an old stirs count
\* in a timed wait (service_unir.c:123-126, chan_unir.c:114-123).
StirSeen ==
  \A j \in timed : jpc[j] = "parked" /\ stirs # start[j] => j \in kicked

\* Where a job of service-event can be, and the types of the state.
WaiterPcs == {"open", "begin", "look", "poll", "arm", "wait", "parked", "disarm"}
EvTypeOK ==
  /\ woken \in [Waiters -> {0, 1}] /\ note \in {0, 1} /\ badges \subseteq {"own", "ext"}
  /\ events \in Nat /\ stirs \in Nat
  /\ queue \in [Waiters -> Nat] /\ armed \in [Waiters -> {0, 1}]
  /\ jpc \in [EvJobs -> WaiterPcs \cup {"run", "done"}]
  /\ timed \subseteq Waiters /\ seen \in [Waiters -> Nat] /\ start \in [Waiters -> Nat]
  /\ evMark \in [EvJobs -> {-1, 0, 1}] /\ kicked \subseteq EvJobs
  /\ wpc \in {"loop", "idle", "timed", "tick"}

\* What job j's wait relies on, from the look at the words to the end of the wait.
WaitHolds(j) ==
  /\ armed[j] = 1 => queue[j] = 0
  /\ woken[j] = 1 => note = 1
  /\ seen[j] <= events
  /\ jpc[j] = "arm" => woken[j] = 1
  /\ jpc[j] = "wait" /\ woken[j] = 1 => armed[j] = 1 \/ "ext" \in badges
  /\ jpc[j] \in {"poll", "arm", "wait"} /\ j \in timed => stirs = start[j] \/ events # seen[j]
  /\ jpc[j] = "parked" /\ j \notin kicked =>
       /\ j \in timed => stirs = start[j]
       /\ woken[j] = 1 => armed[j] = 1 \/ "ext" \in badges
       /\ evMark[j] = IF woken[j] = 0 THEN 0 ELSE IF j \in timed THEN 1 ELSE -1

\* What the idle worker relies on: everybody waits, each on the notification.
IdleHolds ==
  /\ \A j \in kicked : jpc[j] = "parked"
  /\ wpc # "loop" => \A j \in EvJobs : jpc[j] \in {"parked", "done"} /\ j \notin kicked
  /\ wpc = "idle" => \A j \in EvJobs : jpc[j] = "parked" => evMark[j] = -1

\* The invariant every step keeps, and NoWakeLost follows from.
EvInv == EvTypeOK /\ IdleHolds /\ evMark[0] = 0 /\ \A j \in Waiters : WaitHolds(j)

\* No event, wake or stir is slept through (chan_unir.c).
NoWakeLost == IdleIsSafe /\ ParkedIsArmed /\ StirSeen
=============================================================================

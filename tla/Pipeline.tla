------------------------------ MODULE Pipeline ------------------------------
(***************************************************************************)
(* A pipeline of stages (src/runtime/pipe_unir.c): the shell spawns each   *)
(* program as a child vat, stage i's stdout being stage i+1's stdin, reads *)
(* the last output while draining every stage's stderr, and reaps the      *)
(* stages.  Every stage's stderr is an edge of its own, which also carries *)
(* the program's value at exit.                                            *)
(*                                                                         *)
(* An edge is a number of frames and how it ended; contents do not matter. *)
(* What a program does is chosen freely within bounds on its frames of     *)
(* stdout and stderr.  Spawning, killing and joining vats and the edges    *)
(* themselves are unir's, external.                                        *)
(***************************************************************************)
EXTENDS Integers, FiniteSets, FiniteSetsExt

CONSTANTS
  NStages,
  Ring,      \* frames an edge holds: JACL_STAGE_FRAMES
  MaxWork,   \* bound: stage i prints at most MaxWork \div i frames
  MaxErr,    \* bound: text frames a stage writes to stderr
  ValFrames, \* frames of a program's value
  Starts     \* how starting a stage may go: "ok", "nospawn", "noopen" (its stderr does not open)

ASSUME PipeAssumption ==
  /\ NStages \in Nat \ {0} /\ Ring \in Nat \ {0} /\ {MaxWork, MaxErr, ValFrames} \subseteq Nat
  /\ Starts \subseteq {"ok", "nospawn", "noopen"}

VARIABLES
  sh,      \* the shell's fiber: "region", "spawn", "read", "pump", "join", "returned"
  out, err, \* frames on each stage's stdout and stderr edge
  outEnd, errEnd, \* "open", "complete", "cancel", "severed"
  spawned, \* stages started and counted
  child,   \* each stage's vat: "none", "run", "print", "diag", "read", "parked", "value", "end", "over", "killed"
  work,    \* frames printed so far
  errs,    \* text frames sent on stderr so far
  left,    \* frames of the value, and of a failure's text, still to send
  eof,     \* the stage saw the end of its stdin
  status,  \* 0, or 1 for a failure
  pumpAt,  \* pipe_pump's stage, in pipe_finish
  joined, cause, result,
  opened,  \* the last stage's stdout opened: p->outc
  own,     \* history: stages that failed of themselves
  refused, \* history: stages that returned the error of a read refused because their stdout had ended
  unread   \* history: the stdout of the last stage that started could not be opened to cancel it

pipeVars == <<sh, out, err, outEnd, errEnd, spawned, child, work, errs, left, eof, status, pumpAt, joined, cause, result, opened, own, refused, unread>>
St == 1 .. NStages
NoStage == 0

PipeInit ==
  /\ sh = "region" /\ out = [i \in St |-> 0] /\ err = [i \in St |-> 0]
  /\ outEnd = [i \in St |-> "open"] /\ errEnd = [i \in St |-> "open"]
  /\ spawned = 0 /\ child = [i \in St |-> "none"] /\ work = [i \in St |-> 0] /\ errs = [i \in St |-> 0] /\ left = [i \in St |-> 0]
  /\ eof = [i \in St |-> FALSE] /\ status = [i \in St |-> 0]
  /\ pumpAt = 1 /\ joined = {} /\ cause = -1 /\ result = "none" /\ own = {}
  /\ opened = FALSE /\ refused = {} /\ unread = FALSE

histVars == <<own, refused>>
stageVars == <<out, err, outEnd, errEnd, child, work, errs, left, eof, status, histVars>>
openVars == <<opened, unread>>

-----------------------------------------------------------------------------
(* Starting *)

\* The edges' regions: all of them, or an error and nothing is started.
CreateRegions ==
  /\ sh = "region"
  /\ \/ sh' = "spawn" /\ UNCHANGED result
     \/ sh' = "returned" /\ result' = "out of edge memory"
  /\ UNCHANGED <<stageVars, openVars, spawned, pumpAt, joined, cause>>

\* unir_spawn and the open of its stderr, one stage after the other. A stage
\* that started but whose stderr did not open is not counted.
SpawnStage ==
  /\ sh = "spawn" /\ spawned < NStages
  /\ \E how \in Starts :
       LET i == spawned + 1
       IN /\ child' = [child EXCEPT ![i] = IF how = "nospawn" THEN "none" ELSE "run"]
          /\ spawned' = IF how = "ok" THEN i ELSE spawned
          /\ sh' = IF how = "ok" THEN "spawn" ELSE "failed"
  /\ UNCHANGED <<out, err, outEnd, errEnd, work, errs, left, eof, status, histVars, openVars, pumpAt, joined, cause, result>>

OpenOutput ==
  /\ sh = "spawn" /\ spawned = NStages
  /\ \E how \in Starts : /\ opened' = (how # "noopen")
                         /\ sh' = IF how = "noopen" THEN "failed" ELSE "read"
  /\ UNCHANGED <<stageVars, unread, spawned, pumpAt, joined, cause, result>>

\* Mutant: the last stage that did start keeps an open stdout nobody reads.
MutStartFailed ==
  /\ sh = "failed"
  /\ sh' = "pump" /\ pumpAt' = 1
  /\ UNCHANGED <<stageVars, openVars, spawned, joined, cause, result>>

\* A stage could not start, or the output did not open: cancel the stdout of the
\* last stage that did, if that opens, then wait for those that run.
StartFailed ==
  /\ sh = "failed"
  /\ \E oc \in {TRUE} \cup {how # "noopen" : how \in Starts} :
       /\ outEnd' = [i \in St |-> IF i = spawned /\ outEnd[i] = "open" /\ oc THEN "cancel" ELSE outEnd[i]]
       /\ unread' = (spawned > 0 /\ ~oc)
  /\ sh' = "pump" /\ pumpAt' = 1
  /\ UNCHANGED <<out, err, errEnd, spawned, child, work, errs, left, eof, status, histVars, opened, joined, cause, result>>

-----------------------------------------------------------------------------
(* Reading, closing, cancelling *)

\* pipe_read: a frame of the output, or nothing within the poll interval; then
\* pipe_pump(p, 0) empties every stderr ring.
pipe_read ==
  /\ sh = "read"
  /\ out' = [out EXCEPT ![NStages] = IF @ > 0 THEN @ - 1 ELSE @]
  /\ out[NStages] > 0 \/ outEnd[NStages] = "open"
  /\ err' = [i \in St |-> 0]
  /\ UNCHANGED <<sh, outEnd, errEnd, spawned, child, work, errs, left, eof, status, pumpAt, joined, cause, result, histVars, openVars>>

\* The output ended: note a sever's cause and reap.
ReadEnd ==
  /\ sh = "read" /\ out[NStages] = 0 /\ outEnd[NStages] # "open"
  /\ cause' = IF outEnd[NStages] = "severed" THEN 2 ELSE -1
  /\ err' = [i \in St |-> 0]
  /\ sh' = "pump" /\ pumpAt' = 1
  /\ UNCHANGED <<out, outEnd, errEnd, spawned, child, work, errs, left, eof, status, joined, result, histVars, openVars>>

\* The reader closes its end at any time: pipe_close cancels the last stdout and reaps.
pipe_close ==
  /\ sh = "read"
  /\ outEnd' = [outEnd EXCEPT ![NStages] = IF @ = "open" THEN "cancel" ELSE @]
  /\ sh' = "pump" /\ pumpAt' = 1
  /\ UNCHANGED <<out, err, errEnd, spawned, child, work, errs, left, eof, status, joined, cause, result, histVars, openVars>>

\* Job control asks for a cancel, which the next poll sees: pipe_cancel severs every end the shell holds, kills the stages and reaps them.
pipe_cancel ==
  /\ sh = "read"
  /\ outEnd' = [outEnd EXCEPT ![NStages] = IF @ = "open" THEN "severed" ELSE @]
  /\ errEnd' = [i \in St |-> IF errEnd[i] = "open" THEN "severed" ELSE errEnd[i]]
  /\ child' = [i \in St |-> IF child[i] = "over" THEN "over" ELSE "killed"]
  /\ status' = [i \in St |-> IF child[i] = "over" THEN status[i] ELSE 1]
  /\ cause' = 7 /\ sh' = "pump" /\ pumpAt' = 1
  /\ UNCHANGED <<out, err, spawned, work, errs, left, eof, joined, result, histVars, openVars>>

\* pipe_finish, first half: pipe_pump(p, -1) reads each stderr to its end, one
\* stage after the other, waiting at each.
pipe_pump ==
  /\ sh = "pump" /\ pumpAt <= spawned
  /\ IF err[pumpAt] > 0 /\ errEnd[pumpAt] # "severed"
     THEN err' = [err EXCEPT ![pumpAt] = @ - 1] /\ UNCHANGED pumpAt
     ELSE errEnd[pumpAt] # "open" /\ pumpAt' = pumpAt + 1 /\ UNCHANGED err
  /\ UNCHANGED <<sh, out, outEnd, errEnd, spawned, child, work, errs, left, eof, status, joined, cause, result, histVars, openVars>>

\* Mutant: the stages are not joined when the output was severed.
MutFinish ==
  /\ sh = "pump" /\ pumpAt > spawned
  /\ joined' = IF cause = -1 THEN 1 .. spawned ELSE {}
  /\ sh' = "join"
  /\ UNCHANGED <<stageVars, openVars, spawned, pumpAt, cause, result>>

\* pipe_finish, second half: join each stage, under the vat's lock.
pipe_finish ==
  /\ sh = "pump" /\ pumpAt > spawned
  /\ \A i \in 1 .. spawned : child[i] \in {"over", "killed"}
  /\ joined' = 1 .. spawned
  /\ sh' = "join"
  /\ UNCHANGED <<stageVars, openVars, spawned, pumpAt, cause, result>>

\* pipe_failure: the first stage that failed, else one that could not spawn,
\* else a sever of the output.
Failed == {i \in 1 .. spawned : status[i] # 0}
\* Mutant: the last stage that failed is named.
MutFailure ==
  IF Failed # {} THEN Max(Failed)
  ELSE IF spawned < NStages THEN spawned + 1
  ELSE IF cause >= 0 THEN -1 ELSE NoStage

pipe_failure ==
  IF Failed # {} THEN Min(Failed)
  ELSE IF spawned < NStages THEN spawned + 1
  ELSE IF cause >= 0 THEN -1 ELSE NoStage

Return ==
  /\ sh = "join"
  /\ sh' = "returned"
  /\ result' = CASE pipe_failure = NoStage -> IF opened THEN "value" ELSE "no output"
                 [] pipe_failure = -1 -> "severed"
                 [] OTHER -> "stage"
  /\ UNCHANGED <<stageVars, openVars, spawned, pumpAt, joined, cause>>

-----------------------------------------------------------------------------
(* A stage *)

\* Its program ends: jacl_stage_finish sends its value first, and after a failed
\* program's the error's text, a frame.
StageEnds(i, failed) ==
  /\ child' = [child EXCEPT ![i] = "value"]
  /\ left' = [left EXCEPT ![i] = ValFrames + (IF failed THEN 1 ELSE 0)]
  /\ status' = [status EXCEPT ![i] = IF failed THEN 1 ELSE 0]

\* The program turns to a print, a diagnostic or a read, and is held by it.
Turns(i) ==
  /\ child[i] = "run"
  /\ child' \in {[child EXCEPT ![i] = c] : c \in {"print" : x \in 1 .. ((MaxWork \div i) - work[i])}
                    \cup {"diag" : x \in 1 .. (MaxErr - errs[i])} \cup {"read" : x \in IF i > 1 /\ ~eof[i] THEN {1} ELSE {}}}
  /\ UNCHANGED <<sh, out, err, outEnd, errEnd, spawned, work, errs, left, eof, status, pumpAt, joined, cause, result, histVars, openVars>>

\* A print: the stage's stdout has credit, or has ended, which ends the stage.
jacl_out(i) ==
  /\ child[i] = "print"
  /\ IF outEnd[i] # "open"
     THEN StageEnds(i, FALSE) /\ UNCHANGED <<out, work>>
     ELSE /\ out[i] < Ring
          /\ out' = [out EXCEPT ![i] = @ + 1] /\ work' = [work EXCEPT ![i] = @ + 1]
          /\ child' = [child EXCEPT ![i] = "run"] /\ UNCHANGED <<left, status>>
  /\ UNCHANGED <<sh, err, outEnd, errEnd, spawned, errs, eof, pumpAt, joined, cause, result, histVars, openVars>>

\* A diagnostic: a severed stderr refuses it.
StderrWrite(i) ==
  /\ child[i] = "diag" /\ (errEnd[i] = "open" => err[i] < Ring)
  /\ err' = [err EXCEPT ![i] = IF errEnd[i] = "open" THEN @ + 1 ELSE @]
  /\ errs' = [errs EXCEPT ![i] = @ + 1] /\ child' = [child EXCEPT ![i] = "run"]
  /\ UNCHANGED <<sh, out, outEnd, errEnd, spawned, work, left, eof, status, pumpAt, joined, cause, result, histVars, openVars>>

\* A read that gives an error: the program returns it, or goes on without reading.
ReadFails(i, orphan) ==
  \/ /\ StageEnds(i, TRUE)
     /\ refused' = IF orphan THEN refused \cup {i} ELSE refused
     /\ UNCHANGED eof
  \/ /\ child' = [child EXCEPT ![i] = "run"] /\ eof' = [eof EXCEPT ![i] = TRUE]
     /\ UNCHANGED <<left, status, refused>>

\* chan_fill of stdin: refused when the stage's own stdout has ended
\* (stage_stdin_orphaned), which is asked once; then the stage waits for a frame.
ReadStdin(i) ==
  /\ child[i] = "read"
  /\ IF outEnd[i] # "open" THEN ReadFails(i, TRUE)
     ELSE child' = [child EXCEPT ![i] = "parked"] /\ UNCHANGED <<left, status, eof, refused>>
  /\ UNCHANGED <<sh, out, err, outEnd, errEnd, spawned, work, errs, pumpAt, joined, cause, result, own, openVars>>

\* The wait in chan_be_read: a frame, an end or a sever of stdin, whatever has
\* become of the stage's stdout in the meantime.
chan_be_read(i) ==
  /\ child[i] = "parked"
  /\ \/ outEnd[i - 1] = "severed" /\ ReadFails(i, FALSE) /\ UNCHANGED out
     \/ /\ outEnd[i - 1] # "severed" /\ out[i - 1] > 0
        /\ out' = [out EXCEPT ![i - 1] = @ - 1] /\ child' = [child EXCEPT ![i] = "run"]
        /\ UNCHANGED <<left, status, eof, refused>>
     \/ /\ outEnd[i - 1] \in {"complete", "cancel"} /\ out[i - 1] = 0
        /\ eof' = [eof EXCEPT ![i] = TRUE] /\ child' = [child EXCEPT ![i] = "run"]
        /\ UNCHANGED <<out, left, status, refused>>
  /\ UNCHANGED <<sh, err, outEnd, errEnd, spawned, work, errs, pumpAt, joined, cause, result, own, openVars>>

\* The program returns a value or an error of its own.
Finishes(i) ==
  /\ child[i] = "run"
  /\ \E failed \in BOOLEAN : StageEnds(i, failed) /\ own' = IF failed THEN own \cup {i} ELSE own
  /\ UNCHANGED <<sh, out, err, outEnd, errEnd, spawned, work, errs, eof, pumpAt, joined, cause, result, refused, openVars>>

\* stage_send_value, then the write of a failure's text: frame by frame on stderr,
\* waiting for credit.
stage_send_value(i) ==
  /\ child[i] = "value"
  /\ IF left[i] = 0 \/ errEnd[i] # "open"
     THEN child' = [child EXCEPT ![i] = "end"] /\ UNCHANGED <<err, left>>
     ELSE /\ err[i] < Ring
          /\ err' = [err EXCEPT ![i] = @ + 1] /\ left' = [left EXCEPT ![i] = @ - 1] /\ UNCHANGED child
  /\ UNCHANGED <<sh, out, outEnd, errEnd, spawned, work, errs, eof, status, pumpAt, joined, cause, result, histVars, openVars>>

\* The end of jacl_stage_finish: stdin cancels, stdout completes or severs,
\* stderr completes.
jacl_stage_finish(i) ==
  /\ child[i] = "end"
  /\ outEnd' = [j \in St |-> IF j = i - 1 /\ outEnd[j] = "open" THEN "cancel"
                           ELSE IF j = i /\ outEnd[j] = "open" THEN (IF status[i] = 1 THEN "severed" ELSE "complete")
                           ELSE outEnd[j]]
  /\ errEnd' = [errEnd EXCEPT ![i] = IF @ = "open" THEN "complete" ELSE @]
  /\ child' = [child EXCEPT ![i] = "over"]
  /\ UNCHANGED <<sh, out, err, spawned, work, errs, left, eof, status, pumpAt, joined, cause, result, histVars, openVars>>

StageStep(i) == Turns(i) \/ jacl_out(i) \/ StderrWrite(i) \/ ReadStdin(i) \/ chan_be_read(i) \/ Finishes(i)
                \/ stage_send_value(i) \/ jacl_stage_finish(i)

\* What the shell does of itself: to close or to cancel is the reader's choice.
ShellStep == CreateRegions \/ SpawnStage \/ OpenOutput \/ StartFailed \/ pipe_read \/ ReadEnd
             \/ pipe_pump \/ pipe_finish \/ Return

PipeNext ==
  \/ CreateRegions \/ SpawnStage \/ OpenOutput \/ StartFailed \/ pipe_read \/ ReadEnd \/ pipe_close
  \/ pipe_cancel \/ pipe_pump \/ pipe_finish \/ Return
  \/ \E i \in St : \/ Turns(i) \/ jacl_out(i) \/ StderrWrite(i) \/ ReadStdin(i) \/ chan_be_read(i) \/ Finishes(i)
                   \/ stage_send_value(i) \/ jacl_stage_finish(i)

\* Vats are scheduled fairly, and a stage that can go on or return does.
PipeFair == WF_pipeVars(ShellStep) /\ \A i \in St : WF_pipeVars(StageStep(i))
PipeSpec == PipeInit /\ [][PipeNext]_pipeVars /\ PipeFair

-----------------------------------------------------------------------------
(* Properties *)

\* When the call has returned, every stage that was counted was joined and none of
\* them runs on; one stage may be left behind, running and never joined: the one
\* that was spawned and whose stderr did not open, which is not counted
\* (pipe_unir.c:413-427, :465-473, :574-576).
StagesReaped ==
  sh = "returned" => /\ joined = 1 .. spawned
                     /\ \A i \in St : i \in joined => child[i] \in {"over", "killed"}
                     /\ \A i \in St : i \notin joined /\ child[i] # "none" => i = spawned + 1

\* pipefail, of a pipeline that is not cancelled: if a program failed of itself there
\* is an error and no value, and the stage the error names failed of itself, or
\* returned the error its read gave it because its reader had gone, as sink.jacl
\* does (docs/UNIR_PIPELINES.md:151-154); it never failed for an earlier stage's sake.
FailureNamed ==
  sh = "returned" /\ cause # 7 =>
    /\ own # {} => result = "stage"
    /\ result = "stage" /\ Failed # {} => pipe_failure \in own \cup refused

\* Whichever stage ends, fails, does not start or starts without a stderr, the stages
\* counted are joined, at most one is left behind, and the error names a stage that
\* failed for a reason of its own (pipe_unir.c).
PipelineReports == StagesReaped /\ FailureNamed

\* The two ways a pipeline can be held for ever: pipe_finish reads one stderr to its
\* end while a later stage waits on its own full stderr ring (so that nobody reads
\* the stdout of a stage before it), and the stdout of the last stage that started
\* could neither be opened nor cancelled.
HeldByStderr ==
  sh = "pump" /\ \E i \in St : /\ i > pumpAt /\ i <= spawned
                               /\ child[i] \in {"diag", "value"} /\ errEnd[i] = "open" /\ err[i] = Ring

\* A pipeline whose programs all end does end, read, closed or cancelled at any time,
\* unless it is held in one of those two ways: full edges, parked reads and the order
\* in which stages fail hold it in no other (pipe_unir.c:395-410; :397-398 says that
\* no stage blocks on a full stderr ring, which is true of a pipeline being read).
PipelineEnds == <>[](HeldByStderr \/ unread) \/ (sh # "region" ~> sh = "returned")
=============================================================================

----------------------------- MODULE Transcript -----------------------------
(***************************************************************************)
(* The transcript a shell's jobs write to (src/runtime/transcript_unir.c): *)
(* one writer, one call at a time; a job's place in it, named by a handle  *)
(* that goes stale when the job ends; the blocks a job's output opens; and *)
(* output committed whenever TxPending of it waits.  The document and the  *)
(* store are unir's, external: a block is begun, written and ended as      *)
(* asked, an ended block takes nothing more, and a begin, a write or push, *)
(* a commit or an allocation may fail when TxFaults says so.  A fiber is   *)
(* parked, and others run, while it waits for its turn and while the store *)
(* answers.                                                                *)
(***************************************************************************)
EXTENDS Integers, Sequences, FiniteSets, SequencesExt, FiniteSetsExt, Functions

CONSTANTS
  TxFibers,     \* the tasks that write, and end jobs
  JACL_JOBS,  \* slots for jobs
  TxPending,  \* JACL_TRANSCRIPT_PENDING
  TxLens,     \* lengths of what is written
  TxStarts,   \* bound: jobs started
  TxCalls,    \* bound: calls begun
  TxGens,     \* 0x7fffffff / JACL_JOBS: generations before a slot's handles wrap
  TxFaults    \* what may fail: "store", "begin", "write", "memory"

NoFiber == "none"

ASSUME TranscriptAssumption ==
  /\ NoFiber \notin TxFibers
  /\ TxStarts \in Nat /\ TxCalls \in Nat /\ TxFaults \subseteq {"store", "begin", "write", "memory"}
  /\ TxGens \in Nat \ {0}
  /\ JACL_JOBS \in Nat \ {0} /\ TxPending \in Nat \ {0} /\ TxLens \subseteq Nat

VARIABLES
  txBusy,     \* x->busy: NoFiber, or the fiber whose call is in flight
  tx,       \* the rest of the JaclTranscript: pending, blocks noted, references
  txDoc,      \* the document's blocks, in order: [by, kind, state, parts]
  txHeld,     \* output in the document, text and values, that no commit has carried
  txJobs,   \* jacl_jobs
  txFib,      \* each fiber's call and its locals
  issued,   \* history: the job each handle was made for
  txLog,    \* history: what each call added, in order: [call, block, n, via, lost]
  txCalls,  \* calls begun so far
  adapter,  \* the legacy adapter each fiber runs: none, running, killed, closed
  stopped   \* fibers asked to cancel
txVars == <<txBusy, tx, txDoc, txHeld, txJobs, txFib, issued, txLog, txCalls, adapter, stopped>>
legacyVars == <<adapter, stopped>>

TxNoBlock == 0       \* -1
TxIdle == [pc |-> "idle", op |-> "none", h |-> 0, n |-> 0, done |-> 0, agree |-> "none",
         call |-> 0, failed |-> FALSE, before |-> <<>>]
FreeSlot == [used |-> FALSE, gen |-> 0, job |-> 0, block |-> TxNoBlock, kind |-> "none",
             agree |-> "none", blocks |-> 0]

TxInit ==
  /\ txBusy = NoFiber
  /\ tx = [pending |-> 0, blocks |-> 0, refs |-> <<>>]
  /\ txDoc = <<>> /\ txHeld = 0
  /\ txJobs = [i \in 0 .. (JACL_JOBS - 1) |-> FreeSlot]
  /\ txFib = [f \in TxFibers |-> TxIdle]
  /\ issued = <<>> /\ txLog = <<>> /\ txCalls = 0
  /\ adapter = [f \in TxFibers |-> "none"] /\ stopped = {}

-----------------------------------------------------------------------------
(* Jobs and their handles.                                                 *)

SlotOf(h) == h % JACL_JOBS

\* The mutant forgets the generation.
MutJobOfHandle(h) == txJobs[SlotOf(h)].used
\* Whether handle h names a job.
job_of_handle(h) == txJobs[SlotOf(h)].used /\ txJobs[SlotOf(h)].gen = h \div JACL_JOBS

\* [transcript-job T CMD JOB]: the first free slot.
jacl_transcript_job(f) ==
  /\ txFib[f].pc = "idle" /\ Len(issued) < TxStarts
  /\ \E i \in DOMAIN txJobs :
       /\ ~txJobs[i].used /\ \A k \in DOMAIN txJobs : k < i => txJobs[k].used
       /\ txJobs' = [txJobs EXCEPT ![i] =
                       [FreeSlot EXCEPT !.used = TRUE, !.gen = txJobs[i].gen,
                                        !.job = Len(issued) + 1]]
       /\ issued' = Append(issued, txJobs[i].gen * JACL_JOBS + i)
  /\ UNCHANGED <<txBusy, tx, txDoc, txHeld, txFib, txLog, txCalls, legacyVars>>

-----------------------------------------------------------------------------
(* One call at a time.                                                     *)

\* A task writes through its job's handle, which may be stale by now: text
\* (print), a value of this runtime's or of a schema (emit), a message of a
\* pipeline's output under the agreement its program offered (forward), the
\* pipeline's end, and the job's end.  The shell also flushes, opens an output
\* block of its own, and later writes to it or ends it by its number.
JobCalls == {[op |-> "write", n |-> n, agree |-> "none"] : n \in TxLens}
       \cup {[op |-> "emit", n |-> 1, agree |-> a] : a \in {"own", "link"}}
       \cup {[op |-> "forward", n |-> 1, agree |-> "piped"]}
       \cup {[op |-> o, n |-> 0, agree |-> "none"] : o \in {"piped", "end"}}
ShellCalls == {[op |-> o, n |-> 0, agree |-> "none"] : o \in {"output", "flush"}}
BlockCalls == {[op |-> "put", n |-> n, agree |-> "none"] : n \in TxLens}
         \cup {[op |-> "close", n |-> 0, agree |-> "none"]}

\* What the shell calls block b, one of its own: its number, apart from the handles.
OwnName(b)  == -1 - b
OwnBlock(h) == -1 - h

\* A call begun through handle h, -1 for none: it waits for its turn.
CallBegun(c, h) == [pc |-> "wait", op |-> c.op, h |-> h, n |-> c.n, done |-> 0, agree |-> c.agree,
                call |-> txCalls + 1, failed |-> FALSE, before |-> <<>>]

\* job_take, first half: a handle that names nothing ends the call at once.
CallJob(f) ==
  /\ txFib[f].pc = "idle" /\ txCalls < TxCalls
  /\ \E h \in ToSet(issued), c \in JobCalls :
       /\ job_of_handle(h)
       /\ txFib' = [txFib EXCEPT ![f] = CallBegun(c, h)]
  /\ txCalls' = txCalls + 1
  /\ UNCHANGED <<txBusy, tx, txDoc, txHeld, txJobs, issued, txLog, legacyVars>>

CallShell(f) ==
  /\ txFib[f].pc = "idle" /\ txCalls < TxCalls
  /\ \/ \E c \in ShellCalls : txFib' = [txFib EXCEPT ![f] = CallBegun(c, -1)]
     \/ \E c \in BlockCalls, b \in DOMAIN txDoc :
          /\ b <= tx.blocks /\ txDoc[b].by = OwnName(b)
          /\ txFib' = [txFib EXCEPT ![f] = CallBegun(c, OwnName(b))]
  /\ txCalls' = txCalls + 1
  /\ UNCHANGED <<txBusy, tx, txDoc, txHeld, txJobs, issued, txLog, legacyVars>>

\* A job that waits for its turn can be cancelled: it holds nothing yet.
CtlPoint(f) ==
  /\ txFib[f].pc = "wait" /\ txBusy # NoFiber /\ f \in stopped
  /\ txFib' = [txFib EXCEPT ![f].pc = "gone"]
  /\ UNCHANGED <<txBusy, tx, txDoc, txHeld, txJobs, issued, txLog, txCalls, legacyVars>>

\* The mutant keeps what it looked up before it waited.
MutStillNamed(h) == TRUE
\* job_take, second half: the job may have ended while this waited.
StillNamed(h) == h >= 0 => job_of_handle(h)

transcript_wait(f) ==
  /\ txFib[f].pc = "wait" /\ txBusy = NoFiber
  /\ txBusy' = f
  /\ txFib' = [txFib EXCEPT ![f].pc = IF StillNamed(txFib[f].h) THEN "body" ELSE "done",
                        ![f].before = txDoc]
  /\ UNCHANGED <<tx, txDoc, txHeld, txJobs, issued, txLog, txCalls, legacyVars>>

transcript_done(f) ==
  /\ txFib[f].pc = "done"
  /\ txBusy' = NoFiber
  /\ txFib' = [txFib EXCEPT ![f] = IF adapter[f] = "running"
                               THEN [TxIdle EXCEPT !.pc = "loop", !.h = txFib[f].h,
                                                 !.failed = txFib[f].failed]
                               ELSE TxIdle]
  /\ UNCHANGED <<tx, txDoc, txHeld, txJobs, issued, txLog, txCalls, legacyVars>>

-----------------------------------------------------------------------------
(* Blocks.                                                                 *)

BlockFor(h, kind) == [by |-> h, kind |-> kind, state |-> "open", parts |-> 0]
BlockEnded(d, b, how) == IF b = TxNoBlock THEN d ELSE [d EXCEPT ![b].state = how]

\* transcript_note: the block just begun is the next the table has room for.
transcript_note(b) == b = tx.blocks + 1

TxBlocked == {"write", "emit", "screen", "forward"}
KindOf(op) == CASE op = "write" -> "text" [] op = "forward" -> "adopted"
                [] op \in {"emit", "screen"} -> "values"

\* The open block serves output of its kind and agreement.
Serves(j, kind, agree) == j.block # TxNoBlock /\ j.kind = kind /\ j.agree = agree

\* The mutant opens the next block without ending the open one.
MutJobBlock(f) ==
  LET c == txFib[f]
      s == SlotOf(c.h) IN
  /\ c.pc = "body" /\ c.op \in TxBlocked
  /\ txDoc' = Append(txDoc, BlockFor(c.h, KindOf(c.op)))
  /\ tx' = [tx EXCEPT !.blocks = @ + 1]
  /\ txJobs' = [txJobs EXCEPT ![s].block = Len(txDoc) + 1, ![s].kind = KindOf(c.op),
                              ![s].agree = c.agree, ![s].blocks = @ + 1]
  /\ txFib' = [txFib EXCEPT ![f].pc = "add"]
  /\ UNCHANGED <<txBusy, txHeld, issued, txLog, txCalls, legacyVars>>
job_block(f) ==
  LET c == txFib[f]
      s == SlotOf(c.h)
      j == txJobs[s] IN
  /\ c.pc = "body" /\ c.op \in TxBlocked
  /\ \/ /\ Serves(j, KindOf(c.op), c.agree)
        /\ txFib' = [txFib EXCEPT ![f].pc = "add"]
        /\ UNCHANGED <<tx, txDoc, txJobs>>
     \/ /\ ~Serves(j, KindOf(c.op), c.agree)
        /\ LET b == Len(txDoc) + 1 IN
           /\ txDoc' = Append(BlockEnded(txDoc, j.block, "complete"), BlockFor(c.h, KindOf(c.op)))
           /\ \/ /\ transcript_note(b)
                 /\ tx' = [tx EXCEPT !.blocks = @ + 1]
                 /\ txJobs' = [txJobs EXCEPT ![s].block = b, ![s].kind = KindOf(c.op),
                                             ![s].agree = c.agree, ![s].blocks = @ + 1]
                 /\ txFib' = [txFib EXCEPT ![f].pc = "add"]
              \/ /\ transcript_note(b) => "memory" \in TxFaults
                 /\ txJobs' = [txJobs EXCEPT ![s].block = TxNoBlock]
                 /\ txFib' = [txFib EXCEPT ![f].pc = "done", ![f].failed = TRUE]
                 /\ UNCHANGED tx
     \/ /\ ~Serves(j, KindOf(c.op), c.agree) /\ "begin" \in TxFaults
        /\ txDoc' = BlockEnded(txDoc, j.block, "complete")
        /\ txJobs' = [txJobs EXCEPT ![s].block = TxNoBlock]
        /\ txFib' = [txFib EXCEPT ![f].pc = "done", ![f].failed = TRUE]
        /\ UNCHANGED tx
  /\ UNCHANGED <<txBusy, txHeld, issued, txLog, txCalls, legacyVars>>

\* [transcript-output T CMD JOB]: a block of the shell's own.
jacl_transcript_output(f) ==
  /\ txFib[f].pc = "body" /\ txFib[f].op = "output"
  /\ LET b == Len(txDoc) + 1 IN
     \/ /\ "begin" \in TxFaults
        /\ txFib' = [txFib EXCEPT ![f].pc = "done", ![f].failed = TRUE] /\ UNCHANGED <<tx, txDoc>>
     \/ /\ txDoc' = Append(txDoc, BlockFor(OwnName(b), "text"))
        /\ \/ /\ transcript_note(b) /\ tx' = [tx EXCEPT !.blocks = @ + 1]
              /\ txFib' = [txFib EXCEPT ![f].pc = "done"]
           \/ /\ transcript_note(b) => "memory" \in TxFaults
              /\ txFib' = [txFib EXCEPT ![f].pc = "done", ![f].failed = TRUE] /\ UNCHANGED tx
  /\ UNCHANGED <<txBusy, txHeld, txJobs, issued, txLog, txCalls, legacyVars>>

\* [transcript-write T B TEXT] and [transcript-end T B], once they have the turn.
\* The block is one the transcript has, and an ended one is refused.
jacl_transcript_write(f) ==
  LET b == OwnBlock(txFib[f].h) IN
  /\ txFib[f].pc = "body" /\ txFib[f].op = "put"
  /\ IF txDoc[b].state = "open"
     THEN txFib' = [txFib EXCEPT ![f].pc = "add"]
     ELSE txFib' = [txFib EXCEPT ![f].pc = "done", ![f].failed = TRUE]
  /\ UNCHANGED <<txBusy, tx, txDoc, txHeld, txJobs, issued, txLog, txCalls, legacyVars>>

jacl_transcript_end(f) ==
  LET b == OwnBlock(txFib[f].h) IN
  /\ txFib[f].pc = "body" /\ txFib[f].op = "close"
  /\ IF txDoc[b].state = "open"
     THEN /\ txDoc' = BlockEnded(txDoc, b, "complete")
          /\ txFib' = [txFib EXCEPT ![f].pc = "done"]
     ELSE /\ txFib' = [txFib EXCEPT ![f].pc = "done", ![f].failed = TRUE]
          /\ UNCHANGED txDoc
  /\ UNCHANGED <<txBusy, tx, txHeld, txJobs, issued, txLog, txCalls, legacyVars>>

\* The block a call writes to: its job's open one, or the one it names.
Target(c) == IF c.h >= 0 THEN txJobs[SlotOf(c.h)].block ELSE OwnBlock(c.h)

\* unir refuses what a call adds, a part or a value: the call ends there.
AddFails(f) ==
  /\ txFib[f].pc = "add" /\ "write" \in TxFaults
  /\ txFib[f].op \in {"write", "put"} => txFib[f].done < txFib[f].n
  /\ txFib' = [txFib EXCEPT ![f].pc = "done", ![f].failed = TRUE]
  /\ UNCHANGED <<txBusy, tx, txDoc, txHeld, txJobs, issued, txLog, txCalls, legacyVars>>

\* A part at a time, as much as may wait; a commit when that much waits.
\* The mutant writes the whole at once.
MutPart(c) == c.n - c.done
Part(c) == IF c.n - c.done > TxPending - tx.pending THEN TxPending - tx.pending
           ELSE c.n - c.done

WritePart(f) ==
  LET c == txFib[f] IN
  /\ c.pc = "add" /\ c.op \in {"write", "put"}
  /\ IF c.done >= c.n
     THEN txFib' = [txFib EXCEPT ![f].pc = "done"] /\ UNCHANGED <<tx, txDoc, txHeld, txLog>>
     ELSE /\ txDoc' = [txDoc EXCEPT ![Target(c)].parts = @ + Part(c)]
          /\ txHeld' = txHeld + Part(c)
          /\ txLog' = Append(txLog, [call |-> c.call, block |-> Target(c), n |-> Part(c),
                                     via |-> c.h, lost |-> FALSE])
          /\ tx' = [tx EXCEPT !.pending = @ + Part(c)]
          /\ txFib' = [txFib EXCEPT ![f].done = @ + Part(c),
                                ![f].pc = IF tx.pending + Part(c) >= TxPending
                                          THEN "commit" ELSE "add"]
  /\ UNCHANGED <<txBusy, txJobs, issued, txCalls, legacyVars>>

\* The mutant keeps the name under the newest block.
MutRef(c) == [tx EXCEPT !.refs = Append(@, [block |-> Len(txDoc), name |-> c.call])]
transcript_ref(c) == [tx EXCEPT !.refs = Append(@, [block |-> Target(c), name |-> c.call])]

\* The how-manieth of block b element i of s is.
Rank(s, b, i) == Cardinality({k \in 1 .. i : s[k].block = b})

\* [transcript-pick T B V]: the name of reference v of block b, 0 if none.
Nth(b, v) == {i \in DOMAIN tx.refs : tx.refs[i].block = b /\ Rank(tx.refs, b, i) = v}
jacl_transcript_pick(b, v) ==
  IF Nth(b, v) = {} THEN 0 ELSE tx.refs[CHOOSE i \in Nth(b, v) : TRUE].name

\* A value joins its block, and is not counted as pending; a link's name is kept for
\* transcript-pick, unless it has none or there is no memory for it.
PushValue(f) ==
  LET c    == txFib[f]
      link == c.op = "emit" /\ c.agree = "link" IN
  /\ c.pc = "add" /\ c.op \in {"emit", "screen", "forward"}
  /\ txDoc' = [txDoc EXCEPT ![Target(c)].parts = @ + 1]
  /\ \E kept \in IF link THEN BOOLEAN ELSE {FALSE} :
       /\ tx' = IF kept THEN transcript_ref(c) ELSE tx
       /\ txLog' = Append(txLog, [call |-> c.call, block |-> Target(c), n |-> 1, via |-> c.h,
                                  lost |-> link /\ ~kept])
  /\ txHeld' = txHeld + 1
  /\ txFib' = [txFib EXCEPT ![f].pc = IF c.op = "screen" THEN "commit" ELSE "done"]
  /\ UNCHANGED <<txBusy, txJobs, issued, txCalls, legacyVars>>

jacl_transcript_flush(f) ==
  /\ txFib[f].pc = "body" /\ txFib[f].op = "flush"
  /\ txFib' = [txFib EXCEPT ![f].pc = "commit"]
  /\ UNCHANGED <<txBusy, tx, txDoc, txHeld, txJobs, issued, txLog, txCalls, legacyVars>>

\* transcript_commit: the fiber parks, holding the turn, until the store
\* answers.  What failed stays queued, and the call fails.
\* The mutant gives the turn to others while the store answers.
MutCommit(f) ==
  /\ txFib[f].pc = "commit"
  /\ txHeld' = 0 /\ tx' = [tx EXCEPT !.pending = 0]
  /\ txBusy' = NoFiber
  /\ txFib' = [txFib EXCEPT ![f].pc = IF txFib[f].op \in {"flush", "screen"} THEN "done" ELSE "add"]
  /\ UNCHANGED <<txDoc, txJobs, issued, txLog, txCalls, legacyVars>>
transcript_commit(f) ==
  /\ txFib[f].pc = "commit"
  /\ \/ /\ txHeld' = 0 /\ tx' = [tx EXCEPT !.pending = 0]
        /\ txFib' = [txFib EXCEPT ![f].pc = IF txFib[f].op \in {"flush", "screen"} THEN "done" ELSE "add"]
     \/ /\ "store" \in TxFaults
        /\ txFib' = [txFib EXCEPT ![f].pc = "done", ![f].failed = TRUE]
        /\ UNCHANGED <<txHeld, tx>>
  /\ UNCHANGED <<txBusy, txDoc, txJobs, issued, txLog, txCalls, legacyVars>>

\* A pipeline's end ends the adopted block that is open, whoever opened it.
job_pipeline_done(f) ==
  LET s == SlotOf(txFib[f].h)
      j == txJobs[s] IN
  /\ txFib[f].pc = "body" /\ txFib[f].op = "piped"
  /\ IF j.block # TxNoBlock /\ j.kind = "adopted"
     THEN /\ txDoc' = BlockEnded(txDoc, j.block, "complete")
          /\ txJobs' = [txJobs EXCEPT ![s].block = TxNoBlock, ![s].agree = "none"]
     ELSE UNCHANGED <<txDoc, txJobs>>
  /\ txFib' = [txFib EXCEPT ![f].pc = "done"]
  /\ UNCHANGED <<txBusy, tx, txHeld, issued, txLog, txCalls, legacyVars>>

\* [transcript-job-end S COMPLETE]: the generation moves before the slot is free.
\* Bound: "a slot is freed far less often" than the TxGens times after which its
\* handles come round again.
jacl_transcript_job_end(f) ==
  LET s == SlotOf(txFib[f].h) IN
  /\ txFib[f].pc = "body" /\ txFib[f].op = "end"
  /\ txJobs[s].gen + 1 < TxGens
  /\ \E how \in {"complete", "cancelled"} : txDoc' = BlockEnded(txDoc, txJobs[s].block, how)
  /\ txJobs' = [txJobs EXCEPT ![s].block = TxNoBlock, ![s].gen = (@ + 1) % TxGens,
                              ![s].used = FALSE]
  /\ txFib' = [txFib EXCEPT ![f].pc = "done"]
  /\ UNCHANGED <<txBusy, tx, txHeld, issued, txLog, txCalls, legacyVars>>

-----------------------------------------------------------------------------
(* [legacy-job]: a POSIX program run by an adapter, whose screens replace  *)
(* one another in the job's live block.                                    *)

cancel(f) ==
  /\ f \notin stopped
  /\ adapter[f] = "running" \/ txFib[f].pc = "wait"
  /\ stopped' = stopped \cup {f}
  /\ UNCHANGED <<txBusy, tx, txDoc, txHeld, txJobs, txFib, issued, txLog, txCalls, adapter>>

\* A screen, or at first the region's block: a call of its own.
Screen(f, h) ==
  IF job_of_handle(h)
  THEN txFib' = [txFib EXCEPT ![f] = CallBegun([op |-> "screen", n |-> 1, agree |-> "grid"], h)]
  ELSE txFib' = [txFib EXCEPT ![f] = [TxIdle EXCEPT !.pc = "loop", !.h = h, !.failed = TRUE]]

jacl_legacy_job(f) ==
  /\ txFib[f].pc = "idle" /\ adapter[f] = "none" /\ txCalls < TxCalls
  /\ \E h \in ToSet(issued) : job_of_handle(h) /\ Screen(f, h)
  /\ adapter' = [adapter EXCEPT ![f] = "running"]
  /\ txCalls' = txCalls + 1
  /\ UNCHANGED <<txBusy, tx, txDoc, txHeld, txJobs, issued, txLog, stopped>>

LegacyScreen(f) ==
  /\ txFib[f].pc = "loop" /\ ~txFib[f].failed /\ f \notin stopped /\ txCalls < TxCalls
  /\ Screen(f, txFib[f].h)
  /\ txCalls' = txCalls + 1
  /\ UNCHANGED <<txBusy, tx, txDoc, txHeld, txJobs, issued, txLog, legacyVars>>

\* The program ended, or the job's place failed: the adapter is closed.
LegacyClose(f) ==
  /\ txFib[f].pc = "loop" /\ (f \in stopped => txFib[f].failed)
  /\ adapter' = [adapter EXCEPT ![f] = "closed"]
  /\ txFib' = [txFib EXCEPT ![f] = TxIdle]
  /\ UNCHANGED <<txBusy, tx, txDoc, txHeld, txJobs, issued, txLog, txCalls, stopped>>

\* The loop's own look at a cancel: the adapter first, then the task.
LegacyCancel(f) ==
  /\ txFib[f].pc = "loop" /\ ~txFib[f].failed /\ f \in stopped
  /\ adapter' = [adapter EXCEPT ![f] = "killed"]
  /\ txFib' = [txFib EXCEPT ![f].pc = "gone"]
  /\ UNCHANGED <<txBusy, tx, txDoc, txHeld, txJobs, issued, txLog, txCalls, stopped>>

-----------------------------------------------------------------------------
UnderTurn(f) ==
  \/ transcript_done(f) \/ job_block(f) \/ jacl_transcript_output(f) \/ WritePart(f)
  \/ jacl_transcript_write(f) \/ jacl_transcript_end(f) \/ AddFails(f)
  \/ PushValue(f) \/ jacl_transcript_flush(f) \/ transcript_commit(f)
  \/ job_pipeline_done(f) \/ jacl_transcript_job_end(f)

TxNext ==
  \E f \in TxFibers :
    jacl_transcript_job(f) \/ CallJob(f) \/ CallShell(f) \/ CtlPoint(f)
    \/ transcript_wait(f) \/ UnderTurn(f)
    \/ cancel(f) \/ jacl_legacy_job(f) \/ LegacyScreen(f) \/ LegacyClose(f) \/ LegacyCancel(f)

TxSpec == TxInit /\ [][TxNext]_txVars

-----------------------------------------------------------------------------
\* A task that outlives its job writes nowhere, and no task writes into
\* another job's block or into a block already ended: what a call adds goes
\* to an open block opened through the very handle it was made with, whose
\* job has not ended.
OutputLands ==
  [][Len(txLog') > Len(txLog) =>
       LET e == Last(txLog') IN
       /\ txDoc[e.block].by = e.via /\ txDoc[e.block].state = "open"
       /\ e.via >= 0 => job_of_handle(e.via)]_txVars

\* Output of one call stays together: nothing another call adds comes between
\* its parts, though it gives way to the store after each TxPending of them.
WritesTogether ==
  \A i, j, k \in DOMAIN txLog :
    i < j /\ j < k /\ txLog[i].call = txLog[k].call =>
      /\ txLog[j].call = txLog[i].call
      /\ txLog[k].block = txLog[i].block

\* A handle names the job it was made for or nothing, however often its slot
\* has been used since.
HandleNames ==
  \A k \in DOMAIN issued :
    job_of_handle(issued[k]) => txJobs[SlotOf(issued[k])].job = k

\* A job has at most one open block, the one its slot records, and none once
\* it has ended.  This holds as long as every block begun was noted: one that
\* was not, for want of memory, is never ended, and no later one is noted.
OneOpenBlock ==
  tx.blocks = Len(txDoc) =>
    \A b \in DOMAIN txDoc :
      txDoc[b].state = "open" /\ txDoc[b].by >= 0 =>
        /\ job_of_handle(txDoc[b].by)
        /\ txJobs[SlotOf(txDoc[b].by)].block = b

\* Of the text written, what waits for a commit is at most TxPending, also after a
\* commit failed, and all that is counted does wait.  Values are not counted: emitted
\* or forwarded ones wait without a bound (see NeverHoldsMore).
HeldBounded == tx.pending <= TxPending /\ tx.pending <= txHeld

\* "A job's output is committed whenever 32 KiB of it is waiting, so the writer never
\* holds more" (transcript_unir.c:41-42).  The code does not keep this, as values are
\* not counted: it is in no run.
NeverHoldsMore == txHeld <= TxPending

\* A person's pick of a block's v-th value finds the name that value was
\* written with, whatever other jobs wrote meanwhile, unless the name of one of
\* the block's values was not kept.
PicksExact ==
  \A b \in DOMAIN txDoc :
    /\ \E i \in DOMAIN tx.refs : tx.refs[i].block = b
    /\ \A i \in DOMAIN txLog : txLog[i].block = b => ~txLog[i].lost
    => \A i \in DOMAIN txLog :
         txLog[i].block = b => jacl_transcript_pick(b, Rank(txLog, b, i)) = txLog[i].call

\* The turn is held by exactly the fiber whose call is under way: a fiber
\* cancelled while it waited never has it, and none runs without it.
TurnHeld ==
  \A f \in TxFibers : (txBusy = f) <=> (txFib[f].pc \in {"body", "add", "commit", "done"})

\* "Each call that fails returns an error value and leaves the transcript as
\* it was."  The code does not keep this: a begin or a write that was added stays when
\* the note, the push or the commit after it fails.  It is in no run.
FailureLeavesAsWas ==
  \A f \in TxFibers : txFib[f].pc = "done" /\ txFib[f].failed => txDoc = txFib[f].before

\* "Cancelled, it kills the adapter first": a task cancelled inside legacy-job
\* has killed its adapter, also when the cancel found it waiting for its turn.
\* The code does not keep this (transcript_unir.c:88 against :656): it is in no run.
AdapterKilled == \A f \in TxFibers : txFib[f].pc = "gone" => adapter[f] # "running"

\* Output of a call lands together, in an open block of the job the caller's handle
\* names, of its text never more than the limit waits for a commit, picks name what was
\* shown, and a call under way holds the turn, also when begins, writes, pushes, commits
\* and allocations fail (transcript_unir.c).  Handles are told apart until a slot has
\* been freed TxGens times.
TranscriptSound ==
  /\ [](WritesTogether /\ HandleNames /\ OneOpenBlock /\ HeldBounded /\ TurnHeld /\ PicksExact)
  /\ OutputLands
=============================================================================

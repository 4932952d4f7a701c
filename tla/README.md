# TLA+ models of JACL

JACL is a shell-like language. Its front end (`src/src`) and code generator
(`src/codegen`) compile a program to code that runs on the TEMEN virtual machine,
linked with a run-time library (`src/runtime`) and with data-structure libraries
(`src/lib`). This directory models the program's own logic in all of these: the
run-time's concurrent machinery first (the collector's stop-the-world protocol,
the M:N scheduler, channels, pipelines), then the heap, the numbers, the
persistent collections, the text libraries and the front end.

`PROJECT.json` lists, machine readably, the components, the runs, which source
lines each definition translates, the mutants, the hazards and the theorems.
Line numbers in comments are of the commit the models were written from.

## The system

| Part | State it keeps | Operations | Talks to |
|---|---|---|---|
| collector (`runtime/heap_gc.c`) | per worker: active, parked epoch, in-task, hand-off; global: epoch, done, lock, collector, stopped; regions, free lists, start bitmap, mark stack | alloc, safepoint, park, collect, register, unregister | every allocation; the scheduler's loop parks and runs handed-off collections |
| scheduler (`runtime/sched.c`) | per-worker ready queues and blocked lists, suspended list, stack pool, job words, shutdown flag | spawn, await, sleep, loop point, task end, cancel, suspend, resume, parallel, race | collector (safepoints, roots), channels (wakeups), compiled code |
| `$ctx`, timeouts, traces, atoms (`runtime/builtins.c`) | one global context, one global stack of sleep budgets, one of calls; atoms, watcher lists, global maps | set, timeout, sleep, call, swap, reset, watch | swapped by the scheduler around each slice; shared by all workers |
| channels (`runtime/chan.c`, `chan_unir.c`) | rings, ends, busy and closed words, the vat's notification | send, receive, close, wait | park fibers, wake idle workers |
| pipelines, transcript, services (`*_unir.c`) | stages and their edges, join statuses; job slots, open blocks, held output | start, read, join; append, commit, end | channels, host calls, the codec |
| generators, streams (`runtime/fiber.c`, `stream.c`) | nested fibers, a pool of 32 stacks; pull streams | next, done | resume fibers inside a job's fiber |
| numbers, values (`runtime/bigint.c`, `value.c`) | heap values; frames | arithmetic; encode, decode | allocator; services |
| libraries (`src/lib`) | HAMT, RRB vectors, sum trees, NFAs, Unicode tables, big numbers, a Chase-Lev deque | data-structure operations | the run-time's and the front end's values |
| front end (`src/src`) | token stream, tree, macro table, type shapes, a generational heap of blocks | lex, parse, expand, register types; allocate, collect | code generator |

What is hard: each worker is a vCPU on its own OS thread, so collector and
scheduler words are read and written in every interleaving; a fiber that must
wait may not block its thread, so waiting is always a suspend to the loop and a
later resume; job control acts on a job wherever it happens to be; pools, queues,
stacks and buffers are bounded; persistent structures share nodes and cache sums,
sizes and hashes that must stay right through splits and joins; scanners have
rules that meet only on particular short inputs. The hazards in `PROJECT.json`
give each of these at its line, with the properties that would catch it.

## Modules

One module per component; a module's variables are the component's words, its
actions the component's operations. Where a lock makes a section atomic the
section is one step; a word that is read or written without a lock is one step
per access. Mutants (definitions named `Mut...`) stand before the definition they
replace: each is a plausible bug that the property named with it in
`PROJECT.json` detects.

Run-time concurrency:

- **GcQuiesce**: registration, safepoints, parking, election, hand-off, barrier,
  sweep window and publication, with `jacl_alloc`'s retry loop. One step per
  access to a shared word. The heap is a count of free cells; the 1 ms futex
  timeouts make every wait re-check its condition, so a wait is a guard. An epoch
  is a natural number (int32 in the code: the wrap after 2^31 collections is a
  hazard that is not modelled).
- **Sched**: `worker_loop`, `resume_job`, `finish_job_outcome`, `repoll_blocked`,
  and everything compiled code calls. One step per critical section under
  `slock`; the pop loop holds the lock (`slk`) between its steps. The three
  intrusive lists that share the link `p[12]` are sequences, which `OnePlace`
  justifies. A job's code is chosen freely. `awaited` is a history variable.
- **TaskCtx**: loads and stores of `jacl_ctx_cur` around each slice.
- **ParRace**: the loops of `parallel` and `race` over blocks that end in any order.
- **Atoms**: `swap`, `reset`, watchers, and the global maps replaced whole by
  compare-and-swap, one step per shared access.
- **GlobalStacks**: the global stacks of sleep budgets and of calls, used by tasks
  that take turns on one worker.
- **Streams**: generators as fibers that resume each other (whatever the
  innermost one suspends for goes to its resumer), and pull streams.
- **Chan** and **ByteStream**: a channel between any number of fibers, and the
  byte queue it promises.
- **EventWait**: `idle_ns`, the vat's notification and `[service-event]`.
- **Pipeline**: the shell and the stages of one pipeline, each end of every edge
  acting on its own; regions, spawns, opening an edge and reads may fail, and stderr
  rings fill.
- **Transcript**: turns, job slots and handles, blocks, commits and faults. The
  shell's own blocks of values (`transcript-block`, `transcript-push`) are left out.

Heaps and values:

- **RtHeap**: regions, bump areas, free lists, conservative mark-sweep with a
  bounded root buffer and mark stack.
- **Immix**, **GenGc**: the front end's block heap, and its minor and major
  collections with the remembered set; swept cells are taken again, and entries for
  them stay in the set.
- **Tower**, **Codec**: the integer tower; values as messages between vats.

Libraries: **Hamt**, **Rrb**, **SumTree** with **Rope**/**RopeSummary** and
**Rdoc**/**RdocSummary** (the same tree, included twice with different elements),
**Regex**, **Segment**, **Nfd**, **Bigint**, **Bigfloat**, **ChaseLev** (each
access of a shared word is a step; `delayed` chooses between program order and a
store buffer).

Front end: **Lexer**, **Parser**, **Expand**, **Shapes**.

Proof modules extend the modules they are about: **GcQuiesceProofs**,
**SchedProofs**, **ChanProofs**, **RuntimeProofs** (EventWait and RtHeap),
**TaskProofs** (TaskCtx, Pipeline, Atoms, GlobalStacks and Transcript) and **MemoryProofs**
(ChaseLev, Immix and GenGc); ParRace holds its own.

The modules **MCTasks**, **MCRuntime**, **MCTrees**, **MCLibs**, **MCNumbers** and
**MCFront** put several components into one run. The components of one of them
share no state, so their product would only multiply states; the constant-valued
variable `part`, chosen initially, says which component a behaviour is about, and
the others keep one initial state. This is the disjoint union of the component
specifications, and each property is checked on the behaviours of its own part. Only MCFront
narrows a component: of the free cells of GenGc that nothing refers to and that bear
no trace of an earlier object, which are alike, an allocation takes the least.

## Runs

Deadlock is checked in the first four runs (a program that is over stutters); in
the others a behaviour is bounded by a number of operations and may stop.

| Run | What it checks |
|---|---|
| `gc_quiesce` | 3 workers, 1 cell, 2 tries, 3 allocations. `StopTheWorld`: nobody runs a task or allocates during the sweep; `NoMissedWake`; `OneCollector`; `EpochsInOrder`; `QuiesceProgress`: each requested collection completes and each parked worker is released |
| `sched` | 2 workers, 3 jobs, 5 operations. `JobsPlaced`: no job is lost or in two places and its words say where it is; `StacksSound`: a stack has one owner and comes back once; `ResultsTrue`: awaits carry the awaited result, which never changes |
| `sched_live` | the same, 3 operations, with fairness. `JobsProgress`: no await's wakeup is lost, sleepers are not starved, a cancel ends its job, the program ends with its root job |
| `tasks` | `CtxIsolated`, `AmbientRestored` (one worker); `ParallelSound`: blocks are joined, the first error by position wins; `ChannelSound`, `StreamRefined`, `CloseReleases`; `PipelineReports`, `PipelineEnds`: counted stages are reaped, the failure named, and a pipeline ends unless it is held in one of two named ways; `AtomsSound`; `StacksServe`: timeouts that do not overlap, traces within their buffer; `IterationSound` |
| `runtime` | `HeapSound`: what is reachable survives, cells are disjoint, lists exact; `NoWakeLost`; `TranscriptSound`: output lands together in the block of its job |
| `trees` | `TrieSound`, `RopeSound`, `DocSound`: after every short sequence of edits the tree is the map, text or token list a plain definition gives; cluster counts up to the first seam that is not spliced, cursors in documents without an emptied leaf |
| `libs` | `VecAgreesUnlessSpoilt`, `RegexSound`, `SegmentationSound`, `NfdSound`, `DequeSound` against reference definitions, each with the exceptions its comment names |
| `numbers` | `BignumSound`, `TowerSound`, `CodecSound`: exact arithmetic, one form per value, one rounding, equal unboxed keys hashed alike, round trips |
| `front` | `LexSound`, `ParseSound`, `ExpandSound`, `ShapesSound` over short inputs; `BlockHeapSound`; `CollectionsSound`: what a collection loses is what stale marks and the remembered set hide from it, and no garbage outlives two majors |
| `ctx_two` | finding: with two workers `$ctx` is not task-isolated (`sched.c:360`) |
| `vec_push` | finding: a push onto a relaxed vector drops size tables (`rrb_vec.h:345`) |
| `macro_left` | finding: macro calls in returned values, strings and spreads stay (`syntax.c:1160`) |

A property whose name ends in `Sound` (and `JobsPlaced`, `ResultsTrue`,
`JobsProgress`, `PipelineReports`, `StacksServe`) is a conjunction of named parts,
each defined and explained just before it in its module.

**Bounds.** One cell and three allocations suffice for collections by different
workers, back-to-back collections, lost elections and give-ups; with three
workers a collector, a worker the barrier has passed and one it has not exist at
once. Three jobs make await chains and cycles, and a requester, a target and a
third job that waits for it; five operations reach spawn, spawn, await, suspend
(or sleep), cancel. Queues and stack pools are as large as the number of jobs,
which is what the code's 1024 and 64 are for (the cases beyond are listed below).
A ring of one frame is full and empty within a few steps; two stages, each with two
frames of work, a frame of its own on stderr, a value and an error text, fill every
edge, the stderr ones included. A trace buffer of two frames is smaller than the
shadow stack of three, as 2048 bytes are less than 256 frames take. Branching 2 and 15
elements give a vector of four levels, relaxed and packed, and the packed one whose
last lowest node is full; three keys over two-digit hashes collide at each level; rope
leaves of four bytes with a scan window of two, half of it as in the code, split
two-byte characters and clusters, CR from LF, and junctions longer than the window.
Two edits of a document split, join and empty leaves. A text for a regular expression
has up to three characters, cut into chunks in every way; patterns are those of six
leaves and five quantifiers, and every text of three pattern elements for the parser.
The segmenter's window of two is shorter than its texts of four, and a segment of three
code points shorter than the buffer of six, as 128 is less than 256. Limbs of 3 and 6
bits meet every carry that 64-bit limbs do with few values; floats have two and four
bits and are rounded to three and four, so operands differ in precision from each other
and from the result. The lexer's texts are those of four characters over three small
alphabets (strings, numbers, operators), of three over a wider one, and short texts
put inside a string, an interpolation, a triple-quoted string and a shell line, the
last also with each character that ends it, a comment and a macro before it: rules of
different alphabets meet only there. Every bound is a named constant of a `.cfg`.

**Fairness.** `FairSpec` of GcQuiesce is weak fairness of each worker: vCPUs are
OS threads, and a task is assumed to reach an allocation or the end of its slice
(a task that does not is listed below). `FairSpec` of Sched is weak fairness of
each worker plus strong fairness of a sleep's end, which a deadline guarantees; a
loop may still yield for ever, and `ProgramEnds` makes the exception explicit.
`ChanSpec` has weak fairness of each fiber (the scheduler runs a ready fiber,
which `sched_live` checks), `PipeSpec` of the shell and of each stage (separate
vats): a shell that reads goes on reading, but nothing makes it close or cancel. On a host that runs all vCPUs on one thread these assumptions fail with
more than one worker, as `sched.c:66-91` says.

**Refinement.** `Stream == INSTANCE ByteStream WITH ...` in Chan maps a channel to
the byte queue: what was read, what is under way (the reader's rest followed by
the frames of the edge), and how the ends were closed. `StreamRefined` is the
abstract specification under this mapping; it is checked by `tasks` and proved.

## Proofs

All theorems are about `Spec` without fairness and hold for every value of the
constants that the modules' assumptions allow, and the extra hypotheses named
here.

**GcQuiesceProofs** (`GcAssumption`): `TypeCorrect`; `QuiesceInvariant`, and from
it `WorldStops`, `ViolationsStayZero`, `NoWakeMissed`, `SingleCollector` and the
action property `CollectionsInOrder`. StopTheWorld speaks of the sweep only, while
what makes it true is established earlier and by others. `LockInv`: at most one
worker holds the lock, also while the collection is handed from its fiber to its
loop, and `collector` names it. `EpochInv`: `epoch = done + 1` exactly while
somebody's collection is requested and not done; a parking worker's epoch is
`done` or `epoch`; a worker that published the current epoch still waits for it.
`ControlInv`: where control can be with each flag; bare code runs only on main,
alone. `BarrierInv`: a worker the barrier has passed is outside the set, at the
top of its loop, or in park with the current epoch, so it cannot leave before
`done` is published. Each action is proved to preserve each part.

**SchedProofs** (`SchedAssumption`; `NJobs <= RQCap`): `SchedInvariant`, and from
it `SchedJobsPlaced`. `SchedInv` says, of each list, that it holds once each the
jobs whose words say so (`ListsHold`); of each job, that it is in exactly one of
four places when live and in none otherwise, that only its owner has it in hand
or on its blocked list, and that the claim word names the running slice
(`JobHolds`); of each worker, that a sweep's remaining jobs are on the blocked
list, and that the job being polled is there until it is unlinked
(`WorkerHolds`). A completion may queue many jobs at once; that all of them find
room needs a count: a list without repetitions is no longer than the number of
jobs. Hence the hypothesis: a push to a full queue drops the job (`sched.c:255`).
The steps that move a job (complete, queue, hold, park) share the lemma
`KeepsMove`; each action cites it with what it moves.
`StackInvariant` and `SchedStacksSound` (also `NJobs <= NStacks`, because an
exhausted pool gives NULL, `sched.c:139`): the free list has no repetitions, no
live job's stack is on it, and the free stacks and the jobs that have one add up
to `NStacks`. `AwaitInvariant` and `SchedResultsTrue`: `AwaitInv` says where a job
suspended in an await may be and what is known there: answered whenever it is
queued, held or about to run; in hand with the awaited job as outcome; or parked
on it. It needs `SchedInv` before and after the step, and that finished jobs keep
their results (`DoneStays`, which is also the action property `DoneIsFinal`).

**TaskProofs**, ambient context (`NWorkers = 1`): `OneWorkerIsolated`, `OneWorkerRestored`.
`CtxInv` says where each context is at every point of `resume_job`: a running
job's in `jacl_ctx_cur`, every other born job's in its own word, the worker's in
`saved_ctx` during a slice. The run `ctx_two` shows that the hypothesis is needed.

**TaskProofs**, pipelines (`PipeAssumption`): `PipeInvariant`, `PipelineHolds`, with
no hypothesis on how stages start or what reads give. `PipelineReports` speaks of the
return; `PipeInv` says, all along, that the counted stages have a vat, and beyond them
at most the one that was spawned and whose stderr did not open (`ShellHolds`); and
that without a cancel a stage failed of itself, or returned a read refused because its
reader had gone, or after its predecessor failed, whose stdout alone was severed for it
(`FailuresHold`): so the least failed stage, which `pipe_failure` names, failed for a
reason of its own.

**TaskProofs**, atoms (`AtomAssumption`): `AtomInvariant`, `AtomsHold`. What is stored is
every applied update once; for each call in flight, what it read, what it will
store if the word is unchanged, and whom it has still to tell.

**TaskProofs**, global stacks (`GsAssumption`): `GsInvariant`, `StacksHold`.
`GsInv`: while nothing was mixed, at most one task is inside timeouts and each
level is what its timeout has left and whether it cut a sleep, and without a
timeout there is no level; each task's calls are increasing, until the shadow
stack is full it holds every call, and the last snapshot holds those up to some call,
newest first, as far back as the buffer has room. So the calls an error was inside of
are in its trace if they are among the last `TraceFrames` the program had made.

**ParRace** (`ParAssumption`): `ParInvariant`, `ParallelHolds`. The k-th await
returned block k, which had ended, and `first` is the first failing one among
those returned.

**ChanProofs** (`ChanAssumption`): `ChanInvariant`, `ChannelHolds`,
`ChannelImplementsStream`. Every accepted byte is, in order, in what was read, in
the reader's rest or in the edge; an end is claimed by at most one operation; and
what each operation under way has still to do agrees with them. Each action is
mapped to a step or a stutter of ByteStream. Facts about the concatenation of the
frames are proved by a least counterexample on their number.

**RuntimeProofs**, idling (`EventAssumption`): `EvInvariant`, `NoWakeIsLost`. For each
waiter what it armed, saw and has still to look at; for the idle worker what wakes it.

**RuntimeProofs**, heap (`HeapAssumption`; `Reach`, `RootsFit`): `HeapInvariant`,
`HeapIsSound`. `HeapSound` alone is not inductive; `HeapInv` adds:
- where every granule belongs (`CellsHold`, `RegionsHold`): a region is free,
  claimed by one worker, or holds cells and at most one bump area, and the cells
  carved from it do not overlap. `CellsDisjoint` needs it: a worker bumps only in
  an area that is its own, past the cells of its region.
- what a worker holds between two steps of an allocation (`WorkersHold`), and that a
  free list holds the free cells of its size, each once (`ListsHold`, for `ListsExact`).
- that a reference held, or stored in a live cell, points into a live cell
  (`RefsHold`); and, while marking, that what a marked cell refers to is marked, or
  is queued, or an overflow of the mark stack has asked for a rescan (`MarksHold`).
  When the mark ends nothing is queued and no rescan is due, so everything
  reachable is marked: this is `HeldAlive` across the sweep.
- which regions the sweep has passed (`SweepHolds`, for `SweepComplete`).

The two hypotheses are limits of the code. `Reach`: an interior reference is
resolved by scanning back at most `INTERIOR_SCAN_GRANULES` granules
(`heap_gc.c:404`), so no cell is longer than that scan reaches. `RootsFit`: the roots
held fit the buffer they are reported in (`heap_gc.c:535`); it is a condition on
the behaviour, `HeapSpec /\ []RootsFit`, since the code truncates silently.

**MemoryProofs**, the deque (`ChaseLevAssumption`): `DequeInvariant`, `DequeIsSound`, from
`DqSpec /\ ~delayed`, the accesses in program order, for any number of thieves, any
interleaving and any sequence of pushes, pops, growths and reclaims. `DqInv` compares what
each thief has read with the deque as it is now (`StealHolds`): its `top` is not ahead of
`top`, and as long as it is equal, the element it read, out of whichever buffer, is
the one at `top`. So a claim that succeeds takes what is there, once. Growing keeps
the elements between `top` and `bottom` and leaves older buffers as they were
(`BoundsHold`, `ElemsHold`, `CountHolds`). For the buffers (`EpochsHold`, `SlotHolds`): buffer b is
retired under epoch b - 1; a thief that reads b has announced no later epoch; and
a reclaim whose scan has passed the thief's slot has a least epoch no greater than that. So
no buffer is freed while it is read.

**MemoryProofs**, the block heap (`ImmixAssumption`): `BlockHeapInvariant`,
`BlockHeapIsSound`, for any number of blocks, lines, cells and sizes. `ImmixInv` says
that an object lies in a listed block, on lines marked occupied, apart from the others
(`ObjsHold`); that the run between the bump pointer and its limit holds no object, and has
room for the object under way once one was found (`RunHolds`); that the list, the pool
and the allocator's hand hold each block once, all of them counted (`BlocksHold`); and
that the blocks a concurrent sweep has still to do are listed, each once (`SweepOK`). A
sweep frees only lines without survivors and leaves the owner's current block alone,
so the run stays empty while the maps around it change. What unlinking blocks from a
list leaves (`Among`) is proved by counting.

**MemoryProofs**, collections (`GenAssumption`): `GenInvariant`, `CollectionsAreSound`, for
any number of objects and collections, at every parity of the mark. Beyond the types
`GenInv` says that what the last major collection condemned stays out of reach, and if
it survived does not bear the mark of the next (`CondemnedHolds`); so the next one
frees it. A mark is closed under references except at objects that already bore it, and
least among such sets: what is lost of the reachable objects is therefore behind one of
those (`Behind`), or, in a minor collection, behind an old container that the remembered
set lacks. Closure and minimality are all the proof needs; no induction. The theorem
speaks of a collection before which nothing live was lost; that the code does lose
something is below.

**TaskProofs**, the transcript (`TranscriptAssumption`): `TranscriptInvariant`,
`TranscriptIsSound`, for any number of fibers, job slots, calls and lengths, with every fault
of `TxFaults` (a begin, a write or push, a commit, an allocation) allowed, until a slot has been
freed `TxGens` times. The limit is on text: values that wait are not counted. `TxInv` adds to
the property:
- of a slot (`HandlesHold`, `SlotsHold`): its generation is past that of every handle issued
  before it was last freed, and the block it records is open and was opened through the
  handle that names it now. So a stale handle never finds another job's block.
- of a call (`TxCallHolds`): once it has the turn its handle names its job, and from the time
  it adds, its target is open, its own, and of its agreement. Only the holder of the turn
  changes slots in use, so what it found before it parked for the store still holds after.
- of the log (`InLog`): a call that waits is not in it, and the entries of the call that adds
  are its end. This is `WritesTogether` across the commits in between.
- of references (`PicksHold`): a block of links has as many references as values, in the same
  order, or the name of a value was not kept; any other block has none.

Model-checked only: liveness (`QuiesceProgress`, `JobsProgress`, `CloseReleases`,
`PipelineEnds`), which needs
fairness and ENABLED; the components whose reference definitions are recursive
operators (trees, regular expressions, segmentation, numbers, codec, lexer,
parser, expansion, shapes, pull streams), which the prover cannot use and whose
correctness is by induction over data; and ChaseLev with delayed stores, where the
property itself says what is lost.

## Claims the code does not keep

Some claims of the repository's comments and documents are stated in the modules and
are in no run, because the code does not keep them. Each was found violated with
the constants given.

| Claim | Where it is stated in the code | What TLC shows |
|---|---|---|
| GcQuiesce `StopRequestAnswered` under `LoopingSpec` | `heap_gc.c:282`, a safepoint at loop back-edges | a task that does not allocate is never asked (none is emitted) |
| GcQuiesce `ExhaustedOnlyAfterCollection` | `heap_gc.c:338` | `MaxTries = 1`: a lost election counts as a try |
| Sched `NoJobDropped` | `sched.c:5`, `:237` | `RQCap = 1`: a push to a full queue drops its job (`:255`) |
| ParRace `RaceReturnsWinner` | `SYNTAX.md:398` | `race` returns the first block by position (`sched.c:851`) |
| Immix `RunBoundNeverUnder` | `gc.c:161-164` | `NLines = 4`: the cached run is below the truth |
| GenGc `LiveSurvives` | `gc_collect.c:557-558` | a fresh object bears the mark of the next collection but one (`gc.c:497`), and is then passed over with all behind it |
| Transcript `NeverHoldsMore` | `transcript_unir.c:41-42` | values that wait are not counted (`:547-548`, `:574`) |
| Transcript `FailureLeavesAsWas` | `transcript_unir.c:39` | what was added stays when the note, push or commit after it fails |
| Transcript `AdapterKilled` | `transcript_unir.c:656` | a cancel in the wait for the turn returns first (`:88`) |
| ChaseLev `BufferAlive` | `chase_lev.h:259` | with the owner's stores delayed a reclaim misses a thief |

## Cases outside the properties

The properties checked say where the line is between what holds and what does not;
these are the cases on its other side.

- Collector: a task that neither allocates nor ends its slice delays a collection for
  ever (`heap_gc.c:282`; fairness excludes it); roots beyond the buffer are not marked
  (`:534`; `RootsFit`).
- Scheduler: with the pool exhausted a job starts on a NULL stack (`sched.c:139`,
  `:350`); `parallel` and `race` look at 32 blocks at most.
- Builtins: of two overlapping watch or unwatch calls one may be lost
  (`builtins.c:814-845`); timeouts of tasks that overlap share levels, nested timeouts
  do not charge the outer budget, begin past 16 levels is not pushed though end pops,
  and a return out of the body leaves the level open (`:749-772`; `gMixed`); trace
  frames are not popped, and a trace's 2048 bytes cut off the outer calls at about 100
  frames, calls that have returned included (`:1332-1365`).
- Generators: the scheduler's suspends inside a generator are taken for elements
  (`gLeaked`); generator stacks are never given back, and the 33rd call's error is
  resumed (`fiber.c:27-57`).
- Pipelines: `pipe_finish` reads one stderr to its end while a later stage may wait on its
  full stderr ring (`HeldByStderr`; `pipe_unir.c:397-398` says none does); the stdout of
  the last stage that started may be neither opened nor cancelled (`unread`); a stage
  whose stderr does not open is left running, not joined (`:574-576`), and the
  regions of a set-up that failed part way are kept (`:543`, not tracked); a program
  that returns the error of a read refused because its reader has gone, as `sink.jacl`
  does, is named as failed (`docs/UNIR_PIPELINES.md:151-154`).
- Transcript: a block that could not be noted is never ended, and none after it is
  noted (`transcript_unir.c:236`); a link whose name is not kept shifts the later
  picks of its block (`:261-281`).
- Values: a boxed i64 hashes by the address of its cell, so two equal ones are two
  keys (`collections.c:84-86` against `bigint.c:24-28`); a map that held both forms of a
  number as keys arrives from another vat with one entry (`value.c:241`).
- Vector: the three operations of `VecAgreesUnlessSpoilt`. With nodes of 32, the push
  into a packed tree that writes past a node's children is the one at 2080 elements
  (`rrb_vec.h:331`, `:346`, `:464`); a size goes stale after removals at the right edge
  (`:742`).
- Rope and document: the three seams of `GraphemesExactUnseamed` (`rope.h:211-212`,
  `:271-298`, `:1019`); a leaf emptied in place makes the cursor pass over the next
  leaf's first token (`rdoc.h:944-948`, `:2050-2056`); ids with a byte that looks like a
  lead byte (`rdoc.h:117-132`).
- Regular expressions: text after a quantifier with nothing to repeat is not read
  (`nfa.h:833`).
- Unicode: stepping back right after a hard break answers the position itself, and from
  inside a unit longer than the window it answers the window's edge (`unicode.h:503-545`,
  `:929`, `:1467`); a joiner is passed over before WB3c and LB8a are asked (`:740`,
  `:1126`); of a starter with its marks the code points past 128 are dropped (`:294`), and a
  byte that is not UTF-8 parts the marks around it (`:304-305`).
- Big numbers: the length estimate of decimal text is short from 1073 bits on
  (`bigint.h:931`); a division by zero writes neither quotient nor
  remainder, so `bigint_div` and `bigint_mod` return what was there (`:726-728`,
  `:781-793`, against their comments); a quotient whose
  divisor has more bits than the dividend, and a sum with a longer operand of
  lower exponent, are not rounded once (`bigfloat.h:486-505`, `:345-381`); floats of
  different precision compare wrongly (`:260`).
- Lexer: a negative decimal past INT64_MAX has neither value nor digits
  (`lexer.c:342`, against `:657-660`).
- Parser: in a block an operator without its second operand is dropped without an
  error, and one right before the block's `}` makes recovery pass over that `}`
  (`parser.c:2242-2244`).
- Typer: a `[Ptr T]` parameter passes for a `T`, and a map of unknown key type for its
  value's (`typer.c:2573`); a proc declared twice keeps the indices of the first
  declaration (`:2943-2950`); a buffer of boxes takes any box (`:1010`); an element that
  is a collection is called a struct in a chain of arrows (`:922-925`); a `[Map K str]`
  or `[Map K dyn]`, and a collection of a compound element, are read differently as
  parameter and as return (`SitesAgree` says exactly which).

## Not modelled

Instruction emission of the code generator, the typer's inference of expressions and
what it seeds from an earlier compile, the shell's own blocks of values in the
transcript,
host capabilities and I/O (thin wrappers), the Unicode tables (data), the legacy
batch of the scheduler (test-only), arenas, printing and diagnostics. The bytecode
VM and the concurrent driver of the front end's collector are not in the
repository. The VM's primitives (atomics, futex, fibers, `gc.roots`) and unir's
edges, vats, documents and stores are external: modelled from how the code uses
them. Memory is sequentially consistent for the `__vm_atomic` operations.

## What could come next

Models: the typer's inference of expressions; the code generator's lowering of
control flow.

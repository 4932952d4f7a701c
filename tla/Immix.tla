------------------------------- MODULE Immix -------------------------------
(***************************************************************************)
(* The block allocator of the compiler's own collector (src/src/gc.c) and  *)
(* the three sweeps of gc_collect.c as it sees them: blocks cut into       *)
(* lines, a bump cursor in a run of free lines, two scan hints per block,  *)
(* and a pool of empty blocks.  One thread allocates; the concurrent       *)
(* sweep of its heap runs on another, block by block, and excludes only    *)
(* the allocator's slow path (blocks_mutex).                               *)
(*                                                                         *)
(* Memory is counted in cells, LineCells to the line.  Which objects are   *)
(* marked is chosen freely here: that is GenGc's subject.                  *)
(***************************************************************************)
EXTENDS Integers, Sequences, FiniteSets, FiniteSetsExt, SequencesExt

CONSTANTS
  MaxBlocks,  \* pool->max_blocks
  NLines,     \* GC_LINES_PER_BLOCK
  LineCells,  \* GC_LINE_SIZE, in cells
  Sizes,      \* sizes an allocation may have, in cells
  MaxAllocs,  \* bound: allocations of the run
  MaxSweeps   \* bound: sweeps of the run

ASSUME ImmixAssumption ==
  /\ MaxBlocks \in Nat \ {0} /\ NLines \in Nat \ {0} /\ LineCells \in Nat \ {0}
  /\ Sizes \subseteq 1 .. NLines * LineCells - 1
  /\ MaxAllocs \in Nat /\ MaxSweeps \in Nat

VARIABLES
  objs,     \* objects whose header is not zeroed: [b, off, n, gen, sc]
  lines,    \* line_map of each block: 0 free, 1 occupied
  hint,     \* first_free_line of each block
  maxRun,   \* max_free_run_lines of each block
  list,     \* heap->blocks
  free,     \* pool->free_list
  total,    \* pool->total_blocks_allocated
  cur,      \* heap->current_block, or 0
  bumpAt,   \* heap->cursor, a cell of cur
  limit,    \* heap->limit; bumpAt and limit are 0 when NULL
  search,   \* heap->search_block, or 0
  apc,      \* where gc_alloc is
  need,     \* the size it was asked for
  hand,     \* the block it got from the pool, or 0
  unswept,     \* blocks the concurrent sweep has still to visit
  sweeping, \* blocks_mutex is held by the concurrent sweep
  allocs, sweeps

maps   == <<lines, hint, maxRun>>
run    == <<cur, bumpAt, limit>>
pool   == <<free, total>>
call   == <<apc, need, hand>>
conc   == <<unswept, sweeping>>
count  == <<allocs, sweeps>>
immixVars == <<objs, maps, list, pool, run, search, call, conc, count>>

Blocks  == 1 .. MaxBlocks
LineSet == 0 .. NLines - 1
Cells   == NLines * LineCells
NoBlock == 0

FirstLine(o) == o.off \div LineCells
LastLine(o)  == (o.off + o.n - 1) \div LineCells

\* The line map that the objects of block b give.
LineMap(os, b) ==
  [i \in LineSet |-> IF \E o \in os : o.b = b /\ i \in FirstLine(o) .. LastLine(o) THEN 1 ELSE 0]

\* gc__find_free_run, all at once: the runs of free lines of m from line `from`.
FreeRuns(m, from) ==
  {r \in LineSet \X LineSet :
     /\ from <= r[1] /\ r[1] <= r[2]
     /\ \A i \in r[1] .. r[2] : m[i] = 0
     /\ r[1] = from \/ m[r[1] - 1] = 1
     /\ r[2] = NLines - 1 \/ m[r[2] + 1] = 1}

RunLen(r) == r[2] - r[1] + 1
Longest(runs) == IF runs = {} THEN 0 ELSE Max({RunLen(r) : r \in runs})

\* gc__summarize_block_map
FirstFree(m) == IF \E i \in LineSet : m[i] = 0 THEN Min({i \in LineSet : m[i] = 0}) ELSE NLines
AllFree(m)   == \A i \in LineSet : m[i] = 0

LinesFor(n) == (n + LineCells - 1) \div LineCells

\* The blocks of s that are in bs, in their order in s.
Among(s, bs) ==
  LET Upto(k) == {j \in 1 .. k : s[j] \in bs}
  IN [i \in 1 .. Cardinality(Upto(Len(s))) |->
        s[CHOOSE k \in 1 .. Len(s) : s[k] \in bs /\ Cardinality(Upto(k)) = i]]

ImmixInit ==
  /\ objs = {} /\ list = <<>> /\ free = <<>> /\ total = 0
  /\ lines = [b \in Blocks |-> [i \in LineSet |-> 0]]
  /\ hint = [b \in Blocks |-> 0] /\ maxRun = [b \in Blocks |-> NLines]
  /\ cur = NoBlock /\ bumpAt = 0 /\ limit = 0 /\ search = NoBlock
  /\ apc = "idle" /\ need = 0 /\ hand = NoBlock
  /\ unswept = <<>> /\ sweeping = FALSE /\ allocs = 0 /\ sweeps = 0

-----------------------------------------------------------------------------
(* gc_alloc *)

\* gc__bump_alloc: the object at the cursor, its lines marked (gc__mark_lines).
gc__bump_alloc(n) ==
  LET o == [b |-> cur, off |-> bumpAt, n |-> n, gen |-> 0, sc |-> 0]
  IN /\ objs' = objs \cup {o}
     /\ bumpAt' = bumpAt + n
     /\ lines' = [lines EXCEPT ![cur] =
                    [i \in LineSet |-> IF i \in FirstLine(o) .. LastLine(o) THEN 1 ELSE @[i]]]

\* The fast path needs no lock: the run at the cursor has room.
AllocFast(n) ==
  /\ apc = "idle" /\ allocs < MaxAllocs
  /\ cur # NoBlock /\ limit # 0 /\ bumpAt + n <= limit
  /\ gc__bump_alloc(n)
  /\ allocs' = allocs + 1
  /\ UNCHANGED <<hint, maxRun, list, pool, cur, limit, search, call, conc, sweeps>>

AllocSlow(n) ==
  /\ apc = "idle" /\ allocs < MaxAllocs
  /\ ~(cur # NoBlock /\ limit # 0 /\ bumpAt + n <= limit)
  /\ apc' = "scan" /\ need' = n /\ allocs' = allocs + 1
  /\ UNCHANGED <<objs, maps, list, pool, run, search, hand, conc, sweeps>>

\* gc__find_fit_in_block: the runs it looks at start at the block's hint.
RunsFrom(b) == IF hint[b] >= NLines THEN {} ELSE FreeRuns(lines[b], hint[b])
Fitting(b)  == {r \in RunsFrom(b) : RunLen(r) >= LinesFor(need)}
Admitted(b) == maxRun[b] >= LinesFor(need)

\* Mutant: the run begins one line early.
MutFindFitEarly(b) ==
  LET s == Min({r[1] : r \in Fitting(b)})
      r == CHOOSE x \in Fitting(b) : x[1] = s
  IN /\ cur' = b
     /\ bumpAt' = (IF s > 0 THEN s - 1 ELSE s) * LineCells
     /\ limit' = (r[2] + 1) * LineCells
     /\ hint' = [hint EXCEPT ![b] = s]

\* The first run that fits becomes the allocator's; the hint moves up to it.
gc__find_fit_in_block(b) ==
  LET s == Min({r[1] : r \in Fitting(b)})
      r == CHOOSE x \in Fitting(b) : x[1] = s
  IN /\ cur' = b
     /\ bumpAt' = s * LineCells
     /\ limit' = (r[2] + 1) * LineCells
     /\ hint' = [hint EXCEPT ![b] = s]

\* The walk of the block list, under blocks_mutex, from search_block or the
\* head: the positions it looks into.  A block without a fit that was looked
\* into gets its exact longest run.
Walk ==
  LET from == IF search = NoBlock THEN 1 ELSE CHOOSE i \in DOMAIN list : list[i] = search
  IN {i \in DOMAIN list : i >= from /\ Admitted(list[i])}
Missed(seen) == [b \in Blocks |-> IF \E i \in seen : list[i] = b THEN Longest(RunsFrom(b)) ELSE maxRun[b]]

Scan(from, onMiss) ==
  /\ apc = from /\ ~sweeping
  /\ LET fits == {i \in Walk : Fitting(list[i]) # {}}
         at   == Min(fits)
     IN IF fits # {}
        THEN /\ gc__find_fit_in_block(list[at])
             /\ maxRun' = Missed({i \in Walk : i < at})
             /\ search' = list[at] /\ apc' = "bump"
        ELSE /\ maxRun' = Missed(Walk)
             /\ search' = NoBlock /\ apc' = onMiss
             /\ UNCHANGED <<run, hint>>
  /\ UNCHANGED <<objs, lines, list, pool, need, hand, conc, count>>

ScanBlocks   == Scan("scan", "pool")
RescanBlocks == Scan("rescan", "pool2")

\* After the unlock, or the insertion: the bump.
BumpAfter ==
  /\ apc = "bump"
  /\ gc__bump_alloc(need)
  /\ apc' = "idle" /\ need' = 0
  /\ UNCHANGED <<hint, maxRun, list, pool, cur, limit, search, hand, conc, count>>

Fresh == CHOOSE b \in Blocks : b \notin Range(list) \cup Range(free)

\* Mutant: the limit is not checked.
MutPoolGet(from, onNull) ==
  /\ apc = from
  /\ IF free # <<>>
     THEN hand' = Head(free) /\ free' = Tail(free) /\ apc' = "insert" /\ UNCHANGED total
     ELSE total' = total + 1 /\ apc' = onNull /\ UNCHANGED <<hand, free>>
  /\ UNCHANGED <<objs, maps, list, run, search, need, conc, count>>

\* gc_block_pool_get: a free block, or a new one below the limit; NULL at the
\* limit and when malloc fails (the reservation is given back).
gc_block_pool_get(from, onNull) ==
  /\ apc = from
  /\ \/ /\ free # <<>>
        /\ hand' = Head(free) /\ free' = Tail(free)
        /\ apc' = "insert" /\ UNCHANGED total
     \/ /\ free = <<>> /\ total < MaxBlocks
        /\ hand' = Fresh /\ total' = total + 1
        /\ apc' = "insert" /\ UNCHANGED free
     \/ /\ free = <<>>
        /\ apc' = onNull /\ UNCHANGED <<hand, free, total>>
  /\ UNCHANGED <<objs, maps, list, run, search, need, conc, count>>

PoolGet      == gc_block_pool_get("pool", "emergency")
PoolGetAgain == gc_block_pool_get("pool2", "grow")

\* Tier 2: one more block below the limit; tier 3: gc__oom_handler aborts.
Grow ==
  /\ apc = "grow"
  /\ \/ /\ total < MaxBlocks
        /\ hand' = Fresh /\ total' = total + 1 /\ apc' = "insert"
     \/ apc' = "panic" /\ UNCHANGED <<hand, total>>
  /\ UNCHANGED <<objs, maps, list, free, run, search, need, conc, count>>

\* got_block: the new block, zeroed, becomes the list's head and the current one.
InsertBlock ==
  /\ apc = "insert" /\ ~sweeping
  /\ list' = <<hand>> \o list
  /\ lines' = [lines EXCEPT ![hand] = [i \in LineSet |-> 0]]
  /\ hint' = [hint EXCEPT ![hand] = 0]
  /\ maxRun' = [maxRun EXCEPT ![hand] = NLines]
  /\ cur' = hand /\ bumpAt' = 0 /\ limit' = Cells
  /\ hand' = NoBlock /\ apc' = "bump"
  /\ UNCHANGED <<objs, pool, search, need, conc, count>>

-----------------------------------------------------------------------------
(* The sweeps *)

\* Promotion: a young object that survives its second sweep becomes old.
Promoted(o) ==
  IF o.gen = 1 THEN o ELSE IF o.sc >= 1 THEN [o EXCEPT !.gen = 1] ELSE [o EXCEPT !.sc = 1]

Forget == cur' = NoBlock /\ bumpAt' = 0 /\ limit' = 0 /\ search' = NoBlock

\* gc_sweep, single-threaded: the objects of `live` survive; blocks without an
\* object go back to the pool; the cursor is forgotten.
gc_sweep(live) ==
  LET after == {Promoted(o) : o \in live}
      used  == {o.b : o \in after}
  IN /\ objs' = after
     /\ lines' = [b \in Blocks |-> IF b \in Range(list) THEN LineMap(after, b) ELSE lines[b]]
     /\ hint' = [b \in Blocks |-> IF b \in Range(list) THEN FirstFree(lines'[b]) ELSE hint[b]]
     /\ maxRun' = [b \in Blocks |-> IF b \in Range(list) THEN Longest(FreeRuns(lines'[b], 0)) ELSE maxRun[b]]
     /\ list' = Among(list, used)
     /\ free' = Reverse(Among(list, Blocks \ used)) \o free
     /\ Forget

\* A major collection at a safepoint.
MajorSweep ==
  /\ apc = "idle" /\ ~sweeping /\ sweeps < MaxSweeps
  /\ \E live \in SUBSET objs : gc_sweep(live)
  /\ sweeps' = sweeps + 1
  /\ UNCHANGED <<total, call, conc, allocs>>

\* Tier 1 of the escalation: gc__emergency_gc_fn, when one is set, collects.
EmergencyGc ==
  /\ apc = "emergency" /\ ~sweeping
  /\ apc' = "rescan"
  /\ \/ \E live \in SUBSET objs : gc_sweep(live)
     \/ UNCHANGED <<objs, maps, list, free, run, search>>
  /\ UNCHANGED <<total, need, hand, conc, count>>

\* gc_sweep_minor: old objects stay, and the lines of a block that hold one
\* keep their mark; a block that is empty stays in the list.
gc_sweep_minor(live) ==
  LET after == {Promoted(o) : o \in live}
      OldOn(b, i) == \E o \in objs : o.b = b /\ o.gen = 1 /\ i \in FirstLine(o) .. LastLine(o)
      Map(b) == [i \in LineSet |-> IF OldOn(b, i) THEN lines[b][i] ELSE LineMap(after, b)[i]]
      In(b) == b \in Range(list)
  IN /\ objs' = after
     /\ lines' = [b \in Blocks |-> IF In(b) THEN Map(b) ELSE lines[b]]
     /\ hint' = [b \in Blocks |-> IF In(b) THEN FirstFree(Map(b)) ELSE hint[b]]
     /\ maxRun' = [b \in Blocks |-> IF In(b) THEN Longest(FreeRuns(Map(b), 0)) ELSE maxRun[b]]
     /\ Forget

MinorSweep ==
  /\ apc = "idle" /\ ~sweeping /\ sweeps < MaxSweeps
  /\ \E live \in SUBSET objs :
       /\ \A o \in objs : o.gen = 1 => o \in live
       /\ gc_sweep_minor(live)
  /\ sweeps' = sweeps + 1
  /\ UNCHANGED <<list, pool, call, conc, allocs>>

\* gc_sweep_concurrent takes blocks_mutex for the whole walk.
ConcStart ==
  /\ ~sweeping /\ sweeps < MaxSweeps
  /\ sweeping' = TRUE /\ unswept' = list /\ sweeps' = sweeps + 1
  /\ UNCHANGED <<objs, maps, list, pool, run, search, call, allocs>>

\* Mutant: the current block is not skipped.
MutConcNoSkip ==
  /\ sweeping /\ unswept # <<>>
  /\ unswept' = Tail(unswept)
  /\ LET b == Head(unswept)
         mine == {o \in objs : o.b = b}
     IN \E live \in SUBSET mine :
          /\ objs' = (objs \ mine) \cup {Promoted(o) : o \in live}
          /\ lines' = [lines EXCEPT ![b] = LineMap(live, b)]
          /\ IF live = {} THEN list' = Among(list, Blocks \ {b}) /\ free' = <<b>> \o free
                          ELSE UNCHANGED <<list, free>>
  /\ UNCHANGED <<hint, maxRun, total, run, search, call, sweeping, count>>

\* One block.  The owner's current block, read under the mutex, is skipped; an
\* empty one goes to the pool.  The cursor is left alone.
ConcBlock ==
  /\ sweeping /\ unswept # <<>>
  /\ unswept' = Tail(unswept)
  /\ LET b == Head(unswept)
         mine == {o \in objs : o.b = b}
     IN IF b = cur
        THEN UNCHANGED <<objs, maps, list, free>>
        ELSE \E live \in SUBSET mine :
               LET m == LineMap(live, b)
               IN /\ objs' = (objs \ mine) \cup {Promoted(o) : o \in live}
                  /\ lines' = [lines EXCEPT ![b] = m]
                  /\ IF AllFree(m)
                     THEN list' = Among(list, Blocks \ {b}) /\ free' = <<b>> \o free /\ UNCHANGED <<hint, maxRun>>
                     ELSE /\ hint' = [hint EXCEPT ![b] = FirstFree(m)]
                          /\ maxRun' = [maxRun EXCEPT ![b] = Longest(FreeRuns(m, 0))]
                          /\ UNCHANGED <<list, free>>
  /\ UNCHANGED <<total, run, search, call, sweeping, count>>

ConcEnd ==
  /\ sweeping /\ unswept = <<>>
  /\ sweeping' = FALSE /\ search' = NoBlock
  /\ UNCHANGED <<objs, maps, list, pool, run, call, unswept, count>>

\* All the run's allocations and sweeps are done, or the heap is exhausted.
ImmixOver ==
  /\ apc = "panic" \/ (apc = "idle" /\ ~sweeping)
  /\ UNCHANGED immixVars

ImmixNext ==
  \/ \E n \in Sizes : AllocFast(n) \/ AllocSlow(n)
  \/ ScanBlocks \/ RescanBlocks \/ BumpAfter \/ PoolGet \/ PoolGetAgain
  \/ Grow \/ InsertBlock \/ EmergencyGc
  \/ MajorSweep \/ MinorSweep \/ ConcStart \/ ConcBlock \/ ConcEnd
  \/ ImmixOver

ImmixSpec == ImmixInit /\ [][ImmixNext]_immixVars

-----------------------------------------------------------------------------
(* Properties *)

CellsOf(o) == o.off .. o.off + o.n - 1

\* No two objects share memory, whatever runs the sweeps open up: gc_alloc
\* never hands out memory of an object that no sweep has freed.
NoOverlap ==
  \A o, p \in objs : o # p /\ o.b = p.b => CellsOf(o) \cap CellsOf(p) = {}

\* The lock-free fast path is safe: the run between bumpAt and limit holds no
\* object, also while a concurrent sweep rewrites line maps and frees blocks.
RunIsEmpty ==
  cur # NoBlock =>
    /\ cur \in Range(list)
    /\ \A o \in objs : o.b = cur => CellsOf(o) \cap (bumpAt .. limit - 1) = {}

\* Every block the pool counted is in the heap's list, in the pool or in
\* gc_alloc's hand, once; and no object lies in a block outside the list.
BlocksAccounted ==
  /\ Len(list) + Len(free) + (IF hand = NoBlock THEN 0 ELSE 1) = total
  /\ total <= MaxBlocks
  /\ Cardinality(Range(list) \cup Range(free) \cup ({hand} \ {NoBlock})) = total
  /\ \A o \in objs : o.b \in Range(list)

\* gc.c:161-164 says of max_free_run_lines that it "may overestimate between
\* sweeps" but "never underestimate[s] the actual largest run".  The code does not
\* keep this (NLines = 4 shows it), at the cost of memory only: it is in no run.
RunBoundNeverUnder ==
  \A b \in Range(list) : maxRun[b] >= Longest(FreeRuns(lines[b], 0))

\* Objects of the block heap never overlap, the bump run is empty memory, and every
\* block is in one place (gc.c).
BlockHeapSound == NoOverlap /\ RunIsEmpty /\ BlocksAccounted
=============================================================================

------------------------------- MODULE RtHeap -------------------------------
(***************************************************************************)
(* The heap of compiled programs (src/runtime/heap_gc.c): regions claimed  *)
(* from a shared pool, per-worker bump areas and exact-size free lists,    *)
(* and the conservative mark-sweep with its bounded root buffer and mark   *)
(* stack.  How the world is stopped is GcQuiesce's subject: here a         *)
(* collection starts when no other worker is inside jacl_alloc_off.        *)
(*                                                                         *)
(* Offsets count granules.  A cell holds at most one reference.            *)
(***************************************************************************)
EXTENDS Integers, Sequences, FiniteSets, FiniteSetsExt

CONSTANTS
  HWorkers,   \* worker ids, from 0
  NRegions,   \* JACL_NREGIONS
  RegionG,    \* granules of a region
  NClass,     \* cells of at most this many granules have a free list
  NodeSizes, BlobSizes, \* the cells the program allocates, in granules: nodes hold a reference
  MarkCap,    \* MARK_STACK_CAP
  RootCap,    \* size of the root buffer
  ScanCap,    \* INTERIOR_SCAN_GRANULES
  HAllocs,    \* bound: allocations
  HCollects   \* bound: collections

ASSUME HeapAssumption ==
  /\ HWorkers \subseteq Nat /\ 0 \in HWorkers
  /\ NRegions \in Nat \ {0} /\ RegionG \in Nat \ {0} /\ NClass \in Nat
  /\ NodeSizes \cup BlobSizes \subseteq Nat \ {0} /\ {MarkCap, RootCap, ScanCap, HAllocs, HCollects} \subseteq Nat

VARIABLES
  cells,   \* the start bitmap with the headers: offset -> [size, type, mark]
  ref,     \* the word in each cell's payload, 0 when there is none
  cursor,  \* jacl_region_bump, in regions: runs past the heap after a failed claim
  owner,   \* jacl_region_owner
  rfree,   \* jacl_region_free, 0 or 1
  wk,      \* jacl_worker: bump, limit and free lists
  at,      \* where each worker is in jacl_alloc
  held,    \* words on the stacks: pointers to or into cells
  phase,   \* "run", or the collection's step
  gcw,     \* the collecting worker
  todo,    \* roots not pushed yet
  stack, overflow, scanAt, \* mark_stack, mark_overflow, mark_rescan's position
  sweepR, swept,           \* the sweep's region and its result
  hAllocs, hCollects

heapVars == <<cells, ref, cursor, owner, rfree, wk, at, held, phase, gcw, todo, stack, overflow,
              scanAt, sweepR, swept, hAllocs, hCollects>>
gcVars   == <<phase, gcw, todo, stack, overflow, scanAt, sweepR, swept, hCollects>>

Regions == 0 .. NRegions - 1
Cell(o) == o .. o + cells[o].size - 1
Base(r) == r * RegionG
RegionOf(o) == o \div RegionG
Idle == [pc |-> "out", size |-> 0, r |-> 0, got |-> 0, res |-> 0, type |-> "blob"]
Span(size) == (size + RegionG - 1) \div RegionG

\* jacl_heap_init; the null granule 0 is reserved because the program's first,
\* small, allocation claims region 0.
HeapInit ==
  /\ cells = << >> /\ ref = << >>
  /\ cursor = 1 /\ owner = [r \in Regions |-> 0] /\ rfree = [r \in Regions |-> 0]
  /\ wk = [w \in HWorkers |-> [bump |-> IF w = 0 THEN 1 ELSE 0, limit |-> IF w = 0 THEN RegionG ELSE 0,
                               fl |-> [c \in 1 .. NClass |-> << >>]]]
  /\ at = [w \in HWorkers |-> Idle] /\ held = {}
  /\ phase = "run" /\ gcw = 0 /\ todo = {} /\ stack = << >> /\ overflow = 0 /\ scanAt = 0
  /\ sweepR = 0 /\ swept = 0 /\ hAllocs = 0 /\ hCollects = 0

jacl_region_hwm == IF cursor > NRegions THEN NRegions ELSE cursor

Put(f, o, v) == [x \in DOMAIN f \cup {o} |-> IF x = o THEN v ELSE f[x]]

-----------------------------------------------------------------------------
(* Allocation *)

\* jacl_alloc fills in the header, clears the payload and sets the start bit.
FillCell(w, o) ==
  /\ cells' = Put(cells, o, [size |-> at[w].size, type |-> at[w].type, mark |-> 0])
  /\ ref' = Put(ref, o, 0)
  /\ held' = held \cup {o}
  /\ at' = [at EXCEPT ![w] = Idle]

jacl_alloc(w, size, type) ==
  /\ phase = "run" /\ at[w].pc = "out" /\ hAllocs < HAllocs
  /\ at' = [at EXCEPT ![w] = [Idle EXCEPT !.pc = "off", !.size = size, !.type = type, !.res = 1]]
  /\ hAllocs' = hAllocs + 1
  /\ UNCHANGED <<cells, ref, cursor, owner, rfree, wk, held, gcVars>>

\* jacl_alloc_off: an exact-size free cell, else the bump area.
FromFreeList(w) ==
  /\ phase = "run" /\ at[w].pc = "off" /\ at[w].size <= NClass /\ wk[w].fl[at[w].size] # << >>
  /\ LET l == wk[w].fl[at[w].size]
     IN /\ FillCell(w, Head(l))
        /\ wk' = [wk EXCEPT ![w].fl[at[w].size] = Tail(l)]
  /\ UNCHANGED <<cursor, owner, rfree, hAllocs, gcVars>>

NoFreeCell(w) == ~ (at[w].size <= NClass /\ wk[w].fl[at[w].size] # << >>)

Bump(w) ==
  /\ phase = "run" /\ at[w].pc = "off" /\ NoFreeCell(w)
  /\ wk[w].bump + at[w].size <= wk[w].limit
  /\ FillCell(w, wk[w].bump)
  /\ wk' = [wk EXCEPT ![w].bump = @ + at[w].size]
  /\ UNCHANGED <<cursor, owner, rfree, hAllocs, gcVars>>

\* No room: jacl_grab_regions starts its scan of handed-back regions at 1.
StartGrab(w) ==
  /\ phase = "run" /\ at[w].pc = "off" /\ NoFreeCell(w)
  /\ wk[w].bump + at[w].size > wk[w].limit
  /\ at' = [at EXCEPT ![w].pc = "scan", ![w].r = 1, ![w].got = 0]
  /\ UNCHANGED <<cells, ref, cursor, owner, rfree, wk, held, hAllocs, gcVars>>

\* A claimed run: a large cell is placed at its base, otherwise it becomes
\* the worker's bump area.
Claimed(w, base) ==
  IF at[w].size > RegionG
  THEN FillCell(w, Base(base)) /\ UNCHANGED wk
  ELSE /\ FillCell(w, Base(base))
       /\ wk' = [wk EXCEPT ![w].limit = Base(base) + RegionG, ![w].bump = Base(base) + at[w].size]

\* One compare-and-swap of the scan. `got` counts the regions of the run taken
\* so far; a run that breaks off is given back and the scan goes on past it.
GrabScan(w) ==
  /\ phase = "run" /\ at[w].pc = "scan" /\ at[w].r + Span(at[w].size) <= jacl_region_hwm
  /\ LET r == at[w].r   got == at[w].got   k == Span(at[w].size)
     IN IF rfree[r + got] = 1
        THEN /\ rfree' = [rfree EXCEPT ![r + got] = 0]
             /\ IF got + 1 = k
                THEN /\ owner' = [x \in Regions |-> IF x \in r .. r + k - 1 THEN w ELSE owner[x]]
                     /\ Claimed(w, r)
                ELSE at' = [at EXCEPT ![w].got = got + 1] /\ UNCHANGED <<cells, ref, held, wk, owner>>
        ELSE /\ rfree' = [x \in Regions |-> IF x \in r .. r + got - 1 THEN 1 ELSE rfree[x]]
             /\ at' = [at EXCEPT ![w].r = r + got + 1, ![w].got = 0]
             /\ UNCHANGED <<cells, ref, held, wk, owner>>
  /\ UNCHANGED <<cursor, hAllocs, gcVars>>

\* The scan is over: one atomic add claims fresh regions, and also moves the
\* cursor when there are too few.
GrabFresh(w) ==
  /\ phase = "run" /\ at[w].pc = "scan" /\ at[w].r + Span(at[w].size) > jacl_region_hwm
  /\ LET k == Span(at[w].size)
     IN /\ cursor' = IF cursor > NRegions THEN cursor ELSE cursor + k
        /\ IF cursor + k > NRegions
           THEN at' = [at EXCEPT ![w].pc = "full"] /\ UNCHANGED <<cells, ref, held, wk, owner>>
           ELSE /\ owner' = [x \in Regions |-> IF x \in cursor .. cursor + k - 1 THEN w ELSE owner[x]]
                /\ Claimed(w, cursor)
  /\ UNCHANGED <<rfree, hAllocs, gcVars>>

\* jacl_alloc's loop: no cell, and the last collection freed nothing: trap,
\* which stops the guest.
Exhausted(w) ==
  /\ phase = "run" /\ at[w].pc = "full" /\ at[w].res = 0
  /\ phase' = "trap"
  /\ UNCHANGED <<cells, ref, cursor, owner, rfree, wk, at, held, gcw, todo, stack, overflow, scanAt, sweepR, swept, hAllocs, hCollects>>

-----------------------------------------------------------------------------
(* The program *)

Points(word, o) == o \in DOMAIN cells /\ word \in Cell(o)
Live(o) == cells[o].type # "free"

Store(o, word) ==
  /\ phase = "run" /\ o \in held /\ o \in DOMAIN cells /\ cells[o].type = "node" /\ word \in held
  /\ ref[o] # word
  /\ ref' = [ref EXCEPT ![o] = word]
  /\ UNCHANGED <<cells, cursor, owner, rfree, wk, at, held, hAllocs, gcVars>>

\* A pointer dies, or the optimizer keeps a pointer to the cell's last granule instead.
Drop(word) ==
  /\ phase = "run" /\ word \in held
  /\ held' = held \ {word}
  /\ UNCHANGED <<cells, ref, cursor, owner, rfree, wk, at, hAllocs, gcVars>>

Interior(o) ==
  /\ phase = "run" /\ o \in held /\ o \in DOMAIN cells /\ cells[o].size > 1
  /\ held' = (held \ {o}) \cup {o + cells[o].size - 1}
  /\ UNCHANGED <<cells, ref, cursor, owner, rfree, wk, at, hAllocs, gcVars>>

-----------------------------------------------------------------------------
(* jacl_gc_collect_stw *)

\* Out of room: the worker collects, the others being at safepoints.  Marks
\* are cleared and gc.roots fills the buffer, with at most RootCap words.
CollectStart(w) ==
  /\ phase = "run" /\ at[w].pc = "full" /\ at[w].res # 0 /\ hCollects < HCollects
  /\ \A v \in HWorkers \ {w} : at[v].pc = "out" \/ (at[v].pc = "full" /\ at[v].res # 0)
  /\ phase' = "roots" /\ gcw' = w /\ hCollects' = hCollects + 1
  /\ cells' = [o \in DOMAIN cells |-> [cells[o] EXCEPT !.mark = 0]]
  /\ todo' \in {s \in SUBSET held : Cardinality(s) = IF Cardinality(held) < RootCap THEN Cardinality(held) ELSE RootCap}
  /\ stack' = << >> /\ overflow' = 0 /\ scanAt' = 0 /\ sweepR' = 0 /\ swept' = 0
  /\ UNCHANGED <<ref, cursor, owner, rfree, wk, at, held, hAllocs>>

\* The cell mark_push_word resolves a word to: the nearest start at or below
\* it, within the scan's reach, if its extent contains the word.
Resolve(word) ==
  LET starts == {o \in DOMAIN cells : o <= word /\ word - o <= ScanCap}
  IN IF starts = {} \/ word \notin Cell(Max(starts)) THEN {} ELSE {Max(starts)}

\* Mutant: a push that finds the stack full is forgotten.
MutPushForgets(word) ==
  LET hit == {o \in Resolve(word) : Live(o) /\ cells[o].mark = 0}
  IN /\ cells' = [o \in DOMAIN cells |-> IF o \in hit THEN [cells[o] EXCEPT !.mark = 1] ELSE cells[o]]
     /\ stack' = IF hit # {} /\ Len(stack) < MarkCap THEN Append(stack, Max(hit)) ELSE stack
     /\ UNCHANGED overflow

\* mark_push_word: mark, and queue if there is space.
mark_push_word(word) ==
  LET hit == {o \in Resolve(word) : Live(o) /\ cells[o].mark = 0}
  IN /\ cells' = [o \in DOMAIN cells |-> IF o \in hit THEN [cells[o] EXCEPT !.mark = 1] ELSE cells[o]]
     /\ stack' = IF hit # {} /\ Len(stack) < MarkCap THEN Append(stack, Max(hit)) ELSE stack
     /\ overflow' = IF hit # {} /\ Len(stack) >= MarkCap THEN 1 ELSE overflow

PushRoot ==
  /\ phase = "roots" /\ todo # {}
  /\ \E word \in todo : mark_push_word(word) /\ todo' = todo \ {word}
  /\ UNCHANGED <<ref, cursor, owner, rfree, wk, at, held, phase, gcw, scanAt, sweepR, swept, hAllocs, hCollects>>

RootsDone ==
  /\ phase = "roots" /\ todo = {}
  /\ phase' = "drain"
  /\ UNCHANGED <<cells, ref, cursor, owner, rfree, wk, at, held, gcw, todo, stack, overflow, scanAt, sweepR, swept, hAllocs, hCollects>>

\* mark_trace of o, with the stack already popped to rest: blobs and words
\* that are not pointers push nothing.
mark_trace(o, rest) ==
  IF cells[o].type = "node" /\ ref[o] # 0
  THEN LET hit == {x \in Resolve(ref[o]) : Live(x) /\ cells[x].mark = 0}
       IN /\ cells' = [x \in DOMAIN cells |-> IF x \in hit THEN [cells[x] EXCEPT !.mark = 1] ELSE cells[x]]
          /\ stack' = IF hit # {} /\ Len(rest) < MarkCap THEN Append(rest, Max(hit)) ELSE rest
          /\ overflow' = IF hit # {} /\ Len(rest) >= MarkCap THEN 1 ELSE overflow
  ELSE stack' = rest /\ UNCHANGED <<cells, overflow>>

\* mark_drain, and the draining inside mark_rescan.
Drain ==
  /\ phase \in {"drain", "rescan"} /\ stack # << >>
  /\ mark_trace(stack[Len(stack)], SubSeq(stack, 1, Len(stack) - 1))
  /\ UNCHANGED <<ref, cursor, owner, rfree, wk, at, held, phase, gcw, todo, scanAt, sweepR, swept, hAllocs, hCollects>>

\* mark_rescan: while a push overflowed, walk the start bitmap again.
mark_rescan ==
  /\ stack = << >>
  /\ \/ phase = "drain" /\ overflow = 1
     \/ phase = "rescan" /\ overflow = 1 /\ {o \in DOMAIN cells : o >= scanAt} = {}
  /\ phase' = "rescan" /\ overflow' = 0 /\ scanAt' = 0
  /\ UNCHANGED <<cells, ref, cursor, owner, rfree, wk, at, held, gcw, todo, stack, sweepR, swept, hAllocs, hCollects>>

RescanCell ==
  /\ phase = "rescan" /\ stack = << >> /\ {o \in DOMAIN cells : o >= scanAt} # {}
  /\ LET o == Min({x \in DOMAIN cells : x >= scanAt})
     IN /\ scanAt' = o + 1
        /\ IF cells[o].mark = 1 THEN mark_trace(o, stack) ELSE UNCHANGED <<cells, stack, overflow>>
  /\ UNCHANGED <<ref, cursor, owner, rfree, wk, at, held, phase, gcw, todo, sweepR, swept, hAllocs, hCollects>>

\* Mutant: the lists of the last sweep are kept.
MutSweepKeepsLists ==
  /\ stack = << >> /\ overflow = 0
  /\ \/ phase = "drain"
     \/ phase = "rescan" /\ {o \in DOMAIN cells : o >= scanAt} = {}
  /\ phase' = "sweep" /\ sweepR' = 0
  /\ UNCHANGED <<cells, ref, cursor, owner, rfree, wk, at, held, gcw, todo, stack, overflow, scanAt, swept, hAllocs, hCollects>>

\* Everything is traced: the sweep rebuilds the free lists from nothing.
SweepStart ==
  /\ stack = << >> /\ overflow = 0
  /\ \/ phase = "drain"
     \/ phase = "rescan" /\ {o \in DOMAIN cells : o >= scanAt} = {}
  /\ phase' = "sweep" /\ sweepR' = 0
  /\ wk' = [w \in HWorkers |-> [wk[w] EXCEPT !.fl = [c \in 1 .. NClass |-> << >>]]]
  /\ UNCHANGED <<cells, ref, cursor, owner, rfree, at, held, gcw, todo, stack, overflow, scanAt, swept, hAllocs, hCollects>>

CellsIn(r, k) == {o \in DOMAIN cells : RegionOf(o) \in r .. r + k - 1}
Without(f, s) == [x \in DOMAIN f \ s |-> f[x]]

\* Mutant: a worker's bump area survives the release of its region.
MutReleaseKeepsBump(r, k) ==
  /\ cells' = Without(cells, CellsIn(r, k)) /\ ref' = Without(ref, CellsIn(r, k))
  /\ rfree' = [x \in Regions |-> IF x \in r .. r + k - 1 THEN 1 ELSE rfree[x]]
  /\ UNCHANGED wk

\* Mutant: only the first region of a large cell's run is handed back.
MutReleaseFirst(r, k) ==
  /\ cells' = Without(cells, CellsIn(r, k)) /\ ref' = Without(ref, CellsIn(r, k))
  /\ wk' = [w \in HWorkers |-> IF wk[w].limit > Base(r) /\ wk[w].limit <= Base(r + k)
                               THEN [wk[w] EXCEPT !.bump = 0, !.limit = 0] ELSE wk[w]]
  /\ rfree' = [rfree EXCEPT ![r] = 1]

\* jacl_release_regions: clear the start bits, retire bump areas, mark free.
jacl_release_regions(r, k) ==
  /\ cells' = Without(cells, CellsIn(r, k)) /\ ref' = Without(ref, CellsIn(r, k))
  /\ wk' = [w \in HWorkers |-> IF wk[w].limit > Base(r) /\ wk[w].limit <= Base(r + k)
                               THEN [wk[w] EXCEPT !.bump = 0, !.limit = 0] ELSE wk[w]]
  /\ rfree' = [x \in Regions |-> IF x \in r .. r + k - 1 THEN 1 ELSE rfree[x]]

\* Dead cells become free; the free cells of the region, in address order, are
\* pushed on their owner's lists.
FreeDead(r) == [o \in DOMAIN cells |-> IF o \in CellsIn(r, 1) /\ cells[o].mark = 0
                                       THEN [cells[o] EXCEPT !.type = "free"] ELSE cells[o]]

Listed(r, c, l, cs) ==
  LET free == {o \in CellsIn(r, 1) : cs[o].type = "free" /\ cs[o].size = c}
  IN [i \in 1 .. Cardinality(free) |-> CHOOSE o \in free : Cardinality({x \in free : x > o}) = i - 1] \o l

\* One region of the sweep.
SweepRegion ==
  /\ phase = "sweep" /\ sweepR < jacl_region_hwm
  /\ LET r == sweepR   head == Base(r)
         dead == {o \in CellsIn(r, 1) : Live(o) /\ cells[o].mark = 0}
         kept == {o \in CellsIn(r, 1) : Live(o) /\ cells[o].mark = 1}
     IN CASE rfree[r] = 1 ->
               sweepR' = r + 1 /\ UNCHANGED <<cells, ref, rfree, wk, swept>>
          [] rfree[r] = 0 /\ head \in DOMAIN cells /\ cells[head].size > RegionG ->
               /\ sweepR' = r + Span(cells[head].size)
               /\ IF cells[head].mark = 0
                  THEN jacl_release_regions(r, Span(cells[head].size)) /\ swept' = swept + 1
                  ELSE UNCHANGED <<cells, ref, rfree, wk, swept>>
          [] OTHER ->
               /\ sweepR' = r + 1
               /\ IF kept = {} /\ r # 0
                  THEN jacl_release_regions(r, 1) /\ swept' = swept + 1
                  ELSE /\ cells' = FreeDead(r) /\ swept' = swept + Cardinality(dead)
                       /\ wk' = [wk EXCEPT ![owner[r]].fl =
                                   [c \in 1 .. NClass |-> Listed(r, c, @[c], FreeDead(r))]]
                       /\ UNCHANGED <<ref, rfree>>
  /\ UNCHANGED <<cursor, owner, at, held, phase, gcw, todo, stack, overflow, scanAt, hAllocs, hCollects>>

\* The world restarts: the collector tries its allocation again and remembers
\* what the sweep returned. Any worker that lost the election (res -1) tries
\* again too.
CollectEnd ==
  /\ phase = "sweep" /\ sweepR >= jacl_region_hwm
  /\ phase' = "run"
  /\ \E lost \in SUBSET {v \in HWorkers \ {gcw} : at[v].pc = "full"} :
       at' = [v \in HWorkers |-> IF v = gcw THEN [at[v] EXCEPT !.pc = "off", !.res = swept]
                               ELSE IF v \in lost THEN [at[v] EXCEPT !.pc = "off", !.res = -1] ELSE at[v]]
  /\ UNCHANGED <<cells, ref, cursor, owner, rfree, wk, held, gcw, todo, stack, overflow, scanAt, sweepR, swept, hAllocs, hCollects>>

HeapNext ==
  \/ \E w \in HWorkers :
       \/ \E s \in NodeSizes : jacl_alloc(w, s, "node")
       \/ \E s \in BlobSizes : jacl_alloc(w, s, "blob")
       \/ FromFreeList(w) \/ Bump(w) \/ StartGrab(w) \/ GrabScan(w) \/ GrabFresh(w)
       \/ Exhausted(w) \/ CollectStart(w)
  \/ \E o \in held : Drop(o) \/ Interior(o) \/ \E word \in held : Store(o, word)
  \/ PushRoot \/ RootsDone \/ Drain \/ mark_rescan \/ RescanCell
  \/ SweepStart \/ SweepRegion \/ CollectEnd

HeapSpec == HeapInit /\ [][HeapNext]_heapVars

-----------------------------------------------------------------------------
(* Properties *)

\* What a stack points to, and what that points to in turn, is live: a
\* collection frees nothing reachable, whatever overflowed on the way
\* (heap_gc.c:416-424, :470-491), and no allocation reuses its memory.  The
\* reachable cells are a set that holds what the stacks point to and is closed
\* under following references.
HeldAlive ==
  \E reached \in SUBSET DOMAIN cells :
    /\ \A word \in held : \E o \in reached : Points(word, o)
    /\ \A o \in reached :
         Live(o) /\ (cells[o].type = "node" /\ ref[o] # 0 => \E x \in reached : Points(ref[o], x))

\* No two cells share a granule, and none lies in a worker's unused bump area
\* or in a region handed back to the pool (heap_gc.c:495-507).
CellsDisjoint ==
  /\ \A o, p \in DOMAIN cells : o # p => Cell(o) \cap Cell(p) = {}
  /\ \A o \in DOMAIN cells, w \in HWorkers : Cell(o) \cap (wk[w].bump .. wk[w].limit - 1) = {}
  /\ \A o \in DOMAIN cells : \A g \in Cell(o) : rfree[RegionOf(g)] = 0
  /\ \A v, w \in HWorkers : v # w => (wk[v].bump .. wk[v].limit - 1) \cap (wk[w].bump .. wk[w].limit - 1) = {}
  /\ \A w \in HWorkers : \A g \in wk[w].bump .. wk[w].limit - 1 : rfree[RegionOf(g)] = 0 /\ owner[RegionOf(g)] = w

\* A free list holds each dead cell of its size once, in the list of its
\* region's owner, so two workers never take the same cell (heap_gc.c:548-553).
ListsExact ==
  phase = "run" =>
    \A w \in HWorkers, c \in 1 .. NClass :
      LET l == wk[w].fl[c]
      IN /\ \A i \in 1 .. Len(l) : l[i] \in DOMAIN cells /\ cells[l[i]] = [size |-> c, type |-> "free", mark |-> 0]
                                   /\ owner[RegionOf(l[i])] = w
         /\ \A i, j \in 1 .. Len(l) : l[i] = l[j] => i = j

\* A sweep loses no room: when it is over every region but the first is back in
\* the pool or lies under a live or listed cell, the ones a failed claim
\* skipped included (heap_gc.c:90-93, :548-553).
SweepComplete ==
  phase = "sweep" /\ sweepR >= jacl_region_hwm =>
    \A r \in 1 .. jacl_region_hwm - 1 :
      \/ rfree[r] = 1
      \/ \E o \in DOMAIN cells : r \in RegionOf(o) .. RegionOf(o + cells[o].size - 1)

\* What a program holds survives every collection, no two objects share memory, and
\* the free lists hold exactly the free cells (heap_gc.c).
HeapSound == HeldAlive /\ CellsDisjoint /\ ListsExact /\ SweepComplete
=============================================================================

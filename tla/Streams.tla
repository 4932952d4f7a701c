------------------------------ MODULE Streams ------------------------------
(* Generators on fibers (fiber.c, and the loops the compiler emits over them)  *)
(* and the stackless pull streams (stream.c).                                  *)
(*                                                                             *)
(* A generator's body is a fiber that its consumer's fiber resumes, and may    *)
(* itself consume others, so what runs is a chain of fibers.  Whatever the     *)
(* innermost one suspends for goes to its resumer: a yield, and also the       *)
(* suspends meant for the scheduler (a safepoint of the collector, an await, a *)
(* wait of the VM).                                                            *)
EXTENDS Integers, Sequences, SequencesExt, FiniteSets

CONSTANTS
  NGens,            \* bound: generator calls of the program
  JACL_GEN_STACKS,  \* stacks for generators; none is ever given back
  GenSteps,         \* bound: steps of the bodies and loops
  PipeLen,          \* bound: combinators of a stream
  SrcLen            \* elements of a stream's source

ASSUME StreamsAssumption ==
  /\ NGens \in Nat /\ JACL_GEN_STACKS \in Nat /\ GenSteps \in Nat
  /\ PipeLen \in Nat /\ SrcLen \in Nat

VARIABLES
  gens,     \* the generator objects made so far, in order
  gChain,    \* the fibers that resume each other, the job's own (0) first
  gLoops,    \* the generators each fiber loops over, the innermost loop last
  gStacks,   \* jacl_gen_stack_next
  gsteps,   \* steps taken
  gGiven,    \* history: what each body yielded
  gTaken,    \* history: what each loop's body was run with
  gLeaked,   \* history: the generators in which something else suspended
  gTrapped,  \* a loop over the error that jacl_gen_new returned
  sPipe,     \* a stream: its combinators, the source first
  sOuts      \* history: what was made, what it has given, and whether it is over

generatorVars == <<gens, gChain, gLoops, gStacks, gsteps, gGiven, gTaken, gLeaked, gTrapped>>
pullVars == <<sPipe, sOuts>>

JACL_FIBER_SUSPENDED == 0
JACL_FIBER_RETURNED  == 1
JACL_FIBER_PARKED    == 3

--------------------------------------------------------------------------
(* Generators. *)

Fibers0 == 0..NGens
Top == Last(gChain)
InBody == Top # 0

GeneratorInit ==
  /\ gens = <<>> /\ gChain = <<0>> /\ gLoops = [f \in Fibers0 |-> <<>>]
  /\ gStacks = 0 /\ gsteps = 0 /\ gLeaked = {} /\ gTrapped = FALSE
  /\ gGiven = [f \in Fibers0 |-> <<>>] /\ gTaken = [f \in Fibers0 |-> <<>>]

GStep == gsteps < GenSteps /\ gsteps' = gsteps + 1 /\ ~gTrapped

\* [for GEN_CALL x { ... }]: jacl_gen_new takes the next stack.  Without one it
\* returns an error, which the loop resumes all the same.
jacl_gen_new ==
  /\ GStep /\ Len(gens) < NGens
  /\ IF gStacks < JACL_GEN_STACKS
     THEN /\ gStacks' = gStacks + 1
          /\ gens' = Append(gens, [done |-> 0, started |-> FALSE, got |-> <<>>])
          /\ gLoops' = [gLoops EXCEPT ![Top] = Append(@, Len(gens) + 1)]
          /\ UNCHANGED gTrapped
     ELSE gTrapped' = TRUE /\ UNCHANGED <<gStacks, gens, gLoops>>
  /\ UNCHANGED <<gChain, gGiven, gTaken, gLeaked>>

MutResumeArg(g) == IF gens[g].done # 0 THEN 0 ELSE g

\* What the fiber of generator g is resumed with: its argument, once.
ResumeArg(g) == IF gens[g].started THEN 0 ELSE g

\* The header of the innermost loop: jacl_gen_next resumes the fiber.
jacl_gen_next ==
  /\ GStep /\ gLoops[Top] # <<>>
  /\ LET g == Last(gLoops[Top])
     IN /\ gChain' = Append(gChain, g)
        /\ gens' = [gens EXCEPT ![g].started = TRUE, ![g].got = Append(@, ResumeArg(g))]
  /\ UNCHANGED <<gLoops, gStacks, gGiven, gTaken, gLeaked, gTrapped>>

MutLoopEnds(status) == status = JACL_FIBER_PARKED

\* jacl_gen_done: what the loop's header makes of the status.
LoopEnds(status) == status # JACL_FIBER_SUSPENDED

\* The fiber on top is left with a status and a value: its resumer's loop runs
\* its body with the value, or ends.
LeftWith(status, v) ==
  LET g == Top
      c == gChain[Len(gChain) - 1]
  IN /\ gChain' = Front(gChain)
     /\ gens' = [gens EXCEPT ![g].done = status]
     /\ IF LoopEnds(status)
        THEN gLoops' = [gLoops EXCEPT ![c] = Front(@)] /\ UNCHANGED gTaken
        ELSE gTaken' = [gTaken EXCEPT ![g] = Append(@, v)] /\ UNCHANGED gLoops

\* yield V.
YieldValue ==
  /\ GStep /\ InBody
  /\ gGiven' = [gGiven EXCEPT ![Top] = Append(@, Len(@) + 1)]
  /\ LeftWith(JACL_FIBER_SUSPENDED, Len(gGiven[Top]) + 1)
  /\ UNCHANGED <<gStacks, gLeaked, gTrapped>>

\* The body returns: its value is nobody's element.
BodyReturns ==
  /\ GStep /\ InBody /\ gLoops[Top] = <<>>
  /\ LeftWith(JACL_FIBER_RETURNED, 0)
  /\ UNCHANGED <<gStacks, gGiven, gLeaked, gTrapped>>

\* A suspend meant for the scheduler, from a generator's fiber: 0 for the
\* collector, a job for an await, the status PARKED for a wait of the VM.
StraySuspend ==
  /\ GStep /\ InBody
  /\ gLeaked' = gLeaked \cup {Top}
  /\ \/ LeftWith(JACL_FIBER_SUSPENDED, 0)
     \/ LeftWith(JACL_FIBER_PARKED, 0)
  /\ UNCHANGED <<gStacks, gGiven, gTrapped>>

\* A return out of the loop, or a break, which leaves the loop around it (a generator's loop
\* is no target of a break): its generator is never resumed again.
BreakLoop ==
  /\ GStep /\ gLoops[Top] # <<>>
  /\ gLoops' = [gLoops EXCEPT ![Top] = Front(@)]
  /\ UNCHANGED <<gens, gChain, gStacks, gGiven, gTaken, gLeaked, gTrapped>>

GeneratorNext ==
  \/ jacl_gen_new \/ jacl_gen_next \/ YieldValue \/ BodyReturns
  \/ StraySuspend \/ BreakLoop

--------------------------------------------------------------------------
(* Streams. *)

\* Stand-ins for the transforms and predicates: any functions will do.
JaclMapFn(v) == v + 1
JaclPredFn(v) == v % 2 = 0

\* A combinator over the one before it: its kind, index and count.
mkstream(kind, n) == [kind |-> kind, i |-> 0, n |-> n]
Sources == {mkstream("range", SrcLen), mkstream("vec", 0)}
Combinators == {mkstream("map", 0), mkstream("filter", 0)} \cup {mkstream("take", k) : k \in 0..SrcLen}

\* A vector that is not a range.
Vec == [j \in 1..SrcLen |-> (j * 7) % 5]

\* What a source of elements es gives at its index; none past its end.
FromSource(p, es) ==
  IF p[1].i < Len(es)
  THEN [p |-> [p EXCEPT ![1].i = @ + 1], out |-> <<es[p[1].i + 1]>>]
  ELSE [p |-> p, out |-> <<>>]

MutTakeNext(p, k, r) ==
  IF r.out = <<>> THEN [r EXCEPT !.p[k].n = 0]
  ELSE IF p[k].n <= 0 THEN [p |-> r.p, out |-> <<>>]
  ELSE [r EXCEPT !.p[k].n = @ - 1]

\* A take counts what it got, and is over with its source.
TakeNext(p, k, r) ==
  IF p[k].n <= 0 THEN [p |-> p, out |-> <<>>]
  ELSE IF r.out = <<>> THEN [r EXCEPT !.p[k].n = 0] ELSE [r EXCEPT !.p[k].n = @ - 1]

RECURSIVE jacl_stream_next(_, _)
\* One element of the k-th stream of pipe p (out = <<>>: none), and the pipe
\* after it.
jacl_stream_next(p, k) ==
  CASE p[k].kind = "range" -> FromSource(p, [j \in 1..p[k].n |-> j - 1])
    [] p[k].kind = "vec" -> FromSource(p, Vec)
    [] p[k].kind = "map" ->
         LET r == jacl_stream_next(p, k - 1)
         IN [r EXCEPT !.out = [j \in DOMAIN @ |-> JaclMapFn(@[j])]]
    [] p[k].kind = "filter" ->
         LET r == jacl_stream_next(p, k - 1)
         IN IF r.out = <<>> \/ JaclPredFn(r.out[1]) THEN r ELSE jacl_stream_next(r.p, k)
    [] p[k].kind = "take" -> TakeNext(p, k, jacl_stream_next(p, k - 1))

PullInit == sPipe = <<>> /\ sOuts = [made |-> <<>>, got |-> <<>>, over |-> FALSE]

\* A stream is made, one combinator over the other.
MakeStream ==
  /\ Len(sPipe) <= PipeLen /\ sPipe = sOuts.made /\ ~sOuts.over
  /\ \E c \in IF sPipe = <<>> THEN Sources ELSE Combinators : sPipe' = Append(sPipe, c)
  /\ sOuts' = [sOuts EXCEPT !.made = sPipe']

\* jacl_stream_collect pulls until nothing more comes; a loop may stop before.
PullOne ==
  /\ sPipe # <<>> /\ ~sOuts.over
  /\ \E r \in {jacl_stream_next(sPipe, Len(sPipe))} :
       /\ sPipe' = r.p
       /\ sOuts' = IF r.out = <<>> THEN [sOuts EXCEPT !.over = TRUE]
                  ELSE [sOuts EXCEPT !.got = Append(@, r.out[1])]

PullNext == MakeStream \/ PullOne

--------------------------------------------------------------------------
(* Properties. *)

\* A loop over a generator runs its body with exactly what the generator
\* yielded, in order, also when generators drive generators and loops are left
\* early; the value it returns is no element, and its argument is passed once.
\* This holds where nothing but yield suspends the generator's fiber: an await,
\* a wait or a collection in it is taken for an element or for its end
\* (fiber.c:48-59, codegen.c:2487-2530).
ElementsExact ==
  \A g \in DOMAIN gens : g \notin gLeaked =>
    /\ gTaken[g] = gGiven[g]
    /\ \A j \in DOMAIN gens[g].got : gens[g].got[j] = IF j = 1 THEN g ELSE 0

\* No fiber is resumed that runs or has returned, so every generator is in one
\* place of the chain at most.
ResumedOnce ==
  /\ IsInjective(gChain)
  /\ \A f \in ToSet(gChain) \ {0} : gens[f].done # JACL_FIBER_RETURNED

\* What the first k combinators of p stand for, over the source's elements es.
RECURSIVE Denotes(_, _, _)
Denotes(p, k, es) ==
  IF k = 1 THEN es
  ELSE LET ds == Denotes(p, k - 1, es)
       IN CASE p[k].kind = "map" -> [j \in DOMAIN ds |-> JaclMapFn(ds[j])]
            [] p[k].kind = "filter" -> SelectSeq(ds, JaclPredFn)
            [] OTHER -> SubSeq(ds, 1, IF p[k].n < Len(ds) THEN p[k].n ELSE Len(ds))

SourceOf(p) == IF p[1].kind = "vec" THEN Vec ELSE [j \in 1..p[1].n |-> j - 1]

\* A stream gives what its combinators make of its source, element by element,
\* and pulls no more of the source than the elements it has given need; one that
\* ends in a take that has had its fill does not pull to say so (stream.c:3-6).
StreamsLazy ==
  sOuts.made # <<>> =>
    LET after(m) == Denotes(sOuts.made, Len(sOuts.made), SubSeq(SourceOf(sOuts.made), 1, m))
        filled == Last(sOuts.made).kind = "take" /\ Len(sOuts.got) = Last(sOuts.made).n
    IN /\ sOuts.got = after(IF sOuts.over THEN SrcLen ELSE sPipe[1].i)
       /\ (~sOuts.over \/ filled) /\ sPipe[1].i > 0 => Len(after(sPipe[1].i - 1)) < Len(sOuts.got)

\* What is iterated is what was produced.
IterationSound == ElementsExact /\ ResumedOnce /\ StreamsLazy
=============================================================================

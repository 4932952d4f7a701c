------------------------------- MODULE ParRace -------------------------------
(***************************************************************************)
(* parallel and race (sched.c): the calling job spawns a job per block,    *)
(* then awaits them one after the other.  The blocks end in any order,     *)
(* with a value or an error.  await returns the awaited job's result (what *)
(* AwaitCarriesResult of module Sched establishes).                        *)
(***************************************************************************)
EXTENDS Integers, Sequences, TLAPS

CONSTANTS
  NBlocks,  \* blocks of the call
  ParMax    \* JACL_PAR_MAX (32)

ASSUME ParAssumption == NBlocks \in Nat /\ ParMax \in Nat \ {0}

VARIABLES
  call,     \* "parallel" or "race"
  begun,  \* blocks begun so far: futs[1 .. begun]
  ends,     \* the blocks that ended, in the order they ended
  failed,      \* the blocks that ended with an error
  results,  \* what the awaits have returned, in order; block b's result is b
  first,    \* parallel's firsterr, race's first; 0 for none
  ret       \* "none", "nil", "vec" or "one", once the call returns

parVars == <<call, begun, ends, failed, results, first, ret>>

\* Both calls look at the first ParMax blocks only.
n == IF NBlocks > ParMax THEN ParMax ELSE NBlocks
Elems(s) == {s[i] : i \in DOMAIN s}

ParInit ==
  /\ call \in {"parallel", "race"}
  /\ begun = 0 /\ ends = <<>> /\ failed = {} /\ results = <<>> /\ first = 0
  /\ ret = IF call = "race" /\ NBlocks = 0 THEN "nil" ELSE "none"

\* jacl_spawn of the next block.
Spawn ==
  /\ ret = "none" /\ begun < n
  /\ begun' = begun + 1
  /\ UNCHANGED <<call, ends, failed, results, first, ret>>

\* A block's job completes, whatever the caller is doing.
BlockEnds ==
  /\ \E b \in 1 .. begun :
       /\ b \notin Elems(ends)
       /\ ends' = Append(ends, b)
       /\ failed' = failed \/ failed' = failed \cup {b}
  /\ UNCHANGED <<call, begun, results, first, ret>>

\* Mutant: parallel keeps the last error.
MutLastError ==
  /\ ret = "none" /\ begun = n /\ Len(results) < n
  /\ LET b == Len(results) + 1 IN
       /\ b \in Elems(ends)
       /\ results' = Append(results, b)
       /\ first' = IF call = "race" THEN (IF b = 1 THEN 1 ELSE first)
                   ELSE IF b \in failed THEN b ELSE first
  /\ UNCHANGED <<call, begun, ends, failed, ret>>

\* jacl_await of the next block returns: it ended.
Await ==
  /\ ret = "none" /\ begun = n /\ Len(results) < n
  /\ LET b == Len(results) + 1 IN
       /\ b \in Elems(ends)
       /\ results' = Append(results, b)
       /\ first' = IF first = 0 /\ (call = "race" \/ b \in failed) THEN b ELSE first
  /\ UNCHANGED <<call, begun, ends, failed, ret>>

\* Mutant: the call returns as soon as it knows its result.
MutReturnEarly ==
  /\ ret = "none" /\ begun = n /\ (Len(results) = n \/ first # 0)
  /\ ret' = IF first # 0 THEN "one" ELSE "vec"
  /\ UNCHANGED <<call, begun, ends, failed, results, first>>

\* Every block was awaited: return the first error, or race's first, or the
\* vector of results.
CallReturns ==
  /\ ret = "none" /\ begun = n /\ Len(results) = n
  /\ ret' = IF first # 0 THEN "one" ELSE "vec"
  /\ UNCHANGED <<call, begun, ends, failed, results, first>>

ParOver == ret # "none" /\ UNCHANGED parVars

ParNext == Spawn \/ BlockEnds \/ Await \/ CallReturns \/ ParOver

ParSpec == ParInit /\ [][ParNext]_parVars

-----------------------------------------------------------------------------
(* Properties *)

\* Structured concurrency (sched.c:834, 851: "await all so they finish before
\* we return"): no block of the call is still running when it returns.
BlocksJoined == ret # "none" => Elems(ends) = 1 .. begun

\* First-error-wins, by position and not by time: parallel returns the error of
\* the first listed block that failed, or every result in the listed order.
FirstErrorWins ==
  call = "parallel" /\ ret # "none" =>
    IF failed = {} THEN ret = "vec" /\ results = [i \in 1 .. n |-> i]
    ELSE ret = "one" /\ first \in failed /\ \A b \in failed : first <= b

\* SYNTAX.md:398: "Run blocks, return first to complete".  The code does not keep
\* this, it returns block 0's result (sched.c:851): it is in no run.
RaceReturnsWinner == call = "race" /\ ret = "one" => first = ends[1]

\* parallel and race leave no block behind, and parallel's result does not depend
\* on the order the blocks end in (sched.c).
ParallelSound == BlocksJoined /\ FirstErrorWins

-----------------------------------------------------------------------------
(* Proofs, for any number of blocks: parallel and race return after every      *)
(* block has ended, and parallel's result is that of the first listed block    *)
(* that failed.                                                                *)

\* The types of the state of the call.
ParTypeOK ==
  /\ call \in {"parallel", "race"} /\ begun \in 0 .. n
  /\ ends \in Seq(1 .. n) /\ failed \in SUBSET (1 .. n)
  /\ results \in Seq(1 .. n) /\ first \in 0 .. n
  /\ ret \in {"none", "nil", "vec", "one"}

\* What the awaits so far have established: the k-th returned block k's result,
\* the block had ended, and first is the first of them that counts.
ParInv ==
  /\ ParTypeOK
  /\ Elems(ends) \subseteq 1 .. begun /\ failed \subseteq Elems(ends)
  /\ Len(results) <= n /\ first <= Len(results) /\ (Len(results) > 0 => begun = n)
  /\ \A i \in 1 .. Len(results) : results[i] = i /\ i \in Elems(ends)
  /\ call = "parallel" =>
       /\ first = 0 => \A i \in 1 .. Len(results) : i \notin failed
       /\ first # 0 => first \in failed /\ \A b \in failed : first <= b
  /\ ret \in {"vec", "one"} => begun = n /\ Len(results) = n
  /\ ret \in {"vec", "one"} => (ret = "one" <=> first # 0)
  /\ ret = "nil" => call = "race" /\ n = 0

LEMMA BlocksNat == n \in Nat
  BY ParAssumption DEF ParAssumption, n

\* What one more element does to the set of a sequence's elements.
LEMMA AppendElems ==
  ASSUME NEW S, NEW s \in Seq(S), NEW e \in S
  PROVE  Elems(Append(s, e)) = Elems(s) \cup {e}
  <1>1. /\ DOMAIN Append(s, e) = DOMAIN s \cup {Len(s) + 1}
        /\ \A i \in DOMAIN s : Append(s, e)[i] = s[i]
        /\ Append(s, e)[Len(s) + 1] = e
    OBVIOUS
  <1>2. QED
    BY <1>1, Zenon DEF Elems

LEMMA ParInitInv == ParInit => ParInv
  <1> SUFFICES ASSUME ParInit PROVE ParInv
    OBVIOUS
  <1>1. Elems(ends) = {}
    BY DEF ParInit, Elems
  <1>2. n \in Nat /\ (NBlocks = 0 => n = 0)
    BY BlocksNat, ParAssumption DEF ParAssumption, n
  <1>3. QED
    BY <1>1, <1>2 DEF ParInit, ParInv, ParTypeOK

\* A block that ends has not been awaited, so it changes no await's result.
LEMMA BlockEndsKeeps ==
  ASSUME ParInv, BlockEnds
  PROVE  ParInv'
  <1> USE BlocksNat
  <1>1. PICK b \in 1 .. begun :
          /\ b \notin Elems(ends) /\ ends' = Append(ends, b)
          /\ failed' = failed \/ failed' = failed \cup {b}
    BY DEF BlockEnds
  <1>2. UNCHANGED <<call, begun, results, first, ret>>
    BY DEF BlockEnds
  <1>3. b \in 1 .. n /\ ends \in Seq(1 .. n) /\ begun \in 0 .. n
    BY DEF ParInv, ParTypeOK
  <1>4. ends' \in Seq(1 .. n) /\ Elems(ends') = Elems(ends) \cup {b}
    BY <1>1, <1>3, AppendElems
  <1>5. ParTypeOK'
    BY <1>1, <1>2, <1>3, <1>4 DEF ParInv, ParTypeOK
  <1>6. b > Len(results)
    <2>1. Len(results) \in Nat
      BY DEF ParInv, ParTypeOK
    <2>2. QED
      BY <1>1, <2>1 DEF ParInv
  <1>7. call = "parallel" =>
       /\ first = 0 => \A i \in 1 .. Len(results) : i \notin failed'
       /\ first # 0 => first \in failed' /\ \A c \in failed' : first <= c
    <2>1. Len(results) \in Nat /\ first \in Nat
      BY DEF ParInv, ParTypeOK
    <2>2. QED
      BY <1>1, <1>6, <2>1 DEF ParInv
  <1>8. QED
    BY <1>1, <1>2, <1>4, <1>5, <1>7 DEF ParInv

\* An await takes the next block in the listed order.
LEMMA AwaitKeeps ==
  ASSUME ParInv, Await
  PROVE  ParInv'
  <1> USE BlocksNat
  <1> DEFINE b == Len(results) + 1
  <1>1. /\ ret = "none" /\ begun = n /\ Len(results) < n
        /\ b \in Elems(ends) /\ results' = Append(results, b)
        /\ first' = IF first = 0 /\ (call = "race" \/ b \in failed) THEN b ELSE first
        /\ UNCHANGED <<call, begun, ends, failed, ret>>
    BY DEF Await
  <1>2. results \in Seq(1 .. n) /\ Len(results) \in Nat /\ b \in 1 .. n /\ first \in 0 .. n
    BY <1>1 DEF ParInv, ParTypeOK
  <1>3. /\ results' \in Seq(1 .. n) /\ Len(results') = b
        /\ \A i \in 1 .. Len(results) : results'[i] = results[i]
        /\ results'[b] = b
    BY <1>1, <1>2
  <1>4. ParTypeOK'
    BY <1>1, <1>2, <1>3 DEF ParInv, ParTypeOK
  <1>5. first' <= Len(results')
    BY <1>1, <1>2, <1>3 DEF ParInv
  <1>6. \A i \in 1 .. Len(results') : results'[i] = i /\ i \in Elems(ends')
    BY <1>1, <1>2, <1>3 DEF ParInv
  <1>7. ASSUME call = "parallel"
        PROVE  /\ first' = 0 => \A i \in 1 .. Len(results') : i \notin failed'
               /\ first' # 0 => first' \in failed' /\ \A c \in failed' : first' <= c
    <2>1. \A c \in failed : c \in 1 .. n
      BY DEF ParInv, ParTypeOK
    <2>2. CASE first # 0
      BY <1>1, <1>2, <1>7, <2>2 DEF ParInv
    <2>3. CASE first = 0
      <3>1. \A i \in 1 .. Len(results) : i \notin failed
        BY <1>7, <2>3 DEF ParInv
      <3>2. QED
        BY <1>1, <1>2, <1>3, <1>7, <2>1, <2>3, <3>1
    <2>4. QED
      BY <2>2, <2>3
  <1>8. QED
    BY <1>1, <1>2, <1>3, <1>4, <1>5, <1>6, <1>7 DEF ParInv

\* Every step of a call of parallel or race and of its blocks keeps ParInv
\* (sched.c:819-864).
THEOREM ParInvariant == ParSpec => []ParInv
  <1>1. ASSUME ParInv, [ParNext]_parVars
        PROVE  ParInv'
    <2>1. CASE Spawn
      BY <1>1, <2>1, BlocksNat DEF Spawn, ParInv, ParTypeOK
    <2>2. CASE CallReturns
      BY <1>1, <2>2, BlocksNat DEF CallReturns, ParInv, ParTypeOK
    <2>3. CASE ParOver \/ UNCHANGED parVars
      BY <1>1, <2>3 DEF ParOver, parVars, ParInv, ParTypeOK
    <2>4. QED
      BY <1>1, <2>1, <2>2, <2>3, BlockEndsKeeps, AwaitKeeps DEF ParNext
  <1>2. QED
    BY <1>1, ParInitInv, PTL DEF ParSpec

\* For any number of blocks and any bound on them: no block is running when the
\* call returns, and parallel returns the first listed error or every result in
\* the listed order, whatever order the blocks end in (sched.c:819-864).
THEOREM ParallelHolds == ParSpec => []ParallelSound
  <1>1. ASSUME ParInv PROVE ParallelSound
    <2>1. n \in Nat /\ Len(results) \in Nat /\ begun \in 0 .. n
      BY <1>1, BlocksNat DEF ParInv, ParTypeOK
    <2>2. ASSUME ret # "none" PROVE Elems(ends) = 1 .. begun /\ Len(results) = n
      <3>1. begun = n /\ Len(results) = n
        BY <1>1, <2>1, <2>2 DEF ParInv, ParTypeOK
      <3>2. Elems(ends) \subseteq 1 .. begun /\ \A i \in 1 .. Len(results) : i \in Elems(ends)
        BY <1>1 DEF ParInv
      <3>3. QED
        BY <3>1, <3>2
    <2>3. BlocksJoined
      BY <2>2 DEF BlocksJoined
    <2>4. ASSUME call = "parallel", ret # "none"
          PROVE  IF failed = {} THEN ret = "vec" /\ results = [i \in 1 .. n |-> i]
                 ELSE ret = "one" /\ first \in failed /\ \A b \in failed : first <= b
      <3>1. ret \in {"vec", "one"} /\ (ret = "one" <=> first # 0)
        BY <1>1, <2>4 DEF ParInv, ParTypeOK
      <3>2. first # 0 => first \in failed /\ \A b \in failed : first <= b
        BY <1>1, <2>4 DEF ParInv
      <3>3. first = 0 => failed = {}
        BY <1>1, <2>2, <2>4 DEF ParInv, ParTypeOK
      <3>4. results = [i \in 1 .. n |-> i]
        <4>1. results \in Seq(1 .. n) /\ Len(results) = n /\ \A i \in 1 .. n : results[i] = i
          BY <1>1, <2>2, <2>4 DEF ParInv, ParTypeOK
        <4>2. QED
          BY <4>1
      <3>5. QED
        BY <3>1, <3>2, <3>3, <3>4
    <2>5. QED
      BY <2>3, <2>4 DEF ParallelSound, FirstErrorWins
  <1>2. QED
    BY <1>1, ParInvariant, PTL
=============================================================================

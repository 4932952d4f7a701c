---------------------------- MODULE SchedProofs ----------------------------
(***************************************************************************)
(* Proofs about the scheduler (Sched), for any number of workers and for    *)
(* any number of jobs that a ready queue can hold.  That bound is needed:   *)
(* rq_push drops a job that finds the queue full (sched.c:255).             *)
(*                                                                         *)
(* SchedInv relates the words of each job to the lists and to where its     *)
(* owner is; JobsPlaced follows from it.  StackInv adds who has which task  *)
(* stack, for as many stacks as jobs (an exhausted pool gives NULL,         *)
(* sched.c:139); StacksSound follows.  AwaitInv adds what a job suspended   *)
(* in an await will be resumed with; ResultsTrue follows.                   *)
(***************************************************************************)
EXTENDS Sched, WellFoundedInduction, FiniteSetTheorems, TLAPS

\* No element occurs twice.
Distinct(s) == \A a, b \in DOMAIN s : s[a] = s[b] => a = b

\* What taking the head off a list without repetitions leaves.
LEMMA TailElems ==
  ASSUME NEW S, NEW s \in Seq(S), s # <<>>, Distinct(s)
  PROVE  /\ Head(s) \in S /\ Head(s) \in Elems(s)
         /\ Tail(s) \in Seq(S) /\ Distinct(Tail(s)) /\ Elems(Tail(s)) = Elems(s) \ {Head(s)}
  <1>0. PICK t : t = Tail(s)
    OBVIOUS
  <1>1. Len(s) \in Nat \ {0} /\ Head(s) = s[1] /\ DOMAIN s = 1 .. Len(s)
    OBVIOUS
  <1>2. t \in Seq(S) /\ DOMAIN t = 1 .. Len(s) - 1
    BY <1>0, <1>1
  <1>3. \A i \in 1 .. Len(s) - 1 : t[i] = s[i + 1]
    BY <1>0, <1>1
  <1>4. Distinct(t)
    <2>1. SUFFICES ASSUME NEW a \in 1 .. Len(s) - 1, NEW b \in 1 .. Len(s) - 1, t[a] = t[b]
                   PROVE  a = b
      BY <1>2 DEF Distinct
    <2>2. a + 1 \in DOMAIN s /\ b + 1 \in DOMAIN s /\ s[a + 1] = s[b + 1]
      BY <1>1, <1>3, <2>1
    <2>3. a + 1 = b + 1
      BY <2>2 DEF Distinct
    <2>4. QED
      BY <2>3
  <1>5. Elems(t) = Elems(s) \ {Head(s)}
    <2>1. ASSUME NEW i \in DOMAIN t PROVE t[i] \in Elems(s) /\ t[i] # Head(s)
      <3>1. i + 1 \in DOMAIN s /\ 1 \in DOMAIN s /\ i + 1 # 1 /\ t[i] = s[i + 1]
        BY <1>1, <1>2, <1>3
      <3>2. QED
        BY <1>1, <3>1 DEF Distinct, Elems
    <2>2. ASSUME NEW i \in DOMAIN s, s[i] # Head(s) PROVE s[i] \in Elems(t)
      <3>1. i - 1 \in DOMAIN t /\ t[i - 1] = s[i]
        BY <1>1, <1>2, <1>3, <2>2
      <3>2. QED
        BY <3>1 DEF Elems
    <2>3. QED
      BY <2>1, <2>2 DEF Elems
  <1>6. Head(s) \in S /\ Head(s) \in Elems(s)
    BY <1>1 DEF Elems
  <1>7. QED
    BY <1>0, <1>2, <1>4, <1>5, <1>6

\* What a push at the front of a list makes (the p[12] lists are pushed in front).
LEMMA ConsElems ==
  ASSUME NEW S, NEW s \in Seq(S), NEW e \in S, e \notin Elems(s), Distinct(s)
  PROVE  /\ <<e>> \o s \in Seq(S) /\ Distinct(<<e>> \o s) /\ Elems(<<e>> \o s) = Elems(s) \cup {e}
  <1>0. PICK t : t = <<e>> \o s
    OBVIOUS
  <1>1. Len(s) \in Nat /\ DOMAIN s = 1 .. Len(s)
    OBVIOUS
  <1>2. t \in Seq(S) /\ DOMAIN t = 1 .. Len(s) + 1
    BY <1>0, <1>1
  <1>3. t[1] = e
    BY <1>0, <1>1
  <1>4. \A i \in 2 .. Len(s) + 1 : t[i] = s[i - 1]
    BY <1>0, <1>1
  <1>5. Distinct(t)
    <2>1. SUFFICES ASSUME NEW a \in 1 .. Len(s) + 1, NEW b \in 1 .. Len(s) + 1, t[a] = t[b]
                   PROVE  a = b
      BY <1>2 DEF Distinct
    <2>2. \A i \in 2 .. Len(s) + 1 : i - 1 \in DOMAIN s /\ s[i - 1] # e
      BY <1>1 DEF Elems
    <2>3. CASE a = 1 \/ b = 1
      BY <1>1, <1>3, <1>4, <2>1, <2>2, <2>3
    <2>4. CASE a # 1 /\ b # 1
      <3>1. a - 1 \in DOMAIN s /\ b - 1 \in DOMAIN s /\ s[a - 1] = s[b - 1]
        BY <1>1, <1>4, <2>1, <2>4
      <3>2. a - 1 = b - 1
        BY <3>1 DEF Distinct
      <3>3. QED
        BY <3>2
    <2>5. QED
      BY <2>3, <2>4
  <1>6. Elems(t) = Elems(s) \cup {e}
    <2>1. ASSUME NEW i \in DOMAIN t PROVE t[i] \in Elems(s) \cup {e}
      <3>1. CASE i = 1
        BY <1>3, <3>1
      <3>2. CASE i # 1
        <4>1. i - 1 \in DOMAIN s /\ t[i] = s[i - 1]
          BY <1>1, <1>2, <1>4, <3>2
        <4>2. QED
          BY <4>1 DEF Elems
      <3>3. QED
        BY <3>1, <3>2
    <2>2. ASSUME NEW i \in DOMAIN s PROVE s[i] \in Elems(t)
      <3>1. i + 1 \in DOMAIN t /\ t[i + 1] = s[i]
        BY <1>1, <1>2, <1>4
      <3>2. QED
        BY <3>1 DEF Elems
    <2>3. e \in Elems(t)
      BY <1>1, <1>2, <1>3 DEF Elems
    <2>4. QED
      BY <2>1, <2>2, <2>3 DEF Elems
  <1>7. QED
    BY <1>0, <1>2, <1>5, <1>6

\* What a push at the end of a list makes (the ready queues are).
LEMMA AppendElems ==
  ASSUME NEW S, NEW s \in Seq(S), NEW e \in S, e \notin Elems(s), Distinct(s)
  PROVE  /\ Append(s, e) \in Seq(S) /\ Distinct(Append(s, e)) /\ Len(Append(s, e)) = Len(s) + 1
         /\ Elems(Append(s, e)) = Elems(s) \cup {e}
  <1>0. PICK t : t = Append(s, e)
    OBVIOUS
  <1>1. Len(s) \in Nat /\ DOMAIN s = 1 .. Len(s)
    OBVIOUS
  <1>2. t \in Seq(S) /\ DOMAIN t = 1 .. Len(s) + 1 /\ Len(t) = Len(s) + 1
    BY <1>0, <1>1
  <1>3. t[Len(s) + 1] = e /\ \A i \in 1 .. Len(s) : t[i] = s[i]
    BY <1>0, <1>1
  <1>4. Distinct(t)
    <2>1. \A i \in 1 .. Len(s) : i \in DOMAIN s /\ s[i] # e
      BY <1>1 DEF Elems
    <2>2. QED
      BY <1>1, <1>2, <1>3, <2>1 DEF Distinct
  <1>5. Elems(t) = Elems(s) \cup {e}
    <2>1. DOMAIN t = DOMAIN s \cup {Len(s) + 1}
      BY <1>1, <1>2
    <2>2. QED
      BY <1>1, <1>3, <2>1, Zenon DEF Elems
  <1>6. QED
    BY <1>0, <1>2, <1>4, <1>5

\* list_unlink takes its job out and leaves the others (sched.c:312-315).
LEMMA WithoutElems ==
  ASSUME NEW S, NEW s \in Seq(S), NEW e, Distinct(s)
  PROVE  /\ Without(s, e) \in Seq(S) /\ Distinct(Without(s, e))
         /\ Elems(Without(s, e)) = Elems(s) \ {e}
  <1>1. CASE e \notin Elems(s)
    BY <1>1 DEF Without
  <1>2. CASE e \in Elems(s)
    <2> DEFINE at == CHOOSE n \in DOMAIN s : s[n] = e /\ \A m \in 1 .. n - 1 : s[m] # e
    <2>0. Len(s) \in Nat /\ DOMAIN s = 1 .. Len(s)
      OBVIOUS
    <2>1. \E n \in DOMAIN s : s[n] = e /\ \A m \in 1 .. n - 1 : s[m] # e
      <3>1. PICK n \in DOMAIN s : s[n] = e
        BY <1>2 DEF Elems
      <3>2. ASSUME NEW m \in 1 .. n - 1 PROVE s[m] # e
        <4>1. m \in DOMAIN s /\ m # n
          BY <2>0
        <4>2. QED
          BY <4>1, <3>1 DEF Distinct
      <3>3. QED
        BY <3>1, <3>2
    <2>2. at \in 1 .. Len(s) /\ s[at] = e
      <3>1. at \in DOMAIN s /\ s[at] = e
        BY <2>1
      <3>2. QED
        BY <2>0, <3>1
    <2> DEFINE l == SubSeq(s, 1, at - 1)
               r == SubSeq(s, at + 1, Len(s))
    <2>3. Without(s, e) = l \o r
      BY <1>2 DEF Without
    <2> HIDE DEF at
    <2>4. l \in Seq(S) /\ Len(l) = at - 1 /\ \A i \in 1 .. at - 1 : l[i] = s[i]
      BY <2>0, <2>2
    <2>5. r \in Seq(S) /\ Len(r) = Len(s) - at /\ \A i \in 1 .. Len(s) - at : r[i] = s[at + i]
      <3>1. r \in Seq(S) /\ Len(r) = Len(s) - at
        BY <2>2
      <3>2. \A i \in 1 .. Len(s) - at : r[i] = s[at + i]
        BY <2>0, <2>2
      <3>3. QED
        BY <3>1, <3>2
    <2> HIDE DEF l, r
    <2>6. PICK v : v = l \o r
      OBVIOUS
    <2>7. v \in Seq(S) /\ Len(v) = Len(s) - 1
      <3>1. v \in Seq(S)
        BY <2>4, <2>5, <2>6
      <3>2. Len(v) = Len(l) + Len(r)
        BY <2>4, <2>5, <2>6
      <3>3. QED
        BY <3>1, <3>2, <2>0, <2>2, <2>4, <2>5
    <2>8. \A i \in 1 .. Len(s) - 1 : v[i] = IF i < at THEN s[i] ELSE s[i + 1]
      <3>1. SUFFICES ASSUME NEW i \in 1 .. Len(s) - 1
                     PROVE  v[i] = IF i < at THEN s[i] ELSE s[i + 1]
        OBVIOUS
      <3>2. CASE i < at
        BY <3>2, <2>0, <2>2, <2>4, <2>5, <2>6
      <3>3. CASE ~(i < at)
        <4>1. i - (at - 1) \in 1 .. Len(s) - at /\ at + (i - (at - 1)) = i + 1
          BY <3>3, <2>0, <2>2
        <4>2. v[i] = r[i - (at - 1)]
          BY <3>3, <2>0, <2>2, <2>4, <2>5, <2>6
        <4>3. QED
          BY <3>3, <4>1, <4>2, <2>5
      <3>4. QED
        BY <3>2, <3>3
    <2>9. DOMAIN v = 1 .. Len(s) - 1
      BY <2>7
    <2>10. Distinct(v)
      <3>1. SUFFICES ASSUME NEW a \in 1 .. Len(s) - 1, NEW b \in 1 .. Len(s) - 1, v[a] = v[b]
                     PROVE  a = b
        BY <2>9 DEF Distinct
      <3>2. PICK c, d : c = (IF a < at THEN a ELSE a + 1) /\ d = (IF b < at THEN b ELSE b + 1)
        OBVIOUS
      <3>3. c \in DOMAIN s /\ d \in DOMAIN s /\ s[c] = v[a] /\ s[d] = v[b]
        BY <2>0, <2>2, <2>8, <3>2
      <3>4. c = d
        BY <3>1, <3>3 DEF Distinct
      <3>5. QED
        BY <3>2, <3>4, <2>0, <2>2
    <2>11. Elems(v) = Elems(s) \ {e}
      <3>1. ASSUME NEW i \in DOMAIN v PROVE v[i] \in Elems(s) /\ v[i] # e
        <4>1. PICK c : c = IF i < at THEN i ELSE i + 1
          OBVIOUS
        <4>2. c \in DOMAIN s /\ c # at /\ v[i] = s[c]
          BY <2>0, <2>2, <2>8, <2>9, <4>1
        <4>3. at \in DOMAIN s
          BY <2>0, <2>2
        <4>4. QED
          BY <4>2, <4>3, <2>2 DEF Distinct, Elems
      <3>2. ASSUME NEW i \in DOMAIN s, s[i] # e PROVE s[i] \in Elems(v)
        <4>1. PICK c : c = IF i < at THEN i ELSE i - 1
          OBVIOUS
        <4>2. i # at
          BY <3>2, <2>2
        <4>3. c \in DOMAIN v /\ v[c] = s[i]
          BY <2>0, <2>2, <2>8, <2>9, <4>1, <4>2
        <4>4. QED
          BY <4>3 DEF Elems
      <3>3. QED
        BY <3>1, <3>2 DEF Elems
    <2>12. QED
      BY <2>3, <2>6, <2>7, <2>10, <2>11
  <1>3. QED
    BY <1>1, <1>2

\* A list without repetitions is no longer than what it can hold.
LEMMA DistinctLen ==
  ASSUME NEW S, NEW s \in Seq(S), Distinct(s), IsFiniteSet(S)
  PROVE  Len(s) <= Cardinality(S)
  <1>1. Len(s) \in Nat /\ s \in [1 .. Len(s) -> S]
    OBVIOUS
  <1>2. s \in Injection(1 .. Len(s), S)
    BY <1>1 DEF Injection, IsInjective, Distinct
  <1>3. Cardinality(1 .. Len(s)) <= Cardinality(S)
    BY <1>2, FS_Injection
  <1>4. Cardinality(1 .. Len(s)) = Len(s)
    BY <1>1, FS_Interval
  <1>5. QED
    BY <1>3, <1>4

-----------------------------------------------------------------------------
(* The ready queues. *)

\* The constants, and the numbers that are no job.
LEMMA JobFacts ==
  /\ NJobs \in Nat \ {0} /\ RQCap \in Nat \ {0} /\ NWorkers \in Nat \ {0}
  /\ IsFiniteSet(Jobs) /\ Cardinality(Jobs) = NJobs
  /\ Jobs \subseteq Nat /\ 0 \in Jobs /\ 0 \in Workers
  /\ None \notin Jobs /\ None \notin Workers /\ Prime \notin Jobs /\ Ctl \notin Jobs
  <1>1. NJobs \in Nat \ {0} /\ RQCap \in Nat \ {0} /\ NWorkers \in Nat \ {0}
    BY SchedAssumption DEF SchedAssumption
  <1>2. IsFiniteSet(Jobs) /\ Cardinality(Jobs) = NJobs
    BY <1>1, FS_Interval DEF Jobs
  <1>3. QED
    BY <1>1, <1>2 DEF Jobs, Workers, None, Prime, Ctl

\* Each queue holds, once, the jobs of its worker that are marked as queued.
QueuesHold(q, ir, ow) ==
  /\ q \in [Workers -> Seq(Jobs)] /\ ir \in [Jobs -> {0, 1}]
  /\ \A w \in Workers : Distinct(q[w]) /\ Elems(q[w]) = {j \in Jobs : ir[j] = 1 /\ ow[j] = w}

\* A job that is not queued finds room.
LEMMA QueueHasRoom ==
  ASSUME NJobs <= RQCap, NEW q, NEW ir, NEW ow \in [Jobs -> Workers], QueuesHold(q, ir, ow),
         NEW j \in Jobs, ir[j] = 0, NEW w \in Workers
  PROVE  ~(Len(q[w]) >= RQCap)
  <1>1. q[w] \in Seq(Jobs) /\ Distinct(q[w]) /\ j \notin Elems(q[w])
    BY DEF QueuesHold
  <1>2. PICK s : s = Append(q[w], j)
    OBVIOUS
  <1>3. s \in Seq(Jobs) /\ Distinct(s) /\ Len(s) = Len(q[w]) + 1
    BY <1>1, <1>2, AppendElems
  <1>4. Len(s) <= NJobs
    BY <1>3, DistinctLen, JobFacts
  <1>5. Len(q[w]) \in Nat
    BY <1>1
  <1>6. QED
    BY <1>3, <1>4, <1>5, JobFacts

\* The queues and marks rq_push works on.
Both(q, ir) == [q |-> q, ir |-> ir]

\* What rq_push of j makes of the marks ir: r, the queues and marks after it.
Pushed(r, j, ir, ow) ==
  /\ QueuesHold(r.q, r.ir, ow) /\ r = Both(r.q, r.ir)
  /\ \A k \in Jobs : r.ir[k] = IF k = j THEN 1 ELSE ir[k]

\* One rq_push: a job that is not queued is queued once with its owner (sched.c:251-258).
LEMMA PushOne ==
  ASSUME NJobs <= RQCap, NEW q, NEW ir, NEW ow \in [Jobs -> Workers], QueuesHold(q, ir, ow),
         NEW j \in Jobs, NEW r, r = rq_push(Both(q, ir), j, ow[j])
  PROVE  Pushed(r, j, ir, ow)
  <1>1. q \in [Workers -> Seq(Jobs)] /\ ir \in [Jobs -> {0, 1}] /\ ow[j] \in Workers
    BY DEF QueuesHold
  <1>2. CASE ir[j] = 1
    <2>1. r = [q |-> q, ir |-> ir]
      BY <1>2 DEF rq_push, Both
    <2>2. r.q = q /\ r.ir = ir
      BY <2>1
    <2>3. QED
      BY <1>1, <1>2, <2>1, <2>2 DEF Both, Pushed
  <1>3. CASE ir[j] = 0
    <2>1. r = [q |-> [q EXCEPT ![ow[j]] = Append(@, j)], ir |-> [ir EXCEPT ![j] = 1]]
      BY <1>1, <1>3, QueueHasRoom DEF rq_push, Both
    <2>2. PICK p, i : p = [q EXCEPT ![ow[j]] = Append(@, j)] /\ i = [ir EXCEPT ![j] = 1]
      OBVIOUS
    <2>3. p \in [Workers -> Seq(Jobs)] /\ i \in [Jobs -> {0, 1}]
      BY <1>1, <2>2
    <2>4. ASSUME NEW w \in Workers
          PROVE  Distinct(p[w]) /\ Elems(p[w]) = {k \in Jobs : i[k] = 1 /\ ow[k] = w}
      <3>1. q[w] \in Seq(Jobs) /\ Distinct(q[w]) /\ Elems(q[w]) = {k \in Jobs : ir[k] = 1 /\ ow[k] = w}
        BY DEF QueuesHold
      <3>2. CASE w = ow[j]
        <4>1. p[w] = Append(q[w], j) /\ j \notin Elems(q[w])
          BY <1>1, <1>3, <2>2, <3>1, <3>2
        <4>2. Distinct(p[w]) /\ Elems(p[w]) = Elems(q[w]) \cup {j}
          BY <3>1, <4>1, AppendElems
        <4>3. QED
          BY <1>1, <2>2, <3>1, <3>2, <4>2
      <3>3. CASE w # ow[j]
        <4>1. p[w] = q[w]
          BY <1>1, <2>2, <3>3
        <4>2. QED
          BY <1>1, <2>2, <3>1, <3>3, <4>1
      <3>4. QED
        BY <3>2, <3>3
    <2>5. QueuesHold(p, i, ow)
      BY <2>3, <2>4 DEF QueuesHold
    <2>6. r = [q |-> p, ir |-> i]
      BY <2>1, <2>2
    <2>7. r.q = p /\ r.ir = i
      BY <2>6
    <2>8. \A k \in Jobs : i[k] = IF k = j THEN 1 ELSE ir[k]
      BY <1>1, <2>2
    <2>9. QED
      BY <2>5, <2>6, <2>7, <2>8 DEF Both, Pushed
  <1>4. QED
    BY <1>1, <1>2, <1>3

\* f[i] is what the queues are after the first i jobs of s are pushed.
Pushes(f, s, q, ir, ow, m) ==
  \A i \in 0 .. m : f[i] = IF i = 0 THEN Both(q, ir) ELSE rq_push(f[i - 1], s[i], ow[s[i]])

\* A set of numbers that is not empty has a least one.
LEMMA LeastNat ==
  ASSUME NEW T, T \subseteq Nat, T # {}
  PROVE  \E m \in T : \A k \in T : m <= k
  <1>1. IsWellFoundedOn(OpToRel(<, Nat), Nat)
    BY NatLessThanWellFounded
  <1>2. PICK m \in T : \A k \in T : ~(<<k, m>> \in OpToRel(<, Nat))
    BY <1>1, WFMin
  <1>3. m \in Nat /\ \A k \in T : k \in Nat /\ ~(k < m)
    BY <1>2 DEF OpToRel
  <1>4. ASSUME NEW k \in T PROVE m <= k
    BY <1>3
  <1>5. QED
    BY <1>4

\* The queues after each push of a list exist: a function of how many were pushed.
LEMMA PushesExist ==
  ASSUME NEW s, NEW q, NEW ir, NEW ow, NEW n \in Nat
  PROVE  \E f : f = [i \in 0 .. n |-> f[i]] /\ Pushes(f, s, q, ir, ow, n)
  <1> DEFINE Has(m) == \E f : f = [i \in 0 .. m |-> f[i]] /\ Pushes(f, s, q, ir, ow, m)
             bad == {m \in 0 .. n : ~Has(m)}
  <1>1. ASSUME bad # {} PROVE FALSE
    <2>1. PICK m \in bad : \A k \in bad : m <= k
      <3>1. bad \subseteq Nat
        OBVIOUS
      <3> HIDE DEF bad
      <3>2. QED
        BY <1>1, <3>1, LeastNat
    <2>2. m \in 0 .. n /\ ~Has(m)
      OBVIOUS
    <2>3. m # 0
      <3>1. ASSUME m = 0 PROVE FALSE
        <4>1. PICK f : f = [i \in 0 .. 0 |-> Both(q, ir)]
          OBVIOUS
        <4>2. f = [i \in 0 .. 0 |-> f[i]] /\ Pushes(f, s, q, ir, ow, 0)
          BY <4>1 DEF Pushes
        <4>3. QED
          BY <4>2, <2>2, <3>1
      <3>2. QED
        BY <3>1
    <2>4. Has(m - 1)
      <3>1. m - 1 \in 0 .. n /\ ~(m <= m - 1)
        BY <2>2, <2>3
      <3>2. m - 1 \notin bad
        <4> HIDE DEF bad
        <4>1. QED
          BY <2>1, <3>1
      <3>3. QED
        BY <3>1, <3>2
    <2>5. PICK f : f = [i \in 0 .. m - 1 |-> f[i]] /\ Pushes(f, s, q, ir, ow, m - 1)
      BY <2>4
    <2>6. PICK last : last = rq_push(f[m - 1], s[m], ow[s[m]])
      OBVIOUS
    <2>7. PICK g : g = [i \in 0 .. m |-> IF i = m THEN last ELSE f[i]]
      OBVIOUS
    <2>8. g = [i \in 0 .. m |-> g[i]]
      BY <2>7
    <2>9. Pushes(g, s, q, ir, ow, m)
      <3>1. SUFFICES ASSUME NEW i \in 0 .. m
                     PROVE  g[i] = IF i = 0 THEN Both(q, ir)
                                   ELSE rq_push(g[i - 1], s[i], ow[s[i]])
        BY DEF Pushes
      <3>2. CASE i = m
        <4>1. g[i] = last /\ g[i - 1] = f[i - 1]
          BY <3>2, <2>2, <2>3, <2>7
        <4>2. QED
          BY <4>1, <3>2, <2>3, <2>6
      <3>3. CASE i # m
        <4>1. i \in 0 .. m - 1 /\ g[i] = f[i] /\ (i # 0 => g[i - 1] = f[i - 1])
          BY <3>3, <2>2, <2>7
        <4>2. f[i] = IF i = 0 THEN Both(q, ir) ELSE rq_push(f[i - 1], s[i], ow[s[i]])
          BY <4>1, <2>5 DEF Pushes
        <4>3. QED
          BY <4>1, <4>2
      <3>4. QED
        BY <3>2, <3>3
    <2>10. QED
      BY <2>2, <2>8, <2>9
  <1>2. n \in 0 .. n
    OBVIOUS
  <1>3. QED
    BY <1>1, <1>2

\* The queues after i pushes.
LEMMA PushesHold ==
  ASSUME NJobs <= RQCap, NEW s \in Seq(Jobs), NEW q, NEW ir, NEW ow \in [Jobs -> Workers],
         QueuesHold(q, ir, ow), NEW f, Pushes(f, s, q, ir, ow, Len(s))
  PROVE  /\ QueuesHold(f[Len(s)].q, f[Len(s)].ir, ow)
         /\ \A j \in Jobs : f[Len(s)].ir[j] = IF j \in Elems(s) THEN 1 ELSE ir[j]
  <1> DEFINE Ok(i) ==
               /\ QueuesHold(f[i].q, f[i].ir, ow) /\ f[i] = Both(f[i].q, f[i].ir)
               /\ \A j \in Jobs : f[i].ir[j] = IF \E k \in 1 .. i : s[k] = j THEN 1 ELSE ir[j]
             bad == {i \in 0 .. Len(s) : ~Ok(i)}
  <1>0. Len(s) \in Nat /\ ir \in [Jobs -> {0, 1}]
    BY DEF QueuesHold
  <1>1. ASSUME bad # {} PROVE FALSE
    <2>1. PICK m \in bad : \A k \in bad : m <= k
      <3>1. bad \subseteq Nat
        OBVIOUS
      <3> HIDE DEF bad
      <3>2. QED
        BY <1>1, <3>1, LeastNat
    <2>2. m \in 0 .. Len(s) /\ ~Ok(m)
      OBVIOUS
    <2>3. f[m] = IF m = 0 THEN Both(q, ir) ELSE rq_push(f[m - 1], s[m], ow[s[m]])
      BY <2>2 DEF Pushes
    <2>4. m # 0
      <3>1. ASSUME m = 0 PROVE Ok(m)
        <4>1. f[m] = Both(q, ir)
          BY <2>3, <3>1
        <4>2. f[m].q = q /\ f[m].ir = ir
          BY <4>1 DEF Both
        <4>3. QED
          BY <4>1, <4>2, <3>1
      <3>2. QED
        BY <3>1, <2>2
    <2>5. Ok(m - 1)
      <3>1. m - 1 \in 0 .. Len(s) /\ ~(m <= m - 1)
        BY <2>2, <2>4
      <3>2. m - 1 \notin bad
        <4> HIDE DEF bad
        <4>1. QED
          BY <2>1, <3>1
      <3>3. QED
        BY <3>1, <3>2
    <2>6. s[m] \in Jobs
      BY <2>2, <2>4
    <2>7. PICK p, i : p = f[m - 1].q /\ i = f[m - 1].ir
      OBVIOUS
    <2>8. QueuesHold(p, i, ow) /\ f[m] = rq_push(Both(p, i), s[m], ow[s[m]])
      BY <2>3, <2>4, <2>5, <2>7
    <2>9. /\ QueuesHold(f[m].q, f[m].ir, ow) /\ f[m] = Both(f[m].q, f[m].ir)
          /\ \A j \in Jobs : f[m].ir[j] = IF j = s[m] THEN 1 ELSE i[j]
      <3> HIDE DEF Ok
      <3>1. PICK r, k : r = f[m] /\ k = s[m]
        OBVIOUS
      <3>2. k \in Jobs /\ QueuesHold(p, i, ow) /\ r = rq_push(Both(p, i), k, ow[k])
        BY <2>6, <2>8, <3>1
      <3>3. Pushed(r, k, i, ow)
        <4>1. NJobs <= RQCap /\ ow \in [Jobs -> Workers]
          OBVIOUS
        <4> HIDE DEF bad
        <4>2. QED
          BY ONLY <3>2, <4>1, PushOne
      <3>4. QED
        BY <3>1, <3>3 DEF Pushed
    <2>10. ASSUME NEW j \in Jobs
           PROVE  f[m].ir[j] = IF \E k \in 1 .. m : s[k] = j THEN 1 ELSE ir[j]
      <3>1. i[j] = IF \E k \in 1 .. m - 1 : s[k] = j THEN 1 ELSE ir[j]
        BY <2>5, <2>7
      <3>2. \A k : k \in 1 .. m <=> (k \in 1 .. m - 1 \/ k = m)
        BY <2>2, <2>4
      <3> HIDE DEF Ok
      <3>3. QED
        BY <2>9, <3>1, <3>2
    <2>11. QED
      BY <2>2, <2>9, <2>10
  <1>2. Ok(Len(s))
    <2>1. Len(s) \in 0 .. Len(s)
      BY <1>0
    <2> HIDE DEF Ok
    <2>2. ASSUME ~Ok(Len(s)) PROVE FALSE
      <3>1. Len(s) \in bad
        BY <2>1, <2>2
      <3> HIDE DEF bad
      <3>2. QED
        BY <3>1, <1>1
    <2>3. QED
      BY <2>2
  <1>3. \A j : j \in Elems(s) <=> \E k \in 1 .. Len(s) : s[k] = j
    <2>1. DOMAIN s = 1 .. Len(s)
      OBVIOUS
    <2>2. QED
      BY <2>1 DEF Elems
  <1>4. QED
    BY <1>2, <1>3

\* rq_push of a list of jobs, all of which find room: each is queued once, with
\* its owner (sched.c:251-258).
LEMMA PushEffect ==
  ASSUME NJobs <= RQCap, NEW s \in Seq(Jobs), NEW q, NEW ir, owner \in [Jobs -> Workers],
         QueuesHold(q, ir, owner), PushAll(s, q, ir)
  PROVE  /\ QueuesHold(rq', inRq', owner)
         /\ \A j \in Jobs : inRq'[j] = IF j \in Elems(s) THEN 1 ELSE ir[j]
  <1> DEFINE Is(g) == g = [i \in 0 .. Len(s) |-> IF i = 0 THEN Both(q, ir)
                                                 ELSE rq_push(g[i - 1], s[i], owner[s[i]])]
             g == CHOOSE h : Is(h)
  <1>1. Len(s) \in Nat
    OBVIOUS
  <1>2. rq' = g[Len(s)].q /\ inRq' = g[Len(s)].ir
    BY DEF PushAll, Both
  <1>3. PICK f : f = [i \in 0 .. Len(s) |-> f[i]] /\ Pushes(f, s, q, ir, owner, Len(s))
    BY <1>1, PushesExist
  <1>4. Is(f)
    BY <1>3 DEF Pushes
  <1>5. Is(g)
    <2> HIDE DEF Is
    <2>1. QED
      BY <1>4
  <1> HIDE DEF g
  <1>6. Pushes(g, s, q, ir, owner, Len(s))
    BY <1>5 DEF Pushes
  <1> HIDE DEF Is
  <1>7. QED
    BY <1>2, <1>6, PushesHold

-----------------------------------------------------------------------------
(* The invariant. *)

Hands == {"resume", "run", "fin", "unlink"}

\* The lists hold, once each, the jobs whose words say so.
ListsHold ==
  /\ QueuesHold(rq, inRq, owner)
  /\ \A k \in Jobs : Distinct(waiters[k]) /\ Elems(waiters[k]) = {j \in Jobs : target[j] = k}
  /\ Distinct(suspended) /\ Elems(suspended) = {j \in Jobs : jstate[j] = "new" /\ "held" \in flags[j]}
  /\ \A w \in Workers : Distinct(blocked[w]) /\ Distinct(rest[w])

\* j is with its owner: in hand, or parked on a VM wait.
Kept(j) == InHand(j, owner[j]) \/ j \in Elems(blocked[owner[j]])

\* A live job is in one of the four places, another one in none; and a job its
\* owner keeps is kept by nobody else.
JobHolds(j) ==
  /\ jstate[j] = "new" =>
       \/ inRq[j] = 1 /\ target[j] = None /\ "held" \notin flags[j] /\ ~Kept(j)
       \/ inRq[j] = 0 /\ target[j] # None /\ "held" \notin flags[j] /\ ~Kept(j)
       \/ inRq[j] = 0 /\ target[j] = None /\ "held" \in flags[j] /\ ~Kept(j)
       \/ inRq[j] = 0 /\ target[j] = None /\ "held" \notin flags[j] /\ Kept(j)
  /\ jstate[j] # "new" => inRq[j] = 0 /\ target[j] = None /\ ~Kept(j)
  /\ jstate[j] = "none" => flags[j] = {} /\ fiber[j] = "none"
  /\ target[j] # None => jstate[target[j]] = "new"
  /\ \A w \in Workers : InHand(j, w) \/ j \in Elems(blocked[w]) => w = owner[j]
  /\ claim[j] = 1 => pc[owner[j]] = "run" /\ cur[owner[j]] = j
  /\ fiber[j] = "ret" /\ jstate[j] = "new" =>
       cur[owner[j]] = j /\ pc[owner[j]] \in {"fin", "unlink"} /\ oc[owner[j]] = 0

\* Where a worker is: a sweep walks the blocked list and what is polled stays on
\* it until it is unlinked.
WorkerHolds(w) ==
  /\ pc[w] \in Hands => cur[w] \in Jobs
  /\ Elems(rest[w]) \subseteq Elems(blocked[w])
  /\ sweep[w] = "none" =>
       /\ rest[w] = <<>> /\ pc[w] \notin {"poll", "unlink"}
       /\ pc[w] \in Hands => cur[w] \notin Elems(blocked[w])
  /\ sweep[w] # "none" =>
       /\ pc[w] \in Hands \cup {"poll"}
       /\ pc[w] \in {"resume", "run", "unlink"} => cur[w] \in Elems(blocked[w]) \ Elems(rest[w])
       /\ pc[w] = "fin" => cur[w] \notin Elems(blocked[w])
       /\ pc[w] \in {"fin", "unlink"} => oc[w] # 3
  /\ pc[w] \in {"fin", "unlink"} =>
       /\ oc[w] # 2
       /\ oc[w] = 0 => out[w] \in Jobs
       /\ oc[w] = 1 /\ out[w] \in Jobs => jstate[out[w]] # "none"

SchedInv == TypeOK /\ ListsHold /\ (\A j \in Jobs : JobHolds(j)) /\ (\A w \in Workers : WorkerHolds(w))

\* A step that moves job c from one place to another: nobody has c in hand after
\* it, and what the workers do with other jobs stays.
Frame(c) ==
  /\ \A j \in Jobs : j # c => owner'[j] = owner[j] /\ flags'[j] = flags[j]
  /\ claim' = claim /\ fiber' = fiber /\ blocked' = blocked /\ cur' = cur
  /\ oc' = oc /\ out' = out /\ sweep' = sweep /\ rest' = rest
  /\ \A v \in Workers :
       IF pc[v] \in Hands /\ cur[v] # c
         THEN pc'[v] = pc[v]
         ELSE pc'[v] \notin Hands /\ (pc'[v] = "poll" <=> sweep[v] # "none")
  /\ \A v \in Workers : c \notin Elems(blocked[v])

\* The jobs parked on c may be queued by it; the other ones stay where they are.
Moves(c) ==
  /\ Frame(c)
  /\ \A j \in Jobs : j # c =>
       /\ jstate'[j] = jstate[j]
       /\ \/ inRq'[j] = inRq[j] /\ target'[j] = target[j]
          \/ target[j] = c /\ inRq'[j] = 1 /\ target'[j] = None

\* Where c may be after the step.
Placed(c) ==
  \/ jstate'[c] = "new" /\ fiber[c] # "ret" /\ inRq'[c] = 1 /\ target'[c] = None /\ "held" \notin flags'[c]
  \/ jstate'[c] = "new" /\ fiber[c] # "ret" /\ inRq'[c] = 0 /\ target'[c] # None /\ "held" \notin flags'[c]
       /\ jstate'[target'[c]] = "new"
  \/ jstate'[c] = "new" /\ fiber[c] # "ret" /\ inRq'[c] = 0 /\ target'[c] = None /\ "held" \in flags'[c]
  \/ jstate'[c] = "done" /\ inRq'[c] = 0 /\ target'[c] = None /\ \A j \in Jobs : target'[j] # c

\* A step that moves c, and may queue the jobs parked on it, keeps the invariant.
LEMMA KeepsMove ==
  ASSUME SchedInv, NEW c \in Jobs, claim[c] = 0, Moves(c), Placed(c), TypeOK', ListsHold'
  PROVE  SchedInv'
  <1> USE JobFacts
  <1>1. TypeOK /\ None \notin Jobs
    BY DEF SchedInv
  <1>2. ASSUME NEW j \in Jobs PROVE JobHolds(j)'
    <2>1. JobHolds(j) /\ owner[j] \in Workers /\ owner'[j] \in Workers
      BY <1>1 DEF SchedInv, TypeOK
    <2>2. CASE j = c
      <3>1. \A v \in Workers : ~InHand(c, v)' /\ c \notin Elems(blocked'[v])
        BY DEF Moves, Frame, InHand, Hands
      <3>2. ~Kept(c)'
        BY <2>1, <2>2, <3>1 DEF Kept
      <3>3. claim'[c] = 0 /\ fiber'[c] = fiber[c]
        BY DEF Moves, Frame
      <3>4. QED
        BY <2>2, <3>1, <3>2, <3>3 DEF JobHolds, Placed
    <2>3. CASE j # c
      <3>1. /\ owner'[j] = owner[j] /\ jstate'[j] = jstate[j] /\ flags'[j] = flags[j]
            /\ claim'[j] = claim[j] /\ fiber'[j] = fiber[j]
        BY <2>3 DEF Moves, Frame
      <3>2. \A v \in Workers : InHand(j, v)' <=> InHand(j, v)
        BY <2>3 DEF Moves, Frame, InHand, Hands
      <3>3. \A v \in Workers : blocked'[v] = blocked[v] /\ cur'[v] = cur[v] /\ oc'[v] = oc[v]
        BY DEF Moves, Frame
      <3>4. \A v \in Workers : InHand(j, v) => pc'[v] = pc[v]
        BY <2>3 DEF Moves, Frame, InHand, Hands
      <3>5. Kept(j)' <=> Kept(j)
        BY <2>1, <3>1, <3>2, <3>3 DEF Kept
      <3>6. \/ inRq'[j] = inRq[j] /\ target'[j] = target[j]
            \/ target[j] = c /\ inRq'[j] = 1 /\ target'[j] = None
        BY <2>3 DEF Moves, Frame
      <3>7. target'[j] # None => jstate'[target'[j]] = "new"
        <4>1. SUFFICES ASSUME target'[j] # None PROVE jstate'[target'[j]] = "new"
          OBVIOUS
        <4>2. target'[j] = target[j] /\ target[j] \in Jobs /\ jstate[target[j]] = "new"
          BY <1>1, <2>1, <3>6, <4>1 DEF JobHolds, TypeOK
        <4>3. CASE target[j] = c
          BY <4>2, <4>3 DEF Placed
        <4>4. CASE target[j] # c
          BY <4>2, <4>4 DEF Moves, Frame
        <4>5. QED
          BY <4>3, <4>4
      <3>8. claim[j] = 1 => pc'[owner[j]] = "run" /\ cur'[owner[j]] = j
        BY <2>1, <3>3, <3>4 DEF JobHolds, InHand
      <3>9. fiber[j] = "ret" /\ jstate[j] = "new" =>
              cur'[owner[j]] = j /\ pc'[owner[j]] \in {"fin", "unlink"} /\ oc'[owner[j]] = 0
        BY <2>1, <3>3, <3>4 DEF JobHolds, InHand
      <3>10. QED
        BY <1>1, <2>1, <3>1, <3>2, <3>3, <3>5, <3>6, <3>7, <3>8, <3>9 DEF JobHolds
    <2>4. QED
      BY <2>2, <2>3
  <1>3. ASSUME NEW v \in Workers PROVE WorkerHolds(v)'
    <2>1. WorkerHolds(v) /\ out[v] \in Jobs \cup {0, Prime, Ctl}
      BY <1>1 DEF SchedInv, TypeOK
    <2>2. /\ cur'[v] = cur[v] /\ oc'[v] = oc[v] /\ out'[v] = out[v] /\ sweep'[v] = sweep[v]
          /\ rest'[v] = rest[v] /\ blocked'[v] = blocked[v]
      BY DEF Moves, Frame
    <2>3. CASE pc[v] \in Hands /\ cur[v] # c
      <3>1. pc'[v] = pc[v]
        BY <2>3 DEF Moves, Frame
      <3>2. out[v] \in Jobs /\ jstate[out[v]] # "none" => jstate'[out[v]] # "none"
        <4>1. CASE out[v] = c
          BY <4>1 DEF Placed
        <4>2. CASE out[v] # c
          BY <4>2 DEF Moves, Frame
        <4>3. QED
          BY <4>1, <4>2
      <3>3. QED
        BY <2>1, <2>2, <3>1, <3>2 DEF WorkerHolds
    <2>4. CASE ~(pc[v] \in Hands /\ cur[v] # c)
      <3>1. pc'[v] \notin Hands /\ (pc'[v] = "poll" <=> sweep[v] # "none")
        BY <2>4 DEF Moves, Frame
      <3>2. QED
        BY <2>1, <2>2, <3>1 DEF WorkerHolds, Hands
    <2>5. QED
      BY <2>3, <2>4
  <1>4. QED
    BY <1>2, <1>3 DEF SchedInv

\* A request, which only marks a live job.
LEMMA KeepsRequest ==
  ASSUME SchedInv, NEW k \in Jobs, jstate[k] = "new", TypeOK', ListsHold',
         UNCHANGED <<jstate, target, RequestOnly>>, \A j \in Jobs : inRq'[j] = inRq[j],
         \A j \in Jobs : j # k => flags'[j] = flags[j],
         "held" \in flags'[k] <=> "held" \in flags[k]
  PROVE  SchedInv'
  <1> USE JobFacts
  <1>1. /\ UNCHANGED <<jstate, target, owner, claim, fiber, blocked, pc, cur, oc, out, sweep, rest>>
    BY DEF RequestOnly, wVars
  <1>2. ASSUME NEW j \in Jobs PROVE JobHolds(j)'
    <2>1. JobHolds(j)
      BY DEF SchedInv
    <2>2. /\ inRq'[j] = inRq[j] /\ ("held" \in flags'[j] <=> "held" \in flags[j])
          /\ jstate[j] = "none" => flags'[j] = flags[j]
      OBVIOUS
    <2>3. QED
      BY <1>1, <2>1, <2>2 DEF JobHolds, Kept, InHand
  <1>3. ASSUME NEW v \in Workers PROVE WorkerHolds(v)'
    BY <1>1 DEF SchedInv, WorkerHolds
  <1>4. QED
    BY <1>2, <1>3 DEF SchedInv

\* What completing c with v leaves behind.
Completed(c, v, ir, tg) ==
  /\ jstate' \in [Jobs -> {"none", "new", "done"}] /\ result' \in [Jobs -> Values]
  /\ arg' \in [Jobs -> Values] /\ waiters' \in [Jobs -> Seq(Jobs)]
  /\ target' \in [Jobs -> Jobs \cup {None}] /\ inRq' \in [Jobs -> {0, 1}]
  /\ rq' \in [Workers -> Seq(Jobs)] /\ shutdown' \in BOOLEAN
  /\ QueuesHold(rq', inRq', owner)
  /\ \A k \in Jobs : Distinct(waiters'[k]) /\ Elems(waiters'[k]) = {j \in Jobs : target'[j] = k}
  /\ \A j \in Jobs : jstate'[j] = IF j = c THEN "done" ELSE jstate[j]
  /\ \A j \in Jobs : target'[j] = IF tg[j] = c THEN None ELSE tg[j]
  /\ \A j \in Jobs : inRq'[j] = IF tg[j] = c THEN 1 ELSE ir[j]
  /\ \A j \in Jobs : arg'[j] = IF tg[j] = c THEN v ELSE arg[j]
  /\ \A j \in Jobs : result'[j] = IF j = c THEN v ELSE result[j]

\* A completed job is on no list, and the jobs that were parked on it are queued
\* with their owners (sched.c:281-301).
LEMMA Completes ==
  ASSUME NJobs <= RQCap, TypeOK, NEW c \in Jobs, NEW v \in Values, NEW q, NEW ir, NEW ws, NEW tg,
         complete_job(c, v, q, ir, ws, tg), QueuesHold(q, ir, owner),
         ws \in [Jobs -> Seq(Jobs)], tg \in [Jobs -> Jobs \cup {None}],
         \A k \in Jobs : Distinct(ws[k]) /\ Elems(ws[k]) = {j \in Jobs : tg[j] = k}
  PROVE  Completed(c, v, ir, tg)
  <1> USE JobFacts
  <1>0. PICK woken : woken = Elems(ws[c])
    OBVIOUS
  <1>1. /\ result' = [result EXCEPT ![c] = v] /\ jstate' = [jstate EXCEPT ![c] = "done"]
        /\ waiters' = [ws EXCEPT ![c] = <<>>]
        /\ target' = [k \in Jobs |-> IF k \in woken THEN None ELSE tg[k]]
        /\ arg' = [k \in Jobs |-> IF k \in woken THEN v ELSE arg[k]]
        /\ PushAll(ws[c], q, ir)
    BY <1>0 DEF complete_job
  <1>2. ws[c] \in Seq(Jobs) /\ \A j \in Jobs : j \in woken <=> tg[j] = c
    BY <1>0
  <1>3. owner \in [Jobs -> Workers]
    BY DEF TypeOK
  <1>4. /\ QueuesHold(rq', inRq', owner)
        /\ \A j \in Jobs : inRq'[j] = IF j \in Elems(ws[c]) THEN 1 ELSE ir[j]
    <2>1. PICK s : s = ws[c]
      OBVIOUS
    <2>2. s \in Seq(Jobs) /\ PushAll(s, q, ir)
      BY <1>1, <1>2, <2>1
    <2>3. QED
      BY <1>3, <2>1, <2>2, PushEffect
  <1>5. \A j \in Jobs : inRq'[j] = IF tg[j] = c THEN 1 ELSE ir[j]
    BY <1>0, <1>2, <1>4
  <1>6. rq' \in [Workers -> Seq(Jobs)] /\ inRq' \in [Jobs -> {0, 1}]
    BY <1>4 DEF QueuesHold
  <1>7. jstate' \in [Jobs -> {"none", "new", "done"}] /\ \A j \in Jobs : jstate'[j] = IF j = c THEN "done" ELSE jstate[j]
    BY <1>1 DEF TypeOK
  <1>8. result' \in [Jobs -> Values] /\ \A j \in Jobs : result'[j] = IF j = c THEN v ELSE result[j]
    BY <1>1 DEF TypeOK
  <1>9. arg' \in [Jobs -> Values] /\ \A j \in Jobs : arg'[j] = IF tg[j] = c THEN v ELSE arg[j]
    BY <1>1, <1>2 DEF TypeOK
  <1>10. target' \in [Jobs -> Jobs \cup {None}] /\ \A j \in Jobs : target'[j] = IF tg[j] = c THEN None ELSE tg[j]
    BY <1>1, <1>2
  <1>11. waiters' \in [Jobs -> Seq(Jobs)]
    BY <1>1
  <1>12. ASSUME NEW k \in Jobs
         PROVE  Distinct(waiters'[k]) /\ Elems(waiters'[k]) = {j \in Jobs : target'[j] = k}
    <2>1. CASE k = c
      <3>1. waiters'[k] = <<>>
        BY <1>1, <2>1
      <3>2. Distinct(<<>>) /\ Elems(<<>>) = {}
        BY DEF Distinct, Elems
      <3>3. \A j \in Jobs : target'[j] # c
        BY <1>10
      <3>4. QED
        BY <2>1, <3>1, <3>2, <3>3
    <2>2. CASE k # c
      <3>1. waiters'[k] = ws[k]
        BY <1>1, <2>2
      <3>2. \A j \in Jobs : target'[j] = k <=> tg[j] = k
        BY <1>10, <2>2
      <3>3. QED
        BY <3>1, <3>2
    <2>3. QED
      BY <2>1, <2>2
  <1>13. shutdown' \in BOOLEAN
    BY DEF complete_job
  <1>14. QED
    BY <1>4, <1>5, <1>6, <1>7, <1>8, <1>9, <1>10, <1>11, <1>12, <1>13 DEF Completed

\* What a step types that moves a job.
MoveTyped ==
  /\ flags' \in [Jobs -> SUBSET FlagSet] /\ stack' \in [Jobs -> 0 .. NStacks]
  /\ suspended' \in Seq(Jobs) /\ freeStacks' \in Seq(1 .. NStacks) /\ pc' \in [Workers -> PCs]
  /\ slk' \in Workers \cup {None} /\ ops' \in 0 .. MaxOps /\ awaited' = awaited
  /\ poolStarted' \in BOOLEAN /\ ownerRr' \in Nat /\ owner' \in [Jobs -> Workers]

\* A job that is neither in hand nor parked on a VM wait has no claim on it.
LEMMA NotKept ==
  ASSUME SchedInv, NEW j \in Jobs, ~Kept(j)
  PROVE  /\ \A v \in Workers : ~InHand(j, v) /\ j \notin Elems(blocked[v])
         /\ claim[j] = 0 /\ (jstate[j] = "new" => fiber[j] # "ret")
  <1>1. JobHolds(j) /\ owner[j] \in Workers /\ claim[j] \in {0, 1}
    BY DEF SchedInv, TypeOK
  <1>2. QED
    BY <1>1 DEF JobHolds, Kept, InHand

\* q, ir, ws and tg are the lists once c is taken from the one it was on.
Taken(c, q, ir, ws, tg) ==
  /\ QueuesHold(q, ir, owner) /\ ir[c] = 0 /\ tg[c] = None
  /\ ws \in [Jobs -> Seq(Jobs)] /\ tg \in [Jobs -> Jobs \cup {None}]
  /\ \A k \in Jobs : Distinct(ws[k]) /\ Elems(ws[k]) = {j \in Jobs : tg[j] = k}
  /\ \A j \in Jobs : j # c => ir[j] = inRq[j] /\ tg[j] = target[j]

\* A completion keeps the invariant, wherever the job was taken from.
LEMMA KeepsComplete ==
  ASSUME NJobs <= RQCap, SchedInv, NEW c \in Jobs, claim[c] = 0, Frame(c), MoveTyped,
         owner' = owner, NEW v \in Values, NEW q, NEW ir, NEW ws, NEW tg,
         Taken(c, q, ir, ws, tg), complete_job(c, v, q, ir, ws, tg),
         Distinct(suspended'), Elems(suspended') = Elems(suspended) \ {c}
  PROVE  SchedInv'
  <1> USE JobFacts
  <1>1. TypeOK /\ ListsHold
    BY DEF SchedInv
  <1>a. Completed(c, v, ir, tg)
    BY <1>1, Completes DEF Taken
  <1>2. /\ jstate' \in [Jobs -> {"none", "new", "done"}] /\ result' \in [Jobs -> Values]
        /\ arg' \in [Jobs -> Values] /\ waiters' \in [Jobs -> Seq(Jobs)]
        /\ target' \in [Jobs -> Jobs \cup {None}] /\ inRq' \in [Jobs -> {0, 1}]
        /\ rq' \in [Workers -> Seq(Jobs)] /\ shutdown' \in BOOLEAN
        /\ QueuesHold(rq', inRq', owner)
        /\ \A k \in Jobs : Distinct(waiters'[k]) /\ Elems(waiters'[k]) = {j \in Jobs : target'[j] = k}
        /\ \A j \in Jobs : jstate'[j] = IF j = c THEN "done" ELSE jstate[j]
        /\ \A j \in Jobs : target'[j] = IF tg[j] = c THEN None ELSE tg[j]
        /\ \A j \in Jobs : inRq'[j] = IF tg[j] = c THEN 1 ELSE ir[j]
    BY <1>a DEF Completed
  <1>3. TypeOK'
    BY <1>1, <1>2 DEF TypeOK, MoveTyped, Frame
  <1>4. Moves(c)
    BY <1>2 DEF Moves, Taken
  <1>5. Placed(c)
    BY <1>2 DEF Placed, Taken
  <1>6. ListsHold'
    <2>1. Elems(suspended') = {j \in Jobs : jstate'[j] = "new" /\ "held" \in flags'[j]}
      <3>1. Elems(suspended) = {j \in Jobs : jstate[j] = "new" /\ "held" \in flags[j]}
        BY <1>1 DEF ListsHold
      <3>2. \A j \in Jobs : j # c => flags'[j] = flags[j] /\ jstate'[j] = jstate[j]
        BY <1>2 DEF Frame
      <3>3. jstate'[c] = "done"
        BY <1>2
      <3>4. QED
        BY <3>1, <3>2, <3>3
    <2>2. \A u \in Workers : Distinct(blocked'[u]) /\ Distinct(rest'[u])
      BY <1>1 DEF ListsHold, Frame
    <2>3. QED
      BY <1>2, <2>1, <2>2 DEF ListsHold
  <1>7. QED
    BY <1>3, <1>4, <1>5, <1>6, KeepsMove

\* So does queueing the job.
LEMMA KeepsQueue ==
  ASSUME NJobs <= RQCap, SchedInv, NEW c \in Jobs, jstate[c] = "new", claim[c] = 0, Frame(c), MoveTyped,
         owner' = owner, fiber[c] # "ret", target[c] = None, "held" \notin flags'[c],
         PushAll(<<c>>, rq, inRq), jstate' = jstate, target' = target, waiters' = waiters,
         result' = result, shutdown' = shutdown, arg' \in [Jobs -> Values],
         Distinct(suspended'), Elems(suspended') = Elems(suspended) \ {c}
  PROVE  SchedInv'
  <1> USE JobFacts
  <1>1. TypeOK /\ ListsHold
    BY DEF SchedInv
  <1>2. /\ QueuesHold(rq', inRq', owner)
        /\ \A j \in Jobs : inRq'[j] = IF j = c THEN 1 ELSE inRq[j]
    <2>1. PICK s : s = <<c>>
      OBVIOUS
    <2>2. s \in Seq(Jobs) /\ PushAll(s, rq, inRq) /\ Elems(s) = {c}
      BY <2>1 DEF Elems
    <2>3. owner \in [Jobs -> Workers] /\ QueuesHold(rq, inRq, owner)
      BY <1>1 DEF TypeOK, ListsHold
    <2>4. /\ QueuesHold(rq', inRq', owner)
          /\ \A j \in Jobs : inRq'[j] = IF j \in Elems(s) THEN 1 ELSE inRq[j]
      BY <2>2, <2>3, PushEffect
    <2>5. QED
      BY <2>2, <2>4
  <1>3. rq' \in [Workers -> Seq(Jobs)] /\ inRq' \in [Jobs -> {0, 1}]
    BY <1>2 DEF QueuesHold
  <1>4. TypeOK'
    BY <1>1, <1>3 DEF TypeOK, MoveTyped, Frame
  <1>5. Moves(c)
    BY <1>2 DEF Moves
  <1>6. Placed(c)
    BY <1>2 DEF Placed
  <1>7. ListsHold'
    <2>1. Elems(suspended') = {j \in Jobs : jstate'[j] = "new" /\ "held" \in flags'[j]}
      <3>1. Elems(suspended) = {j \in Jobs : jstate[j] = "new" /\ "held" \in flags[j]}
        BY <1>1 DEF ListsHold
      <3>2. QED
        BY <3>1 DEF Frame
    <2>2. \A u \in Workers : Distinct(blocked'[u]) /\ Distinct(rest'[u])
      BY <1>1 DEF ListsHold, Frame
    <2>3. \A k \in Jobs : Distinct(waiters'[k]) /\ Elems(waiters'[k]) = {j \in Jobs : target'[j] = k}
      BY <1>1 DEF ListsHold
    <2>4. QED
      BY <1>2, <2>1, <2>2, <2>3 DEF ListsHold
  <1>8. QED
    BY <1>4, <1>5, <1>6, <1>7, KeepsMove

\* And holding it.
LEMMA KeepsHold ==
  ASSUME SchedInv, NEW c \in Jobs, jstate[c] = "new", claim[c] = 0, Frame(c), MoveTyped,
         owner' = owner, fiber[c] # "ret", target[c] = None, "held" \notin flags[c], Hold(c),
         QueuesHold(rq', inRq', owner), inRq'[c] = 0, \A j \in Jobs : j # c => inRq'[j] = inRq[j],
         jstate' = jstate, target' = target, waiters' = waiters,
         result' = result, shutdown' = shutdown, arg' \in [Jobs -> Values]
  PROVE  SchedInv'
  <1> USE JobFacts
  <1>1. TypeOK /\ ListsHold
    BY DEF SchedInv
  <1>2. rq' \in [Workers -> Seq(Jobs)] /\ inRq' \in [Jobs -> {0, 1}]
    BY DEF QueuesHold
  <1>3. TypeOK'
    BY <1>1, <1>2 DEF TypeOK, MoveTyped, Frame
  <1>4. "held" \in flags'[c]
    BY <1>1 DEF Hold, TypeOK
  <1>5. Moves(c)
    BY DEF Moves
  <1>6. Placed(c)
    BY <1>4 DEF Placed
  <1>7. ListsHold'
    <2>1. /\ Elems(suspended) = {j \in Jobs : jstate[j] = "new" /\ "held" \in flags[j]}
          /\ suspended \in Seq(Jobs) /\ Distinct(suspended) /\ c \notin Elems(suspended)
      BY <1>1 DEF ListsHold, TypeOK
    <2>2. Distinct(suspended') /\ Elems(suspended') = Elems(suspended) \cup {c}
      BY <2>1, ConsElems DEF Hold
    <2>3. Elems(suspended') = {j \in Jobs : jstate'[j] = "new" /\ "held" \in flags'[j]}
      BY <1>4, <2>1, <2>2 DEF Frame
    <2>4. \A u \in Workers : Distinct(blocked'[u]) /\ Distinct(rest'[u])
      BY <1>1 DEF ListsHold, Frame
    <2>5. \A k \in Jobs : Distinct(waiters'[k]) /\ Elems(waiters'[k]) = {j \in Jobs : target'[j] = k}
      BY <1>1 DEF ListsHold
    <2>6. QED
      BY <2>2, <2>3, <2>4, <2>5 DEF ListsHold
  <1>8. QED
    BY <1>3, <1>5, <1>6, <1>7, KeepsMove

\* A job in hand is live, on no list but the blocked one, and with its owner.
LEMMA HandFacts ==
  ASSUME SchedInv, NEW w \in Workers, pc[w] \in Hands
  PROVE  /\ cur[w] \in Jobs /\ jstate[cur[w]] = "new" /\ inRq[cur[w]] = 0 /\ target[cur[w]] = None
         /\ "held" \notin flags[cur[w]] /\ owner[cur[w]] = w
         /\ pc[w] # "run" => claim[cur[w]] = 0
         /\ fiber[cur[w]] = "ret" => pc[w] \in {"fin", "unlink"} /\ oc[w] = 0
         /\ \A v \in Workers : pc[v] \in Hands /\ cur[v] = cur[w] => v = w
         /\ \A v \in Workers : cur[w] \in Elems(blocked[v]) => v = w
  <1>1. PICK c : c = cur[w]
    OBVIOUS
  <1>2. c \in Jobs
    BY <1>1 DEF SchedInv, WorkerHolds
  <1>3. JobHolds(c) /\ claim[c] \in {0, 1} /\ InHand(c, w)
    BY <1>1, <1>2 DEF SchedInv, TypeOK, InHand, Hands
  <1>4. owner[c] = w
    BY <1>3 DEF JobHolds
  <1>5. Kept(c)
    BY <1>3, <1>4 DEF Kept
  <1>6. jstate[c] = "new" /\ inRq[c] = 0 /\ target[c] = None /\ "held" \notin flags[c]
    BY <1>3, <1>5 DEF JobHolds
  <1>7. /\ pc[w] # "run" => claim[c] = 0
        /\ fiber[c] = "ret" => pc[w] \in {"fin", "unlink"} /\ oc[w] = 0
    BY <1>3, <1>4, <1>6 DEF JobHolds
  <1>8. \A v \in Workers : pc[v] \in Hands /\ cur[v] = c => v = w
    BY <1>3, <1>4 DEF JobHolds, InHand, Hands
  <1>9. \A v \in Workers : c \in Elems(blocked[v]) => v = w
    BY <1>3, <1>4 DEF JobHolds
  <1>10. QED
    BY <1>1, <1>2, <1>4, <1>6, <1>7, <1>8, <1>9

\* resume_job (sched.c:339-369) keeps the invariant.
LEMMA Keeps_resume_job ==
  ASSUME SchedInv, NEW w \in Workers, resume_job(w)
  PROVE  SchedInv'
  <1> USE JobFacts
  <1>0. PICK c : c = cur[w]
    OBVIOUS
  <1>1. pc[w] = "resume" /\ pc[w] \in Hands /\ TypeOK
    BY DEF resume_job, Hands, SchedInv
  <1>2. /\ c \in Jobs /\ jstate[c] = "new" /\ owner[c] = w /\ claim[c] = 0 /\ fiber[c] # "ret"
        /\ inRq[c] = 0 /\ target[c] = None /\ "held" \notin flags[c]
    BY <1>0, <1>1, HandFacts
  <1>3. /\ claim' = [claim EXCEPT ![c] = 1] /\ pc' = [pc EXCEPT ![w] = "run"] /\ oc' = oc
        /\ UNCHANGED <<jstate, owner, result, arg, waiters, target, flags, inRq, awaited,
                       rq, blocked, suspended, shutdown, poolStarted, ownerRr, slk, cur, out, sweep, rest, ops>>
    BY <1>0, <1>2 DEF resume_job, poolVars
  <1>4. PICK g \in FiberSet : g \notin {"none", "ret"} /\ fiber' = [fiber EXCEPT ![c] = g]
    <2>1. fiber[c] \in FiberSet
      BY <1>1, <1>2 DEF TypeOK
    <2>2. \/ fiber' = [fiber EXCEPT ![c] = IF c = Root THEN "start" ELSE "go"]
          \/ fiber' = [fiber EXCEPT ![c] = IF fiber[c] \in {"wait", "nap"} THEN fiber[c] ELSE "go"]
      BY <1>0, <1>2 DEF resume_job
    <2>3. {"start", "go"} \subseteq FiberSet
      BY DEF FiberSet
    <2>4. QED
      BY <2>1, <2>2, <2>3
  <1>5. stack' \in [Jobs -> 0 .. NStacks] /\ freeStacks' \in Seq(1 .. NStacks)
    <2>1. stack \in [Jobs -> 0 .. NStacks] /\ freeStacks \in Seq(1 .. NStacks) /\ NStacks \in Nat
      BY <1>1, SchedAssumption DEF TypeOK, SchedAssumption
    <2>2. CASE UNCHANGED <<stack, freeStacks>>
      BY <2>1, <2>2
    <2>3. CASE grab_task_stack(c)
      <3>1. PICK n : n = Len(freeStacks)
        OBVIOUS
      <3>2. /\ stack' = [stack EXCEPT ![c] = IF n = 0 THEN 0 ELSE freeStacks[n]]
            /\ freeStacks' = SubSeq(freeStacks, 1, n - 1)
        BY <2>3, <3>1 DEF grab_task_stack
      <3>3. n \in Nat /\ (n # 0 => freeStacks[n] \in 1 .. NStacks)
        BY <2>1, <3>1
      <3>4. freeStacks' \in Seq(1 .. NStacks)
        BY <2>1, <3>1, <3>2, <3>3
      <3>5. (IF n = 0 THEN 0 ELSE freeStacks[n]) \in 0 .. NStacks
        BY <2>1, <3>3
      <3>6. QED
        BY <2>1, <3>2, <3>4, <3>5
    <2>4. QED
      BY <1>0, <1>2, <2>2, <2>3 DEF resume_job
  <1>6. TypeOK'
    <2>1. fiber' \in [Jobs -> FiberSet] /\ claim' \in [Jobs -> {0, 1}]
      BY <1>1, <1>3, <1>4 DEF TypeOK
    <2>2. pc' \in [Workers -> PCs]
      BY <1>1, <1>3 DEF TypeOK, PCs
    <2>3. QED
      BY <1>1, <1>3, <1>5, <2>1, <2>2 DEF TypeOK
  <1>7. ListsHold'
    BY <1>3 DEF SchedInv, ListsHold
  <1>8. /\ pc'[w] = "run" /\ \A v \in Workers : v # w => pc'[v] = pc[v]
        /\ claim'[c] = 1 /\ \A j \in Jobs : j # c => claim'[j] = claim[j]
        /\ fiber'[c] = g /\ \A j \in Jobs : j # c => fiber'[j] = fiber[j]
    BY <1>1, <1>2, <1>3, <1>4 DEF TypeOK
  <1>9. ASSUME NEW j \in Jobs PROVE JobHolds(j)'
    <2>1. JobHolds(j) /\ owner[j] \in Workers
      BY <1>1 DEF SchedInv, TypeOK
    <2>2. \A v \in Workers : InHand(j, v)' <=> InHand(j, v)
      BY <1>1, <1>3, <1>8 DEF InHand
    <2>3. Kept(j)' <=> Kept(j)
      BY <1>3, <2>1, <2>2 DEF Kept
    <2>4. CASE j = c
      BY <1>0, <1>2, <1>3, <1>4, <1>8, <2>1, <2>2, <2>3, <2>4 DEF JobHolds
    <2>5. CASE j # c
      <3>1. owner[j] = w => claim[j] # 1 /\ ~(fiber[j] = "ret" /\ jstate[j] = "new")
        BY <1>0, <1>1, <2>1, <2>5 DEF JobHolds
      <3>2. QED
        BY <1>3, <1>8, <2>1, <2>2, <2>3, <2>5, <3>1 DEF JobHolds
    <2>6. QED
      BY <2>4, <2>5
  <1>10. ASSUME NEW v \in Workers PROVE WorkerHolds(v)'
    <2>1. WorkerHolds(v)
      BY DEF SchedInv
    <2>2. CASE v = w
      BY <1>1, <1>3, <1>8, <2>1, <2>2 DEF WorkerHolds, Hands
    <2>3. CASE v # w
      BY <1>3, <1>8, <2>1, <2>3 DEF WorkerHolds
    <2>4. QED
      BY <2>2, <2>3
  <1>11. QED
    BY <1>6, <1>7, <1>9, <1>10 DEF SchedInv

\* c is popped from the queue of w, which leaves q and ir.
Popped(c, w, q, ir) ==
  /\ c \in Jobs /\ inRq[c] = 1 /\ owner[c] = w /\ QueuesHold(q, ir, owner)
  /\ \A j \in Jobs : ir[j] = IF j = c THEN 0 ELSE inRq[j]
  /\ jstate[c] = "new" /\ target[c] = None /\ "held" \notin flags[c] /\ ~Kept(c)

\* The head of a ready queue is popped.
LEMMA PopQueue ==
  ASSUME SchedInv, NEW w \in Workers, rq[w] # <<>>, NEW c, c = Head(rq[w]),
         NEW q, q = [rq EXCEPT ![w] = Tail(@)], NEW ir, ir = [inRq EXCEPT ![c] = 0]
  PROVE  Popped(c, w, q, ir)
  <1>1. /\ rq \in [Workers -> Seq(Jobs)] /\ inRq \in [Jobs -> {0, 1}]
        /\ \A v \in Workers : Distinct(rq[v]) /\ Elems(rq[v]) = {j \in Jobs : inRq[j] = 1 /\ owner[j] = v}
    BY DEF SchedInv, ListsHold, QueuesHold
  <1>2. PICK t : t = Tail(rq[w])
    OBVIOUS
  <1>3. /\ c \in Jobs /\ c \in Elems(rq[w])
        /\ t \in Seq(Jobs) /\ Distinct(t) /\ Elems(t) = Elems(rq[w]) \ {c}
    <2>1. PICK s : s = rq[w]
      OBVIOUS
    <2>2. s \in Seq(Jobs) /\ s # <<>> /\ Distinct(s)
      BY <1>1, <2>1
    <2>3. /\ Head(s) \in Jobs /\ Head(s) \in Elems(s)
          /\ Tail(s) \in Seq(Jobs) /\ Distinct(Tail(s)) /\ Elems(Tail(s)) = Elems(s) \ {Head(s)}
      BY <2>2, TailElems
    <2>4. QED
      BY <1>2, <2>1, <2>3
  <1>4. inRq[c] = 1 /\ owner[c] = w
    BY <1>1, <1>3
  <1>5. q = [rq EXCEPT ![w] = t]
    BY <1>2
  <1>6. \A j \in Jobs : ir[j] = IF j = c THEN 0 ELSE inRq[j]
    BY <1>1
  <1>7. q \in [Workers -> Seq(Jobs)] /\ ir \in [Jobs -> {0, 1}]
    BY <1>1, <1>3, <1>5
  <1>8. ASSUME NEW v \in Workers
        PROVE  Distinct(q[v]) /\ Elems(q[v]) = {j \in Jobs : ir[j] = 1 /\ owner[j] = v}
    <2>1. CASE v = w
      <3>1. q[v] = t
        BY <1>1, <1>5, <2>1
      <3>2. Distinct(q[v]) /\ Elems(q[v]) = Elems(rq[w]) \ {c}
        BY <1>3, <3>1
      <3>3. Elems(rq[w]) \ {c} = {j \in Jobs : ir[j] = 1 /\ owner[j] = v}
        <4>1. Elems(rq[w]) = {j \in Jobs : inRq[j] = 1 /\ owner[j] = w}
          BY <1>1
        <4>2. QED
          BY <1>6, <2>1, <4>1
      <3>4. QED
        BY <3>2, <3>3
    <2>2. CASE v # w
      <3>1. q[v] = rq[v]
        BY <1>1, <1>5, <2>2
      <3>2. QED
        BY <1>1, <1>4, <1>6, <2>2, <3>1
    <2>3. QED
      BY <2>1, <2>2
  <1>9. QueuesHold(q, ir, owner)
    BY <1>7, <1>8 DEF QueuesHold
  <1>10. jstate[c] = "new" /\ target[c] = None /\ "held" \notin flags[c] /\ ~Kept(c)
    <2>1. JobHolds(c) /\ inRq[c] = 1
      BY <1>3, <1>4 DEF SchedInv
    <2>2. jstate[c] = "new"
      BY <2>1 DEF JobHolds
    <2>3. QED
      BY <2>1, <2>2 DEF JobHolds
  <1>11. QED
    BY <1>3, <1>4, <1>6, <1>9, <1>10 DEF Popped

\* A released stack is one of the pool (release_task_stack, sched.c:142-152).
LEMMA ReleaseTyped ==
  ASSUME TypeOK, NEW c \in Jobs, release_task_stack(c)
  PROVE  freeStacks' \in Seq(1 .. NStacks)
  <1>1. stack[c] \in 0 .. NStacks /\ freeStacks \in Seq(1 .. NStacks) /\ NStacks \in Nat
    BY SchedAssumption DEF TypeOK, SchedAssumption
  <1>2. CASE stack[c] = 0
    BY <1>1, <1>2 DEF release_task_stack
  <1>3. CASE stack[c] # 0
    <2>1. stack[c] \in 1 .. NStacks /\ freeStacks' = Append(freeStacks, stack[c])
      BY <1>1, <1>3 DEF release_task_stack
    <2>2. QED
      BY <1>1, <2>1
  <1>4. QED
    BY <1>2, <1>3

\* A cancelled job's stack goes back, and it completes.
LEMMA CancelTyped ==
  ASSUME TypeOK, NEW c \in Jobs, NEW q, NEW ir, NEW ws, NEW tg, job_cancel_now(c, q, ir, ws, tg)
  PROVE  /\ freeStacks' \in Seq(1 .. NStacks) /\ stack' \in [Jobs -> 0 .. NStacks]
         /\ \E v \in Values : complete_job(c, v, q, ir, ws, tg)
  <1>1. stack[c] \in 0 .. NStacks /\ freeStacks \in Seq(1 .. NStacks) /\ NStacks \in Nat
    BY SchedAssumption DEF TypeOK, SchedAssumption
  <1>2. freeStacks' \in Seq(1 .. NStacks)
    BY ReleaseTyped DEF job_cancel_now
  <1>3. stack' \in [Jobs -> 0 .. NStacks]
    BY <1>1 DEF job_cancel_now, TypeOK
  <1>4. (IF "ends" \in flags[c] THEN Ended ELSE Cancelled) \in Values
    BY DEF Values
  <1>5. complete_job(c, IF "ends" \in flags[c] THEN Ended ELSE Cancelled, q, ir, ws, tg)
    BY DEF job_cancel_now
  <1>6. QED
    BY <1>2, <1>3, <1>4, <1>5

\* job_ctl_take holds one job and marks no other.
LEMMA HoldTyped ==
  ASSUME TypeOK, NEW c \in Jobs, Hold(c)
  PROVE  /\ flags' \in [Jobs -> SUBSET FlagSet] /\ suspended' \in Seq(Jobs)
         /\ \A j \in Jobs : j # c => flags'[j] = flags[j]
  <1>1. flags \in [Jobs -> SUBSET FlagSet] /\ suspended \in Seq(Jobs)
    BY DEF TypeOK
  <1>2. flags' = [flags EXCEPT ![c] = flags[c] \cup {"held"}] /\ suspended' = <<c>> \o suspended
    BY DEF Hold
  <1>3. suspended' \in Seq(Jobs)
    BY <1>1, <1>2
  <1>4. QED
    BY <1>1, <1>2, <1>3 DEF FlagSet

\* What a job's fiber leaves alone when it suspends.
LEMMA KeepsSlice ==
  ASSUME SchedInv, NEW w \in Workers, pc[w] = "run", NEW f \in FiberSet, NEW o \in {0, 1, 3},
         NEW x \in Jobs \cup {Prime, Ctl}, Suspend(w, f, o, x), UNCHANGED SuspendOnly,
         flags' \in [Jobs -> SUBSET FlagSet], awaited' \in [Jobs -> Jobs \cup {None}],
         ops' \in 0 .. MaxOps,
         \A j \in Jobs : "held" \in flags'[j] <=> "held" \in flags[j],
         \A j \in Jobs : jstate[j] = "none" => flags'[j] = {},
         f = "ret" <=> o = 0, o = 0 => x \in Jobs, f # "none",
         o = 1 /\ x \in Jobs => jstate[x] # "none"
  PROVE  SchedInv'
  <1> USE JobFacts
  <1>1. cur[w] \in Jobs /\ TypeOK /\ sweep[w] \in {"none", "idle", "ctl"}
    BY DEF SchedInv, WorkerHolds, Hands, TypeOK
  <1>2. /\ fiber' = [fiber EXCEPT ![cur[w]] = f] /\ claim' = [claim EXCEPT ![cur[w]] = 0]
        /\ oc' = [oc EXCEPT ![w] = o] /\ out' = [out EXCEPT ![w] = x]
        /\ pc' = [pc EXCEPT ![w] = IF sweep[w] = "none" THEN "fin" ELSE IF o = 3 THEN "poll" ELSE "unlink"]
        /\ UNCHANGED <<jstate, owner, result, arg, waiters, target, inRq, stack, rq, blocked,
                       suspended, freeStacks, shutdown, poolStarted, ownerRr, slk, cur, sweep, rest>>
    BY DEF Suspend, EndSlice, SuspendOnly, listVars, poolVars
  <1>3. TypeOK'
    <2>1. fiber' \in [Jobs -> FiberSet] /\ claim' \in [Jobs -> {0, 1}]
      BY <1>1, <1>2 DEF TypeOK
    <2>2. oc' \in [Workers -> 0 .. 3]
      <3>0. o \in 0 .. 3
        OBVIOUS
      <3>1. oc \in [Workers -> 0 .. 3]
        BY <1>1 DEF TypeOK
      <3>2. QED
        BY <1>2, <3>0, <3>1
    <2>2a. out' \in [Workers -> Jobs \cup {0, Prime, Ctl}]
      <3>1. out \in [Workers -> Jobs \cup {0, Prime, Ctl}] /\ x \in Jobs \cup {0, Prime, Ctl}
        BY <1>1 DEF TypeOK
      <3>2. QED
        BY <1>2, <3>1
    <2>3. pc' \in [Workers -> PCs]
      BY <1>1, <1>2 DEF TypeOK, PCs
    <2>4. QED
      BY <1>1, <1>2, <2>1, <2>2, <2>2a, <2>3 DEF TypeOK
  <1>4. ListsHold'
    BY <1>1, <1>2 DEF SchedInv, ListsHold, TypeOK
  <1>5. ASSUME NEW j \in Jobs PROVE JobHolds(j)'
    <2>1. JobHolds(j) /\ JobHolds(cur[w]) /\ WorkerHolds(w)
      BY <1>1 DEF SchedInv
    <2>2. owner[cur[w]] = w
      BY <1>1, <2>1 DEF JobHolds, InHand
    <2>3. CASE j = cur[w]
      <3>1. /\ pc'[w] = IF sweep[w] = "none" THEN "fin" ELSE IF o = 3 THEN "poll" ELSE "unlink"
            /\ oc'[w] = o /\ claim'[j] = 0 /\ fiber'[j] = f /\ owner'[j] = w /\ cur'[w] = j
            /\ \A v \in Workers : v # w => pc'[v] = pc[v]
        BY <1>1, <1>2, <2>2, <2>3 DEF TypeOK
      <3>2. /\ jstate[j] = "new" /\ inRq[j] = 0 /\ target[j] = None /\ "held" \notin flags[j]
            /\ \A v \in Workers : InHand(j, v) \/ j \in Elems(blocked[v]) => v = w
        BY <2>1, <2>2, <2>3 DEF JobHolds, Kept, InHand
      <3>3. Kept(j)'
        <4>1. CASE sweep[w] # "none" /\ o = 3
          BY <1>2, <2>1, <2>3, <3>1, <4>1 DEF Kept, WorkerHolds
        <4>2. CASE ~(sweep[w] # "none" /\ o = 3)
          BY <3>1, <4>2 DEF Kept, InHand
        <4>3. QED
          BY <4>1, <4>2
      <3>4. \A v \in Workers : InHand(j, v)' \/ j \in Elems(blocked'[v]) => v = owner'[j]
        BY <1>2, <3>1, <3>2 DEF InHand
      <3>5. f = "ret" => pc'[w] \in {"fin", "unlink"} /\ o = 0
        BY <3>1
      <3>6. QED
        BY <1>2, <3>1, <3>2, <3>3, <3>4, <3>5 DEF JobHolds
    <2>4. CASE j # cur[w]
      <3>1. \A v \in Workers : InHand(j, v)' <=> InHand(j, v)
        BY <1>1, <1>2, <2>4 DEF InHand, TypeOK
      <3>2. QED
        BY <1>1, <1>2, <2>1, <2>4, <3>1 DEF JobHolds, Kept, TypeOK
    <2>5. QED
      BY <2>3, <2>4
  <1>6. ASSUME NEW v \in Workers PROVE WorkerHolds(v)'
    <2>1. WorkerHolds(v)
      BY <1>1 DEF SchedInv
    <2>2. CASE v = w
      <3>1. /\ pc'[w] = IF sweep[w] = "none" THEN "fin" ELSE IF o = 3 THEN "poll" ELSE "unlink"
            /\ oc'[w] = o /\ out'[w] = x
        BY <1>1, <1>2 DEF TypeOK
      <3>2. CASE sweep[w] = "none"
        BY <1>1, <1>2, <2>1, <2>2, <3>1, <3>2 DEF WorkerHolds, Hands
      <3>3. CASE sweep[w] # "none" /\ o = 3
        BY <1>1, <1>2, <2>1, <2>2, <3>1, <3>3 DEF WorkerHolds, Hands
      <3>4. CASE sweep[w] # "none" /\ o # 3
        BY <1>1, <1>2, <2>1, <2>2, <3>1, <3>4 DEF WorkerHolds, Hands
      <3>5. QED
        BY <3>2, <3>3, <3>4
    <2>3. CASE v # w
      BY <1>1, <1>2, <2>1, <2>3 DEF WorkerHolds, TypeOK
    <2>4. QED
      BY <2>2, <2>3
  <1>7. QED
    BY <1>3, <1>4, <1>5, <1>6 DEF SchedInv

\* The root job's priming suspend (codegen.c:6677-6680) keeps the invariant.
LEMMA Keeps_PrimeRoot ==
  ASSUME SchedInv, NEW w \in Workers, PrimeRoot(w)
  PROVE  SchedInv'
  <1>1. /\ pc[w] = "run" /\ Suspend(w, "ctl", 1, Prime) /\ UNCHANGED SuspendOnly
        /\ flags' = flags /\ awaited' = awaited /\ ops' = ops
    BY DEF PrimeRoot, Running
  <1>2. /\ cur[w] \in Jobs /\ flags' \in [Jobs -> SUBSET FlagSet]
        /\ awaited' \in [Jobs -> Jobs \cup {None}] /\ ops' \in 0 .. MaxOps
    BY <1>1 DEF SchedInv, TypeOK, WorkerHolds, Hands
  <1>3. \A j \in Jobs : /\ "held" \in flags'[j] <=> "held" \in flags[j]
                        /\ jstate[j] = "none" => flags'[j] = {}
    BY <1>1 DEF SchedInv, JobHolds
  <1>4. 1 \in {0, 1, 3} /\ "ctl" \in FiberSet /\ Prime \in Jobs \cup {Prime, Ctl} /\ "ctl" # "none"
        /\ ("ctl" = "ret" <=> 1 = 0) /\ (1 = 0 => Prime \in Jobs)
        /\ (1 = 1 /\ Prime \in Jobs => jstate[Prime] # "none")
    BY <1>2, JobFacts DEF FiberSet
  <1>5. QED
    BY <1>1, <1>2, <1>3, <1>4, KeepsSlice

\* A return (sched.c:370-374) keeps the invariant.
LEMMA Keeps_Return ==
  ASSUME SchedInv, NEW w \in Workers, Return(w)
  PROVE  SchedInv'
  <1>1. /\ pc[w] = "run" /\ Suspend(w, "ret", 0, cur[w]) /\ UNCHANGED SuspendOnly
        /\ flags' = flags /\ awaited' = awaited /\ ops' = ops
    BY DEF Return, Running
  <1>2. /\ cur[w] \in Jobs /\ flags' \in [Jobs -> SUBSET FlagSet]
        /\ awaited' \in [Jobs -> Jobs \cup {None}] /\ ops' \in 0 .. MaxOps
    BY <1>1 DEF SchedInv, TypeOK, WorkerHolds, Hands
  <1>3. \A j \in Jobs : /\ "held" \in flags'[j] <=> "held" \in flags[j]
                        /\ jstate[j] = "none" => flags'[j] = {}
    BY <1>1 DEF SchedInv, JobHolds
  <1>4. 0 \in {0, 1, 3} /\ "ret" \in FiberSet /\ cur[w] \in Jobs \cup {Prime, Ctl} /\ "ret" # "none"
        /\ ("ret" = "ret" <=> 0 = 0) /\ (0 = 0 => cur[w] \in Jobs)
        /\ (0 = 1 /\ cur[w] \in Jobs => jstate[cur[w]] # "none")
    BY <1>2, JobFacts DEF FiberSet
  <1>5. QED
    BY <1>1, <1>2, <1>3, <1>4, KeepsSlice

\* The wait after a sleep's job-control point (builtins.c:784-788) keeps the invariant.
LEMMA Keeps_SleepOn ==
  ASSUME SchedInv, NEW w \in Workers, SleepOn(w)
  PROVE  SchedInv'
  <1>1. /\ pc[w] = "run" /\ Suspend(w, "wait", 3, 0) /\ UNCHANGED SuspendOnly
        /\ flags' = flags /\ awaited' = awaited /\ ops' = ops
    BY DEF SleepOn, Running
  <1>2. /\ cur[w] \in Jobs /\ flags' \in [Jobs -> SUBSET FlagSet]
        /\ awaited' \in [Jobs -> Jobs \cup {None}] /\ ops' \in 0 .. MaxOps
    BY <1>1 DEF SchedInv, TypeOK, WorkerHolds, Hands
  <1>3. \A j \in Jobs : /\ "held" \in flags'[j] <=> "held" \in flags[j]
                        /\ jstate[j] = "none" => flags'[j] = {}
    BY <1>1 DEF SchedInv, JobHolds
  <1>4. 3 \in {0, 1, 3} /\ "wait" \in FiberSet /\ 0 \in Jobs \cup {Prime, Ctl} /\ "wait" # "none"
        /\ ("wait" = "ret" <=> 3 = 0) /\ (3 = 0 => 0 \in Jobs)
        /\ (3 = 1 /\ 0 \in Jobs => jstate[0] # "none")
    BY <1>2, JobFacts DEF FiberSet
  <1>5. QED
    BY <1>1, <1>2, <1>3, <1>4, KeepsSlice

\* A re-poll that finds the fiber parked (sched.c:425-437) keeps the invariant.
LEMMA Keeps_StillParked ==
  ASSUME SchedInv, NEW w \in Workers, StillParked(w)
  PROVE  SchedInv'
  <1>1. /\ pc[w] = "run" /\ Suspend(w, "wait", 3, 0) /\ UNCHANGED SuspendOnly
        /\ flags' = flags /\ awaited' = awaited /\ ops' = ops
    BY DEF StillParked, Running
  <1>2. /\ cur[w] \in Jobs /\ flags' \in [Jobs -> SUBSET FlagSet]
        /\ awaited' \in [Jobs -> Jobs \cup {None}] /\ ops' \in 0 .. MaxOps
    BY <1>1 DEF SchedInv, TypeOK, WorkerHolds, Hands
  <1>3. \A j \in Jobs : /\ "held" \in flags'[j] <=> "held" \in flags[j]
                        /\ jstate[j] = "none" => flags'[j] = {}
    BY <1>1 DEF SchedInv, JobHolds
  <1>4. 3 \in {0, 1, 3} /\ "wait" \in FiberSet /\ 0 \in Jobs \cup {Prime, Ctl} /\ "wait" # "none"
        /\ ("wait" = "ret" <=> 3 = 0) /\ (3 = 0 => 0 \in Jobs)
        /\ (3 = 1 /\ 0 \in Jobs => jstate[0] # "none")
    BY <1>2, JobFacts DEF FiberSet
  <1>5. QED
    BY <1>1, <1>2, <1>3, <1>4, KeepsSlice

\* jacl_ctl_point (sched.c:740-744) keeps the invariant.
LEMMA Keeps_jacl_ctl_point ==
  ASSUME SchedInv, NEW w \in Workers, jacl_ctl_point(w)
  PROVE  SchedInv'
  <1>1. /\ pc[w] = "run" /\ Suspend(w, "ctl", 1, Ctl) /\ UNCHANGED SuspendOnly
        /\ flags' = flags /\ awaited' = awaited /\ ops' = ops
    BY DEF jacl_ctl_point, Running
  <1>2. /\ cur[w] \in Jobs /\ flags' \in [Jobs -> SUBSET FlagSet]
        /\ awaited' \in [Jobs -> Jobs \cup {None}] /\ ops' \in 0 .. MaxOps
    BY <1>1 DEF SchedInv, TypeOK, WorkerHolds, Hands
  <1>3. \A j \in Jobs : /\ "held" \in flags'[j] <=> "held" \in flags[j]
                        /\ jstate[j] = "none" => flags'[j] = {}
    BY <1>1 DEF SchedInv, JobHolds
  <1>4. 1 \in {0, 1, 3} /\ "ctl" \in FiberSet /\ Ctl \in Jobs \cup {Prime, Ctl} /\ "ctl" # "none"
        /\ ("ctl" = "ret" <=> 1 = 0) /\ (1 = 0 => Ctl \in Jobs)
        /\ (1 = 1 /\ Ctl \in Jobs => jstate[Ctl] # "none")
    BY <1>2, JobFacts DEF FiberSet
  <1>5. QED
    BY <1>1, <1>2, <1>3, <1>4, KeepsSlice

\* jacl_loop_point (sched.c:746-758) keeps the invariant.
LEMMA Keeps_jacl_loop_point ==
  ASSUME SchedInv, NEW w \in Workers, jacl_loop_point(w)
  PROVE  SchedInv'
  <1>1. /\ pc[w] = "run" /\ Suspend(w, "ctl", 1, Ctl) /\ UNCHANGED SuspendOnly
        /\ flags' = flags /\ awaited' = awaited /\ ops' = ops
    BY DEF jacl_loop_point, Running
  <1>2. /\ cur[w] \in Jobs /\ flags' \in [Jobs -> SUBSET FlagSet]
        /\ awaited' \in [Jobs -> Jobs \cup {None}] /\ ops' \in 0 .. MaxOps
    BY <1>1 DEF SchedInv, TypeOK, WorkerHolds, Hands
  <1>3. \A j \in Jobs : /\ "held" \in flags'[j] <=> "held" \in flags[j]
                        /\ jstate[j] = "none" => flags'[j] = {}
    BY <1>1 DEF SchedInv, JobHolds
  <1>4. 1 \in {0, 1, 3} /\ "ctl" \in FiberSet /\ Ctl \in Jobs \cup {Prime, Ctl} /\ "ctl" # "none"
        /\ ("ctl" = "ret" <=> 1 = 0) /\ (1 = 0 => Ctl \in Jobs)
        /\ (1 = 1 /\ Ctl \in Jobs => jstate[Ctl] # "none")
    BY <1>2, JobFacts DEF FiberSet
  <1>5. QED
    BY <1>1, <1>2, <1>3, <1>4, KeepsSlice

\* jacl_await (sched.c:692-700) keeps the invariant.
LEMMA Keeps_jacl_await ==
  ASSUME SchedInv, NEW w \in Workers, jacl_await(w)
  PROVE  SchedInv'
  <1>1. PICK k \in Futures : /\ awaited' = [awaited EXCEPT ![cur[w]] = k]
                             /\ Suspend(w, "await", 1, k)
    BY DEF jacl_await
  <1>2. /\ pc[w] = "run" /\ UNCHANGED SuspendOnly /\ flags' = flags
        /\ ops < MaxOps /\ ops' = ops + 1
    BY DEF jacl_await, Running, Op
  <1>3. 1 \in {0, 1, 3} /\ "await" \in FiberSet /\ k \in Jobs \cup {Prime, Ctl} /\ "await" # "none"
        /\ ("await" = "ret" <=> 1 = 0) /\ (1 = 0 => k \in Jobs)
        /\ (1 = 1 /\ k \in Jobs => jstate[k] # "none")
    BY JobFacts DEF Futures, Exists, FiberSet
  <1>4. flags' \in [Jobs -> SUBSET FlagSet] /\ awaited' \in [Jobs -> Jobs \cup {None}]
    BY <1>1, <1>2, JobFacts DEF SchedInv, TypeOK, Futures
  <1>5. ops' \in 0 .. MaxOps
    BY <1>2, SchedAssumption DEF SchedInv, TypeOK, SchedAssumption
  <1>6. \A j \in Jobs : /\ "held" \in flags'[j] <=> "held" \in flags[j]
                        /\ jstate[j] = "none" => flags'[j] = {}
    BY <1>2 DEF SchedInv, JobHolds
  <1>7. QED
    BY <1>1, <1>2, <1>3, <1>4, <1>5, <1>6, KeepsSlice

\* jacl_sleep (builtins.c:773-790) keeps the invariant.
LEMMA Keeps_jacl_sleep ==
  ASSUME SchedInv, NEW w \in Workers, jacl_sleep(w)
  PROVE  SchedInv'
  <1>1. Suspend(w, "nap", 1, Ctl) \/ Suspend(w, "wait", 3, 0)
    BY DEF jacl_sleep
  <1>2. /\ pc[w] = "run" /\ UNCHANGED SuspendOnly /\ flags' = flags /\ awaited' = awaited
        /\ ops < MaxOps /\ ops' = ops + 1
    BY DEF jacl_sleep, Running, Op
  <1>3. flags' \in [Jobs -> SUBSET FlagSet] /\ awaited' \in [Jobs -> Jobs \cup {None}]
    BY <1>2 DEF SchedInv, TypeOK
  <1>4. ops' \in 0 .. MaxOps
    BY <1>2, SchedAssumption DEF SchedInv, TypeOK, SchedAssumption
  <1>5. \A j \in Jobs : /\ "held" \in flags'[j] <=> "held" \in flags[j]
                        /\ jstate[j] = "none" => flags'[j] = {}
    BY <1>2 DEF SchedInv, JobHolds
  <1>6. 1 \in {0, 1, 3} /\ "nap" \in FiberSet /\ Ctl \in Jobs \cup {Prime, Ctl} /\ "nap" # "none"
        /\ ("nap" = "ret" <=> 1 = 0) /\ (1 = 0 => Ctl \in Jobs)
        /\ (1 = 1 /\ Ctl \in Jobs => jstate[Ctl] # "none")
    BY JobFacts DEF FiberSet
  <1>7. 3 \in {0, 1, 3} /\ "wait" \in FiberSet /\ 0 \in Jobs \cup {Prime, Ctl} /\ "wait" # "none"
        /\ ("wait" = "ret" <=> 3 = 0) /\ (3 = 0 => 0 \in Jobs)
        /\ (3 = 1 /\ 0 \in Jobs => jstate[0] # "none")
    BY JobFacts DEF FiberSet
  <1>8. CASE Suspend(w, "nap", 1, Ctl)
    BY <1>8, <1>2, <1>3, <1>4, <1>5, <1>6, KeepsSlice
  <1>9. CASE Suspend(w, "wait", 3, 0)
    BY <1>9, <1>2, <1>3, <1>4, <1>5, <1>7, KeepsSlice
  <1>10. QED
    BY <1>1, <1>8, <1>9

\* jacl_task_end (sched.c:760-773) keeps the invariant.
LEMMA Keeps_jacl_task_end ==
  ASSUME SchedInv, NEW w \in Workers, jacl_task_end(w)
  PROVE  SchedInv'
  <1>1. Suspend(w, "ctl", 1, Ctl) /\ flags' = [flags EXCEPT ![cur[w]] = @ \cup {"cancel", "ends"}]
    BY DEF jacl_task_end
  <1>2. /\ pc[w] = "run" /\ UNCHANGED SuspendOnly /\ awaited' = awaited
        /\ ops < MaxOps /\ ops' = ops + 1
    BY DEF jacl_task_end, Running, Op
  <1>3. cur[w] \in Jobs /\ flags \in [Jobs -> SUBSET FlagSet] /\ awaited' \in [Jobs -> Jobs \cup {None}]
    BY <1>2 DEF SchedInv, TypeOK, WorkerHolds, Hands
  <1>4. flags' \in [Jobs -> SUBSET FlagSet]
    BY <1>1, <1>3 DEF FlagSet
  <1>5. ops' \in 0 .. MaxOps
    BY <1>2, SchedAssumption DEF SchedInv, TypeOK, SchedAssumption
  <1>6. \A j \in Jobs : "held" \in flags'[j] <=> "held" \in flags[j]
    BY <1>1, <1>3
  <1>7. \A j \in Jobs : jstate[j] = "none" => flags'[j] = {}
    <2>1. jstate[cur[w]] # "none"
      BY <1>2, <1>3 DEF SchedInv, JobHolds, Kept, InHand
    <2>2. \A j \in Jobs : jstate[j] = "none" => flags[j] = {}
      BY DEF SchedInv, JobHolds
    <2>3. QED
      BY <1>1, <1>3, <2>1, <2>2
  <1>8. 1 \in {0, 1, 3} /\ "ctl" \in FiberSet /\ Ctl \in Jobs \cup {Prime, Ctl} /\ "ctl" # "none"
        /\ ("ctl" = "ret" <=> 1 = 0) /\ (1 = 0 => Ctl \in Jobs)
        /\ (1 = 1 /\ Ctl \in Jobs => jstate[Ctl] # "none")
    BY JobFacts DEF FiberSet
  <1>9. QED
    BY <1>1, <1>2, <1>3, <1>4, <1>5, <1>6, <1>7, <1>8, KeepsSlice

\* A step of w that moves no job: what is said of the jobs and of the other
\* workers stays.
LEMMA KeepsControl ==
  ASSUME SchedInv, NEW w \in Workers, UNCHANGED <<jobVars, listVars, poolVars, cur, oc, out, ops>>,
         pc[w] \notin Hands, NEW p \in PCs \ Hands, pc' = [pc EXCEPT ![w] = p],
         \A v \in Workers : v # w => sweep'[v] = sweep[v] /\ rest'[v] = rest[v],
         sweep' \in [Workers -> {"none", "idle", "ctl"}], rest' \in [Workers -> Seq(Jobs)],
         \/ sweep'[w] = "none" /\ rest'[w] = <<>> /\ p # "poll"
         \/ sweep'[w] # "none" /\ rest'[w] = blocked[w] /\ p = "poll"
  PROVE  SchedInv'
  <1> USE JobFacts
  <1>1. /\ UNCHANGED <<jstate, owner, result, arg, waiters, target, flags, inRq, claim, stack, fiber,
                       awaited, rq, blocked, suspended, freeStacks, shutdown, poolStarted, ownerRr, slk>>
        /\ TypeOK /\ p \in PCs /\ UNCHANGED <<cur, oc, out, ops>>
    BY DEF jobVars, listVars, poolVars, SchedInv
  <1>2. TypeOK'
    <2>1. pc' \in [Workers -> PCs]
      BY <1>1 DEF TypeOK
    <2>2. QED
      BY <1>1, <2>1 DEF TypeOK
  <1>3. ListsHold'
    <2>1. QueuesHold(rq', inRq', owner')
      BY <1>1 DEF SchedInv, ListsHold
    <2>2. ASSUME NEW v \in Workers PROVE Distinct(blocked'[v]) /\ Distinct(rest'[v])
      <3>1. Distinct(<<>>)
        BY DEF Distinct
      <3>2. QED
        BY <1>1, <3>1 DEF SchedInv, ListsHold
    <2>3. QED
      BY <1>1, <2>1, <2>2 DEF SchedInv, ListsHold
  <1>4. ASSUME NEW j \in Jobs PROVE JobHolds(j)'
    <2>1. JobHolds(j)
      BY DEF SchedInv
    <2>2. \A v \in Workers : InHand(j, v)' <=> InHand(j, v)
      BY <1>1 DEF InHand, Hands, TypeOK
    <2>3. \A v \in Workers : pc[v] \in {"run", "fin", "unlink"} => pc'[v] = pc[v]
      BY <1>1 DEF Hands, TypeOK
    <2>4. owner[j] \in Workers
      BY <1>1 DEF TypeOK
    <2>5. QED
      BY <1>1, <2>1, <2>2, <2>3, <2>4 DEF JobHolds, Kept
  <1>5. ASSUME NEW v \in Workers PROVE WorkerHolds(v)'
    <2>1. WorkerHolds(v)
      BY DEF SchedInv
    <2>2. CASE v = w
      <3>1. pc'[w] = p
        BY <1>1 DEF TypeOK
      <3>2. Elems(<<>>) = {}
        BY DEF Elems
      <3>3. QED
        BY <1>1, <2>1, <2>2, <3>1, <3>2 DEF WorkerHolds, Hands
    <2>3. CASE v # w
      BY <1>1, <2>1, <2>3 DEF WorkerHolds, TypeOK
    <2>4. QED
      BY <2>2, <2>3
  <1>6. QED
    BY <1>2, <1>3, <1>4, <1>5 DEF SchedInv

\* A pool thread starts (sched.c:526-528) keeps the invariant.
LEMMA Keeps_worker_thread ==
  ASSUME SchedInv, NEW w \in Workers, worker_thread(w)
  PROVE  SchedInv'
  <1>1. /\ pc[w] = "off" /\ pc' = [pc EXCEPT ![w] = "loop"] /\ sweep' = sweep /\ rest' = rest
        /\ UNCHANGED <<jobVars, listVars, poolVars, cur, oc, out, ops>>
    BY DEF worker_thread
  <1>2. /\ sweep[w] = "none" /\ rest[w] = <<>> /\ pc[w] \notin Hands /\ "loop" \in PCs \ Hands
        /\ sweep \in [Workers -> {"none", "idle", "ctl"}] /\ rest \in [Workers -> Seq(Jobs)]
    BY <1>1 DEF SchedInv, WorkerHolds, TypeOK, Hands, PCs
  <1>3. QED
    BY <1>1, <1>2, KeepsControl

\* An empty queue (sched.c:488-507) keeps the invariant.
LEMMA Keeps_NoJob ==
  ASSUME SchedInv, NEW w \in Workers, NoJob(w)
  PROVE  SchedInv'
  <1>1. /\ pc[w] = "nojob" /\ UNCHANGED <<jobVars, listVars, poolVars, cur, oc, out, ops>>
        /\ \/ /\ sweep' = [sweep EXCEPT ![w] = "idle"] /\ rest' = [rest EXCEPT ![w] = blocked[w]]
              /\ pc' = [pc EXCEPT ![w] = "poll"]
           \/ /\ pc' = [pc EXCEPT ![w] = "exit"] \/ pc' = [pc EXCEPT ![w] = "loop"]
              /\ sweep' = sweep /\ rest' = rest
    BY DEF NoJob
  <1>2. /\ sweep[w] = "none" /\ rest[w] = <<>> /\ pc[w] \notin Hands /\ {"loop", "exit", "poll"} \subseteq PCs \ Hands
        /\ sweep \in [Workers -> {"none", "idle", "ctl"}] /\ rest \in [Workers -> Seq(Jobs)]
        /\ blocked[w] \in Seq(Jobs)
    BY <1>1 DEF SchedInv, WorkerHolds, TypeOK, Hands, PCs
  <1>3. CASE /\ sweep' = [sweep EXCEPT ![w] = "idle"] /\ rest' = [rest EXCEPT ![w] = blocked[w]]
             /\ pc' = [pc EXCEPT ![w] = "poll"]
    <2>1. /\ sweep' \in [Workers -> {"none", "idle", "ctl"}] /\ rest' \in [Workers -> Seq(Jobs)]
          /\ sweep'[w] # "none" /\ rest'[w] = blocked[w]
          /\ \A v \in Workers : v # w => sweep'[v] = sweep[v] /\ rest'[v] = rest[v]
      BY <1>2, <1>3
    <2>2. QED
      BY <1>1, <1>2, <1>3, <2>1, KeepsControl
  <1>4. CASE /\ pc' = [pc EXCEPT ![w] = "exit"] \/ pc' = [pc EXCEPT ![w] = "loop"]
             /\ sweep' = sweep /\ rest' = rest
    BY <1>1, <1>2, <1>4, KeepsControl
  <1>5. QED
    BY <1>1, <1>3, <1>4

\* The end of a slice (sched.c:516-524) keeps the invariant.
LEMMA Keeps_AfterSlice ==
  ASSUME SchedInv, NEW w \in Workers, AfterSlice(w)
  PROVE  SchedInv'
  <1>1. /\ pc[w] = "after" /\ UNCHANGED <<jobVars, listVars, poolVars, cur, oc, out, ops>>
        /\ \/ /\ sweep' = [sweep EXCEPT ![w] = "ctl"] /\ rest' = [rest EXCEPT ![w] = blocked[w]]
              /\ pc' = [pc EXCEPT ![w] = "poll"]
           \/ /\ pc' = [pc EXCEPT ![w] = "exit"] \/ pc' = [pc EXCEPT ![w] = "loop"]
              /\ sweep' = sweep /\ rest' = rest
    BY DEF AfterSlice
  <1>2. /\ sweep[w] = "none" /\ rest[w] = <<>> /\ pc[w] \notin Hands /\ {"loop", "exit", "poll"} \subseteq PCs \ Hands
        /\ sweep \in [Workers -> {"none", "idle", "ctl"}] /\ rest \in [Workers -> Seq(Jobs)]
        /\ blocked[w] \in Seq(Jobs)
    BY <1>1 DEF SchedInv, WorkerHolds, TypeOK, Hands, PCs
  <1>3. CASE /\ sweep' = [sweep EXCEPT ![w] = "ctl"] /\ rest' = [rest EXCEPT ![w] = blocked[w]]
             /\ pc' = [pc EXCEPT ![w] = "poll"]
    <2>1. /\ sweep' \in [Workers -> {"none", "idle", "ctl"}] /\ rest' \in [Workers -> Seq(Jobs)]
          /\ sweep'[w] # "none" /\ rest'[w] = blocked[w]
          /\ \A v \in Workers : v # w => sweep'[v] = sweep[v] /\ rest'[v] = rest[v]
      BY <1>2, <1>3
    <2>2. QED
      BY <1>1, <1>2, <1>3, <2>1, KeepsControl
  <1>4. CASE /\ pc' = [pc EXCEPT ![w] = "exit"] \/ pc' = [pc EXCEPT ![w] = "loop"]
             /\ sweep' = sweep /\ rest' = rest
    BY <1>1, <1>2, <1>4, KeepsControl
  <1>5. QED
    BY <1>1, <1>3, <1>4

\* repoll_blocked (sched.c:425-437) keeps the invariant.
LEMMA Keeps_repoll_blocked ==
  ASSUME SchedInv, NEW w \in Workers, repoll_blocked(w)
  PROVE  SchedInv'
  <1> USE JobFacts
  <1>1. /\ pc[w] = "poll" /\ UNCHANGED <<jobVars, listVars, poolVars, oc, out, ops>>
        /\ WorkerHolds(w) /\ sweep[w] # "none" /\ TypeOK
    BY DEF repoll_blocked, SchedInv, WorkerHolds
  <1>2. CASE rest[w] = <<>>
    <2>1. /\ sweep' = [sweep EXCEPT ![w] = "none"] /\ cur' = cur /\ rest' = rest
          /\ pc' = [pc EXCEPT ![w] = "exit"] \/ pc' = [pc EXCEPT ![w] = "loop"]
      BY <1>2 DEF repoll_blocked
    <2>2. /\ pc[w] \notin Hands /\ {"loop", "exit"} \subseteq PCs \ Hands
          /\ sweep' \in [Workers -> {"none", "idle", "ctl"}] /\ rest' \in [Workers -> Seq(Jobs)]
          /\ sweep'[w] = "none" /\ \A v \in Workers : v # w => sweep'[v] = sweep[v]
      BY <1>1, <2>1 DEF TypeOK, Hands, PCs
    <2>3. UNCHANGED <<jobVars, listVars, poolVars, cur, oc, out, ops>>
      BY <1>1, <2>1
    <2>4. QED
      BY <1>2, <2>1, <2>2, <2>3, KeepsControl
  <1>3. CASE rest[w] # <<>>
    <2>0. PICK h : h = Head(rest[w])
      OBVIOUS
    <2>1. /\ cur' = [cur EXCEPT ![w] = h] /\ rest' = [rest EXCEPT ![w] = Tail(rest[w])]
          /\ pc' = [pc EXCEPT ![w] = "resume"] /\ sweep' = sweep
      BY <1>3, <2>0 DEF repoll_blocked
    <2>2. rest[w] \in Seq(Jobs) /\ Distinct(rest[w])
      BY <1>1 DEF SchedInv, ListsHold, TypeOK
    <2>3. /\ h \in Jobs /\ h \in Elems(rest[w]) /\ Tail(rest[w]) \in Seq(Jobs)
          /\ Distinct(Tail(rest[w])) /\ Elems(Tail(rest[w])) = Elems(rest[w]) \ {h}
      BY <1>3, <2>0, <2>2, TailElems
    <2>4. PICK t : t = Tail(rest[w])
      OBVIOUS
    <2>5. /\ rest' = [rest EXCEPT ![w] = t] /\ t \in Seq(Jobs)
          /\ Distinct(t) /\ Elems(t) = Elems(rest[w]) \ {h}
      BY <2>1, <2>3, <2>4
    <2>6. UNCHANGED <<jstate, owner, result, arg, waiters, target, flags, inRq, claim, stack, fiber,
                       awaited, rq, blocked, suspended, freeStacks, shutdown, poolStarted, ownerRr, slk, oc, out, ops>>
      BY <1>1 DEF jobVars, listVars, poolVars
    <2>7. TypeOK'
      <3>1. pc' \in [Workers -> PCs] /\ cur' \in [Workers -> Jobs \cup {None}] /\ rest' \in [Workers -> Seq(Jobs)]
        <4>1. pc' \in [Workers -> PCs]
          BY <1>1, <2>1 DEF TypeOK, PCs
        <4>2. cur' \in [Workers -> Jobs \cup {None}]
          BY <1>1, <2>1, <2>3 DEF TypeOK
        <4>3. rest' \in [Workers -> Seq(Jobs)]
          BY <1>1, <2>5 DEF TypeOK
        <4>4. QED
          BY <4>1, <4>2, <4>3
      <3>2. QED
        BY <1>1, <2>1, <2>6, <3>1 DEF TypeOK
    <2>8. ListsHold'
      <3>1. QueuesHold(rq', inRq', owner')
        BY <2>6 DEF SchedInv, ListsHold
      <3>2. ASSUME NEW v \in Workers PROVE Distinct(blocked'[v]) /\ Distinct(rest'[v])
        BY <1>1, <2>5, <2>6 DEF SchedInv, ListsHold, TypeOK
      <3>3. QED
        BY <2>6, <3>1, <3>2 DEF SchedInv, ListsHold
    <2>9. ASSUME NEW j \in Jobs PROVE JobHolds(j)'
      <3>1. JobHolds(j) /\ JobHolds(h) /\ owner[j] \in Workers /\ h \in Elems(blocked[w])
        BY <1>1, <2>3 DEF SchedInv, TypeOK, WorkerHolds
      <3>2. owner[h] = w /\ jstate[h] = "new"
        BY <3>1 DEF JobHolds, Kept
      <3>3. ~InHand(h, w)
        BY <1>1 DEF InHand
      <3>4. CASE j = h
        BY <1>1, <2>1, <2>6, <3>1, <3>2, <3>4 DEF JobHolds, Kept, InHand, TypeOK
      <3>5. CASE j # h
        <4>1. \A v \in Workers : InHand(j, v)' <=> InHand(j, v)
          BY <1>1, <2>1, <3>5 DEF InHand, TypeOK
        <4>2. \A v \in Workers : v # w => pc'[v] = pc[v] /\ cur'[v] = cur[v]
          BY <1>1, <2>1 DEF TypeOK
        <4>3. QED
          BY <1>1, <2>6, <3>1, <4>1, <4>2 DEF JobHolds, Kept
      <3>6. QED
        BY <3>4, <3>5
    <2>10. ASSUME NEW v \in Workers PROVE WorkerHolds(v)'
      <3>1. WorkerHolds(v)
        BY DEF SchedInv
      <3>2. CASE v = w
        <4>1. cur'[w] = h /\ pc'[w] = "resume" /\ rest'[w] = t
          BY <1>1, <2>1, <2>5 DEF TypeOK
        <4>2. QED
          BY <1>1, <2>1, <2>3, <2>5, <2>6, <3>1, <3>2, <4>1 DEF WorkerHolds, Hands
      <3>3. CASE v # w
        BY <1>1, <2>1, <2>5, <2>6, <3>1, <3>3 DEF WorkerHolds, TypeOK
      <3>4. QED
        BY <3>2, <3>3
    <2>11. QED
      BY <2>7, <2>8, <2>9, <2>10 DEF SchedInv
  <1>4. QED
    BY <1>2, <1>3

\* The end of a VM wait (builtins.c:784-790) keeps the invariant.
LEMMA Keeps_WaitEnds ==
  ASSUME SchedInv, NEW w \in Workers, WaitEnds(w)
  PROVE  SchedInv'
  <1>1. /\ pc[w] = "run" /\ fiber' = [fiber EXCEPT ![cur[w]] = "go"] /\ cur[w] \in Jobs /\ TypeOK
        /\ UNCHANGED <<jstate, owner, result, arg, waiters, target, flags, inRq, claim, stack, awaited,
                       rq, blocked, suspended, freeStacks, shutdown, poolStarted, ownerRr, slk, wVars, ops>>
    BY DEF WaitEnds, Running, SuspendOnly, listVars, poolVars, wVars, SchedInv, WorkerHolds, Hands
  <1>2. UNCHANGED <<pc, cur, oc, out, sweep, rest>>
    BY <1>1 DEF wVars
  <1>3. fiber' \in [Jobs -> FiberSet]
    BY <1>1 DEF TypeOK, FiberSet
  <1>4. TypeOK'
    BY <1>1, <1>2, <1>3 DEF TypeOK
  <1>5. ListsHold'
    BY <1>1, <1>2 DEF SchedInv, ListsHold
  <1>6. ASSUME NEW j \in Jobs PROVE JobHolds(j)'
    <2>1. JobHolds(j) /\ fiber'[j] = IF j = cur[w] THEN "go" ELSE fiber[j]
      BY <1>1 DEF SchedInv, TypeOK
    <2>2. jstate[cur[w]] # "none"
      BY <1>1 DEF SchedInv, JobHolds, Kept, InHand
    <2>3. QED
      BY <1>1, <1>2, <2>1, <2>2 DEF JobHolds, Kept, InHand
  <1>7. ASSUME NEW v \in Workers PROVE WorkerHolds(v)'
    BY <1>1, <1>2 DEF SchedInv, WorkerHolds
  <1>8. QED
    BY <1>4, <1>5, <1>6, <1>7 DEF SchedInv

\* Parking on a VM wait (sched.c:508-515) keeps the invariant.
LEMMA Keeps_PushBlocked ==
  ASSUME SchedInv, NEW w \in Workers, PushBlocked(w)
  PROVE  SchedInv'
  <1> USE JobFacts
  <1>0. PICK c : c = cur[w]
    OBVIOUS
  <1>1. /\ pc[w] = "fin" /\ oc[w] = 3 /\ TypeOK /\ WorkerHolds(w) /\ c \in Jobs
        /\ pc' = [pc EXCEPT ![w] = "after"]
        /\ UNCHANGED <<jstate, owner, result, arg, waiters, target, flags, inRq, claim, stack, fiber,
                       awaited, rq, suspended, freeStacks, shutdown, poolStarted, ownerRr, slk, cur,
                       oc, out, sweep, rest, ops>>
    BY <1>0 DEF PushBlocked, jobVars, poolVars, SchedInv, WorkerHolds, Hands
  <1>2. sweep[w] = "none" /\ c \notin Elems(blocked[w]) /\ blocked[w] \in Seq(Jobs) /\ Distinct(blocked[w])
    BY <1>0, <1>1 DEF WorkerHolds, Hands, TypeOK, SchedInv, ListsHold
  <1>3. PICK b : b = <<c>> \o blocked[w]
    OBVIOUS
  <1>4. b \in Seq(Jobs) /\ Distinct(b) /\ Elems(b) = Elems(blocked[w]) \cup {c}
    BY <1>1, <1>2, <1>3, ConsElems
  <1>5. blocked' = [blocked EXCEPT ![w] = b]
    BY <1>0, <1>3 DEF PushBlocked
  <1>6. TypeOK'
    <2>1. pc' \in [Workers -> PCs]
      BY <1>1 DEF TypeOK, PCs
    <2>2. blocked' \in [Workers -> Seq(Jobs)]
      BY <1>1, <1>4, <1>5 DEF TypeOK
    <2>3. QED
      BY <1>1, <2>1, <2>2 DEF TypeOK
  <1>7. ListsHold'
    <2>1. QueuesHold(rq', inRq', owner')
      BY <1>1 DEF SchedInv, ListsHold
    <2>2. ASSUME NEW v \in Workers PROVE Distinct(blocked'[v]) /\ Distinct(rest'[v])
      BY <1>1, <1>4, <1>5 DEF SchedInv, ListsHold, TypeOK
    <2>3. QED
      BY <1>1, <2>1, <2>2 DEF SchedInv, ListsHold
  <1>8. ASSUME NEW j \in Jobs PROVE JobHolds(j)'
    <2>1. JobHolds(j) /\ JobHolds(c) /\ owner[j] \in Workers
      BY <1>1 DEF SchedInv, TypeOK
    <2>2. owner[c] = w /\ jstate[c] = "new" /\ fiber[c] # "ret" /\ claim[c] # 1
      BY <1>0, <1>1, <2>1 DEF JobHolds, Kept, InHand
    <2>3. CASE j = c
      BY <1>0, <1>1, <1>2, <1>4, <1>5, <2>1, <2>2, <2>3 DEF JobHolds, Kept, InHand, TypeOK
    <2>4. CASE j # c
      <3>1. \A v \in Workers : InHand(j, v)' <=> InHand(j, v)
        BY <1>0, <1>1, <2>4 DEF InHand, TypeOK
      <3>2. \A v \in Workers : j \in Elems(blocked'[v]) <=> j \in Elems(blocked[v])
        BY <1>1, <1>4, <1>5, <2>4 DEF TypeOK
      <3>3. \A v \in Workers : v # w => pc'[v] = pc[v]
        BY <1>1 DEF TypeOK
      <3>4. QED
        BY <1>0, <1>1, <2>1, <2>4, <3>1, <3>2, <3>3 DEF JobHolds, Kept
    <2>5. QED
      BY <2>3, <2>4
  <1>9. ASSUME NEW v \in Workers PROVE WorkerHolds(v)'
    <2>1. WorkerHolds(v)
      BY DEF SchedInv
    <2>2. CASE v = w
      <3>1. pc'[w] = "after" /\ blocked'[w] = b
        BY <1>1, <1>5 DEF TypeOK
      <3>2. QED
        BY <1>1, <1>2, <1>4, <2>1, <2>2, <3>1 DEF WorkerHolds, Hands
    <2>3. CASE v # w
      BY <1>1, <1>5, <2>1, <2>3 DEF WorkerHolds, TypeOK
    <2>4. QED
      BY <2>2, <2>3
  <1>10. QED
    BY <1>6, <1>7, <1>8, <1>9 DEF SchedInv

\* Leaving the blocked list (sched.c:438-450) keeps the invariant.
LEMMA Keeps_Unlink ==
  ASSUME SchedInv, NEW w \in Workers, Unlink(w)
  PROVE  SchedInv'
  <1> USE JobFacts
  <1>0. PICK c : c = cur[w]
    OBVIOUS
  <1>1. /\ pc[w] = "unlink" /\ TypeOK /\ WorkerHolds(w) /\ c \in Jobs
        /\ pc' = [pc EXCEPT ![w] = "fin"] /\ blocked' = [blocked EXCEPT ![w] = Without(@, c)]
        /\ UNCHANGED <<jstate, owner, result, arg, waiters, target, flags, inRq, claim, stack, fiber,
                       awaited, rq, suspended, freeStacks, shutdown, poolStarted, ownerRr, slk, cur,
                       oc, out, sweep, rest, ops>>
    BY <1>0 DEF Unlink, jobVars, poolVars, SchedInv, WorkerHolds, Hands
  <1>2. /\ sweep[w] # "none" /\ c \in Elems(blocked[w]) \ Elems(rest[w]) /\ blocked[w] \in Seq(Jobs)
        /\ Distinct(blocked[w])
    BY <1>0, <1>1 DEF WorkerHolds, Hands, TypeOK, SchedInv, ListsHold
  <1>3. PICK b : b = Without(blocked[w], c)
    OBVIOUS
  <1>4. b \in Seq(Jobs) /\ Distinct(b) /\ Elems(b) = Elems(blocked[w]) \ {c}
    BY <1>2, <1>3, WithoutElems
  <1>5. blocked' = [blocked EXCEPT ![w] = b]
    BY <1>1, <1>3
  <1>6. TypeOK'
    <2>1. pc' \in [Workers -> PCs]
      BY <1>1 DEF TypeOK, PCs
    <2>2. blocked' \in [Workers -> Seq(Jobs)]
      BY <1>1, <1>4, <1>5 DEF TypeOK
    <2>3. QED
      BY <1>1, <2>1, <2>2 DEF TypeOK
  <1>7. ListsHold'
    <2>1. QueuesHold(rq', inRq', owner')
      BY <1>1 DEF SchedInv, ListsHold
    <2>2. ASSUME NEW v \in Workers PROVE Distinct(blocked'[v]) /\ Distinct(rest'[v])
      BY <1>1, <1>4, <1>5 DEF SchedInv, ListsHold, TypeOK
    <2>3. QED
      BY <1>1, <2>1, <2>2 DEF SchedInv, ListsHold
  <1>8. ASSUME NEW j \in Jobs PROVE JobHolds(j)'
    <2>1. JobHolds(j) /\ JobHolds(c) /\ owner[j] \in Workers
      BY <1>1 DEF SchedInv, TypeOK
    <2>2. owner[c] = w /\ jstate[c] = "new"
      BY <1>0, <1>1, <2>1 DEF JobHolds, Kept, InHand
    <2>3. \A v \in Workers : InHand(j, v)' <=> InHand(j, v)
      BY <1>0, <1>1 DEF InHand, TypeOK
    <2>4. \A v \in Workers : v # w => pc'[v] = pc[v]
      BY <1>1 DEF TypeOK
    <2>5. pc'[w] = "fin"
      BY <1>1 DEF TypeOK
    <2>6. \A v \in Workers : j \in Elems(blocked'[v]) <=> j \in Elems(blocked[v]) /\ (v = w => j # c)
      BY <1>1, <1>4, <1>5 DEF TypeOK
    <2>7. CASE j = c
      <3>1. InHand(j, w)
        BY <1>0, <1>1, <2>7 DEF InHand
      <3>2. QED
        BY <1>0, <1>1, <1>2, <2>1, <2>2, <2>3, <2>5, <2>6, <2>7, <3>1 DEF JobHolds, Kept
    <2>8. CASE j # c
      BY <1>0, <1>1, <2>1, <2>3, <2>4, <2>5, <2>6, <2>8 DEF JobHolds, Kept
    <2>9. QED
      BY <2>7, <2>8
  <1>9. ASSUME NEW v \in Workers PROVE WorkerHolds(v)'
    <2>1. WorkerHolds(v)
      BY DEF SchedInv
    <2>2. CASE v = w
      <3>1. pc'[w] = "fin" /\ blocked'[w] = b
        BY <1>1, <1>5 DEF TypeOK
      <3>2. oc[w] # 3
        BY <1>1 DEF WorkerHolds
      <3>3. QED
        BY <1>0, <1>1, <1>2, <1>4, <2>1, <2>2, <3>1, <3>2 DEF WorkerHolds, Hands
    <2>3. CASE v # w
      BY <1>1, <1>5, <2>1, <2>3 DEF WorkerHolds, TypeOK
    <2>4. QED
      BY <2>2, <2>3
  <1>10. QED
    BY <1>6, <1>7, <1>8, <1>9 DEF SchedInv

\* The pop loop (sched.c:478-487) keeps the invariant.
LEMMA Keeps_Pop ==
  ASSUME NJobs <= RQCap, SchedInv, NEW w \in Workers, Pop(w)
  PROVE  SchedInv'
  <1> USE JobFacts
  <1>1. /\ pc[w] \in {"loop", "pop"} /\ pc[w] \notin Hands /\ TypeOK
        /\ UNCHANGED <<owner, claim, fiber, awaited, blocked, poolStarted, ownerRr, oc, out, sweep, rest, ops>>
    BY DEF Pop, Hands, SchedInv
  <1>2. sweep[w] = "none" /\ rest[w] = <<>>
    BY <1>1 DEF SchedInv, WorkerHolds, Hands
  <1>3. CASE rq[w] = <<>>
    <2>1. /\ pc' = [pc EXCEPT ![w] = "nojob"] /\ slk' = None
          /\ UNCHANGED <<jstate, result, arg, waiters, target, flags, inRq, stack, rq, suspended, freeStacks, shutdown, cur>>
      BY <1>3 DEF Pop
    <2>2. TypeOK'
      <3>1. pc' \in [Workers -> PCs]
        BY <1>1, <2>1 DEF TypeOK, PCs
      <3>2. QED
        BY <1>1, <2>1, <3>1 DEF TypeOK
    <2>3. ListsHold'
      BY <1>1, <2>1 DEF SchedInv, ListsHold
    <2>4. /\ pc'[w] = "nojob" /\ \A v \in Workers : v # w => pc'[v] = pc[v]
      BY <1>1, <2>1 DEF TypeOK
    <2>5. ASSUME NEW j \in Jobs PROVE JobHolds(j)'
      <3>1. JobHolds(j) /\ owner[j] \in Workers
        BY <1>1 DEF SchedInv, TypeOK
      <3>2. \A v \in Workers : InHand(j, v)' <=> InHand(j, v)
        BY <1>1, <2>1, <2>4 DEF InHand
      <3>3. Kept(j)' <=> Kept(j)
        BY <1>1, <2>1, <3>1, <3>2 DEF Kept
      <3>4. QED
        BY <1>1, <2>1, <2>4, <3>1, <3>2, <3>3 DEF JobHolds
    <2>6. ASSUME NEW v \in Workers PROVE WorkerHolds(v)'
      <3>1. WorkerHolds(v)
        BY DEF SchedInv
      <3>2. CASE v = w
        BY <1>1, <1>2, <2>1, <2>4, <3>1, <3>2 DEF WorkerHolds, Hands
      <3>3. CASE v # w
        BY <1>1, <2>1, <2>4, <3>1, <3>3 DEF WorkerHolds
      <3>4. QED
        BY <3>2, <3>3
    <2>7. QED
      BY <2>2, <2>3, <2>5, <2>6 DEF SchedInv
  <1>4. CASE rq[w] # <<>>
    <2>1. PICK c : c = Head(rq[w])
      OBVIOUS
    <2>2. PICK q : q = [rq EXCEPT ![w] = Tail(@)]
      OBVIOUS
    <2>3. PICK ir : ir = [inRq EXCEPT ![c] = 0]
      OBVIOUS
    <2>4. /\ c \in Jobs /\ inRq[c] = 1 /\ owner[c] = w /\ QueuesHold(q, ir, owner)
          /\ \A j \in Jobs : ir[j] = IF j = c THEN 0 ELSE inRq[j]
          /\ jstate[c] = "new" /\ target[c] = None /\ "held" \notin flags[c] /\ ~Kept(c)
      <3>1. Popped(c, w, q, ir)
        BY <1>4, <2>1, <2>2, <2>3, PopQueue
      <3>2. QED
        BY <3>1 DEF Popped
    <2>5. /\ claim[c] = 0 /\ fiber[c] # "ret"
          /\ \A v \in Workers : ~InHand(c, v) /\ c \notin Elems(blocked[v])
      BY <2>4, NotKept
    <2>6. \/ /\ job_cancel_now(c, q, ir, waiters, target)
             /\ pc' = [pc EXCEPT ![w] = "pop"] /\ slk' = w /\ UNCHANGED <<flags, suspended, cur>>
          \/ /\ Hold(c) /\ rq' = q /\ inRq' = ir
             /\ pc' = [pc EXCEPT ![w] = "pop"] /\ slk' = w
             /\ UNCHANGED <<jstate, result, arg, waiters, target, stack, freeStacks, shutdown, cur>>
          \/ /\ rq' = q /\ inRq' = ir /\ cur' = [cur EXCEPT ![w] = c]
             /\ pc' = [pc EXCEPT ![w] = "resume"] /\ slk' = None
             /\ UNCHANGED <<jstate, result, arg, waiters, target, flags, stack, suspended, freeStacks, shutdown>>
      BY <1>4, <2>1, <2>2, <2>3 DEF Pop
    <2>7. ASSUME pc' = [pc EXCEPT ![w] = "pop"], cur' = cur,
                 \A j \in Jobs : j # c => flags'[j] = flags[j]
          PROVE  Frame(c) /\ pc' \in [Workers -> PCs]
      <3>1. pc' \in [Workers -> PCs]
        BY <1>1, <2>7 DEF TypeOK, PCs
      <3>2. ASSUME NEW v \in Workers
            PROVE  IF pc[v] \in Hands /\ cur[v] # c
                     THEN pc'[v] = pc[v]
                     ELSE pc'[v] \notin Hands /\ (pc'[v] = "poll" <=> sweep[v] # "none")
        <4>1. CASE v = w
          <5>1. pc'[v] = "pop"
            BY <1>1, <2>7, <4>1 DEF TypeOK
          <5>2. QED
            BY <1>1, <1>2, <4>1, <5>1 DEF Hands
        <4>2. CASE v # w
          <5>1. pc'[v] = pc[v]
            BY <1>1, <2>7, <4>2 DEF TypeOK
          <5>2. ~(pc[v] \in Hands /\ cur[v] = c)
            BY <2>5 DEF InHand, Hands
          <5>3. pc[v] \notin Hands => (pc[v] = "poll" <=> sweep[v] # "none")
            BY DEF SchedInv, WorkerHolds, Hands
          <5>4. QED
            BY <5>1, <5>2, <5>3
        <4>3. QED
          BY <4>1, <4>2
      <3>3. QED
        BY <1>1, <2>5, <2>7, <3>1, <3>2 DEF Frame
    <2>8. CASE /\ job_cancel_now(c, q, ir, waiters, target)
               /\ pc' = [pc EXCEPT ![w] = "pop"] /\ slk' = w /\ UNCHANGED <<flags, suspended, cur>>
      <3>1. flags' = flags /\ suspended' = suspended /\ cur' = cur
        BY <2>8
      <3>2. Frame(c) /\ pc' \in [Workers -> PCs]
        BY <2>7, <2>8, <3>1
      <3>3. freeStacks' \in Seq(1 .. NStacks) /\ stack' \in [Jobs -> 0 .. NStacks]
        BY <1>1, <2>4, <2>8, CancelTyped
      <3>4. PICK v \in Values : complete_job(c, v, q, ir, waiters, target)
        BY <1>1, <2>4, <2>8, CancelTyped
      <3>5. MoveTyped
        BY <1>1, <2>8, <3>1, <3>2, <3>3 DEF MoveTyped, TypeOK
      <3>6. Taken(c, q, ir, waiters, target)
        BY <1>1, <2>4 DEF SchedInv, ListsHold, TypeOK, Taken
      <3>7. /\ owner' = owner /\ Distinct(suspended') /\ Elems(suspended') = Elems(suspended) \ {c}
        BY <1>1, <2>4, <3>1 DEF SchedInv, ListsHold
      <3>8. QED
        BY <2>4, <2>5, <3>2, <3>4, <3>5, <3>6, <3>7, KeepsComplete
    <2>9. CASE /\ Hold(c) /\ rq' = q /\ inRq' = ir
               /\ pc' = [pc EXCEPT ![w] = "pop"] /\ slk' = w
               /\ UNCHANGED <<jstate, result, arg, waiters, target, stack, freeStacks, shutdown, cur>>
      <3>1. flags' \in [Jobs -> SUBSET FlagSet] /\ suspended' \in Seq(Jobs)
            /\ \A j \in Jobs : j # c => flags'[j] = flags[j]
        BY <1>1, <2>4, <2>9, HoldTyped
      <3>2. Frame(c) /\ pc' \in [Workers -> PCs]
        BY <2>7, <2>9, <3>1
      <3>3. MoveTyped
        BY <1>1, <2>9, <3>1, <3>2 DEF MoveTyped, TypeOK
      <3>4. arg' \in [Jobs -> Values]
        BY <1>1, <2>9 DEF TypeOK
      <3>5. /\ owner' = owner /\ QueuesHold(rq', inRq', owner) /\ inRq'[c] = 0
            /\ \A j \in Jobs : j # c => inRq'[j] = inRq[j]
        BY <1>1, <2>4, <2>9
      <3>6. jstate' = jstate /\ target' = target /\ waiters' = waiters /\ result' = result /\ shutdown' = shutdown
        BY <2>9
      <3>7. Hold(c)
        BY <2>9
      <3>8. QED
        BY <2>4, <2>5, <3>2, <3>3, <3>4, <3>5, <3>6, <3>7, KeepsHold
    <2>10. CASE /\ rq' = q /\ inRq' = ir /\ cur' = [cur EXCEPT ![w] = c]
                /\ pc' = [pc EXCEPT ![w] = "resume"] /\ slk' = None
                /\ UNCHANGED <<jstate, result, arg, waiters, target, flags, stack, suspended, freeStacks, shutdown>>
      <3>1. /\ pc'[w] = "resume" /\ cur'[w] = c /\ \A v \in Workers : v # w => pc'[v] = pc[v] /\ cur'[v] = cur[v]
        BY <1>1, <2>10 DEF TypeOK
      <3>2. TypeOK'
        <4>1. pc' \in [Workers -> PCs]
          BY <1>1, <2>10 DEF TypeOK, PCs
        <4>2. cur' \in [Workers -> Jobs \cup {None}]
          BY <1>1, <2>4, <2>10 DEF TypeOK
        <4>3. rq' \in [Workers -> Seq(Jobs)] /\ inRq' \in [Jobs -> {0, 1}]
          BY <2>4, <2>10 DEF QueuesHold
        <4>4. QED
          BY <1>1, <2>10, <4>1, <4>2, <4>3 DEF TypeOK
      <3>3. ListsHold'
        <4>1. QueuesHold(rq', inRq', owner')
          BY <1>1, <2>4, <2>10
        <4>2. QED
          BY <1>1, <2>10, <4>1 DEF SchedInv, ListsHold
      <3>4. ASSUME NEW j \in Jobs PROVE JobHolds(j)'
        <4>1. JobHolds(j) /\ owner[j] \in Workers
          BY <1>1 DEF SchedInv, TypeOK
        <4>2. CASE j = c
          <5>1. InHand(c, w)' /\ \A v \in Workers : InHand(c, v)' \/ c \in Elems(blocked'[v]) => v = w
            BY <1>1, <2>5, <3>1 DEF InHand
          <5>2. Kept(c)'
            BY <1>1, <2>4, <5>1 DEF Kept
          <5>3. inRq'[c] = 0 /\ claim'[c] = 0 /\ owner'[c] = w /\ fiber'[c] # "ret"
            BY <1>1, <2>4, <2>5, <2>10
          <5>4. QED
            BY <2>4, <2>10, <4>1, <4>2, <5>1, <5>2, <5>3 DEF JobHolds
        <4>3. CASE j # c
          <5>1. \A v \in Workers : InHand(j, v)' <=> InHand(j, v)
            BY <1>1, <3>1, <4>3 DEF InHand, Hands
          <5>2. Kept(j)' <=> Kept(j)
            BY <1>1, <4>1, <5>1 DEF Kept
          <5>3. inRq'[j] = inRq[j]
            BY <2>4, <2>10, <4>3
          <5>4. owner[j] = w => claim[j] # 1 /\ ~(fiber[j] = "ret" /\ jstate[j] = "new")
            BY <1>1, <4>1 DEF JobHolds
          <5>5. QED
            BY <1>1, <2>10, <3>1, <4>1, <5>1, <5>2, <5>3, <5>4 DEF JobHolds
        <4>4. QED
          BY <4>2, <4>3
      <3>5. ASSUME NEW v \in Workers PROVE WorkerHolds(v)'
        <4>1. WorkerHolds(v)
          BY DEF SchedInv
        <4>2. CASE v = w
          BY <1>1, <1>2, <2>4, <2>5, <2>10, <3>1, <4>1, <4>2 DEF WorkerHolds, Hands
        <4>3. CASE v # w
          BY <1>1, <2>10, <3>1, <4>1, <4>3 DEF WorkerHolds
        <4>4. QED
          BY <4>2, <4>3
      <3>6. QED
        BY <3>2, <3>3, <3>4, <3>5 DEF SchedInv
    <2>11. QED
      BY <2>6, <2>8, <2>9, <2>10
  <1>5. QED
    BY <1>3, <1>4

\* finish_job_outcome (sched.c:384-423) keeps the invariant.
LEMMA Keeps_finish_job_outcome ==
  ASSUME NJobs <= RQCap, SchedInv, NEW w \in Workers, finish_job_outcome(w)
  PROVE  SchedInv'
  <1> USE JobFacts
  <1>1. PICK c : c = cur[w]
    OBVIOUS
  <1>2. PICK t : t = out[w]
    OBVIOUS
  <1>3. /\ pc[w] = "fin" /\ pc[w] \in Hands /\ oc[w] # 3 /\ TypeOK /\ ListsHold /\ WorkerHolds(w)
        /\ owner' = owner /\ claim' = claim /\ fiber' = fiber /\ awaited' = awaited /\ blocked' = blocked
        /\ poolStarted' = poolStarted /\ ownerRr' = ownerRr /\ slk' = slk /\ cur' = cur /\ oc' = oc
        /\ out' = out /\ sweep' = sweep /\ rest' = rest /\ ops' = ops
        /\ pc' = [pc EXCEPT ![w] = IF sweep[w] = "none" THEN "after" ELSE "poll"]
    BY DEF finish_job_outcome, Hands, SchedInv
  <1>4. /\ c \in Jobs /\ jstate[c] = "new" /\ inRq[c] = 0 /\ target[c] = None /\ "held" \notin flags[c]
        /\ owner[c] = w /\ claim[c] = 0 /\ (fiber[c] = "ret" => oc[w] = 0)
        /\ \A v \in Workers : pc[v] \in Hands /\ cur[v] = c => v = w
        /\ \A v \in Workers : c \in Elems(blocked[v]) => v = w
    BY <1>1, <1>3, HandFacts
  <1>5. /\ oc[w] # 2 /\ c \notin Elems(blocked[w])
        /\ oc[w] = 0 => t \in Jobs
        /\ oc[w] = 1 /\ t \in Jobs => jstate[t] # "none"
    BY <1>1, <1>2, <1>3 DEF WorkerHolds
  <1>6. pc' \in [Workers -> PCs]
    BY <1>3 DEF TypeOK, PCs
  <1>7. ASSUME \A j \in Jobs : j # c => flags'[j] = flags[j]
        PROVE  Frame(c)
    <2>1. ASSUME NEW v \in Workers
          PROVE  IF pc[v] \in Hands /\ cur[v] # c
                   THEN pc'[v] = pc[v]
                   ELSE pc'[v] \notin Hands /\ (pc'[v] = "poll" <=> sweep[v] # "none")
      <3>1. CASE v = w
        <4>1. pc'[v] = IF sweep[w] = "none" THEN "after" ELSE "poll"
          BY <1>3, <3>1 DEF TypeOK
        <4>2. QED
          BY <1>1, <3>1, <4>1 DEF Hands
      <3>2. CASE v # w
        <4>1. pc'[v] = pc[v]
          BY <1>3, <3>2 DEF TypeOK
        <4>2. ~(pc[v] \in Hands /\ cur[v] = c)
          BY <1>4, <3>2
        <4>3. pc[v] \notin Hands => (pc[v] = "poll" <=> sweep[v] # "none")
          BY DEF SchedInv, WorkerHolds, Hands
        <4>4. QED
          BY <4>1, <4>2, <4>3
      <3>3. QED
        BY <3>1, <3>2
    <2>2. \A v \in Workers : c \notin Elems(blocked[v])
      BY <1>4, <1>5
    <2>3. QED
      BY <1>3, <1>7, <2>1, <2>2 DEF Frame
  <1>8. Taken(c, rq, inRq, waiters, target)
    BY <1>3, <1>4 DEF ListsHold, TypeOK, Taken
  <1>9. Distinct(suspended) /\ Elems(suspended) = Elems(suspended) \ {c}
    BY <1>3, <1>4 DEF ListsHold
  <1>10. ASSUME job_cancel_now(c, rq, inRq, waiters, target), UNCHANGED <<flags, suspended>>
         PROVE  SchedInv'
    <2>1. flags' = flags /\ suspended' = suspended
      BY <1>10
    <2>2. freeStacks' \in Seq(1 .. NStacks) /\ stack' \in [Jobs -> 0 .. NStacks]
      BY <1>3, <1>4, <1>10, CancelTyped
    <2>3. PICK v \in Values : complete_job(c, v, rq, inRq, waiters, target)
      BY <1>3, <1>4, <1>10, CancelTyped
    <2>4. MoveTyped
      BY <1>3, <1>6, <2>1, <2>2 DEF MoveTyped, TypeOK
    <2>5. Frame(c)
      BY <1>7, <2>1
    <2>6. Distinct(suspended') /\ Elems(suspended') = Elems(suspended) \ {c} /\ owner' = owner
      BY <1>3, <1>9, <2>1
    <2>7. QED
      BY <1>4, <1>8, <2>3, <2>4, <2>5, <2>6, KeepsComplete
  <1>11. ASSUME oc[w] = 1, NEW v \in Values, arg' = [arg EXCEPT ![c] = v], PushAll(<<c>>, rq, inRq),
                UNCHANGED <<jstate, result, waiters, target, flags, stack, suspended, freeStacks, shutdown>>
         PROVE  SchedInv'
    <2>1. /\ jstate' = jstate /\ result' = result /\ waiters' = waiters /\ target' = target /\ flags' = flags
          /\ stack' = stack /\ suspended' = suspended /\ freeStacks' = freeStacks /\ shutdown' = shutdown
      BY <1>11
    <2>2. MoveTyped
      BY <1>3, <1>6, <2>1 DEF MoveTyped, TypeOK
    <2>3. Frame(c)
      BY <1>7, <2>1
    <2>4. arg' \in [Jobs -> Values]
      BY <1>3, <1>11 DEF TypeOK
    <2>5. fiber[c] # "ret" /\ "held" \notin flags'[c]
      BY <1>4, <1>11, <2>1
    <2>6. Distinct(suspended') /\ Elems(suspended') = Elems(suspended) \ {c} /\ owner' = owner
      BY <1>3, <1>9, <2>1
    <2>7. QED
      BY <1>4, <1>11, <2>1, <2>2, <2>3, <2>4, <2>5, <2>6, KeepsQueue
  <1>12. CASE oc[w] = 0
    <2>1. /\ release_task_stack(c) /\ complete_job(c, t, rq, inRq, waiters, target)
          /\ flags' = flags /\ stack' = stack /\ suspended' = suspended
      BY <1>1, <1>2, <1>12 DEF finish_job_outcome
    <2>2. freeStacks' \in Seq(1 .. NStacks)
      BY <1>3, <1>4, <2>1, ReleaseTyped
    <2>3. t \in Values
      BY <1>5, <1>12 DEF Values
    <2>4. MoveTyped
      BY <1>3, <1>6, <2>1, <2>2 DEF MoveTyped, TypeOK
    <2>5. Frame(c)
      BY <1>7, <2>1
    <2>6. Distinct(suspended') /\ Elems(suspended') = Elems(suspended) \ {c} /\ owner' = owner
      BY <1>3, <1>9, <2>1
    <2>7. QED
      BY <1>4, <1>8, <2>1, <2>3, <2>4, <2>5, <2>6, KeepsComplete
  <1>13. CASE oc[w] = 1 /\ t = Prime
    <2>1. /\ arg' = [arg EXCEPT ![c] = Nil] /\ PushAll(<<c>>, rq, inRq)
          /\ UNCHANGED <<jstate, result, waiters, target, flags, stack, suspended, freeStacks, shutdown>>
      BY <1>1, <1>2, <1>13 DEF finish_job_outcome, Prime, Ctl
    <2>2. Nil \in Values
      BY DEF Values
    <2>3. QED
      BY <1>11, <1>13, <2>1, <2>2
  <1>14. CASE oc[w] = 1 /\ t = Ctl
    <2>1. \/ job_cancel_now(c, rq, inRq, waiters, target) /\ UNCHANGED <<flags, suspended>>
          \/ /\ Hold(c) /\ arg' = [arg EXCEPT ![c] = Nil]
             /\ UNCHANGED <<jstate, result, waiters, target, inRq, stack, rq, freeStacks, shutdown>>
          \/ /\ arg' = [arg EXCEPT ![c] = Nil] /\ PushAll(<<c>>, rq, inRq)
             /\ UNCHANGED <<jstate, result, waiters, target, flags, stack, suspended, freeStacks, shutdown>>
      BY <1>1, <1>2, <1>14 DEF finish_job_outcome, Prime, Ctl
    <2>2. Nil \in Values
      BY DEF Values
    <2>3. CASE /\ Hold(c) /\ arg' = [arg EXCEPT ![c] = Nil]
               /\ UNCHANGED <<jstate, result, waiters, target, inRq, stack, rq, freeStacks, shutdown>>
      <3>1. /\ jstate' = jstate /\ result' = result /\ waiters' = waiters /\ target' = target /\ inRq' = inRq
            /\ stack' = stack /\ rq' = rq /\ freeStacks' = freeStacks /\ shutdown' = shutdown /\ Hold(c)
        BY <2>3
      <3>2. flags' \in [Jobs -> SUBSET FlagSet] /\ suspended' \in Seq(Jobs)
            /\ \A j \in Jobs : j # c => flags'[j] = flags[j]
        BY <1>3, <1>4, <3>1, HoldTyped
      <3>3. Frame(c)
        BY <1>7, <3>2
      <3>4. MoveTyped
        BY <1>3, <1>6, <3>1, <3>2 DEF MoveTyped, TypeOK
      <3>5. arg' \in [Jobs -> Values]
        BY <1>3, <2>2, <2>3 DEF TypeOK
      <3>6. /\ owner' = owner /\ QueuesHold(rq', inRq', owner) /\ inRq'[c] = 0 /\ fiber[c] # "ret"
            /\ \A j \in Jobs : j # c => inRq'[j] = inRq[j]
        BY <1>3, <1>4, <1>14, <3>1 DEF ListsHold
      <3>7. QED
        BY <1>4, <3>1, <3>3, <3>4, <3>5, <3>6, KeepsHold
    <2>4. QED
      BY <1>10, <1>11, <1>14, <2>1, <2>2, <2>3
  <1>15. CASE oc[w] = 1 /\ t \in Jobs
    <2>1. \/ job_cancel_now(c, rq, inRq, waiters, target) /\ UNCHANGED <<flags, suspended>>
          \/ /\ arg' = [arg EXCEPT ![c] = IF t = c THEN Nil ELSE result[t]] /\ PushAll(<<c>>, rq, inRq)
             /\ UNCHANGED <<jstate, result, waiters, target, flags, stack, suspended, freeStacks, shutdown>>
          \/ /\ ~AnswerNow(c, t) /\ waiters' = [waiters EXCEPT ![t] = <<c>> \o @]
             /\ target' = [target EXCEPT ![c] = t]
             /\ UNCHANGED <<jstate, result, arg, flags, inRq, stack, rq, suspended, freeStacks, shutdown>>
      BY <1>1, <1>2, <1>15 DEF finish_job_outcome
    <2>2. (IF t = c THEN Nil ELSE result[t]) \in Values
      BY <1>3, <1>15 DEF Values, TypeOK
    <2>3. CASE /\ ~AnswerNow(c, t) /\ waiters' = [waiters EXCEPT ![t] = <<c>> \o @]
               /\ target' = [target EXCEPT ![c] = t]
               /\ UNCHANGED <<jstate, result, arg, flags, inRq, stack, rq, suspended, freeStacks, shutdown>>
      <3>1. /\ jstate' = jstate /\ result' = result /\ arg' = arg /\ flags' = flags /\ inRq' = inRq
            /\ stack' = stack /\ rq' = rq /\ suspended' = suspended /\ freeStacks' = freeStacks /\ shutdown' = shutdown
        BY <2>3
      <3>2. jstate[t] = "new" /\ t # c
        BY <1>3, <1>5, <1>15, <2>3 DEF AnswerNow, TypeOK
      <3>3. target' \in [Jobs -> Jobs \cup {None}] /\ target'[c] = t /\ \A j \in Jobs : j # c => target'[j] = target[j]
        BY <1>3, <1>4, <1>15, <2>3 DEF TypeOK
      <3>4. PICK s : s = <<c>> \o waiters[t]
        OBVIOUS
      <3>5. /\ waiters[t] \in Seq(Jobs) /\ Distinct(waiters[t]) /\ c \notin Elems(waiters[t])
            /\ Elems(waiters[t]) = {j \in Jobs : target[j] = t}
        <4>1. waiters[t] \in Seq(Jobs)
          BY <1>3, <1>15 DEF TypeOK
        <4>2. Distinct(waiters[t]) /\ Elems(waiters[t]) = {j \in Jobs : target[j] = t}
          BY <1>3, <1>15 DEF ListsHold
        <4>3. target[c] # t
          BY <1>4, <1>15
        <4>4. QED
          BY <4>1, <4>2, <4>3
      <3>6. s \in Seq(Jobs) /\ Distinct(s) /\ Elems(s) = Elems(waiters[t]) \cup {c}
        BY <1>4, <3>4, <3>5, ConsElems
      <3>7. waiters' = [waiters EXCEPT ![t] = s]
        BY <2>3, <3>4
      <3>8. waiters' \in [Jobs -> Seq(Jobs)] /\ waiters'[t] = s /\ \A k \in Jobs : k # t => waiters'[k] = waiters[k]
        BY <1>3, <1>15, <3>6, <3>7 DEF TypeOK
      <3>9. TypeOK'
        BY <1>3, <1>6, <3>1, <3>3, <3>8 DEF TypeOK
      <3>10. ListsHold'
        <4>1. ASSUME NEW k \in Jobs
              PROVE  Distinct(waiters'[k]) /\ Elems(waiters'[k]) = {j \in Jobs : target'[j] = k}
          <5>1. CASE k = t
            <6>1. Distinct(waiters'[k]) /\ Elems(waiters'[k]) = Elems(waiters[t]) \cup {c}
              BY <3>6, <3>8, <5>1
            <6>2. \A j \in Jobs : target'[j] = t <=> target[j] = t \/ j = c
              BY <3>3
            <6>3. Elems(waiters[t]) \cup {c} = {j \in Jobs : target'[j] = t}
              BY <1>4, <3>5, <6>2
            <6>4. QED
              BY <5>1, <6>1, <6>3
          <5>2. CASE k # t
            <6>1. Distinct(waiters[k]) /\ Elems(waiters[k]) = {j \in Jobs : target[j] = k}
              BY <1>3 DEF ListsHold
            <6>2. \A j \in Jobs : target'[j] = k <=> target[j] = k
              BY <1>4, <3>3, <5>2
            <6>3. QED
              BY <3>8, <5>2, <6>1, <6>2
          <5>3. QED
            BY <5>1, <5>2
        <4>2. QED
          BY <1>3, <3>1, <4>1 DEF ListsHold
      <3>11. Moves(c)
        BY <1>7, <3>1, <3>3 DEF Moves
      <3>12. Placed(c)
        BY <1>4, <1>15, <3>1, <3>2, <3>3 DEF Placed
      <3>13. QED
        BY <1>4, <3>9, <3>10, <3>11, <3>12, KeepsMove
    <2>4. QED
      BY <1>10, <1>11, <1>15, <2>1, <2>2, <2>3
  <1>16. oc[w] \in 0 .. 3 /\ t \in Jobs \cup {0, Prime, Ctl}
    BY <1>2, <1>3 DEF TypeOK
  <1>17. QED
    BY <1>3, <1>5, <1>12, <1>13, <1>14, <1>15, <1>16

\* What a request of another job finds.
LEMMA RequestFacts ==
  ASSUME SchedInv, NEW w \in Workers, NEW k \in Jobs, Deliverable(w, k), UNCHANGED RequestOnly
  PROVE  /\ jstate[k] = "new" /\ TypeOK /\ ListsHold /\ ops' \in 0 .. MaxOps
         /\ owner' = owner /\ claim' = claim /\ fiber' = fiber /\ awaited' = awaited /\ blocked' = blocked
         /\ poolStarted' = poolStarted /\ ownerRr' = ownerRr /\ slk' = slk /\ pc' = pc /\ cur' = cur
         /\ oc' = oc /\ out' = out /\ sweep' = sweep /\ rest' = rest
  <1>1. jstate[k] = "new" /\ ops < MaxOps /\ ops' = ops + 1
    BY DEF Deliverable, Live, Op
  <1>2. TypeOK /\ ListsHold
    BY DEF SchedInv
  <1>3. ops' \in 0 .. MaxOps
    BY <1>1, <1>2, SchedAssumption DEF TypeOK, SchedAssumption
  <1>4. QED
    BY <1>1, <1>2, <1>3 DEF RequestOnly, wVars

\* A job that nobody has in hand and no VM wait keeps is moved by a request.
LEMMA RequestFrame ==
  ASSUME SchedInv, NEW k \in Jobs, ~Kept(k), pc' = pc, owner' = owner,
         claim' = claim, fiber' = fiber, blocked' = blocked, cur' = cur,
         oc' = oc, out' = out, sweep' = sweep, rest' = rest,
         \A j \in Jobs : j # k => flags'[j] = flags[j]
  PROVE  Frame(k)
  <1>1. \A v \in Workers : ~InHand(k, v) /\ k \notin Elems(blocked[v])
    BY NotKept
  <1>2. ASSUME NEW v \in Workers
        PROVE  IF pc[v] \in Hands /\ cur[v] # k
                 THEN pc'[v] = pc[v]
                 ELSE pc'[v] \notin Hands /\ (pc'[v] = "poll" <=> sweep[v] # "none")
    <2>1. ~(pc[v] \in Hands /\ cur[v] = k)
      BY <1>1 DEF InHand, Hands
    <2>2. pc[v] \notin Hands => (pc[v] = "poll" <=> sweep[v] # "none")
      BY DEF SchedInv, WorkerHolds, Hands
    <2>3. QED
      BY <2>1, <2>2
  <1>3. QED
    BY <1>1, <1>2 DEF Frame

\* jacl_suspend (sched.c:785-787) keeps the invariant.
LEMMA Keeps_jacl_suspend ==
  ASSUME SchedInv, NEW w \in Workers, jacl_suspend(w)
  PROVE  SchedInv'
  <1>1. PICK k \in Jobs :
          /\ Deliverable(w, k) /\ flags' = [flags EXCEPT ![k] = @ \cup {"suspend"}]
          /\ UNCHANGED <<jstate, result, arg, waiters, target, inRq, stack, rq, suspended, freeStacks, shutdown>>
          /\ UNCHANGED RequestOnly
    BY DEF jacl_suspend
  <1>2. /\ jstate[k] = "new" /\ TypeOK /\ ListsHold /\ ops' \in 0 .. MaxOps
        /\ UNCHANGED <<owner, claim, fiber, awaited, blocked, poolStarted, ownerRr, slk, pc, cur, oc, out, sweep, rest>>
    BY <1>1, RequestFacts
  <1>3. /\ flags' \in [Jobs -> SUBSET FlagSet] /\ \A j \in Jobs : j # k => flags'[j] = flags[j]
        /\ "held" \in flags'[k] <=> "held" \in flags[k]
    BY <1>1, <1>2 DEF TypeOK, FlagSet
  <1>4. TypeOK'
    BY <1>1, <1>2, <1>3 DEF TypeOK
  <1>5. ListsHold'
    BY <1>1, <1>2, <1>3 DEF ListsHold
  <1>6. UNCHANGED <<jstate, target, RequestOnly>> /\ \A j \in Jobs : inRq'[j] = inRq[j]
    BY <1>1
  <1>7. QED
    BY <1>2, <1>3, <1>4, <1>5, <1>6, KeepsRequest

\* jacl_resume (sched.c:799-812) keeps the invariant.
LEMMA Keeps_jacl_resume ==
  ASSUME NJobs <= RQCap, SchedInv, NEW w \in Workers, jacl_resume(w)
  PROVE  SchedInv'
  <1> USE JobFacts
  <1>1. PICK k \in Jobs :
          /\ Deliverable(w, k) /\ flags' = [flags EXCEPT ![k] = @ \ {"suspend", "held"}]
          /\ suspended' = Without(suspended, k)
          /\ PushAll(IF "held" \in flags[k] THEN <<k>> ELSE <<>>, rq, inRq)
          /\ UNCHANGED <<jstate, result, arg, waiters, target, stack, freeStacks, shutdown>>
          /\ UNCHANGED RequestOnly
    BY DEF jacl_resume
  <1>2. /\ jstate[k] = "new" /\ TypeOK /\ ListsHold /\ ops' \in 0 .. MaxOps
        /\ owner' = owner /\ claim' = claim /\ fiber' = fiber /\ awaited' = awaited /\ blocked' = blocked
        /\ poolStarted' = poolStarted /\ ownerRr' = ownerRr /\ slk' = slk /\ pc' = pc /\ cur' = cur
        /\ oc' = oc /\ out' = out /\ sweep' = sweep /\ rest' = rest
    BY <1>1, RequestFacts
  <1>3. /\ jstate' = jstate /\ result' = result /\ arg' = arg /\ waiters' = waiters /\ target' = target
        /\ stack' = stack /\ freeStacks' = freeStacks /\ shutdown' = shutdown
    BY <1>1
  <1>4. /\ flags' \in [Jobs -> SUBSET FlagSet] /\ \A j \in Jobs : j # k => flags'[j] = flags[j]
        /\ "held" \notin flags'[k]
    BY <1>1, <1>2 DEF TypeOK
  <1>5. suspended \in Seq(Jobs) /\ Distinct(suspended)
    BY <1>2 DEF TypeOK, ListsHold
  <1>6. suspended' \in Seq(Jobs) /\ Distinct(suspended') /\ Elems(suspended') = Elems(suspended) \ {k}
    BY <1>1, <1>5, WithoutElems
  <1>7. CASE "held" \in flags[k]
    <2>1. PushAll(<<k>>, rq, inRq)
      BY <1>1, <1>7
    <2>2. JobHolds(k)
      BY DEF SchedInv
    <2>3. target[k] = None /\ ~Kept(k)
      BY <1>2, <1>7, <2>2 DEF JobHolds
    <2>4. claim[k] = 0 /\ fiber[k] # "ret"
      BY <1>2, <2>3, NotKept
    <2>5. Frame(k)
      BY <1>2, <1>4, <2>3, RequestFrame
    <2>6. MoveTyped
      BY <1>2, <1>3, <1>4, <1>6 DEF MoveTyped, TypeOK
    <2>7. arg' \in [Jobs -> Values]
      BY <1>2, <1>3 DEF TypeOK
    <2>8. QED
      BY <1>2, <1>3, <1>4, <1>6, <2>1, <2>3, <2>4, <2>5, <2>6, <2>7, KeepsQueue
  <1>8. CASE "held" \notin flags[k]
    <2>1. PushAll(<<>>, rq, inRq)
      BY <1>1, <1>8
    <2>2. QueuesHold(rq', inRq', owner) /\ \A j \in Jobs : inRq'[j] = inRq[j]
      <3>1. PICK s : s = <<>>
        OBVIOUS
      <3>2. s \in Seq(Jobs) /\ PushAll(s, rq, inRq) /\ Elems(s) = {}
        BY <2>1, <3>1 DEF Elems
      <3>3. owner \in [Jobs -> Workers] /\ QueuesHold(rq, inRq, owner)
        BY <1>2 DEF TypeOK, ListsHold
      <3>4. /\ QueuesHold(rq', inRq', owner)
            /\ \A j \in Jobs : inRq'[j] = IF j \in Elems(s) THEN 1 ELSE inRq[j]
        BY <3>2, <3>3, PushEffect
      <3>5. QED
        BY <3>2, <3>4
    <2>3. rq' \in [Workers -> Seq(Jobs)] /\ inRq' \in [Jobs -> {0, 1}]
      BY <2>2 DEF QueuesHold
    <2>4. TypeOK'
      BY <1>2, <1>3, <1>4, <1>6, <2>3 DEF TypeOK
    <2>5. ListsHold'
      <3>1. Elems(suspended) = {j \in Jobs : jstate[j] = "new" /\ "held" \in flags[j]}
        BY <1>2 DEF ListsHold
      <3>2. Elems(suspended') = {j \in Jobs : jstate[j] = "new" /\ "held" \in flags'[j]}
        BY <1>4, <1>6, <1>8, <3>1
      <3>3. QED
        BY <1>2, <1>3, <1>6, <2>2, <3>2 DEF ListsHold
    <2>6. UNCHANGED <<jstate, target, RequestOnly>> /\ ("held" \in flags'[k] <=> "held" \in flags[k])
      BY <1>1, <1>4, <1>8
    <2>7. QED
      BY <1>2, <1>4, <2>2, <2>4, <2>5, <2>6, KeepsRequest
  <1>9. QED
    BY <1>7, <1>8

\* jacl_cancel (sched.c:788-798) keeps the invariant.
LEMMA Keeps_jacl_cancel ==
  ASSUME NJobs <= RQCap, SchedInv, NEW w \in Workers, jacl_cancel(w)
  PROVE  SchedInv'
  <1> USE JobFacts
  <1>1. PICK k \in Jobs :
          /\ Deliverable(w, k) /\ flags' = [flags EXCEPT ![k] = @ \cup {"cancel"}]
          /\ UNCHANGED RequestOnly
          /\ \/ /\ "held" \in flags[k] /\ suspended' = Without(suspended, k)
                /\ job_cancel_now(k, rq, inRq, waiters, target)
             \/ /\ "held" \notin flags[k] /\ target[k] # None /\ suspended' = suspended
                /\ job_cancel_now(k, rq, inRq, [waiters EXCEPT ![target[k]] = Without(@, k)],
                                  [target EXCEPT ![k] = None])
             \/ UNCHANGED <<jstate, result, arg, waiters, target, inRq, stack, rq, suspended, freeStacks, shutdown>>
    BY DEF jacl_cancel
  <1>2. /\ jstate[k] = "new" /\ TypeOK /\ ListsHold /\ ops' \in 0 .. MaxOps
        /\ owner' = owner /\ claim' = claim /\ fiber' = fiber /\ awaited' = awaited /\ blocked' = blocked
        /\ poolStarted' = poolStarted /\ ownerRr' = ownerRr /\ slk' = slk /\ pc' = pc /\ cur' = cur
        /\ oc' = oc /\ out' = out /\ sweep' = sweep /\ rest' = rest
    BY <1>1, RequestFacts
  <1>3. /\ flags' \in [Jobs -> SUBSET FlagSet] /\ \A j \in Jobs : j # k => flags'[j] = flags[j]
        /\ "held" \in flags'[k] <=> "held" \in flags[k]
    BY <1>1, <1>2 DEF TypeOK, FlagSet
  <1>4. suspended \in Seq(Jobs) /\ Distinct(suspended) /\ JobHolds(k)
    BY <1>2 DEF TypeOK, ListsHold, SchedInv
  <1>5. ASSUME ~Kept(k), inRq[k] = 0, NEW ws, NEW tg, Taken(k, rq, inRq, ws, tg), job_cancel_now(k, rq, inRq, ws, tg),
               suspended' \in Seq(Jobs), Distinct(suspended'), Elems(suspended') = Elems(suspended) \ {k}
        PROVE  SchedInv'
    <2>1. claim[k] = 0
      BY <1>5, NotKept
    <2>2. Frame(k)
      BY <1>2, <1>3, <1>5, RequestFrame
    <2>3. freeStacks' \in Seq(1 .. NStacks) /\ stack' \in [Jobs -> 0 .. NStacks]
      BY <1>2, <1>5, CancelTyped
    <2>4. PICK v \in Values : complete_job(k, v, rq, inRq, ws, tg)
      BY <1>2, <1>5, CancelTyped
    <2>5. MoveTyped
      BY <1>2, <1>3, <1>5, <2>3 DEF MoveTyped, TypeOK
    <2>6. QED
      BY <1>2, <1>5, <2>1, <2>2, <2>4, <2>5, KeepsComplete
  <1>6. CASE /\ "held" \in flags[k] /\ suspended' = Without(suspended, k)
             /\ job_cancel_now(k, rq, inRq, waiters, target)
    <2>1. inRq[k] = 0 /\ target[k] = None /\ ~Kept(k)
      BY <1>2, <1>4, <1>6 DEF JobHolds
    <2>2. suspended' \in Seq(Jobs) /\ Distinct(suspended') /\ Elems(suspended') = Elems(suspended) \ {k}
      BY <1>4, <1>6, WithoutElems
    <2>3. Taken(k, rq, inRq, waiters, target)
      BY <1>2, <2>1 DEF ListsHold, TypeOK, Taken
    <2>4. QED
      BY <1>5, <1>6, <2>1, <2>2, <2>3
  <1>7. CASE /\ "held" \notin flags[k] /\ target[k] # None /\ suspended' = suspended
             /\ job_cancel_now(k, rq, inRq, [waiters EXCEPT ![target[k]] = Without(@, k)],
                               [target EXCEPT ![k] = None])
    <2>1. PICK t : t = target[k]
      OBVIOUS
    <2>2. inRq[k] = 0 /\ ~Kept(k)
      BY <1>2, <1>4, <1>7 DEF JobHolds
    <2>3. t \in Jobs /\ waiters \in [Jobs -> Seq(Jobs)] /\ target \in [Jobs -> Jobs \cup {None}]
      BY <1>2, <1>7, <2>1 DEF TypeOK
    <2>4. \A m \in Jobs : Distinct(waiters[m]) /\ Elems(waiters[m]) = {j \in Jobs : target[j] = m}
      BY <1>2 DEF ListsHold
    <2>5. PICK s : s = Without(waiters[t], k)
      OBVIOUS
    <2>6. s \in Seq(Jobs) /\ Distinct(s) /\ Elems(s) = Elems(waiters[t]) \ {k}
      <3>1. waiters[t] \in Seq(Jobs) /\ Distinct(waiters[t])
        BY <2>3, <2>4
      <3>2. QED
        BY <2>5, <3>1, WithoutElems
    <2>7. PICK ws, tg : ws = [waiters EXCEPT ![t] = s] /\ tg = [target EXCEPT ![k] = None]
      OBVIOUS
    <2>8. job_cancel_now(k, rq, inRq, ws, tg)
      BY <1>7, <2>1, <2>5, <2>7
    <2>9. /\ ws \in [Jobs -> Seq(Jobs)] /\ ws[t] = s /\ \A m \in Jobs : m # t => ws[m] = waiters[m]
      BY <2>3, <2>6, <2>7
    <2>10. /\ tg \in [Jobs -> Jobs \cup {None}] /\ tg[k] = None /\ \A j \in Jobs : j # k => tg[j] = target[j]
      BY <2>3, <2>7
    <2>11. ASSUME NEW m \in Jobs PROVE Distinct(ws[m]) /\ Elems(ws[m]) = {j \in Jobs : tg[j] = m}
      <3>1. CASE m = t
        <4>1. \A j \in Jobs : tg[j] = t <=> target[j] = t /\ j # k
          BY <2>3, <2>10
        <4>2. Elems(waiters[t]) \ {k} = {j \in Jobs : tg[j] = t}
          <5>1. Elems(waiters[t]) = {j \in Jobs : target[j] = t}
            BY <2>3, <2>4
          <5>2. QED
            BY <4>1, <5>1
        <4>3. QED
          BY <2>6, <2>9, <3>1, <4>2
      <3>2. CASE m # t
        <4>1. \A j \in Jobs : tg[j] = m <=> target[j] = m
          BY <2>1, <2>10, <3>2
        <4>2. QED
          BY <2>4, <2>9, <3>2, <4>1
      <3>3. QED
        BY <3>1, <3>2
    <2>12. Taken(k, rq, inRq, ws, tg)
      BY <1>2, <2>2, <2>9, <2>10, <2>11 DEF Taken, ListsHold
    <2>13. suspended' \in Seq(Jobs) /\ Distinct(suspended') /\ Elems(suspended') = Elems(suspended) \ {k}
      BY <1>2, <1>4, <1>7 DEF ListsHold
    <2>14. QED
      BY <1>5, <2>2, <2>8, <2>12, <2>13
  <1>8. CASE UNCHANGED <<jstate, result, arg, waiters, target, inRq, stack, rq, suspended, freeStacks, shutdown>>
    <2>1. TypeOK'
      BY <1>2, <1>3, <1>8 DEF TypeOK
    <2>2. ListsHold'
      BY <1>2, <1>3, <1>8 DEF ListsHold
    <2>3. UNCHANGED <<jstate, target, RequestOnly>> /\ \A j \in Jobs : inRq'[j] = inRq[j]
      BY <1>1, <1>8
    <2>4. QED
      BY <1>2, <1>3, <2>1, <2>2, <2>3, KeepsRequest
  <1>9. QED
    BY <1>1, <1>6, <1>7, <1>8

\* jacl_spawn (sched.c:619-632) keeps the invariant.
LEMMA Keeps_jacl_spawn ==
  ASSUME NJobs <= RQCap, SchedInv, NEW w \in Workers, jacl_spawn(w)
  PROVE  SchedInv'
  <1> USE JobFacts
  <1>1. PICK k \in Jobs :
          /\ jstate[k] = "none" /\ jstate' = [jstate EXCEPT ![k] = "new"]
          /\ owner' = [owner EXCEPT ![k] = ownerRr % NWorkers]
          /\ rq' = rq_push([q |-> rq, ir |-> inRq], k, ownerRr % NWorkers).q
          /\ inRq' = rq_push([q |-> rq, ir |-> inRq], k, ownerRr % NWorkers).ir
    BY DEF jacl_spawn, Exists
  <1>2. /\ ops < MaxOps /\ ops' = ops + 1 /\ ownerRr' = ownerRr + 1 /\ poolStarted' = TRUE /\ TypeOK /\ ListsHold
        /\ result' = result /\ arg' = arg /\ waiters' = waiters /\ target' = target /\ flags' = flags
        /\ claim' = claim /\ stack' = stack /\ fiber' = fiber /\ awaited' = awaited /\ blocked' = blocked
        /\ suspended' = suspended /\ freeStacks' = freeStacks /\ shutdown' = shutdown /\ slk' = slk
        /\ pc' = pc /\ cur' = cur /\ oc' = oc /\ out' = out /\ sweep' = sweep /\ rest' = rest
    BY DEF jacl_spawn, Op, wVars, SchedInv
  <1>3. PICK o : o = ownerRr % NWorkers
    OBVIOUS
  <1>4. o \in Workers
    <2>1. ownerRr \in Nat /\ NWorkers \in Nat \ {0}
      BY <1>2 DEF TypeOK
    <2>2. QED
      BY <1>3, <2>1 DEF Workers
  <1>5. /\ jstate' \in [Jobs -> {"none", "new", "done"}] /\ jstate'[k] = "new"
        /\ \A j \in Jobs : j # k => jstate'[j] = jstate[j]
    BY <1>1, <1>2 DEF TypeOK
  <1>6. /\ owner' \in [Jobs -> Workers] /\ owner'[k] = o /\ \A j \in Jobs : j # k => owner'[j] = owner[j]
    BY <1>1, <1>2, <1>3, <1>4 DEF TypeOK
  <1>7. JobHolds(k)
    BY DEF SchedInv
  <1>8. inRq[k] = 0 /\ target[k] = None /\ ~Kept(k) /\ flags[k] = {} /\ fiber[k] = "none"
    BY <1>1, <1>7 DEF JobHolds
  <1>9. claim[k] = 0 /\ \A v \in Workers : ~InHand(k, v) /\ k \notin Elems(blocked[v])
    BY <1>8, NotKept
  <1>10. PICK ow : ow = owner'
    OBVIOUS
  <1>11. QueuesHold(rq, inRq, ow)
    <2>1. /\ rq \in [Workers -> Seq(Jobs)] /\ inRq \in [Jobs -> {0, 1}]
          /\ \A v \in Workers : Distinct(rq[v]) /\ Elems(rq[v]) = {j \in Jobs : inRq[j] = 1 /\ owner[j] = v}
      BY <1>2 DEF ListsHold, QueuesHold
    <2>2. \A v \in Workers : {j \in Jobs : inRq[j] = 1 /\ owner[j] = v} = {j \in Jobs : inRq[j] = 1 /\ ow[j] = v}
      BY <1>6, <1>8, <1>10
    <2>3. QED
      BY <2>1, <2>2 DEF QueuesHold
  <1>12. PICK r : r = rq_push(Both(rq, inRq), k, ow[k])
    OBVIOUS
  <1>13. /\ QueuesHold(r.q, r.ir, ow)
         /\ \A j \in Jobs : r.ir[j] = IF j = k THEN 1 ELSE inRq[j]
    <2>1. ow \in [Jobs -> Workers]
      BY <1>6, <1>10
    <2>2. PICK q, ir : q = rq /\ ir = inRq
      OBVIOUS
    <2>3. QueuesHold(q, ir, ow) /\ r = rq_push(Both(q, ir), k, ow[k])
      BY <1>11, <1>12, <2>2
    <2>4. Pushed(r, k, ir, ow)
      BY <2>1, <2>3, PushOne
    <2>5. QED
      BY <2>2, <2>4 DEF Pushed
  <1>14. rq' = r.q /\ inRq' = r.ir
    BY <1>1, <1>3, <1>6, <1>10, <1>12 DEF Both
  <1>15. /\ QueuesHold(rq', inRq', owner') /\ \A j \in Jobs : inRq'[j] = IF j = k THEN 1 ELSE inRq[j]
    BY <1>10, <1>13, <1>14
  <1>16. rq' \in [Workers -> Seq(Jobs)] /\ inRq' \in [Jobs -> {0, 1}]
    BY <1>15 DEF QueuesHold
  <1>17. TypeOK'
    <2>1. ops' \in 0 .. MaxOps /\ ownerRr' \in Nat /\ poolStarted' \in BOOLEAN
      BY <1>2, SchedAssumption DEF TypeOK, SchedAssumption
    <2>2. QED
      BY <1>2, <1>5, <1>6, <1>16, <2>1 DEF TypeOK
  <1>18. ListsHold'
    <2>1. Elems(suspended) = {j \in Jobs : jstate[j] = "new" /\ "held" \in flags[j]}
      BY <1>2 DEF ListsHold
    <2>2. Elems(suspended) = {j \in Jobs : jstate'[j] = "new" /\ "held" \in flags[j]}
      BY <1>5, <1>8, <2>1
    <2>3. QED
      BY <1>2, <1>15, <2>2 DEF ListsHold
  <1>19. Moves(k)
    <2>1. ASSUME NEW v \in Workers
          PROVE  IF pc[v] \in Hands /\ cur[v] # k
                   THEN pc'[v] = pc[v]
                   ELSE pc'[v] \notin Hands /\ (pc'[v] = "poll" <=> sweep[v] # "none")
      <3>1. ~(pc[v] \in Hands /\ cur[v] = k)
        BY <1>9 DEF InHand, Hands
      <3>2. pc[v] \notin Hands => (pc[v] = "poll" <=> sweep[v] # "none")
        BY DEF SchedInv, WorkerHolds, Hands
      <3>3. QED
        BY <1>2, <3>1, <3>2
    <2>2. Frame(k)
      BY <1>2, <1>6, <1>9, <2>1 DEF Frame
    <2>3. QED
      BY <1>2, <1>5, <1>15, <2>2 DEF Moves
  <1>20. Placed(k)
    BY <1>2, <1>5, <1>8, <1>15 DEF Placed
  <1>21. QED
    BY <1>9, <1>17, <1>18, <1>19, <1>20, KeepsMove

\* The scheduler starts with the root job queued on main, and nothing else.
LEMMA InitHolds ==
  ASSUME Init
  PROVE  SchedInv
  <1> USE JobFacts
  <1>1. Distinct(<<>>) /\ Elems(<<>>) = {} /\ Distinct(<<Root>>) /\ Elems(<<Root>>) = {Root}
    BY DEF Distinct, Elems
  <1>2. TypeOK
    <2>1. /\ jstate \in [Jobs -> {"none", "new", "done"}] /\ owner \in [Jobs -> Workers]
          /\ flags \in [Jobs -> SUBSET FlagSet] /\ inRq \in [Jobs -> {0, 1}] /\ claim \in [Jobs -> {0, 1}]
          /\ fiber \in [Jobs -> FiberSet]
      BY DEF Init, FiberSet
    <2>2. result \in [Jobs -> Values] /\ arg \in [Jobs -> Values]
      BY DEF Init, Values
    <2>3. waiters \in [Jobs -> Seq(Jobs)] /\ target \in [Jobs -> Jobs \cup {None}] /\ awaited \in [Jobs -> Jobs \cup {None}]
      BY DEF Init
    <2>4. stack \in [Jobs -> 0 .. NStacks] /\ freeStacks \in Seq(1 .. NStacks) /\ ops \in 0 .. MaxOps
      BY SchedAssumption DEF Init, SchedAssumption
    <2>5. rq \in [Workers -> Seq(Jobs)]
      <3>1. <<Root>> \in Seq(Jobs) /\ <<>> \in Seq(Jobs)
        BY DEF Root
      <3>2. QED
        BY <3>1 DEF Init
    <2>6. blocked \in [Workers -> Seq(Jobs)] /\ suspended \in Seq(Jobs) /\ rest \in [Workers -> Seq(Jobs)]
      BY DEF Init
    <2>7. shutdown \in BOOLEAN /\ poolStarted \in BOOLEAN /\ ownerRr \in Nat /\ slk \in Workers \cup {None}
      BY DEF Init
    <2>8. pc \in [Workers -> PCs] /\ sweep \in [Workers -> {"none", "idle", "ctl"}]
      BY DEF Init, PCs
    <2>9. cur \in [Workers -> Jobs \cup {None}] /\ oc \in [Workers -> 0 .. 3] /\ out \in [Workers -> Jobs \cup {0, Prime, Ctl}]
      BY DEF Init
    <2>10. QED
      BY <2>1, <2>2, <2>3, <2>4, <2>5, <2>6, <2>7, <2>8, <2>9 DEF TypeOK
  <1>3. ListsHold
    <2>1. QueuesHold(rq, inRq, owner)
      <3>1. ASSUME NEW w \in Workers
            PROVE  Distinct(rq[w]) /\ Elems(rq[w]) = {j \in Jobs : inRq[j] = 1 /\ owner[j] = w}
        <4>1. \A j \in Jobs : inRq[j] = 1 /\ owner[j] = w <=> j = Root /\ w = 0
          BY DEF Init
        <4>2. rq[w] = IF w = 0 THEN <<Root>> ELSE <<>>
          BY DEF Init
        <4>3. Root \in Jobs
          BY DEF Root
        <4>4. QED
          BY <1>1, <4>1, <4>2, <4>3
      <3>2. QED
        BY <1>2, <3>1 DEF QueuesHold, TypeOK
    <2>2. \A k \in Jobs : Distinct(waiters[k]) /\ Elems(waiters[k]) = {j \in Jobs : target[j] = k}
      BY <1>1 DEF Init
    <2>3. Distinct(suspended) /\ Elems(suspended) = {j \in Jobs : jstate[j] = "new" /\ "held" \in flags[j]}
      BY <1>1 DEF Init
    <2>4. \A w \in Workers : Distinct(blocked[w]) /\ Distinct(rest[w])
      BY <1>1 DEF Init
    <2>5. QED
      BY <2>1, <2>2, <2>3, <2>4 DEF ListsHold
  <1>4. ASSUME NEW j \in Jobs PROVE JobHolds(j)
    <2>1. /\ jstate[j] = (IF j = Root THEN "new" ELSE "none") /\ inRq[j] = (IF j = Root THEN 1 ELSE 0)
          /\ owner[j] = 0 /\ target[j] = None /\ flags[j] = {} /\ fiber[j] = "none" /\ claim[j] = 0
      BY DEF Init
    <2>2. \A w \in Workers : ~InHand(j, w) /\ j \notin Elems(blocked[w])
      BY <1>1 DEF Init, InHand
    <2>3. ~Kept(j)
      BY <2>1, <2>2 DEF Kept
    <2>4. QED
      BY <2>1, <2>2, <2>3 DEF JobHolds
  <1>5. ASSUME NEW w \in Workers PROVE WorkerHolds(w)
    BY <1>1 DEF Init, WorkerHolds, Hands
  <1>6. QED
    BY <1>2, <1>3, <1>4, <1>5 DEF SchedInv

\* With queues that hold every job, the scheduler's invariant.
THEOREM SchedInvariant ==
  ASSUME NJobs <= RQCap
  PROVE  Spec => []SchedInv
  <1>1. Init => SchedInv
    BY InitHolds
  <1>2. SchedInv /\ [Next]_vars => SchedInv'
    <2>1. SUFFICES ASSUME SchedInv, [Next]_vars PROVE SchedInv'
      OBVIOUS
    <2>2. ASSUME NEW w \in Workers, Step(w) PROVE SchedInv'
      <3>1. CASE WorkerLoop(w)
        BY <2>1, <3>1, Keeps_worker_thread, Keeps_Pop, Keeps_NoJob, Keeps_resume_job, Keeps_finish_job_outcome,
           Keeps_PushBlocked, Keeps_AfterSlice, Keeps_repoll_blocked, Keeps_Unlink DEF WorkerLoop
      <3>2. CASE JobCode(w)
        BY <2>1, <3>2, Keeps_PrimeRoot, Keeps_Return, Keeps_jacl_spawn, Keeps_jacl_await, Keeps_jacl_sleep,
           Keeps_SleepOn, Keeps_StillParked, Keeps_WaitEnds, Keeps_jacl_ctl_point, Keeps_jacl_loop_point,
           Keeps_jacl_task_end, Keeps_jacl_suspend, Keeps_jacl_cancel, Keeps_jacl_resume DEF JobCode
      <3>3. QED
        BY <2>2, <3>1, <3>2 DEF Step
    <2>3. CASE UNCHANGED vars
      <3>1. UNCHANGED <<jstate, owner, result, arg, waiters, target, flags, inRq, claim, stack, fiber, awaited,
                        rq, blocked, suspended, freeStacks, shutdown, poolStarted, ownerRr, slk,
                        pc, cur, oc, out, sweep, rest, ops>>
        BY <2>3 DEF vars, jobVars, listVars, poolVars, wVars
      <3>2. TypeOK'
        BY <2>1, <3>1 DEF SchedInv, TypeOK
      <3>3. ListsHold'
        BY <2>1, <3>1 DEF SchedInv, ListsHold
      <3>4. ASSUME NEW j \in Jobs PROVE JobHolds(j)'
        BY <2>1, <3>1 DEF SchedInv, JobHolds, Kept, InHand
      <3>5. ASSUME NEW v \in Workers PROVE WorkerHolds(v)'
        BY <2>1, <3>1 DEF SchedInv, WorkerHolds
      <3>6. QED
        BY <3>2, <3>3, <3>4, <3>5 DEF SchedInv
    <2>4. QED
      BY <2>1, <2>2, <2>3 DEF Next, Over
  <1>3. QED
    BY <1>1, <1>2, PTL DEF Spec

\* In a list without repetitions an element occurs once or not at all.
LEMMA OccursOnce ==
  ASSUME NEW s, Distinct(s), NEW j
  PROVE  Occurs(j, s) = IF j \in Elems(s) THEN 1 ELSE 0
  <1>1. CASE j \notin Elems(s)
    <2>1. {i \in DOMAIN s : s[i] = j} = {}
      BY <1>1 DEF Elems
    <2>2. QED
      BY <1>1, <2>1, FS_EmptySet DEF Occurs
  <1>2. CASE j \in Elems(s)
    <2>1. PICK n \in DOMAIN s : s[n] = j
      BY <1>2 DEF Elems
    <2>2. {i \in DOMAIN s : s[i] = j} = {n}
      BY <2>1 DEF Distinct
    <2>3. QED
      BY <1>2, <2>2, FS_Singleton DEF Occurs
  <1>3. QED
    BY <1>1, <1>2

\* How often j is queued, whose hand or blocked list it is in, and what it awaits.
Places(j, queued, kept, parked) ==
  /\ queued = (IF \E w \in Workers : j \in Elems(rq[w]) THEN 1 ELSE 0)
  /\ kept = {w \in Workers : InHand(j, w)} \cup {w \in Workers : j \in Elems(blocked[w])}
  /\ parked = {k \in Jobs : j \in Elems(waiters[k])}

\* The places of a job are disjoint, and a live job is in one of them.
LEMMA PlacesOne ==
  ASSUME SchedInv, NEW j \in Jobs, NEW queued, NEW kept, NEW parked, Places(j, queued, kept, parked)
  PROVE  /\ Live(j) =>
              /\ Cardinality(parked) + Cardinality(kept)
                   + queued + (IF j \in Elems(suspended) THEN 1 ELSE 0) = 1
              /\ kept \subseteq {owner[j]}
              /\ \A k \in parked : Live(k)
         /\ ~Live(j) => queued = 0 /\ kept \cup parked = {} /\ j \notin Elems(suspended)
  <1> USE JobFacts
  <1>1. JobHolds(j) /\ ListsHold /\ owner[j] \in Workers /\ target[j] \in Jobs \cup {None} /\ inRq[j] \in {0, 1}
    BY DEF SchedInv, TypeOK
  <1>2. queued = inRq[j]
    BY <1>1 DEF ListsHold, QueuesHold, Places
  <1>3. kept = IF Kept(j) THEN {owner[j]} ELSE {}
    BY <1>1 DEF JobHolds, Kept, Places
  <1>4. parked = IF target[j] = None THEN {} ELSE {target[j]}
    BY <1>1 DEF ListsHold, Places
  <1>5. j \in Elems(suspended) <=> jstate[j] = "new" /\ "held" \in flags[j]
    BY <1>1 DEF ListsHold
  <1>6. /\ Cardinality(kept) = IF Kept(j) THEN 1 ELSE 0
        /\ Cardinality(parked) = IF target[j] = None THEN 0 ELSE 1
    BY <1>3, <1>4, FS_EmptySet, FS_Singleton
  <1>7. CASE Live(j)
    <2>1. \A k \in parked : Live(k)
      BY <1>1, <1>4 DEF JobHolds, Live
    <2>2. kept \subseteq {owner[j]}
      BY <1>3
    <2>3. jstate[j] = "new"
      BY <1>7 DEF Live
    <2>4. \/ inRq[j] = 1 /\ target[j] = None /\ "held" \notin flags[j] /\ ~Kept(j)
          \/ inRq[j] = 0 /\ target[j] # None /\ "held" \notin flags[j] /\ ~Kept(j)
          \/ inRq[j] = 0 /\ target[j] = None /\ "held" \in flags[j] /\ ~Kept(j)
          \/ inRq[j] = 0 /\ target[j] = None /\ "held" \notin flags[j] /\ Kept(j)
      BY <1>1, <2>3 DEF JobHolds
    <2>5. Cardinality(parked) + Cardinality(kept)
            + queued + (IF j \in Elems(suspended) THEN 1 ELSE 0) = 1
      BY <1>2, <1>5, <1>6, <2>3, <2>4
    <2>6. QED
      BY <1>7, <2>1, <2>2, <2>5
  <1>8. CASE ~Live(j)
    <2>1. jstate[j] # "new"
      BY <1>8 DEF Live
    <2>2. inRq[j] = 0 /\ target[j] = None /\ ~Kept(j)
      BY <1>1, <2>1 DEF JobHolds
    <2>3. queued = 0 /\ kept \cup parked = {} /\ j \notin Elems(suspended)
      BY <1>2, <1>3, <1>4, <1>5, <2>1, <2>2
    <2>4. QED
      BY <1>8, <2>3
  <1>9. QED
    BY <1>7, <1>8

\* The invariant says what JobsPlaced does.
LEMMA SchedInvPlaces ==
  ASSUME SchedInv
  PROVE  JobsPlaced
  <1> USE JobFacts
  <1>1. TypeOK /\ ListsHold
    BY DEF SchedInv
  <1>2. ASSUME NEW j \in Jobs
        PROVE  LET queued == \E w \in Workers : j \in Elems(rq[w])
                   handed == {w \in Workers : InHand(j, w)}
                   parked == {k \in Jobs : j \in Elems(waiters[k])}
                   vm     == {w \in Workers : j \in Elems(blocked[w])}
               IN  IF Live(j)
                     THEN /\ Cardinality(parked) + Cardinality(handed \cup vm)
                               + (IF queued THEN 1 ELSE 0) + (IF j \in Elems(suspended) THEN 1 ELSE 0) = 1
                          /\ handed \cup vm \subseteq {owner[j]}
                          /\ \A w \in Workers : Occurs(j, rq[w]) <= (IF w = owner[j] THEN 1 ELSE 0)
                          /\ Occurs(j, suspended) <= 1 /\ \A w \in Workers : Occurs(j, blocked[w]) <= 1
                          /\ \A k \in parked : Live(k)
                     ELSE ~queued /\ handed \cup vm \cup parked = {} /\ j \notin Elems(suspended)
    <2>1. PICK queued : queued = (IF \E w \in Workers : j \in Elems(rq[w]) THEN 1 ELSE 0)
      OBVIOUS
    <2>2. PICK handed, vm : /\ handed = {w \in Workers : InHand(j, w)}
                            /\ vm = {w \in Workers : j \in Elems(blocked[w])}
      OBVIOUS
    <2>3. PICK kept, parked : kept = handed \cup vm /\ parked = {k \in Jobs : j \in Elems(waiters[k])}
      OBVIOUS
    <2>4. Places(j, queued, kept, parked)
      BY <2>1, <2>2, <2>3 DEF Places
    <2>5. /\ Live(j) =>
              /\ Cardinality(parked) + Cardinality(kept)
                   + queued + (IF j \in Elems(suspended) THEN 1 ELSE 0) = 1
              /\ kept \subseteq {owner[j]}
              /\ \A k \in parked : Live(k)
          /\ ~Live(j) => queued = 0 /\ kept \cup parked = {} /\ j \notin Elems(suspended)
      BY <2>4, PlacesOne
    <2>6. \A w \in Workers : Occurs(j, rq[w]) <= (IF w = owner[j] THEN 1 ELSE 0)
      <3>1. SUFFICES ASSUME NEW w \in Workers PROVE Occurs(j, rq[w]) <= (IF w = owner[j] THEN 1 ELSE 0)
        OBVIOUS
      <3>2. Distinct(rq[w]) /\ (j \in Elems(rq[w]) => w = owner[j])
        BY <1>1 DEF ListsHold, QueuesHold
      <3>3. Occurs(j, rq[w]) = IF j \in Elems(rq[w]) THEN 1 ELSE 0
        BY <3>2, OccursOnce
      <3>4. QED
        BY <3>2, <3>3
    <2>7. Occurs(j, suspended) <= 1
      <3>1. Occurs(j, suspended) = IF j \in Elems(suspended) THEN 1 ELSE 0
        BY <1>1, OccursOnce DEF ListsHold
      <3>2. QED
        BY <3>1
    <2>8. \A w \in Workers : Occurs(j, blocked[w]) <= 1
      <3>1. SUFFICES ASSUME NEW w \in Workers PROVE Occurs(j, blocked[w]) <= 1
        OBVIOUS
      <3>2. Occurs(j, blocked[w]) = IF j \in Elems(blocked[w]) THEN 1 ELSE 0
        BY <1>1, OccursOnce DEF ListsHold
      <3>3. QED
        BY <3>2
    <2>9. CASE Live(j)
      BY <2>1, <2>2, <2>3, <2>5, <2>6, <2>7, <2>8, <2>9
    <2>10. CASE ~Live(j)
      BY <2>1, <2>2, <2>3, <2>5, <2>10
    <2>11. QED
      BY <2>9, <2>10
  <1>3. OnePlace
    BY <1>2 DEF OnePlace
  <1>4. WordsAgree
    <2>1. ASSUME NEW j \in Jobs
          PROVE  /\ inRq[j] = 1 <=> j \in Elems(rq[owner[j]])
                 /\ \A k \in Jobs : target[j] = k <=> j \in Elems(waiters[k])
                 /\ Live(j) => ("held" \in flags[j] <=> j \in Elems(suspended))
      <3>1. owner[j] \in Workers
        BY <1>1 DEF TypeOK
      <3>2. inRq[j] = 1 <=> j \in Elems(rq[owner[j]])
        BY <1>1, <3>1 DEF ListsHold, QueuesHold
      <3>3. \A k \in Jobs : target[j] = k <=> j \in Elems(waiters[k])
        BY <1>1 DEF ListsHold
      <3>4. Live(j) => ("held" \in flags[j] <=> j \in Elems(suspended))
        BY <1>1 DEF ListsHold, Live
      <3>5. QED
        BY <3>2, <3>3, <3>4
    <2>2. QED
      BY <2>1 DEF WordsAgree
  <1>5. RunsOnlyLive
    <2>1. ASSUME NEW w \in Workers, pc[w] \in {"resume", "run"}
          PROVE  /\ Live(cur[w]) /\ "held" \notin flags[cur[w]] /\ fiber[cur[w]] # "ret"
                 /\ pc[w] = "resume" => claim[cur[w]] = 0
      <3>1. pc[w] \in Hands
        BY <2>1 DEF Hands
      <3>2. QED
        BY <2>1, <3>1, HandFacts DEF Live
    <2>2. QED
      BY <2>1 DEF RunsOnlyLive
  <1>6. QED
    BY <1>1, <1>3, <1>4, <1>5 DEF JobsPlaced

\* JobsPlaced for any number of workers and jobs that a ready queue can hold.
THEOREM SchedJobsPlaced ==
  ASSUME NJobs <= RQCap
  PROVE  Spec => []JobsPlaced
  <1>1. SchedInv => JobsPlaced
    BY SchedInvPlaces
  <1>2. Spec => []SchedInv
    BY SchedInvariant
  <1>3. QED
    BY <1>1, <1>2, PTL

-----------------------------------------------------------------------------
(* What a step does to the jobs' states, results and stacks. *)

\* Nothing.
SameJobs ==
  /\ jstate' = jstate /\ result' = result /\ stack' = stack /\ freeStacks' = freeStacks
  /\ \A j \in Jobs : fiber'[j] = "none" <=> fiber[j] = "none"

\* It ends the live job c, whose stack goes back to the pool.
Ends(c) ==
  /\ jstate[c] = "new" /\ release_task_stack(c) /\ jstate' = [jstate EXCEPT ![c] = "done"]
  /\ \E v \in Values : result' = [result EXCEPT ![c] = v]
  /\ stack' \in [Jobs -> 0 .. NStacks] /\ \A j \in Jobs : j # c => stack'[j] = stack[j]
  /\ fiber' = fiber

\* It makes job c.
Makes(c) ==
  /\ jstate[c] = "none" /\ jstate' = [jstate EXCEPT ![c] = "new"] /\ result' = result
  /\ stack' = stack /\ freeStacks' = freeStacks /\ fiber' = fiber

\* It gives the live job c its fiber, and a stack from the pool.
Starts(c) ==
  /\ jstate[c] = "new" /\ fiber[c] = "none" /\ grab_task_stack(c) /\ jstate' = jstate /\ result' = result
  /\ \A j \in Jobs : fiber'[j] = "none" <=> fiber[j] = "none" /\ j # c

\* job_cancel_now ends a live job.
LEMMA CancelEndsJob ==
  ASSUME TypeOK, NEW c \in Jobs, jstate[c] = "new", fiber' = fiber,
         NEW q, NEW ir, NEW ws, NEW tg, job_cancel_now(c, q, ir, ws, tg)
  PROVE  Ends(c)
  <1>1. stack \in [Jobs -> 0 .. NStacks] /\ NStacks \in Nat
    BY SchedAssumption DEF TypeOK, SchedAssumption
  <1>2. release_task_stack(c) /\ stack' = [stack EXCEPT ![c] = 0]
    BY DEF job_cancel_now
  <1>3. stack' \in [Jobs -> 0 .. NStacks] /\ \A j \in Jobs : j # c => stack'[j] = stack[j]
    BY <1>1, <1>2
  <1>4. PICK v \in Values : complete_job(c, v, q, ir, ws, tg)
    BY CancelTyped
  <1>5. result' = [result EXCEPT ![c] = v] /\ jstate' = [jstate EXCEPT ![c] = "done"]
    BY <1>4 DEF complete_job
  <1>6. QED
    BY <1>2, <1>3, <1>5 DEF Ends

\* The end of a slice touches no job's state, result or stack.
LEMMA SliceSame ==
  ASSUME SchedInv, NEW w \in Workers, pc[w] = "run", fiber[cur[w]] # "none",
         NEW f, f # "none", fiber' = [fiber EXCEPT ![cur[w]] = f], UNCHANGED SuspendOnly
  PROVE  SameJobs
  <1>1. cur[w] \in Jobs /\ fiber \in [Jobs -> FiberSet]
    BY DEF SchedInv, WorkerHolds, Hands, TypeOK
  <1>2. \A j \in Jobs : fiber'[j] = "none" <=> fiber[j] = "none"
    BY <1>1
  <1>3. QED
    BY <1>2 DEF SameJobs, SuspendOnly, listVars

\* A step does one of the four.
LEMMA StepKinds ==
  ASSUME SchedInv, NEW w \in Workers, Step(w)
  PROVE  SameJobs \/ \E c \in Jobs : Ends(c) \/ Makes(c) \/ Starts(c)
  <1>0. TypeOK
    BY DEF SchedInv
  <1>1. CASE worker_thread(w) \/ NoJob(w) \/ AfterSlice(w) \/ repoll_blocked(w)
    BY <1>1 DEF worker_thread, NoJob, AfterSlice, repoll_blocked, jobVars, listVars, SameJobs
  <1>2. CASE PushBlocked(w) \/ Unlink(w)
    BY <1>2 DEF PushBlocked, Unlink, jobVars, SameJobs
  <1>3. CASE Pop(w)
    <2>1. fiber' = fiber
      BY <1>3 DEF Pop
    <2>2. CASE rq[w] = <<>>
      BY <1>3, <2>1, <2>2 DEF Pop, SameJobs
    <2>3. CASE rq[w] # <<>>
      <3>1. PICK c : c = Head(rq[w])
        OBVIOUS
      <3>2. PICK q : q = [rq EXCEPT ![w] = Tail(@)]
        OBVIOUS
      <3>3. PICK ir : ir = [inRq EXCEPT ![c] = 0]
        OBVIOUS
      <3>4. Popped(c, w, q, ir)
        BY <2>3, <3>1, <3>2, <3>3, PopQueue
      <3>5. c \in Jobs /\ jstate[c] = "new"
        BY <3>4 DEF Popped
      <3>6. \/ job_cancel_now(c, q, ir, waiters, target)
            \/ jstate' = jstate /\ result' = result /\ stack' = stack /\ freeStacks' = freeStacks
        BY <1>3, <2>3, <3>1, <3>2, <3>3 DEF Pop
      <3>7. CASE job_cancel_now(c, q, ir, waiters, target)
        BY <1>0, <2>1, <3>5, <3>7, CancelEndsJob
      <3>8. QED
        BY <2>1, <3>6, <3>7 DEF SameJobs
    <2>4. QED
      BY <2>2, <2>3
  <1>4. CASE resume_job(w)
    <2>1. PICK c : c = cur[w]
      OBVIOUS
    <2>2. pc[w] = "resume" /\ pc[w] \in Hands /\ jstate' = jstate /\ result' = result
      BY <1>4 DEF resume_job, Hands
    <2>3. c \in Jobs /\ jstate[c] = "new" /\ claim[c] = 0
      BY <2>1, <2>2, HandFacts
    <2>4. \/ /\ fiber[c] = "none" /\ fiber' = [fiber EXCEPT ![c] = IF c = Root THEN "start" ELSE "go"]
             /\ grab_task_stack(c)
          \/ /\ fiber[c] # "none" /\ UNCHANGED <<stack, freeStacks>>
             /\ fiber' = [fiber EXCEPT ![c] = IF fiber[c] \in {"wait", "nap"} THEN fiber[c] ELSE "go"]
      BY <1>4, <2>1, <2>3 DEF resume_job
    <2>5. fiber \in [Jobs -> FiberSet]
      BY <1>0 DEF TypeOK
    <2>6. CASE fiber[c] = "none"
      <3>1. \A j \in Jobs : fiber'[j] = "none" <=> fiber[j] = "none" /\ j # c
        BY <2>3, <2>4, <2>5, <2>6
      <3>2. QED
        BY <2>2, <2>3, <2>4, <2>6, <3>1 DEF Starts
    <2>7. CASE fiber[c] # "none"
      <3>1. \A j \in Jobs : fiber'[j] = "none" <=> fiber[j] = "none"
        BY <2>3, <2>4, <2>5, <2>7
      <3>2. QED
        BY <2>2, <2>4, <2>7, <3>1 DEF SameJobs
    <2>8. QED
      BY <2>6, <2>7
  <1>5. CASE finish_job_outcome(w)
    <2>1. PICK c : c = cur[w]
      OBVIOUS
    <2>2. pc[w] = "fin" /\ pc[w] \in Hands /\ fiber' = fiber
      BY <1>5 DEF finish_job_outcome, Hands
    <2>3. c \in Jobs /\ jstate[c] = "new"
      BY <2>1, <2>2, HandFacts
    <2>4. \/ job_cancel_now(c, rq, inRq, waiters, target)
          \/ oc[w] = 0 /\ release_task_stack(c) /\ stack' = stack /\ complete_job(c, out[w], rq, inRq, waiters, target)
          \/ jstate' = jstate /\ result' = result /\ stack' = stack /\ freeStacks' = freeStacks
      BY <1>5, <2>1 DEF finish_job_outcome
    <2>5. CASE job_cancel_now(c, rq, inRq, waiters, target)
      BY <1>0, <2>2, <2>3, <2>5, CancelEndsJob
    <2>6. CASE oc[w] = 0 /\ release_task_stack(c) /\ stack' = stack /\ complete_job(c, out[w], rq, inRq, waiters, target)
      <3>1. out[w] \in Values
        BY <2>2, <2>6 DEF SchedInv, WorkerHolds, Values
      <3>2. result' = [result EXCEPT ![c] = out[w]] /\ jstate' = [jstate EXCEPT ![c] = "done"]
        BY <2>6 DEF complete_job
      <3>3. stack' \in [Jobs -> 0 .. NStacks] /\ \A j \in Jobs : j # c => stack'[j] = stack[j]
        BY <1>0, <2>6 DEF TypeOK
      <3>4. QED
        BY <2>2, <2>3, <2>6, <3>1, <3>2, <3>3 DEF Ends
    <2>7. QED
      BY <2>2, <2>4, <2>5, <2>6 DEF SameJobs
  <1>6. CASE PrimeRoot(w) \/ Return(w) \/ SleepOn(w) \/ StillParked(w) \/ WaitEnds(w) \/ jacl_ctl_point(w) \/ jacl_loop_point(w)
    <2>1. PICK f : /\ f # "none" /\ fiber' = [fiber EXCEPT ![cur[w]] = f] /\ pc[w] = "run" /\ fiber[cur[w]] # "none"
                   /\ UNCHANGED SuspendOnly
      BY <1>6 DEF PrimeRoot, Return, SleepOn, StillParked, WaitEnds, jacl_ctl_point, jacl_loop_point, Running, Suspend
    <2>2. QED
      BY <2>1, SliceSame
  <1>7. CASE jacl_await(w) \/ jacl_sleep(w) \/ jacl_task_end(w)
    <2>1. PICK f : /\ f # "none" /\ fiber' = [fiber EXCEPT ![cur[w]] = f] /\ pc[w] = "run" /\ fiber[cur[w]] # "none"
                   /\ UNCHANGED SuspendOnly
      BY <1>7 DEF jacl_await, jacl_sleep, jacl_task_end, Running, Suspend
    <2>2. QED
      BY <2>1, SliceSame
  <1>8. CASE jacl_spawn(w)
    BY <1>8 DEF jacl_spawn, Exists, Makes
  <1>9. CASE jacl_suspend(w) \/ jacl_resume(w)
    BY <1>9 DEF jacl_suspend, jacl_resume, RequestOnly, SameJobs
  <1>10. CASE jacl_cancel(w)
    <2>1. PICK k \in Jobs :
            /\ Deliverable(w, k) /\ UNCHANGED RequestOnly
            /\ \/ job_cancel_now(k, rq, inRq, waiters, target)
               \/ job_cancel_now(k, rq, inRq, [waiters EXCEPT ![target[k]] = Without(@, k)],
                                 [target EXCEPT ![k] = None])
               \/ jstate' = jstate /\ result' = result /\ stack' = stack /\ freeStacks' = freeStacks
      BY <1>10 DEF jacl_cancel
    <2>2. jstate[k] = "new" /\ fiber' = fiber
      BY <2>1 DEF Deliverable, Live, RequestOnly
    <2>3. PICK ws, tg : /\ ws = [waiters EXCEPT ![target[k]] = Without(@, k)]
                        /\ tg = [target EXCEPT ![k] = None]
      OBVIOUS
    <2>4. CASE job_cancel_now(k, rq, inRq, waiters, target)
      BY <1>0, <2>2, <2>4, CancelEndsJob
    <2>5. CASE job_cancel_now(k, rq, inRq, ws, tg)
      BY <1>0, <2>2, <2>5, CancelEndsJob
    <2>6. QED
      BY <2>1, <2>2, <2>3, <2>4, <2>5 DEF SameJobs
  <1>11. QED
    BY <1>1, <1>2, <1>3, <1>4, <1>5, <1>6, <1>7, <1>8, <1>9, <1>10 DEF Step, WorkerLoop, JobCode

\* A published result stays.
LEMMA DoneStays ==
  ASSUME SchedInv, [Next]_vars
  PROVE  \A j \in Jobs : jstate[j] = "done" => jstate'[j] = "done" /\ result'[j] = result[j]
  <1>1. jstate \in [Jobs -> {"none", "new", "done"}] /\ result \in [Jobs -> Values]
    BY DEF SchedInv, TypeOK
  <1>2. ASSUME NEW w \in Workers, Step(w)
        PROVE  \A j \in Jobs : jstate[j] = "done" => jstate'[j] = "done" /\ result'[j] = result[j]
    <2>1. SameJobs \/ \E c \in Jobs : Ends(c) \/ Makes(c) \/ Starts(c)
      BY <1>2, StepKinds
    <2>2. CASE SameJobs
      BY <2>2 DEF SameJobs
    <2>3. ASSUME NEW c \in Jobs, Ends(c) \/ Makes(c) \/ Starts(c)
          PROVE  \A j \in Jobs : jstate[j] = "done" => jstate'[j] = "done" /\ result'[j] = result[j]
      <3>1. CASE Ends(c)
        BY <1>1, <3>1 DEF Ends
      <3>2. CASE Makes(c)
        BY <1>1, <3>2 DEF Makes
      <3>3. CASE Starts(c)
        BY <3>3 DEF Starts
      <3>4. QED
        BY <2>3, <3>1, <3>2, <3>3
    <2>4. QED
      BY <2>1, <2>2, <2>3
  <1>3. CASE UNCHANGED vars
    BY <1>3 DEF vars, jobVars
  <1>4. QED
    BY <1>2, <1>3 DEF Next, Over

\* The live jobs that have a stack.
Holders == {j \in Jobs : jstate[j] = "new" /\ stack[j] # 0}

\* Every stack is in the pool or with one live job, and a live job has one from
\* the time its fiber exists.
StackInv ==
  /\ Distinct(freeStacks)
  /\ \A j \in Jobs : jstate[j] = "none" => stack[j] = 0
  /\ \A j \in Jobs : jstate[j] = "new" => (stack[j] = 0 <=> fiber[j] = "none") /\ stack[j] \notin Elems(freeStacks)
  /\ \A j, k \in Jobs : jstate[j] = "new" /\ jstate[k] = "new" /\ j # k /\ stack[j] = stack[k] => stack[j] = 0
  /\ Len(freeStacks) + Cardinality(Holders) = NStacks

\* t is s without its last element, which occurs nowhere else.
IsFront(t, s, n, S) ==
  /\ t \in Seq(S) /\ Distinct(t) /\ Len(t) = n - 1 /\ s[n] \in S /\ s[n] \in Elems(s)
  /\ Elems(t) = Elems(s) \ {s[n]}

\* All but the last of a list.
LEMMA FrontElems ==
  ASSUME NEW S, NEW s \in Seq(S), Len(s) # 0, Distinct(s), NEW n, n = Len(s), NEW t, t = SubSeq(s, 1, n - 1)
  PROVE  IsFront(t, s, n, S)
  <1>1. n \in Nat \ {0} /\ DOMAIN s = 1 .. n
    OBVIOUS
  <1>2. t \in Seq(S) /\ Len(t) = n - 1 /\ DOMAIN t = 1 .. n - 1
    BY <1>1
  <1>3. \A i \in 1 .. n - 1 : t[i] = s[i]
    BY <1>1
  <1>4. Distinct(t)
    BY <1>1, <1>2, <1>3 DEF Distinct
  <1>5. s[n] \in S /\ s[n] \in Elems(s)
    BY <1>1 DEF Elems
  <1>6. Elems(t) = Elems(s) \ {s[n]}
    <2>1. ASSUME NEW i \in DOMAIN t PROVE t[i] \in Elems(s) /\ t[i] # s[n]
      <3>1. i \in DOMAIN s /\ n \in DOMAIN s /\ i # n /\ t[i] = s[i]
        BY <1>1, <1>2, <1>3
      <3>2. QED
        BY <3>1 DEF Distinct, Elems
    <2>2. ASSUME NEW i \in DOMAIN s, s[i] # s[n] PROVE s[i] \in Elems(t)
      <3>1. i \in DOMAIN t /\ t[i] = s[i]
        BY <1>1, <1>2, <1>3, <2>2
      <3>2. QED
        BY <3>1 DEF Elems
    <2>3. QED
      BY <2>1, <2>2 DEF Elems
  <1>7. QED
    BY <1>2, <1>4, <1>5, <1>6 DEF IsFront

\* There are at most as many stacks in use as jobs.
LEMMA HoldersFinite ==
  /\ IsFiniteSet(Holders) /\ Cardinality(Holders) \in Nat
  /\ \A c \in Jobs \ Holders : Cardinality(Holders) < NJobs
  <1>1. Holders \subseteq Jobs
    BY DEF Holders
  <1>2. IsFiniteSet(Holders) /\ Cardinality(Holders) \in Nat
    BY <1>1, JobFacts, FS_Subset, FS_CardinalityType
  <1>3. ASSUME NEW c \in Jobs \ Holders PROVE Cardinality(Holders) < NJobs
    <2>1. Holders \cup {c} \subseteq Jobs
      BY <1>1
    <2>2. Cardinality(Holders \cup {c}) = Cardinality(Holders) + 1
      BY <1>2, FS_AddElement
    <2>3. Cardinality(Holders \cup {c}) <= Cardinality(Jobs)
      BY <2>1, JobFacts, FS_Subset
    <2>4. QED
      BY <1>2, <2>2, <2>3, JobFacts
  <1>4. QED
    BY <1>2, <1>3

\* The end of a job gives its stack back (sched.c:142-152).
LEMMA StackEnds ==
  ASSUME SchedInv, StackInv, NEW c \in Jobs, Ends(c)
  PROVE  StackInv'
  <1>1. /\ jstate \in [Jobs -> {"none", "new", "done"}] /\ stack \in [Jobs -> 0 .. NStacks]
        /\ freeStacks \in Seq(1 .. NStacks) /\ NStacks \in Nat
    BY SchedAssumption DEF SchedInv, TypeOK, SchedAssumption
  <1>2. /\ jstate[c] = "new" /\ jstate'[c] = "done" /\ \A j \in Jobs : j # c => jstate'[j] = jstate[j] /\ stack'[j] = stack[j]
        /\ fiber' = fiber
    BY <1>1 DEF Ends
  <1>3. CASE stack[c] = 0
    <2>1. freeStacks' = freeStacks
      BY <1>3 DEF Ends, release_task_stack
    <2>2. Holders' = Holders
      BY <1>2, <1>3 DEF Holders
    <2>3. QED
      BY <1>2, <2>1, <2>2 DEF StackInv
  <1>4. CASE stack[c] # 0
    <2>1. PICK s : s = stack[c]
      OBVIOUS
    <2>2. freeStacks' = Append(freeStacks, s) /\ s \in 1 .. NStacks /\ s \notin Elems(freeStacks) /\ Distinct(freeStacks)
      BY <1>1, <1>2, <1>4, <2>1 DEF Ends, release_task_stack, StackInv
    <2>3. /\ Distinct(freeStacks') /\ Len(freeStacks') = Len(freeStacks) + 1 /\ Elems(freeStacks') = Elems(freeStacks) \cup {s}
      BY <1>1, <2>2, AppendElems
    <2>4. Holders' = Holders \ {c} /\ c \in Holders
      BY <1>2, <1>4 DEF Holders
    <2>5. Cardinality(Holders \ {c}) = Cardinality(Holders) - 1
      BY <2>4, HoldersFinite, FS_RemoveElement
    <2>6. Len(freeStacks') + Cardinality(Holders') = NStacks
      <3>1. Len(freeStacks) \in Nat /\ Len(freeStacks) + Cardinality(Holders) = NStacks
        BY <1>1 DEF StackInv
      <3>2. QED
        BY <2>3, <2>4, <2>5, <3>1, HoldersFinite
    <2>7. ASSUME NEW j \in Jobs, jstate'[j] = "new"
          PROVE  (stack'[j] = 0 <=> fiber'[j] = "none") /\ stack'[j] \notin Elems(freeStacks')
      <3>1. j # c /\ jstate[j] = "new" /\ stack'[j] = stack[j] /\ fiber'[j] = fiber[j]
        BY <1>2, <2>7
      <3>2. stack[j] # s
        BY <1>2, <1>4, <2>1, <3>1 DEF StackInv
      <3>3. QED
        BY <2>3, <3>1, <3>2 DEF StackInv
    <2>8. QED
      BY <1>2, <2>3, <2>6, <2>7 DEF StackInv
  <1>5. QED
    BY <1>3, <1>4

\* A job that starts finds a stack in the pool when there is one for every job (sched.c:134-141).
LEMMA StackStarts ==
  ASSUME NJobs <= NStacks, SchedInv, StackInv, NEW c \in Jobs, Starts(c)
  PROVE  StackInv'
  <1>1. /\ jstate \in [Jobs -> {"none", "new", "done"}] /\ stack \in [Jobs -> 0 .. NStacks]
        /\ freeStacks \in Seq(1 .. NStacks) /\ NStacks \in Nat
    BY SchedAssumption DEF SchedInv, TypeOK, SchedAssumption
  <1>2. PICK n : n = Len(freeStacks)
    OBVIOUS
  <1>3. n \in Nat /\ n + Cardinality(Holders) = NStacks
    BY <1>1, <1>2 DEF StackInv
  <1>4. jstate[c] = "new" /\ fiber[c] = "none" /\ stack[c] = 0 /\ jstate' = jstate
    BY DEF Starts, StackInv
  <1>5. n # 0
    <2>1. c \in Jobs \ Holders
      BY <1>4 DEF Holders
    <2>2. QED
      BY <1>1, <1>3, <2>1, HoldersFinite, JobFacts
  <1>6. PICK s : s = freeStacks[n]
    OBVIOUS
  <1>7. /\ stack' = [stack EXCEPT ![c] = s] /\ freeStacks' = SubSeq(freeStacks, 1, n - 1)
    BY <1>2, <1>5, <1>6 DEF Starts, grab_task_stack
  <1>8. /\ Distinct(freeStacks') /\ Len(freeStacks') = n - 1 /\ s \in 1 .. NStacks /\ s \in Elems(freeStacks)
        /\ Elems(freeStacks') = Elems(freeStacks) \ {s}
    <2>1. PICK fs, t : fs = freeStacks /\ t = SubSeq(fs, 1, n - 1)
      OBVIOUS
    <2>2. fs \in Seq(1 .. NStacks) /\ Len(fs) # 0 /\ Distinct(fs) /\ n = Len(fs)
      BY <1>1, <1>2, <1>5, <2>1 DEF StackInv
    <2>3. PICK S : S = 1 .. NStacks
      OBVIOUS
    <2>4. fs \in Seq(S) /\ t = SubSeq(fs, 1, n - 1)
      BY <2>1, <2>2, <2>3
    <2>5. IsFront(t, fs, n, S)
      BY <2>2, <2>4, FrontElems
    <2>6. QED
      BY <1>6, <1>7, <2>1, <2>3, <2>5 DEF IsFront
  <1>9. stack'[c] = s /\ s # 0 /\ \A j \in Jobs : j # c => stack'[j] = stack[j]
    BY <1>1, <1>7, <1>8
  <1>10. Holders' = Holders \cup {c} /\ c \notin Holders
    BY <1>4, <1>9 DEF Holders
  <1>11. Cardinality(Holders \cup {c}) = Cardinality(Holders) + 1
    BY <1>10, HoldersFinite, FS_AddElement
  <1>12. Len(freeStacks') + Cardinality(Holders') = NStacks
    BY <1>3, <1>8, <1>10, <1>11, HoldersFinite
  <1>13. \A j \in Jobs : fiber'[j] = "none" <=> fiber[j] = "none" /\ j # c
    BY DEF Starts
  <1>14. ASSUME NEW j \in Jobs, jstate[j] = "new"
         PROVE  (stack'[j] = 0 <=> fiber'[j] = "none") /\ stack'[j] \notin Elems(freeStacks')
    <2>1. CASE j = c
      BY <1>8, <1>9, <1>13, <2>1
    <2>2. CASE j # c
      <3>1. (stack[j] = 0 <=> fiber[j] = "none") /\ stack[j] \notin Elems(freeStacks)
        BY <1>14 DEF StackInv
      <3>2. QED
        BY <1>8, <1>9, <1>13, <2>2, <3>1
    <2>3. QED
      BY <2>1, <2>2
  <1>15. ASSUME NEW j \in Jobs, NEW k \in Jobs, jstate[j] = "new", jstate[k] = "new", j # k, stack'[j] = stack'[k]
         PROVE  stack'[j] = 0
    <2>1. \A i \in Jobs : jstate[i] = "new" => stack[i] # s
      BY <1>8 DEF StackInv
    <2>2. j # c /\ k # c
      BY <1>9, <1>15, <2>1
    <2>3. QED
      BY <1>9, <1>15, <2>2 DEF StackInv
  <1>16. \A j \in Jobs : jstate[j] = "none" => stack'[j] = 0
    BY <1>4, <1>9 DEF StackInv
  <1>17. QED
    BY <1>4, <1>8, <1>12, <1>14, <1>15, <1>16 DEF StackInv

\* A new job has no stack.
LEMMA StackMakes ==
  ASSUME SchedInv, StackInv, NEW c \in Jobs, Makes(c)
  PROVE  StackInv'
  <1>1. /\ jstate \in [Jobs -> {"none", "new", "done"}] /\ NStacks \in Nat /\ freeStacks \in Seq(1 .. NStacks)
    BY SchedAssumption DEF SchedInv, TypeOK, SchedAssumption
  <1>2. /\ jstate[c] = "none" /\ jstate'[c] = "new" /\ (\A j \in Jobs : j # c => jstate'[j] = jstate[j])
        /\ stack' = stack /\ freeStacks' = freeStacks /\ fiber' = fiber
    BY <1>1 DEF Makes
  <1>3. stack[c] = 0 /\ fiber[c] = "none"
    BY <1>2 DEF StackInv, SchedInv, JobHolds
  <1>4. 0 \notin Elems(freeStacks)
    <2>1. ASSUME NEW i \in DOMAIN freeStacks PROVE freeStacks[i] # 0
      BY <1>1
    <2>2. QED
      BY <2>1 DEF Elems
  <1>5. Holders' = Holders
    BY <1>2, <1>3 DEF Holders
  <1>6. ASSUME NEW j \in Jobs, jstate'[j] = "new"
        PROVE  (stack[j] = 0 <=> fiber[j] = "none") /\ stack[j] \notin Elems(freeStacks)
    BY <1>2, <1>3, <1>4, <1>6 DEF StackInv
  <1>7. ASSUME NEW j \in Jobs, NEW k \in Jobs, jstate'[j] = "new", jstate'[k] = "new", j # k, stack[j] = stack[k]
        PROVE  stack[j] = 0
    BY <1>2, <1>3, <1>7 DEF StackInv
  <1>8. QED
    BY <1>2, <1>5, <1>6, <1>7 DEF StackInv

\* With stacks for all jobs as well, the invariant of the stack pool.
THEOREM StackInvariant ==
  ASSUME NJobs <= RQCap, NJobs <= NStacks
  PROVE  Spec => []StackInv
  <1>1. Init => StackInv
    <2>1. SUFFICES ASSUME Init PROVE StackInv
      OBVIOUS
    <2>2. NStacks \in Nat
      BY SchedAssumption DEF SchedAssumption
    <2>3. /\ freeStacks = [i \in 1 .. NStacks |-> i] /\ \A j \in Jobs : stack[j] = 0 /\ fiber[j] = "none"
      BY <2>1 DEF Init
    <2>4. Distinct(freeStacks) /\ 0 \notin Elems(freeStacks) /\ Len(freeStacks) = NStacks
      BY <2>2, <2>3 DEF Distinct, Elems
    <2>5. Holders = {}
      BY <2>3 DEF Holders
    <2>6. Len(freeStacks) + Cardinality(Holders) = NStacks
      BY <2>2, <2>4, <2>5, FS_EmptySet
    <2>7. QED
      BY <2>3, <2>4, <2>6 DEF StackInv
  <1>2. SchedInv /\ StackInv /\ [Next]_vars => StackInv'
    <2>1. SUFFICES ASSUME SchedInv, StackInv, [Next]_vars PROVE StackInv'
      OBVIOUS
    <2>2. ASSUME SameJobs PROVE StackInv'
      <3>1. Holders' = Holders
        BY <2>2 DEF SameJobs, Holders
      <3>2. QED
        BY <2>1, <2>2, <3>1 DEF SameJobs, StackInv
    <2>3. ASSUME NEW w \in Workers, Step(w) PROVE StackInv'
      <3>1. SameJobs \/ \E c \in Jobs : Ends(c) \/ Makes(c) \/ Starts(c)
        BY <2>1, <2>3, StepKinds
      <3>2. QED
        BY <2>1, <2>2, <3>1, StackEnds, StackMakes, StackStarts
    <2>4. CASE UNCHANGED vars
      <3>1. SameJobs
        BY <2>4 DEF vars, jobVars, listVars, SameJobs
      <3>2. QED
        BY <2>2, <3>1
    <2>5. QED
      BY <2>1, <2>3, <2>4 DEF Next, Over
  <1>3. Spec => []SchedInv
    BY SchedInvariant
  <1>4. QED
    BY <1>1, <1>2, <1>3, PTL DEF Spec

\* StacksSound for every number of workers, jobs, queue slots and stacks that are
\* enough for the jobs.
THEOREM SchedStacksSound ==
  ASSUME NJobs <= RQCap, NJobs <= NStacks
  PROVE  Spec => []StacksSound
  <1>1. SchedInv /\ StackInv => StacksSound
    <2>1. SUFFICES ASSUME SchedInv, StackInv PROVE StacksSound
      OBVIOUS
    <2>2. /\ stack \in [Jobs -> 0 .. NStacks] /\ freeStacks \in Seq(1 .. NStacks) /\ NStacks \in Nat
      BY <2>1, SchedAssumption DEF SchedInv, TypeOK, SchedAssumption
    <2>3. StackOwned
      <3>1. ASSUME NEW j \in Jobs, Live(j), fiber[j] # "none"
            PROVE  /\ stack[j] \in (1 .. NStacks) \ Elems(freeStacks)
                   /\ \A k \in Jobs \ {j} : Live(k) => stack[k] # stack[j]
        <4>1. jstate[j] = "new" /\ stack[j] \in 0 .. NStacks
          BY <2>2, <3>1 DEF Live
        <4>2. stack[j] # 0 /\ stack[j] \notin Elems(freeStacks)
          BY <2>1, <3>1, <4>1 DEF StackInv
        <4>3. \A k \in Jobs \ {j} : Live(k) => stack[k] # stack[j]
          BY <2>1, <4>1, <4>2 DEF StackInv, Live
        <4>4. QED
          BY <2>2, <4>1, <4>2, <4>3
      <3>2. QED
        BY <3>1 DEF StackOwned
    <2>4. StackReturned
      <3>1. {j \in Jobs : Live(j) /\ stack[j] # 0} = Holders
        BY DEF Live, Holders
      <3>2. Len(freeStacks) \in Nat /\ Len(freeStacks) + Cardinality(Holders) = NStacks
        BY <2>1, <2>2 DEF StackInv
      <3>3. PICK h \in Nat : h = Cardinality(Holders)
        BY HoldersFinite
      <3>4. Len(freeStacks) = NStacks - h
        BY <2>2, <3>2, <3>3
      <3>5. QED
        BY <3>1, <3>3, <3>4 DEF StackReturned
    <2>5. QED
      BY <2>3, <2>4 DEF StacksSound
  <1>2. (Spec => []SchedInv) /\ (Spec => []StackInv)
    BY SchedInvariant, StackInvariant
  <1>3. QED
    BY <1>1, <1>2, PTL

\* What j's await returns is known: nil for an await of itself, else the result
\* of the finished job.
Answered(j) ==
  IF awaited[j] = j THEN arg[j] = Nil
  ELSE jstate[awaited[j]] = "done" /\ arg[j] = result[awaited[j]]

\* Where a job whose fiber is suspended in an await may be: answered when it is
\* queued, held or about to run, parked on the job it awaits, or in hand with
\* that job as the slice's outcome; and a job parked on a VM wait is in none.
AwaitOK(j) ==
  /\ fiber[j] = "await" /\ jstate[j] = "new" =>
       /\ awaited[j] \in Jobs /\ jstate[awaited[j]] # "none"
       /\ inRq[j] = 1 \/ "held" \in flags[j] => Answered(j)
       /\ target[j] # None => target[j] = awaited[j] /\ awaited[j] # j
       /\ \A w \in Workers : cur[w] = j =>
            /\ pc[w] = "resume" => Answered(j)
            /\ pc[w] \in {"fin", "unlink"} => oc[w] = 1 /\ out[w] = awaited[j]
  /\ \A w \in Workers :
       /\ j \in Elems(blocked[w]) /\ ~(cur[w] = j /\ pc[w] \in {"run", "unlink"}) => fiber[j] = "wait"
       /\ cur[w] = j /\ pc[w] \in {"fin", "unlink"} /\ oc[w] = 3 => fiber[j] = "wait"

AwaitInv == \A j \in Jobs : AwaitOK(j)

\* A finished job and its result stay, and so does a job.
Settled ==
  \A j \in Jobs : /\ jstate[j] = "done" => jstate'[j] = "done" /\ result'[j] = result[j]
                  /\ jstate[j] # "none" => jstate'[j] # "none"

\* No step undoes a finished job, or unmakes one.
LEMMA StepSettles ==
  ASSUME SchedInv, NEW w \in Workers, Step(w)
  PROVE  Settled
  <1>1. jstate \in [Jobs -> {"none", "new", "done"}] /\ result \in [Jobs -> Values]
    BY DEF SchedInv, TypeOK
  <1>2. SameJobs \/ \E c \in Jobs : Ends(c) \/ Makes(c) \/ Starts(c)
    BY StepKinds
  <1>3. CASE SameJobs
    BY <1>3 DEF SameJobs, Settled
  <1>4. ASSUME NEW c \in Jobs, Ends(c) \/ Makes(c) \/ Starts(c) PROVE Settled
    <2>1. CASE Ends(c)
      BY <1>1, <2>1 DEF Ends, Settled
    <2>2. CASE Makes(c)
      BY <1>1, <2>2 DEF Makes, Settled
    <2>3. CASE Starts(c)
      BY <2>3 DEF Starts, Settled
    <2>4. QED
      BY <1>4, <2>1, <2>2, <2>3
  <1>5. QED
    BY <1>2, <1>3, <1>4

\* A step that concerns c leaves the words and the places of the other jobs, but
\* for those that awaited c when it ended.
Others(c) ==
  /\ \A j \in Jobs : j # c =>
       /\ fiber'[j] = fiber[j] /\ awaited'[j] = awaited[j] /\ jstate'[j] = jstate[j] /\ owner'[j] = owner[j]
       /\ "held" \in flags'[j] <=> "held" \in flags[j]
       /\ \A v \in Workers : j \in Elems(blocked'[v]) <=> j \in Elems(blocked[v])
       /\ \/ target'[j] = target[j] /\ arg'[j] = arg[j]
          \/ target[j] = c /\ c # None /\ target'[j] = None /\ jstate'[c] = "done" /\ arg'[j] = result'[c]
  /\ \A v \in Workers :
       \/ cur'[v] = cur[v] /\ pc'[v] = pc[v] /\ oc'[v] = oc[v] /\ out'[v] = out[v]
       \/ (cur[v] = c \/ pc[v] \notin Hands) /\ (cur'[v] = c \/ pc'[v] \notin Hands)

\* A step that concerns c keeps the awaits of the other jobs sound.
LEMMA AwaitOthers ==
  ASSUME SchedInv, SchedInv', AwaitInv, Settled, NEW c, Others(c), NEW j \in Jobs, j # c
  PROVE  AwaitOK(j)'
  <1> USE JobFacts
  <1>1. JobHolds(j) /\ JobHolds(j)' /\ AwaitOK(j) /\ owner[j] \in Workers /\ inRq[j] \in {0, 1} /\ inRq'[j] \in {0, 1}
    BY DEF SchedInv, TypeOK, AwaitInv
  <1>2. /\ fiber'[j] = fiber[j] /\ awaited'[j] = awaited[j] /\ jstate'[j] = jstate[j] /\ owner'[j] = owner[j]
        /\ "held" \in flags'[j] <=> "held" \in flags[j]
        /\ \A v \in Workers : j \in Elems(blocked'[v]) <=> j \in Elems(blocked[v])
        /\ \/ target'[j] = target[j] /\ arg'[j] = arg[j]
           \/ target[j] = c /\ c # None /\ target'[j] = None /\ jstate'[c] = "done" /\ arg'[j] = result'[c]
    BY DEF Others
  <1>3. \A v \in Workers : /\ InHand(j, v)' <=> InHand(j, v)
                           /\ InHand(j, v) => pc'[v] = pc[v] /\ oc'[v] = oc[v] /\ out'[v] = out[v]
    BY DEF Others, InHand, Hands
  <1>4. Kept(j)' <=> Kept(j)
    BY <1>1, <1>2, <1>3 DEF Kept
  <1>5. ASSUME fiber[j] = "await", jstate[j] = "new"
        PROVE  (/\ awaited[j] \in Jobs /\ jstate[awaited[j]] # "none"
                /\ inRq[j] = 1 \/ "held" \in flags[j] => Answered(j)
                /\ target[j] # None => target[j] = awaited[j] /\ awaited[j] # j
                /\ \A w \in Workers : cur[w] = j =>
                     /\ pc[w] = "resume" => Answered(j)
                     /\ pc[w] \in {"fin", "unlink"} => oc[w] = 1 /\ out[w] = awaited[j])'
    <2>1. /\ awaited[j] \in Jobs /\ jstate[awaited[j]] # "none"
          /\ inRq[j] = 1 \/ "held" \in flags[j] => Answered(j)
          /\ target[j] # None => target[j] = awaited[j] /\ awaited[j] # j
          /\ \A w \in Workers : cur[w] = j =>
               /\ pc[w] = "resume" => Answered(j)
               /\ pc[w] \in {"fin", "unlink"} => oc[w] = 1 /\ out[w] = awaited[j]
      BY <1>1, <1>5 DEF AwaitOK
    <2>2. awaited'[j] \in Jobs /\ jstate'[awaited'[j]] # "none"
      BY <1>2, <2>1 DEF Settled
    <2>3. CASE target'[j] = target[j] /\ arg'[j] = arg[j]
      <3>1. Answered(j) => Answered(j)'
        BY <1>2, <2>1, <2>3 DEF Answered, Settled
      <3>2. inRq'[j] = 1 => inRq[j] = 1
        BY <1>1, <1>2, <1>4, <1>5, <2>3 DEF JobHolds
      <3>3. \A w \in Workers : cur'[w] = j =>
              /\ pc'[w] = "resume" => Answered(j)'
              /\ pc'[w] \in {"fin", "unlink"} => oc'[w] = 1 /\ out'[w] = awaited'[j]
        BY <1>2, <1>3, <2>1, <3>1 DEF InHand
      <3>4. QED
        BY <1>2, <2>1, <2>2, <2>3, <3>1, <3>2, <3>3
    <2>4. CASE target[j] = c /\ c # None /\ target'[j] = None /\ jstate'[c] = "done" /\ arg'[j] = result'[c]
      <3>1. awaited'[j] = c /\ c # j
        BY <1>2, <2>1, <2>4
      <3>2. Answered(j)'
        BY <2>4, <3>1 DEF Answered
      <3>3. \A w \in Workers : ~(InHand(j, w)')
        BY <1>1, <1>3, <1>5, <2>4 DEF JobHolds, Kept
      <3>4. QED
        BY <2>2, <2>4, <3>2, <3>3 DEF InHand
    <2>5. QED
      BY <1>2, <2>3, <2>4
  <1>6. ASSUME NEW v \in Workers
        PROVE  (/\ j \in Elems(blocked[v]) /\ ~(cur[v] = j /\ pc[v] \in {"run", "unlink"}) => fiber[j] = "wait"
                /\ cur[v] = j /\ pc[v] \in {"fin", "unlink"} /\ oc[v] = 3 => fiber[j] = "wait")'
    BY <1>1, <1>2, <1>3 DEF AwaitOK, InHand
  <1>7. QED
    BY <1>2, <1>5, <1>6 DEF AwaitOK

\* The awaits are sound after a step that concerns c if c's own is.
LEMMA AwaitKept ==
  ASSUME SchedInv, SchedInv', AwaitInv, NEW w \in Workers, Step(w), NEW c, Others(c), c \in Jobs => AwaitOK(c)'
  PROVE  AwaitInv'
  <1>1. Settled
    BY StepSettles
  <1>2. ASSUME NEW j \in Jobs PROVE AwaitOK(j)'
    <2>1. CASE j = c
      BY <2>1
    <2>2. CASE j # c
      BY <1>1, <2>2, AwaitOthers
    <2>3. QED
      BY <2>1, <2>2
  <1>3. QED
    BY <1>2 DEF AwaitInv

\* A job that is not kept after the step is neither in hand nor parked on a VM wait.
LEMMA AwaitAway ==
  ASSUME SchedInv', NEW c \in Jobs, ~Kept(c)',
         fiber'[c] = "await" /\ jstate'[c] = "new" =>
           /\ awaited'[c] \in Jobs /\ jstate'[awaited'[c]] # "none"
           /\ inRq'[c] = 1 \/ "held" \in flags'[c] => Answered(c)'
           /\ target'[c] # None => target'[c] = awaited'[c] /\ awaited'[c] # c
  PROVE  AwaitOK(c)'
  <1>1. JobHolds(c)' /\ owner'[c] \in Workers
    BY DEF SchedInv, TypeOK
  <1>2. \A v \in Workers : ~InHand(c, v)' /\ c \notin Elems(blocked'[v])
    BY <1>1 DEF JobHolds, Kept
  <1>3. QED
    BY <1>2 DEF AwaitOK, InHand

\* An ended job awaits nothing.
LEMMA AwaitEnded ==
  ASSUME SchedInv', NEW c \in Jobs, jstate'[c] = "done"
  PROVE  AwaitOK(c)'
  <1>1. JobHolds(c)'
    BY DEF SchedInv
  <1>2. ~Kept(c)'
    BY <1>1 DEF JobHolds
  <1>3. QED
    BY <1>2, AwaitAway

\* A completion answers the jobs parked on c and touches no other.
LEMMA CompleteAnswers ==
  ASSUME SchedInv, NEW c \in Jobs, NEW v, NEW q, NEW ir, NEW ws, NEW tg, complete_job(c, v, q, ir, ws, tg),
         \A j \in Jobs : j # c => (j \in Elems(ws[c]) <=> target[j] = c) /\ tg[j] = target[j]
  PROVE  /\ jstate'[c] = "done" /\ result'[c] = v
         /\ \A j \in Jobs : j # c =>
              /\ jstate'[j] = jstate[j]
              /\ \/ target'[j] = target[j] /\ arg'[j] = arg[j]
                 \/ target[j] = c /\ c # None /\ target'[j] = None /\ jstate'[c] = "done" /\ arg'[j] = result'[c]
  <1> USE JobFacts
  <1>1. /\ jstate \in [Jobs -> {"none", "new", "done"}] /\ result \in [Jobs -> Values]
    BY DEF SchedInv, TypeOK
  <1>2. PICK woken : woken = Elems(ws[c])
    OBVIOUS
  <1>3. /\ result' = [result EXCEPT ![c] = v] /\ jstate' = [jstate EXCEPT ![c] = "done"]
        /\ target' = [k \in Jobs |-> IF k \in woken THEN None ELSE tg[k]]
        /\ arg' = [k \in Jobs |-> IF k \in woken THEN v ELSE arg[k]]
    BY <1>2 DEF complete_job
  <1>4. jstate'[c] = "done" /\ result'[c] = v /\ \A j \in Jobs : j # c => jstate'[j] = jstate[j]
    BY <1>1, <1>3
  <1>5. \A j \in Jobs : j # c => (j \in woken <=> target[j] = c) /\ tg[j] = target[j]
    BY <1>2
  <1>6. QED
    BY <1>3, <1>4, <1>5

-----------------------------------------------------------------------------
(* What each step does to the awaits. *)

\* Steps that concern no job: the worker looks for one, or a request only marks one.
Quiet(w) ==
  /\ fiber' = fiber /\ awaited' = awaited /\ jstate' = jstate /\ owner' = owner /\ blocked' = blocked
  /\ target' = target /\ arg' = arg
  /\ \A j \in Jobs : "held" \in flags'[j] <=> "held" \in flags[j]
  /\ cur' = cur /\ oc' = oc /\ out' = out
  /\ \A v \in Workers : pc'[v] = pc[v] \/ (pc[v] \notin Hands /\ pc'[v] \notin Hands)

\* A step that concerns no job keeps the awaits sound.
LEMMA AwaitQuiet ==
  ASSUME SchedInv, SchedInv', AwaitInv, NEW w \in Workers, Step(w), Quiet(w)
  PROVE  AwaitInv'
  <1>1. Others(None)
    BY DEF Quiet, Others
  <1>2. QED
    BY <1>1, AwaitKept, JobFacts

\* A step that concerns no job keeps the awaits sound.
LEMMA Awaits_quiet ==
  ASSUME SchedInv, SchedInv', AwaitInv, NEW w \in Workers, Step(w),
         worker_thread(w) \/ NoJob(w) \/ AfterSlice(w) \/ (repoll_blocked(w) /\ rest[w] = <<>>)
           \/ (Pop(w) /\ rq[w] = <<>>)
  PROVE  AwaitInv'
  <1>1. pc \in [Workers -> PCs]
    BY DEF SchedInv, TypeOK
  <1>2. PICK g : pc' = [pc EXCEPT ![w] = g] /\ g \notin Hands /\ pc[w] \notin Hands
    <2>1. CASE worker_thread(w)
      BY <2>1 DEF worker_thread, Hands
    <2>2. CASE NoJob(w)
      BY <2>2 DEF NoJob, Hands
    <2>3. CASE AfterSlice(w)
      BY <2>3 DEF AfterSlice, Hands
    <2>4. CASE repoll_blocked(w) /\ rest[w] = <<>>
      BY <2>4 DEF repoll_blocked, Hands
    <2>5. CASE Pop(w) /\ rq[w] = <<>>
      BY <2>5 DEF Pop, Hands
    <2>6. QED
      BY <2>1, <2>2, <2>3, <2>4, <2>5
  <1>3. \A v \in Workers : pc'[v] = pc[v] \/ (pc[v] \notin Hands /\ pc'[v] \notin Hands)
    BY <1>1, <1>2
  <1>4. /\ fiber' = fiber /\ awaited' = awaited /\ jstate' = jstate /\ owner' = owner /\ blocked' = blocked
        /\ target' = target /\ arg' = arg /\ flags' = flags /\ cur' = cur /\ oc' = oc /\ out' = out
    BY DEF worker_thread, NoJob, AfterSlice, repoll_blocked, Pop, jobVars, listVars
  <1>5. Quiet(w)
    BY <1>3, <1>4 DEF Quiet
  <1>6. QED
    BY <1>5, AwaitQuiet

\* The end of a slice with outcome o: an await gives the awaited job, and only a
\* VM wait gives 3.
LEMMA AwaitSlice ==
  ASSUME SchedInv, SchedInv', AwaitInv, NEW w \in Workers, Step(w), pc[w] = "run",
         NEW f, NEW o, NEW x, Suspend(w, f, o, x), UNCHANGED SuspendOnly,
         \A j \in Jobs : "held" \in flags'[j] <=> "held" \in flags[j],
         \A j \in Jobs : j # cur[w] => awaited'[j] = awaited[j],
         f = "await" => o = 1 /\ x \in Jobs /\ x = awaited'[cur[w]] /\ jstate[x] # "none",
         o = 3 => f = "wait"
  PROVE  AwaitInv'
  <1> USE JobFacts
  <1>1. PICK c : c = cur[w]
    OBVIOUS
  <1>2. /\ pc[w] \in Hands /\ WorkerHolds(w) /\ fiber \in [Jobs -> FiberSet] /\ pc \in [Workers -> PCs]
        /\ oc \in [Workers -> 0 .. 3] /\ out \in [Workers -> Jobs \cup {0, Prime, Ctl}]
    BY DEF Hands, SchedInv, TypeOK
  <1>3. /\ c \in Jobs /\ jstate[c] = "new" /\ inRq[c] = 0 /\ target[c] = None /\ "held" \notin flags[c]
        /\ owner[c] = w
        /\ \A v \in Workers : pc[v] \in Hands /\ cur[v] = c => v = w
        /\ \A v \in Workers : c \in Elems(blocked[v]) => v = w
    BY <1>1, <1>2, HandFacts
  <1>4. /\ jstate' = jstate /\ owner' = owner /\ arg' = arg /\ target' = target /\ inRq' = inRq
        /\ blocked' = blocked /\ cur' = cur /\ sweep' = sweep
    BY DEF SuspendOnly, listVars
  <1>5. /\ fiber' = [fiber EXCEPT ![c] = f] /\ oc' = [oc EXCEPT ![w] = o] /\ out' = [out EXCEPT ![w] = x]
        /\ pc' = [pc EXCEPT ![w] = IF sweep[w] = "none" THEN "fin" ELSE IF o = 3 THEN "poll" ELSE "unlink"]
    BY <1>1 DEF Suspend, EndSlice
  <1>6. fiber'[c] = f /\ \A j \in Jobs : j # c => fiber'[j] = fiber[j]
    BY <1>2, <1>3, <1>5
  <1>7. /\ oc'[w] = o /\ out'[w] = x
        /\ pc'[w] = IF sweep[w] = "none" THEN "fin" ELSE IF o = 3 THEN "poll" ELSE "unlink"
        /\ \A v \in Workers : v # w => oc'[v] = oc[v] /\ out'[v] = out[v] /\ pc'[v] = pc[v]
    BY <1>2, <1>5
  <1>8. Others(c)
    BY <1>1, <1>4, <1>6, <1>7 DEF Others
  <1>9. AwaitOK(c)'
    <2>1. \A v \in Workers : v # w => c \notin Elems(blocked'[v]) /\ ~(cur'[v] = c /\ pc'[v] \in Hands)
      BY <1>3, <1>4, <1>7
    <2>2. c \in Elems(blocked'[w]) => sweep[w] # "none"
      BY <1>1, <1>2, <1>4 DEF WorkerHolds
    <2>3. ASSUME NEW v \in Workers
          PROVE  /\ c \in Elems(blocked'[v]) /\ ~(cur'[v] = c /\ pc'[v] \in {"run", "unlink"}) => fiber'[c] = "wait"
                 /\ cur'[v] = c /\ pc'[v] \in {"fin", "unlink"} /\ oc'[v] = 3 => fiber'[c] = "wait"
      <3>1. CASE v = w
        BY <1>1, <1>4, <1>6, <1>7, <2>2, <3>1
      <3>2. CASE v # w
        BY <2>1, <3>2 DEF Hands
      <3>3. QED
        BY <3>1, <3>2
    <2>4. ASSUME fiber'[c] = "await"
          PROVE  /\ awaited'[c] \in Jobs /\ jstate'[awaited'[c]] # "none"
                 /\ inRq'[c] = 0 /\ "held" \notin flags'[c] /\ target'[c] = None
                 /\ \A v \in Workers : cur'[v] = c =>
                      /\ pc'[v] # "resume"
                      /\ pc'[v] \in {"fin", "unlink"} => oc'[v] = 1 /\ out'[v] = awaited'[c]
      <3>1. o = 1 /\ x \in Jobs /\ x = awaited'[c] /\ jstate[x] # "none"
        BY <1>1, <1>6, <2>4
      <3>2. /\ awaited'[c] \in Jobs /\ jstate'[awaited'[c]] # "none"
            /\ inRq'[c] = 0 /\ "held" \notin flags'[c] /\ target'[c] = None
        BY <1>3, <1>4, <3>1
      <3>3. ASSUME NEW v \in Workers, cur'[v] = c
            PROVE  /\ pc'[v] # "resume"
                   /\ pc'[v] \in {"fin", "unlink"} => oc'[v] = 1 /\ out'[v] = awaited'[c]
        <4>1. CASE v = w
          BY <1>7, <3>1, <4>1
        <4>2. CASE v # w
          BY <2>1, <3>3, <4>2 DEF Hands
        <4>3. QED
          BY <4>1, <4>2
      <3>4. QED
        BY <3>2, <3>3
    <2>5. QED
      BY <2>3, <2>4 DEF AwaitOK
  <1>10. QED
    BY <1>8, <1>9, AwaitKept

\* The job's code: what ends a slice, and what goes on.
LEMMA Awaits_slices ==
  ASSUME SchedInv, SchedInv', AwaitInv, NEW w \in Workers, Step(w),
         PrimeRoot(w) \/ Return(w) \/ SleepOn(w) \/ StillParked(w) \/ jacl_ctl_point(w) \/ jacl_loop_point(w)
           \/ jacl_sleep(w) \/ jacl_task_end(w)
  PROVE  AwaitInv'
  <1>1. PICK f, o, x : /\ pc[w] = "run" /\ Suspend(w, f, o, x) /\ UNCHANGED SuspendOnly
                       /\ f # "await" /\ (o = 3 => f = "wait") /\ awaited' = awaited
    BY DEF PrimeRoot, Return, SleepOn, StillParked, jacl_ctl_point, jacl_loop_point, jacl_sleep, jacl_task_end, Running
  <1>2. \A j \in Jobs : "held" \in flags'[j] <=> "held" \in flags[j]
    <2>1. flags \in [Jobs -> SUBSET FlagSet]
      BY DEF SchedInv, TypeOK
    <2>2. flags' = flags \/ flags' = [flags EXCEPT ![cur[w]] = @ \cup {"cancel", "ends"}]
      BY DEF PrimeRoot, Return, SleepOn, StillParked, jacl_ctl_point, jacl_loop_point, jacl_sleep, jacl_task_end
    <2>3. QED
      BY <2>1, <2>2
  <1>3. QED
    BY <1>1, <1>2, AwaitSlice

\* jacl_await (sched.c:692-700) keeps the awaits sound.
LEMMA Awaits_jacl_await ==
  ASSUME SchedInv, SchedInv', AwaitInv, NEW w \in Workers, Step(w), jacl_await(w)
  PROVE  AwaitInv'
  <1>1. PICK k \in Futures : awaited' = [awaited EXCEPT ![cur[w]] = k] /\ Suspend(w, "await", 1, k)
    BY DEF jacl_await
  <1>2. pc[w] = "run" /\ UNCHANGED SuspendOnly /\ flags' = flags /\ pc[w] \in Hands
    BY DEF jacl_await, Running, Hands
  <1>3. cur[w] \in Jobs /\ awaited \in [Jobs -> Jobs \cup {None}]
    BY <1>2, HandFacts DEF SchedInv, TypeOK
  <1>4. k \in Jobs /\ jstate[k] # "none"
    BY DEF Futures, Exists
  <1>5. k = awaited'[cur[w]] /\ \A j \in Jobs : j # cur[w] => awaited'[j] = awaited[j]
    BY <1>1, <1>3
  <1>6. QED
    BY <1>1, <1>2, <1>4, <1>5, AwaitSlice

\* The end of a VM wait (builtins.c:784-790) keeps the awaits sound.
LEMMA Awaits_WaitEnds ==
  ASSUME SchedInv, SchedInv', AwaitInv, NEW w \in Workers, Step(w), WaitEnds(w)
  PROVE  AwaitInv'
  <1> USE JobFacts
  <1>1. PICK c : c = cur[w]
    OBVIOUS
  <1>2. /\ pc[w] = "run" /\ pc[w] \in Hands /\ fiber' = [fiber EXCEPT ![c] = "go"] /\ fiber \in [Jobs -> FiberSet]
        /\ jstate' = jstate /\ owner' = owner /\ arg' = arg /\ target' = target /\ blocked' = blocked /\ cur' = cur
        /\ flags' = flags /\ awaited' = awaited /\ oc' = oc /\ out' = out /\ pc' = pc
    BY <1>1 DEF WaitEnds, Running, Hands, SuspendOnly, listVars, SchedInv, TypeOK
  <1>3. /\ c \in Jobs
        /\ \A v \in Workers : pc[v] \in Hands /\ cur[v] = c => v = w
        /\ \A v \in Workers : c \in Elems(blocked[v]) => v = w
    BY <1>1, <1>2, HandFacts
  <1>4. fiber'[c] = "go" /\ \A j \in Jobs : j # c => fiber'[j] = fiber[j]
    BY <1>2, <1>3
  <1>5. Others(c)
    BY <1>2, <1>4 DEF Others
  <1>6. AwaitOK(c)'
    BY <1>1, <1>2, <1>3, <1>4 DEF AwaitOK, Hands
  <1>7. QED
    BY <1>5, <1>6, AwaitKept

\* resume_job (sched.c:339-369) keeps the awaits sound.
LEMMA Awaits_resume_job ==
  ASSUME SchedInv, SchedInv', AwaitInv, NEW w \in Workers, Step(w), resume_job(w)
  PROVE  AwaitInv'
  <1> USE JobFacts
  <1>1. PICK c : c = cur[w]
    OBVIOUS
  <1>2. /\ pc[w] = "resume" /\ pc[w] \in Hands /\ fiber \in [Jobs -> FiberSet] /\ pc \in [Workers -> PCs]
        /\ jstate' = jstate /\ owner' = owner /\ arg' = arg /\ target' = target /\ blocked' = blocked /\ cur' = cur
        /\ flags' = flags /\ awaited' = awaited /\ out' = out
    BY DEF resume_job, Hands, SchedInv, TypeOK
  <1>3. /\ c \in Jobs /\ claim[c] = 0
        /\ \A v \in Workers : pc[v] \in Hands /\ cur[v] = c => v = w
        /\ \A v \in Workers : c \in Elems(blocked[v]) => v = w
    BY <1>1, <1>2, HandFacts
  <1>4. pc' = [pc EXCEPT ![w] = "run"] /\ oc' = oc
    BY <1>1, <1>3 DEF resume_job
  <1>5. PICK g : g # "await" /\ fiber' = [fiber EXCEPT ![c] = g]
    <2>1. \/ fiber' = [fiber EXCEPT ![c] = IF c = Root THEN "start" ELSE "go"]
          \/ fiber' = [fiber EXCEPT ![c] = IF fiber[c] \in {"wait", "nap"} THEN fiber[c] ELSE "go"]
      BY <1>1, <1>3 DEF resume_job
    <2>2. (IF c = Root THEN "start" ELSE "go") # "await" /\ (IF fiber[c] \in {"wait", "nap"} THEN fiber[c] ELSE "go") # "await"
      OBVIOUS
    <2>3. QED
      BY <2>1, <2>2
  <1>6. fiber'[c] # "await" /\ \A j \in Jobs : j # c => fiber'[j] = fiber[j]
    BY <1>2, <1>3, <1>5
  <1>7. pc'[w] = "run" /\ \A v \in Workers : v # w => pc'[v] = pc[v]
    BY <1>2, <1>4
  <1>8. Others(c)
    BY <1>1, <1>2, <1>4, <1>6, <1>7 DEF Others
  <1>9. AwaitOK(c)'
    <2>1. ASSUME NEW v \in Workers
          PROVE  /\ c \in Elems(blocked'[v]) /\ ~(cur'[v] = c /\ pc'[v] \in {"run", "unlink"}) => fiber'[c] = "wait"
                 /\ cur'[v] = c /\ pc'[v] \in {"fin", "unlink"} /\ oc'[v] = 3 => fiber'[c] = "wait"
      <3>1. CASE v = w
        BY <1>1, <1>2, <1>7, <3>1
      <3>2. CASE v # w
        BY <1>2, <1>3, <1>7, <3>2 DEF Hands
      <3>3. QED
        BY <3>1, <3>2
    <2>2. QED
      BY <1>6, <2>1 DEF AwaitOK
  <1>10. QED
    BY <1>8, <1>9, AwaitKept

\* Parking on a VM wait (sched.c:508-515) keeps the awaits sound.
LEMMA Awaits_PushBlocked ==
  ASSUME SchedInv, SchedInv', AwaitInv, NEW w \in Workers, Step(w), PushBlocked(w)
  PROVE  AwaitInv'
  <1> USE JobFacts
  <1>1. PICK c : c = cur[w]
    OBVIOUS
  <1>2. /\ pc[w] = "fin" /\ oc[w] = 3 /\ pc[w] \in Hands /\ pc \in [Workers -> PCs] /\ WorkerHolds(w)
        /\ blocked \in [Workers -> Seq(Jobs)] /\ blocked' = [blocked EXCEPT ![w] = <<c>> \o blocked[w]]
        /\ pc' = [pc EXCEPT ![w] = "after"]
        /\ jstate' = jstate /\ owner' = owner /\ arg' = arg /\ target' = target /\ cur' = cur
        /\ flags' = flags /\ awaited' = awaited /\ out' = out /\ oc' = oc /\ fiber' = fiber
    BY <1>1 DEF PushBlocked, Hands, SchedInv, TypeOK, jobVars
  <1>3. c \in Jobs /\ AwaitOK(c)
    BY <1>1, <1>2, HandFacts DEF AwaitInv
  <1>4. fiber[c] = "wait"
    BY <1>1, <1>2, <1>3 DEF AwaitOK
  <1>5. c \notin Elems(blocked[w])
    BY <1>1, <1>2 DEF WorkerHolds
  <1>6. blocked'[w] = <<c>> \o blocked[w] /\ \A v \in Workers : v # w => blocked'[v] = blocked[v]
    BY <1>2
  <1>7. Elems(blocked'[w]) = Elems(blocked[w]) \cup {c}
    <2>1. PICK s : s = blocked[w]
      OBVIOUS
    <2>2. s \in Seq(Jobs) /\ Distinct(s) /\ c \notin Elems(s)
      BY <1>2, <1>5, <2>1 DEF SchedInv, ListsHold
    <2>3. Elems(<<c>> \o s) = Elems(s) \cup {c}
      BY <1>3, <2>2, ConsElems
    <2>4. QED
      BY <1>6, <2>1, <2>3
  <1>8. pc'[w] = "after" /\ \A v \in Workers : v # w => pc'[v] = pc[v]
    BY <1>2
  <1>9. \A j \in Jobs : j # c => \A v \in Workers : j \in Elems(blocked'[v]) <=> j \in Elems(blocked[v])
    BY <1>6, <1>7
  <1>10. \A v \in Workers :
           \/ cur'[v] = cur[v] /\ pc'[v] = pc[v] /\ oc'[v] = oc[v] /\ out'[v] = out[v]
           \/ (cur[v] = c \/ pc[v] \notin Hands) /\ (cur'[v] = c \/ pc'[v] \notin Hands)
    BY <1>1, <1>2, <1>8
  <1>11. Others(c)
    BY <1>2, <1>9, <1>10 DEF Others
  <1>12. AwaitOK(c)'
    BY <1>2, <1>4 DEF AwaitOK
  <1>13. QED
    BY <1>11, <1>12, AwaitKept

\* Leaving the blocked list (sched.c:438-450) keeps the awaits sound.
LEMMA Awaits_Unlink ==
  ASSUME SchedInv, SchedInv', AwaitInv, NEW w \in Workers, Step(w), Unlink(w)
  PROVE  AwaitInv'
  <1> USE JobFacts
  <1>1. PICK c : c = cur[w]
    OBVIOUS
  <1>2. /\ pc[w] = "unlink" /\ pc[w] \in Hands /\ pc \in [Workers -> PCs]
        /\ blocked \in [Workers -> Seq(Jobs)] /\ blocked' = [blocked EXCEPT ![w] = Without(blocked[w], c)]
        /\ pc' = [pc EXCEPT ![w] = "fin"]
        /\ jstate' = jstate /\ owner' = owner /\ arg' = arg /\ target' = target /\ cur' = cur /\ inRq' = inRq
        /\ flags' = flags /\ awaited' = awaited /\ out' = out /\ oc' = oc /\ fiber' = fiber
    BY <1>1 DEF Unlink, Hands, SchedInv, TypeOK, jobVars
  <1>3. /\ c \in Jobs /\ AwaitOK(c) /\ inRq[c] = 0 /\ target[c] = None /\ "held" \notin flags[c] /\ jstate[c] = "new"
        /\ \A v \in Workers : pc[v] \in Hands /\ cur[v] = c => v = w
        /\ \A v \in Workers : c \in Elems(blocked[v]) => v = w
    BY <1>1, <1>2, HandFacts DEF AwaitInv
  <1>4. blocked'[w] = Without(blocked[w], c) /\ \A v \in Workers : v # w => blocked'[v] = blocked[v]
    BY <1>2
  <1>5. Elems(blocked'[w]) = Elems(blocked[w]) \ {c}
    <2>1. PICK s : s = blocked[w]
      OBVIOUS
    <2>2. s \in Seq(Jobs) /\ Distinct(s)
      BY <1>2, <2>1 DEF SchedInv, ListsHold
    <2>3. Elems(Without(s, c)) = Elems(s) \ {c}
      BY <2>2, WithoutElems
    <2>4. QED
      BY <1>4, <2>1, <2>3
  <1>6. pc'[w] = "fin" /\ \A v \in Workers : v # w => pc'[v] = pc[v]
    BY <1>2
  <1>7. \A j \in Jobs : j # c => \A v \in Workers : j \in Elems(blocked'[v]) <=> j \in Elems(blocked[v])
    BY <1>4, <1>5
  <1>8. \A v \in Workers :
           \/ cur'[v] = cur[v] /\ pc'[v] = pc[v] /\ oc'[v] = oc[v] /\ out'[v] = out[v]
           \/ (cur[v] = c \/ pc[v] \notin Hands) /\ (cur'[v] = c \/ pc'[v] \notin Hands)
    BY <1>1, <1>2, <1>6
  <1>9. Others(c)
    BY <1>2, <1>7, <1>8 DEF Others
  <1>10. AwaitOK(c)'
    <2>1. \A v \in Workers : c \notin Elems(blocked'[v])
      BY <1>3, <1>4, <1>5
    <2>2. \A v \in Workers : v # w => ~(cur'[v] = c /\ pc'[v] \in Hands)
      BY <1>2, <1>3, <1>6
    <2>3. oc[w] = 3 => fiber[c] = "wait"
      BY <1>1, <1>2, <1>3 DEF AwaitOK
    <2>4. fiber[c] = "await" => awaited[c] \in Jobs /\ jstate[awaited[c]] # "none" /\ oc[w] = 1 /\ out[w] = awaited[c]
      BY <1>1, <1>2, <1>3 DEF AwaitOK
    <2>5. ASSUME NEW v \in Workers, cur'[v] = c, pc'[v] \in Hands
          PROVE  v = w /\ pc'[v] = "fin"
      BY <1>6, <2>2, <2>5
    <2>6. \A v \in Workers : cur'[v] = c /\ pc'[v] \in {"fin", "unlink"} /\ oc'[v] = 3 => fiber'[c] = "wait"
      BY <1>2, <2>3, <2>5 DEF Hands
    <2>7. fiber'[c] = "await" =>
            \A v \in Workers : cur'[v] = c =>
              /\ pc'[v] # "resume" /\ (pc'[v] \in {"fin", "unlink"} => oc'[v] = 1 /\ out'[v] = awaited'[c])
      BY <1>2, <2>4, <2>5 DEF Hands
    <2>8. fiber'[c] = "await" =>
            /\ awaited'[c] \in Jobs /\ jstate'[awaited'[c]] # "none" /\ inRq'[c] = 0 /\ "held" \notin flags'[c]
            /\ target'[c] = None
      BY <1>2, <1>3, <2>4
    <2>9. QED
      BY <2>1, <2>6, <2>7, <2>8 DEF AwaitOK
  <1>11. QED
    BY <1>9, <1>10, AwaitKept

\* repoll_blocked (sched.c:425-437) keeps the awaits sound.
LEMMA Awaits_repoll_blocked ==
  ASSUME SchedInv, SchedInv', AwaitInv, NEW w \in Workers, Step(w), repoll_blocked(w), rest[w] # <<>>
  PROVE  AwaitInv'
  <1> USE JobFacts
  <1>1. PICK c : c = Head(rest[w])
    OBVIOUS
  <1>2. /\ pc[w] = "poll" /\ pc \in [Workers -> PCs] /\ cur \in [Workers -> Jobs \cup {None}] /\ WorkerHolds(w)
        /\ cur' = [cur EXCEPT ![w] = c] /\ pc' = [pc EXCEPT ![w] = "resume"]
        /\ jstate' = jstate /\ owner' = owner /\ arg' = arg /\ target' = target /\ blocked' = blocked
        /\ flags' = flags /\ awaited' = awaited /\ out' = out /\ oc' = oc /\ fiber' = fiber
    BY <1>1 DEF repoll_blocked, SchedInv, TypeOK, jobVars, listVars
  <1>3. c \in Jobs /\ c \in Elems(rest[w])
    <2>1. PICK s : s = rest[w]
      OBVIOUS
    <2>2. s \in Seq(Jobs) /\ s # <<>> /\ Distinct(s)
      BY <2>1 DEF SchedInv, TypeOK, ListsHold
    <2>3. Head(s) \in Jobs /\ Head(s) \in Elems(s)
      BY <2>2, TailElems
    <2>4. QED
      BY <1>1, <2>1, <2>3
  <1>4. c \in Elems(blocked[w]) /\ AwaitOK(c)
    BY <1>2, <1>3 DEF WorkerHolds, AwaitInv
  <1>5. fiber[c] = "wait"
    BY <1>2, <1>4 DEF AwaitOK
  <1>6. /\ pc'[w] = "resume" /\ cur'[w] = c
        /\ \A v \in Workers : v # w => pc'[v] = pc[v] /\ cur'[v] = cur[v]
    BY <1>2
  <1>7. Others(c)
    <2>1. pc[w] \notin Hands
      BY <1>2 DEF Hands
    <2>2. \A v \in Workers :
            \/ cur'[v] = cur[v] /\ pc'[v] = pc[v] /\ oc'[v] = oc[v] /\ out'[v] = out[v]
            \/ (cur[v] = c \/ pc[v] \notin Hands) /\ (cur'[v] = c \/ pc'[v] \notin Hands)
      BY <1>2, <1>6, <2>1
    <2>3. QED
      BY <1>2, <2>2 DEF Others
  <1>8. AwaitOK(c)'
    BY <1>2, <1>5 DEF AwaitOK
  <1>9. QED
    BY <1>7, <1>8, AwaitKept

\* A step that leaves c with no worker: what it has to show of c.
LEMMA AwaitMoved ==
  ASSUME SchedInv, SchedInv', AwaitInv, NEW w \in Workers, Step(w), NEW c \in Jobs,
         fiber' = fiber /\ awaited' = awaited /\ owner' = owner /\ blocked' = blocked /\ cur' = cur /\ oc' = oc /\ out' = out,
         \A j \in Jobs : j # c =>
           /\ "held" \in flags'[j] <=> "held" \in flags[j]
           /\ jstate'[j] = jstate[j]
           /\ \/ target'[j] = target[j] /\ arg'[j] = arg[j]
              \/ target[j] = c /\ c # None /\ target'[j] = None /\ jstate'[c] = "done" /\ arg'[j] = result'[c],
         \A v \in Workers : pc'[v] = pc[v] \/ ((cur[v] = c \/ pc[v] \notin Hands) /\ pc'[v] \notin Hands),
         AwaitOK(c)'
  PROVE  AwaitInv'
  <1>1. \A v \in Workers :
          \/ cur'[v] = cur[v] /\ pc'[v] = pc[v] /\ oc'[v] = oc[v] /\ out'[v] = out[v]
          \/ (cur[v] = c \/ pc[v] \notin Hands) /\ (cur'[v] = c \/ pc'[v] \notin Hands)
    OBVIOUS
  <1>2. Others(c)
    BY <1>1 DEF Others
  <1>3. QED
    BY <1>2, AwaitKept

\* A completion, whoever makes it.
LEMMA AwaitCompleted ==
  ASSUME SchedInv, SchedInv', AwaitInv, NEW w \in Workers, Step(w), NEW c \in Jobs,
         fiber' = fiber /\ awaited' = awaited /\ owner' = owner /\ blocked' = blocked /\ cur' = cur /\ oc' = oc /\ out' = out,
         \A j \in Jobs : j # c => flags'[j] = flags[j],
         \A v \in Workers : pc'[v] = pc[v] \/ ((cur[v] = c \/ pc[v] \notin Hands) /\ pc'[v] \notin Hands),
         NEW v, NEW q, NEW ir, NEW ws, NEW tg, complete_job(c, v, q, ir, ws, tg),
         \A j \in Jobs : j # c => (j \in Elems(ws[c]) <=> target[j] = c) /\ tg[j] = target[j]
  PROVE  AwaitInv'
  <1>1. /\ jstate'[c] = "done"
        /\ \A j \in Jobs : j # c =>
              /\ jstate'[j] = jstate[j]
              /\ \/ target'[j] = target[j] /\ arg'[j] = arg[j]
                 \/ target[j] = c /\ c # None /\ target'[j] = None /\ jstate'[c] = "done" /\ arg'[j] = result'[c]
    BY CompleteAnswers
  <1>2. AwaitOK(c)'
    BY <1>1, AwaitEnded
  <1>3. QED
    BY <1>1, <1>2, AwaitMoved

\* The jobs parked on c are on its list.
LEMMA WaitersAre ==
  ASSUME SchedInv, NEW c \in Jobs
  PROVE  \A j \in Jobs : j # c => (j \in Elems(waiters[c]) <=> target[j] = c) /\ target[j] = target[j]
  BY DEF SchedInv, ListsHold

\* The pop loop (sched.c:478-487) keeps the awaits sound.
LEMMA Awaits_Pop ==
  ASSUME SchedInv, SchedInv', AwaitInv, NEW w \in Workers, Step(w), Pop(w), rq[w] # <<>>
  PROVE  AwaitInv'
  <1> USE JobFacts
  <1>1. PICK c : c = Head(rq[w])
    OBVIOUS
  <1>2. PICK q : q = [rq EXCEPT ![w] = Tail(@)]
    OBVIOUS
  <1>3. PICK ir : ir = [inRq EXCEPT ![c] = 0]
    OBVIOUS
  <1>4. Popped(c, w, q, ir)
    BY <1>1, <1>2, <1>3, PopQueue
  <1>5. c \in Jobs /\ jstate[c] = "new" /\ target[c] = None /\ ~Kept(c) /\ inRq[c] = 1
    BY <1>4 DEF Popped
  <1>6. /\ fiber' = fiber /\ awaited' = awaited /\ owner' = owner /\ blocked' = blocked /\ oc' = oc /\ out' = out
        /\ pc[w] \notin Hands /\ pc \in [Workers -> PCs]
    BY DEF Pop, Hands, SchedInv, TypeOK
  <1>7. AwaitOK(c) /\ \A v \in Workers : ~InHand(c, v) /\ c \notin Elems(blocked[v])
    BY <1>5, NotKept DEF AwaitInv
  <1>8. fiber[c] = "await" => awaited[c] \in Jobs /\ jstate[awaited[c]] # "none" /\ Answered(c)
    BY <1>5, <1>7 DEF AwaitOK
  <1>9. \/ /\ job_cancel_now(c, q, ir, waiters, target) /\ pc' = [pc EXCEPT ![w] = "pop"]
           /\ flags' = flags /\ cur' = cur
        \/ /\ Hold(c) /\ pc' = [pc EXCEPT ![w] = "pop"] /\ cur' = cur
           /\ jstate' = jstate /\ result' = result /\ arg' = arg /\ target' = target
        \/ /\ cur' = [cur EXCEPT ![w] = c] /\ pc' = [pc EXCEPT ![w] = "resume"]
           /\ jstate' = jstate /\ result' = result /\ arg' = arg /\ target' = target /\ flags' = flags
    BY <1>1, <1>2, <1>3 DEF Pop
  <1>10. pc' = [pc EXCEPT ![w] = "pop"] =>
           \A v \in Workers : pc'[v] = pc[v] \/ ((cur[v] = c \/ pc[v] \notin Hands) /\ pc'[v] \notin Hands)
    BY <1>6 DEF Hands
  <1>11. CASE /\ job_cancel_now(c, q, ir, waiters, target) /\ pc' = [pc EXCEPT ![w] = "pop"]
              /\ flags' = flags /\ cur' = cur
    <2>1. PICK v : complete_job(c, v, q, ir, waiters, target)
      BY <1>11 DEF job_cancel_now
    <2>2. \A j \in Jobs : j # c => (j \in Elems(waiters[c]) <=> target[j] = c) /\ target[j] = target[j]
      BY <1>5, WaitersAre
    <2>3. QED
      BY <1>5, <1>6, <1>10, <1>11, <2>1, <2>2, AwaitCompleted
  <1>12. CASE /\ Hold(c) /\ pc' = [pc EXCEPT ![w] = "pop"] /\ cur' = cur
              /\ jstate' = jstate /\ result' = result /\ arg' = arg /\ target' = target
    <2>1. flags \in [Jobs -> SUBSET FlagSet] /\ flags' = [flags EXCEPT ![c] = @ \cup {"held"}]
      BY <1>12 DEF Hold, SchedInv, TypeOK
    <2>2. \A j \in Jobs : j # c => ("held" \in flags'[j] <=> "held" \in flags[j])
      BY <1>5, <2>1
    <2>3. "held" \in flags'[c] /\ jstate'[c] = "new"
      BY <1>5, <1>12, <2>1
    <2>4. JobHolds(c)'
      BY <1>5 DEF SchedInv
    <2>5. ~Kept(c)'
      BY <2>3, <2>4 DEF JobHolds
    <2>6. fiber[c] = "await" => Answered(c)'
      BY <1>6, <1>8, <1>12 DEF Answered
    <2>7. AwaitOK(c)'
      BY <1>5, <1>6, <1>8, <1>12, <2>5, <2>6, AwaitAway
    <2>8. QED
      BY <1>5, <1>6, <1>10, <1>12, <2>2, <2>7, AwaitMoved
  <1>13. CASE /\ cur' = [cur EXCEPT ![w] = c] /\ pc' = [pc EXCEPT ![w] = "resume"]
              /\ jstate' = jstate /\ result' = result /\ arg' = arg /\ target' = target /\ flags' = flags
    <2>1. cur \in [Workers -> Jobs \cup {None}]
      BY DEF SchedInv, TypeOK
    <2>2. /\ pc'[w] = "resume" /\ cur'[w] = c
          /\ \A v \in Workers : v # w => pc'[v] = pc[v] /\ cur'[v] = cur[v]
      BY <1>6, <1>13, <2>1
    <2>3. Others(c)
      <3>1. \A v \in Workers :
              \/ cur'[v] = cur[v] /\ pc'[v] = pc[v] /\ oc'[v] = oc[v] /\ out'[v] = out[v]
              \/ (cur[v] = c \/ pc[v] \notin Hands) /\ (cur'[v] = c \/ pc'[v] \notin Hands)
        BY <1>6, <2>2
      <3>2. QED
        BY <1>6, <1>13, <3>1 DEF Others
    <2>4. fiber[c] = "await" => Answered(c)'
      BY <1>6, <1>8, <1>13 DEF Answered
    <2>5. \A v \in Workers : c \notin Elems(blocked'[v]) /\ ~(cur'[v] = c /\ pc'[v] \in {"fin", "unlink"})
      BY <1>6, <1>7, <2>2 DEF InHand
    <2>6. AwaitOK(c)'
      BY <1>5, <1>6, <1>8, <1>13, <2>4, <2>5 DEF AwaitOK
    <2>7. QED
      BY <2>3, <2>6, AwaitKept
  <1>14. QED
    BY <1>9, <1>11, <1>12, <1>13

\* jacl_spawn (sched.c:619-632) keeps the awaits sound.
LEMMA Awaits_jacl_spawn ==
  ASSUME SchedInv, SchedInv', AwaitInv, NEW w \in Workers, Step(w), jacl_spawn(w)
  PROVE  AwaitInv'
  <1> USE JobFacts
  <1>1. PICK k \in Jobs : /\ jstate[k] = "none" /\ jstate' = [jstate EXCEPT ![k] = "new"]
                          /\ owner' = [owner EXCEPT ![k] = ownerRr % NWorkers]
    BY DEF jacl_spawn, Exists
  <1>2. /\ arg' = arg /\ target' = target /\ flags' = flags /\ fiber' = fiber /\ awaited' = awaited
        /\ blocked' = blocked /\ pc' = pc /\ cur' = cur /\ oc' = oc /\ out' = out
    BY DEF jacl_spawn, wVars
  <1>3. JobHolds(k) /\ jstate \in [Jobs -> {"none", "new", "done"}] /\ owner \in [Jobs -> Workers]
    BY DEF SchedInv, TypeOK
  <1>4. \A j \in Jobs : j # k => jstate'[j] = jstate[j] /\ owner'[j] = owner[j]
    BY <1>1, <1>3
  <1>5. fiber[k] = "none" /\ ~Kept(k)
    BY <1>1, <1>3 DEF JobHolds
  <1>6. \A v \in Workers : ~InHand(k, v) /\ k \notin Elems(blocked[v])
    BY <1>5, NotKept
  <1>7. AwaitOK(k)'
    BY <1>2, <1>5, <1>6 DEF AwaitOK, InHand
  <1>8. Others(k)
    BY <1>2, <1>4 DEF Others
  <1>9. QED
    BY <1>7, <1>8, AwaitKept

\* finish_job_outcome (sched.c:384-423) keeps the awaits sound.
LEMMA Awaits_finish_job_outcome ==
  ASSUME SchedInv, SchedInv', AwaitInv, NEW w \in Workers, Step(w), finish_job_outcome(w)
  PROVE  AwaitInv'
  <1> USE JobFacts
  <1>1. PICK c : c = cur[w]
    OBVIOUS
  <1>2. PICK t : t = out[w]
    OBVIOUS
  <1>3. /\ pc[w] = "fin" /\ pc[w] \in Hands /\ oc[w] # 3 /\ pc \in [Workers -> PCs] /\ WorkerHolds(w)
        /\ owner' = owner /\ fiber' = fiber /\ awaited' = awaited /\ blocked' = blocked
        /\ cur' = cur /\ oc' = oc /\ out' = out
        /\ pc' = [pc EXCEPT ![w] = IF sweep[w] = "none" THEN "after" ELSE "poll"]
        /\ flags \in [Jobs -> SUBSET FlagSet] /\ arg \in [Jobs -> Values] /\ target \in [Jobs -> Jobs \cup {None}]
    BY DEF finish_job_outcome, Hands, SchedInv, TypeOK
  <1>4. c \in Jobs /\ jstate[c] = "new" /\ owner[c] = w /\ target[c] = None
    BY <1>1, <1>3, HandFacts
  <1>5. AwaitOK(c)
    BY <1>4 DEF AwaitInv
  <1>6. fiber[c] = "await" => awaited[c] \in Jobs /\ jstate[awaited[c]] # "none" /\ oc[w] = 1 /\ t = awaited[c]
    BY <1>1, <1>2, <1>3, <1>4, <1>5 DEF AwaitOK
  <1>7. \A v \in Workers : pc'[v] = pc[v] \/ ((cur[v] = c \/ pc[v] \notin Hands) /\ pc'[v] \notin Hands)
    BY <1>1, <1>3 DEF Hands
  <1>8. ~Kept(c)'
    <2>1. pc'[w] \notin Hands
      BY <1>3 DEF Hands
    <2>2. c \notin Elems(blocked[w])
      BY <1>1, <1>3 DEF WorkerHolds
    <2>3. QED
      BY <1>3, <1>4, <2>1, <2>2 DEF Kept, InHand, Hands
  <1>9. ASSUME NEW v, complete_job(c, v, rq, inRq, waiters, target), flags' = flags
        PROVE  AwaitInv'
    <2>1. \A j \in Jobs : j # c => (j \in Elems(waiters[c]) <=> target[j] = c) /\ target[j] = target[j]
      BY <1>4, WaitersAre
    <2>2. QED
      BY <1>3, <1>4, <1>7, <1>9, <2>1, AwaitCompleted
  <1>10. ASSUME jstate' = jstate, NEW v, arg' = [arg EXCEPT ![c] = v] \/ arg' = arg,
                \A j \in Jobs : j # c => ("held" \in flags'[j] <=> "held" \in flags[j]) /\ target'[j] = target[j],
                fiber[c] = "await" => /\ inRq'[c] = 1 \/ "held" \in flags'[c] => Answered(c)'
                                      /\ target'[c] # None => target'[c] = awaited[c] /\ awaited[c] # c
         PROVE  AwaitInv'
    <2>1. \A j \in Jobs : j # c => arg'[j] = arg[j]
      BY <1>3, <1>4, <1>10
    <2>2. AwaitOK(c)'
      BY <1>3, <1>4, <1>6, <1>8, <1>10, AwaitAway
    <2>3. QED
      BY <1>3, <1>4, <1>7, <1>10, <2>1, <2>2, AwaitMoved
  <1>11. oc[w] # 2
    BY <1>3 DEF WorkerHolds
  <1>12. \/ oc[w] = 0 /\ complete_job(c, t, rq, inRq, waiters, target) /\ flags' = flags
         \/ job_cancel_now(c, rq, inRq, waiters, target) /\ flags' = flags
         \/ /\ oc[w] = 1 /\ t \in {Prime, Ctl}
            /\ arg' = [arg EXCEPT ![c] = Nil] /\ jstate' = jstate /\ target' = target /\ (flags' = flags \/ Hold(c))
         \/ /\ oc[w] = 1 /\ t \in Jobs /\ AnswerNow(c, t) /\ arg' = [arg EXCEPT ![c] = IF t = c THEN Nil ELSE result[t]]
            /\ jstate' = jstate /\ result' = result /\ target' = target /\ flags' = flags
         \/ /\ oc[w] = 1 /\ t \in Jobs /\ ~AnswerNow(c, t) /\ target' = [target EXCEPT ![c] = t]
            /\ jstate' = jstate /\ arg' = arg /\ flags' = flags /\ inRq' = inRq
    BY <1>1, <1>2, <1>11 DEF finish_job_outcome
  <1>13. CASE oc[w] = 0 /\ complete_job(c, t, rq, inRq, waiters, target) /\ flags' = flags
    BY <1>9, <1>13
  <1>14. CASE job_cancel_now(c, rq, inRq, waiters, target) /\ flags' = flags
    <2>1. PICK v : complete_job(c, v, rq, inRq, waiters, target)
      BY <1>14 DEF job_cancel_now
    <2>2. QED
      BY <1>9, <1>14, <2>1
  <1>15. CASE /\ oc[w] = 1 /\ t \in {Prime, Ctl}
              /\ arg' = [arg EXCEPT ![c] = Nil] /\ jstate' = jstate /\ target' = target /\ (flags' = flags \/ Hold(c))
    <2>1. fiber[c] # "await"
      BY <1>6, <1>15
    <2>2. \A j \in Jobs : j # c => ("held" \in flags'[j] <=> "held" \in flags[j])
      BY <1>3, <1>4, <1>15 DEF Hold
    <2>3. QED
      BY <1>10, <1>15, <2>1, <2>2
  <1>16. CASE /\ oc[w] = 1 /\ t \in Jobs /\ AnswerNow(c, t) /\ arg' = [arg EXCEPT ![c] = IF t = c THEN Nil ELSE result[t]]
              /\ jstate' = jstate /\ result' = result /\ target' = target /\ flags' = flags
    <2>1. arg'[c] = IF t = c THEN Nil ELSE result[t]
      BY <1>3, <1>4, <1>16
    <2>2. fiber[c] = "await" => Answered(c)'
      BY <1>3, <1>6, <1>16, <2>1 DEF Answered, AnswerNow
    <2>3. PICK u : u = IF t = c THEN Nil ELSE result[t]
      OBVIOUS
    <2>4. arg' = [arg EXCEPT ![c] = u]
      BY <1>16, <2>3
    <2>5. target'[c] = None
      BY <1>4, <1>16
    <2>6. QED
      BY <1>10, <1>16, <2>2, <2>4, <2>5
  <1>17. CASE /\ oc[w] = 1 /\ t \in Jobs /\ ~AnswerNow(c, t) /\ target' = [target EXCEPT ![c] = t]
              /\ jstate' = jstate /\ arg' = arg /\ flags' = flags /\ inRq' = inRq
    <2>1. target'[c] = t /\ \A j \in Jobs : j # c => target'[j] = target[j]
      BY <1>3, <1>4, <1>17
    <2>2. t # c
      BY <1>17 DEF AnswerNow
    <2>3. inRq[c] = 0 /\ "held" \notin flags[c]
      BY <1>1, <1>3, HandFacts
    <2>4. QED
      BY <1>6, <1>10, <1>17, <2>1, <2>2, <2>3
  <1>18. QED
    BY <1>12, <1>13, <1>14, <1>15, <1>16, <1>17

\* A request that only marks its job.
LEMMA AwaitMarked ==
  ASSUME SchedInv, SchedInv', AwaitInv, NEW w \in Workers, Step(w), UNCHANGED RequestOnly,
         jstate' = jstate, arg' = arg, target' = target,
         \A j \in Jobs : "held" \in flags'[j] <=> "held" \in flags[j]
  PROVE  AwaitInv'
  <1>1. Quiet(w)
    BY DEF RequestOnly, wVars, Quiet
  <1>2. QED
    BY <1>1, AwaitQuiet

\* jacl_suspend (sched.c:785-787) keeps the awaits sound.
LEMMA Awaits_jacl_suspend ==
  ASSUME SchedInv, SchedInv', AwaitInv, NEW w \in Workers, Step(w), jacl_suspend(w)
  PROVE  AwaitInv'
  <1>1. PICK k \in Jobs :
          /\ flags' = [flags EXCEPT ![k] = @ \cup {"suspend"}] /\ UNCHANGED RequestOnly
          /\ jstate' = jstate /\ arg' = arg /\ target' = target
    BY DEF jacl_suspend
  <1>2. flags \in [Jobs -> SUBSET FlagSet]
    BY DEF SchedInv, TypeOK
  <1>3. \A j \in Jobs : "held" \in flags'[j] <=> "held" \in flags[j]
    BY <1>1, <1>2
  <1>4. QED
    BY <1>1, <1>3, AwaitMarked

\* jacl_resume (sched.c:799-812) keeps the awaits sound.
LEMMA Awaits_jacl_resume ==
  ASSUME SchedInv, SchedInv', AwaitInv, NEW w \in Workers, Step(w), jacl_resume(w)
  PROVE  AwaitInv'
  <1> USE JobFacts
  <1>1. PICK k \in Jobs :
          /\ Deliverable(w, k) /\ flags' = [flags EXCEPT ![k] = @ \ {"suspend", "held"}]
          /\ jstate' = jstate /\ result' = result /\ arg' = arg /\ target' = target /\ UNCHANGED RequestOnly
    BY DEF jacl_resume
  <1>2. flags \in [Jobs -> SUBSET FlagSet]
    BY DEF SchedInv, TypeOK
  <1>3. "held" \notin flags'[k] /\ \A j \in Jobs : j # k => flags'[j] = flags[j]
    BY <1>1, <1>2
  <1>4. CASE "held" \notin flags[k]
    <2>1. \A j \in Jobs : "held" \in flags'[j] <=> "held" \in flags[j]
      BY <1>3, <1>4
    <2>2. QED
      BY <1>1, <2>1, AwaitMarked
  <1>5. CASE "held" \in flags[k]
    <2>1. /\ fiber' = fiber /\ awaited' = awaited /\ owner' = owner /\ blocked' = blocked /\ pc' = pc
          /\ cur' = cur /\ oc' = oc /\ out' = out /\ jstate[k] = "new"
      BY <1>1 DEF RequestOnly, wVars, Deliverable, Live
    <2>2. JobHolds(k) /\ AwaitOK(k)
      BY DEF SchedInv, AwaitInv
    <2>3. target[k] = None /\ ~Kept(k)
      BY <1>5, <2>1, <2>2 DEF JobHolds
    <2>4. ~Kept(k)'
      BY <2>1, <2>3 DEF Kept, InHand
    <2>5. fiber[k] = "await" => awaited[k] \in Jobs /\ jstate[awaited[k]] # "none" /\ Answered(k)
      BY <1>5, <2>1, <2>2 DEF AwaitOK
    <2>6. fiber[k] = "await" => Answered(k)'
      BY <1>1, <2>1, <2>5 DEF Answered
    <2>7. AwaitOK(k)'
      BY <1>1, <2>1, <2>3, <2>4, <2>5, <2>6, AwaitAway
    <2>8. QED
      BY <1>1, <1>3, <2>1, <2>7, AwaitMoved
  <1>6. QED
    BY <1>4, <1>5

\* jacl_cancel (sched.c:788-798) keeps the awaits sound.
LEMMA Awaits_jacl_cancel ==
  ASSUME SchedInv, SchedInv', AwaitInv, NEW w \in Workers, Step(w), jacl_cancel(w)
  PROVE  AwaitInv'
  <1> USE JobFacts
  <1>1. PICK k \in Jobs :
          /\ flags' = [flags EXCEPT ![k] = @ \cup {"cancel"}] /\ UNCHANGED RequestOnly
          /\ \/ job_cancel_now(k, rq, inRq, waiters, target)
             \/ /\ target[k] # None
                /\ job_cancel_now(k, rq, inRq, [waiters EXCEPT ![target[k]] = Without(@, k)],
                                  [target EXCEPT ![k] = None])
             \/ jstate' = jstate /\ arg' = arg /\ target' = target
    BY DEF jacl_cancel
  <1>2. /\ fiber' = fiber /\ awaited' = awaited /\ owner' = owner /\ blocked' = blocked /\ pc' = pc
        /\ cur' = cur /\ oc' = oc /\ out' = out
    BY <1>1 DEF RequestOnly, wVars
  <1>3. /\ flags \in [Jobs -> SUBSET FlagSet] /\ waiters \in [Jobs -> Seq(Jobs)]
        /\ target \in [Jobs -> Jobs \cup {None}]
    BY DEF SchedInv, TypeOK
  <1>4. /\ \A j \in Jobs : j # k => flags'[j] = flags[j]
        /\ \A j \in Jobs : "held" \in flags'[j] <=> "held" \in flags[j]
    BY <1>1, <1>3
  <1>5. ASSUME NEW ws, NEW tg, job_cancel_now(k, rq, inRq, ws, tg),
               \A j \in Jobs : j # k => (j \in Elems(ws[k]) <=> target[j] = k) /\ tg[j] = target[j]
        PROVE  AwaitInv'
    <2>1. PICK v : complete_job(k, v, rq, inRq, ws, tg)
      BY <1>5 DEF job_cancel_now
    <2>2. QED
      BY <1>2, <1>4, <1>5, <2>1, AwaitCompleted
  <1>6. CASE job_cancel_now(k, rq, inRq, waiters, target)
    <2>1. \A j \in Jobs : j # k => (j \in Elems(waiters[k]) <=> target[j] = k) /\ target[j] = target[j]
      BY WaitersAre
    <2>2. QED
      BY <1>5, <1>6, <2>1
  <1>7. CASE /\ target[k] # None
             /\ job_cancel_now(k, rq, inRq, [waiters EXCEPT ![target[k]] = Without(@, k)],
                               [target EXCEPT ![k] = None])
    <2>1. PICK t : t = target[k]
      OBVIOUS
    <2>2. PICK s : s = waiters[t]
      OBVIOUS
    <2>3. t \in Jobs /\ s \in Seq(Jobs) /\ Distinct(s)
      BY <1>3, <1>7, <2>1, <2>2 DEF SchedInv, ListsHold
    <2>4. Elems(Without(s, k)) = Elems(s) \ {k}
      BY <2>3, WithoutElems
    <2>5. PICK ws, tg : ws = [waiters EXCEPT ![t] = Without(s, k)] /\ tg = [target EXCEPT ![k] = None]
      OBVIOUS
    <2>6. job_cancel_now(k, rq, inRq, ws, tg)
      BY <1>7, <2>1, <2>2, <2>5
    <2>7. \A j \in Jobs : j # k => (j \in Elems(waiters[k]) <=> target[j] = k) /\ target[j] = target[j]
      BY WaitersAre
    <2>8. \A j \in Jobs : j # k => (j \in Elems(ws[k]) <=> j \in Elems(waiters[k]))
      <3>1. CASE t = k
        <4>1. ws[k] = Without(s, k)
          BY <1>3, <2>3, <2>5, <3>1
        <4>2. QED
          BY <2>2, <2>4, <3>1, <4>1
      <3>2. CASE t # k
        BY <1>3, <2>5, <3>2
      <3>3. QED
        BY <3>1, <3>2
    <2>9. \A j \in Jobs : j # k => tg[j] = target[j]
      BY <1>3, <2>5
    <2>10. QED
      BY <1>5, <2>6, <2>7, <2>8, <2>9
  <1>8. CASE jstate' = jstate /\ arg' = arg /\ target' = target
    BY <1>1, <1>4, <1>8, AwaitMarked
  <1>9. QED
    BY <1>1, <1>6, <1>7, <1>8

\* What an await returns, for any number of workers and jobs that a ready queue
\* can hold: the result of the finished job, wherever the awaiter was meanwhile.
THEOREM AwaitInvariant ==
  ASSUME NJobs <= RQCap
  PROVE  Spec => []AwaitInv
  <1>1. Init => AwaitInv
    <2>1. SUFFICES ASSUME Init, NEW j \in Jobs PROVE AwaitOK(j)
      BY DEF AwaitInv
    <2>2. fiber[j] = "none" /\ \A w \in Workers : blocked[w] = <<>> /\ oc[w] = 0
      BY <2>1 DEF Init
    <2>3. Elems(<<>>) = {}
      BY DEF Elems
    <2>4. QED
      BY <2>2, <2>3 DEF AwaitOK
  <1>2. SchedInv /\ SchedInv' /\ AwaitInv /\ [Next]_vars => AwaitInv'
    <2>1. SUFFICES ASSUME SchedInv, SchedInv', AwaitInv, [Next]_vars PROVE AwaitInv'
      OBVIOUS
    <2>2. ASSUME NEW w \in Workers, Step(w) PROVE AwaitInv'
      <3>1. CASE WorkerLoop(w)
        BY <2>1, <2>2, <3>1, Awaits_quiet, Awaits_Pop, Awaits_resume_job, Awaits_finish_job_outcome,
           Awaits_PushBlocked, Awaits_repoll_blocked, Awaits_Unlink DEF WorkerLoop
      <3>2. CASE JobCode(w)
        BY <2>1, <2>2, <3>2, Awaits_slices, Awaits_jacl_await, Awaits_WaitEnds, Awaits_jacl_spawn,
           Awaits_jacl_suspend, Awaits_jacl_cancel, Awaits_jacl_resume DEF JobCode
      <3>3. QED
        BY <2>2, <3>1, <3>2 DEF Step
    <2>3. CASE UNCHANGED vars
      <3>1. UNCHANGED <<jstate, result, arg, target, flags, inRq, fiber, awaited, blocked, pc, cur, oc, out>>
        BY <2>3 DEF vars, jobVars, listVars, wVars
      <3>2. ASSUME NEW j \in Jobs PROVE AwaitOK(j)'
        BY <2>1, <3>1 DEF AwaitInv, AwaitOK, Answered
      <3>3. QED
        BY <3>2 DEF AwaitInv
    <2>4. QED
      BY <2>1, <2>2, <2>3 DEF Next, Over
  <1>3. Spec => []SchedInv
    BY SchedInvariant
  <1>4. QED
    BY <1>1, <1>2, <1>3, PTL DEF Spec

\* So ResultsTrue: an awaiter gets the awaited job's result (sched.c:311-331,
\* 692-700), and a published result never changes (sched.c:281-301).
THEOREM SchedResultsTrue ==
  ASSUME NJobs <= RQCap
  PROVE  Spec => ResultsTrue
  <1>1. SchedInv /\ AwaitInv => AwaitCarriesResult
    <2>1. SUFFICES ASSUME SchedInv, AwaitInv, NEW j \in Jobs, fiber[j] = "await",
                          \/ inRq[j] = 1
                          \/ Live(j) /\ "held" \in flags[j]
                          \/ \E w \in Workers : cur[w] = j /\ pc[w] = "resume"
                   PROVE  IF awaited[j] = j THEN arg[j] = Nil
                          ELSE jstate[awaited[j]] = "done" /\ arg[j] = result[awaited[j]]
      BY DEF AwaitCarriesResult
    <2>2. JobHolds(j) /\ AwaitOK(j) /\ jstate[j] \in {"none", "new", "done"} /\ inRq[j] \in {0, 1}
      BY <2>1 DEF SchedInv, TypeOK, AwaitInv
    <2>3. jstate[j] = "new"
      <3>1. CASE inRq[j] = 1
        BY <2>2, <3>1 DEF JobHolds
      <3>2. CASE Live(j)
        BY <3>2 DEF Live
      <3>3. ASSUME NEW w \in Workers, cur[w] = j, pc[w] = "resume" PROVE jstate[j] = "new"
        <4>1. pc[w] \in Hands
          BY <3>3 DEF Hands
        <4>2. QED
          BY <2>1, <3>3, <4>1, HandFacts
      <3>4. QED
        BY <2>1, <3>1, <3>2, <3>3
    <2>4. Answered(j)
      BY <2>1, <2>2, <2>3 DEF AwaitOK
    <2>5. QED
      BY <2>4 DEF Answered
  <1>2. SchedInv /\ [Next]_vars =>
          [\A j \in Jobs : jstate[j] = "done" => jstate'[j] = "done" /\ result'[j] = result[j]]_vars
    BY DoneStays
  <1>3. Spec => []SchedInv
    BY SchedInvariant
  <1>4. Spec => []AwaitInv
    BY AwaitInvariant
  <1>5. Spec => []AwaitCarriesResult
    BY <1>1, <1>3, <1>4, PTL
  <1>6. Spec => DoneIsFinal
    BY <1>2, <1>3, PTL DEF Spec, DoneIsFinal
  <1>7. QED
    BY <1>5, <1>6 DEF ResultsTrue
=============================================================================

------------------------ MODULE CommitPipelineProofs ------------------------
(***************************************************************************)
(* Proofs about the commit pipeline and the shutdown of a queue.           *)
(***************************************************************************)
EXTENDS CommitPipeline, WellFoundedInduction, TLAPS

\* Most steps are first-order; those that need arithmetic or the types of
\* functions and records cite SMT.
USE Zenon

----------------------------------------------------------------------------
\* Naturals, running sums and flattened sequences.

\* Every non-empty set of naturals has a least element.
LEMMA LeastNat ==
  ASSUME NEW S \in SUBSET Nat, S # {}
  PROVE  \E l \in S : \A k \in S : l <= k
<1> DEFINE Less == {ss \in Nat \X Nat : ss[1] < ss[2]}
<1>1. IsWellFoundedOn(Less, Nat)
  BY NatLessThanWellFounded DEF OpToRel
<1>2. \A k, l \in Nat : <<k, l>> \in Less <=> k < l
  OBVIOUS
<1> HIDE DEF Less
<1>3. PICK l \in S : \A k \in S : ~ (<<k, l>> \in Less)
  BY <1>1, WFMin
<1>4. \A k \in S : ~ (k < l)
  BY <1>2, <1>3
<1> QED
  BY <1>4, SMT

\* Induction up to N, for a set of numbers.
LEMMA UpTo ==
  ASSUME NEW N \in Nat, NEW S, 0 \in S, \A k \in 1..N : k - 1 \in S => k \in S
  PROVE  0..N \subseteq S
<1> SUFFICES ASSUME (0..N) \ S # {} PROVE FALSE
  OBVIOUS
<1>1. PICK m \in (0..N) \ S : \A k \in (0..N) \ S : m <= k
  <2>1. (0..N) \ S \in SUBSET Nat
    BY SMT
  <2> QED
    BY <2>1, LeastNat
<1>2. m # 0 /\ m \in 1..N
  BY <1>1, SMT
<1>3. m - 1 \in 0..N /\ ~(m <= m - 1)
  BY <1>2, SMT
<1> QED
  BY <1>1, <1>2, <1>3

LEMMA SumExists ==
  ASSUME NEW N \in Nat, NEW f \in [1..N -> Nat], NEW b \in Nat
  PROVE  \E g \in [0..N -> Nat] : g[0] = b /\ \A i \in 1..N : g[i] = g[i - 1] + f[i]
<1> DEFINE Sums(g, k) == g[0] = b /\ \A i \in 1..k : g[i] = g[i - 1] + f[i]
           S == {k \in 0..N : \E g \in [0..k -> Nat] : Sums(g, k)}
<1>1. 0 \in S
  <2> DEFINE h == [i \in 0..0 |-> b]
  <2>1. h \in [0..0 -> Nat] /\ Sums(h, 0)
    BY SMT
  <2> HIDE DEF h, Sums
  <2>2. 0 \in 0..N
    BY SMT
  <2> QED
    BY <2>1, <2>2
<1>2. ASSUME NEW k \in 1..N, k - 1 \in S PROVE k \in S
  <2>1. PICK g \in [0..(k - 1) -> Nat] : Sums(g, k - 1)
    BY <1>2
  <2> DEFINE h == [i \in 0..k |-> IF i = k THEN g[k - 1] + f[k] ELSE g[i]]
  <2>2. k - 1 \in 0..(k - 1) /\ f[k] \in Nat /\ g[k - 1] \in Nat
    BY SMT
  <2>3. \A i \in 0..k : i # k => i \in 0..(k - 1)
    BY SMT
  <2>4. h \in [0..k -> Nat]
    BY <2>2, <2>3, SMT
  <2>5. h[0] = b
    BY <2>1, SMT
  <2>6. ASSUME NEW i \in 1..k PROVE h[i] = h[i - 1] + f[i]
    <3>1. i - 1 \in 0..k /\ i - 1 # k /\ i \in 0..k
      BY SMT
    <3>2. CASE i = k
      BY <3>1, <3>2
    <3>3. CASE i # k
      <4>1. i \in 1..(k - 1)
        BY <3>3, SMT
      <4> QED
        BY <2>1, <3>1, <3>3, <4>1
    <3> QED
      BY <3>2, <3>3
  <2>7. Sums(h, k)
    BY <2>5, <2>6
  <2> HIDE DEF h, Sums
  <2>8. k \in 0..N
    BY SMT
  <2> QED
    BY <2>4, <2>7, <2>8
<1> HIDE DEF S
<1>3. 0..N \subseteq S
  BY <1>1, <1>2, UpTo
<1>4. N \in S
  BY <1>3, SMT
<1> QED
  BY <1>4 DEF S

\* The sequences s[1], ..., s[N] put together, one after the other.
LEMMA JoinExists ==
  ASSUME NEW N \in Nat, NEW s \in [1..N -> Seq(Nat)]
  PROVE  \E g \in [0..N -> Seq(Nat)] : g[0] = << >> /\ \A i \in 1..N : g[i] = g[i - 1] \o s[i]
<1> DEFINE Joins(g, k) == g[0] = << >> /\ \A i \in 1..k : g[i] = g[i - 1] \o s[i]
           S == {k \in 0..N : \E g \in [0..k -> Seq(Nat)] : Joins(g, k)}
<1>1. 0 \in S
  <2> DEFINE h == [i \in 0..0 |-> << >>]
  <2>1. h \in [0..0 -> Seq(Nat)] /\ Joins(h, 0)
    BY SMT
  <2> HIDE DEF h, Joins
  <2>2. 0 \in 0..N
    BY SMT
  <2> QED
    BY <2>1, <2>2
<1>2. ASSUME NEW k \in 1..N, k - 1 \in S PROVE k \in S
  <2>1. PICK g \in [0..(k - 1) -> Seq(Nat)] : Joins(g, k - 1)
    BY <1>2
  <2> DEFINE last == g[k - 1] \o s[k]
             h == [i \in 0..k |-> IF i = k THEN last ELSE g[i]]
  <2>2. k - 1 \in 0..(k - 1) /\ s[k] \in Seq(Nat) /\ g[k - 1] \in Seq(Nat)
    BY SMT
  <2>3. last \in Seq(Nat)
    BY <2>2, SMT
  <2>4. \A i \in 0..k : i # k => i \in 0..(k - 1)
    BY SMT
  <2>5. h \in [0..k -> Seq(Nat)]
    <3> HIDE DEF last
    <3> QED
      BY <2>3, <2>4
  <2>6. h[0] = << >>
    BY <2>1, SMT
  <2>7. ASSUME NEW i \in 1..k PROVE h[i] = h[i - 1] \o s[i]
    <3>1. i - 1 \in 0..k /\ i - 1 # k /\ i \in 0..k
      BY SMT
    <3>2. CASE i = k
      BY <3>1, <3>2
    <3>3. CASE i # k
      <4>1. i \in 1..(k - 1)
        BY <3>3, SMT
      <4> QED
        BY <2>1, <3>1, <3>3, <4>1
    <3> QED
      BY <3>2, <3>3
  <2>8. Joins(h, k)
    BY <2>6, <2>7
  <2> HIDE DEF h, Joins
  <2>9. k \in 0..N
    BY SMT
  <2> QED
    BY <2>5, <2>8, <2>9
<1> HIDE DEF S
<1>3. 0..N \subseteq S
  BY <1>1, <1>2, UpTo
<1>4. N \in S
  BY <1>3, SMT
<1> QED
  BY <1>4 DEF S

----------------------------------------------------------------------------
\* a[0], ..., a[N] is a running sum of f.
RunningSum(a, f, N) ==
  /\ N \in Nat /\ f \in [1..N -> Nat] /\ a \in [0..N -> Nat]
  /\ \A i \in 1..N : a[i] = a[i - 1] + f[i]

\* A running sum never falls.
LEMMA SumMonotone ==
  ASSUME NEW N, NEW a, NEW f, RunningSum(a, f, N), NEW i \in 0..N
  PROVE  \A j \in i..N : a[i] <= a[j]
<1> USE DEF RunningSum
<1> DEFINE S == {k \in 0..N : k >= i => a[i] <= a[k]}
<1>1. 0 \in S
  BY SMT
<1>2. ASSUME NEW k \in 1..N, k - 1 \in S PROVE k \in S
  <2>1. k - 1 \in 0..N /\ k \in 0..N
    BY SMT
  <2>2. a[k] = a[k - 1] + f[k] /\ a[k - 1] \in Nat /\ f[k] \in Nat /\ a[i] \in Nat
    BY <2>1
  <2>3. CASE k = i
    BY <2>1, <2>2, <2>3, SMT
  <2>4. CASE k # i
    <3>1. k >= i => k - 1 >= i
      BY <2>1, <2>4, SMT
    <3>2. k - 1 >= i => a[i] <= a[k - 1]
      BY <1>2
    <3> QED
      BY <2>1, <2>2, <3>1, <3>2, SMT
  <2> QED
    BY <2>3, <2>4
<1> HIDE DEF S
<1>3. 0..N \subseteq S
  BY <1>1, <1>2, UpTo
<1>4. \A j \in i..N : j \in S /\ j >= i
  BY <1>3, SMT
<1> QED
  BY <1>4 DEF S

\* Every number up to the total falls within one of the summands.
LEMMA SumCovers ==
  ASSUME NEW N, NEW a, NEW f, RunningSum(a, f, N), NEW k \in (a[0] + 1)..a[N]
  PROVE  \E j \in 1..N : k \in (a[j - 1] + 1)..a[j]
<1> USE DEF RunningSum
<1> DEFINE S == {j \in 0..N : k <= a[j]}
<1>1. N \in S /\ 0 \notin S /\ S \in SUBSET Nat
  <2>1. N \in 0..N /\ 0 \in 0..N
    BY SMT
  <2>2. a[N] \in Nat /\ a[0] \in Nat
    BY <2>1
  <2> QED
    BY <2>1, <2>2, SMT
<1>2. PICK j \in S : \A l \in S : j <= l
  BY <1>1, LeastNat
<1>3. j \in 1..N /\ k <= a[j]
  BY <1>1, <1>2, SMT
<1>4. j - 1 \in 0..N /\ j - 1 \notin S
  BY <1>2, <1>3, SMT
<1>5. ~(k <= a[j - 1]) /\ a[j - 1] \in Nat /\ a[0] \in Nat /\ a[j] \in Nat
  BY <1>3, <1>4, SMT
<1> QED
  BY <1>3, <1>5, SMT

LEMMA ConcatAt ==
  ASSUME NEW u \in Seq(Nat), NEW v \in Seq(Nat)
  PROVE  /\ Len(u \o v) = Len(u) + Len(v)
         /\ \A k \in 1..Len(u) : (u \o v)[k] = u[k]
         /\ \A k \in 1..Len(v) : (u \o v)[Len(u) + k] = v[k]
BY SMT

\* g[i] is s[1], ..., s[i] put together.
Joined(g, s, N) ==
  /\ N \in Nat /\ s \in [1..N -> Seq(Nat)] /\ g \in [0..N -> Seq(Nat)]
  /\ g[0] = << >> /\ \A i \in 1..N : g[i] = g[i - 1] \o s[i]

SumOfLengths(a, f, s, N) == RunningSum(a, f, N) /\ \A i \in 1..N : f[i] = Len(s[i])

\* Where the elements of s[j] are when s[1], ..., s[N] are put together.
Spanned(g, s, a, f, N) ==
  /\ Len(g[N]) = a[N] - a[0]
  /\ \A j \in 1..N : \A k \in 1..f[j] : g[N][a[j - 1] - a[0] + k] = s[j][k]

LEMMA JoinSpans ==
  ASSUME NEW N, NEW s, NEW g, Joined(g, s, N), NEW a, NEW f, SumOfLengths(a, f, s, N)
  PROVE  Spanned(g, s, a, f, N)
<1>0. /\ N \in Nat /\ s \in [1..N -> Seq(Nat)] /\ g \in [0..N -> Seq(Nat)]
      /\ g[0] = << >> /\ \A i \in 1..N : g[i] = g[i - 1] \o s[i]
  BY DEF Joined
<1>a. RunningSum(a, f, N) /\ \A i \in 1..N : f[i] = Len(s[i])
  BY DEF SumOfLengths
<1> DEFINE Spans(i) ==
      /\ Len(g[i]) = a[i] - a[0]
      /\ \A j \in 1..i : \A k \in 1..f[j] : g[i][a[j - 1] - a[0] + k] = s[j][k]
    S == {i \in 0..N : Spans(i)}
<1>1. 0 \in S
  <2>1. 0 \in 0..N /\ a[0] \in Nat
    BY <1>0, <1>a, SMT DEF RunningSum
  <2> QED
    BY <1>0, <2>1, SMT
<1>2. ASSUME NEW i \in 1..N, i - 1 \in S PROVE i \in S
  <2>1. i - 1 \in 0..N /\ i \in 0..N /\ 0 \in 0..N
    BY <1>0, SMT
  <2>2. a[i] = a[i - 1] + f[i] /\ a[i - 1] \in Nat /\ f[i] \in Nat /\ a[0] \in Nat /\ f[i] = Len(s[i])
    BY <1>a, <2>1 DEF RunningSum
  <2>3. Spans(i - 1)
    BY <1>2
  <2>4. g[i] = g[i - 1] \o s[i] /\ g[i - 1] \in Seq(Nat) /\ s[i] \in Seq(Nat)
    BY <1>0, <2>1
  <2>5. Len(g[i - 1]) = a[i - 1] - a[0]
    BY <2>3
  <2>6. Len(g[i]) = a[i] - a[0]
    <3>1. Len(g[i]) = Len(g[i - 1]) + Len(s[i])
      BY <2>4, ConcatAt, SMT
    <3>2. \A b, c, d \in Nat : (c - b) + d = (c + d) - b
      BY SMT
    <3> QED
      BY <2>2, <2>5, <3>1, <3>2, SMT
  <2>7. ASSUME NEW j \in 1..i, NEW k \in 1..f[j] PROVE g[i][a[j - 1] - a[0] + k] = s[j][k]
    <3> DEFINE x == a[j - 1] - a[0] + k
    <3>1. CASE j = i
      <4>1. x = Len(g[i - 1]) + k /\ k \in 1..Len(s[i])
        BY <2>2, <2>5, <3>1
      <4>2. (g[i - 1] \o s[i])[Len(g[i - 1]) + k] = s[i][k]
        BY <2>4, <4>1, ConcatAt
      <4> HIDE DEF x
      <4>3. g[i][x] = s[j][k]
        BY <2>4, <3>1, <4>1, <4>2
      <4> QED
        BY <4>3 DEF x
    <3>2. CASE j # i
      <4>1. j \in 1..(i - 1) /\ j \in 0..N /\ j - 1 \in 0..N /\ i - 1 \in j..N
        BY <1>0, <2>1, <3>2, SMT
      <4>2. g[i - 1][x] = s[j][k]
        BY <2>3, <4>1
      <4>3. a[j] <= a[i - 1]
        BY <1>a, <4>1, SumMonotone
      <4>4. a[0] <= a[j - 1]
        BY <1>a, <2>1, <4>1, SumMonotone
      <4>5. a[j] = a[j - 1] + f[j] /\ a[j - 1] \in Nat /\ a[j] \in Nat /\ f[j] \in Nat
        BY <1>a, <4>1, SMT DEF RunningSum
      <4>6. x \in 1..Len(g[i - 1])
        <5>1. k \in Nat /\ 1 <= k /\ k <= f[j]
          BY <4>5, SMT
        <5>2. x \in Nat /\ 1 <= x /\ x <= a[i - 1] - a[0]
          <6>1. \A b, c, d, e, y, z \in Nat :
                  b <= c /\ d = c + y /\ d <= e /\ 1 <= z /\ z <= y
                  => c - b + z \in Nat /\ 1 <= c - b + z /\ c - b + z <= e - b
            BY SMT
          <6> QED
            BY <2>2, <4>3, <4>4, <4>5, <5>1, <6>1
        <5> HIDE DEF x
        <5>3. Len(g[i - 1]) \in Nat
          BY <2>4, SMT
        <5>4. x <= Len(g[i - 1])
          BY <2>5, <5>2, Zenon
        <5> QED
          BY <5>2, <5>3, <5>4, SMT
      <4>7. (g[i - 1] \o s[i])[x] = g[i - 1][x]
        BY <2>4, <4>6, ConcatAt
      <4> QED
        BY <2>4, <4>2, <4>7
    <3> QED
      BY <3>1, <3>2
  <2> HIDE DEF Spans
  <2>8. Spans(i)
    BY <2>6, <2>7 DEF Spans
  <2> QED
    BY <2>1, <2>8
<1> HIDE DEF S
<1>3. 0..N \subseteq S
  BY <1>0, <1>1, <1>2, UpTo
<1>4. N \in S
  BY <1>0, <1>3, SMT
<1> QED
  BY <1>4 DEF S, Spanned

----------------------------------------------------------------------------
\* The inductive invariant.

LsnRange == [first : Nat \ {0}, last : Nat]

PipelineTypeOK ==
  /\ pc \in [Process -> {"idle", "send", "wait", "apply", "exit"}]
  /\ req \in [Process -> [id : Nat, n : Nat]]
  /\ result \in [Process -> [first : Nat, last : Nat, ok : BOOLEAN]]
  /\ batch \in Seq(Process)
  /\ log \in Seq([lsn : Nat, id : Nat])
  /\ lsn \in Nat /\ cut \in Nat /\ requests \in Nat
  /\ begun \subseteq LsnRange

\* A process is in the batch at most once.
BatchOnce == \A i, j \in DOMAIN batch : batch[i] = batch[j] => i = j

Busy(p) == pc[p] \in {"send", "wait", "apply"}

\* A request's records reach the log once: ids are fresh, and the log has no
\* record of a request that is not yet flushed.
IdsApart ==
  /\ \A p \in Process : req[p].id <= requests
  /\ \A p, q \in Process : Busy(p) /\ Busy(q) /\ req[p].id = req[q].id => p = q
  /\ \A e \in Logged : e.id <= requests
  /\ \A p \in Process : pc[p] \in {"send", "wait"} => \A e \in Logged : e.id # req[p].id

\* What a process has to apply is known to the cursor under LSNs of its own.
Unapplied(p) == pc[p] = "apply" /\ req[p].n > 0

AppliesBegun ==
  \A p \in Process :
    /\ pc[p] = "apply" /\ req[p].n = 0 => result[p].first = 0
    /\ Unapplied(p) =>
         /\ result[p].first \in 1..lsn
         /\ [first |-> result[p].first, last |-> result[p].last] \in begun
         /\ \A q \in Process : Unapplied(q) /\ result[q].first = result[p].first => q = p

\* The checkpoint of Close comes after the committer has left.
ClosedLast ==
  /\ closer \in {"checkpoint", "wal", "done"} => committer = "exit"
  /\ cut # 0 => closer \in {"wal", "done"}

PipelineInv ==
  /\ PipelineTypeOK /\ BatchOnce /\ IdsApart /\ AppliesBegun /\ ClosedLast
  /\ WaitingHeld /\ RangesExact /\ CloseCutsApplied

----------------------------------------------------------------------------
\* The sums over the batch.

\* The requests of the batch are well formed.
LEMMA BatchTyped ==
  ASSUME PipelineTypeOK
  PROVE  /\ Len(batch) \in Nat
         /\ \A i \in 1..Len(batch) : req[batch[i]].n \in Nat /\ req[batch[i]].id \in Nat
<1>1. Len(batch) \in Nat /\ \A i \in 1..Len(batch) : batch[i] \in Process
  BY SMT DEF PipelineTypeOK
<1>2. \A p \in Process : req[p].n \in Nat /\ req[p].id \in Nat
  BY DEF PipelineTypeOK
<1> QED
  BY <1>1, <1>2

\* The number of records of each request of the batch.
Counts == [i \in 1..Len(batch) |-> req[batch[i]].n]

\* assigned is the running sum of the record counts.
LEMMA Assigned ==
  ASSUME PipelineTypeOK
  PROVE  /\ assigned \in [0..Len(batch) -> Nat] /\ assigned[0] = lsn
         /\ \A i \in 1..Len(batch) : assigned[i] = assigned[i - 1] + req[batch[i]].n
<1> DEFINE N == Len(batch)
<1>1. N \in Nat /\ lsn \in Nat /\ Counts \in [1..N -> Nat]
  BY BatchTyped DEF PipelineTypeOK, Counts
<1>2. PICK g \in [0..N -> Nat] : g[0] = lsn /\ \A i \in 1..N : g[i] = g[i - 1] + Counts[i]
  BY <1>1, SumExists
<1>3. \A i \in 1..N : Counts[i] = req[batch[i]].n
  BY DEF Counts
<1>4. g = [i \in 0..N |-> IF i = 0 THEN lsn ELSE g[i - 1] + req[batch[i]].n]
  BY <1>2, <1>3, SMT
<1>5. assigned = [i \in 0..N |-> IF i = 0 THEN lsn ELSE assigned[i - 1] + req[batch[i]].n]
  BY <1>4 DEF assigned
<1>6. assigned[0] = lsn /\ \A i \in 1..N : assigned[i] = assigned[i - 1] + req[batch[i]].n
  BY <1>1, <1>5, SMT
<1>7. assigned \in [0..N -> Nat]
  <2> DEFINE S == {k \in 0..N : assigned[k] \in Nat}
  <2>1. 0 \in S
    BY <1>1, <1>6, SMT
  <2>2. ASSUME NEW k \in 1..N, k - 1 \in S PROVE k \in S
    <3>1. req[batch[k]].n \in Nat
      BY BatchTyped
    <3> QED
      BY <1>6, <2>2, <3>1, SMT
  <2> HIDE DEF S
  <2>3. 0..N \subseteq S
    BY <1>1, <2>1, <2>2, UpTo
  <2>4. \A k \in 0..N : assigned[k] \in Nat
    BY <2>3 DEF S
  <2> QED
    BY <1>5, <2>4
<1> QED
  BY <1>6, <1>7

LEMMA BatchSum ==
  ASSUME PipelineTypeOK
  PROVE  RunningSum(assigned, Counts, Len(batch)) /\ assigned[0] = lsn
<1>1. Len(batch) \in Nat /\ Counts \in [1..Len(batch) -> Nat]
  BY BatchTyped DEF Counts
<1>2. \A i \in 1..Len(batch) : Counts[i] = req[batch[i]].n
  BY DEF Counts
<1> QED
  BY <1>1, <1>2, Assigned DEF RunningSum

LEMMA Repeated ==
  ASSUME NEW n \in Nat, NEW x \in Nat
  PROVE  /\ [k \in 1..n |-> x] \in Seq(Nat) /\ Len([k \in 1..n |-> x]) = n
         /\ \A k \in 1..n : [i \in 1..n |-> x][k] = x
BY SMT

\* The request of each record of each request of the batch.
RecsOf == [i \in 1..Len(batch) |-> [k \in 1..req[batch[i]].n |-> req[batch[i]].id]]

LEMMA RecsOfTyped ==
  ASSUME PipelineTypeOK
  PROVE  /\ RecsOf \in [1..Len(batch) -> Seq(Nat)]
         /\ \A i \in 1..Len(batch) :
              /\ RecsOf[i] = [k \in 1..req[batch[i]].n |-> req[batch[i]].id]
              /\ Len(RecsOf[i]) = req[batch[i]].n
              /\ \A k \in 1..req[batch[i]].n : RecsOf[i][k] = req[batch[i]].id
<1> DEFINE N == Len(batch)
<1>1. N \in Nat /\ \A i \in 1..N : req[batch[i]].n \in Nat /\ req[batch[i]].id \in Nat
  BY BatchTyped, Zenon
<1>2. \A i \in 1..N : RecsOf[i] = [k \in 1..req[batch[i]].n |-> req[batch[i]].id]
  BY DEF RecsOf
<1>3. ASSUME NEW i \in 1..N
      PROVE  /\ RecsOf[i] \in Seq(Nat) /\ Len(RecsOf[i]) = req[batch[i]].n
             /\ \A k \in 1..req[batch[i]].n : RecsOf[i][k] = req[batch[i]].id
  <2> DEFINE n == req[batch[i]].n
             x == req[batch[i]].id
  <2>1. n \in Nat /\ x \in Nat /\ RecsOf[i] = [k \in 1..n |-> x]
    BY <1>1, <1>2
  <2> HIDE DEF n, x
  <2>2. RecsOf[i] \in Seq(Nat) /\ Len(RecsOf[i]) = n
    BY <2>1, Repeated, SMT
  <2>3. \A k \in 1..n : RecsOf[i][k] = x
    BY <2>1
  <2> QED
    BY <2>2, <2>3 DEF n, x
<1>4. RecsOf \in [1..N -> Seq(Nat)]
  BY <1>3 DEF RecsOf
<1> QED
  BY <1>2, <1>3, <1>4

\* allWalRecs puts the records of the requests one after the other.
LEMMA RecsJoined ==
  ASSUME PipelineTypeOK
  PROVE  Joined(allWalRecs, RecsOf, Len(batch))
<1> DEFINE N == Len(batch)
<1>1. N \in Nat /\ RecsOf \in [1..N -> Seq(Nat)]
  BY RecsOfTyped, SMT DEF PipelineTypeOK
<1>2. \A i \in 1..N : RecsOf[i] = [k \in 1..req[batch[i]].n |-> req[batch[i]].id]
  BY RecsOfTyped
<1>3. PICK g \in [0..N -> Seq(Nat)] : g[0] = << >> /\ \A i \in 1..N : g[i] = g[i - 1] \o RecsOf[i]
  BY <1>1, JoinExists
<1> DEFINE Def(h) == h = [i \in 0..N |-> IF i = 0 THEN << >>
                            ELSE h[i - 1] \o [k \in 1..req[batch[i]].n |-> req[batch[i]].id]]
<1>4. Def(g)
  <2>1. \A i \in 0..N : i # 0 => i \in 1..N
    BY <1>1, SMT
  <2>2. \A i \in 0..N : g[i] = IF i = 0 THEN << >>
                               ELSE g[i - 1] \o [k \in 1..req[batch[i]].n |-> req[batch[i]].id]
    BY <1>2, <1>3, <2>1, Zenon
  <2> QED
    BY <2>2
<1>5. Def(allWalRecs)
  <2>1. allWalRecs = CHOOSE h : Def(h)
    BY DEF allWalRecs
  <2> HIDE DEF Def
  <2> QED
    BY <1>4, <2>1
<1>6. allWalRecs[0] = << >> /\ \A i \in 1..N : allWalRecs[i] = allWalRecs[i - 1] \o RecsOf[i]
  <2>1. \A i \in 0..N : allWalRecs[i] = IF i = 0 THEN << >>
          ELSE allWalRecs[i - 1] \o [k \in 1..req[batch[i]].n |-> req[batch[i]].id]
    BY <1>5
  <2>2. 0 \in 0..N /\ \A i \in 1..N : i \in 0..N /\ i # 0
    BY <1>1, SMT
  <2>3. allWalRecs[0] = << >>
    BY <2>1, <2>2, Zenon
  <2>4. ASSUME NEW i \in 1..N
        PROVE  allWalRecs[i] = allWalRecs[i - 1] \o RecsOf[i]
    <3>1. i \in 0..N /\ i # 0
      BY <2>2
    <3>2. allWalRecs[i] = allWalRecs[i - 1] \o [k \in 1..req[batch[i]].n |-> req[batch[i]].id]
      BY <2>1, <3>1, Zenon
    <3>3. RecsOf[i] = [k \in 1..req[batch[i]].n |-> req[batch[i]].id]
      BY <1>2, Zenon
    <3> QED
      BY <3>2, <3>3, Zenon
  <2> QED
    BY <2>3, <2>4, Zenon
<1>7. allWalRecs = [i \in 0..N |-> allWalRecs[i]]
  BY <1>5
<1> HIDE DEF Def
<1>8. allWalRecs \in [0..N -> Seq(Nat)]
  <2> DEFINE S == {k \in 0..N : allWalRecs[k] \in Seq(Nat)}
  <2>1. 0 \in S
    <3>1. 0 \in 0..N /\ << >> \in Seq(Nat)
      BY <1>1, SMT
    <3> QED
      BY <1>6, <3>1, Zenon
  <2>2. ASSUME NEW k \in 1..N, k - 1 \in S PROVE k \in S
    <3>1. RecsOf[k] \in Seq(Nat) /\ allWalRecs[k - 1] \in Seq(Nat) /\ k \in 0..N
      BY <1>1, <2>2, SMT
    <3>2. \A u, v \in Seq(Nat) : u \o v \in Seq(Nat)
      BY SMT
    <3> QED
      BY <1>6, <3>1, <3>2, Zenon
  <2> HIDE DEF S
  <2>3. 0..N \subseteq S
    BY <1>1, <2>1, <2>2, UpTo
  <2>4. \A k \in 0..N : allWalRecs[k] \in Seq(Nat)
    BY <2>3 DEF S
  <2> QED
    BY <1>7, <2>4
<1> QED
  BY <1>1, <1>6, <1>8 DEF Joined

Recs == allWalRecs[Len(batch)]

LEMMA RecsSpan ==
  ASSUME PipelineTypeOK
  PROVE  /\ Recs \in Seq(Nat) /\ Len(Recs) = Total
         /\ \A j \in 1..Len(batch) : \A k \in 1..req[batch[j]].n :
              Recs[assigned[j - 1] - lsn + k] = req[batch[j]].id
<1> DEFINE N == Len(batch)
<1>1. RunningSum(assigned, Counts, N) /\ assigned[0] = lsn /\ \A i \in 1..N : Counts[i] = req[batch[i]].n
  BY BatchSum DEF Counts
<1>2. SumOfLengths(assigned, Counts, RecsOf, N)
  BY <1>1, RecsOfTyped DEF SumOfLengths
<1>3. Spanned(allWalRecs, RecsOf, assigned, Counts, N)
  BY <1>2, RecsJoined, JoinSpans
<1>4. Recs \in Seq(Nat)
  BY RecsJoined, SMT DEF Joined, Recs
<1>5. Len(Recs) = Total
  BY <1>1, <1>3 DEF Spanned, Recs, Total
<1>6. \A j \in 1..N : \A k \in 1..Counts[j] : Recs[assigned[j - 1] - lsn + k] = RecsOf[j][k]
  BY <1>1, <1>3 DEF Spanned, Recs
<1>7. \A j \in 1..N : \A k \in 1..req[batch[j]].n : RecsOf[j][k] = req[batch[j]].id
  BY RecsOfTyped
<1>8. ASSUME NEW j \in 1..N, NEW k \in 1..req[batch[j]].n
      PROVE  Recs[assigned[j - 1] - lsn + k] = req[batch[j]].id
  <2>1. k \in 1..Counts[j] /\ RecsOf[j][k] = req[batch[j]].id
    BY <1>1, <1>7
  <2> QED
    BY <1>6, <2>1
<1> QED
  BY <1>4, <1>5, <1>8

----------------------------------------------------------------------------
\* The actions that flush nothing.

USE DEF clients, durable, vars

LEMMA InitPipeline == Init => PipelineInv
<1> SUFFICES ASSUME Init PROVE PipelineInv
  OBVIOUS
<1> USE DEF Init
<1>1. PipelineTypeOK
  <2>1. pc \in [Process -> {"idle", "send", "wait", "apply", "exit"}]
    OBVIOUS
  <2>2. req \in [Process -> [id : Nat, n : Nat]]
    OBVIOUS
  <2>3. result \in [Process -> [first : Nat, last : Nat, ok : BOOLEAN]]
    BY DEF Nothing
  <2> QED
    BY <2>1, <2>2, <2>3, SMT DEF PipelineTypeOK
<1>2. Logged = {} /\ BatchProcs = {}
  BY SMT DEF Logged, BatchProcs
<1>3. BatchOnce /\ AppliesBegun /\ ClosedLast /\ RangesExact /\ CloseCutsApplied
  BY SMT DEF BatchOnce, AppliesBegun, Unapplied, ClosedLast, RangesExact, CloseCutsApplied
<1>4. IdsApart
  BY <1>2, SMT DEF IdsApart, Busy
<1>5. WaitingHeld
  BY <1>2 DEF WaitingHeld
<1> QED
  BY <1>1, <1>3, <1>4, <1>5 DEF PipelineInv

\* A step that leaves the requests, the batch and the log alone.
LEMMA ControlStep ==
  ASSUME PipelineInv, UNCHANGED <<req, result, batch, log, lsn, begun, requests, cut>>,
         UNCHANGED pc \/ (pc[Ticker] = "idle" /\ pc' = [pc EXCEPT ![Ticker] = "exit"]),
         committer' = "exit" => batch = << >>, ClosedLast'
  PROVE  PipelineInv'
<1> USE DEF PipelineInv
<1>1. /\ pc' \in [Process -> {"idle", "send", "wait", "apply", "exit"}]
      /\ \A p \in Process : pc'[p] # pc[p] => pc[p] = "idle" /\ pc'[p] = "exit"
  BY DEF PipelineTypeOK, Process
<1>2. \A p \in Process : pc'[p] \in {"send", "wait", "apply"} => pc'[p] = pc[p]
  BY <1>1
<1>3. PipelineTypeOK'
  BY <1>1 DEF PipelineTypeOK
<1>4. BatchOnce' /\ BatchProcs' = BatchProcs /\ Logged' = Logged
  BY DEF BatchOnce, BatchProcs, Logged
<1>5. IdsApart'
  BY <1>2, <1>4 DEF IdsApart, Busy
<1>6. AppliesBegun'
  BY <1>2 DEF AppliesBegun, Unapplied
<1>7. WaitingHeld'
  BY <1>1, <1>4 DEF WaitingHeld
<1>8. RangesExact'
  BY <1>2, <1>4 DEF RangesExact
<1>9. CloseCutsApplied'
  BY <1>2 DEF CloseCutsApplied
<1> QED
  BY <1>3, <1>4, <1>5, <1>6, <1>7, <1>8, <1>9

LEMMA LogTyped ==
  ASSUME PipelineTypeOK
  PROVE  \A e \in Logged : e.lsn \in Nat /\ e.id \in Nat
<1> DEFINE Entry == [lsn : Nat, id : Nat]
<1>1. log \in Seq(Entry)
  BY DEF PipelineTypeOK
<1>2. \A e \in Entry : e.lsn \in Nat /\ e.id \in Nat
  OBVIOUS
<1> HIDE DEF Entry
<1>3. \A i \in DOMAIN log : log[i] \in Entry
  BY <1>1, SMT
<1>4. \A e \in Logged : e \in Entry
  BY <1>3 DEF Logged
<1> QED
  BY <1>2, <1>4

LEMMA SubmitInv ==
  ASSUME PipelineInv, NEW p \in Process, NEW n \in Records, Submit(p, n)
  PROVE  PipelineInv'
<1> USE DEF PipelineInv
<1>1. /\ pc[p] = "idle" /\ requests' = requests + 1
      /\ pc' = [pc EXCEPT ![p] = "send"]
      /\ req' = [req EXCEPT ![p] = [id |-> requests + 1, n |-> n]]
      /\ UNCHANGED <<result, batch, committer, stop, closer, log, lsn, begun, cut>>
  BY DEF Submit
<1>2. /\ req[p].id \in Nat /\ requests \in Nat /\ n \in Nat
      /\ req'[p] = [id |-> requests + 1, n |-> n] /\ pc'[p] = "send"
      /\ \A q \in Process : q # p => req'[q] = req[q] /\ pc'[q] = pc[q]
  BY <1>1, PipelineAssumption DEF PipelineTypeOK
<1>3. PipelineTypeOK'
  <2>1. pc' \in [Process -> {"idle", "send", "wait", "apply", "exit"}]
    BY <1>1 DEF PipelineTypeOK
  <2>2. [id |-> requests + 1, n |-> n] \in [id : Nat, n : Nat]
    BY <1>2, SMT
  <2>3. req' \in [Process -> [id : Nat, n : Nat]]
    BY <1>1, <2>2 DEF PipelineTypeOK
  <2> QED
    BY <1>1, <1>2, <2>1, <2>3 DEF PipelineTypeOK
<1>4. BatchOnce' /\ BatchProcs' = BatchProcs /\ Logged' = Logged
  BY <1>1 DEF BatchOnce, BatchProcs, Logged
<1>5. IdsApart'
  <2>1. \A q \in Process : req[q].id \in Nat /\ req[q].id <= requests
    BY DEF PipelineTypeOK, IdsApart
  <2>2. \A e \in Logged : e.id \in Nat /\ e.id <= requests
    BY LogTyped DEF IdsApart
  <2>3. \A q \in Process : req'[q].id <= requests'
    BY <1>1, <1>2, <2>1, SMT
  <2>4. \A e \in Logged' : e.id <= requests'
    BY <1>1, <1>2, <1>4, <2>2, SMT
  <2>5. \A q, r \in Process : Busy(q)' /\ Busy(r)' /\ req'[q].id = req'[r].id => q = r
    <3>1. \A q, r \in Process : q # p /\ r # p /\ Busy(q)' /\ Busy(r)' /\ req'[q].id = req'[r].id => q = r
      BY <1>2 DEF IdsApart, Busy
    <3>2. \A q \in Process : q # p => req'[q].id # req'[p].id
      BY <1>2, <2>1, SMT
    <3> QED
      BY <3>1, <3>2
  <2>6. ASSUME NEW q \in Process, pc'[q] \in {"send", "wait"}, NEW e \in Logged'
        PROVE  e.id # req'[q].id
    BY <1>1, <1>2, <1>4, <2>2, <2>6, SMT DEF IdsApart
  <2> QED
    BY <2>3, <2>4, <2>5, <2>6 DEF IdsApart
<1>6. AppliesBegun'
  BY <1>1, <1>2, SMT DEF AppliesBegun, Unapplied
<1>7. WaitingHeld'
  BY <1>1, <1>2, <1>4 DEF WaitingHeld
<1>8. RangesExact'
  BY <1>1, <1>2, <1>4, SMT DEF RangesExact
<1>9. CloseCutsApplied' /\ ClosedLast'
  BY <1>1, <1>2 DEF CloseCutsApplied, ClosedLast
<1> QED
  BY <1>3, <1>4, <1>5, <1>6, <1>7, <1>8, <1>9

LEMMA SendInv ==
  ASSUME PipelineInv, NEW p \in Process, Send(p)
  PROVE  PipelineInv'
<1> USE DEF PipelineInv
<1>1. /\ pc[p] = "send" /\ committer \in {"run", "drain"}
      /\ batch' = Append(batch, p) /\ pc' = [pc EXCEPT ![p] = "wait"]
      /\ UNCHANGED <<req, result, committer, stop, closer, log, lsn, begun, cut, requests>>
  BY DEF Send
<1>2. /\ pc' \in [Process -> {"idle", "send", "wait", "apply", "exit"}]
      /\ pc'[p] = "wait" /\ \A q \in Process : q # p => pc'[q] = pc[q]
  BY <1>1 DEF PipelineTypeOK
<1>3. /\ batch' \in Seq(Process) /\ Len(batch') = Len(batch) + 1 /\ DOMAIN batch' = 1..(Len(batch) + 1)
      /\ DOMAIN batch = 1..Len(batch) /\ batch'[Len(batch) + 1] = p
      /\ \A i \in 1..Len(batch) : batch'[i] = batch[i]
  BY <1>1, SMT DEF PipelineTypeOK
<1>4. \A i \in 1..Len(batch) : batch[i] \in Process /\ pc[batch[i]] = "wait"
  <2>1. \A i \in 1..Len(batch) : batch[i] \in BatchProcs
    BY <1>3 DEF BatchProcs
  <2> QED
    BY <2>1 DEF WaitingHeld
<1>5. PipelineTypeOK'
  BY <1>1, <1>2, <1>3 DEF PipelineTypeOK
<1>6. BatchOnce'
  <2>1. Len(batch) \in Nat
    BY SMT DEF PipelineTypeOK
  <2>2. ASSUME NEW i \in DOMAIN batch', NEW j \in DOMAIN batch', batch'[i] = batch'[j]
        PROVE  i = j
    <3>1. (i \in 1..Len(batch) \/ i = Len(batch) + 1) /\ (j \in 1..Len(batch) \/ j = Len(batch) + 1)
      BY <1>3, <2>1, SMT
    <3>2. CASE i \in 1..Len(batch) /\ j \in 1..Len(batch)
      BY <1>3, <2>2, <3>2 DEF BatchOnce
    <3>3. CASE i \in 1..Len(batch) /\ j = Len(batch) + 1
      BY <1>1, <1>3, <1>4, <2>2, <3>3
    <3>4. CASE i = Len(batch) + 1 /\ j \in 1..Len(batch)
      BY <1>1, <1>3, <1>4, <2>2, <3>4
    <3> QED
      BY <3>1, <3>2, <3>3, <3>4
  <2> QED
    BY <2>2 DEF BatchOnce
<1>7. \A q : q \in BatchProcs' <=> q \in BatchProcs \/ q = p
  <2>1. Len(batch) \in Nat
    BY SMT DEF PipelineTypeOK
  <2>2. \A i \in DOMAIN batch' : i \in 1..Len(batch) \/ i = Len(batch) + 1
    BY <1>3, <2>1, SMT
  <2>3. Len(batch) + 1 \in DOMAIN batch' /\ \A i \in 1..Len(batch) : i \in DOMAIN batch'
    BY <1>3, <2>1, SMT
  <2> QED
    BY <1>3, <2>2, <2>3 DEF BatchProcs
<1>8. WaitingHeld'
  <2>1. \A q \in Process : pc'[q] = "wait" <=> pc[q] = "wait" \/ q = p
    BY <1>1, <1>2
  <2>2. \A q \in Process : pc'[q] = "wait" <=> q \in BatchProcs'
    BY <1>7, <2>1 DEF WaitingHeld
  <2>3. BatchProcs' \subseteq Process
    BY <1>7 DEF WaitingHeld
  <2> QED
    BY <1>1, <2>2, <2>3 DEF WaitingHeld
<1>9. Logged' = Logged
  BY <1>1 DEF Logged
<1>10. IdsApart'
  BY <1>1, <1>2, <1>9, SMT DEF IdsApart, Busy
<1>11. AppliesBegun'
  BY <1>1, <1>2 DEF AppliesBegun, Unapplied
<1>12. RangesExact'
  BY <1>1, <1>2, <1>9 DEF RangesExact
<1>13. CloseCutsApplied' /\ ClosedLast'
  BY <1>1, <1>2 DEF CloseCutsApplied, ClosedLast
<1> QED
  BY <1>5, <1>6, <1>8, <1>10, <1>11, <1>12, <1>13

LEMMA SendClosedInv ==
  ASSUME PipelineInv, NEW p \in Process, SendClosed(p)
  PROVE  PipelineInv'
<1> USE DEF PipelineInv
<1>1. /\ pc[p] = "send" /\ pc' = [pc EXCEPT ![p] = "idle"]
      /\ UNCHANGED <<req, result, batch, committer, stop, closer, log, lsn, begun, cut, requests>>
  BY DEF SendClosed
<1>2. /\ pc' \in [Process -> {"idle", "send", "wait", "apply", "exit"}]
      /\ pc'[p] = "idle" /\ \A q \in Process : q # p => pc'[q] = pc[q]
  BY <1>1 DEF PipelineTypeOK
<1>3. PipelineTypeOK'
  BY <1>1, <1>2 DEF PipelineTypeOK
<1>4. BatchOnce' /\ BatchProcs' = BatchProcs /\ Logged' = Logged
  BY <1>1 DEF BatchOnce, BatchProcs, Logged
<1>5. IdsApart'
  BY <1>1, <1>2, <1>4 DEF IdsApart, Busy
<1>6. AppliesBegun'
  BY <1>1, <1>2 DEF AppliesBegun, Unapplied
<1>7. WaitingHeld'
  BY <1>1, <1>2, <1>4 DEF WaitingHeld
<1>8. RangesExact'
  BY <1>1, <1>2, <1>4 DEF RangesExact
<1>9. CloseCutsApplied' /\ ClosedLast'
  BY <1>1, <1>2 DEF CloseCutsApplied, ClosedLast
<1> QED
  BY <1>3, <1>4, <1>5, <1>6, <1>7, <1>8, <1>9

LEMMA ApplyInv ==
  ASSUME PipelineInv, NEW p \in Process, Apply(p)
  PROVE  PipelineInv'
<1> USE DEF PipelineInv
<1>1. /\ pc[p] = "apply" /\ pc' = [pc EXCEPT ![p] = "idle"]
      /\ begun' = begun \ {[first |-> result[p].first, last |-> result[p].last]}
      /\ UNCHANGED <<req, result, batch, committer, stop, closer, log, lsn, cut, requests>>
  BY DEF Apply
<1>2. /\ pc' \in [Process -> {"idle", "send", "wait", "apply", "exit"}]
      /\ pc'[p] = "idle" /\ \A q \in Process : q # p => pc'[q] = pc[q]
  BY <1>1 DEF PipelineTypeOK
<1>3. PipelineTypeOK'
  BY <1>1, <1>2 DEF PipelineTypeOK
<1>4. BatchOnce' /\ BatchProcs' = BatchProcs /\ Logged' = Logged
  BY <1>1 DEF BatchOnce, BatchProcs, Logged
<1>5. IdsApart'
  BY <1>1, <1>2, <1>4 DEF IdsApart, Busy
<1>6. AppliesBegun'
  <2>1. ASSUME NEW q \in Process, Unapplied(q), q # p
        PROVE  result[q].first # result[p].first
    <3>1. CASE req[p].n > 0
      BY <1>1, <2>1, <3>1 DEF AppliesBegun, Unapplied
    <3>2. CASE ~(req[p].n > 0)
      <4>1. req[p].n = 0
        BY <3>2, SMT DEF PipelineTypeOK
      <4>2. result[p].first = 0
        BY <1>1, <4>1 DEF AppliesBegun
      <4>3. result[q].first \in 1..lsn
        BY <2>1 DEF AppliesBegun
      <4> QED
        BY <4>2, <4>3, SMT
    <3> QED
      BY <3>1, <3>2
  <2>2. \A q \in Process : Unapplied(q)' => Unapplied(q) /\ q # p
    BY <1>1, <1>2 DEF Unapplied
  <2>3. ASSUME NEW q \in Process, Unapplied(q)'
        PROVE  [first |-> result[q].first, last |-> result[q].last] \in begun'
    <3>1. [first |-> result[q].first, last |-> result[q].last] \in begun
      BY <2>2, <2>3 DEF AppliesBegun
    <3>2. [first |-> result[q].first, last |-> result[q].last]
            # [first |-> result[p].first, last |-> result[p].last]
      BY <2>1, <2>2, <2>3
    <3> QED
      BY <1>1, <3>1, <3>2
  <2>4. ASSUME NEW q \in Process, Unapplied(q)'
        PROVE  /\ result'[q].first \in 1..lsn'
               /\ \A r \in Process : Unapplied(r)' /\ result'[r].first = result'[q].first => r = q
    BY <1>1, <2>2, <2>4 DEF AppliesBegun
  <2>5. \A q \in Process : pc'[q] = "apply" /\ req'[q].n = 0 => result'[q].first = 0
    BY <1>1, <1>2 DEF AppliesBegun
  <2> QED
    BY <1>1, <2>3, <2>4, <2>5 DEF AppliesBegun
<1>7. WaitingHeld'
  BY <1>1, <1>2, <1>4 DEF WaitingHeld
<1>8. RangesExact'
  BY <1>1, <1>2, <1>4 DEF RangesExact
<1>9. CloseCutsApplied' /\ ClosedLast'
  BY <1>1, <1>2 DEF CloseCutsApplied, ClosedLast
<1> QED
  BY <1>3, <1>4, <1>5, <1>6, <1>7, <1>8, <1>9

\* The watermark is below every request that is known and not applied.
LEMMA AppliedLeast ==
  ASSUME PipelineTypeOK
  PROVE  Applied \in Nat /\ \A r \in begun : Applied < r.first
<1> DEFINE below == {IF log = << >> THEN 0 ELSE log[Len(log)].lsn} \cup {r.first - 1 : r \in begun}
<1>1. (IF log = << >> THEN 0 ELSE log[Len(log)].lsn) \in Nat
  <2>1. log # << >> => Len(log) \in DOMAIN log
    BY SMT DEF PipelineTypeOK
  <2>2. log # << >> => log[Len(log)] \in Logged
    BY <2>1 DEF Logged
  <2> QED
    BY <2>2, LogTyped
<1>2. \A r \in begun : r.first - 1 \in Nat /\ r.first \in Nat
  BY SMT DEF PipelineTypeOK, LsnRange
<1>3. below \in SUBSET Nat /\ below # {} /\ \A r \in begun : r.first - 1 \in below
  BY <1>1, <1>2
<1>4. Applied = CHOOSE l \in below : \A k \in below : l <= k
  BY DEF Applied
<1> HIDE DEF below
<1>5. \E l \in below : \A k \in below : l <= k
  BY <1>3, LeastNat
<1>6. Applied \in below /\ \A k \in below : Applied <= k
  BY <1>4, <1>5
<1> QED
  BY <1>2, <1>3, <1>6, SMT

LEMMA CheckpointInv ==
  ASSUME PipelineInv, CloseCheckpoint
  PROVE  PipelineInv'
<1> USE DEF PipelineInv
<1>1. /\ closer = "checkpoint" /\ closer' = "wal" /\ cut' = Applied
      /\ UNCHANGED <<pc, req, result, batch, committer, stop, log, lsn, begun, requests>>
  BY DEF CloseCheckpoint
<1>2. PipelineTypeOK'
  BY <1>1, AppliedLeast DEF PipelineTypeOK
<1>3. BatchOnce' /\ BatchProcs' = BatchProcs /\ Logged' = Logged
  BY <1>1 DEF BatchOnce, BatchProcs, Logged
<1>4. IdsApart' /\ AppliesBegun' /\ WaitingHeld' /\ RangesExact' /\ ClosedLast'
  BY <1>1, <1>3 DEF IdsApart, Busy, AppliesBegun, Unapplied, WaitingHeld, RangesExact, ClosedLast
<1>5. CloseCutsApplied'
  BY <1>1, AppliedLeast DEF CloseCutsApplied, AppliesBegun, Unapplied
<1> QED
  BY <1>2, <1>3, <1>4, <1>5

----------------------------------------------------------------------------
\* A flush.

\* Which LSNs the requests of the batch are given.
LEMMA Spans ==
  ASSUME PipelineTypeOK
  PROVE  /\ Len(batch) \in Nat /\ Total \in Nat /\ assigned[Len(batch)] = lsn + Total
         /\ \A i \in 1..Len(batch) :
              /\ assigned[i - 1] \in Nat /\ lsn <= assigned[i - 1]
              /\ assigned[i] = assigned[i - 1] + req[batch[i]].n /\ assigned[i] <= lsn + Total
              /\ \A j \in 1..Len(batch) : i < j => assigned[i] <= assigned[j - 1]
<1> DEFINE N == Len(batch)
<1>1. N \in Nat /\ lsn \in Nat /\ 0 \in 0..N /\ N \in 0..N
  BY SMT DEF PipelineTypeOK
<1>2. assigned \in [0..N -> Nat] /\ assigned[0] = lsn
  BY Assigned
<1>3. \A i \in 1..N : assigned[i] = assigned[i - 1] + req[batch[i]].n
  BY Assigned
<1>4. RunningSum(assigned, Counts, N)
  BY BatchSum
<1> HIDE DEF N
<1>5. \A i \in 0..N : \A j \in i..N : assigned[i] <= assigned[j]
  BY <1>4, SumMonotone
<1>6. lsn <= assigned[N]
  <2>1. N \in 0..N
    BY <1>1
  <2> QED
    BY <1>1, <1>2, <1>5, <2>1
<1>7. Total \in Nat /\ assigned[N] = lsn + Total
  BY <1>1, <1>2, <1>6, SMT DEF Total, N
<1>8. ASSUME NEW i \in 1..N
      PROVE  /\ assigned[i - 1] \in Nat /\ lsn <= assigned[i - 1] /\ assigned[i] <= lsn + Total
             /\ \A j \in 1..N : i < j => assigned[i] <= assigned[j - 1]
  <2>1. i - 1 \in 0..N /\ i \in 0..N /\ N \in i..N /\ \A j \in 1..N : i < j => j - 1 \in i..N
    BY <1>1, SMT
  <2> QED
    BY <1>1, <1>2, <1>5, <1>7, <2>1
<1> QED
  BY <1>1, <1>3, <1>7, <1>8 DEF N

RecordOfBatch(e) ==
  \E i \in 1..Len(batch) : \E l \in (assigned[i - 1] + 1)..assigned[i] :
    e = [lsn |-> l, id |-> req[batch[i]].id]

\* The log after a flush has the records of the batch too, each with an LSN of
\* its request.
LEMMA LogGrows ==
  ASSUME PipelineTypeOK, batch # << >>, FlushOk
  PROVE  /\ log' \in Seq([lsn : Nat, id : Nat])
         /\ \A e : e \in Logged' <=> e \in Logged \/ RecordOfBatch(e)
<1> DEFINE Entry == [lsn : Nat, id : Nat]
           new == [k \in 1..Total |-> [lsn |-> lsn + k, id |-> Recs[k]]]
<1>1. log \in Seq(Entry) /\ lsn \in Nat
  BY DEF PipelineTypeOK
<1>2. Total \in Nat /\ assigned[Len(batch)] = lsn + Total
  BY Spans
<1>3. /\ Recs \in Seq(Nat) /\ Len(Recs) = Total
      /\ \A j \in 1..Len(batch) : \A k \in 1..req[batch[j]].n :
           Recs[assigned[j - 1] - lsn + k] = req[batch[j]].id
  BY RecsSpan
<1>4. log' = log \o new
  BY <1>3 DEF FlushOk, Recs
<1>5. \A k \in 1..Total : [lsn |-> lsn + k, id |-> Recs[k]] \in Entry
  BY <1>1, <1>2, <1>3, SMT
<1>6. new \in Seq(Entry) /\ Len(new) = Total
  <2> HIDE DEF Entry
  <2>1. new \in [1..Total -> Entry]
    BY <1>5
  <2> HIDE DEF new
  <2> QED
    BY <1>2, <2>1, SMT
<1>7. \A k \in 1..Total : new[k] = [lsn |-> lsn + k, id |-> Recs[k]]
  OBVIOUS
<1> HIDE DEF Entry, new
<1>8. /\ log' \in Seq(Entry) /\ Len(log') = Len(log) + Total
      /\ \A k \in 1..Len(log) : log'[k] = log[k]
      /\ \A k \in 1..Total : log'[Len(log) + k] = new[k]
  <2>1. log' \in Seq(Entry) /\ Len(log') = Len(log) + Len(new)
    BY <1>1, <1>4, <1>6, SMT
  <2>2. \A k \in 1..Len(log) : log'[k] = log[k]
    BY <1>1, <1>4, <1>6, SMT
  <2>3. \A k \in 1..Len(new) : log'[Len(log) + k] = new[k]
    BY <1>1, <1>4, <1>6, SMT
  <2> QED
    BY <1>6, <2>1, <2>2, <2>3
<1>9. Len(log) \in Nat /\ DOMAIN log = 1..Len(log) /\ DOMAIN log' = 1..(Len(log) + Total)
  BY <1>1, <1>8, SMT
<1>10. \A e : e \in Logged' <=> e \in Logged \/ \E k \in 1..Total : e = new[k]
  <2>1. \A x \in DOMAIN log' : x \in 1..Len(log) \/ \E k \in 1..Total : x = Len(log) + k
    <3> SUFFICES ASSUME NEW x \in 1..(Len(log) + Total), x \notin 1..Len(log)
                 PROVE  \E k \in 1..Total : x = Len(log) + k
      BY <1>9
    <3>1. x - Len(log) \in 1..Total /\ x = Len(log) + (x - Len(log))
      BY <1>2, <1>9, SMT
    <3> QED
      BY <3>1
  <2>2. \A k \in 1..Total : Len(log) + k \in DOMAIN log'
    BY <1>2, <1>9, SMT
  <2>3. \A k \in 1..Len(log) : k \in DOMAIN log'
    BY <1>2, <1>9, SMT
  <2>4. ASSUME NEW e \in Logged' PROVE e \in Logged \/ \E k \in 1..Total : e = new[k]
    <3>1. PICK x \in DOMAIN log' : e = log'[x]
      BY DEF Logged
    <3> QED
      BY <1>8, <1>9, <2>1, <3>1 DEF Logged
  <2>5. ASSUME NEW e \in Logged PROVE e \in Logged'
    <3>1. PICK x \in DOMAIN log : e = log[x]
      BY DEF Logged
    <3> QED
      BY <1>8, <1>9, <2>3, <3>1 DEF Logged
  <2>6. ASSUME NEW k \in 1..Total PROVE new[k] \in Logged'
    BY <1>8, <2>2 DEF Logged
  <2> QED
    BY <2>4, <2>5, <2>6
<1>11. ASSUME NEW i \in 1..Len(batch), NEW l \in (assigned[i - 1] + 1)..assigned[i]
       PROVE  l - lsn \in 1..Total /\ new[l - lsn] = [lsn |-> l, id |-> req[batch[i]].id]
  <2>1. /\ assigned[i - 1] \in Nat /\ lsn <= assigned[i - 1]
        /\ assigned[i] = assigned[i - 1] + req[batch[i]].n /\ assigned[i] <= lsn + Total
    BY Spans
  <2>2. req[batch[i]].n \in Nat
    BY BatchTyped, Zenon
  <2>3. /\ l - assigned[i - 1] \in 1..req[batch[i]].n
        /\ assigned[i - 1] - lsn + (l - assigned[i - 1]) = l - lsn
        /\ l - lsn \in 1..Total /\ lsn + (l - lsn) = l
    <3> DEFINE a == assigned[i - 1]
               n == req[batch[i]].n
               t == Total
    <3>1. /\ a \in Nat /\ n \in Nat /\ lsn \in Nat /\ t \in Nat /\ lsn <= a
          /\ a + n <= lsn + t /\ l \in (a + 1)..(a + n)
      BY <1>1, <1>2, <2>1, <2>2
    <3> HIDE DEF a, n, t
    <3>2. l - a \in 1..n /\ a - lsn + (l - a) = l - lsn
      BY <3>1, SMT
    <3>3. l - lsn \in 1..t /\ lsn + (l - lsn) = l
      BY <3>1, SMT
    <3> QED
      BY <3>2, <3>3 DEF a, n, t
  <2>4. Recs[l - lsn] = req[batch[i]].id
    BY <1>3, <2>3
  <2> QED
    BY <1>7, <2>3, <2>4
<1>12. ASSUME NEW k \in 1..Total
       PROVE  \E i \in 1..Len(batch) : \E l \in (assigned[i - 1] + 1)..assigned[i] : l - lsn = k
  <2>1. lsn + k \in (assigned[0] + 1)..assigned[Len(batch)] /\ (lsn + k) - lsn = k
    BY <1>1, <1>2, Assigned, SMT
  <2>2. \E j \in 1..Len(batch) : lsn + k \in (assigned[j - 1] + 1)..assigned[j]
    BY <2>1, BatchSum, SumCovers
  <2> QED
    BY <2>1, <2>2
<1>13. ASSUME NEW k \in 1..Total PROVE RecordOfBatch(new[k])
  BY <1>11, <1>12, SMT DEF RecordOfBatch
<1>14. ASSUME NEW e, RecordOfBatch(e) PROVE \E k \in 1..Total : e = new[k]
  BY <1>11, <1>14 DEF RecordOfBatch
<1> QED
  BY <1>8, <1>10, <1>13, <1>14 DEF Entry

\* What a successful flush tells each request of the batch, and that the
\* others hear nothing.
LEMMA FlushAnswers ==
  ASSUME PipelineInv, FlushOk
  PROVE  /\ \A i \in 1..Len(batch) :
              /\ batch[i] \in Process /\ pc[batch[i]] = "wait"
              /\ pc'[batch[i]] = "apply" /\ result'[batch[i]] = Answer(i)
         /\ \A p \in Process : \/ \E i \in 1..Len(batch) : p = batch[i]
                               \/ pc'[p] = pc[p] /\ result'[p] = result[p] /\ pc[p] # "wait"
<1>1. PipelineTypeOK /\ BatchOnce /\ WaitingHeld
  BY DEF PipelineInv
<1>2. DOMAIN batch = 1..Len(batch) /\ \A i \in 1..Len(batch) : batch[i] \in Process
  BY <1>1, SMT DEF PipelineTypeOK
<1>3. \A p : p \in BatchProcs <=> \E i \in 1..Len(batch) : p = batch[i]
  BY <1>2 DEF BatchProcs
<1>4. \A p \in Process : pc[p] = "wait" <=> p \in BatchProcs
  BY <1>1 DEF WaitingHeld
<1>5. /\ result' = [p \in Process |->
           IF p \in BatchProcs
           THEN [i \in 1..Len(batch) |-> Answer(i)][CHOOSE i \in DOMAIN batch : batch[i] = p]
           ELSE result[p]]
      /\ pc' = [p \in Process |-> IF p \in BatchProcs THEN "apply" ELSE pc[p]]
  BY DEF FlushOk
<1>6. ASSUME NEW i \in 1..Len(batch)
      PROVE  (CHOOSE j \in DOMAIN batch : batch[j] = batch[i]) = i
  BY <1>1, <1>2 DEF BatchOnce
<1>7. ASSUME NEW i \in 1..Len(batch)
      PROVE  /\ batch[i] \in Process /\ pc[batch[i]] = "wait"
             /\ pc'[batch[i]] = "apply" /\ result'[batch[i]] = Answer(i)
  <2>1. batch[i] \in Process /\ batch[i] \in BatchProcs
    BY <1>2, <1>3
  <2> HIDE DEF Answer
  <2>2. [j \in 1..Len(batch) |-> Answer(j)][i] = Answer(i)
    OBVIOUS
  <2>3. result'[batch[i]] = Answer(i)
    BY <1>5, <1>6, <2>1, <2>2
  <2> QED
    BY <1>4, <1>5, <2>1, <2>3
<1>8. ASSUME NEW p \in Process, ~ \E i \in 1..Len(batch) : p = batch[i]
      PROVE  pc'[p] = pc[p] /\ result'[p] = result[p] /\ pc[p] # "wait"
  BY <1>3, <1>4, <1>5, <1>8
<1> QED
  BY <1>7, <1>8

\* The LSNs of the answer to the i-th request of the batch.
LEMMA AnswerIs ==
  ASSUME PipelineTypeOK, NEW i \in 1..Len(batch)
  PROVE  /\ Answer(i) \in [first : Nat, last : Nat, ok : BOOLEAN]
         /\ req[batch[i]].n = 0 => Answer(i).first = 0 /\ Answer(i).last = 0
         /\ req[batch[i]].n # 0 =>
              /\ Answer(i).first = assigned[i - 1] + 1 /\ Answer(i).last = assigned[i]
              /\ Answer(i).first \in (lsn + 1)..(lsn + Total) /\ Answer(i).last # 0
<1>1. req[batch[i]].n \in Nat /\ lsn \in Nat
  BY BatchTyped, Zenon DEF PipelineTypeOK
<1>2. /\ assigned[i - 1] \in Nat /\ lsn <= assigned[i - 1] /\ Total \in Nat
      /\ assigned[i] = assigned[i - 1] + req[batch[i]].n /\ assigned[i] <= lsn + Total
  BY Spans
<1>3. \A a, n \in Nat : a + 1 \in Nat /\ a + 1 + n - 1 \in Nat /\ a + 1 + n - 1 = a + n
  BY SMT
<1>4. /\ FirstOf(i) = assigned[i - 1] + 1 /\ FirstOf(i) \in Nat
      /\ FirstOf(i) + req[batch[i]].n - 1 = assigned[i] /\ assigned[i] \in Nat
  <2>1. FirstOf(i) = assigned[i - 1] + 1
    BY DEF FirstOf
  <2>2. PICK a \in Nat, n \in Nat : a = assigned[i - 1] /\ n = req[batch[i]].n
    BY <1>1, <1>2, Zenon
  <2>3. a + 1 \in Nat /\ a + 1 + n - 1 \in Nat /\ a + 1 + n - 1 = a + n
    BY <1>3, Zenon
  <2> QED
    BY <1>2, <2>1, <2>2, <2>3, Zenon
<1>5. CASE req[batch[i]].n = 0
  BY <1>5 DEF Answer
<1>6. CASE req[batch[i]].n # 0
  <2>1. Answer(i) = [first |-> assigned[i - 1] + 1, last |-> assigned[i], ok |-> TRUE]
    BY <1>4, <1>6 DEF Answer
  <2>2. assigned[i - 1] + 1 \in (lsn + 1)..(lsn + Total) /\ assigned[i] # 0
    BY <1>1, <1>2, <1>6, SMT
  <2>3. assigned[i - 1] + 1 \in Nat /\ assigned[i] \in Nat
    BY <1>4
  <2>4. /\ Answer(i) \in [first : Nat, last : Nat, ok : BOOLEAN]
        /\ Answer(i).first = assigned[i - 1] + 1 /\ Answer(i).last = assigned[i]
    BY <2>1, <2>3, SMT
  <2> QED
    BY <1>6, <2>2, <2>4, Zenon
<1> QED
  BY <1>5, <1>6, Zenon

LEMMA FlushOkInv ==
  ASSUME PipelineInv, batch # << >>, committer # "exit", FlushOk, batch' = << >>,
         UNCHANGED <<req, closer, cut, requests>>, ClosedLast'
  PROVE  PipelineInv'
<1> DEFINE N == Len(batch)
           n(i) == req[batch[i]].n
           Res == [first : Nat, last : Nat, ok : BOOLEAN]
<1>0. /\ PipelineTypeOK /\ BatchOnce /\ IdsApart /\ AppliesBegun /\ ClosedLast
      /\ WaitingHeld /\ RangesExact /\ CloseCutsApplied
  BY DEF PipelineInv
<1>1. /\ lsn' = lsn + Total /\ lsn \in Nat /\ Total \in Nat
      /\ begun' = Register([i \in 1..N |-> Answer(i)])
  BY <1>0, Spans DEF FlushOk, PipelineTypeOK
<1>2. \A i \in 1..N : /\ batch[i] \in Process /\ pc[batch[i]] = "wait"
                      /\ pc'[batch[i]] = "apply" /\ result'[batch[i]] = Answer(i)
  BY FlushAnswers
<1>3. \A p \in Process : \/ \E i \in 1..N : p = batch[i]
                         \/ pc'[p] = pc[p] /\ result'[p] = result[p] /\ pc[p] # "wait"
  BY FlushAnswers
<1>4. /\ log' \in Seq([lsn : Nat, id : Nat])
      /\ \A e : e \in Logged' <=> e \in Logged \/ RecordOfBatch(e)
  BY <1>0, LogGrows
<1>5. \A i, j \in 1..N : batch[i] = batch[j] => i = j
  <2>1. DOMAIN batch = 1..N
    BY <1>0, SMT DEF PipelineTypeOK
  <2> QED
    BY <1>0, <2>1 DEF BatchOnce
<1>6. \A e : RecordOfBatch(e) <=> \E i \in 1..N :
               \E l \in (assigned[i - 1] + 1)..assigned[i] : e = [lsn |-> l, id |-> req[batch[i]].id]
  BY DEF RecordOfBatch
<1>7. \A i \in 1..N : n(i) \in Nat
  BY <1>0, SMT DEF PipelineTypeOK
<1>8. \A i \in 1..N : /\ Answer(i) \in Res
                      /\ n(i) = 0 => Answer(i).first = 0 /\ Answer(i).last = 0
                      /\ n(i) # 0 => /\ Answer(i).first = assigned[i - 1] + 1
                                     /\ Answer(i).last = assigned[i]
                                     /\ Answer(i).first \in (lsn + 1)..(lsn + Total)
                                     /\ Answer(i).last # 0
  BY <1>0, AnswerIs
<1>9. \A r : r \in begun' <=> \/ r \in begun
                              \/ \E i \in 1..N : /\ Answer(i).last # 0
                                                 /\ r = [first |-> Answer(i).first, last |-> Answer(i).last]
  <2> HIDE DEF Answer, N
  <2> QED
    BY <1>1 DEF Register
<1> HIDE DEF Answer, RecordOfBatch
<1>10. PipelineTypeOK'
  <2>1. pc' \in [Process -> {"idle", "send", "wait", "apply", "exit"}]
    BY <1>0 DEF FlushOk, PipelineTypeOK
  <2>2. \A p \in Process : result'[p] \in Res
    <3> HIDE DEF Res
    <3>1. \A p \in Process : result[p] \in Res
      BY <1>0 DEF PipelineTypeOK, Res
    <3> QED
      BY <1>2, <1>3, <1>8, <3>1, SMT
  <2>3. result' \in [Process -> Res]
    <3>1. result' = [p \in Process |-> result'[p]]
      BY SMT DEF FlushOk
    <3> HIDE DEF Res
    <3> QED
      BY <2>2, <3>1
  <2>4. begun' \subseteq LsnRange
    <3>1. ASSUME NEW i \in 1..N, Answer(i).last # 0
          PROVE  [first |-> Answer(i).first, last |-> Answer(i).last] \in LsnRange
      <4>1. Answer(i).first \in (lsn + 1)..(lsn + Total) /\ Answer(i).last \in Nat
        BY <1>8, <3>1
      <4>2. Answer(i).first \in Nat \ {0}
        BY <1>1, <4>1, SMT
      <4> QED
        BY <4>1, <4>2 DEF LsnRange
    <3>2. begun \subseteq LsnRange
      BY <1>0 DEF PipelineTypeOK
    <3> HIDE DEF LsnRange
    <3> QED
      BY <1>9, <3>1, <3>2, SMT
  <2>5. batch' \in Seq(Process) /\ lsn' \in Nat /\ cut' \in Nat /\ requests' \in Nat
        /\ req' \in [Process -> [id : Nat, n : Nat]]
    BY <1>0, <1>1, SMT DEF PipelineTypeOK
  <2> QED
    BY <1>4, <2>1, <2>3, <2>4, <2>5 DEF PipelineTypeOK
<1>11. BatchOnce' /\ BatchProcs' = {}
  BY SMT DEF BatchOnce, BatchProcs
<1>12. WaitingHeld'
  BY <1>2, <1>3, <1>11 DEF WaitingHeld
<1>13. \A p \in Process : Busy(p)' => Busy(p)
  BY <1>2, <1>3 DEF Busy
<1>14. ASSUME NEW e, RecordOfBatch(e)
       PROVE  \E i \in 1..N : /\ e.id = req[batch[i]].id /\ e.lsn \in (assigned[i - 1] + 1)..assigned[i]
                              /\ batch[i] \in Process /\ Busy(batch[i])
  <2>1. PICK i \in 1..N : \E l \in (assigned[i - 1] + 1)..assigned[i] :
                           e = [lsn |-> l, id |-> req[batch[i]].id]
    BY <1>6, <1>14
  <2>2. e.id = req[batch[i]].id /\ e.lsn \in (assigned[i - 1] + 1)..assigned[i]
    BY <2>1, SMT
  <2>3. batch[i] \in Process /\ Busy(batch[i])
    BY <1>2 DEF Busy
  <2> QED
    BY <2>2, <2>3
<1>15. \A i \in 1..N : req[batch[i]].id \in Nat
  BY <1>0, <1>2 DEF PipelineTypeOK
<1>16. IdsApart'
  <2>0. \A p \in Process : req'[p] = req[p]
    OBVIOUS
  <2>1. \A p \in Process : req'[p].id <= requests'
    BY <1>0 DEF IdsApart
  <2>2. \A p, q \in Process : Busy(p)' /\ Busy(q)' /\ req'[p].id = req'[q].id => p = q
    BY <1>0, <1>13, <2>0 DEF IdsApart
  <2>3. ASSUME NEW e \in Logged' PROVE e.id <= requests'
    <3>1. CASE e \in Logged
      BY <1>0, <3>1 DEF IdsApart
    <3>2. CASE RecordOfBatch(e)
      BY <1>0, <1>14, <3>2 DEF IdsApart
    <3> QED
      BY <1>4, <3>1, <3>2
  <2>4. ASSUME NEW p \in Process, pc'[p] \in {"send", "wait"}, NEW e \in Logged'
        PROVE  e.id # req'[p].id
    <3>1. pc[p] = "send" /\ \A i \in 1..N : batch[i] # p
      BY <1>2, <1>3, <2>4
    <3>2. CASE e \in Logged
      BY <1>0, <3>1, <3>2 DEF IdsApart
    <3>3. CASE RecordOfBatch(e)
      <4>1. PICK i \in 1..N : e.id = req[batch[i]].id /\ batch[i] \in Process /\ Busy(batch[i])
        BY <1>14, <3>3
      <4>2. Busy(p)
        BY <3>1 DEF Busy
      <4> QED
        BY <1>0, <3>1, <4>1, <4>2 DEF IdsApart
    <3> QED
      BY <1>4, <3>2, <3>3
  <2> QED
    BY <2>1, <2>2, <2>3, <2>4 DEF IdsApart
<1>17. ASSUME NEW i \in 1..N, n(i) # 0
       PROVE  /\ result'[batch[i]].first = assigned[i - 1] + 1
              /\ result'[batch[i]].last = assigned[i]
              /\ result'[batch[i]].first \in (lsn + 1)..(lsn + Total)
              /\ [first |-> result'[batch[i]].first, last |-> result'[batch[i]].last] \in begun'
  <2>1. result'[batch[i]] = Answer(i) /\ Answer(i).last # 0
    BY <1>2, <1>8, <1>17
  <2> QED
    BY <1>8, <1>9, <1>17, <2>1
<1>18. ASSUME NEW i \in 1..N, NEW j \in 1..N, n(i) # 0, n(j) # 0,
              result'[batch[i]].first = result'[batch[j]].first
       PROVE  i = j
  <2>1. assigned[i - 1] + 1 = assigned[j - 1] + 1
    BY <1>17, <1>18
  <2>2. /\ assigned[i - 1] \in Nat /\ assigned[j - 1] \in Nat /\ n(i) \in Nat /\ n(j) \in Nat
        /\ assigned[i] = assigned[i - 1] + n(i) /\ assigned[j] = assigned[j - 1] + n(j)
        /\ i < j => assigned[i] <= assigned[j - 1]
        /\ j < i => assigned[j] <= assigned[i - 1]
    BY <1>0, <1>7, Spans
  <2>3. i \in Nat /\ j \in Nat
    BY <1>0, Spans, SMT
  <2>4. \A x, y, c, d \in Nat : x + 1 = y + 1 /\ c # 0 /\ d # 0 => ~ (x + c <= y) /\ ~ (y + d <= x)
    BY SMT
  <2> HIDE DEF n
  <2>5. ~ (i < j) /\ ~ (j < i)
    BY <1>18, <2>1, <2>2, <2>4
  <2> QED
    BY <2>3, <2>5, SMT
<1>19. AppliesBegun'
  <2>0. \A p \in Process : req'[p] = req[p] /\ req[p].n \in Nat
    BY <1>0 DEF PipelineTypeOK
  <2>1. ASSUME NEW p \in Process, \A i \in 1..N : p # batch[i], Unapplied(p)'
        PROVE  /\ Unapplied(p) /\ result'[p] = result[p] /\ result[p].first \in 1..lsn
               /\ [first |-> result[p].first, last |-> result[p].last] \in begun'
    <3>1. Unapplied(p) /\ result'[p] = result[p]
      BY <1>3, <2>0, <2>1 DEF Unapplied
    <3>2. /\ result[p].first \in 1..lsn
          /\ [first |-> result[p].first, last |-> result[p].last] \in begun
      BY <1>0, <3>1 DEF AppliesBegun
    <3> QED
      BY <1>9, <3>1, <3>2
  <2>2. ASSUME NEW p \in Process, pc'[p] = "apply", req'[p].n = 0
        PROVE  result'[p].first = 0
    <3>1. CASE \E i \in 1..N : p = batch[i]
      BY <1>2, <1>8, <2>0, <2>2, <3>1, SMT
    <3>2. CASE pc'[p] = pc[p] /\ result'[p] = result[p]
      BY <1>0, <2>0, <2>2, <3>2 DEF AppliesBegun
    <3> QED
      BY <1>3, <3>1, <3>2
  <2>3. ASSUME NEW p \in Process, Unapplied(p)'
        PROVE  /\ result'[p].first \in 1..lsn'
               /\ [first |-> result'[p].first, last |-> result'[p].last] \in begun'
    <3>1. CASE \E i \in 1..N : p = batch[i]
      <4>1. PICK i \in 1..N : p = batch[i]
        BY <3>1
      <4>2. n(i) # 0
        BY <2>0, <2>3, <4>1, SMT DEF Unapplied
      <4> HIDE DEF n
      <4> QED
        BY <1>1, <1>17, <4>1, <4>2, SMT
    <3>2. CASE \A i \in 1..N : p # batch[i]
      <4>1. /\ result'[p] = result[p] /\ result[p].first \in 1..lsn
            /\ [first |-> result[p].first, last |-> result[p].last] \in begun'
        BY <2>1, <2>3, <3>2
      <4>2. 1..lsn \subseteq 1..lsn'
        BY <1>1, SMT
      <4> QED
        BY <4>1, <4>2, Zenon
    <3> QED
      BY <3>1, <3>2
  <2>4. ASSUME NEW p \in Process, Unapplied(p)', NEW q \in Process, Unapplied(q)',
               result'[q].first = result'[p].first
        PROVE  q = p
    <3>0. /\ \A i \in 1..N : p = batch[i] => n(i) # 0
          /\ \A i \in 1..N : q = batch[i] => n(i) # 0
      BY <2>0, <2>4, SMT DEF Unapplied
    <3> HIDE DEF n
    <3>1. CASE (\E i \in 1..N : p = batch[i]) /\ (\E i \in 1..N : q = batch[i])
      BY <1>18, <2>4, <3>0, <3>1
    <3>2. CASE (\A i \in 1..N : p # batch[i]) /\ (\A i \in 1..N : q # batch[i])
      BY <1>0, <2>1, <2>4, <3>2 DEF AppliesBegun
    <3>3. CASE (\A i \in 1..N : p # batch[i]) /\ (\E i \in 1..N : q = batch[i])
      <4>1. PICK i \in 1..N : q = batch[i]
        BY <3>3
      <4>2. result'[q].first \in (lsn + 1)..(lsn + Total) /\ result'[p].first \in 1..lsn
        BY <1>17, <2>1, <2>4, <3>0, <3>3, <4>1
      <4> QED
        BY <1>1, <2>4, <4>2, SMT
    <3>4. CASE (\E i \in 1..N : p = batch[i]) /\ (\A i \in 1..N : q # batch[i])
      <4>1. PICK i \in 1..N : p = batch[i]
        BY <3>4
      <4>2. result'[p].first \in (lsn + 1)..(lsn + Total) /\ result'[q].first \in 1..lsn
        BY <1>17, <2>1, <2>4, <3>0, <3>4, <4>1
      <4> QED
        BY <1>1, <2>4, <4>2, SMT
    <3> QED
      BY <3>1, <3>2, <3>3, <3>4
  <2> QED
    BY <2>2, <2>3, <2>4 DEF AppliesBegun
<1>20. cut' = 0
  BY <1>0 DEF ClosedLast
<1>21. CloseCutsApplied'
  <2>1. ASSUME NEW p \in Process, pc'[p] = "apply", req'[p].n > 0
        PROVE  cut' < result'[p].first
    <3>1. result'[p].first \in 1..lsn'
      BY <1>19, <2>1 DEF AppliesBegun, Unapplied
    <3> QED
      BY <1>1, <1>20, <3>1, SMT
  <2> QED
    BY <2>1 DEF CloseCutsApplied
<1>22. ASSUME NEW p \in Process, pc'[p] = "apply", req'[p].n > 0
       PROVE  {e.lsn : e \in {x \in Logged' : x.id = req'[p].id}} = result'[p].first..result'[p].last
  <2>0. req'[p] = req[p]
    OBVIOUS
  <2>1. CASE \E i \in 1..N : p = batch[i]
    <3>1. PICK i \in 1..N : p = batch[i]
      BY <2>1
    <3>2. n(i) # 0
      BY <1>7, <1>22, <2>0, <3>1, SMT
    <3>3. result'[p].first = assigned[i - 1] + 1 /\ result'[p].last = assigned[i]
      BY <1>17, <3>1, <3>2
    <3>4. pc[p] = "wait" /\ Busy(p)
      BY <1>2, <3>1 DEF Busy
    <3>5. ASSUME NEW x \in Logged', x.id = req[p].id
          PROVE  x.lsn \in (assigned[i - 1] + 1)..assigned[i]
      <4>1. RecordOfBatch(x)
        BY <1>0, <1>4, <3>4, <3>5 DEF IdsApart
      <4>2. PICK j \in 1..N : /\ x.id = req[batch[j]].id /\ x.lsn \in (assigned[j - 1] + 1)..assigned[j]
                              /\ batch[j] \in Process /\ Busy(batch[j])
        BY <1>14, <4>1
      <4>3. batch[j] = p
        BY <1>0, <3>4, <3>5, <4>2 DEF IdsApart
      <4>4. j = i
        BY <1>5, <3>1, <4>3
      <4> QED
        BY <4>2, <4>4
    <3>6. ASSUME NEW l \in (assigned[i - 1] + 1)..assigned[i]
          PROVE  \E x \in Logged' : x.id = req[p].id /\ x.lsn = l
      <4>1. RecordOfBatch([lsn |-> l, id |-> req[batch[i]].id])
        BY <1>6
      <4>2. [lsn |-> l, id |-> req[batch[i]].id] \in Logged'
        BY <1>4, <4>1
      <4> QED
        BY <3>1, <4>2
    <3> QED
      BY <2>0, <3>3, <3>5, <3>6
  <2>2. CASE pc'[p] = pc[p] /\ result'[p] = result[p] /\ \A i \in 1..N : p # batch[i]
    <3>1. Busy(p)
      BY <1>22, <2>2 DEF Busy
    <3>2. ASSUME NEW x, RecordOfBatch(x) PROVE x.id # req[p].id
      <4>1. PICK i \in 1..N : x.id = req[batch[i]].id /\ batch[i] \in Process /\ Busy(batch[i])
        BY <1>14, <3>2
      <4> QED
        BY <1>0, <2>2, <3>1, <4>1 DEF IdsApart
    <3>3. {x \in Logged' : x.id = req[p].id} = {x \in Logged : x.id = req[p].id}
      BY <1>4, <3>2
    <3>4. {e.lsn : e \in {x \in Logged : x.id = req[p].id}} = result[p].first..result[p].last
      BY <1>0, <1>22, <2>0, <2>2 DEF RangesExact
    <3> QED
      BY <2>0, <2>2, <3>3, <3>4
  <2> QED
    BY <1>3, <2>1, <2>2
<1>23. RangesExact'
  BY <1>22 DEF RangesExact
<1> QED
  BY <1>10, <1>11, <1>12, <1>16, <1>19, <1>21, <1>23 DEF PipelineInv

LEMMA FlushFailInv ==
  ASSUME PipelineInv, FlushFail, batch' = << >>,
         UNCHANGED <<req, closer, cut, requests>>, ClosedLast'
  PROVE  PipelineInv'
<1>0. /\ PipelineTypeOK /\ BatchOnce /\ IdsApart /\ AppliesBegun /\ ClosedLast
      /\ WaitingHeld /\ RangesExact /\ CloseCutsApplied
  BY DEF PipelineInv
<1>1. /\ result' = [p \in Process |-> IF p \in BatchProcs THEN Nothing ELSE result[p]]
      /\ pc' = [p \in Process |-> IF p \in BatchProcs THEN "idle" ELSE pc[p]]
      /\ UNCHANGED <<log, begun>>
  BY DEF FlushFail
<1>2. lsn \in Nat /\ lsn' \in Nat /\ lsn <= lsn'
  BY <1>0, Spans, SMT DEF FlushFail, PipelineTypeOK
<1>3. \A p \in Process : pc[p] = "wait" <=> p \in BatchProcs
  BY <1>0 DEF WaitingHeld
<1>4. \A p \in Process : pc'[p] # "wait"
  BY <1>1, <1>3
<1>5. \A p \in Process : pc'[p] # "idle" => pc'[p] = pc[p] /\ result'[p] = result[p]
  BY <1>1
<1>6. PipelineTypeOK'
  <2>1. pc' \in [Process -> {"idle", "send", "wait", "apply", "exit"}]
    BY <1>0, <1>1 DEF PipelineTypeOK
  <2>2. result' \in [Process -> [first : Nat, last : Nat, ok : BOOLEAN]]
    <3> DEFINE Res == [first : Nat, last : Nat, ok : BOOLEAN]
    <3>1. Nothing \in Res /\ result \in [Process -> Res]
      BY <1>0 DEF Nothing, PipelineTypeOK
    <3> HIDE DEF Res
    <3>2. result' \in [Process -> Res]
      BY <1>1, <3>1
    <3> QED
      BY <3>2 DEF Res
  <2> QED
    BY <1>0, <1>1, <1>2, <2>1, <2>2, SMT DEF PipelineTypeOK
<1>7. BatchOnce' /\ BatchProcs' = {} /\ Logged' = Logged
  BY <1>1, SMT DEF BatchOnce, BatchProcs, Logged
<1>8. IdsApart'
  BY <1>0, <1>5, <1>7 DEF IdsApart, Busy
<1>9. AppliesBegun'
  <2>1. \A p \in Process : Unapplied(p)' => Unapplied(p) /\ result'[p] = result[p]
    BY <1>5 DEF Unapplied
  <2>2. 1..lsn \subseteq 1..lsn'
    BY <1>2, SMT
  <2>3. ASSUME NEW p \in Process, pc'[p] = "apply", req'[p].n = 0 PROVE result'[p].first = 0
    BY <1>0, <1>5, <2>3 DEF AppliesBegun
  <2>4. ASSUME NEW p \in Process, Unapplied(p)'
        PROVE  /\ result'[p].first \in 1..lsn'
               /\ [first |-> result'[p].first, last |-> result'[p].last] \in begun'
               /\ \A q \in Process : Unapplied(q)' /\ result'[q].first = result'[p].first => q = p
    <3>1. /\ result[p].first \in 1..lsn
          /\ [first |-> result[p].first, last |-> result[p].last] \in begun
          /\ \A q \in Process : Unapplied(q) /\ result[q].first = result[p].first => q = p
      BY <1>0, <2>1, <2>4 DEF AppliesBegun
    <3> QED
      BY <1>1, <2>1, <2>2, <2>4, <3>1
  <2> QED
    BY <2>3, <2>4 DEF AppliesBegun
<1>10. WaitingHeld'
  BY <1>4, <1>7 DEF WaitingHeld
<1>11. RangesExact'
  BY <1>0, <1>5, <1>7 DEF RangesExact
<1>12. CloseCutsApplied'
  BY <1>0, <1>5 DEF CloseCutsApplied
<1> QED
  BY <1>6, <1>7, <1>8, <1>9, <1>10, <1>11, <1>12 DEF PipelineInv

----------------------------------------------------------------------------
\* Every step keeps the invariant.

LEMMA NextInv ==
  ASSUME PipelineInv, [Next]_vars
  PROVE  PipelineInv'
<1>0. ClosedLast /\ WaitingHeld
  BY DEF PipelineInv
<1>1. ASSUME NEW p \in Process, NEW n \in Records, Submit(p, n) PROVE PipelineInv'
  BY <1>1, SubmitInv
<1>2. ASSUME NEW p \in Process, Send(p) \/ SendClosed(p) \/ Apply(p) PROVE PipelineInv'
  BY <1>2, SendInv, SendClosedInv, ApplyInv
<1>3. CASE Flush
  <2>1. /\ batch # << >> /\ committer # "exit" /\ batch' = << >> /\ (FlushOk \/ FlushFail)
        /\ UNCHANGED <<req, committer, closer, cut, requests>>
    BY <1>3 DEF Flush
  <2>2. ClosedLast'
    BY <1>0, <2>1 DEF ClosedLast
  <2> QED
    BY <2>1, <2>2, FlushOkInv, FlushFailInv
<1>4. CASE Exit
  <2>1. /\ committer = "drain" /\ committer' = "exit" /\ batch' = << >>
        /\ UNCHANGED <<req, closer, cut, requests>>
        /\ (batch = << >> /\ UNCHANGED <<pc, result, log, lsn, begun>>)
             \/ (batch # << >> /\ (FlushOk \/ FlushFail))
    BY <1>4 DEF Exit
  <2>2. ClosedLast'
    BY <1>0, <2>1 DEF ClosedLast
  <2>3. CASE batch = << >> /\ UNCHANGED <<pc, result, log, lsn, begun>>
    BY <2>1, <2>2, <2>3, ControlStep
  <2>4. CASE batch # << >> /\ (FlushOk \/ FlushFail)
    BY <2>1, <2>2, <2>4, FlushOkInv, FlushFailInv
  <2> QED
    BY <2>1, <2>3, <2>4
<1>5. CASE Drain
  BY <1>0, <1>5, ControlStep DEF Drain, ClosedLast
<1>6. CASE TickerExit
  <2>1. WaitingHeld /\ ClosedLast'
    BY <1>0, <1>6 DEF TickerExit, ClosedLast
  <2> QED
    BY <1>6, <2>1, ControlStep DEF TickerExit, WaitingHeld
<1>7. CASE CloseStop
  BY <1>0, <1>7, ControlStep DEF CloseStop, ClosedLast, WaitingHeld
<1>8. CASE CloseWait
  BY <1>0, <1>8, ControlStep DEF CloseWait, ClosedLast, WaitingHeld
<1>9. CASE CloseCheckpoint
  BY <1>9, CheckpointInv
<1>10. CASE CloseWal
  BY <1>0, <1>10, ControlStep DEF CloseWal, ClosedLast, WaitingHeld
<1>11. CASE UNCHANGED vars
  BY <1>0, <1>11, ControlStep DEF ClosedLast, WaitingHeld
<1> QED
  BY <1>1, <1>2, <1>3, <1>4, <1>5, <1>6, <1>7, <1>8, <1>9, <1>10, <1>11 DEF Next

LEMMA PipelineCorrect == Spec => []PipelineInv
<1>1. Init => PipelineInv
  BY InitPipeline
<1>2. PipelineInv /\ [Next]_vars => PipelineInv'
  BY NextInv
<1> QED
  BY <1>1, <1>2, PTL DEF Spec

\* Whatever the interleaving of producers, ticker, committer and Close, the
\* processes that wait for an answer of submitCommit are those whose requests
\* the committer holds, and runCommitter leaves none behind when it returns.
THEOREM NobodyLeftWaiting == Spec => []WaitingHeld
<1>1. PipelineInv => WaitingHeld
  BY DEF PipelineInv
<1> QED
  BY <1>1, PipelineCorrect, PTL

\* For every batch size and number of producers, the range of LSNs that
\* submitCommit returns to a producer is exactly the range that its own records
\* have in the log, also after batches that failed and used LSNs up.
THEOREM ToldOwnRange == Spec => []RangesExact
<1>1. PipelineInv => RangesExact
  BY DEF PipelineInv
<1> QED
  BY <1>1, PipelineCorrect, PTL

\* The checkpoint that Close takes cuts the log below every record that its
\* producer has been told of and has not yet applied to the index.
THEOREM CloseCutsBelowUnapplied == Spec => []CloseCutsApplied
<1>1. PipelineInv => CloseCutsApplied
  BY DEF PipelineInv
<1> QED
  BY <1>1, PipelineCorrect, PTL
=============================================================================

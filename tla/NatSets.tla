------------------------------ MODULE NatSets ------------------------------
(***************************************************************************)
(* The least-number principle and induction over the natural numbers, in   *)
(* the form of facts about sets of naturals, so that they can be cited;    *)
(* and what they give for functions defined by recursion over numbers, and *)
(* for sequences that are laid end to end.                                 *)
(***************************************************************************)
EXTENDS Integers, SequencesExt, FiniteSetTheorems, SequenceTheorems, WellFoundedInduction, TLAPS

\* Every nonempty set of naturals has a least element (used for the slot
\* searches of vector.c, which stop at the first slot with some property).
THEOREM LeastNatural ==
  ASSUME NEW T \in SUBSET Nat, T # {}
  PROVE  \E x \in T : \A y \in T : x <= y
<1> DEFINE R == OpToRel(<, Nat)
<1>1. IsWellFoundedOn(R, Nat)
  BY NatLessThanWellFounded
<1>2. \E x \in T : \A y \in T : <<y, x>> \notin R
  <2> HIDE DEF R
  <2> QED BY <1>1, WFMin
<1>3. \A x, y \in Nat : <<y, x>> \in R <=> y < x
  BY DEF OpToRel
<1> HIDE DEF R
<1>4. PICK x \in T : \A y \in T : <<y, x>> \notin R
  BY <1>2
<1>5. \A y \in T : ~(y < x)
  BY <1>3, <1>4, T \subseteq Nat
<1> QED BY <1>5

\* A nonempty set of naturals with an upper bound has a greatest element.
THEOREM GreatestNatural ==
  ASSUME NEW T \in SUBSET Nat, T # {}, NEW n \in Nat, \A y \in T : y <= n
  PROVE  \E x \in T : \A y \in T : y <= x
<1> DEFINE U == {n - y : y \in T}
<1>0. \A y \in T : n - y \in Nat
  OBVIOUS
<1>1. U \in SUBSET Nat /\ U # {}
  <2>1. U \subseteq Nat
    BY <1>0
  <2>2. PICK y \in T : TRUE
    OBVIOUS
  <2>3. n - y \in U
    BY <2>2
  <2> QED BY <2>1, <2>3
<1>2. PICK u \in U : \A w \in U : u <= w
  BY <1>1, LeastNatural
<1>3. PICK x \in T : u = n - x
  BY <1>2
<1>4. \A y \in T : n - x <= n - y
  BY <1>2, <1>3
<1>5. ASSUME NEW y \in T PROVE y <= x
  <2>1. n \in Int /\ x \in Int /\ y \in Int
    BY T \subseteq Nat
  <2>2. n - x <= n - y
    BY <1>4
  <2> HIDE DEF U
  <2> QED BY <2>1, <2>2
<1> QED BY <1>5

\* Induction, for the set of the numbers that have the property.
THEOREM SetInduction ==
  ASSUME NEW S \in SUBSET Nat, 0 \in S, \A n \in S : n + 1 \in S
  PROVE  S = Nat
<1> SUFFICES ASSUME Nat \ S # {} PROVE FALSE
  OBVIOUS
<1>1. PICK x \in Nat \ S : \A y \in Nat \ S : x <= y
  BY LeastNatural
<1>2. x # 0 /\ x - 1 \in Nat
  BY <1>1
<1>3. x - 1 \in S
  BY <1>1, <1>2
<1> QED BY <1>1, <1>2, <1>3

\* What f has at zero, and at every number from what it has at the one before.
Stepwise(f, N, v, step) ==
  f[0] = v /\ \A n \in 1..N : f[n] = step[n][f[n - 1]]

\* A function that is given step by step from its value at zero exists (the
\* recursive functions that stand for a loop over a list).
THEOREM StepwiseFunction ==
  ASSUME NEW N \in Nat, NEW V, NEW v \in V, NEW step \in [1..N -> [V -> V]]
  PROVE  \E f \in [0..N -> V] : Stepwise(f, N, v, step)
<1> DEFINE Good(m) == \E f \in [0..m -> V] :
                        /\ f[0] = v
                        /\ \A n \in 1..m : f[n] = step[n][f[n - 1]]
           T == {m \in Nat : m <= N => Good(m)}
<1>1. Good(0)
  <2>1. [n \in 0..0 |-> v] \in [0..0 -> V] /\ 1..0 = {} /\ 0 \in 0..0
    OBVIOUS
  <2> QED BY <2>1
<1>2. ASSUME NEW m \in Nat, m + 1 <= N, Good(m)
      PROVE  Good(m + 1)
  <2>1. PICK f \in [0..m -> V] : /\ f[0] = v
                                 /\ \A n \in 1..m : f[n] = step[n][f[n - 1]]
    BY ONLY <1>2
  <2> DEFINE g == [n \in 0..(m + 1) |-> IF n = m + 1 THEN step[n][f[m]] ELSE f[n]]
  <2>2. step[m + 1][f[m]] \in V
    <3>1. m + 1 \in 1..N /\ m \in 0..m
      BY <1>2
    <3>2. step[m + 1] \in [V -> V] /\ f[m] \in V
      BY ONLY <2>1, <3>1
    <3> QED BY ONLY <3>2
  <2>3. g \in [0..(m + 1) -> V]
    BY <2>1, <2>2
  <2>4. ASSUME NEW n \in 0..m PROVE g[n] = f[n]
    OBVIOUS
  <2>5. g[m + 1] = step[m + 1][f[m]]
    OBVIOUS
  <2>6. g[0] = v
    BY <2>1, <2>4
  <2> HIDE DEF g
  <2>7. ASSUME NEW n \in 1..(m + 1) PROVE g[n] = step[n][g[n - 1]]
    <3>1. n - 1 \in 0..m
      OBVIOUS
    <3>2. g[n - 1] = f[n - 1]
      BY ONLY <2>4, <3>1
    <3>3. CASE n = m + 1
      <4>1. n - 1 = m
        BY <3>3
      <4> QED BY <2>5, <3>2, <3>3, <4>1
    <3>4. CASE n # m + 1
      <4>1. n \in 1..m /\ n \in 0..m
        BY <3>4
      <4> QED BY <2>1, <2>4, <3>2, <4>1
    <3> QED BY ONLY <3>3, <3>4
  <2> QED BY ONLY <2>3, <2>6, <2>7
<1>3. Good(N)
  <2> HIDE DEF Good
  <2>1. T \in SUBSET Nat /\ 0 \in T
    BY <1>1
  <2>2. ASSUME NEW m \in T PROVE m + 1 \in T
    BY <1>2
  <2>3. T = Nat
    <3> HIDE DEF T
    <3> QED BY <2>1, <2>2, SetInduction
  <2>4. N \in T /\ N <= N
    BY <2>3
  <2> QED BY <2>4
<1> QED BY ONLY <1>3 DEF Stepwise

\* The same as a function that is defined by recursion over the numbers up to N.
Loops(f, N, v, step) == f = [n \in 0..N |-> IF n = 0 THEN v ELSE step[n][f[n - 1]]]

THEOREM LoopFunction ==
  ASSUME NEW N \in Nat, NEW V, NEW v \in V, NEW step \in [1..N -> [V -> V]]
  PROVE  \E f \in [0..N -> V] : Loops(f, N, v, step)
<1>1. PICK f \in [0..N -> V] : Stepwise(f, N, v, step)
  BY StepwiseFunction
<1>2. ASSUME NEW n \in 0..N PROVE f[n] = IF n = 0 THEN v ELSE step[n][f[n - 1]]
  <2>1. n = 0 \/ n \in 1..N
    OBVIOUS
  <2> QED BY <1>1, <2>1 DEF Stepwise
<1>3. f = [n \in 0..N |-> f[n]]
  BY <1>1
<1> QED BY ONLY <1>1, <1>2, <1>3 DEF Loops

\* Induction up to a bound, for the set of the numbers that have the property.
THEOREM BoundedInduction ==
  ASSUME NEW N \in Nat, NEW S, 0 \in S, \A n \in 0..(N - 1) : n \in S => n + 1 \in S
  PROVE  0..N \subseteq S
<1> DEFINE T == {n \in Nat : n <= N => n \in S}
<1>1. T \in SUBSET Nat /\ 0 \in T
  OBVIOUS
<1>2. ASSUME NEW n \in T PROVE n + 1 \in T
  OBVIOUS
<1>3. T = Nat
  <2> HIDE DEF T
  <2> QED BY <1>1, <1>2, SetInduction
<1>4. \A n \in 0..N : n \in Nat /\ n <= N
  OBVIOUS
<1>5. \A n \in 0..N : n \in T
  <2> HIDE DEF T
  <2> QED BY <1>3, <1>4
<1> QED BY <1>4, <1>5

\* What body makes of a function at n depends on what the function has behind n.
LooksBehind(body, N, V) ==
  /\ body \in [1..N -> [[1..N -> V] -> V]]
  /\ \A n \in 1..N : \A f, g \in [1..N -> V] :
       (\A p \in (n + 1)..N : f[p] = g[p]) => body[n][f] = body[n][g]
Solves(f, body, N) == \A n \in 1..N : f[n] = body[n][f]

\* A function on the numbers up to N exists that has at each number what the
\* numbers behind it determine (the meaning of a tree whose parts come after it).
THEOREM DescendingFunction ==
  ASSUME NEW N \in Nat, NEW V, V # {}, NEW body, LooksBehind(body, N, V)
  PROVE  \E f \in [1..N -> V] : Solves(f, body, N)
<1>0. /\ body \in [1..N -> [[1..N -> V] -> V]]
      /\ \A n \in 1..N : \A f, g \in [1..N -> V] :
           (\A p \in (n + 1)..N : f[p] = g[p]) => body[n][f] = body[n][g]
  BY DEF LooksBehind
<1> DEFINE W == [1..N -> V]
           At(k) == N - k + 1
           step == [k \in 1..N |-> [f \in W |-> [f EXCEPT ![At(k)] = body[At(k)][f]]]]
<1>1. PICK any \in V : TRUE
  OBVIOUS
<1>2. [n \in 1..N |-> any] \in W
  OBVIOUS
<1>3. \A k \in 1..N : At(k) \in 1..N
  OBVIOUS
<1>4. step \in [1..N -> [W -> W]]
  <2>1. ASSUME NEW k \in 1..N, NEW f \in W PROVE [f EXCEPT ![At(k)] = body[At(k)][f]] \in W
    <3>1. body[At(k)][f] \in V
      BY <1>0, <1>3
    <3> QED BY <3>1
  <2> QED BY <2>1
<1>5. PICK h \in [0..N -> W] : Stepwise(h, N, [n \in 1..N |-> any], step)
  <2> HIDE DEF W, step
  <2> QED BY <1>2, <1>4, StepwiseFunction
<1>6. \A k \in 1..N : h[k] = [h[k - 1] EXCEPT ![At(k)] = body[At(k)][h[k - 1]]]
  <2> SUFFICES ASSUME NEW k \in 1..N
               PROVE  h[k] = [h[k - 1] EXCEPT ![At(k)] = body[At(k)][h[k - 1]]]
    OBVIOUS
  <2>1. h[k] = step[k][h[k - 1]]
    BY <1>5 DEF Stepwise
  <2>2. h[k - 1] \in W
    BY <1>5
  <2> QED BY <2>1, <2>2
<1> HIDE DEF step
<1>7. \A k \in 0..N : h[k] \in W
  BY <1>5
\* What a step has set, later steps keep.
<1> DEFINE S == {m \in Nat : \A k \in 1..N : k + m <= N => h[k + m][At(k)] = h[k][At(k)]}
<1>8. S = Nat
  <2>1. 0 \in S
    OBVIOUS
  <2>2. ASSUME NEW m \in S PROVE m + 1 \in S
    <3> SUFFICES ASSUME NEW k \in 1..N, k + (m + 1) <= N
                 PROVE  h[k + (m + 1)][At(k)] = h[k][At(k)]
      OBVIOUS
    <3> DEFINE j == k + (m + 1)
    <3>1. j \in 1..N /\ j - 1 = k + m /\ k + m <= N /\ k + m \in 0..N
      OBVIOUS
    <3>2. At(j) # At(k) /\ At(j) \in 1..N /\ At(k) \in 1..N
      OBVIOUS
    <3>3. h[j] = [h[j - 1] EXCEPT ![At(j)] = body[At(j)][h[j - 1]]]
      BY <1>6, <3>1
    <3>4. h[j - 1] \in [1..N -> V]
      BY <1>7, <3>1
    <3>5. h[j][At(k)] = h[j - 1][At(k)]
      <4> HIDE DEF j, At
      <4> QED BY <3>2, <3>3, <3>4
    <3>6. h[k + m][At(k)] = h[k][At(k)]
      BY <3>1
    <3> QED BY <3>1, <3>5, <3>6
  <2>3. S \in SUBSET Nat
    OBVIOUS
  <2> HIDE DEF S
  <2> QED BY <2>1, <2>2, <2>3, SetInduction
<1>9. \A k \in 1..N : h[N][At(k)] = h[k][At(k)]
  <2> SUFFICES ASSUME NEW k \in 1..N PROVE h[N][At(k)] = h[k][At(k)]
    OBVIOUS
  <2>1. N - k \in S
    <3>1. N - k \in Nat
      OBVIOUS
    <3> HIDE DEF S
    <3> QED BY <1>8, <3>1
  <2>2. k + (N - k) = N
    OBVIOUS
  <2> QED BY <2>1, <2>2
<1> HIDE DEF S
<1>10. ASSUME NEW n \in 1..N PROVE h[N][n] = body[n][h[N]]
  <2> DEFINE k == At(n)
  <2>1. k \in 1..N /\ At(k) = n /\ k - 1 \in 0..N /\ N \in 0..N
    OBVIOUS
  <2>2. h[N][n] = h[k][n]
    BY <1>9, <2>1
  <2>3. h[k][n] = body[n][h[k - 1]]
    <3>1. h[k - 1] \in [1..N -> V]
      BY <1>7, <2>1
    <3>2. h[k] = [h[k - 1] EXCEPT ![n] = body[n][h[k - 1]]]
      BY <1>6, <2>1
    <3> HIDE DEF k
    <3> QED BY <3>1, <3>2
  <2>4. ASSUME NEW p \in (n + 1)..N PROVE h[k - 1][p] = h[N][p]
    <3> DEFINE i == At(p)
    <3>1. i \in 1..N /\ At(i) = p /\ i <= k - 1
      OBVIOUS
    <3>2. h[N][p] = h[i][p]
      BY <1>9, <3>1
    <3>3. (k - 1) - i \in S /\ i + ((k - 1) - i) = k - 1 /\ k - 1 <= N
      BY <1>8, <3>1
    <3>4. h[k - 1][p] = h[i][p]
      BY <3>1, <3>3 DEF S
    <3> QED BY <3>2, <3>4
  <2>5. h[k - 1] \in [1..N -> V] /\ h[N] \in [1..N -> V]
    BY <1>7, <2>1
  <2>6. body[n][h[k - 1]] = body[n][h[N]]
    <3> HIDE DEF k
    <3> QED BY <1>0, <2>4, <2>5
  <2> QED BY <2>2, <2>3, <2>6
<1>11. h[N] \in [1..N -> V]
  BY <1>7
<1> QED BY <1>10, <1>11 DEF Solves

\* What does not descend from one step to the next does not descend.
THEOREM Monotone ==
  ASSUME NEW N \in Nat, NEW h \in [1..N -> Nat], \A k \in 1..(N - 1) : h[k] <= h[k + 1]
  PROVE  \A j, k \in 1..N : j <= k => h[j] <= h[k]
<1> DEFINE S == {m \in Nat : \A j \in 1..N : j + m <= N => h[j] <= h[j + m]}
<1>1. 0 \in S
  OBVIOUS
<1>2. ASSUME NEW m \in S PROVE m + 1 \in S
  <2> SUFFICES ASSUME NEW j \in 1..N, j + (m + 1) <= N PROVE h[j] <= h[j + (m + 1)]
    OBVIOUS
  <2>1. h[j] <= h[j + m]
    OBVIOUS
  <2>2. j + m \in 1..(N - 1) /\ (j + m) + 1 = j + (m + 1)
    OBVIOUS
  <2>3. h[j + m] <= h[j + (m + 1)]
    BY <2>2
  <2>4. h[j] \in Nat /\ h[j + m] \in Nat /\ h[j + (m + 1)] \in Nat
    BY <2>2
  <2> QED BY <2>1, <2>3, <2>4
<1>3. S = Nat
  <2>1. S \in SUBSET Nat
    OBVIOUS
  <2> HIDE DEF S
  <2> QED BY <1>1, <1>2, <2>1, SetInduction
<1> SUFFICES ASSUME NEW j \in 1..N, NEW k \in 1..N, j <= k PROVE h[j] <= h[k]
  OBVIOUS
<1>4. k - j \in Nat /\ j + (k - j) = k
  OBVIOUS
<1>5. k - j \in S
  <2> HIDE DEF S
  <2> QED BY <1>3, <1>4
<1> QED BY <1>4, <1>5

-----------------------------------------------------------------------------
(* Sequences laid end to end.                                              *)

\* The recursion of FlattenSeq: what it has joined of the first k sequences.
Joins(f, seqs, S) ==
  /\ f \in [0..Len(seqs) -> Seq(S)]
  /\ f[0] = <<>>
  /\ \A k \in 1..Len(seqs) : f[k] = f[k - 1] \o seqs[k]

LEMMA FlattenJoins ==
  ASSUME NEW S, NEW seqs \in Seq(Seq(S))
  PROVE  \E f : Joins(f, seqs, S) /\ FlattenSeq(seqs) = f[Len(seqs)]
<1> DEFINE N == Len(seqs)
           V == Seq(S)
           step == [n \in 1..N |-> [s \in V |-> s \o seqs[n]]]
           none == <<>>
           Body(f) == [i \in 1..N |-> IF i = 1 THEN seqs[i] ELSE f[i - 1] \o seqs[i]]
           flatten == CHOOSE f : f = Body(f)
<1>1. N \in Nat /\ (\A n \in 1..N : seqs[n] \in V) /\ none \in V
  OBVIOUS
<1>2. step \in [1..N -> [V -> V]]
  BY <1>1
<1>3. \A n \in 1..N : \A s \in V : step[n][s] = s \o seqs[n]
  OBVIOUS
<1>4. PICK f \in [0..N -> V] : Stepwise(f, N, none, step)
  <2> HIDE DEF N, V, step, none
  <2> QED BY <1>1, <1>2, StepwiseFunction
<1>5. f[0] = <<>> /\ \A k \in 1..N : f[k] = f[k - 1] \o seqs[k]
  <2>1. ASSUME NEW k \in 1..N PROVE f[k] = f[k - 1] \o seqs[k]
    <3>1. k - 1 \in 0..N
      BY <1>1
    <3>2. f[k - 1] \in V
      <4> HIDE DEF V, N
      <4> QED BY <1>4, <3>1
    <3> HIDE DEF N, V, step, none
    <3> QED BY <1>3, <1>4, <3>2 DEF Stepwise
  <2>2. f[0] = none
    BY <1>4 DEF Stepwise
  <2> QED BY <2>1, <2>2
<1>6. Joins(f, seqs, S)
  BY <1>4, <1>5 DEF Joins
<1>7. FlattenSeq(seqs) = f[N]
  <2>1. CASE N = 0
    <3>1. seqs = <<>>
      BY <2>1
    <3> QED BY <1>5, <2>1, <3>1 DEF FlattenSeq
  <2>2. CASE N # 0
    <3>1. FlattenSeq(seqs) = flatten[N]
      BY <2>2 DEF FlattenSeq
    <3> DEFINE g == [i \in 1..N |-> f[i]]
    <3>2. g = Body(g)
      <4>1. ASSUME NEW i \in 1..N
            PROVE  f[i] = IF i = 1 THEN seqs[i] ELSE g[i - 1] \o seqs[i]
        <5>1. f[i] = f[i - 1] \o seqs[i]
          BY <1>5
        <5>2. CASE i = 1
          <6>1. seqs[i] \in Seq(S)
            BY <1>1
          <6>2. <<>> \o seqs[i] = seqs[i]
            BY <6>1, ConcatEmptySeq
          <6>3. f[i] = <<>> \o seqs[i]
            BY ONLY <1>5, <5>1, <5>2, 1 - 1 = 0
          <6> QED BY ONLY <5>2, <6>2, <6>3
        <5>3. CASE i # 1
          <6>1. i - 1 \in 1..N
            BY <1>1, <5>3
          <6>2. g[i - 1] = f[i - 1]
            BY <6>1
          <6> QED BY <5>1, <5>3, <6>2
        <5> QED BY <5>2, <5>3
      <4> QED BY <4>1
    <3>3. flatten = Body(flatten)
      <4> HIDE DEF Body, g
      <4> QED BY <3>2
    <3>4. ASSUME NEW i \in 1..N
          PROVE  flatten[i] = IF i = 1 THEN seqs[i] ELSE flatten[i - 1] \o seqs[i]
      <4>1. flatten[i] = Body(flatten)[i]
        <5> HIDE DEF Body
        <5> QED BY ONLY <3>3
      <4> HIDE DEF flatten
      <4> QED BY <4>1
    <3> HIDE DEF flatten
    <3> DEFINE T == {n \in Nat : n \in 1..N => flatten[n] = f[n]}
    <3>5. ASSUME NEW n \in 0..(N - 1), n \in T PROVE n + 1 \in T
      <4>1. n + 1 \in 1..N /\ n + 1 \in Nat /\ (n + 1) - 1 = n
        BY <1>1
      <4>2. f[n + 1] = f[n] \o seqs[n + 1]
        BY <1>5, <4>1
      <4>3. flatten[n + 1] = IF n + 1 = 1 THEN seqs[n + 1] ELSE flatten[n] \o seqs[n + 1]
        BY <3>4, <4>1
      <4>4. CASE n = 0
        <5>1. seqs[1] \in Seq(S)
          BY <1>1, <4>1, <4>4
        <5>2. <<>> \o seqs[1] = seqs[1]
          BY <5>1, ConcatEmptySeq
        <5>3. n + 1 = 1
          BY <4>4
        <5>4. f[n + 1] = <<>> \o seqs[1] /\ flatten[n + 1] = seqs[1]
          BY ONLY <1>5, <4>2, <4>3, <4>4, <5>3
        <5>5. flatten[n + 1] = f[n + 1]
          BY ONLY <5>2, <5>4
        <5> QED BY <4>1, <5>5
      <4>5. CASE n # 0
        <5>1. n \in 1..N
          BY <1>1, <4>5
        <5>2. flatten[n] = f[n]
          BY <3>5, <5>1
        <5>3. n + 1 # 1
          BY <5>1
        <5>4. flatten[n + 1] = f[n + 1]
          BY ONLY <4>2, <4>3, <5>2, <5>3
        <5> QED BY <4>1, <5>4
      <4> QED BY <4>4, <4>5
    <3>6. 0 \in T
      OBVIOUS
    <3>7. N \in T
      <4>1. N \in 0..N
        BY <1>1
      <4> HIDE DEF T, N
      <4> QED BY <1>1, <3>5, <3>6, <4>1, BoundedInduction
    <3>8. N \in 1..N
      BY <1>1, <2>2
    <3> QED BY <3>1, <3>7, <3>8
  <2> QED BY <2>1, <2>2
<1> QED BY <1>6, <1>7

LEMMA FlattenType ==
  ASSUME NEW S, NEW seqs \in Seq(Seq(S))
  PROVE  FlattenSeq(seqs) \in Seq(S)
<1>1. PICK f : Joins(f, seqs, S) /\ FlattenSeq(seqs) = f[Len(seqs)]
  BY FlattenJoins
<1>2. Len(seqs) \in 0..Len(seqs)
  OBVIOUS
<1> QED BY <1>1, <1>2 DEF Joins

\* x is one of the sequence.
Has(s, x) == \E i \in 1..Len(s) : s[i] = x

LEMMA ConcatHas ==
  ASSUME NEW S, NEW s \in Seq(S), NEW t \in Seq(S), NEW x
  PROVE  Has(s \o t, x) <=> Has(s, x) \/ Has(t, x)
<1> DEFINE m == Len(s)
           n == Len(t)
           u == s \o t
<1>1. /\ Len(u) = m + n /\ m \in Nat /\ n \in Nat
      /\ \A i \in 1..(m + n) : u[i] = IF i <= m THEN s[i] ELSE t[i - m]
  BY ConcatProperties
<1> HIDE DEF m, n, u
<1>2. /\ \A i \in 1..m : i \in 1..(m + n) /\ i <= m
      /\ \A i \in 1..n : i + m \in 1..(m + n) /\ ~(i + m <= m) /\ (i + m) - m = i
      /\ \A i \in 1..(m + n) : IF i <= m THEN i \in 1..m ELSE i - m \in 1..n
  BY ONLY <1>1
<1>3. ASSUME Has(u, x) PROVE Has(s, x) \/ Has(t, x)
  <2>1. PICK i \in 1..(m + n) : u[i] = x
    BY <1>1, <1>3 DEF Has
  <2>2. CASE i <= m
    BY <1>1, <1>2, <2>1, <2>2 DEF Has, m
  <2>3. CASE ~(i <= m)
    BY <1>1, <1>2, <2>1, <2>3 DEF Has, n
  <2> QED BY <2>2, <2>3
<1>4. ASSUME Has(s, x) PROVE Has(u, x)
  <2>1. PICK i \in 1..m : s[i] = x
    BY <1>4 DEF Has, m
  <2> QED BY <1>1, <1>2, <2>1 DEF Has
<1>5. ASSUME Has(t, x) PROVE Has(u, x)
  <2>1. PICK i \in 1..n : t[i] = x
    BY <1>5 DEF Has, n
  <2>2. i + m \in 1..(m + n) /\ u[i + m] = t[i]
    BY <1>1, <1>2
  <2> QED BY <1>1, <2>1, <2>2 DEF Has
<1> QED BY <1>3, <1>4, <1>5 DEF u

LEMMA FlattenHas ==
  ASSUME NEW S, NEW seqs \in Seq(Seq(S)), NEW x
  PROVE  Has(FlattenSeq(seqs), x) <=> \E k \in 1..Len(seqs) : Has(seqs[k], x)
<1> DEFINE N == Len(seqs)
<1>1. PICK f : Joins(f, seqs, S) /\ FlattenSeq(seqs) = f[N]
  BY FlattenJoins
<1>2. N \in Nat /\ N \in 0..N /\ \A k \in 1..N : seqs[k] \in Seq(S)
  OBVIOUS
<1>3. /\ \A k \in 0..N : f[k] \in Seq(S)
      /\ f[0] = <<>> /\ \A k \in 1..N : f[k] = f[k - 1] \o seqs[k]
  BY <1>1 DEF Joins
<1> HIDE DEF N
<1> DEFINE T == {k \in Nat : Has(f[k], x) <=> \E m \in 1..k : Has(seqs[m], x)}
<1>4. 0 \in T
  <2>1. ~Has(f[0], x) /\ ~\E m \in 1..0 : Has(seqs[m], x)
    BY <1>3 DEF Has
  <2> QED BY <2>1
<1>5. ASSUME NEW k \in 0..(N - 1), k \in T PROVE k + 1 \in T
  <2>1. k + 1 \in 1..N /\ (k + 1) - 1 = k /\ k \in 0..N /\ k + 1 \in Nat
    BY <1>2
  <2>2. f[k + 1] = f[k] \o seqs[k + 1]
    BY <1>3, <2>1
  <2>3. Has(f[k + 1], x) <=> Has(f[k], x) \/ Has(seqs[k + 1], x)
    BY <1>2, <1>3, <2>1, <2>2, ConcatHas
  <2>4. \A m \in 1..(k + 1) : m \in 1..k \/ m = k + 1
    BY <2>1
  <2>5. k + 1 \in 1..(k + 1) /\ \A m \in 1..k : m \in 1..(k + 1)
    BY <2>1
  <2>6. Has(f[k + 1], x) <=> \E m \in 1..(k + 1) : Has(seqs[m], x)
    BY <1>5, <2>3, <2>4, <2>5
  <2> QED BY <2>1, <2>6
<1>6. N \in T
  <2> HIDE DEF T
  <2> QED BY <1>2, <1>4, <1>5, BoundedInduction
<1> QED BY <1>1, <1>6 DEF N

\* The elements of a finite set, one after the other.
LEMMA SetToSeqHas ==
  ASSUME NEW S, IsFiniteSet(S), NEW x
  PROVE  SetToSeq(S) \in Seq(S) /\ (Has(SetToSeq(S), x) <=> x \in S)
<1> DEFINE c == Cardinality(S)
           s == SetToSeq(S)
<1>1. c \in Nat /\ ExistsBijection(1..c, S)
  BY FS_CardinalityType
<1>2. \E f \in [1..c -> S] : IsInjective(f)
  <2>1. PICK f : f \in Bijection(1..c, S)
    BY <1>1 DEF ExistsBijection
  <2> QED BY <2>1 DEF Bijection, Injection
<1>3. s \in [1..c -> S] /\ IsInjective(s)
  BY <1>2 DEF SetToSeq
<1> HIDE DEF s
<1>4. Cardinality(1..c) = c
  <2> HIDE DEF c
  <2>1. 1 \in Int /\ c \in Int /\ Cardinality(1..c) = IF 1 > c THEN 0 ELSE c - 1 + 1
    BY <1>1, FS_Interval
  <2> QED BY <1>1, <2>1
<1>5. s \in Surjection(1..c, S)
  <2>1. s \in Injection(1..c, S)
    BY <1>3 DEF Injection
  <2> QED BY <1>4, <2>1, FS_Injection
<1> HIDE DEF c
<1>6. s \in Seq(S) /\ Len(s) = c
  BY <1>1, <1>3
<1>7. Has(s, x) <=> x \in S
  BY <1>3, <1>5, <1>6 DEF Has, Surjection
<1> QED BY <1>6, <1>7 DEF s
=============================================================================

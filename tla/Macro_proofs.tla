---------------------------- MODULE Macro_proofs ----------------------------
(***************************************************************************)
(* What macro files and macro calls mean, for all files and all calls: an  *)
(* expansion is the substitution that it looks like, a call means the last *)
(* definition, and the array of tokens is left only by a repeated name.    *)
(***************************************************************************)
EXTENDS Macro, NatSets, FiniteSetTheorems, SequenceTheorems

-----------------------------------------------------------------------------
Associative(S) == \A a, b, c \in Seq(S) : (a \o b) \o c = a \o (b \o c)
LEMMA Assoc == \A S : Associative(S)
BY ConcatAssociative DEF Associative

LEMMA Pair ==
  ASSUME NEW T, NEW x \in T, NEW y \in T
  PROVE  <<x>> \o <<y>> = <<x, y>>
<1> DEFINE s == <<x>> \o <<y>>
           t == <<x, y>>
<1>1. <<x>> \in Seq(T) /\ <<y>> \in Seq(T) /\ Len(<<x>>) = 1 /\ Len(<<y>>) = 1
  OBVIOUS
<1>2. /\ s \in Seq(T) /\ Len(s) = 2
      /\ \A i \in 1..2 : s[i] = IF i <= 1 THEN <<x>>[i] ELSE <<y>>[i - 1]
  BY ONLY <1>1
<1>3. t \in Seq(T) /\ Len(t) = 2 /\ t[1] = x /\ t[2] = y
  OBVIOUS
<1>4. s[1] = x /\ s[2] = y
  BY <1>2
<1> HIDE DEF s, t
<1>5. \A i \in 1..2 : i = 1 \/ i = 2
  OBVIOUS
<1>6. \A i \in 1..2 : s[i] = t[i]
  BY ONLY <1>3, <1>4, <1>5
<1>7. s = t
  BY ONLY <1>2, <1>3, <1>6, SeqEqual
<1> QED BY <1>7 DEF s, t

-----------------------------------------------------------------------------
(* Sequences laid end to end.                                              *)

\* Two sequences of sequences are laid end to end one after the other.
LEMMA FlattenConcat ==
  ASSUME NEW S, NEW r \in Seq(Seq(S)), NEW t \in Seq(Seq(S))
  PROVE  FlattenSeq(r \o t) = FlattenSeq(r) \o FlattenSeq(t)
<1> DEFINE M == Len(r)
           N == Len(t)
           V == Seq(S)
<1>0. M \in Nat /\ N \in Nat
  OBVIOUS
<1>1. r \o t \in Seq(V) /\ Len(r \o t) = M + N
  OBVIOUS
<1>2. \A k \in 1..M : k \in 1..(M + N) /\ (r \o t)[k] = r[k]
  OBVIOUS
<1>3. \A k \in 1..N : M + k \in 1..(M + N) /\ (r \o t)[M + k] = t[k]
  OBVIOUS
<1>4. PICK e : Joins(e, r \o t, S) /\ FlattenSeq(r \o t) = e[Len(r \o t)]
  BY <1>1, FlattenJoins
<1>5. PICK f : Joins(f, r, S) /\ FlattenSeq(r) = f[M]
  BY FlattenJoins
<1>6. PICK g : Joins(g, t, S) /\ FlattenSeq(t) = g[N]
  BY FlattenJoins
<1>7. /\ e \in [0..(M + N) -> V] /\ e[0] = <<>>
      /\ \A k \in 1..(M + N) : e[k] = e[k - 1] \o (r \o t)[k]
  BY <1>1, <1>4 DEF Joins
<1>8. f \in [0..M -> V] /\ f[0] = <<>> /\ \A k \in 1..M : f[k] = f[k - 1] \o r[k]
  BY <1>5 DEF Joins
<1>9. g \in [0..N -> V] /\ g[0] = <<>> /\ \A k \in 1..N : g[k] = g[k - 1] \o t[k]
  BY <1>6 DEF Joins
<1>t. \A k \in 1..N : t[k] \in V
  OBVIOUS
<1> DEFINE A == {n \in Nat : e[n] = f[n]}
           B == {n \in Nat : e[M + n] = f[M] \o g[n]}
<1> HIDE DEF M, N
<1>10. M \in A
  <2>1. 0 \in A
    BY <1>7, <1>8
  <2>2. ASSUME NEW n \in 0..(M - 1), n \in A PROVE n + 1 \in A
    <3>1. n + 1 \in 1..M /\ (n + 1) - 1 = n /\ n + 1 \in Nat
      BY <1>0
    <3>2. e[n + 1] = e[n] \o r[n + 1]
      BY <1>2, <1>7, <3>1
    <3>3. f[n + 1] = f[n] \o r[n + 1]
      BY <1>8, <3>1
    <3> QED BY <2>2, <3>1, <3>2, <3>3
  <2>3. M \in 0..M
    BY <1>0
  <2> HIDE DEF A
  <2> QED BY <1>0, <2>1, <2>2, <2>3, BoundedInduction
<1>11. f[M] \in V
  <2>1. M \in 0..M
    BY <1>0
  <2> QED BY <1>8, <2>1
<1>12. N \in B
  <2>1. 0 \in B
    <3>1. M + 0 = M /\ e[M] = f[M]
      BY <1>0, <1>10
    <3>2. f[M] \o <<>> = f[M]
      BY <1>11, ConcatEmptySeq
    <3> QED BY <1>9, <3>1, <3>2
  <2>2. ASSUME NEW n \in 0..(N - 1), n \in B PROVE n + 1 \in B
    <3>1. /\ n + 1 \in 1..N /\ (n + 1) - 1 = n /\ n + 1 \in Nat /\ n \in 0..N
          /\ M + (n + 1) \in 1..(M + N) /\ (M + (n + 1)) - 1 = M + n
      BY <1>0
    <3>2. e[M + (n + 1)] = e[M + n] \o t[n + 1]
      BY <1>3, <1>7, <3>1
    <3>3. g[n + 1] = g[n] \o t[n + 1]
      BY <1>9, <3>1
    <3>4. g[n] \in V /\ t[n + 1] \in V
      BY <1>9, <1>t, <3>1
    <3>5. (f[M] \o g[n]) \o t[n + 1] = f[M] \o (g[n] \o t[n + 1])
      <4>1. f[M] \in Seq(S) /\ g[n] \in Seq(S) /\ t[n + 1] \in Seq(S)
        BY <1>11, <3>4
      <4>2. \A a, b, c \in Seq(S) : (a \o b) \o c = a \o (b \o c)
        BY ONLY Assoc DEF Associative
      <4> QED BY ONLY <4>1, <4>2
    <3> QED BY <2>2, <3>1, <3>2, <3>3, <3>5
  <2>3. N \in 0..N
    BY <1>0
  <2> HIDE DEF B
  <2> QED BY <1>0, <2>1, <2>2, <2>3, BoundedInduction
<1> QED BY <1>1, <1>4, <1>5, <1>6, <1>12

LEMMA FlattenOne ==
  ASSUME NEW S, NEW r \in Seq(S)
  PROVE  FlattenSeq(<<r>>) = r
<1>1. <<r>> \in Seq(Seq(S)) /\ Len(<<r>>) = 1 /\ <<r>>[1] = r
  OBVIOUS
<1>2. PICK f : Joins(f, <<r>>, S) /\ FlattenSeq(<<r>>) = f[1]
  BY <1>1, FlattenJoins
<1>3. 1 \in 1..1 /\ 1 - 1 = 0
  OBVIOUS
<1>4. f[0] = <<>> /\ f[1] = f[0] \o r
  BY <1>1, <1>2, <1>3 DEF Joins
<1>5. <<>> \o r = r
  BY ConcatEmptySeq
<1> QED BY <1>2, <1>4, <1>5

-----------------------------------------------------------------------------
(* Bodies: what lre_macro_content2token makes of them.                     *)

LEMMA MinIsLeast ==
  ASSUME NEW T \in SUBSET Nat, T # {}
  PROVE  Min(T) \in T /\ \A j \in T : Min(T) <= j
<1>1. \E i \in T : \A j \in T : i <= j
  BY LeastNatural
<1> QED BY <1>1 DEF Min

\* The parameters that are spelt from a place on.
Here(text, params, k) == {i \in DOMAIN params : Spells(text, k, params[i])}

\* A name is spelt within the text.
LEMMA SpellsWithin ==
  ASSUME NEW S, NEW text \in Seq(S), NEW word \in Seq(S), word # <<>>, NEW k \in Nat \ {0},
         Spells(text, k, word)
  PROVE  /\ k + Len(word) <= Len(text) + 1 /\ Len(word) \in Nat \ {0}
         /\ SubSeq(text, k, k + Len(word) - 1) = word
<1> DEFINE N == Len(text)
           L == Len(word)
           from == SubSeq(text, k, N)
<1>1. N \in Nat /\ L \in Nat \ {0} /\ (\A i \in 1..N : text[i] \in S)
  OBVIOUS
<1>2. \A i \in k..N : text[i] \in S
  BY <1>1
<1>3. /\ from \in Seq(S) /\ Len(from) = IF k <= N THEN N - k + 1 ELSE 0
      /\ \A i \in 1..(N - k + 1) : from[i] = text[k + i - 1]
  <2> HIDE DEF N
  <2> QED BY ONLY <1>1, <1>2, k \in Nat, SubSeqProperties
<1>4. L <= Len(from) /\ SubSeq(word, 1, L) = SubSeq(from, 1, L)
  BY DEF Spells, IsPrefix
<1>5. k + L <= N + 1
  <2> HIDE DEF N, L, from
  <2> QED BY <1>1, <1>3, <1>4
<1>6. SubSeq(word, 1, L) = word
  BY SubSeqFull
<1>7. SubSeq(text, k, k + L - 1) = SubSeq(from, 1, L)
  <2>1. /\ SubSeq(text, k, k + L - 1) \in Seq(S) /\ Len(SubSeq(text, k, k + L - 1)) = L
        /\ \A i \in 1..L : SubSeq(text, k, k + L - 1)[i] = text[k + i - 1]
    <3>1. \A i \in k..(k + L - 1) : text[i] \in S
      <4> HIDE DEF N, L, from
      <4> QED BY <1>1, <1>5
    <3>2. k \in Int /\ k + L - 1 \in Int /\ k <= k + L - 1 /\ (k + L - 1) - k + 1 = L
      <4> HIDE DEF N, L, from
      <4> QED BY <1>1
    <3> HIDE DEF N, L, from
    <3> QED BY ONLY <3>1, <3>2, SubSeqProperties
  <2>2. SubSeq(from, 1, L) = word
    BY <1>4, <1>6
  <2>3. /\ Len(SubSeq(from, 1, L)) = L
        /\ \A i \in 1..L : SubSeq(from, 1, L)[i] = from[i]
    <3>1. \A i \in 1..L : from[i] \in S
      <4> HIDE DEF N, L, from
      <4> QED BY <1>1, <1>3, <1>4
    <3>2. 1 \in Int /\ L \in Int /\ 1 <= L /\ L - 1 + 1 = L /\ \A i \in 1..L : 1 + i - 1 = i
      <4> HIDE DEF N, L, from
      <4> QED BY <1>1
    <3> HIDE DEF N, L, from
    <3>3. /\ Len(SubSeq(from, 1, L)) = L
          /\ \A i \in 1..L : SubSeq(from, 1, L)[i] = from[1 + i - 1]
      BY ONLY <3>1, <3>2, SubSeqProperties
    <3> QED BY ONLY <3>2, <3>3
  <2>4. \A i \in 1..L : from[i] = text[k + i - 1]
    <3> HIDE DEF N, L, from
    <3> QED BY <1>1, <1>3, <1>5
  <2>5. SubSeq(from, 1, L) \in Seq(S)
    BY <2>2
  <2> HIDE DEF N, L, from
  <2> QED BY ONLY <2>1, <2>3, <2>4, <2>5, SeqEqual
<1> QED BY <1>1, <1>4, <1>5, <1>6, <1>7

\* Parameters as lre_macro_arg_parse reads them.
Named(params, S) == params \in Seq(Seq(S)) /\ \A i \in DOMAIN params : params[i] # <<>>

Piece(params, S) == [arg : 0..Len(params), word : Seq(S)]
SplitState(content, params, S) ==
  [ptr : 1..(Len(content) + 1), token : Seq(Piece(params, S))]

\* What is there after every place of a body.
Scanned(c, content, params) ==
  /\ c[0] = [ptr |-> 1, token |-> <<>>]
  /\ \A p \in 1..Len(content) : c[p] = Split(content, params, c[p - 1], p)

\* The word before a parameter, and the parameter.
CutOff(content, acc, p, i) ==
  << [arg |-> 0, word |-> SubSeq(content, acc.ptr, p - 1)], [arg |-> i, word |-> <<>>] >>

Stays(content, params, acc, p) ==
  p < acc.ptr \/ Here(content, params, p + 1) = {} \/ (\A k \in Dollars(content) : k < p)

\* The first parameter that is spelt there is cut out.
CutsOut(content, params, S, acc, p, i) ==
  /\ i \in DOMAIN params /\ Spells(content, p + 1, params[i])
  /\ \A j \in DOMAIN params : Spells(content, p + 1, params[j]) => i <= j
  /\ p + 1 + Len(params[i]) \in 1..(Len(content) + 1)
  /\ CutOff(content, acc, p, i) \in Seq(Piece(params, S))
  /\ Split(content, params, acc, p) =
       [ptr |-> p + 1 + Len(params[i]), token |-> acc.token \o CutOff(content, acc, p, i)]

LEMMA SplitCases ==
  ASSUME NEW S, NEW content \in Seq(S), NEW params, Named(params, S),
         NEW acc \in SplitState(content, params, S), NEW p \in 1..Len(content)
  PROVE  /\ Stays(content, params, acc, p) => Split(content, params, acc, p) = acc
         /\ ~Stays(content, params, acc, p) => \E i : CutsOut(content, params, S, acc, p, i)
         /\ Split(content, params, acc, p) \in SplitState(content, params, S)
<1> DEFINE here == Here(content, params, p + 1)
           i == Min(here)
           N == Len(content)
<1>1. /\ N \in Nat /\ (\A k \in 1..N : content[k] \in S)
      /\ acc.ptr \in 1..(N + 1) /\ acc.token \in Seq(Piece(params, S))
      /\ p + 1 \in Nat \ {0}
  BY DEF SplitState
<1>2. Stays(content, params, acc, p) => Split(content, params, acc, p) = acc
  BY DEF Stays, Split, Here
<1>3. ASSUME ~Stays(content, params, acc, p)
      PROVE  CutsOut(content, params, S, acc, p, i)
  <2>1. here # {} /\ here \in SUBSET Nat
    BY <1>3 DEF Stays, Here, Named
  <2>2. i \in here /\ \A j \in here : i <= j
    <3> HIDE DEF here
    <3> QED BY <2>1, MinIsLeast
  <2>3. i \in DOMAIN params /\ Spells(content, p + 1, params[i])
    <3> HIDE DEF i
    <3> QED BY <2>2 DEF Here
  <2>4. \A j \in DOMAIN params : Spells(content, p + 1, params[j]) => i <= j
    <3> HIDE DEF i
    <3> QED BY <2>2 DEF Here
  <2>5. params[i] \in Seq(S) /\ params[i] # <<>>
    <3> HIDE DEF i
    <3> QED BY <2>3 DEF Named
  <2>6. p + 1 + Len(params[i]) <= N + 1 /\ Len(params[i]) \in Nat
    <3> HIDE DEF i
    <3> QED BY <1>1, <2>3, <2>5, SpellsWithin
  <2>7. p + 1 + Len(params[i]) \in 1..(N + 1)
    <3> DEFINE L == Len(params[i])
    <3>0. p \in Nat /\ N \in Nat
      OBVIOUS
    <3>1. L \in Nat /\ p + 1 + L <= N + 1
      <4> HIDE DEF i
      <4> QED BY ONLY <2>6
    <3>2. p + 1 + L \in 1..(N + 1)
      <4> HIDE DEF L, N
      <4> QED BY ONLY <3>0, <3>1
    <3> QED BY ONLY <3>2
  <2>8. SubSeq(content, acc.ptr, p - 1) \in Seq(S)
    <3>1. \A k \in (acc.ptr)..(p - 1) : content[k] \in S
      BY <1>1
    <3>2. acc.ptr \in Int /\ p - 1 \in Int
      BY <1>1
    <3> QED BY ONLY <3>1, <3>2, SubSeqProperties
  <2>9. CutOff(content, acc, p, i) \in Seq(Piece(params, S))
    <3>1. i \in 0..Len(params)
      <4> HIDE DEF i
      <4> QED BY <2>3 DEF Named
    <3>2. [arg |-> i, word |-> <<>>] \in Piece(params, S)
      <4> HIDE DEF i
      <4> QED BY <3>1 DEF Piece
    <3>3. [arg |-> 0, word |-> SubSeq(content, acc.ptr, p - 1)] \in Piece(params, S)
      <4>1. 0 \in 0..Len(params)
        BY DEF Named
      <4> QED BY <2>8, <4>1 DEF Piece
    <3> DEFINE P == Piece(params, S)
               a == [arg |-> 0, word |-> SubSeq(content, acc.ptr, p - 1)]
               b == [arg |-> i, word |-> <<>>]
    <3>4. a \in P /\ b \in P
      BY <3>2, <3>3
    <3>5. <<a, b>> \in Seq(P)
      <4> HIDE DEF a, b, P
      <4> QED BY <3>4
    <3> QED BY <3>5 DEF CutOff
  <2>10. Split(content, params, acc, p) =
           [ptr |-> p + 1 + Len(params[i]), token |-> acc.token \o CutOff(content, acc, p, i)]
    BY <1>3 DEF Split, CutOff, Stays, Here
  <2> HIDE DEF i
  <2> QED BY <2>3, <2>4, <2>7, <2>9, <2>10 DEF CutsOut
<1>4. Split(content, params, acc, p) \in SplitState(content, params, S)
  <2>1. CASE Stays(content, params, acc, p)
    BY <1>2, <2>1
  <2>2. CASE ~Stays(content, params, acc, p)
    <3> HIDE DEF i, N
    <3>1. acc.token \o CutOff(content, acc, p, i) \in Seq(Piece(params, S))
      BY <1>1, <1>3, <2>2, ConcatProperties DEF CutsOut
    <3>2. p + 1 + Len(params[i]) \in 1..(Len(content) + 1)
      BY <1>3, <2>2 DEF CutsOut
    <3>3. \A x \in 1..(Len(content) + 1), y \in Seq(Piece(params, S)) :
            [ptr |-> x, token |-> y] \in SplitState(content, params, S)
      BY DEF SplitState
    <3>4. [ptr |-> p + 1 + Len(params[i]), token |-> acc.token \o CutOff(content, acc, p, i)]
            \in SplitState(content, params, S)
      BY ONLY <3>1, <3>2, <3>3
    <3> QED BY ONLY <1>3, <2>2, <3>4 DEF CutsOut
  <2> QED BY <2>1, <2>2
<1> HIDE DEF i
<1> QED BY <1>2, <1>3, <1>4

\* The recursion of Content2Token.
LEMMA ContentScan ==
  ASSUME NEW S, NEW content \in Seq(S), NEW params, Named(params, S)
  PROVE  \E c \in [0..Len(content) -> SplitState(content, params, S)] :
           /\ Scanned(c, content, params)
           /\ Content2Token(content, params) =
                Append(c[Len(content)].token,
                       [arg |-> 0, word |-> SubSeq(content, c[Len(content)].ptr, Len(content))])
<1> DEFINE N == Len(content)
           V == SplitState(content, params, S)
           start == [ptr |-> 1, token |-> <<>>]
           step == [p \in 1..N |-> [acc \in V |-> Split(content, params, acc, p)]]
           Body(f) == [p \in 0..N |->
             IF p = 0 THEN [ptr |-> 1, token |-> <<>>]
             ELSE CHOOSE next \in {Split(content, params, acc, p) : acc \in {f[p - 1]}} : TRUE]
           scan == CHOOSE f : f = Body(f)
<1>1. N \in Nat
  OBVIOUS
<1>2. start \in V
  <2>1. <<>> \in Seq(Piece(params, S)) /\ 1 \in 1..(N + 1)
    BY <1>1
  <2> QED BY <2>1 DEF SplitState
<1>3. \A p \in 1..N : \A acc \in V : Split(content, params, acc, p) \in V
  BY SplitCases
<1>4. step \in [1..N -> [V -> V]]
  <2> HIDE DEF V, N
  <2> QED BY <1>3
<1>5. \A p \in 1..N : \A acc \in V : step[p][acc] = Split(content, params, acc, p)
  OBVIOUS
<1>6. PICK f \in [0..N -> V] : Loops(f, N, start, step)
  <2> HIDE DEF N, V, start, step
  <2> QED BY <1>1, <1>2, <1>4, LoopFunction
<1>7. \A x, p : (CHOOSE next \in {Split(content, params, acc, p) : acc \in {x}} : TRUE)
                  = Split(content, params, x, p)
  OBVIOUS
<1>8. f = Body(f)
  <2>1. ASSUME NEW p \in 0..N, p # 0 PROVE step[p][f[p - 1]] = Split(content, params, f[p - 1], p)
    <3>1. p \in 1..N /\ p - 1 \in 0..N
      BY <1>1, <2>1
    <3>2. f[p - 1] \in V
      <4> HIDE DEF V, N
      <4> QED BY ONLY <1>6, <3>1
    <3> HIDE DEF V, N, step
    <3> QED BY <1>5, <3>1, <3>2
  <2>2. \A p \in 0..N : (IF p = 0 THEN start ELSE step[p][f[p - 1]]) =
          IF p = 0 THEN [ptr |-> 1, token |-> <<>>]
          ELSE CHOOSE next \in {Split(content, params, acc, p) : acc \in {f[p - 1]}} : TRUE
    <3> HIDE DEF V, N, step
    <3> QED BY <1>7, <2>1
  <2>3. [n \in 0..N |-> IF n = 0 THEN start ELSE step[n][f[n - 1]]] = Body(f)
    <3> HIDE DEF V, N, step, start
    <3> QED BY <2>2
  <2> HIDE DEF V, N, step, start, Body
  <2> QED BY ONLY <1>6, <2>3 DEF Loops
<1>9. scan = Body(scan)
  <2> HIDE DEF Body
  <2> QED BY <1>8
<1>10. \A p \in 0..N : scan[p] = IF p = 0 THEN [ptr |-> 1, token |-> <<>>]
                                 ELSE Split(content, params, scan[p - 1], p)
  <2> HIDE DEF scan, N
  <2> QED BY <1>7, <1>9
<1>11. \A p \in 1..N : scan[p] = Split(content, params, scan[p - 1], p)
  <2>1. \A p \in 1..N : p \in 0..N /\ p # 0
    OBVIOUS
  <2> HIDE DEF scan, N
  <2> QED BY <1>10, <2>1
<1>12. scan[0] = start
  <2> HIDE DEF scan
  <2> QED BY <1>1, <1>10
<1>13. \A p \in 0..N : scan[p] \in V
  <2> DEFINE T == {p \in Nat : scan[p] \in V}
  <2>1. 0 \in T
    BY <1>2, <1>12
  <2>2. ASSUME NEW p \in 0..(N - 1), p \in T PROVE p + 1 \in T
    <3>1. p + 1 \in 1..N /\ (p + 1) - 1 = p /\ p + 1 \in Nat
      BY <1>1
    <3> HIDE DEF scan, V, N
    <3>2. scan[p + 1] = Split(content, params, scan[p], p + 1)
      BY <1>11, <3>1
    <3>3. scan[p] \in V
      BY <2>2
    <3>4. Split(content, params, scan[p], p + 1) \in V
      BY <1>3, <3>1, <3>3
    <3> QED BY <3>1, <3>2, <3>4
  <2>3. 0..N \subseteq T
    <3> HIDE DEF T, N
    <3> QED BY <1>1, <2>1, <2>2, BoundedInduction
  <2> HIDE DEF scan, V, N
  <2> QED BY <2>3
<1>14. scan \in [0..N -> V]
  <2>1. scan = [p \in 0..N |-> Body(scan)[p]]
    <3> HIDE DEF scan
    <3> QED BY <1>9
  <2> HIDE DEF scan, V, N, Body
  <2> QED BY <1>13, <2>1
<1>15. Content2Token(content, params) =
         Append(scan[N].token, [arg |-> 0, word |-> SubSeq(content, scan[N].ptr, N)])
  BY DEF Content2Token
<1>16. Scanned(scan, content, params)
  <2> HIDE DEF scan
  <2> QED BY <1>11, <1>12 DEF Scanned
<1> HIDE DEF scan
<1> QED BY <1>14, <1>15, <1>16

\* The parameters that were cut out so far, in the order of their places.
Placed(acc, content, params, p, m, at, who) ==
  /\ Len(acc.token) = 2 * m
  /\ at \in [1..m -> 1..p] /\ who \in [1..m -> DOMAIN params]
  /\ \A j, k \in 1..m : j < k => at[j] < at[k]
  /\ \A j \in 1..m : Spells(content, at[j] + 1, params[who[j]])
IsPlaced(acc, content, params, p) ==
  \E m \in Nat : \E at, who : Placed(acc, content, params, p, m, at, who)

LEMMA SplitPlaces ==
  ASSUME NEW S, NEW content \in Seq(S), NEW params, Named(params, S),
         NEW acc \in SplitState(content, params, S), NEW p \in 1..Len(content),
         IsPlaced(acc, content, params, p - 1)
  PROVE  IsPlaced(Split(content, params, acc, p), content, params, p)
<1>1. PICK m \in Nat : \E at, who : Placed(acc, content, params, p - 1, m, at, who)
  BY DEF IsPlaced
<1> PICK at, who : Placed(acc, content, params, p - 1, m, at, who)
  BY <1>1
<1>2. /\ Len(acc.token) = 2 * m
      /\ at \in [1..m -> 1..(p - 1)] /\ who \in [1..m -> DOMAIN params]
      /\ \A j, k \in 1..m : j < k => at[j] < at[k]
      /\ \A j \in 1..m : Spells(content, at[j] + 1, params[who[j]])
  BY DEF Placed
<1>3. 1..(p - 1) \subseteq 1..p /\ p \in 1..p /\ (\A a \in 1..(p - 1) : a < p) /\ p \in Nat
  OBVIOUS
<1>4. CASE Stays(content, params, acc, p)
  <2>1. Split(content, params, acc, p) = acc
    BY <1>4, SplitCases
  <2>2. at \in [1..m -> 1..p]
    BY <1>2, <1>3
  <2> QED BY <1>2, <2>1, <2>2 DEF IsPlaced, Placed
<1>5. CASE ~Stays(content, params, acc, p)
  <2>1. PICK i : CutsOut(content, params, S, acc, p, i)
    BY <1>5, SplitCases
  <2>a. /\ i \in DOMAIN params /\ Spells(content, p + 1, params[i])
        /\ CutOff(content, acc, p, i) \in Seq(Piece(params, S))
        /\ Split(content, params, acc, p).token = acc.token \o CutOff(content, acc, p, i)
    BY <2>1 DEF CutsOut
  <2> DEFINE at2 == [j \in 1..(m + 1) |-> IF j = m + 1 THEN p ELSE at[j]]
             who2 == [j \in 1..(m + 1) |-> IF j = m + 1 THEN i ELSE who[j]]
  <2>2. \A j \in 1..(m + 1) : j = m + 1 \/ j \in 1..m
    OBVIOUS
  <2>3. /\ \A j \in 1..(m + 1) : j = m + 1 => at2[j] = p /\ who2[j] = i
        /\ \A j \in 1..m : at2[j] = at[j] /\ who2[j] = who[j]
    OBVIOUS
  <2>4. at2 \in [1..(m + 1) -> 1..p] /\ who2 \in [1..(m + 1) -> DOMAIN params]
    <3>1. \A j \in 1..m : at[j] \in 1..p /\ who[j] \in DOMAIN params
      BY <1>2, <1>3
    <3> QED BY <1>3, <2>2, <2>a, <3>1
  <2>5. \A j, k \in 1..(m + 1) : j < k => at2[j] < at2[k]
    <3> SUFFICES ASSUME NEW j \in 1..(m + 1), NEW k \in 1..(m + 1), j < k
                 PROVE  at2[j] < at2[k]
      OBVIOUS
    <3>1. j \in 1..m
      OBVIOUS
    <3>2. at2[j] = at[j] /\ at[j] \in 1..(p - 1)
      BY <1>2, <2>3, <3>1
    <3> HIDE DEF at2
    <3>3. CASE k = m + 1
      BY <1>3, <2>3, <3>2, <3>3
    <3>4. CASE k \in 1..m
      BY <1>2, <2>3, <3>1, <3>2, <3>4
    <3> QED BY <2>2, <3>3, <3>4
  <2>6. \A j \in 1..(m + 1) : Spells(content, at2[j] + 1, params[who2[j]])
    <3> HIDE DEF at2, who2
    <3> QED BY <1>2, <2>a, <2>2, <2>3
  <2>7. Len(Split(content, params, acc, p).token) = 2 * (m + 1)
    <3>1. Len(CutOff(content, acc, p, i)) = 2
      BY DEF CutOff
    <3>2. acc.token \in Seq(Piece(params, S))
      BY DEF SplitState
    <3> DEFINE P == Piece(params, S)
               s == acc.token
               t == CutOff(content, acc, p, i)
    <3>3. s \in Seq(P) /\ t \in Seq(P)
      BY <2>a, <3>2
    <3>4. Len(s \o t) = Len(s) + Len(t)
      <4> HIDE DEF P, s, t
      <4> QED BY ONLY <3>3
    <3> QED BY <1>2, <2>a, <3>1, <3>4
  <2> HIDE DEF at2, who2
  <2>8. Placed(Split(content, params, acc, p), content, params, p, m + 1, at2, who2)
    BY <2>4, <2>5, <2>6, <2>7 DEF Placed
  <2> QED BY <2>8 DEF IsPlaced
<1> QED BY <1>4, <1>5

LEMMA TokensType ==
  ASSUME NEW S, NEW content \in Seq(S), NEW params, Named(params, S)
  PROVE  Content2Token(content, params) \in Seq(Piece(params, S))
<1> DEFINE N == Len(content)
           P == Piece(params, S)
<1>1. PICK c \in [0..N -> SplitState(content, params, S)] :
        /\ Scanned(c, content, params)
        /\ Content2Token(content, params) =
             Append(c[N].token, [arg |-> 0, word |-> SubSeq(content, c[N].ptr, N)])
  BY ContentScan
<1> DEFINE t == c[N].token
           w == SubSeq(content, c[N].ptr, N)
           r == [arg |-> 0, word |-> w]
<1>2. c[N] \in SplitState(content, params, S)
  <2>1. N \in 0..N
    OBVIOUS
  <2> HIDE DEF N
  <2> QED BY <1>1, <2>1
<1>3. c[N].ptr \in 1..(N + 1) /\ t \in Seq(P)
  BY <1>2 DEF SplitState
<1>4. w \in Seq(S)
  <2>1. \A k \in (c[N].ptr)..N : content[k] \in S
    BY <1>3
  <2>2. c[N].ptr \in Int /\ N \in Int
    BY <1>3
  <2> QED BY ONLY <2>1, <2>2, SubSeqProperties
<1>5. r \in P
  <2>1. Len(params) \in Nat
    BY DEF Named
  <2> HIDE DEF w
  <2> QED BY <1>4, <2>1 DEF Piece
<1> HIDE DEF P, t, r
<1>6. Append(t, r) \in Seq(P)
  BY ONLY <1>3, <1>5
<1> QED BY <1>1, <1>6 DEF P, t, r

\* More tokens than the parameters account for: one of them is spelt twice.
LEMMA ManyTokensRepeat ==
  ASSUME NEW S, NEW content \in Seq(S), NEW params, Named(params, S),
         Len(Content2Token(content, params)) > 2 * Len(params) + 1
  PROVE  \E i \in DOMAIN params : \E x, y \in DOMAIN content :
           x # y /\ Spells(content, x, params[i]) /\ Spells(content, y, params[i])
<1> DEFINE N == Len(content)
           V == SplitState(content, params, S)
<1>1. PICK c \in [0..N -> V] :
        /\ Scanned(c, content, params)
        /\ Content2Token(content, params) =
             Append(c[N].token, [arg |-> 0, word |-> SubSeq(content, c[N].ptr, N)])
  BY ContentScan
<1>2. N \in Nat /\ DOMAIN content = 1..N /\ Len(params) \in Nat /\ DOMAIN params = 1..Len(params)
  BY DEF Named
<1>3. IsPlaced(c[N], content, params, N)
  <2> DEFINE T == {p \in Nat : IsPlaced(c[p], content, params, p)}
  <2>1. 0 \in T
    <3>1. c[0] = [ptr |-> 1, token |-> <<>>]
      BY <1>1 DEF Scanned
    <3>2. /\ <<>> \in [1..0 -> 1..0] /\ <<>> \in [1..0 -> DOMAIN params]
          /\ \A j \in 1..0 : FALSE
      OBVIOUS
    <3>3. Placed(c[0], content, params, 0, 0, <<>>, <<>>)
      BY <3>1, <3>2 DEF Placed
    <3> QED BY <3>3 DEF IsPlaced
  <2>2. ASSUME NEW p \in 0..(N - 1), p \in T PROVE p + 1 \in T
    <3>1. p + 1 \in 1..N /\ (p + 1) - 1 = p /\ p + 1 \in Nat /\ p \in 0..N
      BY <1>2
    <3>2. c[p + 1] = Split(content, params, c[p], p + 1) /\ c[p] \in V
      BY <1>1, <3>1 DEF Scanned
    <3>3. IsPlaced(c[p], content, params, (p + 1) - 1)
      BY <2>2, <3>1
    <3>4. IsPlaced(c[p + 1], content, params, p + 1)
      BY <3>1, <3>2, <3>3, SplitPlaces
    <3> QED BY <3>1, <3>4
  <2>3. N \in 0..N
    BY <1>2
  <2> HIDE DEF T, N
  <2>4. N \in T
    BY <1>2, <2>1, <2>2, <2>3, BoundedInduction
  <2> QED BY <2>4 DEF T
<1>4. PICK m \in Nat : \E at, who : Placed(c[N], content, params, N, m, at, who)
  BY <1>3 DEF IsPlaced
<1> PICK at, who : Placed(c[N], content, params, N, m, at, who)
  BY <1>4
<1>5. /\ Len(c[N].token) = 2 * m
      /\ at \in [1..m -> 1..N] /\ who \in [1..m -> 1..Len(params)]
      /\ \A j, k \in 1..m : j < k => at[j] < at[k]
      /\ \A j \in 1..m : Spells(content, at[j] + 1, params[who[j]])
  BY <1>2 DEF Placed
<1>6. m > Len(params)
  <2>1. N \in 0..N
    BY <1>2
  <2>2. c[N].token \in Seq(Piece(params, S))
    <3>1. c[N] \in V
      <4> HIDE DEF N, V
      <4> QED BY <1>1, <2>1
    <3> QED BY <3>1 DEF SplitState
  <2>3. Len(Content2Token(content, params)) = 2 * m + 1
    <3> DEFINE s == c[N].token
    <3>1. \A a : Len(Append(s, a)) = Len(s) + 1
      <4> HIDE DEF s
      <4> QED BY <2>2 DEF s
    <3> QED BY <1>1, <1>5, <3>1
  <2>4. 2 * m + 1 > 2 * Len(params) + 1
    BY <2>3
  <2> HIDE DEF N, V
  <2> QED BY ONLY <1>2, <2>4, m \in Nat
<1>7. \E j, k \in 1..m : j # k /\ who[j] = who[k]
  <2>0. \A n \in Nat : IsFiniteSet(1..n) /\ Cardinality(1..n) = n
    <3> SUFFICES ASSUME NEW n \in Nat PROVE IsFiniteSet(1..n) /\ Cardinality(1..n) = n
      OBVIOUS
    <3>1. 1 \in Int /\ n \in Int
      OBVIOUS
    <3>2. IsFiniteSet(1..n) /\ Cardinality(1..n) = IF 1 > n THEN 0 ELSE n - 1 + 1
      BY ONLY <3>1, FS_Interval
    <3> QED BY ONLY <3>1, <3>2, n \in Nat
  <2>1. IsFiniteSet(1..m) /\ Cardinality(1..m) = m
    BY ONLY <2>0, m \in Nat
  <2>2. IsFiniteSet(1..Len(params)) /\ Cardinality(1..Len(params)) = Len(params)
    BY ONLY <1>2, <2>0
  <2>3. Cardinality(1..Len(params)) < Cardinality(1..m)
    BY <1>6, <2>1, <2>2
  <2> QED BY ONLY <1>5, <2>1, <2>2, <2>3, FS_PigeonHole
<1>8. PICK j \in 1..m, k \in 1..m : j # k /\ who[j] = who[k]
  BY <1>7
<1>9. at[j] # at[k] /\ at[j] \in 1..N /\ at[k] \in 1..N
  <2>1. j < k \/ k < j
    BY <1>8
  <2>2. at[j] \in 1..N /\ at[k] \in 1..N
    <3> HIDE DEF N
    <3> QED BY ONLY <1>5, j \in 1..m, k \in 1..m
  <2>3. (j < k => at[j] < at[k]) /\ (k < j => at[k] < at[j])
    <3> HIDE DEF N
    <3> QED BY ONLY <1>5, j \in 1..m, k \in 1..m
  <2>4. N \in Nat /\ at[j] \in Nat /\ at[k] \in Nat
    <3> HIDE DEF N
    <3> QED BY ONLY <1>2, <2>2
  <2> HIDE DEF N
  <2> QED BY ONLY <2>1, <2>2, <2>3, <2>4
<1> DEFINE i == who[j]
           x == at[j] + 1
           y == at[k] + 1
<1>10. i \in DOMAIN params /\ Spells(content, x, params[i]) /\ Spells(content, y, params[i])
  BY <1>2, <1>5, <1>8
<1>11. params[i] \in Seq(S) /\ params[i] # <<>>
  BY <1>10 DEF Named
<1>12. x \in Nat \ {0} /\ y \in Nat \ {0} /\ x # y
  BY <1>9
<1>13. x \in 1..N /\ y \in 1..N
  <2>1. x + Len(params[i]) <= N + 1 /\ y + Len(params[i]) <= N + 1 /\ Len(params[i]) \in Nat \ {0}
    <3> HIDE DEF i, x, y
    <3> QED BY <1>10, <1>11, <1>12, SpellsWithin
  <2> HIDE DEF i, x, y, N
  <2> QED BY ONLY <1>2, <1>12, <2>1
<1> HIDE DEF i, x, y
<1> QED BY <1>2, <1>10, <1>12, <1>13

-----------------------------------------------------------------------------
(* Expansions: the code that tokens make, and the substitution.            *)

\* What the tokens of a macro write.
Written(token, args) ==
  [k \in DOMAIN token |-> IF token[k].arg = 0 THEN token[k].word ELSE args[token[k].arg]]
Code(token, args) == FlattenSeq(Written(token, args))

\* One argument for every parameter.
Fitting(args, params, S) == args \in Seq(Seq(S)) /\ Len(args) = Len(params)

LEMMA WrittenType ==
  ASSUME NEW S, NEW params, Named(params, S), NEW args, Fitting(args, params, S),
         NEW token \in Seq(Piece(params, S))
  PROVE  /\ Written(token, args) \in Seq(Seq(S)) /\ Len(Written(token, args)) = Len(token)
         /\ \A k \in 1..Len(token) :
              Written(token, args)[k] = IF token[k].arg = 0 THEN token[k].word
                                        ELSE args[token[k].arg]
<1>1. /\ Len(params) \in Nat /\ DOMAIN token = 1..Len(token) /\ Len(token) \in Nat
      /\ \A k \in 1..Len(token) : token[k] \in Piece(params, S)
  BY DEF Named
<1>2. \A i \in 1..Len(params) : args[i] \in Seq(S)
  BY DEF Fitting
<1>3. ASSUME NEW k \in 1..Len(token)
      PROVE  (IF token[k].arg = 0 THEN token[k].word ELSE args[token[k].arg]) \in Seq(S)
  <2>1. token[k].arg \in 0..Len(params) /\ token[k].word \in Seq(S)
    BY <1>1 DEF Piece
  <2>2. token[k].arg # 0 => token[k].arg \in 1..Len(params)
    BY <1>1, <2>1
  <2> QED BY <1>2, <2>1, <2>2
<1>4. Written(token, args) \in [1..Len(token) -> Seq(S)]
  BY <1>1, <1>3 DEF Written
<1>5. Written(token, args) \in Seq(Seq(S)) /\ Len(Written(token, args)) = Len(token)
  BY <1>1, <1>4
<1> QED BY <1>1, <1>5 DEF Written

LEMMA CodeConcat ==
  ASSUME NEW S, NEW params, Named(params, S), NEW args, Fitting(args, params, S),
         NEW t \in Seq(Piece(params, S)), NEW u \in Seq(Piece(params, S))
  PROVE  /\ Code(t, args) \in Seq(S) /\ Code(u, args) \in Seq(S)
         /\ Code(t \o u, args) = Code(t, args) \o Code(u, args)
<1> DEFINE P == Piece(params, S)
           V == Seq(S)
           w == Written(t, args)
           x == Written(u, args)
           y == Written(t \o u, args)
<1>1. /\ t \o u \in Seq(P) /\ Len(t \o u) = Len(t) + Len(u) /\ Len(t) \in Nat /\ Len(u) \in Nat
      /\ \A k \in 1..(Len(t) + Len(u)) :
           (t \o u)[k] = IF k <= Len(t) THEN t[k] ELSE u[k - Len(t)]
  <2>1. t \in Seq(P) /\ u \in Seq(P)
    OBVIOUS
  <2> HIDE DEF P
  <2> QED BY ONLY <2>1
<1>2. /\ w \in Seq(V) /\ Len(w) = Len(t)
      /\ \A k \in 1..Len(t) : w[k] = IF t[k].arg = 0 THEN t[k].word ELSE args[t[k].arg]
  BY WrittenType
<1>3. /\ x \in Seq(V) /\ Len(x) = Len(u)
      /\ \A k \in 1..Len(u) : x[k] = IF u[k].arg = 0 THEN u[k].word ELSE args[u[k].arg]
  BY WrittenType
<1>4. /\ y \in Seq(V) /\ Len(y) = Len(t \o u)
      /\ \A k \in 1..Len(t \o u) :
           y[k] = IF (t \o u)[k].arg = 0 THEN (t \o u)[k].word ELSE args[(t \o u)[k].arg]
  <2> DEFINE z == t \o u
  <2>1. z \in Seq(Piece(params, S))
    BY <1>1
  <2> HIDE DEF z
  <2>2. /\ Written(z, args) \in Seq(Seq(S)) /\ Len(Written(z, args)) = Len(z)
        /\ \A k \in 1..Len(z) :
             Written(z, args)[k] = IF z[k].arg = 0 THEN z[k].word ELSE args[z[k].arg]
    BY <2>1, WrittenType
  <2> QED BY ONLY <2>2 DEF z, y, V
<1> HIDE DEF P, V, w, x, y
<1>5. /\ w \o x \in Seq(V) /\ Len(w \o x) = Len(t) + Len(u)
      /\ \A k \in 1..(Len(t) + Len(u)) :
           (w \o x)[k] = IF k <= Len(t) THEN w[k] ELSE x[k - Len(t)]
  <2>1. w \in Seq(V) /\ x \in Seq(V)
    BY ONLY <1>2, <1>3
  <2>2. /\ w \o x \in Seq(V) /\ Len(w \o x) = Len(w) + Len(x)
        /\ \A k \in 1..(Len(w) + Len(x)) :
             (w \o x)[k] = IF k <= Len(w) THEN w[k] ELSE x[k - Len(w)]
    BY ONLY <2>1
  <2>3. Len(w) = Len(t) /\ Len(x) = Len(u)
    BY ONLY <1>2, <1>3
  <2> QED BY ONLY <2>2, <2>3
<1>6. ASSUME NEW k \in 1..(Len(t) + Len(u)) PROVE y[k] = (w \o x)[k]
  <2>1. CASE k <= Len(t)
    <3>1. k \in 1..Len(t)
      BY <1>1, <2>1
    <3>2. (t \o u)[k] = t[k] /\ (w \o x)[k] = w[k]
      BY ONLY <1>1, <1>5, <2>1, k \in 1..(Len(t) + Len(u))
    <3>3. y[k] = IF (t \o u)[k].arg = 0 THEN (t \o u)[k].word ELSE args[(t \o u)[k].arg]
      BY ONLY <1>1, <1>4, k \in 1..(Len(t) + Len(u))
    <3>4. w[k] = IF t[k].arg = 0 THEN t[k].word ELSE args[t[k].arg]
      BY ONLY <1>2, <3>1
    <3> QED BY ONLY <3>2, <3>3, <3>4
  <2>2. CASE ~(k <= Len(t))
    <3>1. k - Len(t) \in 1..Len(u)
      BY <1>1, <2>2
    <3>2. (t \o u)[k] = u[k - Len(t)] /\ (w \o x)[k] = x[k - Len(t)]
      BY ONLY <1>1, <1>5, <2>2, k \in 1..(Len(t) + Len(u))
    <3>3. y[k] = IF (t \o u)[k].arg = 0 THEN (t \o u)[k].word ELSE args[(t \o u)[k].arg]
      BY ONLY <1>1, <1>4, k \in 1..(Len(t) + Len(u))
    <3>4. x[k - Len(t)] = IF u[k - Len(t)].arg = 0 THEN u[k - Len(t)].word
                          ELSE args[u[k - Len(t)].arg]
      BY ONLY <1>3, <3>1
    <3> QED BY ONLY <3>2, <3>3, <3>4
  <2> QED BY ONLY <2>1, <2>2
<1>7. y = w \o x
  <2>1. Len(y) = Len(w \o x) /\ Len(y) = Len(t) + Len(u)
    BY ONLY <1>1, <1>4, <1>5
  <2> QED BY ONLY <1>4, <1>5, <1>6, <2>1, SeqEqual
<1>8. w \in Seq(Seq(S)) /\ x \in Seq(Seq(S))
  BY <1>2, <1>3 DEF V
<1>9. FlattenSeq(y) = FlattenSeq(w) \o FlattenSeq(x)
  BY ONLY <1>7, <1>8, FlattenConcat
<1>10. FlattenSeq(w) \in Seq(S) /\ FlattenSeq(x) \in Seq(S)
  BY ONLY <1>8, FlattenType
<1> QED BY <1>9, <1>10 DEF Code, w, x, y

LEMMA CodeOfWord ==
  ASSUME NEW S, NEW word \in Seq(S), NEW args
  PROVE  Code(<<[arg |-> 0, word |-> word]>>, args) = word
<1>1. Written(<<[arg |-> 0, word |-> word]>>, args) = <<word>>
  BY DEF Written
<1> QED BY <1>1, FlattenOne DEF Code

CodeCut(content, args, S, acc, p, i) ==
  /\ SubSeq(content, acc.ptr, p - 1) \in Seq(S) /\ args[i] \in Seq(S)
  /\ Code(CutOff(content, acc, p, i), args) = SubSeq(content, acc.ptr, p - 1) \o args[i]

LEMMA CodeOfCutOff ==
  ASSUME NEW S, NEW content \in Seq(S), NEW params, Named(params, S),
         NEW args, Fitting(args, params, S), NEW acc \in SplitState(content, params, S),
         NEW p \in 1..Len(content), NEW i, CutsOut(content, params, S, acc, p, i)
  PROVE  CodeCut(content, args, S, acc, p, i)
<1> DEFINE word == SubSeq(content, acc.ptr, p - 1)
           a == [arg |-> 0, word |-> word]
           b == [arg |-> i, word |-> <<>>]
<1>1. word \in Seq(S)
  <2>1. acc.ptr \in 1..(Len(content) + 1)
    BY DEF SplitState
  <2>2. \A k \in (acc.ptr)..(p - 1) : content[k] \in S
    BY <2>1
  <2>3. acc.ptr \in Int /\ p - 1 \in Int
    BY <2>1
  <2> QED BY ONLY <2>2, <2>3, SubSeqProperties
<1>2. i \in 1..Len(params) /\ Len(params) \in Nat
  BY DEF CutsOut, Named
<1>3. args[i] \in Seq(S)
  BY <1>2 DEF Fitting
<1>4. i # 0
  BY <1>2
<1>5. Written(<<a, b>>, args) = <<word, args[i]>>
  <2>1. DOMAIN <<a, b>> = 1..2 /\ <<a, b>>[1] = a /\ <<a, b>>[2] = b
    OBVIOUS
  <2>2. a.arg = 0 /\ a.word = word /\ b.arg = i
    OBVIOUS
  <2> HIDE DEF word, a, b
  <2>3. Written(<<a, b>>, args) = [k \in 1..2 |-> IF k = 1 THEN word ELSE args[i]]
    <3>1. \A k \in 1..2 : k = 1 \/ k = 2
      OBVIOUS
    <3>2. \A k \in 1..2 :
            (IF <<a, b>>[k].arg = 0 THEN <<a, b>>[k].word ELSE args[<<a, b>>[k].arg])
              = IF k = 1 THEN word ELSE args[i]
      BY ONLY <1>4, <2>1, <2>2, <3>1
    <3> QED BY <2>1, <3>2 DEF Written
  <2>4. <<word, args[i]>> = [k \in 1..2 |-> IF k = 1 THEN word ELSE args[i]]
    OBVIOUS
  <2> QED BY <2>3, <2>4
<1>6. FlattenSeq(<<word>> \o <<args[i]>>) = word \o args[i]
  <2> HIDE DEF word
  <2>1. <<word>> \in Seq(Seq(S)) /\ <<args[i]>> \in Seq(Seq(S))
    BY <1>1, <1>3
  <2>2. FlattenSeq(<<word>>) = word /\ FlattenSeq(<<args[i]>>) = args[i]
    BY <1>1, <1>3, FlattenOne
  <2> QED BY <2>1, <2>2, FlattenConcat
<1>7. <<word>> \o <<args[i]>> = <<word, args[i]>>
  <2> DEFINE x == args[i]
  <2>1. word \in Seq(S) /\ x \in Seq(S)
    BY <1>1, <1>3
  <2> HIDE DEF word, x
  <2>2. <<word>> \o <<x>> = <<word, x>>
    BY <2>1, Pair
  <2> QED BY <2>2 DEF x
<1>8. CutOff(content, acc, p, i) = <<a, b>>
  BY DEF CutOff
<1> QED BY <1>1, <1>3, <1>5, <1>6, <1>7, <1>8 DEF Code, CodeCut

\* The keyword at a place is spelt there.
LEMMA IdentSpells ==
  ASSUME NEW S, NEW text \in Seq(S), NEW k \in 1..(Len(text) + 1)
  PROVE  Ident(text, k) \in Seq(S) /\ Spells(text, k, Ident(text, k))
<1> DEFINE N == Len(text)
           Ends(n) == /\ \A j \in k..n : text[j] \in IdentChars
                      /\ n = Len(text) \/ text[n + 1] \notin IdentChars
           T == {n \in (k - 1)..N : \A j \in k..n : text[j] \in IdentChars}
           to == CHOOSE n \in (k - 1)..Len(text) : Ends(n)
<1>1. N \in Nat /\ (\A i \in 1..N : text[i] \in S) /\ k \in Nat /\ k - 1 \in Nat /\ k <= N + 1
  OBVIOUS
<1>2. \E n \in (k - 1)..Len(text) : Ends(n)
  <2>1. T \in SUBSET Nat /\ k - 1 \in T /\ \A n \in T : n <= N
    BY <1>1
  <2>2. PICK n \in T : \A m \in T : m <= n
    <3> HIDE DEF T, N
    <3> QED BY <1>1, <2>1, GreatestNatural
  <2>3. n \in (k - 1)..N /\ \A j \in k..n : text[j] \in IdentChars
    OBVIOUS
  <2>4. ASSUME n # N, text[n + 1] \in IdentChars PROVE FALSE
    <3>1. n + 1 \in (k - 1)..N /\ ~(n + 1 <= n)
      BY <1>1, <2>3, <2>4
    <3>2. \A j \in k..(n + 1) : j \in k..n \/ j = n + 1
      BY <1>1, <2>3
    <3>3. n + 1 \in T
      BY <2>3, <2>4, <3>1, <3>2
    <3> HIDE DEF T
    <3> QED BY <2>2, <3>1, <3>3
  <2> QED BY <2>3, <2>4
<1>3. to \in (k - 1)..N
  <2> HIDE DEF Ends
  <2> QED BY <1>2
<1>4. Ident(text, k) = SubSeq(text, k, to)
  BY DEF Ident
<1> HIDE DEF to
<1> DEFINE word == SubSeq(text, k, to)
           from == SubSeq(text, k, N)
           L == to - k + 1
<1>5. L \in Nat /\ L <= N - k + 1 /\ to \in Int
  BY <1>1, <1>3
<1>6. /\ word \in Seq(S) /\ Len(word) = L
      /\ \A i \in 1..L : word[i] = text[k + i - 1]
  <2>1. \A i \in k..to : text[i] \in S
    BY <1>1, <1>3
  <2>2. k \in Int /\ to \in Int
    BY <1>1, <1>3
  <2>3. /\ word \in Seq(S) /\ Len(word) = IF k <= to THEN to - k + 1 ELSE 0
        /\ \A i \in 1..(to - k + 1) : word[i] = text[k + i - 1]
    BY ONLY <2>1, <2>2, SubSeqProperties
  <2>4. L = IF k <= to THEN to - k + 1 ELSE 0
    BY <1>1, <1>3
  <2> HIDE DEF word
  <2> QED BY <2>3, <2>4
<1>7. /\ from \in Seq(S) /\ Len(from) = N - k + 1
      /\ \A i \in 1..(N - k + 1) : from[i] = text[k + i - 1]
  <2>1. \A i \in k..N : text[i] \in S
    BY <1>1
  <2>2. k \in Int /\ N \in Int
    BY <1>1
  <2>3. /\ from \in Seq(S) /\ Len(from) = IF k <= N THEN N - k + 1 ELSE 0
        /\ \A i \in 1..(N - k + 1) : from[i] = text[k + i - 1]
    <3> HIDE DEF N
    <3> QED BY ONLY <2>1, <2>2, SubSeqProperties
  <2>4. N - k + 1 = IF k <= N THEN N - k + 1 ELSE 0
    <3> HIDE DEF N
    <3> QED BY <1>1
  <2> HIDE DEF from, N
  <2> QED BY <2>3, <2>4
<1>8. SubSeq(from, 1, L) = SubSeq(word, 1, Len(word))
  <2> HIDE DEF word, from, L, N
  <2>1. SubSeq(word, 1, Len(word)) = word
    BY <1>6, SubSeqFull
  <2>2. \A i \in 1..L : i \in 1..(N - k + 1) /\ 1 + i - 1 = i
    BY <1>1, <1>5
  <2>3. \A i \in 1..L : from[i] \in S /\ from[i] = word[i]
    <3>1. \A i \in 1..L : word[i] \in S
      BY <1>6
    <3> QED BY <1>6, <1>7, <2>2, <3>1
  <2>4. 1 \in Int /\ L \in Int /\ L - 1 + 1 = L /\ (1 <= L \/ L = 0)
    BY <1>5
  <2>5. /\ SubSeq(from, 1, L) \in Seq(S)
        /\ Len(SubSeq(from, 1, L)) = IF 1 <= L THEN L - 1 + 1 ELSE 0
        /\ \A i \in 1..(L - 1 + 1) : SubSeq(from, 1, L)[i] = from[1 + i - 1]
    BY ONLY <2>3, <2>4, SubSeqProperties
  <2>6. Len(SubSeq(from, 1, L)) = L /\ \A i \in 1..L : SubSeq(from, 1, L)[i] = word[i]
    BY ONLY <1>5, <2>2, <2>3, <2>4, <2>5
  <2>7. SubSeq(from, 1, L) = word
    BY ONLY <1>6, <2>5, <2>6, SeqEqual
  <2> QED BY <2>1, <2>7
<1>9. Spells(text, k, word)
  <2> HIDE DEF word, L
  <2>1. Len(word) <= Len(from)
    BY <1>5, <1>6, <1>7
  <2>2. SubSeq(word, 1, Len(word)) = SubSeq(from, 1, Len(word))
    BY <1>6, <1>8
  <2> QED BY <2>1, <2>2 DEF Spells, IsPrefix
<1> HIDE DEF word
<1> QED BY <1>4, <1>6, <1>9 DEF word

SubstState(S) == [next : Nat \ {0}, out : Seq(S)]

\* What is there after every place of the substitution.
Substituting(s, content, params, args) ==
  /\ s[0] = [next |-> 1, out |-> <<>>]
  /\ \A k \in 1..Len(content) : s[k] = Substitute(content, params, args, s[k - 1], k)

LEMMA SubstituteType ==
  ASSUME NEW S, NEW content \in Seq(S), NEW params, Named(params, S),
         NEW args, Fitting(args, params, S), NEW acc \in SubstState(S), NEW k \in 1..Len(content)
  PROVE  Substitute(content, params, args, acc, k) \in SubstState(S)
<1> DEFINE word == Ident(content, k + 1)
           named == {i \in DOMAIN params : params[i] = word}
<1>1. acc.next \in Nat \ {0} /\ acc.out \in Seq(S) /\ k \in Nat /\ k + 1 \in 1..(Len(content) + 1)
  BY DEF SubstState
<1>2. Len(word) \in Nat
  <2> HIDE DEF word
  <2>1. word \in Seq(S)
    BY <1>1, IdentSpells DEF word
  <2> QED BY <2>1
<1> HIDE DEF word
<1>3. \A x \in Nat \ {0}, y \in Seq(S) : [next |-> x, out |-> y] \in SubstState(S)
  BY DEF SubstState
<1>4. CASE k < acc.next
  BY <1>4 DEF Substitute
<1>5. CASE ~(k < acc.next) /\ content[k] = "$" /\ named # {}
  <2>1. named \in SUBSET Nat
    BY DEF Named
  <2>2. Min(named) \in named
    <3> HIDE DEF named
    <3> QED BY <1>5, <2>1, MinIsLeast
  <2>3. args[Min(named)] \in Seq(S)
    <3> DEFINE m == Min(named)
    <3>1. m \in DOMAIN params
      BY <2>2
    <3> HIDE DEF m
    <3>2. args[m] \in Seq(S)
      BY <3>1 DEF Fitting, Named
    <3> QED BY <3>2 DEF m
  <2> DEFINE y == args[Min(named)]
  <2>4. acc.out \o y \in Seq(S)
    <3> HIDE DEF y
    <3> QED BY <1>1, <2>3 DEF y
  <2>5. k + 1 + Len(word) \in Nat \ {0}
    BY <1>1, <1>2
  <2>6. Substitute(content, params, args, acc, k) = [next |-> k + 1 + Len(word), out |-> acc.out \o y]
    BY <1>5 DEF Substitute, word
  <2> HIDE DEF y
  <2> QED BY <1>3, <2>4, <2>5, <2>6
<1>6. CASE ~(k < acc.next) /\ ~(content[k] = "$" /\ named # {})
  <2>1. content[k] \in S
    OBVIOUS
  <2>2. Append(acc.out, content[k]) \in Seq(S) /\ k + 1 \in Nat \ {0}
    BY <1>1, <2>1
  <2>3. Substitute(content, params, args, acc, k) = [next |-> k + 1, out |-> Append(acc.out, content[k])]
    BY <1>6 DEF Substitute, word
  <2> QED BY <1>3, <2>2, <2>3
<1> QED BY <1>4, <1>5, <1>6

\* The recursion of Substituted.
LEMMA SubstitutionScan ==
  ASSUME NEW S, NEW content \in Seq(S), NEW params, Named(params, S),
         NEW args, Fitting(args, params, S)
  PROVE  \E s \in [0..Len(content) -> SubstState(S)] :
           /\ Substituting(s, content, params, args)
           /\ Substituted(content, params, args) = s[Len(content)].out
<1> DEFINE N == Len(content)
           V == SubstState(S)
           start == [next |-> 1, out |-> <<>>]
           Step(acc, k) == Substitute(content, params, args, acc, k)
           step == [k \in 1..N |-> [acc \in V |-> Step(acc, k)]]
           Body(f) == [k \in 0..N |->
             IF k = 0 THEN [next |-> 1, out |-> <<>>]
             ELSE CHOOSE next \in {Substitute(content, params, args, acc, k) : acc \in {f[k - 1]}} : TRUE]
           scan == CHOOSE f : f = Body(f)
<1>1. N \in Nat
  OBVIOUS
<1>2. start \in V
  <2>1. <<>> \in Seq(S) /\ 1 \in Nat \ {0}
    OBVIOUS
  <2> QED BY <2>1 DEF SubstState
<1>3. \A k \in 1..N : \A acc \in V : Step(acc, k) \in V
  BY SubstituteType
<1>4. step \in [1..N -> [V -> V]]
  <2> HIDE DEF V, N, Step
  <2> QED BY <1>3
<1>5. \A k \in 1..N : \A acc \in V : step[k][acc] = Step(acc, k)
  OBVIOUS
<1>6. PICK f \in [0..N -> V] : Loops(f, N, start, step)
  <2> HIDE DEF N, V, start, step
  <2> QED BY <1>1, <1>2, <1>4, LoopFunction
<1>7. \A x, k : (CHOOSE next \in {Substitute(content, params, args, acc, k) : acc \in {x}} : TRUE)
                  = Step(x, k)
  OBVIOUS
<1>8. f = Body(f)
  <2>1. ASSUME NEW k \in 0..N, k # 0 PROVE step[k][f[k - 1]] = Step(f[k - 1], k)
    <3>1. k \in 1..N /\ k - 1 \in 0..N
      BY <1>1, <2>1
    <3>2. f[k - 1] \in V
      <4> HIDE DEF V, N
      <4> QED BY ONLY <1>6, <3>1
    <3> HIDE DEF V, N, step, Step
    <3> QED BY <1>5, <3>1, <3>2
  <2>2. \A k \in 0..N : (IF k = 0 THEN start ELSE step[k][f[k - 1]]) =
          IF k = 0 THEN [next |-> 1, out |-> <<>>]
          ELSE CHOOSE next \in {Substitute(content, params, args, acc, k) : acc \in {f[k - 1]}} : TRUE
    <3> HIDE DEF V, N, step, Step
    <3> QED BY <1>7, <2>1
  <2>3. [n \in 0..N |-> IF n = 0 THEN start ELSE step[n][f[n - 1]]] = Body(f)
    <3> HIDE DEF V, N, step, start
    <3> QED BY <2>2
  <2> HIDE DEF V, N, step, start, Body
  <2> QED BY ONLY <1>6, <2>3 DEF Loops
<1>9. scan = Body(scan)
  <2> HIDE DEF Body
  <2> QED BY <1>8
<1>10. \A k \in 0..N : scan[k] = IF k = 0 THEN [next |-> 1, out |-> <<>>] ELSE Step(scan[k - 1], k)
  <2> HIDE DEF scan, N, Step
  <2> QED BY <1>7, <1>9
<1>11. \A k \in 1..N : scan[k] = Step(scan[k - 1], k)
  <2>1. \A k \in 1..N : k \in 0..N /\ k # 0
    OBVIOUS
  <2> HIDE DEF scan, N, Step
  <2> QED BY <1>10, <2>1
<1>12. scan[0] = start
  <2> HIDE DEF scan, Step
  <2> QED BY <1>1, <1>10
<1>13. \A k \in 0..N : scan[k] \in V
  <2> DEFINE T == {k \in Nat : scan[k] \in V}
  <2>1. 0 \in T
    BY <1>2, <1>12
  <2>2. ASSUME NEW k \in 0..(N - 1), k \in T PROVE k + 1 \in T
    <3>1. k + 1 \in 1..N /\ (k + 1) - 1 = k /\ k + 1 \in Nat
      BY <1>1
    <3> HIDE DEF scan, V, N, Step
    <3>2. scan[k + 1] = Step(scan[k], k + 1)
      BY <1>11, <3>1
    <3>3. scan[k] \in V
      BY <2>2
    <3>4. Step(scan[k], k + 1) \in V
      BY <1>3, <3>1, <3>3
    <3> QED BY <3>1, <3>2, <3>4
  <2>3. 0..N \subseteq T
    <3> HIDE DEF T, N
    <3> QED BY <1>1, <2>1, <2>2, BoundedInduction
  <2> HIDE DEF scan, V, N
  <2> QED BY <2>3
<1>14. scan \in [0..N -> V]
  <2>1. scan = [k \in 0..N |-> Body(scan)[k]]
    <3> HIDE DEF scan
    <3> QED BY <1>9
  <2> HIDE DEF scan, V, N, Body
  <2> QED BY <1>13, <2>1
<1>15. Substituted(content, params, args) = scan[N].out
  BY DEF Substituted
<1>16. Substituting(scan, content, params, args)
  <2> HIDE DEF scan
  <2> QED BY <1>11, <1>12 DEF Substituting
<1> HIDE DEF scan
<1> QED BY <1>14, <1>15, <1>16

\* After every place both have written the same: the tokens so far, and the word
\* that is not ended yet.
Agree(content, args, acc, sub, p) ==
  /\ sub.next = IF acc.ptr > p + 1 THEN acc.ptr ELSE p + 1
  /\ sub.out = Code(acc.token, args) \o SubSeq(content, acc.ptr, sub.next - 1)

\* Parameters that are spelt at a place are named there, all by one name.
LEMMA HereIsNamed ==
  ASSUME NEW S, NEW content \in Seq(S), NEW params, Named(params, S),
         ~Misleading(content, params), NEW p \in 1..Len(content)
  PROVE  /\ Here(content, params, p + 1) =
              {i \in DOMAIN params : params[i] = Ident(content, p + 1)}
         /\ Here(content, params, p + 1) # {} => content[p] = "$"
<1>1. p + 1 \in 1..(Len(content) + 1) /\ p + 1 \in Nat \ {0} /\ (p + 1) - 1 = p
  OBVIOUS
<1>2. ASSUME NEW i \in Here(content, params, p + 1)
      PROVE  params[i] = Ident(content, p + 1) /\ content[p] = "$"
  <2>1. i \in DOMAIN params /\ Spells(content, p + 1, params[i])
    BY DEF Here
  <2>2. params[i] \in Seq(S) /\ params[i] # <<>>
    BY <2>1 DEF Named
  <2>3. p + 1 + Len(params[i]) <= Len(content) + 1 /\ Len(params[i]) \in Nat \ {0}
    BY <1>1, <2>1, <2>2, SpellsWithin
  <2>4. p + 1 \in 2..Len(content)
    <3> DEFINE L == Len(params[i])
               N == Len(content)
    <3>1. p \in Nat /\ p >= 1 /\ N \in Nat
      OBVIOUS
    <3>2. p + 1 + L <= N + 1 /\ L \in Nat \ {0}
      BY <2>3
    <3> HIDE DEF L, N
    <3>3. p + 1 \in 2..N
      BY ONLY <3>1, <3>2
    <3> QED BY <3>3 DEF N
  <2>5. ~(content[(p + 1) - 1] # "$" \/ Ident(content, p + 1) # params[i])
    BY <2>1, <2>4 DEF Misleading
  <2> QED BY <1>1, <2>5
<1>3. ASSUME NEW i \in DOMAIN params, params[i] = Ident(content, p + 1)
      PROVE  i \in Here(content, params, p + 1)
  BY <1>1, <1>3, IdentSpells DEF Here
<1>4. Here(content, params, p + 1) \subseteq DOMAIN params
  BY DEF Here
<1> QED BY <1>2, <1>3, <1>4

LEMMA StepsAgree ==
  ASSUME NEW S, NEW content \in Seq(S), NEW params, Named(params, S),
         NEW args, Fitting(args, params, S), ~Misleading(content, params),
         NEW acc \in SplitState(content, params, S), NEW sub \in SubstState(S),
         NEW p \in 1..Len(content), Agree(content, args, acc, sub, p - 1)
  PROVE  Agree(content, args, Split(content, params, acc, p),
               Substitute(content, params, args, sub, p), p)
<1> DEFINE N == Len(content)
           here == Here(content, params, p + 1)
           word == Ident(content, p + 1)
           named == {i \in DOMAIN params : params[i] = word}
           acc2 == Split(content, params, acc, p)
           sub2 == Substitute(content, params, args, sub, p)
<1>1. /\ acc.ptr \in 1..(N + 1) /\ acc.token \in Seq(Piece(params, S))
      /\ sub.next \in Nat \ {0} /\ sub.out \in Seq(S) /\ p \in Nat /\ N \in Nat
  BY DEF SplitState, SubstState
<1>2. /\ sub.next = IF acc.ptr > p THEN acc.ptr ELSE p
      /\ sub.out = Code(acc.token, args) \o SubSeq(content, acc.ptr, sub.next - 1)
  <2>1. (p - 1) + 1 = p
    OBVIOUS
  <2> QED BY <2>1 DEF Agree
<1>3. named = here /\ (here # {} => content[p] = "$")
  BY HereIsNamed
<1>4. Code(acc.token, args) \in Seq(S)
  BY <1>1, CodeConcat
<1>0. Associative(S)
  BY ONLY Assoc
<1>a. \A a, b, c \in Seq(S) : (a \o b) \o c = a \o (b \o c)
  BY ONLY <1>0 DEF Associative
<1>b. \A x, y \in Seq(Piece(params, S)) : Code(x \o y, args) = Code(x, args) \o Code(y, args)
  BY CodeConcat
<1>c. ASSUME NEW i, CutsOut(content, params, S, acc, p, i)
      PROVE  CodeCut(content, args, S, acc, p, i)
  BY <1>c, CodeOfCutOff
<1>5. CASE p < acc.ptr
  <2>1. acc2 = acc
    BY <1>5, SplitCases DEF Stays
  <2>2. ~(acc.ptr <= p) /\ sub.next = acc.ptr
    BY <1>1, <1>2, <1>5
  <2>3. sub2 = sub
    BY <1>5, <2>2 DEF Substitute
  <2>4. acc.ptr = IF acc.ptr > p + 1 THEN acc.ptr ELSE p + 1
    <3> HIDE DEF N
    <3> QED BY <1>1, <1>5
  <2> HIDE DEF acc2, sub2
  <2>5. Agree(content, args, acc2, sub2, p)
    BY <1>2, <2>1, <2>2, <2>3, <2>4 DEF Agree
  <2> QED BY <2>5 DEF acc2, sub2
<1>6. CASE ~(p < acc.ptr) /\ here = {}
  <2>1. acc2 = acc
    BY <1>6, SplitCases DEF Stays
  <2>2. acc.ptr <= p /\ ~(acc.ptr > p) /\ ~(acc.ptr > p + 1)
    <3> HIDE DEF N
    <3> QED BY <1>1, <1>6
  <2>3. sub.next = p /\ ~(p < sub.next)
    <3>1. sub.next = p
      BY <1>2, <2>2
    <3> QED BY <1>1, <3>1
  <2>4. sub2 = [next |-> p + 1, out |-> Append(sub.out, content[p])]
    BY <1>3, <1>6, <2>3 DEF Substitute
  <2>5. SubSeq(content, acc.ptr, p) = SubSeq(content, acc.ptr, p - 1) \o <<content[p]>>
    <3>1. acc.ptr \in 1..Len(content) /\ p \in (acc.ptr)..Len(content)
      BY <1>1, <2>2
    <3> QED BY ONLY content \in Seq(S), <3>1, SubSeqRecursiveSecond
  <2> DEFINE a == Code(acc.token, args)
             b == SubSeq(content, acc.ptr, p - 1)
             c == content[p]
  <2>6. a \in Seq(S) /\ b \in Seq(S) /\ c \in S /\ sub.out \in Seq(S) /\ sub.out = a \o b
    <3>1. b \in Seq(S)
      <4>1. \A k \in (acc.ptr)..(p - 1) : content[k] \in S
        BY <1>1
      <4>2. acc.ptr \in Int /\ p - 1 \in Int
        BY <1>1
      <4> QED BY ONLY <4>1, <4>2, SubSeqProperties
    <3>2. c \in S
      OBVIOUS
    <3> HIDE DEF a, b, c
    <3> QED BY <1>1, <1>2, <1>4, <2>3, <3>1, <3>2 DEF a, b
  <2>7. Append(sub.out, c) = a \o (b \o <<c>>)
    <3> HIDE DEF a, b, c
    <3>1. Append(sub.out, c) = sub.out \o <<c>>
      BY ONLY <2>6, AppendIsConcat
    <3>2. <<c>> \in Seq(S)
      BY <2>6
    <3>4. (a \o b) \o <<c>> = a \o (b \o <<c>>)
      BY ONLY <1>a, <2>6, <3>2
    <3> QED BY ONLY <2>6, <3>1, <3>4
  <2>8. sub2.next = p + 1 /\ sub2.out = a \o SubSeq(content, acc.ptr, p) /\ (p + 1) - 1 = p
    <3>1. (p + 1) - 1 = p
      BY <1>1
    <3> HIDE DEF sub2, acc2, a
    <3> QED BY <2>4, <2>5, <2>7, <3>1
  <2> HIDE DEF acc2, sub2
  <2>9. Agree(content, args, acc2, sub2, p)
    BY <2>1, <2>2, <2>8 DEF Agree
  <2> QED BY <2>9 DEF acc2, sub2
<1>7. CASE ~(p < acc.ptr) /\ here # {}
  <2>1. acc.ptr <= p /\ ~(acc.ptr > p)
    BY <1>1, <1>7
  <2>2. sub.next = p /\ ~(p < sub.next)
    <3>1. sub.next = p
      BY <1>2, <2>1
    <3> QED BY <1>1, <3>1
  <2>3. ~Stays(content, params, acc, p)
    <3>1. p \in Dollars(content) /\ ~(p < p)
      BY <1>3, <1>7 DEF Dollars
    <3> QED BY <1>7, <3>1 DEF Stays
  <2>4. PICK i : CutsOut(content, params, S, acc, p, i)
    BY <2>3, SplitCases
  <2>5. i \in here /\ (\A j \in here : i <= j) /\ here \in SUBSET Nat
    BY <2>4 DEF CutsOut, Here, Named
  <2>6. Min(named) = i
    <3>1. Min(here) \in here /\ \A j \in here : Min(here) <= j
      <4> HIDE DEF here
      <4> QED BY <1>7, <2>5, MinIsLeast
    <3>2. Min(here) <= i /\ i <= Min(here) /\ Min(here) \in Nat /\ i \in Nat
      <4> HIDE DEF here
      <4> QED BY <2>5, <3>1
    <3>3. Min(here) = i
      <4> DEFINE m == Min(here)
      <4> HIDE DEF m
      <4>1. m = i
        BY <3>2 DEF m
      <4> QED BY <4>1 DEF m
    <3> HIDE DEF here, named
    <3> QED BY <1>3, <3>3
  <2>7. params[i] = word /\ word \in Seq(S) /\ word # <<>> /\ i \in DOMAIN params
    <3>1. i \in named
      BY <1>3, <2>5
    <3> QED BY <3>1 DEF Named
  <2>8. sub2 = [next |-> p + 1 + Len(word), out |-> sub.out \o args[i]]
    <3>1. named # {} /\ content[p] = "$"
      BY <1>3, <1>7
    <3> DEFINE m == Min(named)
    <3>2. sub2 = [next |-> p + 1 + Len(word), out |-> sub.out \o args[m]]
      BY <2>2, <3>1 DEF Substitute
    <3>3. m = i
      BY <2>6
    <3> HIDE DEF m, sub2, word
    <3> QED BY <3>2, <3>3
  <2>9. acc2 = [ptr |-> p + 1 + Len(word), token |-> acc.token \o CutOff(content, acc, p, i)]
    BY <2>4, <2>7 DEF CutsOut
  <2>10. Len(word) \in Nat \ {0}
    <3> HIDE DEF word
    <3> QED BY <2>7
  <2> DEFINE t == CutOff(content, acc, p, i)
             a == Code(acc.token, args)
             b == SubSeq(content, acc.ptr, p - 1)
             c == args[i]
             q == p + 1 + Len(word)
  <2>11. b \in Seq(S) /\ c \in Seq(S) /\ Code(t, args) = b \o c
    BY <1>c, <2>4 DEF CodeCut
  <2>12. Code(acc.token \o t, args) = a \o (b \o c)
    <3>1. t \in Seq(Piece(params, S))
      BY <2>4 DEF CutsOut
    <3> HIDE DEF t
    <3>2. Code(acc.token \o t, args) = Code(acc.token, args) \o Code(t, args)
      BY <1>1, <1>b, <3>1
    <3> HIDE DEF a, b, c
    <3> QED BY <2>11, <3>2 DEF a
  <2>13. sub.out \o c = a \o (b \o c)
    <3>1. sub.out = a \o b /\ a \in Seq(S)
      BY <1>2, <1>4, <2>2
    <3> HIDE DEF a, b, c
    <3>2. (a \o b) \o c = a \o (b \o c)
      BY ONLY <1>a, <2>11, <3>1
    <3> QED BY ONLY <3>1, <3>2
  <2>14. SubSeq(content, q, q - 1) = <<>>
    <3>1. q \in Int /\ q - 1 \in Int /\ q - 1 < q
      <4> HIDE DEF word
      <4> QED BY <1>1, <2>10
    <3> HIDE DEF q
    <3> QED BY ONLY <3>1, SubSeqEmpty
  <2>15. (a \o (b \o c)) \o <<>> = a \o (b \o c)
    <3>1. a \in Seq(S)
      BY <1>4
    <3> HIDE DEF a, b, c
    <3> DEFINE d == b \o c
    <3>2. d \in Seq(S)
      BY <2>11
    <3> HIDE DEF d
    <3> DEFINE e == a \o d
    <3>3. e \in Seq(S)
      BY <3>1, <3>2
    <3> HIDE DEF e
    <3>4. e \o <<>> = e
      BY <3>3, ConcatEmptySeq
    <3> QED BY <3>4 DEF e, d
  <2>16. q > p + 1
    <3> HIDE DEF word
    <3> QED BY <1>1, <2>10
  <2>17. acc2.ptr = q /\ acc2.token = acc.token \o t /\ sub2.next = q /\ sub2.out = sub.out \o c
    <3> HIDE DEF acc2, sub2, word
    <3> QED BY <2>8, <2>9
  <2> HIDE DEF acc2, sub2, a, b, c, q, t
  <2>18. Agree(content, args, acc2, sub2, p)
    BY ONLY <2>12, <2>13, <2>14, <2>15, <2>16, <2>17 DEF Agree
  <2> QED BY <2>18 DEF acc2, sub2
<1> QED BY <1>5, <1>6, <1>7

\* What the tokens of a body write is what the body means.
LEMMA TokensSubstitute ==
  ASSUME NEW S, NEW content \in Seq(S), NEW params, Named(params, S),
         NEW args, Fitting(args, params, S), ~Misleading(content, params)
  PROVE  Code(Content2Token(content, params), args) = Substituted(content, params, args)
<1> DEFINE N == Len(content)
           V == SplitState(content, params, S)
           W == SubstState(S)
<1>1. PICK c \in [0..N -> V] :
        /\ Scanned(c, content, params)
        /\ Content2Token(content, params) =
             Append(c[N].token, [arg |-> 0, word |-> SubSeq(content, c[N].ptr, N)])
  BY ContentScan
<1>2. PICK s \in [0..N -> W] :
        /\ Substituting(s, content, params, args)
        /\ Substituted(content, params, args) = s[N].out
  BY SubstitutionScan
<1>3. N \in Nat /\ N \in 0..N
  OBVIOUS
<1>4. Agree(content, args, c[N], s[N], N)
  <2> DEFINE T == {p \in Nat : Agree(content, args, c[p], s[p], p)}
  <2>1. 0 \in T
    <3>1. c[0] = [ptr |-> 1, token |-> <<>>] /\ s[0] = [next |-> 1, out |-> <<>>]
      BY <1>1, <1>2 DEF Scanned, Substituting
    <3>2. Code(<<>>, args) = <<>>
      BY DEF Code, Written, FlattenSeq
    <3>3. SubSeq(content, 1, 0) = <<>>
      BY SubSeqEmpty
    <3>4. <<>> = <<>> \o <<>>
      OBVIOUS
    <3>5. c[0].ptr = 1 /\ c[0].token = <<>> /\ s[0].next = 1 /\ s[0].out = <<>>
      BY <3>1
    <3>6. ~(1 > 0 + 1) /\ 0 + 1 = 1 /\ 1 - 1 = 0
      OBVIOUS
    <3>7. Agree(content, args, c[0], s[0], 0)
      BY ONLY <3>2, <3>3, <3>4, <3>5, <3>6 DEF Agree
    <3> QED BY <3>7
  <2>2. ASSUME NEW p \in 0..(N - 1), p \in T PROVE p + 1 \in T
    <3>1. p + 1 \in 1..N /\ (p + 1) - 1 = p /\ p + 1 \in Nat /\ p \in 0..N
      BY <1>3
    <3>2. c[p + 1] = Split(content, params, c[p], p + 1) /\ c[p] \in V
      BY <1>1, <3>1 DEF Scanned
    <3>3. s[p + 1] = Substitute(content, params, args, s[p], p + 1) /\ s[p] \in W
      BY <1>2, <3>1 DEF Substituting
    <3>4. Agree(content, args, c[p], s[p], (p + 1) - 1)
      BY <2>2, <3>1
    <3>5. Agree(content, args, c[p + 1], s[p + 1], p + 1)
      BY <3>1, <3>2, <3>3, <3>4, StepsAgree
    <3> QED BY <3>1, <3>5
  <2> HIDE DEF T, N
  <2>3. N \in T
    BY <1>3, <2>1, <2>2, BoundedInduction
  <2> QED BY <2>3 DEF T
<1>5. c[N] \in V /\ s[N] \in W
  <2> HIDE DEF N, V, W
  <2> QED BY <1>1, <1>2, <1>3
<1>6. c[N].ptr \in 1..(N + 1) /\ c[N].token \in Seq(Piece(params, S))
  BY <1>5 DEF SplitState
<1>7. s[N].next = N + 1
  <2> HIDE DEF N
  <2> QED BY <1>3, <1>4, <1>6 DEF Agree
<1> DEFINE w == SubSeq(content, c[N].ptr, N)
           last == <<[arg |-> 0, word |-> w]>>
<1>8. w \in Seq(S)
  <2>1. \A k \in (c[N].ptr)..N : content[k] \in S
    BY <1>6
  <2>2. c[N].ptr \in Int /\ N \in Int
    BY <1>6
  <2> QED BY ONLY <2>1, <2>2, SubSeqProperties
<1>9. last \in Seq(Piece(params, S)) /\ Code(last, args) = w
  <2>1. Len(params) \in Nat
    BY DEF Named
  <2> HIDE DEF w
  <2>2. [arg |-> 0, word |-> w] \in Piece(params, S)
    BY <1>8, <2>1 DEF Piece
  <2>3. last \in Seq(Piece(params, S))
    <3> DEFINE P == Piece(params, S)
               r == [arg |-> 0, word |-> w]
    <3> HIDE DEF P, r
    <3>1. <<r>> \in Seq(P)
      BY <2>2 DEF P, r
    <3> QED BY <3>1 DEF P, r
  <2> QED BY <1>8, <2>3, CodeOfWord
<1>10. Content2Token(content, params) = c[N].token \o last
  <2> DEFINE P == Piece(params, S)
             t == c[N].token
             r == [arg |-> 0, word |-> w]
  <2>1. t \in Seq(P) /\ r \in P
    <3>1. Len(params) \in Nat
      BY DEF Named
    <3> QED BY <1>6, <1>8, <3>1 DEF Piece
  <2>2. Append(t, r) = t \o <<r>>
    <3> HIDE DEF P, t, r
    <3> QED BY ONLY <2>1, AppendIsConcat
  <2> QED BY <1>1, <2>2
<1>11. Code(c[N].token \o last, args) = Code(c[N].token, args) \o w
  <2> DEFINE t == c[N].token
  <2>1. t \in Seq(Piece(params, S)) /\ last \in Seq(Piece(params, S))
    BY <1>6, <1>9
  <2> HIDE DEF t, last, w
  <2>2. Code(t \o last, args) = Code(t, args) \o Code(last, args)
    BY <2>1, CodeConcat
  <2> QED BY <1>9, <2>2 DEF t
<1>12. s[N].out = Code(c[N].token, args) \o w
  <2>1. (N + 1) - 1 = N
    BY <1>3
  <2> HIDE DEF N
  <2> QED BY <1>4, <1>7, <2>1 DEF Agree, w
<1> HIDE DEF last, w
<1> QED BY <1>2, <1>10, <1>11, <1>12

-----------------------------------------------------------------------------
(* Lines: what is read, and what the files say.                            *)

\* The macros that lre_macro_parse makes.
ParamLists == {params \in Seq(Seq(Characters)) : Named(params, Characters) /\ Len(params) <= ArgcMax}
MacroOf(name, params, body) ==
  [name |-> name, params |-> params, body |-> body, token |-> Content2Token(body, params)]
Macros ==
  {MacroOf(name, params, body) :
     name \in Seq(Characters), params \in ParamLists, body \in Seq(Characters)}

LEMMA TokenType ==
  ASSUME NEW tok \in Tokens
  PROVE  tok.word \in Seq(Characters) /\ (tok.type = "keyword" => tok.word # <<>>)
<1>1. tok \in [type : {"keyword", "symbol", "string", "bad"}, word : Seq(Characters)]
  BY TextAssumption
<1>2. tok.word \in Seq(Characters)
  BY <1>1
<1> QED BY <1>2, TextAssumption

LEMMA LineType ==
  ASSUME NEW line \in Lines PROVE line.toks \in Seq(Tokens) /\ line.cont \in BOOLEAN
BY TextAssumption

LEMMA ParsedType ==
  ASSUME NEW toks \in Seq(Tokens)
  PROVE  Parsed(toks) = {} \/ \E m \in Macros : Parsed(toks) = {m}
<1> SUFFICES ASSUME Parsed(toks) # {} PROVE \E m \in Macros : Parsed(toks) = {m}
  OBVIOUS
<1> DEFINE rest   == Tail(toks)
           none   == Len(rest) >= 2 /\ IsSymbol(rest[2], <<")">>)
           counts == IF none THEN {0} ELSE ParamCounts(rest)
           n      == CHOOSE n \in counts : TRUE
           body   == IF n = 0 THEN 3 ELSE 2 * n + 2
           params == [k \in 1..n |-> rest[2 * k].word]
           m      == MacroOf(toks[1].word, params, rest[body].word)
<1>1. /\ ~(toks = <<>> \/ toks[1].type # "keyword" \/ rest = <<>> \/ ~IsSymbol(rest[1], <<"(">>))
      /\ ~(counts = {} \/ Len(rest) < body \/ rest[body].type # "string")
      /\ Parsed(toks) = {m}
  BY DEF Parsed, MacroOf
<1>2. /\ toks # <<>> /\ counts # {} /\ ~(Len(rest) < body)
  BY <1>1
<1>3. rest \in Seq(Tokens) /\ toks[1] \in Tokens /\ Len(rest) \in Nat
  BY <1>2
<1>4. n \in counts
  <2> HIDE DEF counts
  <2> QED BY <1>2
<1>5. n \in 0..ArgcMax
  <2>1. ParamCounts(rest) \subseteq 1..ArgcMax
    <3> HIDE DEF rest
    <3> QED BY DEF ParamCounts
  <2>2. n = 0 \/ n \in ParamCounts(rest)
    <3> HIDE DEF n, rest
    <3> QED BY <1>4
  <2> HIDE DEF n, rest
  <2> QED BY <2>1, <2>2, MacroLimits
<1>6. ASSUME NEW k \in 1..n PROVE 2 * k \in 1..Len(rest) /\ rest[2 * k].type = "keyword"
  <2>1. n \in ParamCounts(rest) /\ n # 0
    <3> HIDE DEF n
    <3> QED BY <1>4, <1>5
  <2>2. 2 * n + 1 <= Len(rest) /\ rest[2 * k].type = "keyword"
    <3> HIDE DEF n, rest
    <3> QED BY <2>1 DEF ParamCounts
  <2>3. 2 * k \in 1..Len(rest)
    <3> HIDE DEF n, rest
    <3> QED BY <1>3, <1>5, <2>2, MacroLimits
  <2> QED BY <2>2, <2>3
<1>7. ASSUME NEW k \in 1..n
      PROVE  rest[2 * k].word \in Seq(Characters) /\ rest[2 * k].word # <<>>
  <2>1. rest[2 * k] \in Tokens
    <3> HIDE DEF n, rest
    <3> QED BY <1>3, <1>6
  <2> HIDE DEF n, rest
  <2> QED BY <1>6, <2>1, TokenType
<1>8. params \in ParamLists
  <2>1. n \in Nat /\ n <= ArgcMax
    <3> HIDE DEF n
    <3> QED BY <1>5, MacroLimits
  <2> HIDE DEF n, rest
  <2>2. params \in [1..n -> Seq(Characters)]
    BY <1>7
  <2>3. params \in Seq(Seq(Characters)) /\ Len(params) = n
    BY <2>1, <2>2
  <2>4. \A i \in DOMAIN params : params[i] # <<>>
    BY <1>7
  <2> HIDE DEF params
  <2> QED BY <2>1, <2>3, <2>4 DEF ParamLists, Named
<1>9. body \in 1..Len(rest)
  <2>1. body \in Nat \ {0}
    <3> HIDE DEF n
    <3> QED BY <1>5, MacroLimits
  <2> HIDE DEF body, rest
  <2> QED BY <1>2, <1>3, <2>1
<1>10. rest[body].word \in Seq(Characters) /\ toks[1].word \in Seq(Characters)
  <2>1. rest[body] \in Tokens
    <3> HIDE DEF body, rest
    <3> QED BY <1>3, <1>9
  <2> HIDE DEF body, rest
  <2> QED BY <1>3, <2>1, TokenType
<1>11. m \in Macros
  <2> HIDE DEF params, body, rest, n
  <2> QED BY <1>8, <1>10 DEF Macros
<1> HIDE DEF m
<1> QED BY <1>1, <1>11

LEMMA LineEndIsFirst ==
  ASSUME NEW lines \in Seq(Lines), lines # <<>>
  PROVE  /\ LineEnd(lines) \in 1..Len(lines)
         /\ LineEnd(lines) = Len(lines) \/ ~lines[LineEnd(lines)].cont
         /\ \A k \in 1..(LineEnd(lines) - 1) : lines[k].cont
<1> DEFINE T == {n \in DOMAIN lines : n = Len(lines) \/ ~lines[n].cont}
           Ends(n) == /\ n = Len(lines) \/ ~lines[n].cont
                      /\ \A k \in 1..(n - 1) : lines[k].cont
<1>1. Len(lines) \in Nat \ {0} /\ DOMAIN lines = 1..Len(lines)
  OBVIOUS
<1>2. T \in SUBSET Nat /\ Len(lines) \in T
  BY <1>1
<1>3. PICK n \in T : \A k \in T : n <= k
  <2> HIDE DEF T
  <2> QED BY <1>2, LeastNatural
<1>4. n \in 1..Len(lines) /\ Ends(n)
  <2>1. n \in 1..Len(lines) /\ (n = Len(lines) \/ ~lines[n].cont)
    BY <1>1
  <2>2. ASSUME NEW k \in 1..(n - 1) PROVE lines[k].cont
    <3>1. k \in 1..Len(lines) /\ ~(n <= k)
      BY <1>1, <2>1
    <3>2. k \notin T
      <4> HIDE DEF T
      <4> QED BY <1>3, <3>1
    <3> QED BY <1>1, <3>1, <3>2
  <2> QED BY <2>1, <2>2
<1>5. LineEnd(lines) = CHOOSE e \in DOMAIN lines : Ends(e)
  BY DEF LineEnd
<1>6. LineEnd(lines) \in 1..Len(lines) /\ Ends(LineEnd(lines))
  <2> HIDE DEF Ends
  <2> QED BY <1>1, <1>4, <1>5
<1> QED BY <1>6

\* The tokens of the lines of a file.
Toks(lines) == [k \in 1..Len(lines) |-> lines[k].toks]

LEMMA LineIsFlat ==
  ASSUME NEW lines \in Seq(Lines), lines # <<>>
  PROVE  /\ Toks(lines) \in Seq(Seq(Tokens)) /\ Len(Toks(lines)) = Len(lines)
         /\ Line(lines) = FlattenSeq(SubSeq(Toks(lines), 1, LineEnd(lines)))
         /\ Line(lines) \in Seq(Tokens)
         /\ SubSeq(lines, LineEnd(lines) + 1, Len(lines)) \in Seq(Lines)
<1> DEFINE N == Len(lines)
           n == LineEnd(lines)
           t == Toks(lines)
           first == [k \in 1..n |-> lines[k].toks]
<1>1. N \in Nat /\ n \in 1..N /\ (\A k \in 1..N : lines[k] \in Lines)
  BY LineEndIsFirst
<1>2. \A k \in 1..N : lines[k].toks \in Seq(Tokens)
  BY <1>1, LineType
<1> HIDE DEF n
<1>3. t \in Seq(Seq(Tokens)) /\ Len(t) = N /\ \A k \in 1..N : t[k] = lines[k].toks
  <2>1. t \in [1..N -> Seq(Tokens)]
    BY <1>2 DEF Toks
  <2>2. \A k \in 1..N : t[k] = lines[k].toks
    BY DEF Toks
  <2> HIDE DEF t
  <2> QED BY <1>1, <2>1, <2>2
<1>4. first \in Seq(Seq(Tokens)) /\ Len(first) = n /\ \A k \in 1..n : first[k] = lines[k].toks
  <2>1. \A k \in 1..n : k \in 1..N
    BY <1>1
  <2>2. first \in [1..n -> Seq(Tokens)]
    BY <1>2, <2>1
  <2>3. \A k \in 1..n : first[k] = lines[k].toks
    OBVIOUS
  <2>4. n \in Nat
    BY <1>1
  <2> HIDE DEF first
  <2> QED BY <2>2, <2>3, <2>4
<1>5. first = SubSeq(t, 1, n)
  <2>1. \A k \in 1..n : k \in 1..N /\ t[k] \in Seq(Tokens) /\ 1 + k - 1 = k /\ t[k] = first[k]
    <3>1. \A k \in 1..n : k \in 1..N /\ 1 + k - 1 = k
      BY <1>1
    <3> HIDE DEF t, first, N
    <3> QED BY <1>2, <1>3, <1>4, <3>1
  <2>2. 1 \in Int /\ n \in Int /\ 1 <= n /\ n - 1 + 1 = n
    BY <1>1
  <2> HIDE DEF t, first, N
  <2>3. /\ SubSeq(t, 1, n) \in Seq(Seq(Tokens))
        /\ Len(SubSeq(t, 1, n)) = IF 1 <= n THEN n - 1 + 1 ELSE 0
        /\ \A i \in 1..(n - 1 + 1) : SubSeq(t, 1, n)[i] = t[1 + i - 1]
    BY ONLY <2>1, <2>2, SubSeqProperties
  <2>4. Len(SubSeq(t, 1, n)) = n /\ \A i \in 1..n : SubSeq(t, 1, n)[i] = first[i]
    BY ONLY <2>1, <2>2, <2>3
  <2> QED BY ONLY <1>4, <2>3, <2>4, SeqEqual
<1>6. Line(lines) = FlattenSeq(first)
  BY DEF Line, n
<1>7. Line(lines) \in Seq(Tokens)
  <2> HIDE DEF first
  <2> QED BY <1>4, <1>6, FlattenType
<1>8. SubSeq(lines, n + 1, N) \in Seq(Lines)
  <2>1. \A k \in (n + 1)..N : lines[k] \in Lines
    BY <1>1
  <2>2. n + 1 \in Int /\ N \in Int
    BY <1>1
  <2> QED BY ONLY <2>1, <2>2, SubSeqProperties
<1> HIDE DEF first, t
<1> QED BY <1>3, <1>5, <1>6, <1>7, <1>8 DEF n, t

-----------------------------------------------------------------------------
(* The type of the state, and what the last call was replaced by.          *)

\* What preprocess_content leaves of a call.
Expanded(call) ==
  IF FindMacro(call) = 0 THEN [call |-> call, macro |-> NoMacro, code |-> <<>>]
  ELSE [call |-> call, macro |-> macros[FindMacro(call)],
        code |-> CreateCode(macros[FindMacro(call)], call.args)]

LoadingType == files \in FileSets /\ loading \in Seq(Seq(Lines)) /\ opened \in 0..MaxOpen
MacrosType  == macros \in Seq(Macros)
TooManyTokens == macros # <<>> /\ Len(Head(macros).token) > 2 * ArgcMax + 1
LastCall    == pc = "ready" /\ \E call \in Calls : expanded = Expanded(call)

MacroInv ==
  /\ LoadingType /\ MacrosType
  /\ pc = "overflow" => TooManyTokens
  /\ expanded # NoMacro => LastCall

LEMMA FilesType ==
  ASSUME files \in FileSets, NEW name \in DOMAIN files
  PROVE  files[name] \in Seq(Lines)
BY TextAssumption

LEMMA OpenType ==
  ASSUME LoadingType, NEW stack \in Seq(Seq(Lines)), NEW name, Open(stack, name)
  PROVE  loading' \in Seq(Seq(Lines)) /\ opened' \in 0..MaxOpen
<1>1. CASE name \in DOMAIN files /\ opened < MaxOpen
  <2>1. loading' = Append(stack, files[name]) /\ opened' = opened + 1
    BY <1>1 DEF Open
  <2>2. files[name] \in Seq(Lines)
    BY <1>1, FilesType DEF LoadingType
  <2>3. opened' \in 0..MaxOpen
    BY <1>1, <2>1, MacroLimits DEF LoadingType
  <2>4. Append(stack, files[name]) \in Seq(Seq(Lines))
    <3> DEFINE f == files[name]
               F == Seq(Lines)
    <3> HIDE DEF f, F
    <3>1. f \in F /\ stack \in Seq(F)
      BY <2>2 DEF f, F
    <3>2. Append(stack, f) \in Seq(F)
      BY ONLY <3>1
    <3> QED BY <3>2 DEF f, F
  <2> QED BY <2>1, <2>3, <2>4
<1>2. CASE ~(name \in DOMAIN files /\ opened < MaxOpen)
  BY <1>2 DEF Open, LoadingType
<1> QED BY <1>1, <1>2

\* The frames below the one that reads a line.
Below == Front(loading)

LEMMA FramesType ==
  ASSUME LoadingType, loading # <<>>
  PROVE  /\ Last(loading) \in Seq(Lines) /\ Len(loading) \in Nat \ {0}
         /\ Below \in Seq(Seq(Lines)) /\ Len(Below) = Len(loading) - 1
         /\ \A i \in 1..(Len(loading) - 1) : Below[i] = loading[i]
         /\ \A rest \in Seq(Lines) : Frames(rest) \in Seq(Seq(Lines))
<1> DEFINE F == Seq(Lines)
<1>1. loading \in Seq(F) /\ Len(loading) \in Nat \ {0}
  BY DEF LoadingType
<1> HIDE DEF F
<1>2. Below = SubSeq(loading, 1, Len(loading) - 1)
  BY DEF Below, Front
<1>3. /\ Below \in Seq(F) /\ Len(Below) = Len(loading) - 1
      /\ \A i \in 1..(Len(loading) - 1) : Below[i] = loading[i]
  <2> DEFINE n == Len(loading) - 1
  <2> DEFINE L == Len(loading)
  <2>1. /\ n \in Nat /\ 1 \in Int /\ n \in Int
        /\ (IF 1 <= n THEN n - 1 + 1 ELSE 0) = n
        /\ \A i \in 1..n : 1 + i - 1 = i /\ i \in 1..L
        /\ n - 1 + 1 = n
    <3>1. L \in Nat \ {0} /\ n = L - 1
      BY <1>1
    <3> HIDE DEF n, L
    <3>2. n \in Nat /\ \A i \in 1..n : i \in 1..L
      BY ONLY <3>1
    <3>3. n - 1 + 1 = n /\ \A i \in 1..n : 1 + i - 1 = i
      BY ONLY <3>2
    <3>4. (IF 1 <= n THEN n - 1 + 1 ELSE 0) = n
      BY ONLY <3>2
    <3> QED BY <3>2, <3>3, <3>4
  <2>2. \A i \in 1..n : loading[i] \in F
    <3> HIDE DEF n
    <3> QED BY <1>1, <2>1
  <2> HIDE DEF n
  <2>3. /\ SubSeq(loading, 1, n) \in Seq(F)
        /\ Len(SubSeq(loading, 1, n)) = IF 1 <= n THEN n - 1 + 1 ELSE 0
        /\ \A i \in 1..(n - 1 + 1) : SubSeq(loading, 1, n)[i] = loading[1 + i - 1]
    BY ONLY <2>1, <2>2, SubSeqProperties
  <2>4. Below = SubSeq(loading, 1, n)
    BY <1>2 DEF n
  <2>5. Below \in Seq(F) /\ Len(Below) = n /\ \A i \in 1..n : Below[i] = loading[i]
    BY ONLY <2>1, <2>3, <2>4
  <2> QED BY <2>5 DEF n
<1>4. Last(loading) \in F
  BY <1>1 DEF Last
<1>5. \A rest \in F : Frames(rest) \in Seq(F)
  <2>1. \A rest : Frames(rest) = Append(Below, rest)
    BY DEF Frames, Below
  <2> HIDE DEF Below
  <2> QED BY <1>3, <2>1
<1> QED BY <1>1, <1>3, <1>4, <1>5 DEF F

LEMMA ReadLineType ==
  ASSUME NEW lines \in Seq(Lines), lines # <<>>
  PROVE  /\ Line(lines) \in Seq(Tokens)
         /\ SubSeq(lines, LineEnd(lines) + 1, Len(lines)) \in Seq(Lines)
BY LineIsFlat

LEMMA TailType ==
  ASSUME NEW toks \in Seq(Tokens), toks # <<>> PROVE Tail(toks) \in Seq(Tokens)
OBVIOUS

\* What a definition adds.
LEMMA DefineAdds ==
  ASSUME NEW toks \in Seq(Tokens), toks # <<>>, NEW rest, Define(toks, rest)
  PROVE  \/ Parsed(Tail(toks)) = {} /\ UNCHANGED <<macros, pc>>
         \/ \E m \in Macros :
              /\ Parsed(Tail(toks)) = {m} /\ macros' = <<m>> \o macros
              /\ pc' = IF Len(m.token) > 2 * ArgcMax + 1 THEN "overflow" ELSE pc
<1> DEFINE made == Parsed(Tail(toks))
<1>1. made = {} \/ \E m \in Macros : made = {m}
  BY TailType, ParsedType
<1>2. IF made = {} THEN UNCHANGED <<macros, pc>>
      ELSE \E m \in made : /\ MacroAdd(m)
                           /\ pc' = IF Len(m.token) > 2 * ArgcMax + 1 THEN "overflow" ELSE pc
  BY DEF Define
<1> HIDE DEF made
<1>3. made # {} => \E m \in Macros : /\ made = {m} /\ macros' = <<m>> \o macros
              /\ pc' = IF Len(m.token) > 2 * ArgcMax + 1 THEN "overflow" ELSE pc
  BY <1>1, <1>2 DEF MacroAdd
<1> QED BY <1>2, <1>3 DEF made

LEMMA MacrosGrow ==
  ASSUME MacrosType, NEW m \in Macros
  PROVE  <<m>> \o macros \in Seq(Macros) /\ <<m>> \o macros # <<>> /\ Head(<<m>> \o macros) = m
<1> DEFINE M == Macros
           s == <<m>> \o macros
<1>1. <<m>> \in Seq(M) /\ macros \in Seq(M) /\ Len(<<m>>) = 1 /\ Len(macros) \in Nat
      /\ <<m>>[1] = m
  BY DEF MacrosType
<1> HIDE DEF M
<1>2. s \in Seq(M) /\ Len(s) = 1 + Len(macros) /\ s[1] = <<m>>[1]
  <2>1. 1 \in 1..(Len(<<m>>) + Len(macros)) /\ 1 <= Len(<<m>>)
    BY <1>1
  <2>2. /\ s \in Seq(M) /\ Len(s) = Len(<<m>>) + Len(macros)
        /\ \A i \in 1..(Len(<<m>>) + Len(macros)) :
             s[i] = IF i <= Len(<<m>>) THEN <<m>>[i] ELSE macros[i - Len(<<m>>)]
    BY ONLY <1>1, ConcatProperties
  <2> HIDE DEF s
  <2> QED BY ONLY <1>1, <2>1, <2>2
<1>3. s # <<>> /\ Head(s) = m
  <2> HIDE DEF s
  <2>1. Len(s) # 0
    BY <1>1, <1>2
  <2> QED BY <1>1, <1>2, <2>1
<1> QED BY <1>2, <1>3 DEF M

LEMMA ExpandedStays ==
  ASSUME UNCHANGED macros, NEW call \in Calls PROVE Expanded(call)' = Expanded(call)
<1>1. FindMacro(call)' = FindMacro(call)
  BY DEF FindMacro, SelectInSeq
<1> QED BY <1>1 DEF Expanded

LEMMA InitMacroInv == Init => MacroInv
<1> SUFFICES ASSUME Init PROVE MacroInv
  OBVIOUS
<1>1. loading = <<>> /\ macros = <<>> /\ files \in FileSets /\ opened = 0 /\ pc = "off"
      /\ expanded = NoMacro
  BY DEF Init
<1>2. <<>> \in Seq(Seq(Lines)) /\ <<>> \in Seq(Macros) /\ 0 \in 0..MaxOpen
  BY MacroLimits
<1> QED BY <1>1, <1>2 DEF MacroInv, LoadingType, MacrosType

LEMMA ConfParseInv ==
  ASSUME LoadingType, MacrosType, pc = "loading", loading # <<>>, UNCHANGED files,
         NEW toks \in Seq(Tokens), NEW rest \in Seq(Lines), ConfParse(toks, rest)
  PROVE  /\ LoadingType' /\ MacrosType' /\ (pc' = "overflow" => TooManyTokens')
         /\ pc' \in {"loading", "overflow"}
<1>1. Frames(rest) \in Seq(Seq(Lines))
  BY FramesType
<1>2. CASE Ignored(toks)
  <2>1. loading' = Frames(rest) /\ UNCHANGED <<opened, macros, pc>>
    BY <1>2 DEF ConfParse
  <2> QED BY <1>1, <2>1 DEF LoadingType, MacrosType
<1>3. CASE ~Ignored(toks) /\ Include(toks, rest)
  <2>1. UNCHANGED <<macros, pc>>
    BY <1>3 DEF Include
  <2>2. Open(Frames(rest), toks[2].word) \/ (loading' = Frames(rest) /\ UNCHANGED opened)
    BY <1>3 DEF Include
  <2>3. loading' \in Seq(Seq(Lines)) /\ opened' \in 0..MaxOpen
    <3>1. CASE Open(Frames(rest), toks[2].word)
      BY <1>1, <3>1, OpenType
    <3>2. CASE loading' = Frames(rest) /\ UNCHANGED opened
      BY <1>1, <3>2 DEF LoadingType
    <3> QED BY <2>2, <3>1, <3>2
  <2> QED BY <2>1, <2>3 DEF LoadingType, MacrosType
<1>4. CASE ~Ignored(toks) /\ Define(toks, rest)
  <2>1. loading' = Frames(rest) /\ UNCHANGED opened
    BY <1>4 DEF Define
  <2>2. LoadingType'
    BY <1>1, <2>1 DEF LoadingType
  <2>3. toks # <<>>
    BY <1>4 DEF Ignored
  <2>4. CASE Parsed(Tail(toks)) = {} /\ UNCHANGED <<macros, pc>>
    BY <2>2, <2>4 DEF MacrosType
  <2>5. ASSUME NEW m \in Macros, macros' = <<m>> \o macros,
               pc' = IF Len(m.token) > 2 * ArgcMax + 1 THEN "overflow" ELSE pc
        PROVE  MacrosType' /\ (pc' = "overflow" => TooManyTokens') /\ pc' \in {"loading", "overflow"}
    <3>1. macros' \in Seq(Macros) /\ macros' # <<>> /\ Head(macros') = m
      BY <2>5, MacrosGrow
    <3> QED BY <2>5, <3>1 DEF MacrosType, TooManyTokens
  <2> QED BY <1>4, <2>2, <2>3, <2>4, <2>5, DefineAdds
<1> QED BY <1>2, <1>3, <1>4 DEF ConfParse

LEMMA MacroStep == MacroInv /\ [Next]_vars => MacroInv'
<1> SUFFICES ASSUME MacroInv, [Next]_vars PROVE MacroInv'
  OBVIOUS
<1> USE DEF MacroInv
<1>1. CASE LreMacroInit
  <2>1. pc = "off" /\ pc' = "loading" /\ Open(<<>>, Global) /\ UNCHANGED <<files, macros, expanded>>
    BY <1>1 DEF LreMacroInit
  <2>2. <<>> \in Seq(Seq(Lines))
    OBVIOUS
  <2>3. loading' \in Seq(Seq(Lines)) /\ opened' \in 0..MaxOpen
    BY <2>1, <2>2, OpenType
  <2>4. expanded = NoMacro
    BY <2>1 DEF LastCall
  <2> QED BY <2>1, <2>3, <2>4 DEF LoadingType, MacrosType
<1>2. CASE ConfLoadLine
  <2> DEFINE lines == Last(loading)
  <2>1. /\ pc = "loading" /\ loading # <<>> /\ lines # <<>> /\ UNCHANGED <<files, expanded>>
        /\ ConfParse(Line(lines), SubSeq(lines, LineEnd(lines) + 1, Len(lines)))
    BY <1>2 DEF ConfLoadLine
  <2>2. lines \in Seq(Lines)
    BY <2>1, FramesType
  <2> HIDE DEF lines
  <2>3. Line(lines) \in Seq(Tokens) /\ SubSeq(lines, LineEnd(lines) + 1, Len(lines)) \in Seq(Lines)
    BY <2>1, <2>2, ReadLineType
  <2>4. LoadingType' /\ MacrosType' /\ (pc' = "overflow" => TooManyTokens')
    BY <2>1, <2>3, ConfParseInv
  <2>5. expanded = NoMacro /\ expanded' = NoMacro
    BY <2>1 DEF LastCall
  <2> QED BY <2>4, <2>5
<1>3. CASE ConfLoadEnd
  <2>1. /\ pc = "loading" /\ UNCHANGED <<files, opened, macros, expanded>>
        /\ \/ loading = <<>> /\ pc' = "ready" /\ UNCHANGED loading
           \/ loading # <<>> /\ loading' = Below /\ UNCHANGED pc
    BY <1>3 DEF ConfLoadEnd, Below
  <2>2. loading' \in Seq(Seq(Lines))
    <3>1. CASE loading = <<>> /\ UNCHANGED loading
      BY <3>1 DEF LoadingType
    <3>2. CASE loading # <<>> /\ loading' = Below
      BY <3>2, FramesType
    <3> QED BY <2>1, <3>1, <3>2
  <2>3. expanded = NoMacro /\ pc' # "overflow"
    BY <2>1 DEF LastCall
  <2> QED BY <2>1, <2>2, <2>3 DEF LoadingType, MacrosType
<1>4. ASSUME NEW call \in Calls, PreprocessContent(call) PROVE MacroInv'
  <2>1. pc = "ready" /\ expanded' = Expanded(call) /\ UNCHANGED <<files, loading, opened, macros, pc>>
    BY <1>4 DEF PreprocessContent, Expanded
  <2>2. Expanded(call)' = Expanded(call)
    BY <2>1, ExpandedStays
  <2> QED BY <2>1, <2>2 DEF LoadingType, MacrosType, LastCall
<1>5. CASE UNCHANGED vars
  <2>1. UNCHANGED <<files, loading, opened, macros, pc, expanded>>
    BY <1>5 DEF vars
  <2>2. ASSUME NEW call \in Calls PROVE Expanded(call)' = Expanded(call)
    BY <2>1, ExpandedStays
  <2>3. LoadingType' /\ MacrosType' /\ (pc' = "overflow" => TooManyTokens')
    BY <2>1 DEF LoadingType, MacrosType, TooManyTokens
  <2>4. expanded' # NoMacro => LastCall'
    BY <2>1, <2>2 DEF LastCall
  <2> QED BY <2>3, <2>4
<1> QED BY <1>1, <1>2, <1>3, <1>4, <1>5 DEF Next, LoadStep

LEMMA MacroInvariant == Spec => []MacroInv
BY InitMacroInv, MacroStep, PTL DEF Spec

LEMMA MacrosNamed ==
  ASSUME NEW m \in Macros
  PROVE  /\ Named(m.params, Characters) /\ Len(m.params) \in 0..ArgcMax
         /\ m.body \in Seq(Characters) /\ m.token = Content2Token(m.body, m.params)
<1>1. PICK name \in Seq(Characters), params \in ParamLists, body \in Seq(Characters) :
        m = MacroOf(name, params, body)
  BY DEF Macros
<1>2. m.params = params /\ m.body = body /\ m.token = Content2Token(body, params)
  BY <1>1 DEF MacroOf
<1>3. Named(params, Characters) /\ Len(params) <= ArgcMax /\ params \in Seq(Seq(Characters))
  BY DEF ParamLists
<1>4. Len(params) \in Nat
  BY <1>3
<1>5. Len(params) \in 0..ArgcMax
  <2> DEFINE n == Len(params)
  <2> HIDE DEF n
  <2>1. n \in 0..ArgcMax
    BY <1>3, <1>4, MacroLimits DEF n
  <2> QED BY <2>1 DEF n
<1> QED BY <1>2, <1>3, <1>5

\* The array that lre_macro_content2token writes its tokens to, which has room for a
\* list with every parameter once, is left only by a macro in whose body the name of a
\* parameter is spelt at two places (macro.c).
THEOREM OverflowNeedsRepeatedName == Spec => []OverflowNeedsRepetition
<1>1. MacroInv => OverflowNeedsRepetition
  <2> SUFFICES ASSUME MacroInv, pc = "overflow"
               PROVE  LET m == Head(macros)
                      IN  \E i \in DOMAIN m.params : \E x, y \in DOMAIN m.body :
                            x # y /\ Spells(m.body, x, m.params[i]) /\ Spells(m.body, y, m.params[i])
    BY DEF OverflowNeedsRepetition
  <2> DEFINE m == Head(macros)
  <2>1. m \in Macros /\ Len(m.token) > 2 * ArgcMax + 1
    BY DEF MacroInv, MacrosType, TooManyTokens
  <2> HIDE DEF m
  <2>2. /\ Named(m.params, Characters) /\ Len(m.params) \in 0..ArgcMax
        /\ m.body \in Seq(Characters) /\ m.token = Content2Token(m.body, m.params)
    BY <2>1, MacrosNamed
  <2>3. Len(m.token) > 2 * Len(m.params) + 1
    <3> DEFINE n == Len(m.params)
               t == Len(m.token)
    <3>1. n \in 0..ArgcMax /\ t > 2 * ArgcMax + 1
      BY <2>1, <2>2
    <3>2. t \in Nat
      <4>1. m.token \in Seq(Piece(m.params, Characters))
        BY <2>2, TokensType
      <4> HIDE DEF n
      <4> QED BY <4>1
    <3> HIDE DEF n, t
    <3>3. t > 2 * n + 1
      BY <3>1, <3>2, MacroLimits
    <3> QED BY <3>3 DEF n, t
  <2>4. \E i \in DOMAIN m.params : \E x, y \in DOMAIN m.body :
          x # y /\ Spells(m.body, x, m.params[i]) /\ Spells(m.body, y, m.params[i])
    <3> DEFINE params == m.params
               body == m.body
    <3>1. body \in Seq(Characters) /\ Named(params, Characters)
          /\ Len(Content2Token(body, params)) > 2 * Len(params) + 1
      BY <2>2, <2>3
    <3> HIDE DEF params, body
    <3>2. \E i \in DOMAIN params : \E x, y \in DOMAIN body :
            x # y /\ Spells(body, x, params[i]) /\ Spells(body, y, params[i])
      BY <3>1, ManyTokensRepeat
    <3> QED BY <3>2 DEF params, body
  <2> QED BY <2>4 DEF m
<1> QED BY <1>1, MacroInvariant, PTL

\* The macro that a call was given is one of those that were read, and has one
\* parameter for each argument.
LEMMA CallFits ==
  ASSUME MacroInv, expanded # NoMacro, expanded.macro # NoMacro
  PROVE  /\ expanded.call \in Calls /\ expanded.macro \in Macros
         /\ Len(expanded.macro.params) = Len(expanded.call.args)
         /\ expanded.code = CreateCode(expanded.macro, expanded.call.args)
<1>1. PICK call \in Calls : expanded = Expanded(call)
  BY DEF MacroInv, LastCall
<1> DEFINE k == FindMacro(call)
           fits == {i \in 1..Len(macros) : macros[i].name = call.name
                                           /\ Len(macros[i].params) = Len(call.args)}
<1>2. k # 0
  BY <1>1 DEF Expanded
<1>3. expanded.call = call /\ expanded.macro = macros[k]
      /\ expanded.code = CreateCode(macros[k], call.args)
  <2> HIDE DEF k
  <2>1. expanded = [call |-> call, macro |-> macros[k], code |-> CreateCode(macros[k], call.args)]
    BY <1>1, <1>2 DEF Expanded, k
  <2> QED BY <2>1
<1>4. k = IF fits # {} THEN Min(fits) ELSE 0
  BY DEF FindMacro, SelectInSeq
<1>5. k \in fits
  <2>1. fits # {} /\ k = Min(fits)
    <3> HIDE DEF k, fits
    <3> QED BY <1>2, <1>4
  <2>2. fits \in SUBSET Nat
    OBVIOUS
  <2> HIDE DEF k, fits
  <2> QED BY <2>1, <2>2, MinIsLeast
<1>6. k \in 1..Len(macros) /\ Len(macros[k].params) = Len(call.args)
  <2> HIDE DEF k
  <2> QED BY <1>5
<1>7. macros[k] \in Macros
  <2> HIDE DEF k
  <2> QED BY <1>6 DEF MacroInv, MacrosType
<1> HIDE DEF k, fits
<1> QED BY <1>3, <1>6, <1>7

LEMMA NamedMore ==
  ASSUME NEW S, NEW T, S \subseteq T, NEW params, Named(params, S)
  PROVE  Named(params, T)
<1>1. Seq(S) \subseteq Seq(T)
  BY SeqMonotonic
<1>2. params \in Seq(Seq(T))
  <2> DEFINE A == Seq(S)
             B == Seq(T)
  <2>1. params \in Seq(A) /\ A \subseteq B
    BY <1>1 DEF Named
  <2> HIDE DEF A, B
  <2>2. params \in Seq(B)
    BY <2>1, SeqMonotonic
  <2> QED BY <2>2 DEF B
<1> QED BY <1>2 DEF Named

\* A call is replaced by the body of its macro with the arguments in place of the
\* parameters, or by as much of that as the buffer holds, when the names of the
\* parameters are not misleading in the body (preprocess_content, macro.c).
THEOREM CallsAreSubstituted == Spec => []ExpansionsAreSubstitutions
<1>1. MacroInv => ExpansionsAreSubstitutions
  <2> DEFINE m == expanded.macro
             args == expanded.call.args
             code == Substituted(m.body, m.params, args)
             S == Characters \cup ArgCharacters
             Cut(text) == SubSeq(text, 1, IF Len(text) < CodeMax THEN Len(text) ELSE CodeMax - 1)
  <2> SUFFICES ASSUME MacroInv, expanded # NoMacro, m # NoMacro, ~Misleading(m.body, m.params)
               PROVE  expanded.code = Cut(code)
    BY DEF ExpansionsAreSubstitutions
  <2>1. /\ expanded.call \in Calls /\ m \in Macros /\ Len(m.params) = Len(args)
        /\ expanded.code = CreateCode(m, args)
    BY CallFits
  <2>2. args \in Seq(Seq(ArgCharacters))
    BY <2>1, CallsAssumption
  <2>3. /\ Named(m.params, Characters) /\ m.body \in Seq(Characters)
        /\ m.token = Content2Token(m.body, m.params)
    <3> HIDE DEF m
    <3> QED BY <2>1, MacrosNamed
  <2>4. Characters \subseteq S /\ ArgCharacters \subseteq S
    OBVIOUS
  <2> HIDE DEF m, args, S
  <2>5. Named(m.params, S)
    BY <2>3, <2>4, NamedMore
  <2>6. m.body \in Seq(S)
    BY <2>3, <2>4, SeqMonotonic
  <2>7. Fitting(args, m.params, S)
    <3>1. Seq(ArgCharacters) \subseteq Seq(S)
      BY <2>4, SeqMonotonic
    <3> DEFINE A == Seq(ArgCharacters)
               B == Seq(S)
    <3>2. args \in Seq(A) /\ A \subseteq B
      BY <2>2, <3>1
    <3> HIDE DEF A, B
    <3>3. args \in Seq(B)
      BY <3>2, SeqMonotonic
    <3> QED BY <2>1, <3>3 DEF Fitting, B
  <2>8. Code(m.token, args) = code
    <3> DEFINE params == m.params
               body == m.body
    <3>1. body \in Seq(S) /\ Named(params, S) /\ Fitting(args, params, S) /\ ~Misleading(body, params)
      BY <2>5, <2>6, <2>7
    <3> HIDE DEF params, body
    <3>2. Code(Content2Token(body, params), args) = Substituted(body, params, args)
      BY <3>1, TokensSubstitute
    <3> QED BY <2>3, <3>2 DEF params, body
  <2>9. CreateCode(m, args) = Cut(Code(m.token, args))
    BY DEF CreateCode, Code, Written
  <2> QED BY <2>1, <2>8, <2>9
<1> QED BY <1>1, MacroInvariant, PTL

-----------------------------------------------------------------------------
(* Lines that continue each other.                                         *)

LEMMA ConsFacts ==
  ASSUME NEW S, NEW x \in S, NEW t \in Seq(S)
  PROVE  /\ <<x>> \o t \in Seq(S) /\ <<x>> \o t # <<>> /\ Len(<<x>> \o t) = Len(t) + 1
         /\ (<<x>> \o t)[1] = x /\ \A i \in 1..Len(t) : (<<x>> \o t)[i + 1] = t[i]
         /\ Head(<<x>> \o t) = x /\ Tail(<<x>> \o t) = t
<1> DEFINE s == <<x>> \o t
           n == Len(t)
<1>1. <<x>> \in Seq(S) /\ Len(<<x>>) = 1 /\ <<x>>[1] = x /\ n \in Nat
  OBVIOUS
<1>2. /\ s \in Seq(S) /\ Len(s) = Len(<<x>>) + Len(t)
      /\ \A i \in 1..(Len(<<x>>) + Len(t)) :
           s[i] = IF i <= Len(<<x>>) THEN <<x>>[i] ELSE t[i - Len(<<x>>)]
  BY ONLY <1>1, t \in Seq(S), ConcatProperties
<1> HIDE DEF s
<1>3. Len(s) = n + 1 /\ \A i \in 1..(n + 1) : s[i] = IF i <= 1 THEN x ELSE t[i - 1]
  <2> HIDE DEF n
  <2>1. Len(s) = 1 + n /\ \A i \in 1..(1 + n) : s[i] = IF i <= 1 THEN <<x>>[i] ELSE t[i - 1]
    BY ONLY <1>1, <1>2 DEF n
  <2>2. 1 + n = n + 1
    BY ONLY <1>1
  <2>3. \A i \in 1..(n + 1) : i <= 1 => i = 1
    BY ONLY <1>1
  <2> QED BY ONLY <1>1, <2>1, <2>2, <2>3
<1>4. s[1] = x
  <2> HIDE DEF n
  <2>1. 1 \in 1..(n + 1) /\ 1 <= 1
    BY ONLY <1>1
  <2> QED BY ONLY <1>3, <2>1
<1>5. \A i \in 1..n : s[i + 1] = t[i]
  <2> HIDE DEF n
  <2>1. \A i \in 1..n : i + 1 \in 1..(n + 1) /\ ~(i + 1 <= 1) /\ (i + 1) - 1 = i
    BY ONLY <1>1
  <2> QED BY ONLY <1>3, <2>1
<1>6. s # <<>>
  <2> HIDE DEF n
  <2>1. n + 1 # 0 /\ Len(<<>>) = 0
    BY ONLY <1>1
  <2> QED BY ONLY <1>3, <2>1
<1>7. Head(s) = x
  BY <1>2, <1>4, <1>6
<1>8. Tail(s) = t
  <2>1. /\ Tail(s) \in Seq(S) /\ Len(Tail(s)) = Len(s) - 1
        /\ \A i \in 1..Len(Tail(s)) : Tail(s)[i] = s[i + 1]
    BY ONLY <1>2, <1>6, HeadTailProperties
  <2>2. Len(Tail(s)) = n
    <3> HIDE DEF n
    <3>1. (n + 1) - 1 = n
      BY ONLY <1>1
    <3> QED BY ONLY <1>3, <2>1, <3>1
  <2>3. \A i \in 1..n : Tail(s)[i] = t[i]
    <3> HIDE DEF n
    <3> QED BY ONLY <1>5, <2>1, <2>2
  <2> QED BY ONLY <2>1, <2>2, <2>3, t \in Seq(S), SeqEqual DEF n
<1> QED BY <1>2, <1>3, <1>4, <1>5, <1>6, <1>7, <1>8 DEF s

LEMMA SubSeqCons ==
  ASSUME NEW S, NEW s \in Seq(S), NEW a \in 1..Len(s), NEW e \in a..Len(s)
  PROVE  SubSeq(s, a, e) \in Seq(S) /\ SubSeq(s, a + 1, e) \in Seq(S)
         /\ SubSeq(s, a, e) = <<s[a]>> \o SubSeq(s, a + 1, e)
<1> DEFINE t == SubSeq(s, a + 1, e)
           u == SubSeq(s, a, e)
           v == <<s[a]>> \o t
           N == Len(s)
<1>1. N \in Nat /\ a \in Nat /\ e \in Nat /\ 1 <= a /\ a <= e /\ e <= N
  OBVIOUS
<1>2. \A i \in 1..N : s[i] \in S
  OBVIOUS
<1> HIDE DEF N
<1>3. /\ a \in Int /\ e \in Int /\ a + 1 \in Int /\ a \in 1..N
      /\ (\A i \in a..e : i \in 1..N) /\ \A i \in (a + 1)..e : i \in 1..N
  BY ONLY <1>1
<1>4. (\A i \in a..e : s[i] \in S) /\ \A i \in (a + 1)..e : s[i] \in S
  BY ONLY <1>2, <1>3
<1>5. /\ u \in Seq(S) /\ Len(u) = IF a <= e THEN e - a + 1 ELSE 0
      /\ \A i \in 1..(e - a + 1) : u[i] = s[a + i - 1]
  BY ONLY <1>3, <1>4, SubSeqProperties
<1>6. /\ t \in Seq(S) /\ Len(t) = IF a + 1 <= e THEN e - (a + 1) + 1 ELSE 0
      /\ \A i \in 1..(e - (a + 1) + 1) : t[i] = s[(a + 1) + i - 1]
  BY ONLY <1>3, <1>4, SubSeqProperties
<1>7. s[a] \in S
  BY <1>2, <1>3
<1> HIDE DEF t, u
<1>8. /\ v \in Seq(S) /\ Len(v) = Len(t) + 1
      /\ v[1] = s[a] /\ \A i \in 1..Len(t) : v[i + 1] = t[i]
  BY ONLY <1>6, <1>7, ConsFacts
<1> HIDE DEF v
<1> DEFINE n == e - a
<1>9. n \in Nat /\ e - a + 1 = n + 1 /\ e - (a + 1) + 1 = n
  BY ONLY <1>1
<1>10. Len(u) = n + 1 /\ Len(t) = n
  BY ONLY <1>1, <1>5, <1>6, <1>9
<1>11. \A i \in 1..(n + 1) : u[i] = v[i]
  <2>1. u[1] = v[1]
    <3>1. 1 \in 1..(e - a + 1) /\ a + 1 - 1 = a
      BY ONLY <1>1
    <3> QED BY ONLY <1>5, <1>8, <3>1
  <2>2. ASSUME NEW i \in 1..n PROVE u[i + 1] = v[i + 1]
    <3>1. i + 1 \in 1..(e - a + 1) /\ a + (i + 1) - 1 = (a + 1) + i - 1
          /\ i \in 1..(e - (a + 1) + 1)
      BY <1>1
    <3>2. i \in 1..Len(t)
      BY ONLY <1>10, i \in 1..n
    <3> QED BY ONLY <1>5, <1>6, <1>8, <3>1, <3>2
  <2>3. \A i \in 1..(n + 1) : i = 1 \/ (i - 1 \in 1..n /\ (i - 1) + 1 = i)
    BY ONLY <1>9
  <2> HIDE DEF n
  <2>4. \A i \in 1..n : u[i + 1] = v[i + 1]
    BY <2>2
  <2> QED BY ONLY <2>1, <2>3, <2>4
<1>12. Len(v) = n + 1
  BY ONLY <1>8, <1>10
<1>13. u = v
  <2> HIDE DEF n
  <2> QED BY ONLY <1>5, <1>8, <1>10, <1>11, <1>12, SeqEqual
<1> QED BY <1>5, <1>6, <1>13 DEF t, u, v

LEMMA FlattenCons ==
  ASSUME NEW S, NEW x \in Seq(S), NEW t \in Seq(Seq(S))
  PROVE  FlattenSeq(<<x>> \o t) = x \o FlattenSeq(t)
<1>1. <<x>> \in Seq(Seq(S))
  OBVIOUS
<1> DEFINE r == <<x>>
<1>2. FlattenSeq(r) = x
  BY FlattenOne
<1>3. r \in Seq(Seq(S))
  BY <1>1
<1> HIDE DEF r
<1>4. FlattenSeq(r \o t) = FlattenSeq(r) \o FlattenSeq(t)
  BY <1>3, FlattenConcat
<1> QED BY <1>2, <1>4 DEF r

LEMMA JoinLineCases ==
  ASSUME NEW line \in Lines, NEW x \in Seq(Tokens), NEW t \in Seq(Seq(Tokens))
  PROVE  JoinLine(line, <<x>> \o t) = IF line.cont THEN <<line.toks \o x>> \o t
                                      ELSE <<line.toks>> \o (<<x>> \o t)
<1> DEFINE s == <<x>> \o t
<1>1. Head(s) = x /\ Tail(s) = t
  <2> DEFINE W == Seq(Tokens)
  <2> HIDE DEF W
  <2>1. x \in W /\ t \in Seq(W)
    BY DEF W
  <2> QED BY ONLY <2>1, ConsFacts
<1> HIDE DEF s
<1>2. JoinLine(line, s) = IF line.cont THEN <<line.toks \o x>> \o t ELSE <<line.toks>> \o s
  BY <1>1 DEF JoinLine
<1> QED BY <1>2 DEF s

\* A logical line, and those after it.
Joined == Seq(Seq(Tokens)) \ {<<>>}

LEMMA JoinedCons ==
  ASSUME NEW s \in Joined
  PROVE  \E x \in Seq(Tokens), t \in Seq(Seq(Tokens)) : s = <<x>> \o t
<1> DEFINE W == Seq(Tokens)
           x == Head(s)
           t == Tail(s)
<1>1. s \in Seq(W) /\ s # <<>>
  BY DEF Joined
<1> HIDE DEF W
<1>2. x \in W /\ t \in Seq(W) /\ x = s[1]
  BY <1>1
<1> HIDE DEF x, t
<1>3. s = <<x>> \o t
  <2> DEFINE v == <<x>> \o t
             n == Len(t)
  <2>1. /\ v \in Seq(W) /\ Len(v) = n + 1 /\ v[1] = x
        /\ \A i \in 1..n : v[i + 1] = t[i]
    BY ONLY <1>2, ConsFacts
  <2>2. /\ Len(t) = Len(s) - 1 /\ \A i \in 1..Len(t) : t[i] = s[i + 1]
    BY ONLY <1>1, HeadTailProperties DEF t
  <2>3. n \in Nat /\ Len(s) \in Nat
    BY ONLY <1>1, <1>2
  <2> HIDE DEF v, n
  <2>4. Len(s) = n + 1
    BY ONLY <2>2, <2>3 DEF n
  <2>5. \A i \in 1..(n + 1) : i = 1 \/ (i - 1 \in 1..n /\ (i - 1) + 1 = i)
    BY ONLY <2>3
  <2>6. \A i \in 1..n : t[i] = s[i + 1]
    BY ONLY <2>2 DEF n
  <2>7. \A i \in 1..(n + 1) : v[i] = s[i]
    BY ONLY <1>2, <2>1, <2>5, <2>6
  <2>8. v = s
    BY ONLY <1>1, <2>1, <2>4, <2>7, SeqEqual
  <2> QED BY <2>8 DEF v
<1> QED BY <1>2, <1>3 DEF W

LEMMA JoinLineType ==
  ASSUME NEW line \in Lines, NEW s \in Joined PROVE JoinLine(line, s) \in Joined
<1>1. PICK x \in Seq(Tokens), t \in Seq(Seq(Tokens)) : s = <<x>> \o t
  BY JoinedCons
<1>2. JoinLine(line, s) = IF line.cont THEN <<line.toks \o x>> \o t ELSE <<line.toks>> \o s
  BY <1>1, JoinLineCases
<1> DEFINE W == Seq(Tokens)
           z == line.toks
           y == z \o x
<1>3. y \in W /\ z \in W
  <2>1. z \in Seq(Tokens)
    BY LineType
  <2> HIDE DEF z
  <2> QED BY <2>1
<1>4. t \in Seq(W) /\ s \in Seq(W)
  BY DEF Joined
<1> HIDE DEF W, y, z
<1>5. <<y>> \o t \in Seq(W) /\ <<y>> \o t # <<>> /\ <<z>> \o s \in Seq(W) /\ <<z>> \o s # <<>>
  BY ONLY <1>3, <1>4, ConsFacts
<1> QED BY <1>2, <1>5 DEF W, y, z, Joined

\* The recursion of LogicalLines: what the last k lines are joined to.
Joining(g, lines) ==
  /\ g \in [0..Len(lines) -> Joined]
  /\ g[0] = << <<>> >>
  /\ \A k \in 1..Len(lines) : g[k] = JoinLine(lines[Len(lines) + 1 - k], g[k - 1])

LEMMA LogicalScan ==
  ASSUME NEW lines \in Seq(Lines)
  PROVE  \E g : Joining(g, lines) /\ LogicalLines(lines) = g[Len(lines)]
<1> DEFINE N == Len(lines)
           V == Joined
           start == << <<>> >>
           step == [k \in 1..N |-> [s \in V |-> JoinLine(lines[N + 1 - k], s)]]
           Body(f) == [k \in 0..N |-> IF k = 0 THEN << <<>> >>
                                      ELSE JoinLine(lines[Len(lines) + 1 - k], f[k - 1])]
           last == CHOOSE f : f = Body(f)
<1>1. N \in Nat
  OBVIOUS
<1>2. start \in V
  <2>1. <<>> \in Seq(Tokens)
    OBVIOUS
  <2> DEFINE W == Seq(Tokens)
             e == <<>>
  <2>2. e \in W
    BY <2>1
  <2> HIDE DEF W, e
  <2>3. <<e>> \in Seq(W) /\ <<e>> # <<>>
    BY ONLY <2>2
  <2> QED BY <2>3 DEF W, e, Joined
<1>3. \A k \in 1..N : lines[N + 1 - k] \in Lines
  <2>1. \A k \in 1..N : N + 1 - k \in 1..N
    BY <1>1
  <2>2. \A i \in 1..N : lines[i] \in Lines
    OBVIOUS
  <2> HIDE DEF N
  <2> QED BY <2>1, <2>2
<1>4. \A k \in 1..N : \A s \in V : JoinLine(lines[N + 1 - k], s) \in V
  <2> HIDE DEF N
  <2> QED BY <1>3, JoinLineType
<1>5. step \in [1..N -> [V -> V]]
  <2> HIDE DEF V, N
  <2> QED BY <1>4
<1>6. \A k \in 1..N : \A s \in V : step[k][s] = JoinLine(lines[N + 1 - k], s)
  OBVIOUS
<1>7. PICK f \in [0..N -> V] : Loops(f, N, start, step)
  <2> HIDE DEF N, V, start, step
  <2> QED BY <1>1, <1>2, <1>5, LoopFunction
<1>8. f = Body(f)
  <2>1. ASSUME NEW k \in 0..N, k # 0
        PROVE  step[k][f[k - 1]] = JoinLine(lines[N + 1 - k], f[k - 1])
    <3>1. k \in 1..N /\ k - 1 \in 0..N
      BY <1>1, <2>1
    <3>2. f[k - 1] \in V
      <4> HIDE DEF V, N
      <4> QED BY ONLY <1>7, <3>1
    <3> HIDE DEF V, N, step
    <3> QED BY <1>6, <3>1, <3>2
  <2>2. \A k \in 0..N : (IF k = 0 THEN start ELSE step[k][f[k - 1]]) =
          IF k = 0 THEN << <<>> >> ELSE JoinLine(lines[N + 1 - k], f[k - 1])
    <3> HIDE DEF V, N, step
    <3> QED BY <2>1
  <2>3. [n \in 0..N |-> IF n = 0 THEN start ELSE step[n][f[n - 1]]] = Body(f)
    <3> HIDE DEF V, step, start
    <3> QED BY <2>2
  <2> HIDE DEF V, N, step, start, Body
  <2> QED BY ONLY <1>7, <2>3 DEF Loops
<1>9. last = Body(last)
  <2> HIDE DEF Body
  <2> QED BY <1>8
<1>10. \A k \in 0..N : last[k] = IF k = 0 THEN << <<>> >> ELSE JoinLine(lines[N + 1 - k], last[k - 1])
  <2> HIDE DEF last
  <2> QED BY <1>9
<1>11. \A k \in 1..N : last[k] = JoinLine(lines[N + 1 - k], last[k - 1])
  <2>1. \A k \in 1..N : k \in 0..N /\ k # 0
    OBVIOUS
  <2> HIDE DEF last, N
  <2> QED BY <1>10, <2>1
<1>12. last[0] = start
  <2> HIDE DEF last
  <2> QED BY <1>1, <1>10
<1>13. \A k \in 0..N : last[k] \in V
  <2> DEFINE T == {k \in Nat : last[k] \in V}
  <2>1. 0 \in T
    BY <1>2, <1>12
  <2>2. ASSUME NEW k \in 0..(N - 1), k \in T PROVE k + 1 \in T
    <3>1. k + 1 \in 1..N /\ (k + 1) - 1 = k /\ k + 1 \in Nat
      BY <1>1
    <3> HIDE DEF last, V, N
    <3>2. last[k + 1] = JoinLine(lines[N + 1 - (k + 1)], last[k])
      BY <1>11, <3>1
    <3>3. last[k] \in V
      BY <2>2
    <3>4. JoinLine(lines[N + 1 - (k + 1)], last[k]) \in V
      BY <1>4, <3>1, <3>3
    <3> QED BY <3>1, <3>2, <3>4
  <2>3. 0..N \subseteq T
    <3> HIDE DEF T, N
    <3> QED BY <1>1, <2>1, <2>2, BoundedInduction
  <2> HIDE DEF last, V, N
  <2> QED BY <2>3
<1>14. last \in [0..N -> V]
  <2>1. last = [k \in 0..N |-> Body(last)[k]]
    <3> HIDE DEF last
    <3> QED BY <1>9
  <2> HIDE DEF last, V, N, Body
  <2> QED BY <1>13, <2>1
<1>15. LogicalLines(lines) = last[N]
  BY DEF LogicalLines
<1>16. Joining(last, lines)
  <2> HIDE DEF last
  <2> QED BY <1>11, <1>12, <1>14 DEF Joining
<1> HIDE DEF last
<1> QED BY <1>15, <1>16

\* What the last lines are joined to does not depend on the lines before.
LEMMA JoiningAgrees ==
  ASSUME NEW lines \in Seq(Lines), NEW e \in 1..Len(lines), NEW rest, NEW g, NEW h,
         rest = SubSeq(lines, e + 1, Len(lines)), Joining(g, lines), Joining(h, rest)
  PROVE  /\ rest \in Seq(Lines) /\ Len(rest) = Len(lines) - e
         /\ h[Len(lines) - e] = g[Len(lines) - e]
<1> DEFINE N == Len(lines)
           R == N - e
<1>1. N \in Nat /\ R \in Nat /\ e \in Nat /\ 1 <= e /\ e <= N /\ R + e = N
  OBVIOUS
<1>2. \A i \in 1..N : lines[i] \in Lines
  OBVIOUS
<1> HIDE DEF N, R
<1>3. /\ rest \in Seq(Lines) /\ Len(rest) = R
      /\ \A i \in 1..R : rest[i] = lines[e + i]
  <2>1. \A i \in (e + 1)..N : i \in 1..N
    BY ONLY <1>1
  <2>2. /\ e + 1 \in Int /\ N \in Int /\ (IF e + 1 <= N THEN N - (e + 1) + 1 ELSE 0) = R
        /\ N - (e + 1) + 1 = R /\ \A i \in 1..R : (e + 1) + i - 1 = e + i
    <3>1. e + 1 \in Int /\ N \in Int
      BY ONLY <1>1
    <3>2. N - (e + 1) + 1 = R /\ \A i \in 1..R : (e + 1) + i - 1 = e + i
      BY ONLY <1>1
    <3>3. (IF e + 1 <= N THEN N - (e + 1) + 1 ELSE 0) = R
      BY ONLY <1>1
    <3> QED BY ONLY <3>1, <3>2, <3>3
  <2>3. \A i \in (e + 1)..N : lines[i] \in Lines
    BY ONLY <1>2, <2>1
  <2>4. rest = SubSeq(lines, e + 1, N)
    BY DEF N
  <2>5. /\ rest \in Seq(Lines) /\ Len(rest) = IF e + 1 <= N THEN N - (e + 1) + 1 ELSE 0
        /\ \A i \in 1..(N - (e + 1) + 1) : rest[i] = lines[(e + 1) + i - 1]
    BY ONLY <2>2, <2>3, <2>4, SubSeqProperties
  <2> QED BY ONLY <2>2, <2>5
<1>4. g[0] = << <<>> >> /\ \A k \in 1..N : g[k] = JoinLine(lines[N + 1 - k], g[k - 1])
  BY DEF Joining, N
<1>5. h[0] = << <<>> >> /\ \A k \in 1..R : h[k] = JoinLine(rest[R + 1 - k], h[k - 1])
  BY <1>3 DEF Joining
<1> DEFINE T == {k \in Nat : h[k] = g[k]}
<1>6. 0 \in T
  BY ONLY <1>4, <1>5
<1>7. ASSUME NEW k \in 0..(R - 1), k \in T PROVE k + 1 \in T
  <2>1. /\ k + 1 \in 1..R /\ k + 1 \in 1..N /\ k + 1 \in Nat /\ (k + 1) - 1 = k
        /\ R + 1 - (k + 1) \in 1..R /\ e + (R + 1 - (k + 1)) = N + 1 - (k + 1)
    <3>1. k \in Nat /\ k <= R - 1
      BY <1>1
    <3> QED BY ONLY <1>1, <3>1
  <2>2. rest[R + 1 - (k + 1)] = lines[N + 1 - (k + 1)]
    BY ONLY <1>3, <2>1
  <2>3. h[k + 1] = JoinLine(rest[R + 1 - (k + 1)], h[k])
    BY ONLY <1>5, <2>1
  <2>4. g[k + 1] = JoinLine(lines[N + 1 - (k + 1)], g[k])
    BY ONLY <1>4, <2>1
  <2>5. h[k] = g[k]
    BY <1>7
  <2> QED BY ONLY <2>1, <2>2, <2>3, <2>4, <2>5
<1>8. R \in T
  <2>1. R \in 0..R
    BY ONLY <1>1
  <2> HIDE DEF T
  <2> QED BY <1>1, <1>6, <1>7, <2>1, BoundedInduction
<1> QED BY <1>3, <1>8 DEF N, R

\* The first logical line of a file is what read_macro_line reads, and the others are
\* those of the lines that it leaves.
LEMMA LogicalSplit ==
  ASSUME NEW lines \in Seq(Lines), lines # <<>>, NEW rest,
         rest = SubSeq(lines, LineEnd(lines) + 1, Len(lines))
  PROVE  \E others \in Seq(Seq(Tokens)) :
           /\ LogicalLines(lines) = <<Line(lines)>> \o others
           /\ others = LogicalLines(rest) \/ (rest = <<>> /\ others = <<>>)
<1> DEFINE N == Len(lines)
           e == LineEnd(lines)
           R == N - e
           T == Toks(lines)
           W == Seq(Tokens)
           F(a) == FlattenSeq(SubSeq(T, a, e))
<1>1. e \in 1..N /\ (e = N \/ ~lines[e].cont) /\ \A k \in 1..(e - 1) : lines[k].cont
  BY LineEndIsFirst
<1>2. T \in Seq(W) /\ Len(T) = N /\ Line(lines) = F(1) /\ rest \in Seq(Lines)
  BY LineIsFlat
<1>3. N \in Nat /\ (\A i \in 1..N : lines[i] \in Lines)
  OBVIOUS
<1>4. \A i \in 1..N : T[i] = lines[i].toks
  BY DEF Toks
<1>5. PICK g : Joining(g, lines) /\ LogicalLines(lines) = g[N]
  BY LogicalScan
<1>6. PICK h : Joining(h, rest) /\ LogicalLines(rest) = h[Len(rest)]
  BY <1>2, LogicalScan
<1> HIDE DEF T
<1>7. Len(rest) = R /\ LogicalLines(rest) = g[R]
  <2>0. rest = SubSeq(lines, e + 1, Len(lines)) /\ e \in 1..Len(lines)
    BY <1>1
  <2>1. Len(rest) = Len(lines) - e /\ h[Len(lines) - e] = g[Len(lines) - e]
    <3> HIDE DEF e
    <3> QED BY ONLY <1>5, <1>6, <2>0, lines \in Seq(Lines), JoiningAgrees
  <2> QED BY <1>6, <2>1
<1>8. g \in [0..N -> Joined] /\ g[0] = << <<>> >>
      /\ \A k \in 1..N : g[k] = JoinLine(lines[N + 1 - k], g[k - 1])
  BY <1>5 DEF Joining
<1> HIDE DEF N, e
<1>9. e \in Nat /\ 1 <= e /\ e <= N /\ R \in Nat /\ R + e = N /\ R \in 0..N
  BY ONLY <1>1, <1>3
<1>10. ASSUME NEW a \in 1..e
       PROVE  F(a) = T[a] \o F(a + 1) /\ F(a) \in Seq(Tokens) /\ F(a + 1) \in Seq(Tokens)
              /\ T[a] \in Seq(Tokens)
  <2>1. a \in 1..N /\ e \in a..N
    BY <1>9
  <2>2. a \in 1..Len(T) /\ e \in a..Len(T)
    BY ONLY <1>2, <2>1
  <2>3. SubSeq(T, a, e) \in Seq(W) /\ SubSeq(T, a + 1, e) \in Seq(W)
        /\ SubSeq(T, a, e) = <<T[a]>> \o SubSeq(T, a + 1, e)
    <3> HIDE DEF W
    <3> QED BY ONLY <1>2, <2>2, SubSeqCons
  <2>4. T[a] \in Seq(Tokens)
    <3> HIDE DEF W
    <3>1. T[a] \in W
      BY ONLY <1>2, <2>2
    <3> QED BY <3>1 DEF W
  <2> DEFINE s == SubSeq(T, a + 1, e)
             y == T[a]
  <2>5. s \in Seq(Seq(Tokens)) /\ y \in Seq(Tokens)
    BY ONLY <2>3, <2>4
  <2>6. FlattenSeq(SubSeq(T, a, e)) \in Seq(Tokens) /\ FlattenSeq(s) \in Seq(Tokens)
    BY ONLY <2>3, FlattenType
  <2> HIDE DEF s, y
  <2>7. FlattenSeq(<<y>> \o s) = y \o FlattenSeq(s)
    BY ONLY <2>5, FlattenCons
  <2> QED BY <2>3, <2>4, <2>6, <2>7 DEF s, y
<1>11. F(e + 1) = <<>>
  <2>1. SubSeq(T, e + 1, e) = <<>>
    <3>1. e + 1 \in Int /\ e \in Int /\ e < e + 1
      BY ONLY <1>9
    <3> QED BY ONLY <3>1, SubSeqEmpty
  <2>2. FlattenSeq(<<>>) = <<>>
    BY DEF FlattenSeq
  <2> QED BY <2>1, <2>2
<1>12. F(e) = T[e]
  <2>1. e \in 1..e
    BY <1>9
  <2>2. F(e) = T[e] \o F(e + 1) /\ T[e] \in Seq(Tokens)
    BY <1>10, <2>1
  <2>3. T[e] \o <<>> = T[e]
    BY <2>2, ConcatEmptySeq
  <2> QED BY <1>11, <2>2, <2>3
<1> HIDE DEF F
<1>13. PICK others \in Seq(Seq(Tokens)) :
          /\ g[R + 1] = <<F(e)>> \o others
          /\ others = LogicalLines(rest) \/ (rest = <<>> /\ others = <<>>)
  <2>1. R + 1 \in 1..N /\ (R + 1) - 1 = R /\ N + 1 - (R + 1) = e /\ e \in 1..N
    BY ONLY <1>9
  <2>2. g[R + 1] = JoinLine(lines[e], g[R])
    BY ONLY <1>8, <2>1
  <2>3. lines[e] \in Lines /\ lines[e].toks = F(e)
    BY <1>3, <1>4, <1>12, <2>1
  <2>4. CASE ~lines[e].cont
    <3>1. g[R] \in Joined
      BY <1>8, <1>9
    <3>2. PICK x \in Seq(Tokens), t \in Seq(Seq(Tokens)) : g[R] = <<x>> \o t
      BY <3>1, JoinedCons
    <3>3. JoinLine(lines[e], <<x>> \o t) = <<lines[e].toks>> \o (<<x>> \o t)
      BY <2>3, <2>4, JoinLineCases
    <3>4. g[R] \in Seq(Seq(Tokens))
      BY <3>1 DEF Joined
    <3> QED BY <1>7, <2>2, <2>3, <3>2, <3>3, <3>4
  <2>5. CASE lines[e].cont
    <3>1. e = N
      BY <1>1, <2>5
    <3>2. R = 0
      BY ONLY <1>9, <3>1
    <3> DEFINE none == <<>>
               no == <<>>
    <3>3. none \in Seq(Tokens) /\ no \in Seq(Seq(Tokens))
      OBVIOUS
    <3>4. g[R] = <<none>> \o no
      <4> DEFINE s == <<none>>
      <4>1. s \in Seq(Seq(Tokens))
        <5> HIDE DEF W
        <5>1. none \in W
          BY <3>3 DEF W
        <5> HIDE DEF none
        <5>2. <<none>> \in Seq(W)
          BY <5>1
        <5> QED BY <5>2 DEF W
      <4>2. g[R] = s
        BY <1>8, <3>2
      <4> HIDE DEF s
      <4>3. s \o <<>> = s
        BY <4>1, ConcatEmptySeq
      <4> QED BY <4>2, <4>3 DEF s
    <3> HIDE DEF none, no
    <3>5. JoinLine(lines[e], <<none>> \o no) = <<lines[e].toks \o none>> \o no
      BY <2>3, <2>5, <3>3, JoinLineCases
    <3>6. lines[e].toks \o none = lines[e].toks
      <4> DEFINE y == lines[e].toks
      <4>1. y \in Seq(Tokens)
        BY <2>3, LineType
      <4> HIDE DEF y
      <4>2. y \o <<>> = y
        BY <4>1, ConcatEmptySeq
      <4> QED BY <4>2 DEF y, none
    <3>7. g[R + 1] = <<F(e)>> \o no
      BY <2>2, <2>3, <3>4, <3>5, <3>6
    <3>8. rest = <<>> /\ no = <<>>
      BY <1>2, <1>7, <3>2 DEF no
    <3> QED BY <3>3, <3>7, <3>8
  <2> QED BY <2>4, <2>5
<1> DEFINE Q == {j \in Nat : g[R + 1 + j] = <<F(e - j)>> \o others}
<1>14. 0 \in Q
  <2>1. R + 1 + 0 = R + 1 /\ e - 0 = e
    BY ONLY <1>9
  <2> QED BY <1>13, <2>1
<1>15. ASSUME NEW j \in 0..((e - 1) - 1), j \in Q PROVE j + 1 \in Q
  <2> DEFINE a == e - (j + 1)
             b == R + 1 + (j + 1)
  <2>1. /\ b \in 1..N /\ b - 1 = R + 1 + j /\ N + 1 - b = a /\ j + 1 \in Nat
        /\ a \in 1..e /\ a \in 1..(e - 1) /\ a \in 1..N /\ a + 1 = e - j
    <3>1. j \in Nat /\ j <= e - 1 - 1
      BY <1>9
    <3>2. a \in Nat /\ 1 <= a /\ a <= e - 1 /\ a + 1 = e - j
      BY ONLY <1>9, <3>1
    <3>3. a \in 1..e /\ a \in 1..(e - 1) /\ a \in 1..N
      <4> HIDE DEF a
      <4> QED BY ONLY <1>9, <3>2
    <3>4. b \in 1..N /\ b - 1 = R + 1 + j /\ N + 1 - b = a /\ j + 1 \in Nat
      <4>1. N = R + e /\ R \in Nat /\ e \in Nat /\ j \in Nat /\ j <= e - 1 - 1
        BY ONLY <1>9, <3>1
      <4>2. b \in Nat /\ 1 <= b /\ b - 1 = R + 1 + j
        BY ONLY <4>1
      <4>3. b <= N
        BY ONLY <4>1
      <4>4. N + 1 - b = a
        BY ONLY <4>1
      <4> HIDE DEF b, a
      <4>5. b \in 1..N
        BY ONLY <1>9, <4>2, <4>3
      <4> QED BY <4>1, <4>2, <4>4, <4>5
    <3> QED BY ONLY <3>2, <3>3, <3>4
  <2>2. g[b - 1] = <<F(a + 1)>> \o others
    BY <1>15, <2>1
  <2> HIDE DEF a, b
  <2>3. g[b] = JoinLine(lines[a], g[b - 1])
    BY ONLY <1>8, <2>1
  <2>4. lines[a] \in Lines /\ lines[a].cont /\ lines[a].toks = T[a]
    BY ONLY <1>1, <1>3, <1>4, <2>1
  <2>5. F(a) = T[a] \o F(a + 1) /\ F(a + 1) \in Seq(Tokens)
    BY <1>10, <2>1
  <2>6. JoinLine(lines[a], <<F(a + 1)>> \o others) = <<lines[a].toks \o F(a + 1)>> \o others
    BY <2>4, <2>5, JoinLineCases
  <2>7. g[b] = <<F(a)>> \o others
    BY ONLY <2>2, <2>3, <2>4, <2>5, <2>6
  <2> QED BY <2>1, <2>7 DEF a, b
<1>16. e - 1 \in Q
  <2> DEFINE n == e - 1
  <2>1. n \in Nat /\ n \in 0..n
    BY ONLY <1>9
  <2>2. \A j \in 0..(n - 1) : j \in Q => j + 1 \in Q
    BY <1>15
  <2> HIDE DEF Q, n
  <2>3. n \in Q
    BY ONLY <1>14, <2>1, <2>2, BoundedInduction
  <2> QED BY <2>3 DEF n
<1>17. g[N] = <<F(1)>> \o others
  <2>1. R + 1 + (e - 1) = N /\ e - (e - 1) = 1
    BY ONLY <1>9
  <2> QED BY <1>16, <2>1
<1>18. LogicalLines(lines) = <<Line(lines)>> \o others
  BY ONLY <1>2, <1>5, <1>17 DEF F
<1> QED BY <1>13, <1>18

-----------------------------------------------------------------------------
(* What a file says.                                                       *)

\* The definitions that includes stand for.
Including(included) == \A name \in DOMAIN included : included[name] \in Seq(Macros)

LEMMA SetToSeqNone == SetToSeq({}) = <<>>
<1> DEFINE s == SetToSeq({})
<1>1. Cardinality({}) = 0
  BY FS_EmptySet
<1>2. s = CHOOSE f \in [1..0 -> {}] : IsInjective(f)
  BY <1>1 DEF SetToSeq
<1>3. <<>> \in [1..0 -> {}] /\ IsInjective(<<>>)
  BY DEF IsInjective
<1> HIDE DEF s
<1>4. s \in [1..0 -> {}]
  BY <1>2, <1>3
<1>5. s = <<>>
  BY <1>4
<1> QED BY <1>5 DEF s

LEMMA SetToSeqOne ==
  ASSUME NEW m
  PROVE  SetToSeq({m}) = <<m>>
<1> DEFINE s == SetToSeq({m})
           t == <<m>>
<1>1. Cardinality({m}) = 1
  BY FS_Singleton
<1>2. s = CHOOSE f \in [1..1 -> {m}] : IsInjective(f)
  BY <1>1 DEF SetToSeq
<1>3. t \in [1..1 -> {m}] /\ IsInjective(t)
  <2>1. t \in [1..1 -> {m}]
    OBVIOUS
  <2>2. \A a, b \in 1..1 : a = b
    OBVIOUS
  <2>3. DOMAIN t = 1..1
    OBVIOUS
  <2> HIDE DEF t
  <2> QED BY <2>1, <2>2, <2>3 DEF IsInjective
<1> HIDE DEF s, t
<1>4. s \in [1..1 -> {m}]
  BY <1>2, <1>3
<1>5. \A k \in 1..1 : s[k] = t[k]
  BY <1>3, <1>4
<1>6. s = t
  BY <1>3, <1>4, <1>5
<1> QED BY <1>6 DEF s, t

LEMMA SaysType ==
  ASSUME NEW toks \in Seq(Tokens), NEW included, Including(included)
  PROVE  Says(toks, included) \in Seq(Macros)
<1>1. CASE Ignored(toks)
  <2>1. <<>> \in Seq(Macros)
    OBVIOUS
  <2> QED BY <1>1, <2>1 DEF Says
<1>2. CASE ~Ignored(toks) /\ IsWord(toks[1], <<"define">>)
  <2>1. toks # <<>>
    BY <1>2 DEF Ignored
  <2>2. Parsed(Tail(toks)) = {} \/ \E m \in Macros : Parsed(Tail(toks)) = {m}
    BY <2>1, TailType, ParsedType
  <2>3. Says(toks, included) = SetToSeq(Parsed(Tail(toks)))
    BY <1>2 DEF Says
  <2>4. <<>> \in Seq(Macros) /\ \A m \in Macros : <<m>> \in Seq(Macros)
    <3> DEFINE M == Macros
    <3> HIDE DEF M
    <3>1. <<>> \in Seq(M) /\ \A m \in M : <<m>> \in Seq(M)
      OBVIOUS
    <3> QED BY <3>1 DEF M
  <2> QED BY <2>2, <2>3, <2>4, SetToSeqNone, SetToSeqOne
<1>3. CASE ~Ignored(toks) /\ ~IsWord(toks[1], <<"define">>)
  <2>1. <<>> \in Seq(Macros)
    OBVIOUS
  <2> QED BY <1>3, <2>1 DEF Says, Including
<1> QED BY <1>1, <1>2, <1>3

\* What the logical lines say, one by one.
SaysAll(logical, included) == [k \in DOMAIN logical |-> Says(logical[k], included)]

LEMMA SaysAllType ==
  ASSUME NEW logical \in Seq(Seq(Tokens)), NEW included, Including(included)
  PROVE  SaysAll(logical, included) \in Seq(Seq(Macros))
         /\ Len(SaysAll(logical, included)) = Len(logical)
<1> DEFINE n == Len(logical)
           M == Seq(Macros)
           s == SaysAll(logical, included)
<1>1. n \in Nat /\ DOMAIN logical = 1..n
  OBVIOUS
<1>2. \A k \in 1..n : logical[k] \in Seq(Tokens)
  <2> DEFINE W == Seq(Tokens)
  <2> HIDE DEF W
  <2>1. \A k \in 1..n : logical[k] \in W
    BY DEF W
  <2> QED BY <2>1 DEF W
<1> HIDE DEF n
<1>3. \A k \in 1..n : Says(logical[k], included) \in M
  BY <1>2, SaysType
<1> HIDE DEF M
<1>4. s \in [1..n -> M]
  BY <1>1, <1>3 DEF SaysAll
<1> HIDE DEF s
<1>5. s \in Seq(M) /\ Len(s) = n
  BY <1>1, <1>4
<1> QED BY <1>5 DEF s, M, n

LEMMA SaysAllCons ==
  ASSUME NEW x \in Seq(Tokens), NEW t \in Seq(Seq(Tokens)), NEW included, Including(included)
  PROVE  SaysAll(<<x>> \o t, included) = <<Says(x, included)>> \o SaysAll(t, included)
<1> DEFINE W == Seq(Tokens)
           M == Seq(Macros)
           s == <<x>> \o t
           u == SaysAll(s, included)
           y == Says(x, included)
           z == SaysAll(t, included)
           v == <<y>> \o z
           n == Len(t)
<1>1. /\ s \in Seq(W) /\ Len(s) = n + 1 /\ s[1] = x
      /\ \A i \in 1..n : s[i + 1] = t[i]
  <2> HIDE DEF W, n
  <2>1. x \in W /\ t \in Seq(W)
    BY DEF W
  <2> QED BY <2>1, ConsFacts DEF n
<1>2. n \in Nat /\ DOMAIN t = 1..n
  OBVIOUS
<1> HIDE DEF s
<1>3. u \in Seq(M) /\ Len(u) = Len(s)
  BY <1>1, SaysAllType
<1>4. z \in Seq(M) /\ Len(z) = n
  BY SaysAllType
<1>5. y \in M
  BY SaysType
<1>6. DOMAIN s = 1..(n + 1)
  BY <1>1
<1>7. (\A k \in 1..(n + 1) : u[k] = Says(s[k], included))
      /\ \A k \in 1..n : z[k] = Says(t[k], included)
  <2> HIDE DEF n
  <2> QED BY <1>2, <1>6 DEF SaysAll
<1> HIDE DEF W, M, u, y, z
<1>8. v \in Seq(M) /\ Len(v) = n + 1 /\ v[1] = y /\ \A i \in 1..n : v[i + 1] = z[i]
  <2> HIDE DEF n
  <2>1. /\ v \in Seq(M) /\ Len(v) = Len(z) + 1 /\ v[1] = y
        /\ \A i \in 1..Len(z) : v[i + 1] = z[i]
    BY ONLY <1>4, <1>5, ConsFacts
  <2> QED BY ONLY <1>4, <2>1
<1> HIDE DEF v, n
<1>9. \A k \in 1..(n + 1) : k = 1 \/ (k - 1 \in 1..n /\ (k - 1) + 1 = k)
  BY ONLY <1>2
<1>10. \A k \in 1..(n + 1) : u[k] = v[k]
  <2>1. 1 \in 1..(n + 1) /\ \A i \in 1..n : i + 1 \in 1..(n + 1)
    BY ONLY <1>2
  <2>2. u[1] = v[1]
    BY <1>1, <1>7, <1>8, <2>1 DEF y
  <2>3. \A i \in 1..n : u[i + 1] = v[i + 1]
    BY ONLY <1>1, <1>7, <1>8, <2>1
  <2> QED BY ONLY <1>9, <2>2, <2>3
<1>11. u = v
  <2>1. Len(u) = n + 1 /\ Len(v) = n + 1
    BY ONLY <1>1, <1>3, <1>8
  <2> QED BY ONLY <1>3, <1>8, <1>10, <2>1, SeqEqual
<1> QED BY <1>11 DEF u, v, s, y, z

LEMMA LogicalType ==
  ASSUME NEW lines \in Seq(Lines) PROVE LogicalLines(lines) \in Seq(Seq(Tokens))
<1>1. PICK g : Joining(g, lines) /\ LogicalLines(lines) = g[Len(lines)]
  BY LogicalScan
<1>2. Len(lines) \in 0..Len(lines)
  OBVIOUS
<1> QED BY <1>1, <1>2 DEF Joining, Joined

LEMMA TextType ==
  ASSUME NEW lines \in Seq(Lines), NEW included, Including(included)
  PROVE  Text(lines, included) \in Seq(Macros)
<1> DEFINE s == SaysAll(LogicalLines(lines), included)
<1>1. s \in Seq(Seq(Macros))
  BY LogicalType, SaysAllType
<1>2. Text(lines, included) = FlattenSeq(s)
  BY DEF Text, SaysAll
<1> HIDE DEF s
<1> QED BY <1>1, <1>2, FlattenType

LEMMA TextEnd ==
  ASSUME NEW included, Including(included) PROVE Text(<<>>, included) = <<>>
<1> DEFINE none == <<>>
           e == <<>>
<1>1. none \in Seq(Lines) /\ Len(none) = 0
  OBVIOUS
<1>2. PICK g : Joining(g, none) /\ LogicalLines(none) = g[Len(none)]
  <2> HIDE DEF none
  <2> QED BY <1>1, LogicalScan
<1>3. LogicalLines(none) = <<e>>
  <2> HIDE DEF none
  <2> QED BY <1>1, <1>2 DEF Joining
<1>4. Says(e, included) = <<>>
  BY DEF Says, Ignored
<1>5. SaysAll(<<e>>, included) = << <<>> >>
  <2>1. DOMAIN <<e>> = 1..1 /\ <<e>>[1] = e
    OBVIOUS
  <2> HIDE DEF e
  <2>2. SaysAll(<<e>>, included) = [k \in 1..1 |-> Says(<<e>>[k], included)]
    BY <2>1 DEF SaysAll
  <2>3. \A k \in 1..1 : Says(<<e>>[k], included) = <<>>
    <3>1. \A k \in 1..1 : k = 1
      OBVIOUS
    <3> QED BY <1>4, <2>1, <3>1
  <2>4. SaysAll(<<e>>, included) = [k \in 1..1 |-> <<>>]
    BY <2>2, <2>3
  <2> QED BY <2>4
<1>6. <<>> \in Seq(Macros)
  OBVIOUS
<1>7. FlattenSeq(<< <<>> >>) = <<>>
  BY <1>6, FlattenOne
<1> QED BY <1>3, <1>5, <1>7 DEF Text, SaysAll

\* A file says what its first logical line says, and then what the rest of it says.
LEMMA TextSplit ==
  ASSUME NEW lines \in Seq(Lines), lines # <<>>, NEW included, Including(included), NEW rest,
         rest = SubSeq(lines, LineEnd(lines) + 1, Len(lines))
  PROVE  Text(lines, included) = Says(Line(lines), included) \o Text(rest, included)
<1>1. Line(lines) \in Seq(Tokens) /\ rest \in Seq(Lines)
  BY ReadLineType
<1>2. PICK others \in Seq(Seq(Tokens)) :
        /\ LogicalLines(lines) = <<Line(lines)>> \o others
        /\ others = LogicalLines(rest) \/ (rest = <<>> /\ others = <<>>)
  BY LogicalSplit
<1> DEFINE x == Line(lines)
           y == Says(x, included)
           z == SaysAll(others, included)
<1>3. SaysAll(<<x>> \o others, included) = <<y>> \o z
  BY <1>1, SaysAllCons
<1>4. y \in Seq(Macros) /\ z \in Seq(Seq(Macros))
  BY <1>1, SaysType, SaysAllType
<1>5. Text(lines, included) = FlattenSeq(SaysAll(<<x>> \o others, included))
  BY <1>2 DEF Text, SaysAll
<1>6. FlattenSeq(z) = Text(rest, included)
  <2>1. CASE others = LogicalLines(rest)
    BY <2>1 DEF Text, SaysAll
  <2>2. CASE rest = <<>> /\ others = <<>>
    <3>1. Text(rest, included) = <<>>
      BY <2>2, TextEnd
    <3>2. Len(z) = 0
      <4>1. Len(z) = Len(others)
        BY SaysAllType
      <4> QED BY <2>2, <4>1
    <3>3. FlattenSeq(z) = <<>>
      <4> HIDE DEF z
      <4>1. z = <<>>
        BY <1>4, <3>2
      <4> QED BY <4>1 DEF FlattenSeq
    <3> QED BY <3>1, <3>3
  <2> QED BY <1>2, <2>1, <2>2
<1> HIDE DEF x, y, z
<1>7. FlattenSeq(<<y>> \o z) = y \o FlattenSeq(z)
  BY ONLY <1>4, FlattenCons
<1> QED BY <1>3, <1>5, <1>6, <1>7 DEF x, y

\* The table of what the files say with includes to a depth, and the definitions that
\* an include stands for in a file that is read at a depth.
TableBody(there, text) ==
  [d \in 0..MaxOpen |-> [f \in DOMAIN there |-> Text(there[f], IF d = 0 THEN <<>> ELSE text[d - 1])]]
Table(there) == CHOOSE text : text = TableBody(there, text)
Included(there, d) == IF d = 0 THEN <<>> ELSE Table(there)[d - 1]

LEMMA DefinitionsAre ==
  Definitions = IF Global \in DOMAIN files THEN Table(files)[MaxOpen][Global] ELSE <<>>
BY DEF Definitions, Table, TableBody

LEMMA TableRecursion ==
  ASSUME NEW there \in FileSets
  PROVE  Table(there) = TableBody(there, Table(there))
<1> DEFINE N == MaxOpen
           V == [DOMAIN there -> Seq(Macros)]
           first == [f \in DOMAIN there |-> Text(there[f], <<>>)]
           step == [d \in 1..N |-> [included \in V |-> [f \in DOMAIN there |-> Text(there[f], included)]]]
<1>1. N \in Nat /\ \A f \in DOMAIN there : there[f] \in Seq(Lines)
  BY MacroLimits, TextAssumption
<1>2. Including(<<>>) /\ \A included \in V : Including(included)
  BY DEF Including
<1>3. first \in V
  BY <1>1, <1>2, TextType
<1>4. \A included \in V : [f \in DOMAIN there |-> Text(there[f], included)] \in V
  <2> SUFFICES ASSUME NEW included \in V
               PROVE  \A f \in DOMAIN there : Text(there[f], included) \in Seq(Macros)
    OBVIOUS
  <2> HIDE DEF V
  <2> QED BY <1>1, <1>2, TextType
<1>5. step \in [1..N -> [V -> V]]
  <2> HIDE DEF V, N
  <2> QED BY <1>4
<1>6. \A d \in 1..N : \A included \in V :
        step[d][included] = [f \in DOMAIN there |-> Text(there[f], included)]
  <2> HIDE DEF V, N
  <2> QED OBVIOUS
<1>7. PICK text \in [0..N -> V] : Loops(text, N, first, step)
  <2> HIDE DEF N, V, first, step
  <2> QED BY <1>1, <1>3, <1>5, LoopFunction
<1>8. text = TableBody(there, text)
  <2>1. ASSUME NEW d \in 0..N, d # 0
        PROVE  step[d][text[d - 1]] = [f \in DOMAIN there |-> Text(there[f], text[d - 1])]
    <3>1. d \in 1..N /\ d - 1 \in 0..N
      BY <1>1, <2>1
    <3>2. text[d - 1] \in V
      <4> HIDE DEF V, N
      <4> QED BY ONLY <1>7, <3>1
    <3> HIDE DEF V, N, step
    <3> QED BY <1>6, <3>1, <3>2
  <2>2. \A d \in 0..N : (IF d = 0 THEN first ELSE step[d][text[d - 1]]) =
          [f \in DOMAIN there |-> Text(there[f], IF d = 0 THEN <<>> ELSE text[d - 1])]
    <3> HIDE DEF V, N, step
    <3> QED BY <2>1
  <2>3. [d \in 0..N |-> IF d = 0 THEN first ELSE step[d][text[d - 1]]] = TableBody(there, text)
    <3> HIDE DEF V, step, first
    <3> QED BY <2>2 DEF TableBody
  <2> HIDE DEF V, N, step, first
  <2> QED BY ONLY <1>7, <2>3 DEF Loops
<1> QED BY <1>8 DEF Table

LEMMA TableFacts ==
  ASSUME NEW there \in FileSets, NEW d \in 0..MaxOpen
  PROVE  /\ Including(Included(there, d))
         /\ Table(there)[d] = [f \in DOMAIN there |-> Text(there[f], Included(there, d))]
<1> DEFINE text == Table(there)
<1>1. MaxOpen \in Nat /\ \A f \in DOMAIN there : there[f] \in Seq(Lines)
  BY MacroLimits, TextAssumption
<1>2. text = TableBody(there, text)
  BY TableRecursion
<1> HIDE DEF text
<1>3. \A n \in 0..MaxOpen : text[n] = [f \in DOMAIN there |-> Text(there[f], Included(there, n))]
  BY <1>2 DEF TableBody, Included, text
<1> DEFINE T == {n \in Nat : Including(Included(there, n))}
<1>4. 0 \in T
  BY DEF Including, Included
<1>5. ASSUME NEW n \in 0..(MaxOpen - 1), n \in T PROVE n + 1 \in T
  <2>1. n + 1 \in Nat /\ n + 1 # 0 /\ (n + 1) - 1 = n /\ n \in 0..MaxOpen
    BY <1>1
  <2>2. Included(there, n + 1) = text[n]
    BY <2>1 DEF Included, text
  <2>3. text[n] = [f \in DOMAIN there |-> Text(there[f], Included(there, n))]
    BY <1>3, <2>1
  <2>4. \A f \in DOMAIN there : Text(there[f], Included(there, n)) \in Seq(Macros)
    BY <1>1, <1>5, TextType
  <2>5. Including(text[n])
    BY <2>3, <2>4 DEF Including
  <2> QED BY <2>1, <2>2, <2>5
<1>6. d \in T
  <2> HIDE DEF T
  <2> QED BY <1>1, <1>4, <1>5, BoundedInduction
<1> QED BY <1>3, <1>6 DEF text

\* An include of a file stands for what the file says, one level less deep.
LEMMA IncludedIs ==
  ASSUME NEW there \in FileSets, NEW d \in 1..MaxOpen
  PROVE  /\ DOMAIN Included(there, d) = DOMAIN there
         /\ \A f \in DOMAIN there : Included(there, d)[f] = Text(there[f], Included(there, d - 1))
<1>1. d - 1 \in 0..MaxOpen /\ d # 0
  BY MacroLimits
<1>2. Table(there)[d - 1] = [f \in DOMAIN there |-> Text(there[f], Included(there, d - 1))]
  BY <1>1, TableFacts
<1>3. Included(there, d) = Table(there)[d - 1]
  BY <1>1 DEF Included
<1> HIDE DEF Included
<1> QED BY <1>2, <1>3

-----------------------------------------------------------------------------
(* What the calls of lre_macro_conf_load have left to say.                 *)

\* left[i] is what the first i of them do, the last of these first.
Remains(there, stack, left) ==
  /\ left \in [0..Len(stack) -> Seq(Macros)]
  /\ left[0] = <<>>
  /\ \A i \in 1..Len(stack) :
       left[i] = Text(stack[i], Included(there, MaxOpen + 1 - i)) \o left[i - 1]
Leaves(there, stack, t) == \E left : Remains(there, stack, left) /\ t = left[Len(stack)]

LEMMA LeavesType ==
  ASSUME NEW there, NEW stack \in Seq(Seq(Lines)), NEW t, Leaves(there, stack, t)
  PROVE  t \in Seq(Macros)
<1>1. Len(stack) \in 0..Len(stack)
  OBVIOUS
<1> QED BY <1>1 DEF Leaves, Remains

LEMMA LeavesNothing ==
  ASSUME NEW there, NEW t
  PROVE  Leaves(there, <<>>, t) <=> t = <<>>
<1> DEFINE M == Seq(Macros)
           none == <<>>
<1>1. none \in M /\ Len(<<>>) = 0
  OBVIOUS
<1>2. Leaves(there, <<>>, t) => t = none
  BY <1>1 DEF Leaves, Remains
<1>3. Leaves(there, <<>>, none)
  <2> DEFINE left == [i \in 0..0 |-> none]
  <2>1. left \in [0..0 -> M] /\ left[0] = none
    <3> HIDE DEF M, none
    <3> QED BY <1>1
  <2> HIDE DEF left
  <2>2. \A i \in 1..0 : FALSE
    OBVIOUS
  <2>3. Remains(there, <<>>, left)
    BY <1>1, <2>1, <2>2 DEF Remains
  <2> QED BY <1>1, <2>1, <2>3 DEF Leaves
<1> QED BY <1>2, <1>3

LEMMA LeavesPush ==
  ASSUME NEW there \in FileSets, NEW stack \in Seq(Seq(Lines)), NEW t, Leaves(there, stack, t),
         NEW f \in Seq(Lines), Len(stack) < MaxOpen
  PROVE  Leaves(there, Append(stack, f), Text(f, Included(there, MaxOpen - Len(stack))) \o t)
<1> DEFINE n == Len(stack)
           F == Seq(Lines)
           M == Seq(Macros)
           s == Append(stack, f)
           u == Text(f, Included(there, MaxOpen - n)) \o t
<1>1. PICK left : Remains(there, stack, left) /\ t = left[n]
  BY DEF Leaves
<1>2. n \in Nat /\ n < MaxOpen /\ MaxOpen \in Nat
  BY MacroLimits
<1>3. s \in Seq(F) /\ Len(s) = n + 1 /\ s[n + 1] = f /\ \A i \in 1..n : s[i] = stack[i]
  <2> HIDE DEF F
  <2>1. stack \in Seq(F) /\ f \in F
    BY DEF F
  <2> QED BY <2>1
<1>4. t \in M
  BY LeavesType
<1>5. u \in M
  <2> DEFINE d == MaxOpen - n
             c == Text(f, Included(there, d))
  <2>1. d \in 0..MaxOpen
    <3> HIDE DEF n
    <3> QED BY <1>2
  <2> HIDE DEF d
  <2>2. c \in Seq(Macros)
    BY <2>1, TableFacts, TextType
  <2> HIDE DEF c
  <2>3. c \o t \in Seq(Macros)
    BY ONLY <1>4, <2>2
  <2> QED BY <2>3 DEF c, d
<1> HIDE DEF s, u, n
<1> DEFINE left2 == [i \in 0..(n + 1) |-> IF i = n + 1 THEN u ELSE left[i]]
<1>6. left \in [0..n -> M] /\ left[0] = <<>>
      /\ \A i \in 1..n : left[i] = Text(stack[i], Included(there, MaxOpen + 1 - i)) \o left[i - 1]
  BY <1>1 DEF Remains, n
<1>7. left2 \in [0..(n + 1) -> M] /\ left2[0] = <<>> /\ left2[n + 1] = u
      /\ \A i \in 0..n : left2[i] = left[i]
  <2> HIDE DEF M
  <2>1. \A i \in 0..(n + 1) : i = n + 1 \/ i \in 0..n
    BY ONLY <1>2
  <2>2. n + 1 \in 0..(n + 1) /\ 0 \in 0..n /\ \A i \in 0..n : i \in 0..(n + 1) /\ i # n + 1
    BY ONLY <1>2
  <2>3. left2 \in [0..(n + 1) -> M]
    BY ONLY <1>5, <1>6, <2>1
  <2>4. left2[n + 1] = u /\ \A i \in 0..n : left2[i] = left[i]
    BY ONLY <2>2
  <2> QED BY ONLY <1>6, <2>2, <2>3, <2>4
<1> HIDE DEF left2
<1>8. ASSUME NEW i \in 1..(n + 1)
      PROVE  left2[i] = Text(s[i], Included(there, MaxOpen + 1 - i)) \o left2[i - 1]
  <2>1. i = n + 1 \/ i \in 1..n
    BY <1>2
  <2>2. CASE i = n + 1
    <3>1. MaxOpen + 1 - (n + 1) = MaxOpen - n /\ (n + 1) - 1 = n /\ n \in 0..n
      BY ONLY <1>2
    <3>2. left2[n] = t
      BY <1>1, <1>7, <3>1
    <3> QED BY <1>3, <1>7, <2>2, <3>1, <3>2 DEF u
  <2>3. CASE i \in 1..n
    <3>1. i \in 0..n /\ i - 1 \in 0..n
      BY <1>2, <2>3
    <3> QED BY ONLY <1>3, <1>6, <1>7, <2>3, <3>1
  <2> QED BY <2>1, <2>2, <2>3
<1>9. Remains(there, s, left2)
  BY ONLY <1>3, <1>7, <1>8 DEF Remains, M
<1>10. Leaves(there, s, u)
  BY <1>3, <1>7, <1>9 DEF Leaves
<1> QED BY <1>10 DEF s, u, n

\* The frames of a stack without the last.
Under(below, stack) ==
  Len(below) = Len(stack) - 1 /\ \A i \in 1..(Len(stack) - 1) : below[i] = stack[i]

\* What a stack leaves is what is left of the file on top, and what those under it leave.
LeavesBelow(there, stack, below, u) ==
  \E t \in Seq(Macros) :
    /\ Leaves(there, below, t)
    /\ u = Text(Last(stack), Included(there, MaxOpen + 1 - Len(stack))) \o t

LEMMA LeavesPop ==
  ASSUME NEW there \in FileSets, NEW stack \in Seq(Seq(Lines)), stack # <<>>,
         NEW below \in Seq(Seq(Lines)), Under(below, stack), NEW u, Leaves(there, stack, u)
  PROVE  LeavesBelow(there, stack, below, u)
<1> DEFINE n == Len(stack)
           M == Seq(Macros)
<1>1. PICK left : Remains(there, stack, left) /\ u = left[n]
  BY DEF Leaves
<1>2. n \in Nat /\ n # 0 /\ Last(stack) = stack[n]
  BY DEF Last
<1> HIDE DEF n
<1> DEFINE left2 == [i \in 0..(n - 1) |-> left[i]]
<1>3. left \in [0..n -> M] /\ left[0] = <<>>
      /\ \A i \in 1..n : left[i] = Text(stack[i], Included(there, MaxOpen + 1 - i)) \o left[i - 1]
  BY <1>1 DEF Remains, n
<1>4. /\ \A i \in 0..(n - 1) : i \in 0..n
      /\ n \in 1..n /\ n - 1 \in 0..(n - 1) /\ 0 \in 0..(n - 1)
      /\ \A i \in 1..(n - 1) : i \in 1..n /\ i \in 0..(n - 1) /\ i - 1 \in 0..(n - 1)
  BY ONLY <1>2
<1>5. left2 \in [0..(n - 1) -> M] /\ \A i \in 0..(n - 1) : left2[i] = left[i]
  <2> HIDE DEF M
  <2> QED BY ONLY <1>3, <1>4
<1> HIDE DEF left2
<1>6. ASSUME NEW i \in 1..(n - 1)
      PROVE  left2[i] = Text(below[i], Included(there, MaxOpen + 1 - i)) \o left2[i - 1]
  <2>1. below[i] = stack[i]
    BY DEF n, Under
  <2> QED BY <1>3, <1>4, <1>5, <2>1
<1>7. Len(below) = n - 1
  BY DEF n, Under
<1>8. Remains(there, below, left2)
  BY ONLY <1>3, <1>4, <1>5, <1>6, <1>7 DEF Remains, M
<1>9. Leaves(there, below, left2[n - 1])
  BY <1>7, <1>8 DEF Leaves
<1>10. left2[n - 1] \in M
  BY ONLY <1>4, <1>5
<1>11. u = Text(stack[n], Included(there, MaxOpen + 1 - n)) \o left2[n - 1]
  BY <1>1, <1>3, <1>4, <1>5
<1> QED BY <1>2, <1>9, <1>10, <1>11 DEF n, M, LeavesBelow

LEMMA ReverseFacts ==
  ASSUME NEW S, NEW s \in Seq(S)
  PROVE  /\ Reverse(s) \in Seq(S) /\ Len(Reverse(s)) = Len(s)
         /\ \A i \in 1..Len(s) : Reverse(s)[i] = s[(Len(s) - i) + 1]
<1> DEFINE n == Len(s)
           r == Reverse(s)
<1>1. n \in Nat /\ \A i \in 1..n : s[i] \in S
  OBVIOUS
<1> HIDE DEF n
<1>2. \A i \in 1..n : (n - i) + 1 \in 1..n
  BY ONLY <1>1
<1>3. \A i \in 1..n : s[(n - i) + 1] \in S
  BY ONLY <1>1, <1>2
<1>4. r = [i \in 1..n |-> s[(n - i) + 1]]
  BY DEF Reverse, n
<1> HIDE DEF r
<1>5. r \in [1..n -> S] /\ \A i \in 1..n : r[i] = s[(n - i) + 1]
  BY ONLY <1>3, <1>4
<1>6. r \in Seq(S) /\ Len(r) = n
  BY ONLY <1>1, <1>5
<1> QED BY <1>5, <1>6 DEF r, n

LEMMA ReverseCons ==
  ASSUME NEW S, NEW x \in S, NEW s \in Seq(S)
  PROVE  Reverse(<<x>> \o s) = Reverse(s) \o <<x>>
<1> DEFINE n == Len(s)
           t == <<x>> \o s
           a == Reverse(t)
           r == Reverse(s)
           b == r \o <<x>>
<1>1. t \in Seq(S) /\ Len(t) = n + 1 /\ t[1] = x /\ \A i \in 1..n : t[i + 1] = s[i]
  BY ConsFacts
<1>2. n \in Nat
  OBVIOUS
<1> HIDE DEF t
<1>3. a \in Seq(S) /\ Len(a) = Len(t) /\ \A i \in 1..Len(t) : a[i] = t[(Len(t) - i) + 1]
  BY ONLY <1>1, ReverseFacts
<1>4. r \in Seq(S) /\ Len(r) = n /\ \A i \in 1..n : r[i] = s[(n - i) + 1]
  BY ONLY s \in Seq(S), ReverseFacts
<1> HIDE DEF a, r
<1>5. b \in Seq(S) /\ Len(b) = n + 1 /\ b[n + 1] = x /\ \A i \in 1..n : b[i] = r[i]
  <2>1. <<x>> \in Seq(S) /\ Len(<<x>>) = 1 /\ <<x>>[1] = x
    OBVIOUS
  <2>2. /\ b \in Seq(S) /\ Len(b) = Len(r) + Len(<<x>>)
        /\ \A i \in 1..(Len(r) + Len(<<x>>)) :
             b[i] = IF i <= Len(r) THEN r[i] ELSE <<x>>[i - Len(r)]
    BY ONLY <1>4, <2>1, ConcatProperties
  <2> HIDE DEF b, n
  <2>3. /\ n + 1 \in 1..(n + 1) /\ ~(n + 1 <= n) /\ (n + 1) - n = 1
        /\ \A i \in 1..n : i \in 1..(n + 1) /\ i <= n
    BY ONLY <1>2
  <2> QED BY ONLY <1>4, <2>1, <2>2, <2>3
<1> HIDE DEF b, n
<1>6. \A i \in 1..(n + 1) : a[i] = b[i]
  <2>1. a[n + 1] = b[n + 1]
    <3>1. n + 1 \in 1..(n + 1) /\ ((n + 1) - (n + 1)) + 1 = 1
      BY ONLY <1>2
    <3> QED BY ONLY <1>1, <1>3, <1>5, <3>1
  <2>2. ASSUME NEW i \in 1..n PROVE a[i] = b[i]
    <3>1. i \in 1..(n + 1) /\ (n - i) + 1 \in 1..n /\ ((n + 1) - i) + 1 = ((n - i) + 1) + 1
      BY <1>2
    <3> DEFINE j == (n - i) + 1
    <3> HIDE DEF j
    <3>2. a[i] = t[j + 1]
      BY ONLY <1>1, <1>3, <3>1 DEF j
    <3>3. t[j + 1] = s[j]
      BY ONLY <1>1, <3>1 DEF j
    <3>4. b[i] = s[j]
      BY ONLY <1>4, <1>5, i \in 1..n DEF j
    <3> QED BY ONLY <3>2, <3>3, <3>4
  <2>3. \A i \in 1..(n + 1) : i = n + 1 \/ i \in 1..n
    BY ONLY <1>2
  <2>4. \A i \in 1..n : a[i] = b[i]
    BY <2>2
  <2> QED BY ONLY <2>1, <2>3, <2>4
<1>7. a = b
  BY ONLY <1>1, <1>3, <1>5, <1>6, SeqEqual
<1> QED BY <1>7 DEF a, b, t, r

-----------------------------------------------------------------------------
(* A call means the last definition.                                       *)

\* The macros so far, and what is left to be read, are what the files say.
ReadSoFar == \E t \in Seq(Macros) : Leaves(files, loading, t) /\ Reverse(macros) \o t = Definitions

TextInv ==
  /\ Len(loading) <= opened
  /\ pc = "off" => macros = <<>> /\ loading = <<>>
  /\ pc = "ready" => loading = <<>>
  /\ opened < MaxOpen /\ pc \in {"loading", "ready"} => ReadSoFar

LEMMA InitTextInv == Init => TextInv
<1> SUFFICES ASSUME Init PROVE TextInv
  OBVIOUS
<1>1. loading = <<>> /\ macros = <<>> /\ opened = 0 /\ pc = "off"
  BY DEF Init
<1>2. Len(<<>>) = 0 /\ 0 <= 0
  OBVIOUS
<1> QED BY <1>1, <1>2 DEF TextInv

LEMMA DefinitionsStay ==
  ASSUME UNCHANGED files PROVE Definitions' = Definitions
<1>1. Definitions' = IF Global \in DOMAIN files' THEN Table(files')[MaxOpen][Global] ELSE <<>>
  BY DEF Definitions, Table, TableBody
<1> QED BY <1>1, DefinitionsAre

LEMMA OpenGlobal ==
  ASSUME MacroInv, TextInv, LreMacroInit PROVE TextInv'
<1>1. pc = "off" /\ pc' = "loading" /\ UNCHANGED <<files, macros, expanded>> /\ macros = <<>>
      /\ loading = <<>> /\ Open(<<>>, Global) /\ opened \in Nat /\ MaxOpen \in Nat
  BY MacroLimits DEF LreMacroInit, TextInv, MacroInv, LoadingType
<1>2. files \in FileSets
  BY DEF MacroInv, LoadingType
<1> DEFINE none == <<>>
<1>3. none \in Seq(Seq(Lines)) /\ Len(none) = 0 /\ none \in Seq(Macros)
  OBVIOUS
<1>4. Reverse(<<>>) = <<>>
  BY DEF Reverse
<1>5. CASE Global \in DOMAIN files /\ opened < MaxOpen
  <2> DEFINE f == files[Global]
             u == Text(f, Included(files, MaxOpen - 0)) \o none
             v == Text(f, Included(files, MaxOpen))
  <2>1. f \in Seq(Lines)
    BY <1>2, <1>5, FilesType
  <2>2. Append(none, f) = <<f>> /\ Len(<<f>>) = 1
    OBVIOUS
  <2>3. loading' = <<f>> /\ opened' = opened + 1
    BY <1>5, <1>1, <2>2 DEF Open
  <2>4. Leaves(files, none, none)
    BY LeavesNothing
  <2>5. Leaves(files, Append(none, f), Text(f, Included(files, MaxOpen - Len(none))) \o none)
    <3>1. Len(none) < MaxOpen
      BY <1>1, <1>3, <1>5
    <3> HIDE DEF none, f
    <3> QED BY <1>2, <1>3, <2>1, <2>4, <3>1, LeavesPush
  <2>6. MaxOpen \in 0..MaxOpen /\ MaxOpen - Len(none) = MaxOpen
    BY <1>1, <1>3
  <2>7. Including(Included(files, MaxOpen))
        /\ Table(files)[MaxOpen] = [g \in DOMAIN files |-> Text(files[g], Included(files, MaxOpen))]
    BY <1>2, <2>6, TableFacts
  <2>8. v \in Seq(Macros)
    <3> HIDE DEF f
    <3> QED BY <2>1, <2>7, TextType
  <2>9. Definitions = v
    BY <1>5, <2>7, DefinitionsAre
  <2> HIDE DEF v, f
  <2>10. v \o none = v /\ none \o v = v
    BY <2>8, ConcatEmptySeq
  <2>11. Leaves(files, <<f>>, v)
    <3>1. Leaves(files, <<f>>, v \o none)
      BY <2>2, <2>5, <2>6 DEF v
    <3> QED BY <2>10, <3>1
  <2>12. ReadSoFar'
    <3>1. Leaves(files', loading', v) /\ Reverse(macros') \o v = Definitions'
      BY <1>1, <1>4, <2>3, <2>9, <2>10, <2>11, DefinitionsStay
    <3> QED BY <2>8, <3>1 DEF ReadSoFar
  <2>13. Len(loading') <= opened'
    BY <1>1, <2>2, <2>3
  <2> QED BY <1>1, <2>12, <2>13 DEF TextInv
<1>6. CASE ~(Global \in DOMAIN files /\ opened < MaxOpen)
  <2>1. loading' = <<>> /\ opened' = opened
    BY <1>1, <1>6 DEF Open
  <2>2. ASSUME opened' < MaxOpen PROVE ReadSoFar'
    <3>1. Definitions = <<>>
      BY <1>6, <2>1, <2>2, DefinitionsAre
    <3>2. Leaves(files', loading', none)
      BY <2>1, LeavesNothing
    <3>3. none \o none = none
      BY <1>3, ConcatEmptySeq
    <3>4. Reverse(macros') \o none = Definitions'
      BY <1>1, <1>4, <3>1, <3>3, DefinitionsStay
    <3> QED BY <1>3, <3>2, <3>4 DEF ReadSoFar
  <2>3. Len(loading') <= opened'
    BY <1>1, <1>3, <2>1
  <2> QED BY <1>1, <2>1, <2>2, <2>3 DEF TextInv
<1> QED BY <1>5, <1>6

\* A line of a file has been read, and what it says is in the table: before it is
\* said, before what the line leaves is read.
LEMMA LineStep ==
  ASSUME LoadingType, loading # <<>>, Len(loading) <= opened, opened < MaxOpen,
         NEW lines, lines = Last(loading), lines # <<>>, NEW rest,
         rest = SubSeq(lines, LineEnd(lines) + 1, Len(lines)), NEW u, Leaves(files, loading, u)
  PROVE  \E v \in Seq(Macros) :
           /\ Leaves(files, Frames(rest), v)
           /\ u = Says(Line(lines), Included(files, MaxOpen + 1 - Len(loading))) \o v
<1> DEFINE n == Len(loading)
           d == MaxOpen + 1 - n
           inc == Included(files, d)
<1>1. /\ files \in FileSets /\ loading \in Seq(Seq(Lines)) /\ lines \in Seq(Lines)
      /\ Below \in Seq(Seq(Lines)) /\ Len(Below) = n - 1
      /\ \A i \in 1..(n - 1) : Below[i] = loading[i]
  BY FramesType DEF LoadingType
<1>2. n \in Nat \ {0} /\ opened \in Nat /\ MaxOpen \in Nat /\ n <= opened
  BY FramesType, MacroLimits DEF LoadingType
<1>3. rest \in Seq(Lines) /\ Line(lines) \in Seq(Tokens)
  BY <1>1, ReadLineType
<1>4. PICK t \in Seq(Macros) : Leaves(files, Below, t) /\ u = Text(lines, inc) \o t
  <2>1. loading \in Seq(Seq(Lines)) /\ loading # <<>> /\ Below \in Seq(Seq(Lines))
        /\ files \in FileSets /\ Leaves(files, loading, u)
    BY <1>1
  <2>2. Under(Below, loading)
    BY <1>1 DEF Under
  <2>3. LeavesBelow(files, loading, Below, u)
    BY ONLY <2>1, <2>2, LeavesPop
  <2> QED BY <2>3 DEF LeavesBelow
<1> HIDE DEF n
<1>5. d \in 0..MaxOpen /\ Len(Below) < MaxOpen /\ MaxOpen - Len(Below) = d
  BY <1>1, <1>2
<1>6. Including(inc)
  <2> HIDE DEF d
  <2> QED BY <1>1, <1>5, TableFacts
<1> HIDE DEF d
<1>7. Text(lines, inc) = Says(Line(lines), inc) \o Text(rest, inc)
  <2> HIDE DEF inc
  <2> QED BY <1>1, <1>6, TextSplit
<1> DEFINE a == Says(Line(lines), inc)
           b == Text(rest, inc)
           v == b \o t
<1>8. a \in Seq(Macros) /\ b \in Seq(Macros)
  <2> HIDE DEF inc
  <2> QED BY <1>3, <1>6, SaysType, TextType
<1>9. Leaves(files, Frames(rest), v)
  <2>1. Leaves(files, Append(Below, rest), Text(rest, Included(files, MaxOpen - Len(Below))) \o t)
    BY <1>1, <1>3, <1>4, <1>5, LeavesPush
  <2>2. Frames(rest) = Append(Below, rest)
    BY DEF Frames, Below
  <2> QED BY <1>5, <2>1, <2>2
<1> HIDE DEF a, b
<1>10. v \in Seq(Macros)
  BY <1>4, <1>8
<1>11. (a \o b) \o t = a \o v
  <2>1. Associative(Macros)
    BY ONLY Assoc
  <2>2. \A x, y, z \in Seq(Macros) : (x \o y) \o z = x \o (y \o z)
    BY ONLY <2>1 DEF Associative
  <2> QED BY ONLY <1>4, <1>8, <2>2
<1>12. u = a \o v
  BY <1>4, <1>7, <1>11 DEF a, b
<1> HIDE DEF v
<1> QED BY <1>9, <1>10, <1>12 DEF a, inc, d, n

LEMMA ReadLine ==
  ASSUME MacroInv, TextInv, ConfLoadLine PROVE TextInv'
<1> DEFINE lines == Last(loading)
           rest == SubSeq(lines, LineEnd(lines) + 1, Len(lines))
           toks == Line(lines)
<1>1. /\ pc = "loading" /\ loading # <<>> /\ lines # <<>> /\ UNCHANGED <<files, expanded>>
      /\ ConfParse(toks, rest)
  BY DEF ConfLoadLine
<1>2. LoadingType /\ MacrosType /\ files \in FileSets /\ Len(loading) <= opened
      /\ opened \in Nat /\ MaxOpen \in Nat
  BY MacroLimits DEF MacroInv, TextInv, LoadingType
<1>3. lines \in Seq(Lines) /\ Len(loading) \in Nat \ {0}
  BY <1>1, <1>2, FramesType
<1>4. rest \in Seq(Lines) /\ toks \in Seq(Tokens)
  <2> HIDE DEF lines
  <2> QED BY <1>1, <1>3, ReadLineType
<1> DEFINE n == Len(loading)
           d == MaxOpen + 1 - n
           inc == Included(files, d)
<1>5. Frames(rest) \in Seq(Seq(Lines)) /\ Len(Frames(rest)) = n
  <2> HIDE DEF rest, n
  <2>1. Frames(rest) \in Seq(Seq(Lines)) /\ Below \in Seq(Seq(Lines)) /\ Len(Below) = n - 1
    BY <1>1, <1>2, <1>4, FramesType DEF n
  <2>2. Len(Append(Below, rest)) = Len(Below) + 1
    BY <2>1
  <2>3. Frames(rest) = Append(Below, rest)
    BY DEF Frames, Below
  <2>4. n \in Nat /\ (n - 1) + 1 = n
    BY <1>3 DEF n
  <2> QED BY <2>1, <2>2, <2>3, <2>4
<1>6. opened < MaxOpen =>
        \E v \in Seq(Macros) : /\ Leaves(files, Frames(rest), v)
                               /\ Reverse(macros) \o (Says(toks, inc) \o v) = Definitions
  <2> SUFFICES ASSUME opened < MaxOpen
               PROVE  \E v \in Seq(Macros) : /\ Leaves(files, Frames(rest), v)
                                             /\ Reverse(macros) \o (Says(toks, inc) \o v) = Definitions
    OBVIOUS
  <2>1. PICK u \in Seq(Macros) : Leaves(files, loading, u) /\ Reverse(macros) \o u = Definitions
    BY <1>1 DEF TextInv, ReadSoFar
  <2>2. PICK v \in Seq(Macros) : Leaves(files, Frames(rest), v) /\ u = Says(toks, inc) \o v
    BY <1>1, <1>2, <2>1, LineStep
  <2> QED BY <2>1, <2>2
<1> HIDE DEF lines, rest, toks, inc
<1>7. CASE /\ Says(toks, inc) = <<>> /\ loading' = Frames(rest) /\ UNCHANGED <<opened, macros, pc>>
  <2>1. ASSUME opened < MaxOpen PROVE ReadSoFar'
    <3>1. PICK v \in Seq(Macros) : /\ Leaves(files, Frames(rest), v)
                                   /\ Reverse(macros) \o (Says(toks, inc) \o v) = Definitions
      BY <1>6, <2>1
    <3>2. Says(toks, inc) \o v = v
      BY <1>7, ConcatEmptySeq
    <3> QED BY <1>1, <1>7, <3>1, <3>2, DefinitionsStay DEF ReadSoFar
  <2> QED BY <1>1, <1>2, <1>5, <1>7, <2>1 DEF TextInv
<1>8. CASE Ignored(toks)
  <2>1. Says(toks, inc) = <<>>
    BY <1>8 DEF Says
  <2>2. loading' = Frames(rest) /\ UNCHANGED <<opened, macros, pc>>
    BY <1>1, <1>8 DEF ConfParse
  <2> QED BY <1>7, <2>1, <2>2
<1>9. CASE ~Ignored(toks) /\ Include(toks, rest)
  <2>1. UNCHANGED <<macros, pc>> /\ IsWord(toks[1], <<"include">>)
    BY <1>9 DEF Include
  <2>2. ~IsWord(toks[1], <<"define">>)
    <3>1. <<"include">> # <<"define">>
      <4>1. <<"include">>[1] # <<"define">>[1]
        OBVIOUS
      <4> QED BY <4>1
    <3> QED BY <2>1, <3>1 DEF IsWord
  <2> DEFINE named == Len(toks) > 1 /\ toks[2].type = "string"
             name == toks[2].word
  <2>3. Says(toks, inc) = IF named /\ name \in DOMAIN inc THEN inc[name] ELSE <<>>
    BY <1>9, <2>2 DEF Says
  <2>4. IF named THEN Open(Frames(rest), name) ELSE loading' = Frames(rest) /\ UNCHANGED opened
    BY <1>9 DEF Include
  <2> HIDE DEF named, name
  <2>5. CASE ~named
    <3>1. Says(toks, inc) = <<>> /\ loading' = Frames(rest) /\ UNCHANGED opened
      BY <2>3, <2>4, <2>5
    <3> QED BY <1>7, <2>1, <3>1
  <2>6. CASE named /\ ~(opened < MaxOpen)
    <3>1. loading' = Frames(rest) /\ UNCHANGED opened
      BY <2>4, <2>6 DEF Open
    <3> QED BY <1>1, <1>2, <1>5, <2>1, <2>6, <3>1 DEF TextInv
  <2>7. CASE named /\ opened < MaxOpen
    <3>1. d \in 1..MaxOpen /\ d - 1 = MaxOpen - n /\ n < MaxOpen
      <4> HIDE DEF n
      <4>1. n \in Nat /\ n # 0 /\ n <= opened
        BY <1>2, <1>3 DEF n
      <4> QED BY ONLY <1>2, <2>7, <4>1
    <3>2. /\ DOMAIN inc = DOMAIN files
          /\ \A f \in DOMAIN files : inc[f] = Text(files[f], Included(files, d - 1))
      <4> HIDE DEF d
      <4> QED BY <1>2, <3>1, IncludedIs DEF inc
    <3>3. CASE name \notin DOMAIN files
      <4>1. Says(toks, inc) = <<>> /\ loading' = Frames(rest) /\ UNCHANGED opened
        BY <2>3, <2>4, <2>7, <3>2, <3>3 DEF Open
      <4> QED BY <1>7, <2>1, <4>1
    <3>4. CASE name \in DOMAIN files
      <4>1. loading' = Append(Frames(rest), files[name]) /\ opened' = opened + 1
        BY <2>4, <2>7, <3>4 DEF Open
      <4>2. files[name] \in Seq(Lines)
        BY <1>2, <3>4, FilesType
      <4>3. Says(toks, inc) = Text(files[name], Included(files, MaxOpen - n))
        BY <2>3, <2>7, <3>1, <3>2, <3>4
      <4>4. Len(loading') = n + 1
        <5> DEFINE F == Seq(Lines)
                   f == files[name]
                   s == Frames(rest)
        <5> HIDE DEF F, f, s, n
        <5>1. s \in Seq(F) /\ f \in F /\ Len(s) = n
          BY <1>5, <4>2 DEF F, f, s
        <5>2. Len(Append(s, f)) = n + 1
          BY <5>1
        <5> QED BY <4>1, <5>2 DEF f, s
      <4>5. PICK v \in Seq(Macros) : /\ Leaves(files, Frames(rest), v)
                                     /\ Reverse(macros) \o (Says(toks, inc) \o v) = Definitions
        BY <1>6, <2>7
      <4> DEFINE s == Frames(rest)
                 w == Text(files[name], Included(files, MaxOpen - n)) \o v
      <4>6. Leaves(files, loading', w)
        <5>1. s \in Seq(Seq(Lines)) /\ Len(s) = n /\ n < MaxOpen /\ Leaves(files, s, v)
          BY <1>5, <3>1, <4>5
        <5> HIDE DEF s, n
        <5>2. Leaves(files, Append(s, files[name]),
                     Text(files[name], Included(files, MaxOpen - Len(s))) \o v)
          BY <1>2, <4>2, <5>1, LeavesPush
        <5> QED BY <4>1, <5>1, <5>2 DEF s
      <4>7. Reverse(macros) \o w = Definitions
        BY <4>3, <4>5
      <4>8. loading' \in Seq(Seq(Lines))
        BY <1>2, <1>5, <2>4, <2>7, OpenType
      <4>9. w \in Seq(Macros)
        <5> HIDE DEF w
        <5> QED BY <4>6, <4>8, LeavesType
      <4> HIDE DEF w
      <4>10. ReadSoFar'
        BY <1>1, <2>1, <4>6, <4>7, <4>9, DefinitionsStay DEF ReadSoFar
      <4>11. Len(loading') <= opened'
        <5> HIDE DEF n
        <5>1. n <= opened /\ n \in Nat
          BY <1>2, <1>3 DEF n
        <5> QED BY ONLY <1>2, <4>1, <4>4, <5>1
      <4> QED BY <1>1, <2>1, <4>10, <4>11 DEF TextInv
    <3> QED BY <3>3, <3>4
  <2> QED BY <2>5, <2>6, <2>7
<1>10. CASE ~Ignored(toks) /\ Define(toks, rest)
  <2>1. loading' = Frames(rest) /\ UNCHANGED opened /\ toks # <<>> /\ IsWord(toks[1], <<"define">>)
    BY <1>10 DEF Define, Ignored
  <2>2. Says(toks, inc) = SetToSeq(Parsed(Tail(toks)))
    BY <1>10, <2>1 DEF Says
  <2>3. CASE Parsed(Tail(toks)) = {} /\ UNCHANGED <<macros, pc>>
    <3>1. Says(toks, inc) = <<>>
      BY <2>2, <2>3, SetToSeqNone
    <3> QED BY <1>7, <2>1, <2>3, <3>1
  <2>4. ASSUME NEW m \in Macros, Parsed(Tail(toks)) = {m}, macros' = <<m>> \o macros,
               pc' = IF Len(m.token) > 2 * ArgcMax + 1 THEN "overflow" ELSE pc
        PROVE  TextInv'
    <3>1. Says(toks, inc) = <<m>>
      BY <2>2, <2>4, SetToSeqOne
    <3>2. ASSUME opened < MaxOpen PROVE ReadSoFar'
      <4>1. PICK v \in Seq(Macros) : /\ Leaves(files, Frames(rest), v)
                                     /\ Reverse(macros) \o (Says(toks, inc) \o v) = Definitions
        BY <1>6, <3>2
      <4> DEFINE M == Macros
                 r == Reverse(macros)
                 c == <<m>>
      <4>2. r \in Seq(M) /\ Reverse(c \o macros) = r \o c
        <5>1. m \in M /\ macros \in Seq(M)
          BY <1>2 DEF MacrosType
        <5> HIDE DEF M
        <5> QED BY <5>1, ReverseFacts, ReverseCons
      <4>3. c \in Seq(M) /\ v \in Seq(M)
        <5>1. m \in M /\ v \in Seq(M)
          BY <4>1
        <5> HIDE DEF M
        <5> QED BY <5>1
      <4> HIDE DEF M, r, c
      <4>4. (r \o c) \o v = r \o (c \o v)
        <5>1. Associative(M)
          BY ONLY Assoc
        <5>2. \A x, y, z \in Seq(M) : (x \o y) \o z = x \o (y \o z)
          BY ONLY <5>1 DEF Associative
        <5> QED BY ONLY <4>2, <4>3, <5>2
      <4>5. Reverse(macros') \o v = Definitions
        BY <2>4, <3>1, <4>1, <4>2, <4>4 DEF r, c
      <4> QED BY <1>1, <2>1, <4>1, <4>5, DefinitionsStay DEF ReadSoFar
    <3>3. pc' # "off" /\ pc' # "ready"
      BY <1>1, <2>4
    <3>4. Len(loading') <= opened'
      BY <1>2, <1>5, <2>1
    <3> QED BY <2>1, <3>2, <3>3, <3>4 DEF TextInv
  <2> QED BY <1>4, <1>10, <2>1, <2>3, <2>4, DefineAdds
<1> QED BY <1>1, <1>8, <1>9, <1>10 DEF ConfParse

LEMMA ReadEnd ==
  ASSUME MacroInv, TextInv, ConfLoadEnd PROVE TextInv'
<1>1. pc = "loading" /\ UNCHANGED <<files, opened, macros, expanded>>
      /\ \/ loading = <<>> /\ pc' = "ready" /\ UNCHANGED loading
         \/ loading # <<>> /\ Last(loading) = <<>> /\ loading' = Below /\ UNCHANGED pc
  BY DEF ConfLoadEnd, Below
<1>2. LoadingType /\ files \in FileSets /\ Len(loading) <= opened
      /\ opened \in Nat /\ MaxOpen \in Nat
  BY MacroLimits DEF MacroInv, TextInv, LoadingType
<1>3. CASE loading = <<>> /\ pc' = "ready" /\ UNCHANGED loading
  <2>1. opened < MaxOpen => ReadSoFar'
    BY <1>1, <1>3, DefinitionsStay DEF TextInv, ReadSoFar
  <2> QED BY <1>1, <1>3, <2>1 DEF TextInv
<1>4. CASE loading # <<>> /\ Last(loading) = <<>> /\ loading' = Below /\ UNCHANGED pc
  <2> DEFINE n == Len(loading)
             d == MaxOpen + 1 - n
  <2>1. /\ loading \in Seq(Seq(Lines)) /\ Below \in Seq(Seq(Lines)) /\ Under(Below, loading)
        /\ Len(Below) = n - 1 /\ n \in Nat \ {0}
    BY <1>2, <1>4, FramesType DEF LoadingType, Under
  <2>2. ASSUME opened < MaxOpen PROVE ReadSoFar'
    <3>1. PICK u \in Seq(Macros) : Leaves(files, loading, u) /\ Reverse(macros) \o u = Definitions
      BY <1>1, <2>2 DEF TextInv, ReadSoFar
    <3>2. LeavesBelow(files, loading, Below, u)
      BY ONLY <1>2, <1>4, <2>1, <3>1, LeavesPop
    <3>3. PICK t \in Seq(Macros) : Leaves(files, Below, t) /\ u = Text(<<>>, Included(files, d)) \o t
      BY <1>4, <3>2 DEF LeavesBelow
    <3>4. d \in 0..MaxOpen
      <4> HIDE DEF n
      <4>1. n \in Nat /\ n # 0 /\ n <= opened
        BY <1>2, <2>1 DEF n
      <4> QED BY ONLY <1>2, <2>2, <4>1
    <3>5. Text(<<>>, Included(files, d)) = <<>>
      <4> HIDE DEF d
      <4>1. Including(Included(files, d))
        BY <1>2, <3>4, TableFacts
      <4> QED BY <4>1, TextEnd
    <3>6. <<>> \o t = t
      BY <3>3, ConcatEmptySeq
    <3>7. u = t
      BY <3>3, <3>5, <3>6
    <3> QED BY <1>1, <1>4, <3>1, <3>3, <3>7, DefinitionsStay DEF ReadSoFar
  <2>3. Len(loading') <= opened'
    <3> HIDE DEF n
    <3>1. n \in Nat /\ n <= opened /\ n - 1 <= n
      BY <1>2, <2>1 DEF n
    <3> QED BY <1>1, <1>2, <1>4, <2>1, <3>1
  <2> QED BY <1>1, <1>4, <2>2, <2>3 DEF TextInv
<1> QED BY <1>1, <1>3, <1>4

LEMMA TextStep == MacroInv /\ TextInv /\ [Next]_vars => TextInv'
<1> SUFFICES ASSUME MacroInv, TextInv, [Next]_vars PROVE TextInv'
  OBVIOUS
<1>1. CASE LreMacroInit
  BY <1>1, OpenGlobal
<1>2. CASE ConfLoadLine
  BY <1>2, ReadLine
<1>3. CASE ConfLoadEnd
  BY <1>3, ReadEnd
<1>4. CASE UNCHANGED <<files, loading, opened, macros, pc>>
  BY <1>4, DefinitionsStay DEF TextInv, ReadSoFar
<1>5. ASSUME NEW call \in Calls, PreprocessContent(call) PROVE TextInv'
  BY <1>4, <1>5 DEF PreprocessContent
<1> QED BY <1>1, <1>2, <1>3, <1>4, <1>5 DEF Next, LoadStep, vars

LEMMA TextInvariant == Spec => []TextInv
BY InitTextInv, TextStep, MacroInvariant, InitMacroInv, MacroStep, PTL DEF Spec

\* What is at the last of some places.
Latest(all, places) == all[CHOOSE k \in places : \A j \in places : j <= k]

\* lre_find_macro, which takes the first macro that fits of a list with the newest
\* first, takes the last that fits in the order of the text.
LEMMA FirstIsLast ==
  ASSUME NEW S, NEW s \in Seq(S), NEW all, all = Reverse(s), NEW fits, NEW places,
         fits \subseteq 1..Len(s), places = {k \in DOMAIN all : (Len(s) - k) + 1 \in fits}
  PROVE  /\ fits = {} <=> places = {}
         /\ fits # {} => Min(fits) \in fits /\ Latest(all, places) = s[Min(fits)]
<1> DEFINE n == Len(s)
           first == Min(fits)
           last == (n - first) + 1
           Greatest(k) == \A j \in places : j <= k
<1>1. n \in Nat
  OBVIOUS
<1>2. DOMAIN all = 1..n /\ \A k \in 1..n : all[k] = s[(n - k) + 1]
  <2>1. all \in Seq(S) /\ Len(all) = n /\ \A k \in 1..n : all[k] = s[(n - k) + 1]
    BY ReverseFacts
  <2> HIDE DEF n
  <2> QED BY <2>1
<1> HIDE DEF n
<1>3. fits \subseteq 1..n /\ places = {k \in 1..n : (n - k) + 1 \in fits}
  BY <1>2 DEF n
<1>4. \A i \in fits : (n - i) + 1 \in places
  <2> SUFFICES ASSUME NEW i \in fits PROVE (n - i) + 1 \in places
    OBVIOUS
  <2>1. i \in 1..n
    BY <1>3
  <2>2. (n - i) + 1 \in 1..n /\ (n - ((n - i) + 1)) + 1 = i
    BY ONLY <1>1, <2>1
  <2> QED BY <1>3, <2>2
<1>5. \A k \in places : k \in 1..n /\ (n - k) + 1 \in fits
  BY <1>3
<1>6. fits = {} <=> places = {}
  BY <1>4, <1>5
<1>7. ASSUME fits # {} PROVE first \in fits /\ all[CHOOSE k \in places : Greatest(k)] = s[first]
  <2>1. fits \in SUBSET Nat
    BY <1>1, <1>3
  <2>2. first \in fits /\ \A j \in fits : first <= j
    BY <1>7, <2>1, MinIsLeast
  <2> HIDE DEF first
  <2>3. first \in 1..n
    BY <1>3, <2>2
  <2>4. last \in places /\ last \in 1..n /\ (n - last) + 1 = first
    <3>1. last \in places
      BY <1>4, <2>2
    <3>2. last \in 1..n /\ (n - last) + 1 = first
      BY ONLY <1>1, <2>3
    <3> QED BY <3>1, <3>2
  <2>5. ASSUME NEW j \in places PROVE j <= last
    <3>1. j \in 1..n /\ first <= (n - j) + 1
      BY <1>5, <2>2
    <3> QED BY ONLY <1>1, <2>3, <3>1
  <2> DEFINE k == CHOOSE k \in places : Greatest(k)
  <2>6. k \in places /\ Greatest(k)
    <3>1. last \in places /\ Greatest(last)
      BY <2>4, <2>5
    <3> HIDE DEF Greatest, last
    <3> QED BY <3>1
  <2> HIDE DEF k, last
  <2>7. k = last
    <3>1. k <= last /\ last <= k
      BY <2>4, <2>5, <2>6
    <3>2. k \in 1..n
      BY <1>5, <2>6
    <3> QED BY ONLY <1>1, <2>4, <3>1, <3>2
  <2>8. all[last] = s[first]
    BY <1>2, <2>4
  <2> QED BY <2>2, <2>7, <2>8 DEF k
<1> QED BY <1>6, <1>7 DEF first, Latest

\* A call means the last definition of its name with so many parameters, in the order
\* of the text with the text of a file in the place of its include, as long as files
\* can be opened (lre_macro_conf_load, lre_macro_add, lre_find_macro).
THEOREM CallsMeanTheLastDefinition == Spec => []CallsMeanLastDefinition
<1>1. MacroInv /\ TextInv => CallsMeanLastDefinition
  <2> DEFINE call == expanded.call
             all == Definitions
             places == {k \in DOMAIN all : all[k].name = call.name
                                           /\ Len(all[k].params) = Len(call.args)}
             fits == {i \in 1..Len(macros) : macros[i].name = call.name
                                             /\ Len(macros[i].params) = Len(call.args)}
  <2> SUFFICES ASSUME MacroInv, TextInv, expanded # NoMacro, opened < MaxOpen
               PROVE  expanded.macro = IF places = {} THEN NoMacro ELSE Latest(all, places)
    BY DEF CallsMeanLastDefinition, Latest
  <2>1. pc = "ready" /\ \E c \in Calls : expanded = Expanded(c)
    BY DEF MacroInv, LastCall
  <2>2. PICK c \in Calls : expanded = Expanded(c)
    BY <2>1
  <2>3. call = c /\ expanded.macro = IF FindMacro(c) = 0 THEN NoMacro ELSE macros[FindMacro(c)]
    <3> DEFINE k == FindMacro(c)
    <3>1. expanded = IF k = 0 THEN [call |-> c, macro |-> NoMacro, code |-> <<>>]
                     ELSE [call |-> c, macro |-> macros[k], code |-> CreateCode(macros[k], c.args)]
      BY <2>2 DEF Expanded
    <3> HIDE DEF k
    <3>2. CASE k = 0
      BY <3>1, <3>2 DEF k
    <3>3. CASE k # 0
      BY <3>1, <3>3 DEF k
    <3> QED BY <3>2, <3>3
  <2>4. FindMacro(c) = IF fits # {} THEN Min(fits) ELSE 0
    BY <2>3 DEF FindMacro, SelectInSeq
  <2>5. macros \in Seq(Macros) /\ loading = <<>> /\ ReadSoFar
    BY <2>1 DEF MacroInv, MacrosType, TextInv
  <2>6. all = Reverse(macros)
    <3>1. PICK t \in Seq(Macros) : Leaves(files, loading, t) /\ Reverse(macros) \o t = Definitions
      BY <2>5 DEF ReadSoFar
    <3>2. t = <<>>
      BY <2>5, <3>1, LeavesNothing
    <3> DEFINE r == Reverse(macros)
               M == Macros
    <3>3. r \in Seq(M)
      <4> HIDE DEF M
      <4>1. macros \in Seq(M)
        BY <2>5 DEF M
      <4> QED BY <4>1, ReverseFacts
    <3> HIDE DEF r, M
    <3>4. r \o <<>> = r
      BY <3>3, ConcatEmptySeq
    <3> QED BY <3>1, <3>2, <3>4 DEF r
  <2>7. Len(macros) \in Nat /\ DOMAIN all = 1..Len(macros)
        /\ \A k \in 1..Len(macros) : all[k] = macros[(Len(macros) - k) + 1]
    BY <2>5, <2>6 DEF Reverse
  <2>8. places = {k \in DOMAIN all : (Len(macros) - k) + 1 \in fits}
    <3> DEFINE n == Len(macros)
    <3> HIDE DEF all, call
    <3>1. \A k \in 1..n : (n - k) + 1 \in 1..n
      <4>1. n \in Nat
        BY <2>7
      <4> HIDE DEF n
      <4> QED BY <4>1
    <3> HIDE DEF n
    <3>2. \A k \in DOMAIN all : /\ (n - k) + 1 \in 1..n /\ all[k] = macros[(n - k) + 1]
      BY <2>7, <3>1 DEF n
    <3>3. fits = {i \in 1..n : macros[i].name = call.name /\ Len(macros[i].params) = Len(call.args)}
      BY DEF n
    <3> HIDE DEF fits
    <3>4. \A k \in DOMAIN all : (n - k) + 1 \in fits <=>
             (all[k].name = call.name /\ Len(all[k].params) = Len(call.args))
      BY <3>2, <3>3
    <3> QED BY <3>4 DEF n
  <2>9. fits \subseteq 1..Len(macros)
    OBVIOUS
  <2> HIDE DEF fits, places, all, call
  <2>10. /\ fits = {} <=> places = {}
         /\ fits # {} => Min(fits) \in fits /\ Latest(all, places) = macros[Min(fits)]
    BY ONLY <2>5, <2>6, <2>8, <2>9, FirstIsLast
  <2>11. fits # {} => FindMacro(c) # 0
    <3>1. \A i \in fits : i # 0
      BY <2>7, <2>9
    <3> QED BY <2>4, <2>10, <3>1
  <2> QED BY <2>3, <2>4, <2>10, <2>11
<1> QED BY <1>1, MacroInvariant, TextInvariant, PTL
=============================================================================

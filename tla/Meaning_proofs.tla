--------------------------- MODULE Meaning_proofs ---------------------------
(***************************************************************************)
(* The executor computes the meaning of the rule: every execution is one   *)
(* that RuleSemantics allows.                                              *)
(***************************************************************************)
EXTENDS Executor_proofs

-----------------------------------------------------------------------------
(* What a list means.                                                      *)

\* The first operand that ends a list is in error, or is a string.
Bad(t, list, operand, i) ==
  \/ operand[list[i]] \in {Rule!Error, "unknown"}
  \/ operand[list[i]] = "int" /\ i > 1 /\ t[list[i - 1]].opt # "arith"
Stops(t, list, operand) ==
  {i \in DOMAIN list : Bad(t, list, operand, i) \/ operand[list[i]] = "string"}

\* The first statement that decides a list.
Joined(t, list, i) == i = 1 \/ t[list[i - 1]].opt \in {"and", "or"}
Decisive(t, list, verdictOf) ==
  {i \in DOMAIN list : \/ i = Len(list) \/ ~Valid(verdictOf[list[i]])
                       \/ ~Joined(t, list, i)
                       \/ Decided(t[list[i]].opt, verdictOf[list[i]])}

LEMMA ListMeaning ==
  /\ \A t, list, operand :
       LET d == Rule!First(Stops(t, list, operand))
       IN  Rule!ListValue(t, list, operand) =
             IF list = <<>> THEN "unknown"
             ELSE IF Stops(t, list, operand) = {} THEN "int"
             ELSE IF Bad(t, list, operand, d) THEN Rule!Error ELSE "string"
  /\ \A t, list, verdictOf :
       LET d == Rule!First(Decisive(t, list, verdictOf))
       IN  Rule!ListVerdict(t, list, verdictOf) =
             IF list = <<>> THEN Uninit
             ELSE IF Valid(verdictOf[list[d]]) /\ Joined(t, list, d)
                  THEN verdictOf[list[d]] ELSE Dead
<1>1. ASSUME NEW t, NEW list, NEW operand
      PROVE  LET d == Rule!First(Stops(t, list, operand))
             IN  Rule!ListValue(t, list, operand) =
                   IF list = <<>> THEN "unknown"
                   ELSE IF Stops(t, list, operand) = {} THEN "int"
                   ELSE IF Bad(t, list, operand, d) THEN Rule!Error ELSE "string"
  BY DEF Rule!ListValue, Stops, Bad
<1>2. ASSUME NEW t, NEW list, NEW verdictOf
      PROVE  LET d == Rule!First(Decisive(t, list, verdictOf))
             IN  Rule!ListVerdict(t, list, verdictOf) =
                   IF list = <<>> THEN Uninit
                   ELSE IF Valid(verdictOf[list[d]]) /\ Joined(t, list, d)
                        THEN verdictOf[list[d]] ELSE Dead
  <2>1. Decisive(t, list, verdictOf) =
          {i \in DOMAIN list : \/ i = Len(list) \/ ~Rule!Valid(verdictOf[list[i]])
                               \/ ~(i = 1 \/ t[list[i - 1]].opt \in {"and", "or"})
                               \/ t[list[i]].opt = "and" /\ verdictOf[list[i]] = Rule!False
                               \/ t[list[i]].opt = "or" /\ verdictOf[list[i]] = Rule!True}
    BY DEF Decisive, Joined, Decided, Valid, Rule!Valid, Rule!False, Rule!True, False, True
  <2>2. /\ \A v : Valid(v) <=> Rule!Valid(v)
        /\ Uninit = Rule!Uninit /\ Dead = Rule!Dead
    BY DEF Valid, Rule!Valid, Rule!False, Rule!True, False, True, Uninit, Rule!Uninit,
           Dead, Rule!Dead
  <2> QED BY <2>1, <2>2 DEF Rule!ListVerdict, Joined
<1> QED BY <1>1, <1>2

LEMMA FirstIsLeast ==
  ASSUME NEW S \in SUBSET Nat, S # {}
  PROVE  Rule!First(S) \in S /\ \A j \in S : Rule!First(S) <= j
BY LeastNatural DEF Rule!First

LEMMA FirstIs ==
  ASSUME NEW S \in SUBSET Nat, NEW d \in S, \A j \in S : d <= j
  PROVE  Rule!First(S) = d
<1>1. Rule!First(S) \in S /\ Rule!First(S) <= d
  BY FirstIsLeast
<1>2. Rule!First(S) \in Nat /\ d \in Nat /\ d <= Rule!First(S)
  BY <1>1
<1> QED BY <1>1, <1>2

\* The decision of a list, at the first member that decides it.
LEMMA DecidedAt ==
  ASSUME NEW t, NEW list \in Seq(DOMAIN t), NEW verdictOf, NEW i \in DOMAIN list,
         i \in Decisive(t, list, verdictOf),
         \A j \in 1..(i - 1) : j \notin Decisive(t, list, verdictOf)
  PROVE  Rule!ListVerdict(t, list, verdictOf) =
           IF Valid(verdictOf[list[i]]) /\ Joined(t, list, i)
           THEN verdictOf[list[i]] ELSE Dead
<1>1. DOMAIN list = 1..Len(list) /\ Len(list) \in Nat /\ list # <<>>
  BY LenProperties, EmptySeq
<1>2. Decisive(t, list, verdictOf) \in SUBSET (1..Len(list))
  BY <1>1 DEF Decisive
<1>3. \A j \in Decisive(t, list, verdictOf) : i <= j
  BY <1>1, <1>2
<1>4. Rule!First(Decisive(t, list, verdictOf)) = i
  BY <1>1, <1>2, <1>3, FirstIs
<1> QED BY <1>1, <1>4, ListMeaning

\* The value of a list, at the first operand that ends it.
LEMMA ValueAt ==
  ASSUME NEW t, NEW list \in Seq(DOMAIN t), NEW operand, NEW i \in DOMAIN list,
         i \in Stops(t, list, operand),
         \A j \in 1..(i - 1) : j \notin Stops(t, list, operand)
  PROVE  Rule!ListValue(t, list, operand) =
           IF Bad(t, list, operand, i) THEN Rule!Error ELSE "string"
<1>1. DOMAIN list = 1..Len(list) /\ Len(list) \in Nat /\ list # <<>>
  BY LenProperties, EmptySeq
<1>2. Stops(t, list, operand) \in SUBSET (1..Len(list))
  BY <1>1 DEF Stops
<1>3. \A j \in Stops(t, list, operand) : i <= j
  BY <1>1, <1>2
<1>4. Rule!First(Stops(t, list, operand)) = i
  BY <1>1, <1>2, <1>3, FirstIs
<1> QED BY <1>1, <1>4, ListMeaning

-----------------------------------------------------------------------------
(* The recursive functions of the meaning exist: what a node means depends *)
(* on nodes behind it.                                                     *)

Kinds    == {"int", "string", "unknown", Rule!Error}
Outcomes == {False, True, Uninit, Dead}

\* What a list means depends on the meaning of its members.
LEMMA ListsAreLocal ==
  ASSUME NEW t, NEW list \in Seq(DOMAIN t), NEW f, NEW g,
         \A x \in Members(list) : f[x] = g[x]
  PROVE  /\ Rule!ListValue(t, list, f) = Rule!ListValue(t, list, g)
         /\ Rule!ListVerdict(t, list, f) = Rule!ListVerdict(t, list, g)
<1>1. \A i \in DOMAIN list : f[list[i]] = g[list[i]]
  BY DEF Members
<1>2. DOMAIN list = 1..Len(list) /\ Len(list) \in Nat /\ (list # <<>> => Len(list) > 0)
  BY LenProperties, EmptySeq
<1>3. Rule!ListValue(t, list, f) = Rule!ListValue(t, list, g)
  <2> DEFINE S == Stops(t, list, f)
             d == Rule!First(S)
  <2>1. Stops(t, list, g) = S
    BY <1>1 DEF Stops, Bad
  <2>2. S # {} => d \in DOMAIN list
    <3>1. S \in SUBSET Nat /\ S \subseteq DOMAIN list
      BY <1>2 DEF Stops
    <3> HIDE DEF S
    <3> QED BY <3>1, FirstIsLeast
  <2>3. S # {} => (Bad(t, list, f, d) <=> Bad(t, list, g, d))
    BY <1>1, <2>2 DEF Bad
  <2> HIDE DEF d
  <2>4. d = Rule!First(Stops(t, list, g)) /\ d = Rule!First(Stops(t, list, f))
    BY <2>1 DEF d
  <2> QED BY <2>1, <2>3, <2>4, ListMeaning
<1>4. Rule!ListVerdict(t, list, f) = Rule!ListVerdict(t, list, g)
  <2> DEFINE S == Decisive(t, list, f)
             d == Rule!First(S)
  <2>1. Decisive(t, list, g) = S
    BY <1>1 DEF Decisive
  <2>2. list # <<>> => d \in DOMAIN list
    <3>1. S \in SUBSET Nat /\ S \subseteq DOMAIN list /\ (list # <<>> => Len(list) \in S)
      BY <1>2 DEF Decisive
    <3> HIDE DEF S
    <3> QED BY <3>1, FirstIsLeast
  <2>3. list # <<>> => f[list[d]] = g[list[d]]
    BY <1>1, <2>2
  <2> HIDE DEF d
  <2>4. d = Rule!First(Decisive(t, list, g)) /\ d = Rule!First(Decisive(t, list, f))
    BY <2>1 DEF d
  <2> QED BY <2>3, <2>4, ListMeaning
<1> QED BY <1>3, <1>4

LEMMA ListsHaveMeaning ==
  ASSUME NEW t, NEW list, NEW f
  PROVE  /\ Rule!ListValue(t, list, f) \in Kinds
         /\ Rule!ListVerdict(t, list, f) \in Outcomes
BY ListMeaning DEF Kinds, Outcomes, Valid

\* A set of nodes with all their parts.
Closed(t, C) == C \subseteq DOMAIN t /\ \A n \in C : Parts(t, n) \subseteq C

LEMMA BehindIsClosed ==
  ASSUME NEW t \in Programs, NEW n \in DOMAIN t
  PROVE  Closed(t, {x \in DOMAIN t : n < x}) /\ Parts(t, n) \subseteq {x \in DOMAIN t : n < x}
<1>1. IsTree(t) /\ DOMAIN t = 1..Len(t) /\ Len(t) \in Nat
  BY ProgramsAssumption, TreeParts
<1>2. \A m \in DOMAIN t : Parts(t, m) \subseteq (m + 1)..Len(t)
  BY <1>1 DEF IsTree
<1>3. \A m \in DOMAIN t : Parts(t, m) \subseteq {x \in DOMAIN t : m < x}
  BY <1>1, <1>2
<1>4. ASSUME NEW m \in DOMAIN t, n < m, NEW x \in Parts(t, m) PROVE x \in DOMAIN t /\ n < x
  BY <1>1, <1>3, <1>4
<1> QED BY <1>3, <1>4 DEF Closed

LEMMA BetweenIsClosed ==
  ASSUME NEW t \in Programs, NEW q \in DOMAIN t, NEW y \in Parts(t, q)
  PROVE  Closed(t, {x \in DOMAIN t : q < x /\ x < y})
<1>1. IsTree(t) /\ DOMAIN t = 1..Len(t) /\ Len(t) \in Nat
  BY ProgramsAssumption, TreeParts
<1>2. y \in DOMAIN t
  BY BehindIsClosed
<1>3. ASSUME NEW n \in DOMAIN t, q < n, n < y, NEW x \in Parts(t, n)
      PROVE  x \in DOMAIN t /\ q < x /\ x < y
  <2>1. x \in DOMAIN t /\ n < x
    BY BehindIsClosed
  <2>2. x < y
    BY <1>1, <1>3 DEF IsTree
  <2> QED BY <1>1, <1>2, <1>3, <2>1, <2>2
<1> QED BY <1>3 DEF Closed

\* Two functions agree on a set of nodes.
Agree(C, f, g) == \A x \in C : f[x] = g[x]

LEMMA NodesAreLocal ==
  ASSUME NEW t \in Programs, NEW n \in DOMAIN t, NEW C, Closed(t, C), Parts(t, n) \subseteq C,
         NEW ans, NEW bns, ans[n] = bns[n], Agree(C, ans, bns),
         NEW f, NEW g, Agree(C, f, g)
  PROVE  /\ Rule!ArgsAccepted(t, n, ans, f) <=> Rule!ArgsAccepted(t, n, bns, g)
         /\ Rule!ListValue(t, t[n].kids, f) = Rule!ListValue(t, t[n].kids, g)
         /\ Rule!ListVerdict(t, t[n].kids, f) = Rule!ListVerdict(t, t[n].kids, g)
         /\ Rule!OperandOf(t, ans, f, n) = Rule!OperandOf(t, bns, g, n)
<1>1. \A m \in DOMAIN t : t[m].kids \in Seq(DOMAIN t) /\ t[m].args \in Seq(DOMAIN t)
  BY TreeParts
<1>2. ASSUME NEW m \in DOMAIN t, Parts(t, m) \subseteq C
      PROVE  /\ Rule!ListValue(t, t[m].kids, f) = Rule!ListValue(t, t[m].kids, g)
             /\ Rule!ListVerdict(t, t[m].kids, f) = Rule!ListVerdict(t, t[m].kids, g)
  <2>1. \A x \in Members(t[m].kids) : f[x] = g[x]
    BY <1>2 DEF Parts, Agree
  <2> QED BY <1>1, <2>1, ListsAreLocal
<1>3. ASSUME NEW k \in DOMAIN t[n].args
      PROVE  LET arg == t[n].args[k]
             IN  /\ ans[arg] = bns[arg]
                 /\ Rule!ListValue(t, t[arg].kids, f) = Rule!ListValue(t, t[arg].kids, g)
  <2>1. t[n].args[k] \in C /\ t[n].args[k] \in DOMAIN t /\ Parts(t, t[n].args[k]) \subseteq C
    BY DEF Parts, Members, Closed
  <2> QED BY <1>2, <2>1 DEF Agree
<1>4. Rule!ArgsAccepted(t, n, ans, f) <=> Rule!ArgsAccepted(t, n, bns, g)
  BY <1>3 DEF Rule!ArgsAccepted
<1>5. Rule!OperandOf(t, ans, f, n) = Rule!OperandOf(t, bns, g, n)
  BY <1>2, <1>4 DEF Rule!OperandOf
<1> QED BY <1>2, <1>4, <1>5

Operand(t, ans)   == Rule!Operands(t, ans)
VerdictAt(t, ans) == Rule!Verdicts(t, ans)

LEMMA OperandsExist ==
  ASSUME NEW t \in Programs, NEW ans
  PROVE  Operand(t, ans) = [n \in DOMAIN t |-> Rule!OperandOf(t, ans, Operand(t, ans), n)]
<1> DEFINE N == Len(t)
           body == [n \in 1..N |-> [f \in [1..N -> Kinds] |-> Rule!OperandOf(t, ans, f, n)]]
           Good(f) == f = [n \in DOMAIN t |-> Rule!OperandOf(t, ans, f, n)]
<1>1. DOMAIN t = 1..N /\ N \in Nat
  BY ProgramsAssumption, LenProperties DEF IsTree
<1>2. \A n, f : Rule!OperandOf(t, ans, f, n) \in Kinds
  BY ListsHaveMeaning DEF Rule!OperandOf, Kinds
<1>3. body \in [1..N -> [[1..N -> Kinds] -> Kinds]]
  BY <1>2
<1>4. \A n \in 1..N : \A f, g \in [1..N -> Kinds] :
        (\A p \in (n + 1)..N : f[p] = g[p]) => body[n][f] = body[n][g]
  <2> SUFFICES ASSUME NEW n \in 1..N, NEW f \in [1..N -> Kinds], NEW g \in [1..N -> Kinds],
                      \A p \in (n + 1)..N : f[p] = g[p]
               PROVE  body[n][f] = body[n][g]
    OBVIOUS
  <2> DEFINE C == {x \in DOMAIN t : n < x}
  <2>1. n \in DOMAIN t /\ Agree(C, f, g) /\ Agree(C, ans, ans)
    BY <1>1 DEF Agree
  <2>2. Closed(t, C) /\ Parts(t, n) \subseteq C
    BY <2>1, BehindIsClosed
  <2> HIDE DEF C
  <2>3. Rule!OperandOf(t, ans, f, n) = Rule!OperandOf(t, ans, g, n)
    BY <2>1, <2>2, NodesAreLocal
  <2> QED BY <2>3
<1>5. \E f \in [1..N -> Kinds] : Solves(f, body, N)
  <2> HIDE DEF body, N
  <2>1. Kinds # {}
    BY DEF Kinds
  <2>2. LooksBehind(body, N, Kinds)
    BY <1>3, <1>4 DEF LooksBehind
  <2> QED BY <1>1, <2>1, <2>2, DescendingFunction
<1>6. PICK f \in [1..N -> Kinds] : \A n \in 1..N : f[n] = body[n][f]
  BY <1>5 DEF Solves
<1>7. Good(f)
  BY <1>1, <1>6
<1>8. Operand(t, ans) = CHOOSE h : Good(h)
  BY DEF Operand, Rule!Operands
<1>9. Good(Operand(t, ans))
  <2> HIDE DEF Good
  <2> QED BY <1>7, <1>8
<1> QED BY <1>9

LEMMA OperandsAre ==
  ASSUME NEW t \in Programs, NEW ans, NEW n \in DOMAIN t
  PROVE  Operand(t, ans)[n] = Rule!OperandOf(t, ans, Operand(t, ans), n)
<1> DEFINE f == Operand(t, ans)
<1>1. f = [m \in DOMAIN t |-> Rule!OperandOf(t, ans, f, m)]
  BY OperandsExist
<1> HIDE DEF f
<1>2. f[n] = Rule!OperandOf(t, ans, f, n)
  BY <1>1
<1> QED BY <1>2 DEF f

LEMMA VerdictIsLocal ==
  ASSUME NEW t \in Programs, NEW n \in DOMAIN t, NEW C, Closed(t, C), Parts(t, n) \subseteq C,
         NEW ans, NEW bns, ans[n] = bns[n], Agree(C, ans, bns),
         NEW o, NEW p, Agree(C, o, p),
         NEW f, NEW g, Agree(C, f, g)
  PROVE  Rule!VerdictOn(t, ans, o, f, n) = Rule!VerdictOn(t, bns, p, g, n)
<1>1. /\ Rule!ArgsAccepted(t, n, ans, o) <=> Rule!ArgsAccepted(t, n, bns, p)
      /\ Rule!ListValue(t, t[n].kids, o) = Rule!ListValue(t, t[n].kids, p)
  BY NodesAreLocal
<1>2. Rule!ListVerdict(t, t[n].kids, f) = Rule!ListVerdict(t, t[n].kids, g)
  BY NodesAreLocal
<1> QED BY <1>1, <1>2 DEF Rule!VerdictOn

LEMMA VerdictsExist ==
  ASSUME NEW t \in Programs, NEW ans
  PROVE  VerdictAt(t, ans) =
           [n \in DOMAIN t |-> Rule!VerdictOn(t, ans, Operand(t, ans), VerdictAt(t, ans), n)]
<1> DEFINE N == Len(t)
           o == Operand(t, ans)
           body == [n \in 1..N |-> [f \in [1..N -> Outcomes] |-> Rule!VerdictOn(t, ans, o, f, n)]]
           Good(f) == f = [n \in DOMAIN t |-> Rule!VerdictOn(t, ans, o, f, n)]
<1>1. DOMAIN t = 1..N /\ N \in Nat
  BY ProgramsAssumption, LenProperties DEF IsTree
<1>2. \A n, f : Rule!VerdictOn(t, ans, o, f, n) \in Outcomes
  <2> HIDE DEF o
  <2>1. \A a : Rule!VerdictOf(a) \in Outcomes /\ Rule!Dead \in Outcomes
               /\ Rule!True \in Outcomes /\ Rule!False \in Outcomes
    BY DEF Rule!VerdictOf, Rule!Dead, Rule!True, Rule!False, Outcomes, Dead, True, False
  <2> QED BY <2>1, ListsHaveMeaning DEF Rule!VerdictOn
<1>3. body \in [1..N -> [[1..N -> Outcomes] -> Outcomes]]
  <2> HIDE DEF o
  <2> QED BY <1>2
<1>4. \A n \in 1..N : \A f, g \in [1..N -> Outcomes] :
        (\A p \in (n + 1)..N : f[p] = g[p]) => body[n][f] = body[n][g]
  <2> SUFFICES ASSUME NEW n \in 1..N,
                      NEW f \in [1..N -> Outcomes], NEW g \in [1..N -> Outcomes],
                      \A p \in (n + 1)..N : f[p] = g[p]
               PROVE  body[n][f] = body[n][g]
    OBVIOUS
  <2> DEFINE C == {x \in DOMAIN t : n < x}
  <2> HIDE DEF o
  <2>1. n \in DOMAIN t /\ Agree(C, f, g) /\ Agree(C, ans, ans) /\ Agree(C, o, o)
    BY <1>1 DEF Agree
  <2>2. Closed(t, C) /\ Parts(t, n) \subseteq C
    BY <2>1, BehindIsClosed
  <2> HIDE DEF C
  <2>3. Rule!VerdictOn(t, ans, o, f, n) = Rule!VerdictOn(t, ans, o, g, n)
    BY <2>1, <2>2, VerdictIsLocal
  <2> QED BY <2>3
<1>5. \E f \in [1..N -> Outcomes] : Solves(f, body, N)
  <2> HIDE DEF body, N
  <2>1. Outcomes # {}
    BY DEF Outcomes
  <2>2. LooksBehind(body, N, Outcomes)
    BY <1>3, <1>4 DEF LooksBehind
  <2> QED BY <1>1, <2>1, <2>2, DescendingFunction
<1>6. PICK f \in [1..N -> Outcomes] : \A n \in 1..N : f[n] = body[n][f]
  BY <1>5 DEF Solves
<1>7. Good(f)
  BY <1>1, <1>6
<1>8. VerdictAt(t, ans) = CHOOSE h : Good(h)
  BY DEF VerdictAt, Operand, Rule!Verdicts
<1>9. Good(VerdictAt(t, ans))
  <2> HIDE DEF Good
  <2> QED BY <1>7, <1>8
<1> QED BY <1>9

LEMMA VerdictsAre ==
  ASSUME NEW t \in Programs, NEW ans, NEW n \in DOMAIN t
  PROVE  VerdictAt(t, ans)[n] = Rule!VerdictOn(t, ans, Operand(t, ans), VerdictAt(t, ans), n)
<1> DEFINE f == VerdictAt(t, ans)
<1>1. f = [m \in DOMAIN t |-> Rule!VerdictOn(t, ans, Operand(t, ans), f, m)]
  BY VerdictsExist
<1> HIDE DEF f
<1>2. f[n] = Rule!VerdictOn(t, ans, Operand(t, ans), f, n)
  BY <1>1
<1> QED BY <1>2 DEF f

\* What the callbacks answer elsewhere does not change what a node means.
LEMMA MeaningIsLocal ==
  ASSUME NEW t \in Programs, NEW C, Closed(t, C), NEW ans, NEW bns, Agree(C, ans, bns)
  PROVE  /\ Agree(C, Operand(t, ans), Operand(t, bns))
         /\ Agree(C, VerdictAt(t, ans), VerdictAt(t, bns))
<1> DEFINE N == Len(t)
           Upper(m) == {x \in C : x > N - m}
           S == {m \in Nat : /\ Agree(Upper(m), Operand(t, ans), Operand(t, bns))
                             /\ Agree(Upper(m), VerdictAt(t, ans), VerdictAt(t, bns))}
<1>1. DOMAIN t = 1..N /\ N \in Nat /\ C \subseteq 1..N
  <2>1. DOMAIN t = 1..N /\ N \in Nat
    BY ProgramsAssumption, LenProperties DEF IsTree
  <2> QED BY <2>1 DEF Closed
<1>2. 0 \in S
  <2>1. Upper(0) = {}
    <3>1. ASSUME NEW x \in C PROVE ~(x > N - 0)
      BY <1>1
    <3> HIDE DEF N
    <3> QED BY <3>1
  <2> HIDE DEF Upper
  <2> QED BY <2>1 DEF Agree
<1>3. ASSUME NEW m \in S PROVE m + 1 \in S
  <2> SUFFICES ASSUME NEW n \in Upper(m + 1)
               PROVE  /\ Operand(t, ans)[n] = Operand(t, bns)[n]
                      /\ VerdictAt(t, ans)[n] = VerdictAt(t, bns)[n]
    BY DEF Agree
  <2> DEFINE D == Upper(m)
             E == {x \in D : n < x}
  <2>1. n \in C /\ n \in DOMAIN t /\ n > N - (m + 1)
    BY <1>1
  <2>2. \A x \in Parts(t, n) : x \in C /\ n < x /\ x \in DOMAIN t
    BY <2>1, BehindIsClosed DEF Closed
  <2>3. Parts(t, n) \subseteq E
    BY <1>1, <2>1, <2>2
  <2>4. Closed(t, E)
    <3> SUFFICES ASSUME NEW x \in E, NEW y \in Parts(t, x) PROVE y \in E
      BY <1>1 DEF Closed
    <3>1. x \in C /\ x \in DOMAIN t /\ n < x /\ x > N - m
      BY <1>1
    <3>2. y \in C /\ x < y /\ y \in DOMAIN t
      BY <3>1, BehindIsClosed DEF Closed
    <3> QED BY <1>1, <2>1, <3>1, <3>2
  <2>5. /\ Agree(E, Operand(t, ans), Operand(t, bns))
        /\ Agree(E, VerdictAt(t, ans), VerdictAt(t, bns))
        /\ Agree(E, ans, bns) /\ ans[n] = bns[n]
    BY <2>1 DEF Agree
  <2> HIDE DEF E, D, S, Upper
  <2>6. Rule!OperandOf(t, ans, Operand(t, ans), n) = Rule!OperandOf(t, bns, Operand(t, bns), n)
    BY <2>1, <2>3, <2>4, <2>5, NodesAreLocal
  <2>7. Rule!VerdictOn(t, ans, Operand(t, ans), VerdictAt(t, ans), n)
          = Rule!VerdictOn(t, bns, Operand(t, bns), VerdictAt(t, bns), n)
    BY <2>1, <2>3, <2>4, <2>5, VerdictIsLocal
  <2> QED BY <2>1, <2>6, <2>7, OperandsAre, VerdictsAre
<1>4. S = Nat
  <2>1. S \in SUBSET Nat
    OBVIOUS
  <2> HIDE DEF S
  <2> QED BY <1>2, <1>3, <2>1, SetInduction
<1>5. Upper(N) = C
  <2>1. ASSUME NEW x \in C PROVE x > N - N
    BY <1>1
  <2> HIDE DEF N
  <2> QED BY <2>1
<1>6. N \in S
  <2> HIDE DEF S
  <2> QED BY <1>1, <1>4
<1> QED BY <1>5, <1>6

-----------------------------------------------------------------------------
(* What a node means, case by case.                                        *)

LEMMA OperandMeaning ==
  ASSUME NEW t \in Programs, NEW ans, NEW n \in DOMAIN t
  PROVE  LET o == Operand(t, ans) IN
         /\ t[n].type = "val" => o[n] = IF t[n].str THEN "string" ELSE "int"
         /\ t[n].type = "var" => o[n] = CASE ans[n] = "int"  -> "int"
                                          [] ans[n] = "heap" -> "string"
                                          [] OTHER           -> Rule!Error
         /\ t[n].type = "call" =>
              /\ ~Rule!ArgsAccepted(t, n, ans, o) => o[n] = Rule!Error
              /\ ans[n] \in {"null", "fail"} => o[n] = Rule!Error
              /\ Rule!ArgsAccepted(t, n, ans, o) =>
                   /\ ans[n] = "int"  => o[n] = "int"
                   /\ ans[n] = "heap" => o[n] = "string"
         /\ t[n].type = "valblock" => o[n] = Rule!ListValue(t, t[n].kids, o)
<1> DEFINE o == Operand(t, ans)
<1>1. o[n] = Rule!OperandOf(t, ans, o, n)
  BY OperandsAre
<1> HIDE DEF o
<1>2. /\ t[n].type = "val" => o[n] = IF t[n].str THEN "string" ELSE "int"
      /\ t[n].type = "valblock" => o[n] = Rule!ListValue(t, t[n].kids, o)
  BY <1>1 DEF Rule!OperandOf
<1>3. t[n].type = "var" => o[n] = CASE ans[n] = "int"  -> "int"
                                    [] ans[n] = "heap" -> "string"
                                    [] OTHER           -> Rule!Error
  BY <1>1 DEF Rule!OperandOf
<1>4. ASSUME t[n].type = "call", Rule!ArgsAccepted(t, n, ans, o)
      PROVE  o[n] = CASE ans[n] = "int"  -> "int"
                      [] ans[n] = "heap" -> "string"
                      [] OTHER           -> Rule!Error
  BY <1>1, <1>4 DEF Rule!OperandOf
<1>5. ASSUME t[n].type = "call", ~Rule!ArgsAccepted(t, n, ans, o)
      PROVE  o[n] = Rule!Error
  BY <1>1, <1>5 DEF Rule!OperandOf
<1> QED BY <1>2, <1>3, <1>4, <1>5 DEF o

LEMMA VerdictMeaning ==
  ASSUME NEW t \in Programs, NEW ans, NEW n \in DOMAIN t
  PROVE  LET o == Operand(t, ans)
             v == VerdictAt(t, ans)
             w == Rule!ListVerdict(t, t[n].kids, v)
         IN
         /\ t[n].type = "expr" =>
              v[n] = IF Rule!ListValue(t, t[n].kids, o) # Rule!Error
                     THEN VerdictOf(ans[n]) ELSE Dead
         /\ t[n].type = "func" =>
              v[n] = IF ans[n] = "ok" /\ Rule!ArgsAccepted(t, n, ans, o) THEN w ELSE Dead
         /\ t[n].type = "block" =>
              v[n] = IF t[n].neg THEN (IF w = False THEN True ELSE False) ELSE w
<1> DEFINE o == Operand(t, ans)
           v == VerdictAt(t, ans)
<1>1. v[n] = Rule!VerdictOn(t, ans, o, v, n)
  BY VerdictsAre
<1>2. /\ \A a : Rule!VerdictOf(a) = VerdictOf(a)
      /\ Rule!Dead = Dead /\ Rule!True = True /\ Rule!False = False
  BY DEF Rule!VerdictOf, VerdictOf, Rule!Dead, Rule!True, Rule!False, Dead, True, False
<1> HIDE DEF o, v
<1>3. t[n].type = "expr" =>
        v[n] = IF Rule!ListValue(t, t[n].kids, o) # Rule!Error THEN VerdictOf(ans[n]) ELSE Dead
  BY <1>1, <1>2 DEF Rule!VerdictOn
<1>4. t[n].type = "func" =>
        v[n] = IF ans[n] = "ok" /\ Rule!ArgsAccepted(t, n, ans, o)
               THEN Rule!ListVerdict(t, t[n].kids, v) ELSE Dead
  BY <1>1, <1>2 DEF Rule!VerdictOn
<1>5. t[n].type = "block" =>
        v[n] = IF t[n].neg
               THEN (IF Rule!ListVerdict(t, t[n].kids, v) = False THEN True ELSE False)
               ELSE Rule!ListVerdict(t, t[n].kids, v)
  BY <1>1, <1>2 DEF Rule!VerdictOn
<1> QED BY <1>3, <1>4, <1>5 DEF o, v

\* The answer of one callback changes nothing that is behind its node, and nothing
\* of what comes before the node in what it is a part of.
LEMMA AnswerIsLocal ==
  ASSUME NEW t \in Programs, NEW ans, NEW c \in DOMAIN t, NEW a
  PROVE  LET bns == [ans EXCEPT ![c] = a]
             Same(C) == /\ Agree(C, Operand(t, ans), Operand(t, bns))
                        /\ Agree(C, VerdictAt(t, ans), VerdictAt(t, bns))
                        /\ Agree(C, ans, bns)
         IN  /\ Same({x \in DOMAIN t : c < x})
             /\ \A q \in DOMAIN t : \A y \in Parts(t, q) :
                  y <= c => Same({x \in DOMAIN t : q < x /\ x < y})
<1> DEFINE bns == [ans EXCEPT ![c] = a]
           Same(C) == /\ Agree(C, Operand(t, ans), Operand(t, bns))
                      /\ Agree(C, VerdictAt(t, ans), VerdictAt(t, bns))
                      /\ Agree(C, ans, bns)
<1>1. ASSUME NEW C, Closed(t, C), c \notin C PROVE Same(C)
  <2>1. Agree(C, ans, bns)
    BY <1>1 DEF Agree
  <2> HIDE DEF bns
  <2> QED BY <1>1, <2>1, MeaningIsLocal
<1>2. DOMAIN t \subseteq Nat
  BY TreeParts
<1>3. Same({x \in DOMAIN t : c < x})
  <2> DEFINE C == {x \in DOMAIN t : c < x}
  <2>1. Closed(t, C)
    BY BehindIsClosed
  <2>2. c \notin C
    BY <1>2
  <2> HIDE DEF C, Same
  <2>3. Same(C)
    BY <1>1, <2>1, <2>2
  <2> QED BY <2>3 DEF C
<1>4. ASSUME NEW q \in DOMAIN t, NEW y \in Parts(t, q), y <= c
      PROVE  Same({x \in DOMAIN t : q < x /\ x < y})
  <2> DEFINE C == {x \in DOMAIN t : q < x /\ x < y}
  <2>1. Closed(t, C)
    BY BetweenIsClosed
  <2>2. y \in Nat
    BY <1>2, BehindIsClosed
  <2>3. c \notin C
    BY <1>2, <1>4, <2>2
  <2> HIDE DEF C, Same
  <2>4. Same(C)
    BY <1>1, <2>1, <2>3
  <2> QED BY <2>4 DEF C
<1> QED BY <1>3, <1>4

-----------------------------------------------------------------------------
(* The executor half way.                                                  *)

\* A statement that a list goes on after, an operand that it goes on after, and
\* an argument that a function or call goes on after.
Undecided(t, ans, list, j) ==
  LET v == VerdictAt(t, ans)[list[j]]
  IN  Valid(v) /\ Joined(t, list, j) /\ ~Decided(t[list[j]].opt, v)
Added(t, ans, list, j) ==
  Operand(t, ans)[list[j]] = "int" /\ (j = 1 \/ t[list[j - 1]].opt = "arith")
Accepted(t, ans, arg) ==
  Rule!ListValue(t, t[arg].kids, Operand(t, ans)) # Rule!Error /\ ans[arg] = "ok"

\* What a frame has found so far is what its nodes mean.
ListProgress(t, ans, f) ==
  /\ \A j \in 1..(f.i - 1) : j \in DOMAIN f.list /\ Undecided(t, ans, f.list, j)
  /\ IF f.i = 1 THEN f.res = Uninit
     ELSE f.res = VerdictAt(t, ans)[f.list[f.i - 1]] /\ f.opt = t[f.list[f.i - 1]].opt
ValueProgress(t, ans, f) ==
  /\ \A j \in 1..(f.i - 1) : j \in DOMAIN f.list /\ Added(t, ans, f.list, j)
  /\ IF f.i = 1 THEN f.arg = Unknown
     ELSE f.arg = IntVal /\ f.opt = t[f.list[f.i - 1]].opt
OwnerProgress(t, ans, f) ==
  /\ \A j \in 1..(f.a - 1) : j \in DOMAIN t[f.node].args /\ Accepted(t, ans, t[f.node].args[j])
  /\ ans[f.node] \in Answers(f.fn) \ {"null"}
  /\ f.at = "body" => f.a > Len(t[f.node].args) /\ ans[f.node] = "ok"
Progress(t, ans, f) ==
  /\ f.fn = "childs" => ListProgress(t, ans, f)
  /\ f.fn = "val" => ValueProgress(t, ans, f)
  /\ f.fn \in {"func", "call"} => OwnerProgress(t, ans, f)

\* What a frame computes, and what it waits for.
Sense(t, ans, f) ==
  CASE f.fn = "childs" -> Rule!ListVerdict(t, f.list, VerdictAt(t, ans))
    [] f.fn = "val"    -> Rule!ListValue(t, f.list, Operand(t, ans))
    [] f.fn = "call"   -> Operand(t, ans)[f.node]
    [] OTHER           -> VerdictAt(t, ans)[f.node]
Needs(t, ans, f) ==
  CASE f.fn = "childs" -> VerdictAt(t, ans)[f.list[f.i]]
    [] f.fn = "val"    -> Operand(t, ans)[f.list[f.i]]
    [] f.fn = "expr"   -> Rule!ListValue(t, t[f.node].kids, Operand(t, ans))
    [] f.fn \in {"func", "call"} /\ f.at # "body" ->
         Rule!ListValue(t, t[t[f.node].args[f.a]].kids, Operand(t, ans))
    [] OTHER -> Rule!ListVerdict(t, t[f.node].kids, VerdictAt(t, ans))

\* A frame was entered for a part of the tree that the one below it waits for.
Computes(t, f, g) ==
  CASE f.fn = "childs" -> /\ g.fn \in {"expr", "block", "func"} /\ g.node = f.list[f.i]
                          /\ t[g.node].type = g.fn
    [] f.fn = "val" /\ g.fn = "call" -> g.node = f.list[f.i]
    [] f.fn = "val" /\ g.fn # "call" ->
         g.fn = "val" /\ g.list = t[f.list[f.i]].kids /\ t[f.list[f.i]].type = "valblock"
    [] f.fn = "expr" -> g.fn = "val" /\ g.list = t[f.node].kids
    [] f.fn \in {"func", "call"} /\ f.at # "body" ->
         g.fn = "val" /\ g.list = t[t[f.node].args[f.a]].kids
    [] OTHER -> g.fn = "childs" /\ g.list = t[f.node].kids

Linked(t, fs) ==
  /\ fs # <<>> => fs[1].fn = "childs" /\ fs[1].list = t[1].kids
  /\ \A k \in 1..(Len(fs) - 1) : Computes(t, fs[k], fs[k + 1])

\* A result stands for what the caller waits for.
Claim(t, ans, fs) == IF fs = <<>> THEN Rule!Meaning(t, ans) ELSE Needs(t, ans, fs[Len(fs)])
Stands(kind, claim, r, v) ==
  IF kind = "value"
  THEN (r = Ok /\ claim = v.type) \/ (r = Einval /\ claim = Rule!Error)
  ELSE r = claim

Asked(t) == [DOMAIN t -> {NoAnswer} \cup UNION {Answers(x) : x \in NodeTypes}]

MeaningInv ==
  /\ ResultInv
  /\ answer \in Asked(prog)
  /\ Linked(prog, frames)
  /\ \A k \in DOMAIN frames : Progress(prog, answer, frames[k])
  /\ ret # NoRet => Stands(Awaited(frames), Claim(prog, answer, frames), ret, val)

-----------------------------------------------------------------------------
(* Where a frame is in the tree.                                           *)

Here(t, f) ==
  CASE f.fn \in {"childs", "val"} -> f.list[f.i]
    [] f.fn \in {"func", "call"} /\ f.at = "value" -> t[f.node].args[f.a]
    [] OTHER -> f.node

LEMMA PartsAreBehind ==
  ASSUME NEW t \in Programs, NEW n \in DOMAIN t
  PROVE  /\ n \in Nat
         /\ \A k \in DOMAIN t[n].kids : /\ t[n].kids[k] \in Parts(t, n) /\ t[n].kids[k] \in DOMAIN t
                                        /\ n < t[n].kids[k] /\ t[n].kids[k] \in Nat
         /\ \A k \in DOMAIN t[n].args : /\ t[n].args[k] \in Parts(t, n) /\ t[n].args[k] \in DOMAIN t
                                        /\ n < t[n].args[k] /\ t[n].args[k] \in Nat
<1>1. DOMAIN t \subseteq Nat
  BY TreeParts
<1>2. \A x \in Parts(t, n) : x \in DOMAIN t /\ n < x
  BY BehindIsClosed
<1>3. \A k \in DOMAIN t[n].kids : t[n].kids[k] \in Parts(t, n)
  BY DEF Parts, Members
<1>4. \A k \in DOMAIN t[n].args : t[n].args[k] \in Parts(t, n)
  BY DEF Parts, Members
<1> QED BY <1>1, <1>2, <1>3, <1>4

LEMMA HereIsNode ==
  ASSUME NEW t \in Programs, NEW f \in Frame(t), Waiting(t, f)
  PROVE  Here(t, f) \in DOMAIN t /\ Here(t, f) \in Nat
<1>1. DOMAIN t \subseteq Nat
  BY TreeParts
<1>2. CASE f.fn \in {"childs", "val"}
  <2>1. f.list \in Seq(DOMAIN t) /\ f.i \in DOMAIN f.list
    BY <1>2, FrameKinds DEF Waiting, ChildsFrames, ValFrames, Lists
  <2>2. f.list[f.i] \in DOMAIN t
    BY <2>1, ElementOfSeq, LenProperties
  <2> QED BY <1>1, <1>2, <2>2 DEF Here
<1>3. CASE f.fn \in {"func", "call"}
  <2>1. f.node \in DOMAIN t
    BY <1>3, FrameKinds DEF FuncFrames, CallFrames
  <2>2. CASE f.at = "body"
    BY <1>1, <1>3, <2>1, <2>2 DEF Here
  <2>3. CASE f.at = "value" /\ f.a \in DOMAIN t[f.node].args
    BY <1>1, <1>3, <2>1, <2>3, PartsAreBehind DEF Here
  <2> QED BY <1>3, <2>2, <2>3 DEF Waiting
<1>4. CASE f.fn \in {"expr", "block"}
  <2>1. f.node \in DOMAIN t
    BY <1>4, FrameKinds DEF ExprFrames, BlockFrames
  <2> QED BY <1>1, <1>4, <2>1 DEF Here
<1> QED BY <1>2, <1>3, <1>4, FrameKinds

\* A frame that was entered is inside of what the one below it is at.
LEMMA EnteredIsInside ==
  ASSUME NEW t \in Programs, NEW f \in Frame(t), NEW g \in Frame(t),
         Waiting(t, f), Waiting(t, g), Computes(t, f, g)
  PROVE  /\ Here(t, f) <= Here(t, g)
         /\ f.fn \in {"func", "call"} /\ f.at = "body" =>
              Here(t, g) \in Members(t[f.node].kids)
<1>1. Here(t, f) \in DOMAIN t /\ Here(t, f) \in Nat /\ Here(t, g) \in DOMAIN t /\ Here(t, g) \in Nat
  BY HereIsNode
<1>2. ASSUME NEW n \in DOMAIN t, g.fn \in {"childs", "val"}, g.list = t[n].kids
      PROVE  n < Here(t, g) /\ Here(t, g) \in Members(t[n].kids)
  <2>1. Here(t, g) = t[n].kids[g.i] /\ g.i \in DOMAIN t[n].kids
    BY <1>2 DEF Here, Waiting
  <2> QED BY <2>1, PartsAreBehind DEF Members
<1>3. CASE f.fn = "childs"
  <2>1. g.fn \in {"expr", "block", "func"} /\ g.node = f.list[f.i] /\ Here(t, f) = f.list[f.i]
    BY <1>3 DEF Computes, Here
  <2>2. CASE g.fn = "func" /\ g.at = "value" /\ g.a \in DOMAIN t[g.node].args
    <3>1. g.node \in DOMAIN t
      BY <1>1, <2>1
    <3>2. Here(t, g) = t[g.node].args[g.a]
      BY <2>2 DEF Here
    <3> QED BY <1>1, <1>3, <2>1, <2>2, <3>1, <3>2, PartsAreBehind
  <2>3. CASE ~(g.fn = "func" /\ g.at = "value")
    <3>1. Here(t, g) = g.node
      BY <2>1, <2>3 DEF Here
    <3> QED BY <1>1, <1>3, <2>1, <3>1
  <2> QED BY <2>1, <2>2, <2>3 DEF Waiting
<1>4. CASE f.fn = "val" /\ g.fn = "call"
  <2>1. g.node = f.list[f.i] /\ Here(t, f) = f.list[f.i]
    BY <1>4 DEF Computes, Here
  <2>2. CASE g.at = "value" /\ g.a \in DOMAIN t[g.node].args
    <3>1. Here(t, g) = t[g.node].args[g.a]
      BY <1>4, <2>2 DEF Here
    <3> QED BY <1>1, <1>4, <2>1, <2>2, <3>1, PartsAreBehind
  <2>3. CASE g.at # "value"
    <3>1. Here(t, g) = g.node
      BY <1>4, <2>3 DEF Here
    <3> QED BY <1>1, <1>4, <2>1, <3>1
  <2> QED BY <1>4, <2>2, <2>3 DEF Waiting
<1>5. CASE f.fn = "val" /\ g.fn # "call"
  <2>1. g.fn = "val" /\ g.list = t[Here(t, f)].kids
    BY <1>5 DEF Computes, Here
  <2> QED BY <1>1, <1>2, <1>5, <2>1
<1>6. CASE f.fn \in {"expr", "block"}
  <2>1. g.fn \in {"childs", "val"} /\ g.list = t[Here(t, f)].kids
    BY <1>6 DEF Computes, Here
  <2> QED BY <1>1, <1>2, <1>6, <2>1
<1>7. CASE f.fn \in {"func", "call"} /\ f.at = "body"
  <2>1. g.fn \in {"childs", "val"} /\ g.list = t[f.node].kids /\ Here(t, f) = f.node
    BY <1>7 DEF Computes, Here
  <2> QED BY <1>1, <1>2, <2>1
<1>8. CASE f.fn \in {"func", "call"} /\ f.at = "value"
  <2>1. g.fn = "val" /\ g.list = t[Here(t, f)].kids
    BY <1>8 DEF Computes, Here
  <2> QED BY <1>1, <1>2, <1>8, <2>1
<1>9. f.fn \in {"func", "call"} => f.at \in {"body", "value"}
  BY DEF Waiting
<1> QED BY <1>3, <1>4, <1>5, <1>6, <1>7, <1>8, <1>9, FrameKinds

\* Every list on the C stack is that of a node.
LEMMA ListsAreKids ==
  ASSUME NEW t \in Programs, NEW fs \in Seq(Frame(t)), Linked(t, fs),
         \A k \in 1..(Len(fs) - 1) : Waiting(t, fs[k]),
         NEW k \in DOMAIN fs, fs[k].fn \in {"childs", "val"}
  PROVE  \E q \in DOMAIN t : fs[k].list = t[q].kids
<1>1. DOMAIN fs = 1..Len(fs) /\ Len(fs) \in Nat /\ fs # <<>>
  BY LenProperties, EmptySeq
<1>2. CASE k = 1
  <2>1. 1 \in DOMAIN t
    BY TreeParts, ProgramsAssumption, LenProperties, EmptySeq DEF IsTree
  <2> QED BY <1>1, <1>2, <2>1 DEF Linked
<1>3. CASE k # 1
  <2> DEFINE j == k - 1
             f == fs[j]
             g == fs[k]
  <2>1. j \in 1..(Len(fs) - 1) /\ j + 1 = k /\ j \in DOMAIN fs
    BY <1>1, <1>3
  <2>2. Computes(t, f, g) /\ Waiting(t, f) /\ f \in Frame(t)
    BY <2>1, ElementOfSeq, <1>1 DEF Linked
  <2>3. Here(t, f) \in DOMAIN t /\ (f.fn \in {"func", "call"} => f.node \in DOMAIN t)
    BY <2>2, HereIsNode, FrameKinds DEF FuncFrames, CallFrames
  <2>4. g.fn \in {"childs", "val"}
    OBVIOUS
  <2> HIDE DEF f, g
  <2>5. CASE f.fn \in {"expr", "block"}
    BY <2>2, <2>3, <2>5 DEF Computes, Here, g
  <2>6. CASE f.fn = "val"
    BY <2>2, <2>3, <2>4, <2>6 DEF Computes, Here, g
  <2>7. CASE f.fn \in {"func", "call"} /\ f.at = "body"
    BY <2>2, <2>3, <2>7 DEF Computes, g
  <2>8. CASE f.fn \in {"func", "call"} /\ f.at = "value"
    BY <2>2, <2>3, <2>8 DEF Computes, Here, g
  <2>9. f.fn # "childs"
    BY <2>2, <2>4 DEF Computes
  <2> QED BY <2>2, <2>5, <2>6, <2>7, <2>8, <2>9, FrameKinds DEF Waiting
<1> QED BY <1>2, <1>3

-----------------------------------------------------------------------------
(* A callback answers behind all that the active functions have found, and *)
(* before all that they have yet to find.                                  *)

\* Parts of q before y, when the answer is at y or behind.
LEMMA PartIsKept ==
  ASSUME NEW t \in Programs, NEW ans, NEW c \in DOMAIN t, NEW a,
         NEW q \in DOMAIN t, NEW y \in Parts(t, q), y <= c,
         NEW x \in Parts(t, q), x < y
  PROVE  LET bns == [ans EXCEPT ![c] = a] IN
         /\ Operand(t, bns)[x] = Operand(t, ans)[x]
         /\ VerdictAt(t, bns)[x] = VerdictAt(t, ans)[x]
         /\ bns[x] = ans[x]
         /\ Rule!ListValue(t, t[x].kids, Operand(t, bns))
              = Rule!ListValue(t, t[x].kids, Operand(t, ans))
<1> DEFINE bns == [ans EXCEPT ![c] = a]
           C == {z \in DOMAIN t : q < z /\ z < y}
<1>1. /\ Agree(C, Operand(t, ans), Operand(t, bns))
      /\ Agree(C, VerdictAt(t, ans), VerdictAt(t, bns))
      /\ Agree(C, ans, bns)
  BY AnswerIsLocal
<1>2. x \in C
  BY BehindIsClosed
<1>3. Closed(t, C)
  BY BetweenIsClosed
<1> HIDE DEF C, bns
<1>4. Parts(t, x) \subseteq C /\ x \in DOMAIN t
  BY <1>2, <1>3 DEF Closed
<1>5. \A z \in Members(t[x].kids) : Operand(t, bns)[z] = Operand(t, ans)[z]
  BY <1>1, <1>4 DEF Agree, Parts
<1>6. t[x].kids \in Seq(DOMAIN t)
  BY <1>4, TreeParts
<1>7. Rule!ListValue(t, t[x].kids, Operand(t, bns))
        = Rule!ListValue(t, t[x].kids, Operand(t, ans))
  BY <1>5, <1>6, ListsAreLocal
<1>8. /\ Operand(t, bns)[x] = Operand(t, ans)[x]
      /\ VerdictAt(t, bns)[x] = VerdictAt(t, ans)[x]
      /\ bns[x] = ans[x]
  BY <1>1, <1>2 DEF Agree
<1> QED BY <1>7, <1>8 DEF bns

LEMMA ListProgressKept ==
  ASSUME NEW t \in Programs, NEW ans, NEW c \in DOMAIN t, NEW a,
         NEW f \in Frame(t), f.fn \in {"childs", "val"}, Progress(t, ans, f),
         f.i \in DOMAIN f.list, f.list[f.i] <= c,
         NEW q \in DOMAIN t, f.list = t[q].kids
  PROVE  Progress(t, [ans EXCEPT ![c] = a], f)
<1> DEFINE bns == [ans EXCEPT ![c] = a]
<1>1. /\ f.list \in Seq(DOMAIN t) /\ Ascending(f.list) /\ f.i \in Nat \ {0}
      /\ DOMAIN f.list = 1..Len(f.list)
  BY FrameKinds, LenProperties DEF ChildsFrames, ValFrames, Lists
<1>2. ASSUME NEW j \in 1..(f.i - 1)
      PROVE  /\ j \in DOMAIN f.list
             /\ Operand(t, bns)[f.list[j]] = Operand(t, ans)[f.list[j]]
             /\ VerdictAt(t, bns)[f.list[j]] = VerdictAt(t, ans)[f.list[j]]
  <2>1. j \in DOMAIN f.list /\ j < f.i
    BY <1>1
  <2>2. f.list[j] < f.list[f.i]
    BY <1>1, <2>1 DEF Ascending
  <2>3. f.list[j] \in Parts(t, q) /\ f.list[f.i] \in Parts(t, q)
    BY <2>1 DEF Parts, Members
  <2> QED BY <2>1, <2>2, <2>3, PartIsKept
<1> HIDE DEF bns
<1>3. f.i # 1 => f.i - 1 \in 1..(f.i - 1)
  BY <1>1
<1>4. CASE f.fn = "childs"
  <2>1. ListProgress(t, ans, f)
    BY <1>4 DEF Progress
  <2>2. ListProgress(t, bns, f)
    BY <1>2, <1>3, <2>1 DEF ListProgress, Undecided
  <2> QED BY <1>4, <2>2 DEF Progress, bns
<1>5. CASE f.fn = "val"
  <2>1. ValueProgress(t, ans, f)
    BY <1>5 DEF Progress
  <2>2. ValueProgress(t, bns, f)
    BY <1>2, <2>1 DEF ValueProgress, Added
  <2> QED BY <1>5, <2>2 DEF Progress, bns
<1> QED BY <1>4, <1>5

LEMMA OwnerProgressKept ==
  ASSUME NEW t \in Programs, NEW ans, NEW c \in DOMAIN t, NEW a,
         NEW f \in Frame(t), f.fn \in {"func", "call"}, Progress(t, ans, f),
         NEW y, y <= c,
         \/ f.at = "body" /\ y \in Members(t[f.node].kids)
         \/ f.at = "value" /\ f.a \in DOMAIN t[f.node].args /\ y = t[f.node].args[f.a]
  PROVE  Progress(t, [ans EXCEPT ![c] = a], f)
<1> DEFINE bns == [ans EXCEPT ![c] = a]
           n == f.node
<1>1. n \in DOMAIN t /\ f.a \in Nat \ {0} /\ DOMAIN t \subseteq Nat
  BY FrameKinds, TreeParts DEF FuncFrames, CallFrames
<1>2. /\ t[n].args \in Seq(DOMAIN t) /\ Ascending(t[n].args)
      /\ DOMAIN t[n].args = 1..Len(t[n].args)
  BY <1>1, TreeParts, LenProperties DEF Lists
<1>3. y \in Parts(t, n) /\ y \in Nat /\ n < y
  BY <1>1, PartsAreBehind DEF Parts, Members
<1>4. OwnerProgress(t, ans, f)
  BY DEF Progress
<1>5. \A x \in Members(t[n].args), z \in Members(t[n].kids) : x < z
  BY <1>1, ProgramsAssumption DEF IsTree
<1>6. ASSUME NEW j \in 1..(f.a - 1)
      PROVE  j \in DOMAIN t[n].args /\ Accepted(t, bns, t[n].args[j])
  <2>1. j \in DOMAIN t[n].args /\ Accepted(t, ans, t[n].args[j])
    BY <1>4 DEF OwnerProgress
  <2>2. t[n].args[j] \in Parts(t, n) /\ t[n].args[j] \in Members(t[n].args)
    BY <2>1 DEF Parts, Members
  <2>3. t[n].args[j] < y
    <3>1. CASE f.at = "body"
      BY <1>5, <2>2, <3>1
    <3>2. CASE f.at = "value"
      <4>1. j < f.a
        BY <1>1
      <4> QED BY <1>2, <2>1, <3>2, <4>1 DEF Ascending
    <3> QED BY <3>1, <3>2
  <2>4. /\ bns[t[n].args[j]] = ans[t[n].args[j]]
        /\ Rule!ListValue(t, t[t[n].args[j]].kids, Operand(t, bns))
             = Rule!ListValue(t, t[t[n].args[j]].kids, Operand(t, ans))
    <3> DEFINE x == t[n].args[j]
    <3>1. /\ n \in DOMAIN t /\ y \in Parts(t, n) /\ y <= c
          /\ x \in Parts(t, n) /\ x < y
      BY <1>1, <1>3, <2>2, <2>3
    <3> HIDE DEF x, n
    <3>2. /\ bns[x] = ans[x]
          /\ Rule!ListValue(t, t[x].kids, Operand(t, bns))
               = Rule!ListValue(t, t[x].kids, Operand(t, ans))
      BY <3>1, PartIsKept
    <3> QED BY <3>2 DEF x
  <2> HIDE DEF bns, n
  <2> QED BY <2>1, <2>4 DEF Accepted
<1>7. bns[n] = ans[n]
  BY <1>1, <1>3
<1> HIDE DEF bns
<1>8. OwnerProgress(t, bns, f)
  BY <1>4, <1>6, <1>7 DEF OwnerProgress
<1> QED BY <1>8 DEF Progress, bns

\* All that the active functions have found so far outlasts the next answer.
LEMMA ProgressKept ==
  ASSUME MeaningInv, frames # <<>>, Waiting(prog, Top), Top.at # "body" \/ Top.fn # "func",
         NEW a
  PROVE  \A k \in DOMAIN frames :
           Progress(prog, [answer EXCEPT ![Here(prog, Top)] = a], frames[k])
<1> DEFINE N == Len(frames)
           t == prog
           h == [k \in 1..N |-> Here(t, frames[k])]
           c == Here(t, Top)
<1>1. /\ frames \in Seq(Frame(t)) /\ N \in Nat \ {0} /\ DOMAIN frames = 1..N
      /\ t \in Programs /\ Linked(t, frames)
      /\ \A k \in DOMAIN frames : frames[k] \in Frame(t) /\ Progress(t, answer, frames[k])
  BY TopOfFrames, ElementOfSeq, LenProperties
     DEF MeaningInv, ResultInv, FramesInv, Stacked
<1>2. \A k \in 1..N : Waiting(t, frames[k])
  BY <1>1 DEF MeaningInv, ResultInv, FramesInv, Stacked, Top
<1>3. h \in [1..N -> Nat] /\ c \in DOMAIN t /\ c \in Nat
  <2>1. \A k \in 1..N : Here(t, frames[k]) \in Nat /\ Here(t, frames[k]) \in DOMAIN t
    BY <1>1, <1>2, HereIsNode
  <2> QED BY <1>1, <2>1 DEF Top
<1>4. \A k \in 1..(N - 1) : /\ frames[k] \in Frame(t) /\ frames[k + 1] \in Frame(t)
                            /\ Waiting(t, frames[k]) /\ Waiting(t, frames[k + 1])
                            /\ Computes(t, frames[k], frames[k + 1])
  BY <1>1, <1>2 DEF Linked
<1>5. \A k \in 1..(N - 1) : h[k] <= h[k + 1]
  <2> SUFFICES ASSUME NEW k \in 1..(N - 1) PROVE h[k] <= h[k + 1]
    OBVIOUS
  <2>1. k \in 1..N /\ k + 1 \in 1..N
    <3>1. N \in Nat \ {0}
      BY <1>1
    <3> HIDE DEF N
    <3> QED BY <3>1
  <2>2. Here(t, frames[k]) <= Here(t, frames[k + 1])
    BY <1>1, <1>4, EnteredIsInside
  <2> QED BY <2>1, <2>2
<1>6. \A k \in 1..N : h[k] <= c
  <2>1. h[N] = c
    BY <1>1 DEF Top
  <2>2. \A j, k \in 1..N : j <= k => h[j] <= h[k]
    <3> HIDE DEF h, N
    <3> QED BY <1>1, <1>3, <1>5, Monotone
  <2> QED BY <1>1, <2>1, <2>2
<1> SUFFICES ASSUME NEW k \in 1..N PROVE Progress(t, [answer EXCEPT ![c] = a], frames[k])
  BY <1>1
<1> DEFINE f == frames[k]
<1>7. f \in Frame(t) /\ Progress(t, answer, f) /\ Waiting(t, f) /\ Here(t, f) <= c
  BY <1>1, <1>2, <1>6
<1>8. f.fn \in {"childs", "val"} => \E q \in DOMAIN t : f.list = t[q].kids
  BY <1>1, <1>2, ListsAreKids
<1>9. f.fn \in {"func", "call"} /\ f.at = "body" =>
        \E y \in Members(t[f.node].kids) : y <= c
  <2> SUFFICES ASSUME f.fn \in {"func", "call"}, f.at = "body"
               PROVE  \E y \in Members(t[f.node].kids) : y <= c
    OBVIOUS
  <2>1. k # N
    <3>1. f.fn = "func"
      BY <1>7, FrameKinds DEF CallFrames
    <3> QED BY <3>1 DEF Top
  <2>2. k \in 1..(N - 1) /\ k + 1 \in 1..N
    <3>1. N \in Nat \ {0}
      BY <1>1
    <3> HIDE DEF N
    <3> QED BY <2>1, <3>1
  <2>3. Here(t, frames[k + 1]) \in Members(t[f.node].kids)
    BY <1>1, <1>4, <2>2, EnteredIsInside
  <2> QED BY <1>6, <2>2, <2>3
<1> HIDE DEF f, c, h, N
<1>10. CASE f.fn \in {"childs", "val"}
  <2>1. PICK q \in DOMAIN t : f.list = t[q].kids
    BY <1>8, <1>10
  <2>2. f.i \in DOMAIN f.list /\ f.list[f.i] <= c
    BY <1>7, <1>10 DEF Waiting, Here
  <2> QED BY <1>1, <1>3, <1>7, <1>10, <2>1, <2>2, ListProgressKept DEF f
<1>11. CASE f.fn \in {"func", "call"} /\ f.at = "body"
  <2>1. PICK y \in Members(t[f.node].kids) : y <= c
    BY <1>9, <1>11
  <2> QED BY <1>1, <1>3, <1>7, <1>11, <2>1, OwnerProgressKept DEF f
<1>12. CASE f.fn \in {"func", "call"} /\ f.at # "body"
  <2>1. /\ f.at = "value" /\ f.a \in DOMAIN t[f.node].args
        /\ Here(t, f) = t[f.node].args[f.a]
    BY <1>7, <1>12 DEF Waiting, Here
  <2> QED BY <1>1, <1>3, <1>7, <1>12, <2>1, OwnerProgressKept DEF f
<1>13. CASE f.fn \in {"expr", "block"}
  BY <1>13 DEF Progress, f
<1> QED BY <1>7, <1>10, <1>11, <1>12, <1>13, FrameKinds

-----------------------------------------------------------------------------
(* What a frame waits for is what the frame above it computes.             *)

LEMMA NeedsIsSense ==
  ASSUME NEW t \in Programs, NEW ans, NEW f \in Frame(t), NEW g,
         Waiting(t, f), Computes(t, f, g)
  PROVE  Needs(t, ans, f) = Sense(t, ans, g)
<1>1. CASE f.fn = "childs"
  BY <1>1 DEF Needs, Sense, Computes
<1>2. CASE f.fn = "val" /\ g.fn = "call"
  BY <1>2 DEF Needs, Sense, Computes
<1>3. CASE f.fn = "val" /\ g.fn # "call"
  <2> DEFINE n == f.list[f.i]
  <2>1. n \in DOMAIN t
    BY <1>3, HereIsNode DEF Here
  <2>2. g.fn = "val" /\ g.list = t[n].kids /\ t[n].type = "valblock"
    BY <1>3 DEF Computes
  <2>3. Operand(t, ans)[n] = Rule!ListValue(t, t[n].kids, Operand(t, ans))
    BY <2>1, <2>2, OperandMeaning
  <2> QED BY <1>3, <2>2, <2>3 DEF Needs, Sense
<1>4. CASE f.fn = "expr"
  BY <1>4 DEF Needs, Sense, Computes
<1>5. CASE f.fn \in {"func", "call"} /\ f.at # "body"
  BY <1>5 DEF Needs, Sense, Computes
<1>6. CASE f.fn = "block" \/ (f.fn \in {"func", "call"} /\ f.at = "body")
  BY <1>6 DEF Needs, Sense, Computes
<1> QED BY <1>1, <1>2, <1>3, <1>4, <1>5, <1>6, FrameKinds

LEMMA ClaimIsSense ==
  ASSUME MeaningInv, frames # <<>>, NEW ans
  PROVE  Claim(prog, ans, Caller) = Sense(prog, ans, Top)
<1> DEFINE N == Len(frames)
<1>1. /\ prog \in Programs /\ Linked(prog, frames) /\ Stacked(prog, frames) /\ FramesInv
      /\ N \in Nat \ {0} /\ DOMAIN frames = 1..N /\ Len(Caller) = N - 1
      /\ \A k \in 1..(N - 1) : Caller[k] = frames[k]
  BY TopOfFrames DEF MeaningInv, ResultInv, FramesInv
<1>2. Caller \in Seq(Frame(prog))
  BY <1>1, TopOfFrames DEF Stacked
<1>3. CASE N = 1
  <2>1. Caller = <<>>
    BY <1>1, <1>2, <1>3, EmptySeq
  <2>2. Top.fn = "childs" /\ Top.list = prog[1].kids
    BY <1>1, <1>3 DEF Linked, Top
  <2> QED BY <2>1, <2>2 DEF Claim, Sense, Rule!Meaning, VerdictAt
<1>4. CASE N # 1
  <2>1. N - 1 \in 1..(N - 1) /\ N - 1 \in DOMAIN frames /\ (N - 1) + 1 = N /\ N - 1 < N
    BY <1>1, <1>4
  <2>2. Caller # <<>>
    BY <1>1, <2>1, EmptySeq
  <2>3. frames[N - 1] \in Frame(prog) /\ Waiting(prog, frames[N - 1])
    BY <1>1, <2>1, ElementOfSeq DEF Stacked
  <2>4. Computes(prog, frames[N - 1], Top)
    BY <1>1, <2>1 DEF Linked, Top
  <2>5. Needs(prog, ans, frames[N - 1]) = Sense(prog, ans, Top)
    BY <1>1, <2>3, <2>4, NeedsIsSense
  <2>6. Caller[Len(Caller)] = frames[N - 1]
    BY <1>1, <2>1
  <2> HIDE DEF N
  <2> QED BY <2>2, <2>5, <2>6 DEF Claim
<1> QED BY <1>3, <1>4

-----------------------------------------------------------------------------
(* The steps of the C stack.                                               *)

\* The answers go on being answers, and what the frames have found stays true.
Outlasts ==
  /\ answer' \in Asked(prog)
  /\ \A k \in DOMAIN frames : Progress(prog, answer', frames[k])

\* Two states of one function.
SameTask(f, g) ==
  /\ f.fn = g.fn
  /\ f.fn \in {"childs", "val"} => f.list = g.list
  /\ f.fn \in {"expr", "block", "func", "call"} => f.node = g.node

LEMMA NothingAnswered ==
  ASSUME MeaningInv, UNCHANGED answer
  PROVE  Outlasts
BY DEF MeaningInv, Outlasts

LEMMA SomethingAnswered ==
  ASSUME MeaningInv, frames # <<>>, Waiting(prog, Top), Top.at # "body" \/ Top.fn # "func",
         NEW x \in NodeTypes, NEW a \in Answers(x),
         answer' = [answer EXCEPT ![Here(prog, Top)] = a]
  PROVE  Outlasts
<1>1. answer' \in Asked(prog)
  BY DEF MeaningInv, Asked
<1> QED BY <1>1, ProgressKept DEF Outlasts

\* A frame at the place of another that computes the same.
LEMMA SameLink ==
  ASSUME NEW t, NEW f, NEW g, SameTask(f, g),
         f.fn \in {"childs", "val", "expr", "block", "func", "call"},
         NEW h, Computes(t, h, g)
  PROVE  Computes(t, h, f)
BY DEF SameTask, Computes

LEMMA ReturnMeans ==
  ASSUME MeaningInv, frames # <<>>, UNCHANGED prog, ResultInv', Outlasts,
         NEW r, Return(r), Stands(Gives(Top), Sense(prog, answer', Top), r, val')
  PROVE  MeaningInv'
<1> DEFINE N == Len(frames)
<1>1. /\ FramesInv /\ Linked(prog, frames) /\ N \in Nat \ {0} /\ DOMAIN frames = 1..N
      /\ ret' = r /\ Len(frames') = N - 1 /\ DOMAIN frames' = 1..(N - 1)
      /\ \A k \in 1..(N - 1) : frames'[k] = frames[k]
      /\ frames' = Caller /\ Awaited(Caller) = Gives(Top)
  BY TopOfFrames, ReturnShape DEF MeaningInv, ResultInv, Return
<1> HIDE DEF N
<1>2. Linked(prog, frames')
  <2>1. frames' # <<>> => frames'[1] = frames[1]
    BY <1>1, TopOfFrames, EmptySeq DEF Stacked
  <2>2. \A k \in 1..(Len(frames') - 1) : /\ k \in 1..(N - 1) /\ frames'[k] = frames[k]
                                        /\ frames'[k + 1] = frames[k + 1]
    BY <1>1
  <2>3. \A k \in 1..(Len(frames') - 1) : Computes(prog, frames'[k], frames'[k + 1])
    BY <1>1, <2>2 DEF Linked, N
  <2> QED BY <1>1, <2>1, <2>3 DEF Linked
<1>3. answer' \in Asked(prog) /\ \A k \in DOMAIN frames' : Progress(prog, answer', frames'[k])
  BY <1>1 DEF Outlasts
<1>4. Stands(Awaited(frames'), Claim(prog, answer', frames'), ret', val')
  BY <1>1, ClaimIsSense
<1> QED BY <1>2, <1>3, <1>4 DEF MeaningInv

LEMMA ContinueMeans ==
  ASSUME MeaningInv, frames # <<>>, UNCHANGED prog, ResultInv', Outlasts,
         NEW f \in Frame(prog), SameTask(f, Top), Continue(f), Progress(prog, answer', f)
  PROVE  MeaningInv'
<1> DEFINE N == Len(frames)
<1>1. /\ FramesInv /\ Linked(prog, frames) /\ N \in Nat \ {0} /\ DOMAIN frames = 1..N
      /\ ret' = NoRet /\ Len(frames') = N /\ DOMAIN frames' = 1..N
      /\ \A k \in 1..(N - 1) : frames'[k] = frames[k]
      /\ frames'[N] = f /\ frames[N] = Top
  BY TopOfFrames, ContinueShape DEF MeaningInv, ResultInv, Top
<1> HIDE DEF N
<1>2. Linked(prog, frames')
  <2>1. /\ frames[1].fn = "childs" /\ frames[1].list = prog[1].kids
        /\ \A k \in 1..(N - 1) : Computes(prog, frames[k], frames[k + 1])
    BY DEF Linked, MeaningInv, N
  <2>2. frames'[1].fn = "childs" /\ frames'[1].list = prog[1].kids
    <3>1. CASE N = 1
      BY <1>1, <2>1, <3>1 DEF SameTask
    <3>2. CASE N # 1
      BY <1>1, <2>1, <3>2
    <3> QED BY <3>1, <3>2
  <2>3. ASSUME NEW k \in 1..(N - 1)
        PROVE  Computes(prog, frames'[k], frames'[k + 1])
    <3>1. Computes(prog, frames[k], frames[k + 1]) /\ frames'[k] = frames[k]
      BY <1>1, <2>1
    <3>2. CASE k + 1 = N
      <4>1. frames[k + 1] = Top /\ frames'[k + 1] = f
        BY <1>1, <3>2
      <4>2. Computes(prog, frames[k], f)
        BY <3>1, <4>1, SameLink, FrameKinds
      <4> QED BY <3>1, <4>1, <4>2
    <3>3. CASE k + 1 # N
      <4>1. frames'[k + 1] = frames[k + 1]
        BY <1>1, <3>3
      <4> QED BY <3>1, <4>1
    <3> QED BY <3>2, <3>3
  <2> QED BY <1>1, <2>2, <2>3 DEF Linked
<1>3. answer' \in Asked(prog) /\ \A k \in DOMAIN frames' : Progress(prog, answer', frames'[k])
  <2>1. \A k \in 1..N : k \in 1..(N - 1) \/ k = N
    BY <1>1
  <2> QED BY <1>1, <2>1 DEF Outlasts
<1> QED BY <1>1, <1>2, <1>3 DEF MeaningInv

LEMMA EnterMeans ==
  ASSUME MeaningInv, frames # <<>>, UNCHANGED prog, ResultInv', Outlasts,
         NEW f \in Frame(prog), SameTask(f, Top), Progress(prog, answer', f),
         NEW g \in Frame(prog), Computes(prog, f, g), Progress(prog, answer', g),
         EnterAs(f, g)
  PROVE  MeaningInv'
<1> DEFINE N == Len(frames)
<1>1. /\ FramesInv /\ Linked(prog, frames) /\ N \in Nat \ {0} /\ DOMAIN frames = 1..N
      /\ ret' = NoRet /\ Len(frames') = N + 1 /\ DOMAIN frames' = 1..(N + 1)
      /\ \A k \in 1..(N - 1) : frames'[k] = frames[k]
      /\ frames'[N] = f /\ frames'[N + 1] = g /\ frames[N] = Top
  BY TopOfFrames, EnterShape DEF MeaningInv, ResultInv, Top
<1> HIDE DEF N
<1>2. Linked(prog, frames')
  <2>1. /\ frames[1].fn = "childs" /\ frames[1].list = prog[1].kids
        /\ \A k \in 1..(N - 1) : Computes(prog, frames[k], frames[k + 1])
    BY DEF Linked, MeaningInv, N
  <2>2. frames'[1].fn = "childs" /\ frames'[1].list = prog[1].kids
    <3>1. CASE N = 1
      BY <1>1, <2>1, <3>1 DEF SameTask
    <3>2. CASE N # 1
      BY <1>1, <2>1, <3>2
    <3> QED BY <3>1, <3>2
  <2>3. ASSUME NEW k \in 1..N
        PROVE  Computes(prog, frames'[k], frames'[k + 1])
    <3>1. CASE k = N
      BY <1>1, <3>1
    <3>2. CASE k + 1 = N
      <4>1. /\ Computes(prog, frames[k], Top) /\ frames'[k] = frames[k]
            /\ frames'[k + 1] = f
        BY <1>1, <2>1, <3>2
      <4>2. Computes(prog, frames[k], f)
        BY <4>1, SameLink, FrameKinds
      <4> QED BY <4>1, <4>2
    <3>3. CASE k + 1 < N
      <4>1. /\ Computes(prog, frames[k], frames[k + 1]) /\ frames'[k] = frames[k]
            /\ frames'[k + 1] = frames[k + 1]
        BY <1>1, <2>1, <3>3
      <4> QED BY <4>1
    <3> QED BY <1>1, <3>1, <3>2, <3>3
  <2>4. Len(frames') - 1 = N
    BY <1>1
  <2> QED BY <2>2, <2>3, <2>4 DEF Linked
<1>3. answer' \in Asked(prog) /\ \A k \in DOMAIN frames' : Progress(prog, answer', frames'[k])
  <2>1. \A k \in 1..(N + 1) : k \in 1..(N - 1) \/ k = N \/ k = N + 1
    BY <1>1
  <2> QED BY <1>1, <2>1 DEF Outlasts
<1> QED BY <1>1, <1>2, <1>3 DEF MeaningInv

LEMMA EnterTwoMeans ==
  ASSUME MeaningInv, frames # <<>>, UNCHANGED prog, ResultInv', Outlasts,
         NEW f \in Frame(prog), Computes(prog, Top, f), Progress(prog, answer', f),
         NEW g \in Frame(prog), Computes(prog, f, g), Progress(prog, answer', g),
         frames' = frames \o <<f, g>>, ret' = NoRet
  PROVE  MeaningInv'
<1> DEFINE N == Len(frames)
<1>1. /\ FramesInv /\ Linked(prog, frames) /\ N \in Nat \ {0} /\ DOMAIN frames = 1..N
      /\ Len(frames') = N + 2 /\ DOMAIN frames' = 1..(N + 2)
      /\ \A k \in 1..N : frames'[k] = frames[k]
      /\ frames'[N + 1] = f /\ frames'[N + 2] = g /\ frames[N] = Top
  BY TopOfFrames, EnterTwoShape DEF MeaningInv, ResultInv, Top
<1> HIDE DEF N
<1>2. Linked(prog, frames')
  <2>1. /\ frames[1].fn = "childs" /\ frames[1].list = prog[1].kids
        /\ \A k \in 1..(N - 1) : Computes(prog, frames[k], frames[k + 1])
    BY DEF Linked, MeaningInv, N
  <2>2. frames'[1].fn = "childs" /\ frames'[1].list = prog[1].kids
    BY <1>1, <2>1
  <2>3. ASSUME NEW k \in 1..(N + 1)
        PROVE  Computes(prog, frames'[k], frames'[k + 1])
    <3>1. CASE k = N + 1
      <4>1. frames'[k] = f /\ frames'[k + 1] = g
        BY <1>1, <3>1
      <4> QED BY <4>1
    <3>2. CASE k = N
      <4>1. frames'[k] = Top /\ frames'[k + 1] = f
        BY <1>1, <3>2
      <4> QED BY <4>1
    <3>3. CASE k < N
      <4>1. /\ Computes(prog, frames[k], frames[k + 1]) /\ frames'[k] = frames[k]
            /\ frames'[k + 1] = frames[k + 1]
        BY <1>1, <2>1, <3>3
      <4> QED BY <4>1
    <3> QED BY <1>1, <3>1, <3>2, <3>3
  <2>4. Len(frames') - 1 = N + 1
    BY <1>1
  <2> QED BY <2>2, <2>3, <2>4 DEF Linked
<1>3. answer' \in Asked(prog) /\ \A k \in DOMAIN frames' : Progress(prog, answer', frames'[k])
  <2>1. \A k \in 1..(N + 2) : k \in 1..N \/ k = N + 1 \/ k = N + 2
    BY <1>1
  <2> QED BY <1>1, <2>1 DEF Outlasts
<1> QED BY <1>2, <1>3 DEF MeaningInv

LEMMA StayMeans ==
  ASSUME MeaningInv, frames # <<>>, UNCHANGED <<prog, frames>>, ResultInv', Outlasts,
         Stands(Wants(Top), Needs(prog, answer', Top), ret', val')
  PROVE  MeaningInv'
<1>1. Linked(prog, frames') /\ \A k \in DOMAIN frames' : Progress(prog, answer', frames'[k])
  BY DEF MeaningInv, Outlasts
<1>2. Stands(Awaited(frames'), Claim(prog, answer', frames'), ret', val')
  BY DEF Awaited, Claim, Top
<1> QED BY <1>1, <1>2 DEF MeaningInv, Outlasts

-----------------------------------------------------------------------------
(* What the actions have in common.                                        *)

LEMMA TopProgress ==
  ASSUME FramesInv, frames # <<>>, Outlasts
  PROVE  Progress(prog, answer', Top)
BY TopOfFrames DEF Outlasts, Top

LEMMA NewProgress ==
  ASSUME NEW t, NEW ans
  PROVE  /\ \A list : Progress(t, ans, ChildsFrame(list))
         /\ \A list, h : Progress(t, ans, ValFrame(list, h))
         /\ \A n, h : Progress(t, ans, ExprFrame(n, h)) /\ Progress(t, ans, BlockFrame(n))
         /\ \A n : ans[n] \in Answers("func") \ {"null"} => Progress(t, ans, FuncFrame(n))
         /\ \A n : ans[n] \in Answers("call") \ {"null"} => Progress(t, ans, CallFrame(n))
<1>1. \A list : Progress(t, ans, ChildsFrame(list))
  BY DEF Progress, ListProgress, ChildsFrame
<1>2. \A list, h : Progress(t, ans, ValFrame(list, h))
  BY DEF Progress, ValueProgress, ValFrame
<1>3. \A n, h : Progress(t, ans, ExprFrame(n, h)) /\ Progress(t, ans, BlockFrame(n))
  BY DEF Progress, ExprFrame, BlockFrame
<1>4. \A n : ans[n] \in Answers("func") \ {"null"} => Progress(t, ans, FuncFrame(n))
  BY DEF Progress, OwnerProgress, FuncFrame
<1>5. \A n : ans[n] \in Answers("call") \ {"null"} => Progress(t, ans, CallFrame(n))
  BY DEF Progress, OwnerProgress, CallFrame
<1> QED BY <1>1, <1>2, <1>3, <1>4, <1>5

\* Frames of expressions and groups are those of such nodes.
LEMMA TopType ==
  ASSUME MeaningInv, frames # <<>>, Top.fn \in {"expr", "block"}
  PROVE  Top.node \in DOMAIN prog /\ prog[Top.node].type = Top.fn
<1> DEFINE N == Len(frames)
<1>1. N \in Nat \ {0} /\ Linked(prog, frames) /\ Top.node \in DOMAIN prog
  BY TopOfFrames, TopKinds DEF MeaningInv, ResultInv, ExprFrames, BlockFrames
<1>2. N # 1
  BY <1>1 DEF Linked, Top
<1>3. Computes(prog, frames[N - 1], Top)
  <2>1. N - 1 \in 1..(N - 1) /\ (N - 1) + 1 = N
    <3> HIDE DEF N
    <3> QED BY <1>1, <1>2
  <2> QED BY <1>1, <2>1 DEF Linked, Top
<1> QED BY <1>1, <1>3 DEF Computes

\* The value list of a node is behind the node.
LEMMA ValueIsBehind ==
  ASSUME NEW t \in Programs, NEW ans, NEW c \in DOMAIN t, NEW a
  PROVE  Rule!ListValue(t, t[c].kids, Operand(t, [ans EXCEPT ![c] = a]))
           = Rule!ListValue(t, t[c].kids, Operand(t, ans))
<1> DEFINE bns == [ans EXCEPT ![c] = a]
<1>1. Agree({x \in DOMAIN t : c < x}, Operand(t, ans), Operand(t, bns))
  BY AnswerIsLocal
<1> HIDE DEF bns
<1>2. \A x \in Members(t[c].kids) : Operand(t, bns)[x] = Operand(t, ans)[x]
  BY <1>1, PartsAreBehind DEF Agree, Members
<1>3. t[c].kids \in Seq(DOMAIN t)
  BY TreeParts
<1> QED BY <1>2, <1>3, ListsAreLocal DEF bns

LEMMA AllAccepted ==
  ASSUME NEW t, NEW n, NEW ans
  PROVE  Rule!ArgsAccepted(t, n, ans, Operand(t, ans)) <=>
           \A k \in DOMAIN t[n].args : Accepted(t, ans, t[n].args[k])
BY DEF Rule!ArgsAccepted, Accepted

\* Where the function on top is.
LEMMA TopIsHere ==
  ASSUME FramesInv, frames # <<>>, Top.fn \in {"childs", "val"}, Top.i <= Len(Top.list)
  PROVE  /\ Waiting(prog, Top) /\ Top.i \in DOMAIN Top.list
         /\ Here(prog, Top) = Top.list[Top.i] /\ Top.list[Top.i] \in DOMAIN prog
<1>1. Top.list \in Seq(DOMAIN prog) /\ Top.i \in Nat \ {0}
  BY TopKinds DEF ChildsFrames, ValFrames
<1>2. Top.i \in DOMAIN Top.list /\ Top.list[Top.i] \in DOMAIN prog
  <2>1. DOMAIN Top.list = 1..Len(Top.list) /\ Len(Top.list) \in Nat
    BY <1>1, LenProperties
  <2>2. Top.i \in DOMAIN Top.list
    BY <1>1, <2>1
  <2> QED BY <1>1, <2>2, ElementOfSeq, <2>1
<1> QED BY <1>2 DEF Waiting, Here

\* The result that a function finds when it goes on is that of its part.
LEMMA ReturnedMeans ==
  ASSUME MeaningInv, frames # <<>>, ret # NoRet
  PROVE  /\ Wants(Top) = "verdict" => ret = Needs(prog, answer, Top)
         /\ Wants(Top) = "value" /\ ret = Ok =>
              /\ Needs(prog, answer, Top) = val.type
              /\ Needs(prog, answer, Top) # Rule!Error
         /\ Wants(Top) = "value" /\ ret # Ok =>
              ret = Einval /\ Needs(prog, answer, Top) = Rule!Error
<1>1. Stands(Wants(Top), Needs(prog, answer, Top), ret, val)
  BY DEF MeaningInv, Awaited, Claim, Top
<1>2. val.type # Rule!Error
  BY DEF MeaningInv, ResultInv, ValuesInv, Values, Unknown, IntVal, StrVal, HeapVal, Rule!Error
<1>3. CASE Wants(Top) = "verdict"
  BY <1>1, <1>3 DEF Stands
<1>4. CASE Wants(Top) = "value"
  BY <1>1, <1>2, <1>4 DEF Stands, Ok, Einval
<1> QED BY <1>3, <1>4 DEF Wants

-----------------------------------------------------------------------------
(* Lists of statements, groups and expressions.                            *)

LEMMA ChildsEnterFuncMeans ==
  ASSUME MeaningInv, ChildsEnterFunc, ResultInv'
  PROVE  MeaningInv'
<1> DEFINE n == Top.list[Top.i]
<1>1. /\ FramesInv /\ frames # <<>> /\ Top.fn = "childs" /\ Top.i <= Len(Top.list)
      /\ prog \in Programs /\ UNCHANGED prog /\ Node(n).type = "func"
  BY DEF MeaningInv, ResultInv, FramesInv, ChildsEnterFunc, Running
<1>2. Waiting(prog, Top) /\ Here(prog, Top) = n /\ n \in DOMAIN prog
  BY <1>1, TopIsHere
<1>3. PICK a \in Answers("func") :
        /\ Callback(n, n, a)
        /\ IF a = "null" THEN ret' = Dead /\ UNCHANGED frames ELSE Enter(FuncFrame(n))
  BY DEF ChildsEnterFunc
<1> HIDE DEF n
<1>4. answer' = [answer EXCEPT ![n] = a] /\ answer'[n] = a
  BY <1>2, <1>3 DEF Callback, MeaningInv, Asked
<1>5. Outlasts
  BY <1>1, <1>2, <1>4, SomethingAnswered DEF NodeTypes
<1>6. CASE a = "null"
  <2>1. VerdictAt(prog, answer')[n] = Dead
    BY <1>1, <1>2, <1>4, <1>6, VerdictMeaning DEF Node
  <2>2. Wants(Top) = "verdict" /\ Needs(prog, answer', Top) = Dead
    BY <1>1, <2>1 DEF Wants, Needs, n
  <2>3. Stands(Wants(Top), Needs(prog, answer', Top), ret', val')
    BY <1>3, <1>6, <2>2 DEF Stands
  <2> QED BY <1>1, <1>3, <1>5, <1>6, <2>3, StayMeans
<1>7. CASE a # "null"
  <2>1. EnterAs(Top, FuncFrame(n)) /\ Top \in Frame(prog) /\ FuncFrame(n) \in Frame(prog)
    BY <1>1, <1>2, <1>3, <1>7, EnterIsEnterAs, TopKinds, NewFrames DEF Node
  <2>2. Progress(prog, answer', Top) /\ Progress(prog, answer', FuncFrame(n))
    BY <1>1, <1>4, <1>5, <1>7, TopProgress, NewProgress
  <2>3. SameTask(Top, Top) /\ Computes(prog, Top, FuncFrame(n))
    BY <1>1 DEF SameTask, Computes, FuncFrame, Node, n
  <2> QED BY <1>1, <1>5, <2>1, <2>2, <2>3, EnterMeans
<1> QED BY <1>6, <1>7

LEMMA ChildsEnterExprMeans ==
  ASSUME MeaningInv, ChildsEnterExpr, ResultInv'
  PROVE  MeaningInv'
<1> DEFINE n == Top.list[Top.i]
           f == ExprFrame(n, GetHandle)
           g == ValFrame(Node(n).kids, GetHandle)
<1>1. /\ FramesInv /\ frames # <<>> /\ Top.fn = "childs" /\ Top.i <= Len(Top.list)
      /\ prog \in Programs /\ UNCHANGED <<prog, answer>> /\ Node(n).type = "expr"
      /\ frames' = frames \o <<f, g>> /\ ret' = NoRet /\ GetHandle \in Nat
  BY HandleIsNat DEF MeaningInv, ResultInv, FramesInv, ChildsEnterExpr, Running
<1>2. n \in DOMAIN prog
  BY <1>1, TopIsHere
<1>3. f \in Frame(prog) /\ g \in Frame(prog)
  BY <1>1, <1>2, NewFrames, TreeParts DEF Node
<1>4. Outlasts /\ Progress(prog, answer', f) /\ Progress(prog, answer', g)
  BY <1>1, NothingAnswered, NewProgress
<1>5. Computes(prog, Top, f) /\ Computes(prog, f, g)
  BY <1>1 DEF Computes, ExprFrame, ValFrame, Node
<1> HIDE DEF f, g
<1> QED BY <1>1, <1>3, <1>4, <1>5, EnterTwoMeans

LEMMA ChildsEnterBlockMeans ==
  ASSUME MeaningInv, ChildsEnterBlock, ResultInv'
  PROVE  MeaningInv'
<1> DEFINE n == Top.list[Top.i]
           f == BlockFrame(n)
           g == ChildsFrame(Node(n).kids)
<1>1. /\ FramesInv /\ frames # <<>> /\ Top.fn = "childs" /\ Top.i <= Len(Top.list)
      /\ prog \in Programs /\ UNCHANGED <<prog, answer>> /\ Node(n).type = "block"
      /\ frames' = frames \o <<f, g>> /\ ret' = NoRet
  BY DEF MeaningInv, ResultInv, FramesInv, ChildsEnterBlock, Running
<1>2. n \in DOMAIN prog
  BY <1>1, TopIsHere
<1>3. f \in Frame(prog) /\ g \in Frame(prog)
  BY <1>1, <1>2, NewFrames, TreeParts DEF Node
<1>4. Outlasts /\ Progress(prog, answer', f) /\ Progress(prog, answer', g)
  BY <1>1, NothingAnswered, NewProgress
<1>5. Computes(prog, Top, f) /\ Computes(prog, f, g)
  BY <1>1 DEF Computes, BlockFrame, ChildsFrame, Node
<1> HIDE DEF f, g
<1> QED BY <1>1, <1>3, <1>4, <1>5, EnterTwoMeans

\* A statement after which a list went on does not decide it.
LEMMA UndecidedIsNotDecisive ==
  ASSUME NEW t, NEW ans, NEW list, NEW j, Undecided(t, ans, list, j), j # Len(list)
  PROVE  j \notin Decisive(t, list, VerdictAt(t, ans))
BY DEF Undecided, Decisive

LEMMA ChildsEndMeans ==
  ASSUME MeaningInv, ChildsEnd, ResultInv'
  PROVE  MeaningInv'
<1> DEFINE list == Top.list
           v    == VerdictAt(prog, answer)
<1>1. /\ FramesInv /\ frames # <<>> /\ Top.fn = "childs" /\ Top.i > Len(list)
      /\ UNCHANGED <<prog, answer>> /\ Return(Top.res)
  BY DEF MeaningInv, ResultInv, ChildsEnd, Running
<1>2. list \in Seq(DOMAIN prog) /\ Top.i \in Nat \ {0}
  BY <1>1, TopKinds DEF ChildsFrames
<1>3. DOMAIN list = 1..Len(list) /\ Len(list) \in Nat
  BY <1>2, LenProperties
<1>4. Outlasts
  BY <1>1, NothingAnswered
<1>5. ListProgress(prog, answer, Top)
  BY <1>1, <1>4, TopProgress DEF Progress
<1> HIDE DEF list, v
<1>6. Rule!ListVerdict(prog, list, v) = Top.res
  <2>1. CASE Top.i = 1
    <3>1. list = <<>>
      BY <1>1, <1>2, <1>3, <2>1, EmptySeq
    <3> QED BY <1>5, <2>1, <3>1, ListMeaning DEF ListProgress
  <2>2. CASE Top.i # 1
    <3>1. Top.i - 1 \in 1..(Top.i - 1)
      BY <1>2, <2>2
    <3>2. Top.i - 1 \in DOMAIN list
      BY <1>5, <3>1 DEF ListProgress, list
    <3>3. Top.i - 1 = Len(list)
      BY <1>1, <1>2, <1>3, <3>2
    <3>4. /\ Undecided(prog, answer, list, Len(list))
          /\ Top.res = v[list[Len(list)]]
      BY <1>5, <2>2, <3>1, <3>3 DEF ListProgress, list, v
    <3>5. \A j \in 1..(Len(list) - 1) : j \notin Decisive(prog, list, v)
      <4> SUFFICES ASSUME NEW j \in 1..(Len(list) - 1)
                   PROVE  j \notin Decisive(prog, list, v)
        OBVIOUS
      <4>1. j \in 1..(Top.i - 1) /\ j # Len(list)
        <5>1. Top.i \in Nat /\ Len(list) \in Nat /\ Len(list) = Top.i - 1
          BY <1>2, <1>3, <3>3
        <5> QED BY <5>1
      <4>2. Undecided(prog, answer, list, j)
        BY <1>5, <4>1 DEF ListProgress, list
      <4> QED BY <4>1, <4>2, UndecidedIsNotDecisive DEF v
    <3>6. Len(list) \in DOMAIN list /\ Len(list) \in Decisive(prog, list, v)
      BY <3>2, <3>3 DEF Decisive
    <3> QED BY <1>2, <3>4, <3>5, <3>6, DecidedAt DEF Undecided, v
  <2> QED BY <2>1, <2>2
<1>7. Sense(prog, answer', Top) = Top.res /\ Gives(Top) = "verdict"
  BY <1>1, <1>6 DEF Sense, Gives, list, v
<1>8. Stands(Gives(Top), Sense(prog, answer', Top), Top.res, val')
  BY <1>7 DEF Stands
<1> QED BY <1>1, <1>4, <1>8, ReturnMeans

LEMMA ChildsReturnedMeans ==
  ASSUME MeaningInv, ChildsReturned, ResultInv'
  PROVE  MeaningInv'
<1> DEFINE list == Top.list
           i    == Top.i
           n    == list[i]
           v    == VerdictAt(prog, answer)
           next == Node(n).opt
           res  == IF Valid(ret) THEN Combine(Top.res, Top.opt, ret) ELSE Dead
           f    == [Top EXCEPT !.i = @ + 1, !.res = res, !.opt = next]
<1>1. /\ FramesInv /\ frames # <<>> /\ ret # NoRet /\ Top.fn = "childs"
      /\ prog \in Programs /\ UNCHANGED <<prog, answer>>
      /\ IF res = Dead \/ Decided(next, res) THEN Return(res) ELSE Continue(f)
  BY DEF MeaningInv, ResultInv, FramesInv, ChildsReturned, Returned
<1> HIDE DEF f
<1>2. /\ Top \in ChildsFrames(prog) /\ list \in Seq(DOMAIN prog) /\ i \in DOMAIN list
      /\ i \in Nat \ {0} /\ n \in DOMAIN prog /\ Wants(Top) = "verdict" /\ Gives(Top) = "verdict"
  BY <1>1, TopKinds DEF ChildsFrames, Waiting, Wants, Gives
<1>3. Outlasts /\ DOMAIN list = 1..Len(list) /\ Len(list) \in Nat
  BY <1>1, <1>2, NothingAnswered, LenProperties
<1>4. ListProgress(prog, answer, Top)
  BY <1>1, <1>3, TopProgress DEF Progress
<1>5. ret = v[n]
  BY <1>1, <1>2, ReturnedMeans DEF Needs
<1>6. i # 1 => /\ Undecided(prog, answer, list, i - 1)
               /\ Top.res = v[list[i - 1]] /\ Top.opt = prog[list[i - 1]].opt
  BY <1>2, <1>4 DEF ListProgress
<1>7. i = 1 => Top.res = Uninit
  BY <1>4 DEF ListProgress
<1> HIDE DEF list, i, n, v, next
\* The result is that of the child, if an operator joins it to the one before.
<1>8. res = IF Valid(v[n]) /\ Joined(prog, list, i) THEN v[n] ELSE Dead
  <2>1. CASE i = 1
    BY <1>5, <1>7, <2>1 DEF Joined, Combine
  <2>2. CASE i # 1 /\ Valid(ret)
    <3>1. /\ Top.res \in {False, True}
          /\ Top.opt = "and" => Top.res # False
          /\ Top.opt = "or"  => Top.res # True
      BY <1>6, <2>2 DEF Undecided, Valid, Decided, v
    <3>2. Joined(prog, list, i) <=> Top.opt \in {"and", "or"}
      BY <1>6, <2>2 DEF Joined
    <3> QED BY <1>5, <2>2, <3>1, <3>2 DEF Combine, Valid, True, False, Uninit, Dead
  <2>3. CASE ~Valid(ret)
    BY <1>5, <2>3
  <2> QED BY <2>1, <2>2, <2>3
<1>9. \A j \in 1..(i - 1) : /\ j \in DOMAIN list /\ Undecided(prog, answer, list, j)
                            /\ j \notin Decisive(prog, list, v)
  <2> SUFFICES ASSUME NEW j \in 1..(i - 1)
               PROVE  /\ j \in DOMAIN list /\ Undecided(prog, answer, list, j)
                      /\ j \notin Decisive(prog, list, v)
    OBVIOUS
  <2>1. Undecided(prog, answer, list, j) /\ j # Len(list) /\ j \in DOMAIN list
    BY <1>2, <1>3, <1>4 DEF ListProgress, list, i
  <2> QED BY <2>1, UndecidedIsNotDecisive DEF v
<1> HIDE DEF res
<1>10. CASE res = Dead \/ Decided(next, res)
  <2>1. i \in Decisive(prog, list, v)
    <3>1. CASE res = Dead
      BY <1>2, <1>8, <3>1 DEF Decisive, Valid, Dead, False, True, n
    <3>2. CASE Decided(next, res)
      BY <1>2, <1>8, <3>2 DEF Decisive, Decided, Dead, False, True, n, next, Node
    <3> QED BY <1>10, <3>1, <3>2
  <2>2. Rule!ListVerdict(prog, list, v) = res
    BY <1>2, <1>8, <1>9, <2>1, DecidedAt DEF n
  <2>3. Sense(prog, answer', Top) = res
    BY <1>1, <2>2 DEF Sense, list, v
  <2>4. Stands(Gives(Top), Sense(prog, answer', Top), res, val')
    BY <1>2, <2>3 DEF Stands
  <2> QED BY <1>1, <1>3, <1>10, <2>4, ReturnMeans
<1>11. CASE ~(res = Dead \/ Decided(next, res))
  <2> DEFINE g == [fn |-> "childs", list |-> list, i |-> i + 1, res |-> res, opt |-> next]
  <2>1. res = v[n] /\ Valid(v[n]) /\ Joined(prog, list, i) /\ next \in Opts
    BY <1>1, <1>2, <1>8, <1>11, TreeParts DEF Node, next
  <2>2. g \in ChildsFrames(prog) /\ f = g
    BY <1>2, <2>1, NextChild DEF f, Valid, list, i
  <2>3. Undecided(prog, answer, list, i)
    BY <1>11, <2>1 DEF Undecided, n, next, Node, v
  <2>4. ListProgress(prog, answer, g)
    <3>1. (i + 1) - 1 = i /\ i + 1 # 1 /\ \A j \in 1..i : j \in 1..(i - 1) \/ j = i
      BY <1>2
    <3>2. \A j \in 1..i : j \in DOMAIN list /\ Undecided(prog, answer, list, j)
      BY <1>2, <1>9, <2>3, <3>1
    <3> QED BY <2>1, <3>1, <3>2 DEF ListProgress, n, next, Node, v
  <2>5. Progress(prog, answer', f) /\ SameTask(f, Top) /\ f \in Frame(prog)
    BY <1>1, <2>2, <2>4 DEF Progress, SameTask, Frame, list
  <2> QED BY <1>1, <1>3, <1>11, <2>5, ContinueMeans
<1> QED BY <1>10, <1>11

LEMMA BlockReturnedMeans ==
  ASSUME MeaningInv, BlockReturned, ResultInv'
  PROVE  MeaningInv'
<1> DEFINE n == Top.node
           r == IF Node(n).neg THEN (IF ret = 0 THEN True ELSE False) ELSE ret
<1>1. /\ FramesInv /\ frames # <<>> /\ ret # NoRet /\ Top.fn = "block"
      /\ prog \in Programs /\ UNCHANGED <<prog, answer>> /\ Return(r)
  BY DEF MeaningInv, ResultInv, FramesInv, BlockReturned, Returned
<1>2. Outlasts /\ n \in DOMAIN prog /\ prog[n].type = "block"
  BY <1>1, NothingAnswered, TopType
<1>3. ret = Rule!ListVerdict(prog, prog[n].kids, VerdictAt(prog, answer))
  BY <1>1, ReturnedMeans DEF Wants, Needs
<1>4. VerdictAt(prog, answer)[n] = r
  BY <1>1, <1>2, <1>3, VerdictMeaning DEF Node, False
<1> HIDE DEF r
<1>5. Stands(Gives(Top), Sense(prog, answer', Top), r, val')
  BY <1>1, <1>4 DEF Stands, Gives, Sense
<1> QED BY <1>1, <1>2, <1>5, ReturnMeans

LEMMA ExprReturnedMeans ==
  ASSUME MeaningInv, ExprReturned, ResultInv'
  PROVE  MeaningInv'
<1> DEFINE n == Top.node
<1>1. /\ FramesInv /\ frames # <<>> /\ ret # NoRet /\ Top.fn = "expr"
      /\ prog \in Programs /\ UNCHANGED prog
  BY DEF MeaningInv, ResultInv, FramesInv, ExprReturned, Returned
<1>2. n \in DOMAIN prog /\ prog[n].type = "expr" /\ Gives(Top) = "verdict"
      /\ Wants(Top) = "value" /\ Here(prog, Top) = n /\ Waiting(prog, Top)
  BY <1>1, TopType DEF Gives, Wants, Here, Waiting
<1>3. /\ Needs(prog, answer, Top) = Rule!ListValue(prog, prog[n].kids, Operand(prog, answer))
      /\ Sense(prog, answer', Top) = VerdictAt(prog, answer')[n]
  BY <1>1 DEF Needs, Sense
<1> HIDE DEF n
<1>4. CASE ret # Ok
  <2>1. Return(Dead) /\ UNCHANGED answer
    BY <1>4 DEF ExprReturned
  <2>2. Rule!ListValue(prog, prog[n].kids, Operand(prog, answer)) = Rule!Error
    BY <1>1, <1>2, <1>3, <1>4, ReturnedMeans
  <2>3. VerdictAt(prog, answer')[n] = Dead
    BY <1>1, <1>2, <2>1, <2>2, VerdictMeaning
  <2>4. Outlasts /\ Stands(Gives(Top), Sense(prog, answer', Top), Dead, val')
    BY <1>2, <1>3, <2>1, <2>3, NothingAnswered DEF Stands
  <2> QED BY <1>1, <2>1, <2>4, ReturnMeans
<1>5. CASE ret = Ok
  <2>1. PICK a \in Answers("expr") : Callback(n, Top.handle, a) /\ Return(VerdictOf(a))
    BY <1>5 DEF ExprReturned, n
  <2>2. answer' = [answer EXCEPT ![n] = a] /\ answer'[n] = a
    BY <1>2, <2>1 DEF Callback, MeaningInv, Asked
  <2>3. Rule!ListValue(prog, prog[n].kids, Operand(prog, answer')) # Rule!Error
    BY <1>1, <1>2, <1>3, <1>5, <2>2, ReturnedMeans, ValueIsBehind
  <2>4. VerdictAt(prog, answer')[n] = VerdictOf(a)
    BY <1>1, <1>2, <2>2, <2>3, VerdictMeaning
  <2>5. Outlasts
    BY <1>1, <1>2, <2>2, SomethingAnswered DEF NodeTypes
  <2>6. Stands(Gives(Top), Sense(prog, answer', Top), VerdictOf(a), val')
    BY <1>2, <1>3, <2>4 DEF Stands
  <2> QED BY <1>1, <2>1, <2>5, <2>6, ReturnMeans
<1> QED BY <1>4, <1>5

-----------------------------------------------------------------------------
(* Functions and calls.                                                    *)

\* What a function or call gives, from its arguments, its answer and its body.
LEMMA OwnerMeans ==
  ASSUME FramesInv, frames # <<>>, Top.fn \in {"func", "call"}, NEW ans
  PROVE  LET n == Top.node
             s == Sense(prog, ans, Top)
             all == \A k \in DOMAIN prog[n].args : Accepted(prog, ans, prog[n].args[k])
         IN  /\ ~all => s = IF Top.fn = "func" THEN Dead ELSE Rule!Error
             /\ ans[n] \in {"null", "fail"} => s = IF Top.fn = "func" THEN Dead ELSE Rule!Error
             /\ all /\ Top.fn = "func" /\ ans[n] = "ok" =>
                  s = Rule!ListVerdict(prog, prog[n].kids, VerdictAt(prog, ans))
             /\ all /\ Top.fn = "call" /\ ans[n] \in {"int", "heap"} =>
                  s = ValueOf(ans[n]).type
<1> DEFINE n == Top.node
           s == Sense(prog, ans, Top)
           all == \A k \in DOMAIN prog[n].args : Accepted(prog, ans, prog[n].args[k])
<1>1. prog \in Programs /\ n \in DOMAIN prog /\ prog[n].type = Top.fn
  BY OwnerFrames DEF FramesInv, Node
<1>2. all <=> Rule!ArgsAccepted(prog, n, ans, Operand(prog, ans))
  BY AllAccepted
<1> HIDE DEF all
<1>3. CASE Top.fn = "func"
  <2>1. s = VerdictAt(prog, ans)[n]
    BY <1>3 DEF Sense
  <2> HIDE DEF s
  <2> QED BY <1>1, <1>2, <1>3, <2>1, VerdictMeaning DEF s, all
<1>4. CASE Top.fn = "call"
  <2>1. s = Operand(prog, ans)[n]
    BY <1>4 DEF Sense
  <2> HIDE DEF s
  <2>2. ValueOf("int").type = "int" /\ ValueOf("heap").type = "string"
    BY DEF ValueOf, IntVal, HeapVal
  <2> QED BY <1>1, <1>2, <1>4, <2>1, <2>2, OperandMeaning DEF s, all
<1> QED BY <1>3, <1>4

\* Where a function or call has come to when its loop over the arguments ends.
LEMMA ArgsDone ==
  ASSUME FramesInv, frames # <<>>, Top.fn \in {"func", "call"}, Top.a > Len(Args),
         NEW ans, Progress(prog, ans, Top)
  PROVE  \A k \in DOMAIN prog[Top.node].args : Accepted(prog, ans, prog[Top.node].args[k])
<1> DEFINE args == prog[Top.node].args
<1>1. /\ Top.a \in Nat \ {0} /\ args \in Seq(DOMAIN prog)
  BY OwnerFrames, TreeParts DEF FramesInv
<1>2. DOMAIN args = 1..Len(args) /\ Len(args) \in Nat /\ Top.a > Len(args)
  BY <1>1, LenProperties DEF Args, Node
<1>3. OwnerProgress(prog, ans, Top)
  BY DEF Progress
<1> HIDE DEF args
<1>4. \A k \in DOMAIN args : k \in 1..(Top.a - 1)
  BY <1>1, <1>2
<1> QED BY <1>3, <1>4 DEF OwnerProgress, args

LEMMA ArgEnterMeans ==
  ASSUME MeaningInv, NEW fn \in {"func", "call"}, ArgEnter(fn), ResultInv'
  PROVE  MeaningInv'
<1> DEFINE f == [fn |-> Top.fn, node |-> Top.node, a |-> Top.a, at |-> "value"]
           g == ValFrame(Node(Args[Top.a]).kids, GetHandle)
<1>1. /\ FramesInv /\ frames # <<>> /\ Top.fn \in {"func", "call"} /\ Top.at = "args"
      /\ Top.a <= Len(Args) /\ prog \in Programs /\ UNCHANGED <<prog, answer>>
      /\ EnterAs([Top EXCEPT !.at = "value"], g) /\ GetHandle \in Nat
  BY HandleIsNat DEF MeaningInv, ResultInv, FramesInv, ArgEnter, Running
<1>2. /\ Top.node \in DOMAIN prog /\ Top.a \in Nat \ {0} /\ f \in Frame(prog)
      /\ EnterAs(f, g)
  BY <1>1, OwnerFrames
<1>3. Args[Top.a] \in DOMAIN prog
  <2>1. Args \in Seq(DOMAIN prog)
    BY <1>1, <1>2, TreeParts DEF Args, Node
  <2>2. DOMAIN Args = 1..Len(Args) /\ Len(Args) \in Nat
    BY <2>1, LenProperties
  <2> QED BY <1>1, <1>2, <2>1, <2>2, ElementOfSeq
<1>4. g \in Frame(prog)
  BY <1>1, <1>3, NewFrames, TreeParts DEF Node
<1>5. Outlasts /\ Progress(prog, answer', Top) /\ Progress(prog, answer', g)
  BY <1>1, NothingAnswered, TopProgress, NewProgress
<1>6. Progress(prog, answer', f)
  BY <1>1, <1>5 DEF Progress, OwnerProgress
<1>7. SameTask(f, Top) /\ Computes(prog, f, g)
  BY <1>1 DEF SameTask, Computes, ValFrame, Node, Args
<1> HIDE DEF f, g
<1> QED BY <1>1, <1>2, <1>4, <1>5, <1>6, <1>7, EnterMeans

LEMMA ArgReturnedMeans ==
  ASSUME MeaningInv, NEW fn \in {"func", "call"},
         ArgReturned(fn, IF fn = "func" THEN Dead ELSE Einval), ResultInv'
  PROVE  MeaningInv'
<1> DEFINE error == IF fn = "func" THEN Dead ELSE Einval
           n == Top.node
           c == prog[n].args[Top.a]
<1>1. /\ FramesInv /\ frames # <<>> /\ Top.fn = fn /\ Top.at = "value" /\ ret # NoRet
      /\ ret = Ok /\ prog \in Programs /\ UNCHANGED prog
  BY DEF MeaningInv, ResultInv, FramesInv, ArgReturned, Returned
<1>2. PICK a \in Answers("arg") :
        /\ Callback(Args[Top.a], Top.node, a)
        /\ IF a = "fail" THEN Leave(error)
                         ELSE Continue([Top EXCEPT !.a = @ + 1, !.at = "args"])
  BY DEF ArgReturned
<1>3. /\ n \in DOMAIN prog /\ Top.a \in Nat \ {0} /\ Wants(Top) = "value"
      /\ Gives(Top) = IF fn = "func" THEN "verdict" ELSE "value"
      /\ Waiting(prog, Top) /\ Top.a \in DOMAIN prog[n].args
      /\ Here(prog, Top) = c /\ c \in DOMAIN prog
  BY <1>1, OwnerFrames, TopKinds, HereIsNode DEF Wants, Waiting, Here
<1>4. answer' = [answer EXCEPT ![c] = a] /\ answer'[c] = a
  BY <1>2, <1>3 DEF Callback, MeaningInv, Asked, Args, Node
<1>5. Outlasts /\ Progress(prog, answer', Top)
  BY <1>1, <1>2, <1>3, <1>4, SomethingAnswered, TopProgress DEF NodeTypes
<1> HIDE DEF c
<1>6. CASE a = "fail"
  <2>1. ~Accepted(prog, answer', prog[n].args[Top.a])
    BY <1>4, <1>6 DEF Accepted, c
  <2>2. Sense(prog, answer', Top) = IF fn = "func" THEN Dead ELSE Rule!Error
    BY <1>1, <1>3, <2>1, OwnerMeans
  <2>3. Return(error)
    BY <1>2, <1>6 DEF Leave
  <2>4. Stands(Gives(Top), Sense(prog, answer', Top), error, val')
    BY <1>3, <2>2 DEF Stands
  <2> QED BY <1>1, <1>5, <2>3, <2>4, ReturnMeans
<1>7. CASE a # "fail"
  <2> DEFINE f == [fn |-> Top.fn, node |-> Top.node, a |-> Top.a + 1, at |-> "args"]
  <2>1. Continue(f) /\ f \in Frame(prog)
    BY <1>1, <1>2, <1>7, OwnerFrames
  <2>2. Rule!ListValue(prog, prog[c].kids, Operand(prog, answer')) # Rule!Error
    <3>1. Needs(prog, answer, Top) = Rule!ListValue(prog, prog[c].kids, Operand(prog, answer))
      BY <1>1 DEF Needs, c
    <3> QED BY <1>1, <1>3, <1>4, <3>1, ReturnedMeans, ValueIsBehind
  <2>3. a = "ok"
    BY <1>7 DEF Answers
  <2>4. Accepted(prog, answer', prog[n].args[Top.a])
    BY <1>4, <2>2, <2>3 DEF Accepted, c
  <2>5. OwnerProgress(prog, answer', f)
    <3>1. \A j \in 1..((Top.a + 1) - 1) : j \in 1..(Top.a - 1) \/ j = Top.a
      BY <1>3
    <3>2. OwnerProgress(prog, answer', Top)
      BY <1>1, <1>5 DEF Progress
    <3> QED BY <1>3, <2>4, <3>1, <3>2 DEF OwnerProgress
  <2>6. Progress(prog, answer', f) /\ SameTask(f, Top)
    BY <1>1, <2>5 DEF Progress, SameTask
  <2> HIDE DEF f
  <2> QED BY <1>1, <1>5, <2>1, <2>6, ContinueMeans
<1> QED BY <1>6, <1>7

\* An argument without a value.
LEMMA NoArgument ==
  ASSUME MeaningInv, frames # <<>>, Top.fn \in {"func", "call"}, Top.at = "value",
         ret # NoRet, ret # Ok
  PROVE  /\ ret = Einval
         /\ Sense(prog, answer, Top) = IF Top.fn = "func" THEN Dead ELSE Rule!Error
<1>1. FramesInv /\ Wants(Top) = "value"
  BY DEF MeaningInv, ResultInv, Wants
<1>2. Top.a \in DOMAIN prog[Top.node].args
  BY <1>1, TopKinds DEF Waiting
<1>3. ret = Einval /\ Needs(prog, answer, Top) = Rule!Error
  BY <1>1, ReturnedMeans
<1>4. ~Accepted(prog, answer, prog[Top.node].args[Top.a])
  BY <1>3 DEF Needs, Accepted
<1> QED BY <1>1, <1>2, <1>3, <1>4, OwnerMeans

LEMMA FuncArgFailedMeans ==
  ASSUME MeaningInv, FuncArgFailed, ResultInv'
  PROVE  MeaningInv'
<1>1. /\ FramesInv /\ frames # <<>> /\ Top.fn = "func" /\ Top.at = "value" /\ ret # NoRet
      /\ ret # Ok /\ UNCHANGED <<prog, answer>> /\ Return(Dead)
  BY DEF MeaningInv, ResultInv, FuncArgFailed, Returned, Leave
<1>2. Outlasts /\ Stands(Gives(Top), Sense(prog, answer', Top), Dead, val')
  BY <1>1, NothingAnswered, NoArgument DEF Stands, Gives
<1> QED BY <1>1, <1>2, ReturnMeans

LEMMA CallArgFailedMeans ==
  ASSUME MeaningInv, CallArgFailed, ResultInv'
  PROVE  MeaningInv'
<1>1. /\ FramesInv /\ frames # <<>> /\ Top.fn = "call" /\ Top.at = "value" /\ ret # NoRet
      /\ ret # Ok /\ UNCHANGED <<prog, answer>> /\ Return(ret)
  BY DEF MeaningInv, ResultInv, CallArgFailed, Returned
<1>2. Outlasts /\ Stands(Gives(Top), Sense(prog, answer', Top), ret, val')
  BY <1>1, NothingAnswered, NoArgument DEF Stands, Gives
<1> QED BY <1>1, <1>2, ReturnMeans

LEMMA FuncExecMeans ==
  ASSUME MeaningInv, FuncExec, ResultInv'
  PROVE  MeaningInv'
<1> DEFINE n == Top.node
           f == [fn |-> "func", node |-> n, a |-> Top.a, at |-> "body"]
           g == ChildsFrame(Node(n).kids)
<1>1. /\ FramesInv /\ frames # <<>> /\ Top.fn = "func" /\ Top.at = "args"
      /\ Top.a > Len(Args) /\ prog \in Programs /\ UNCHANGED <<prog, answer>>
      /\ IF answer[n] = "fail" THEN Return(Dead) ELSE EnterAs([Top EXCEPT !.at = "body"], g)
  BY DEF MeaningInv, ResultInv, FramesInv, FuncExec, Running, Leave
<1>2. Outlasts /\ Progress(prog, answer', Top)
  BY <1>1, NothingAnswered, TopProgress
<1>3. CASE answer[n] = "fail"
  <2>1. Sense(prog, answer', Top) = Dead
    BY <1>1, <1>3, OwnerMeans
  <2>2. Stands(Gives(Top), Sense(prog, answer', Top), Dead, val')
    BY <1>1, <2>1 DEF Stands, Gives
  <2> QED BY <1>1, <1>2, <1>3, <2>2, ReturnMeans
<1>4. CASE answer[n] # "fail"
  <2>1. Top \in FuncFrames(prog) /\ n \in DOMAIN prog
    BY <1>1, TopKinds, OwnerFrames
  <2>2. f \in Frame(prog) /\ f = [Top EXCEPT !.at = "body"]
    BY <2>1 DEF Frame, FuncFrames
  <2>3. g \in Frame(prog)
    BY <1>1, <2>1, NewFrames, TreeParts DEF Node
  <2>4. answer'[n] = "ok"
    BY <1>1, <1>2, <1>4 DEF Progress, OwnerProgress, Answers
  <2>5. Top.a > Len(prog[n].args) /\ Progress(prog, answer', f)
    BY <1>1, <1>2, <2>4 DEF Progress, OwnerProgress, Args, Node
  <2>6. /\ Progress(prog, answer', g) /\ SameTask(f, Top)
        /\ Computes(prog, f, g)
    BY <1>1, NewProgress DEF SameTask, Computes, ChildsFrame, Node
  <2>7. EnterAs(f, g)
    BY <1>1, <1>4, <2>2
  <2> HIDE DEF f, g
  <2> QED BY <1>1, <1>2, <2>2, <2>3, <2>5, <2>6, <2>7, EnterMeans
<1> QED BY <1>3, <1>4

LEMMA FuncBodyReturnedMeans ==
  ASSUME MeaningInv, FuncBodyReturned, ResultInv'
  PROVE  MeaningInv'
<1> DEFINE n == Top.node
<1>1. /\ FramesInv /\ frames # <<>> /\ Top.fn = "func" /\ Top.at = "body" /\ ret # NoRet
      /\ prog \in Programs /\ UNCHANGED <<prog, answer>> /\ Return(ret)
  BY DEF MeaningInv, ResultInv, FramesInv, FuncBodyReturned, Returned, Leave
<1>2. Outlasts /\ Progress(prog, answer, Top)
  BY <1>1, NothingAnswered, TopProgress
<1>3. ret = Rule!ListVerdict(prog, prog[n].kids, VerdictAt(prog, answer))
  BY <1>1, ReturnedMeans DEF Wants, Needs
<1>4. Top.a > Len(Args) /\ answer[n] = "ok"
  BY <1>1, <1>2 DEF Progress, OwnerProgress, Args, Node
<1>5. Sense(prog, answer', Top) = ret
  BY <1>1, <1>2, <1>3, <1>4, ArgsDone, OwnerMeans
<1>6. Stands(Gives(Top), Sense(prog, answer', Top), ret, val')
  BY <1>1, <1>5 DEF Stands, Gives
<1> QED BY <1>1, <1>2, <1>6, ReturnMeans

LEMMA CallExecMeans ==
  ASSUME MeaningInv, CallExec, ResultInv'
  PROVE  MeaningInv'
<1> DEFINE n == Top.node
<1>1. /\ FramesInv /\ frames # <<>> /\ Top.fn = "call" /\ Top.at = "args"
      /\ Top.a > Len(Args) /\ prog \in Programs /\ UNCHANGED <<prog, answer>>
      /\ IF answer[n] = "fail" THEN Return(Einval)
                               ELSE Return(Ok) /\ val' = ValueOf(answer[n])
  BY DEF MeaningInv, ResultInv, FramesInv, CallExec, Running, Leave
<1>2. Outlasts /\ Progress(prog, answer, Top)
  BY <1>1, NothingAnswered, TopProgress
<1>3. CASE answer[n] = "fail"
  <2>1. Sense(prog, answer', Top) = Rule!Error
    BY <1>1, <1>3, OwnerMeans
  <2>2. Stands(Gives(Top), Sense(prog, answer', Top), Einval, val')
    BY <1>1, <2>1 DEF Stands, Gives
  <2> QED BY <1>1, <1>2, <1>3, <2>2, ReturnMeans
<1>4. CASE answer[n] # "fail"
  <2>1. answer[n] \in {"int", "heap"}
    BY <1>1, <1>2, <1>4 DEF Progress, OwnerProgress, Answers
  <2>2. Sense(prog, answer', Top) = ValueOf(answer[n]).type
    BY <1>1, <1>2, <2>1, ArgsDone, OwnerMeans
  <2>3. Stands(Gives(Top), Sense(prog, answer', Top), Ok, val')
    BY <1>1, <1>4, <2>2 DEF Stands, Gives
  <2> QED BY <1>1, <1>2, <1>4, <2>3, ReturnMeans
<1> QED BY <1>3, <1>4

-----------------------------------------------------------------------------
(* Lists of operands.                                                      *)

LEMMA AddedDoesNotStop ==
  ASSUME NEW t, NEW ans, NEW list, NEW j, Added(t, ans, list, j)
  PROVE  j \notin Stops(t, list, Operand(t, ans))
BY DEF Added, Stops, Bad, Rule!Error

\* What the operands before the one that a list is at say of the list.
LEMMA OperandsBefore ==
  ASSUME FramesInv, frames # <<>>, Top.fn = "val", NEW ans, Progress(prog, ans, Top)
  PROVE  /\ \A j \in 1..(Top.i - 1) : /\ j \in DOMAIN Top.list
                                      /\ Added(prog, ans, Top.list, j)
                                      /\ j \notin Stops(prog, Top.list, Operand(prog, ans))
         /\ Top.i = 1 => Top.arg = Unknown
         /\ Top.i # 1 => Top.arg = IntVal /\ Top.opt = prog[Top.list[Top.i - 1]].opt
<1>1. ValueProgress(prog, ans, Top)
  BY DEF Progress
<1> QED BY <1>1, AddedDoesNotStop DEF ValueProgress

\* An operand in error is the value of its list.
LEMMA ErrorMeans ==
  ASSUME MeaningInv, frames # <<>>, Top.fn = "val", Top.i <= Len(Top.list),
         UNCHANGED prog, ResultInv', Outlasts,
         Bad(prog, Top.list, Operand(prog, answer'), Top.i), Return(Einval)
  PROVE  MeaningInv'
<1> DEFINE o == Operand(prog, answer')
<1>1. FramesInv /\ Progress(prog, answer', Top)
  BY TopProgress DEF MeaningInv, ResultInv
<1>2. Top.list \in Seq(DOMAIN prog) /\ Top.i \in DOMAIN Top.list
  BY <1>1, TopIsHere, TopKinds
<1> HIDE DEF o
<1>3. Top.i \in Stops(prog, Top.list, o)
  BY <1>2 DEF Stops, o
<1>4. Rule!ListValue(prog, Top.list, o) = Rule!Error
  BY <1>1, <1>2, <1>3, OperandsBefore, ValueAt DEF o
<1>5. Stands(Gives(Top), Sense(prog, answer', Top), Einval, val')
  BY <1>4 DEF Stands, Gives, Sense, o
<1> QED BY <1>1, <1>5, ReturnMeans

\* A value that was computed for an operand.
Shows(v, kind) == IF v = Unknown THEN kind \in {Rule!Error, "unknown"} ELSE kind = v.type

LEMMA FoldMeans ==
  ASSUME MeaningInv, frames # <<>>, Top.fn = "val", Top.i <= Len(Top.list),
         UNCHANGED prog, ResultInv', Outlasts,
         NEW v \in Values, Shows(v, Operand(prog, answer')[Top.list[Top.i]]), Fold(v)
  PROVE  MeaningInv'
<1> DEFINE o    == Operand(prog, answer')
           list == Top.list
           i    == Top.i
           opt  == Node(list[i]).opt
           bad  == v = Unknown \/ (v = IntVal /\ Top.arg # Unknown /\ Top.opt # "arith")
           f    == [Top EXCEPT !.i = @ + 1, !.arg = IntVal, !.opt = opt]
<1>1. /\ FramesInv /\ prog \in Programs /\ Progress(prog, answer', Top)
      /\ Top \in ValFrames(prog) /\ list \in Seq(DOMAIN prog) /\ i \in DOMAIN list
      /\ i \in Nat \ {0} /\ list[i] \in DOMAIN prog
  BY TopProgress, TopIsHere, TopKinds DEF MeaningInv, ResultInv, FramesInv, ValFrames
<1>2. /\ \A j \in 1..(i - 1) : /\ j \in DOMAIN list /\ Added(prog, answer', list, j)
                               /\ j \notin Stops(prog, list, o)
      /\ i = 1 => Top.arg = Unknown
      /\ i # 1 => Top.arg = IntVal /\ Top.opt = prog[list[i - 1]].opt
  BY <1>1, OperandsBefore
<1>3. /\ bad => Return(Einval)
      /\ ~bad /\ v.type = "string" => Return(Ok) /\ val' = v
      /\ ~bad /\ v.type # "string" => Continue(f)
  BY DEF Fold
<1>4. Shows(v, o[list[i]])
  OBVIOUS
<1> HIDE DEF f, o, list, i, opt
<1>5. IntVal # Unknown /\ IntVal.type = "int" /\ v.type \in {"unknown", "int", "string"}
  BY DEF Values, Unknown, IntVal, StrVal, HeapVal
<1>6. /\ v = Unknown <=> v.type = "unknown"
      /\ v = IntVal <=> v.type = "int"
  BY DEF Values, Unknown, IntVal, StrVal, HeapVal
<1>7. bad <=> Bad(prog, list, o, i)
  BY <1>1, <1>2, <1>4, <1>5, <1>6 DEF Bad, Shows, Rule!Error
<1> HIDE DEF bad
<1>8. CASE bad
  BY <1>3, <1>7, <1>8, ErrorMeans DEF o, list, i
<1>9. CASE ~bad /\ v.type = "string"
  <2>1. o[list[i]] = "string"
    BY <1>4, <1>6, <1>9 DEF Shows
  <2>2. i \in Stops(prog, list, o)
    BY <1>1, <2>1 DEF Stops
  <2>3. Rule!ListValue(prog, list, o) = "string"
    BY <1>1, <1>2, <1>7, <1>9, <2>2, ValueAt
  <2>4. Stands(Gives(Top), Sense(prog, answer', Top), Ok, val')
    BY <1>3, <1>9, <2>3 DEF Stands, Gives, Sense, o, list
  <2> QED BY <1>1, <1>3, <1>9, <2>4, ReturnMeans
<1>10. CASE ~bad /\ v.type # "string"
  <2> DEFINE g == [fn |-> "val", list |-> Top.list, i |-> Top.i + 1, arg |-> IntVal,
                   opt |-> opt, handle |-> Top.handle]
  <2>1. v.type = "int" /\ o[list[i]] = "int"
    BY <1>4, <1>5, <1>6, <1>7, <1>10 DEF Shows, Bad
  <2>2. Added(prog, answer', list, i)
    BY <1>1, <1>7, <1>10, <2>1 DEF Added, Bad, o
  <2>3. opt \in Opts
    BY <1>1, TreeParts DEF opt, Node
  <2>4. g \in ValFrames(prog) /\ f = g
    BY <1>1, <2>3, NextOperand DEF f
  <2>5. ValueProgress(prog, answer', g)
    <3>1. (i + 1) - 1 = i /\ i + 1 # 1 /\ \A j \in 1..i : j \in 1..(i - 1) \/ j = i
      BY <1>1
    <3>2. \A j \in 1..i : j \in DOMAIN list /\ Added(prog, answer', list, j)
      BY <1>1, <1>2, <2>2, <3>1
    <3> QED BY <3>1, <3>2 DEF ValueProgress, opt, Node, list, i
  <2>6. Progress(prog, answer', f) /\ SameTask(f, Top) /\ f \in Frame(prog)
    BY <2>4, <2>5 DEF Progress, SameTask, Frame
  <2> QED BY <1>1, <1>3, <1>10, <2>6, ContinueMeans
<1> QED BY <1>8, <1>9, <1>10

LEMMA ValLiteralMeans ==
  ASSUME MeaningInv, ValLiteral, ResultInv'
  PROVE  MeaningInv'
<1> DEFINE n == Top.list[Top.i]
           v == IF Node(n).str THEN StrVal ELSE IntVal
<1>1. /\ FramesInv /\ frames # <<>> /\ Top.fn = "val" /\ Top.i <= Len(Top.list)
      /\ prog \in Programs /\ UNCHANGED <<prog, answer>> /\ Node(n).type = "val" /\ Fold(v)
  BY DEF MeaningInv, ResultInv, FramesInv, ValLiteral, Running
<1>2. Outlasts /\ n \in DOMAIN prog
  BY <1>1, NothingAnswered, TopIsHere
<1>3. Operand(prog, answer')[n] = IF prog[n].str THEN "string" ELSE "int"
  BY <1>1, <1>2, OperandMeaning DEF Node
<1>4. v \in Values /\ Shows(v, Operand(prog, answer')[n])
  BY <1>3 DEF Shows, Values, Unknown, IntVal, StrVal, Node
<1> HIDE DEF v
<1> QED BY <1>1, <1>2, <1>4, FoldMeans

LEMMA ValVariableMeans ==
  ASSUME MeaningInv, ValVariable, ResultInv'
  PROVE  MeaningInv'
<1> DEFINE n == Top.list[Top.i]
<1>1. /\ FramesInv /\ frames # <<>> /\ Top.fn = "val" /\ Top.i <= Len(Top.list)
      /\ prog \in Programs /\ UNCHANGED prog /\ Node(n).type = "var"
  BY DEF MeaningInv, ResultInv, FramesInv, ValVariable, Running
<1>2. PICK a \in Answers("var") : Callback(n, Top.handle, a) /\ Fold(ValueOf(a))
  BY DEF ValVariable
<1>3. Waiting(prog, Top) /\ Here(prog, Top) = n /\ n \in DOMAIN prog
  BY <1>1, TopIsHere
<1> HIDE DEF n
<1>4. answer' = [answer EXCEPT ![n] = a] /\ answer'[n] = a
  BY <1>2, <1>3 DEF Callback, MeaningInv, Asked
<1>5. Outlasts
  BY <1>1, <1>3, <1>4, SomethingAnswered DEF NodeTypes
<1>6. ValueOf(a) \in Values /\ Shows(ValueOf(a), Operand(prog, answer')[n])
  <2>1. a \in {"unset", "int", "heap"}
    BY DEF Answers
  <2>2. Operand(prog, answer')[n] = CASE a = "int"  -> "int"
                                      [] a = "heap" -> "string"
                                      [] OTHER      -> Rule!Error
    <3>1. Operand(prog, answer')[n] = CASE answer'[n] = "int"  -> "int"
                                        [] answer'[n] = "heap" -> "string"
                                        [] OTHER               -> Rule!Error
      BY <1>1, <1>3, OperandMeaning DEF Node
    <3> QED BY <1>4, <3>1
  <2> QED BY <2>1, <2>2 DEF Shows, ValueOf, Values, Unknown, IntVal, HeapVal
<1> QED BY <1>1, <1>2, <1>5, <1>6, FoldMeans DEF n

LEMMA ValEnterBlockMeans ==
  ASSUME MeaningInv, ValEnterBlock, ResultInv'
  PROVE  MeaningInv'
<1> DEFINE n == Top.list[Top.i]
           g == ValFrame(Node(n).kids, GetHandle)
<1>1. /\ FramesInv /\ frames # <<>> /\ Top.fn = "val" /\ Top.i <= Len(Top.list)
      /\ prog \in Programs /\ UNCHANGED <<prog, answer>> /\ Node(n).type = "valblock"
      /\ Enter(g) /\ GetHandle \in Nat
  BY HandleIsNat DEF MeaningInv, ResultInv, FramesInv, ValEnterBlock, Running
<1>2. Outlasts /\ n \in DOMAIN prog
  BY <1>1, NothingAnswered, TopIsHere
<1>3. g \in Frame(prog) /\ Top \in Frame(prog) /\ EnterAs(Top, g)
  BY <1>1, <1>2, NewFrames, TreeParts, TopKinds, EnterIsEnterAs DEF Node
<1>4. Progress(prog, answer', Top) /\ Progress(prog, answer', g)
  BY <1>1, <1>2, TopProgress, NewProgress
<1>5. SameTask(Top, Top) /\ Computes(prog, Top, g)
  BY <1>1 DEF SameTask, Computes, ValFrame, Node
<1> HIDE DEF g
<1> QED BY <1>1, <1>2, <1>3, <1>4, <1>5, EnterMeans

LEMMA ValEnterCallMeans ==
  ASSUME MeaningInv, ValEnterCall, ResultInv'
  PROVE  MeaningInv'
<1> DEFINE n == Top.list[Top.i]
<1>1. /\ FramesInv /\ frames # <<>> /\ Top.fn = "val" /\ Top.i <= Len(Top.list)
      /\ prog \in Programs /\ UNCHANGED prog /\ Node(n).type = "call"
  BY DEF MeaningInv, ResultInv, FramesInv, ValEnterCall, Running
<1>2. Waiting(prog, Top) /\ Here(prog, Top) = n /\ n \in DOMAIN prog
  BY <1>1, TopIsHere
<1>3. PICK a \in Answers("call") :
        /\ Callback(n, n, a)
        /\ IF a = "null" THEN ret' = Einval /\ UNCHANGED frames ELSE Enter(CallFrame(n))
  BY DEF ValEnterCall
<1> HIDE DEF n
<1>4. answer' = [answer EXCEPT ![n] = a] /\ answer'[n] = a
  BY <1>2, <1>3 DEF Callback, MeaningInv, Asked
<1>5. Outlasts
  BY <1>1, <1>2, <1>4, SomethingAnswered DEF NodeTypes
<1>6. CASE a = "null"
  <2>1. Operand(prog, answer')[n] = Rule!Error
    <3>1. answer'[n] \in {"null", "fail"}
      BY <1>4, <1>6
    <3> QED BY <1>1, <1>2, <3>1, OperandMeaning DEF Node
  <2>2. Wants(Top) = "value" /\ Needs(prog, answer', Top) = Rule!Error
    BY <1>1, <2>1 DEF Wants, Needs, n
  <2>3. Stands(Wants(Top), Needs(prog, answer', Top), ret', val')
    BY <1>3, <1>6, <2>2 DEF Stands
  <2> QED BY <1>1, <1>3, <1>5, <1>6, <2>3, StayMeans
<1>7. CASE a # "null"
  <2>1. EnterAs(Top, CallFrame(n)) /\ Top \in Frame(prog) /\ CallFrame(n) \in Frame(prog)
    BY <1>1, <1>2, <1>3, <1>7, EnterIsEnterAs, TopKinds, NewFrames DEF Node
  <2>2. Progress(prog, answer', Top) /\ Progress(prog, answer', CallFrame(n))
    BY <1>1, <1>4, <1>5, <1>7, TopProgress, NewProgress
  <2>3. SameTask(Top, Top) /\ Computes(prog, Top, CallFrame(n))
    BY <1>1 DEF SameTask, Computes, CallFrame, n
  <2> QED BY <1>1, <1>5, <2>1, <2>2, <2>3, EnterMeans
<1> QED BY <1>6, <1>7

LEMMA ValReturnedMeans ==
  ASSUME MeaningInv, ValReturned, ResultInv'
  PROVE  MeaningInv'
<1> DEFINE n == Top.list[Top.i]
           o == Operand(prog, answer)
<1>1. /\ FramesInv /\ frames # <<>> /\ Top.fn = "val" /\ ret # NoRet /\ val \in Values
      /\ UNCHANGED <<prog, answer>> /\ IF ret = Ok THEN Fold(val) ELSE Return(Einval)
  BY DEF MeaningInv, ResultInv, ValuesInv, ValReturned, Returned
<1>2. Outlasts /\ Wants(Top) = "value" /\ Top.i <= Len(Top.list)
  <2>1. Top.i \in DOMAIN Top.list /\ Top.list \in Seq(DOMAIN prog)
    BY <1>1, TopKinds DEF Waiting
  <2>2. DOMAIN Top.list = 1..Len(Top.list) /\ Len(Top.list) \in Nat
    BY <2>1, LenProperties
  <2> QED BY <1>1, <2>1, <2>2, NothingAnswered DEF Wants
<1>3. Needs(prog, answer, Top) = o[n]
  BY <1>1 DEF Needs
<1>4. CASE ret = Ok
  <2>1. o[n] = val.type
    BY <1>1, <1>2, <1>3, <1>4, ReturnedMeans
  <2>2. Shows(val, Operand(prog, answer')[n])
    BY <1>1, <2>1 DEF Shows, Unknown
  <2> QED BY <1>1, <1>2, <1>4, <2>2, FoldMeans
<1>5. CASE ret # Ok
  <2>1. o[n] = Rule!Error
    BY <1>1, <1>2, <1>3, <1>5, ReturnedMeans
  <2>2. Bad(prog, Top.list, Operand(prog, answer'), Top.i)
    BY <1>1, <2>1 DEF Bad
  <2> QED BY <1>1, <1>2, <1>5, <2>2, ErrorMeans
<1> QED BY <1>4, <1>5

LEMMA ValEndMeans ==
  ASSUME MeaningInv, ValEnd, ResultInv'
  PROVE  MeaningInv'
<1> DEFINE list == Top.list
           o    == Operand(prog, answer)
<1>1. /\ FramesInv /\ frames # <<>> /\ Top.fn = "val" /\ Top.i > Len(list)
      /\ UNCHANGED <<prog, answer>> /\ Return(Ok) /\ val' = Top.arg
  BY DEF MeaningInv, ResultInv, ValEnd, Running
<1>2. list \in Seq(DOMAIN prog) /\ Top.i \in Nat \ {0}
  BY <1>1, TopKinds DEF ValFrames
<1>3. DOMAIN list = 1..Len(list) /\ Len(list) \in Nat
  BY <1>2, LenProperties
<1>4. Outlasts /\ Progress(prog, answer, Top)
  BY <1>1, NothingAnswered, TopProgress
<1>5. /\ \A j \in 1..(Top.i - 1) : j \in DOMAIN list /\ j \notin Stops(prog, list, o)
      /\ Top.i = 1 => Top.arg = Unknown
      /\ Top.i # 1 => Top.arg = IntVal
  BY <1>1, <1>4, OperandsBefore
<1> HIDE DEF list, o
<1>6. Rule!ListValue(prog, list, o) = Top.arg.type
  <2>1. CASE Top.i = 1
    <3>1. list = <<>>
      BY <1>1, <1>2, <1>3, <2>1, EmptySeq
    <3> QED BY <1>5, <2>1, <3>1, ListMeaning DEF Unknown
  <2>2. CASE Top.i # 1
    <3>1. Top.i - 1 \in 1..(Top.i - 1)
      BY <1>2, <2>2
    <3>2. Top.i - 1 \in DOMAIN list
      BY <1>5, <3>1
    <3>3. list # <<>>
      BY <1>3, <3>2, EmptySeq
    <3>4. \A j \in DOMAIN list : j \in 1..(Top.i - 1)
      BY <1>1, <1>2, <1>3
    <3>5. Stops(prog, list, o) = {}
      BY <1>5, <3>4 DEF Stops
    <3> QED BY <1>5, <2>2, <3>3, <3>5, ListMeaning DEF IntVal
  <2> QED BY <2>1, <2>2
<1>7. Stands(Gives(Top), Sense(prog, answer', Top), Ok, val')
  BY <1>1, <1>6 DEF Stands, Gives, Sense, list, o
<1> QED BY <1>1, <1>4, <1>7, ReturnMeans

-----------------------------------------------------------------------------
(* Every state of the executor stands for the meaning of the rule.         *)

LEMMA MeaningInit ==
  ASSUME Init
  PROVE  MeaningInv
<1>1. ResultInv /\ prog \in Programs
  BY ResultInit DEF Init
<1>2. answer \in Asked(prog)
  BY DEF Init, Asked
<1>3. /\ frames = <<ChildsFrame(prog[1].kids)>> /\ Len(frames) = 1 /\ DOMAIN frames = 1..1
      /\ frames[1] = ChildsFrame(prog[1].kids) /\ ret = NoRet
  BY DEF Init
<1>4. Linked(prog, frames)
  BY <1>3 DEF Linked, ChildsFrame
<1>5. \A k \in DOMAIN frames : Progress(prog, answer, frames[k])
  BY <1>3, NewProgress
<1> QED BY <1>1, <1>2, <1>3, <1>4, <1>5 DEF MeaningInv

LEMMA MeaningNext ==
  ASSUME MeaningInv, [Next]_vars
  PROVE  MeaningInv'
<1>1. ResultInv /\ ResultInv'
  BY ResultNext DEF MeaningInv
<1>2. CASE Next
  <2>1. CASE ChildsEnterFunc
    BY <1>1, <2>1, ChildsEnterFuncMeans
  <2>2. CASE ChildsEnterExpr
    BY <1>1, <2>2, ChildsEnterExprMeans
  <2>3. CASE ChildsEnterBlock
    BY <1>1, <2>3, ChildsEnterBlockMeans
  <2>4. CASE ChildsEnd
    BY <1>1, <2>4, ChildsEndMeans
  <2>5. CASE ChildsReturned
    BY <1>1, <2>5, ChildsReturnedMeans
  <2>6. CASE BlockReturned
    BY <1>1, <2>6, BlockReturnedMeans
  <2>7. CASE ExprReturned
    BY <1>1, <2>7, ExprReturnedMeans
  <2>8. CASE ArgEnter("func") \/ ArgEnter("call")
    BY <1>1, <2>8, ArgEnterMeans
  <2>9. CASE ArgReturned("func", Dead)
    <3>1. ArgReturned("func", IF "func" = "func" THEN Dead ELSE Einval)
      BY <2>9
    <3> QED BY <1>1, <3>1, ArgReturnedMeans
  <2>10. CASE ArgReturned("call", Einval)
    <3>1. ArgReturned("call", IF "call" = "func" THEN Dead ELSE Einval)
      BY <2>10
    <3> QED BY <1>1, <3>1, ArgReturnedMeans
  <2>11. CASE FuncArgFailed
    BY <1>1, <2>11, FuncArgFailedMeans
  <2>12. CASE CallArgFailed
    BY <1>1, <2>12, CallArgFailedMeans
  <2>13. CASE FuncExec
    BY <1>1, <2>13, FuncExecMeans
  <2>14. CASE FuncBodyReturned
    BY <1>1, <2>14, FuncBodyReturnedMeans
  <2>15. CASE CallExec
    BY <1>1, <2>15, CallExecMeans
  <2>16. CASE ValLiteral
    BY <1>1, <2>16, ValLiteralMeans
  <2>17. CASE ValVariable
    BY <1>1, <2>17, ValVariableMeans
  <2>18. CASE ValEnterBlock
    BY <1>1, <2>18, ValEnterBlockMeans
  <2>19. CASE ValEnterCall
    BY <1>1, <2>19, ValEnterCallMeans
  <2>20. CASE ValReturned
    BY <1>1, <2>20, ValReturnedMeans
  <2>21. CASE ValEnd
    BY <1>1, <2>21, ValEndMeans
  <2> QED BY <1>2, <2>1, <2>2, <2>3, <2>4, <2>5, <2>6, <2>7, <2>8, <2>9, <2>10, <2>11,
             <2>12, <2>13, <2>14, <2>15, <2>16, <2>17, <2>18, <2>19, <2>20, <2>21 DEF Next
<1>3. CASE UNCHANGED vars
  <2>1. prog' = prog /\ answer' = answer /\ frames' = frames /\ ret' = ret /\ val' = val
    BY <1>3 DEF vars
  <2> QED BY <1>1, <2>1 DEF MeaningInv
<1> QED BY <1>2, <1>3

\* In every execution, what a function has found out about its list, its value or
\* its arguments is what they mean for the answers that its callbacks will have
\* given in the end, and what it returns is the meaning of the part of the rule
\* that its caller waits for (the recursion of execute_syntax_childs, _val, _func
\* and _call).
THEOREM MeaningInvariant == Spec => []MeaningInv
BY MeaningInit, MeaningNext, PTL DEF Spec

\* The mapped variables.
Answered == IF Finished THEN answer ELSE [n \in DOMAIN prog |-> NoAnswer]
Verdict  == IF Finished THEN ret ELSE NoRet

LEMMA SameAnswers ==
  ASSUME NEW t
  PROVE  Asked(t) = [DOMAIN t -> {Rule!NoAnswer} \cup UNION {Rule!Answers(x) : x \in Rule!NodeTypes}]
<1>1. Rule!NodeTypes = NodeTypes /\ Rule!NoAnswer = NoAnswer
  BY DEF Rule!NodeTypes, NodeTypes, Rule!NoAnswer, NoAnswer
<1>2. \A x : Rule!Answers(x) = Answers(x)
  BY DEF Rule!Answers, Answers
<1> QED BY <1>1, <1>2 DEF Asked

\* The step that ends an execution gives the verdict, and no other step does.
LEMMA JudgeNext ==
  ASSUME MeaningInv, MeaningInv', [Next]_vars
  PROVE  [Rule!Next]_(Rule!vars)
<1>1. prog' = prog
  BY DEF Next, vars, ChildsEnterFunc, ChildsEnterExpr, ChildsEnterBlock, ChildsEnd,
         ChildsReturned, BlockReturned, ExprReturned, ArgEnter, ArgReturned, FuncArgFailed,
         CallArgFailed, FuncExec, FuncBodyReturned, CallExec, ValLiteral, ValVariable,
         ValEnterBlock, ValEnterCall, ValReturned, ValEnd
<1>2. CASE UNCHANGED vars
  BY <1>2 DEF vars, Rule!vars, Finished
<1>3. CASE Next /\ ~Finished'
  <2>1. ~Finished
    BY <1>3, EveryStepWalks DEF MeaningInv, Finished
  <2> QED BY <1>1, <1>3, <2>1 DEF Rule!vars, NoAnswer, Rule!NoAnswer, NoRet, Rule!NoRet
<1>4. CASE Next /\ Finished'
  <2>1. ~Finished
    BY <1>4, EveryStepWalks DEF MeaningInv, Finished
  <2>2. ret' = Rule!Meaning(prog, answer')
    <3>1. ret' # NoRet /\ Awaited(frames') = "verdict"
      BY <1>4 DEF MeaningInv, ResultInv, FramesInv, Finished, Awaited
    <3>2. Claim(prog, answer', frames') = Rule!Meaning(prog, answer')
      BY <1>4 DEF Claim, Finished
    <3> QED BY <1>1, <3>1, <3>2 DEF MeaningInv, Stands
  <2>3. answer' \in Asked(prog)
    BY <1>1 DEF MeaningInv
  <2> QED BY <1>1, <1>4, <2>1, <2>2, <2>3, SameAnswers
          DEF Rule!Next, Rule!Judge, NoRet, Rule!NoRet
<1> QED BY <1>2, <1>3, <1>4

\* Every execution of every rule gives the verdict that the rule means, for the
\* answers of its callbacks, in whatever order && and || made it skip the others
\* (lre_execute); the executor implements RuleSemantics.
THEOREM ExecutorComputesMeaning == Spec => ComputesMeaning
<1>1. Init => Rule!Init
  BY DEF Init, Rule!Init, Finished, NoAnswer, Rule!NoAnswer, NoRet, Rule!NoRet
<1>2. MeaningInv /\ MeaningInv' /\ [Next]_vars => [Rule!Next]_(Rule!vars)
  BY JudgeNext
<1> QED BY <1>1, <1>2, MeaningInvariant, PTL DEF Spec, ComputesMeaning, Rule!Spec
=============================================================================

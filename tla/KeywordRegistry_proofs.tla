----------------------- MODULE KeywordRegistry_proofs -----------------------
(***************************************************************************)
(* What the operations of the slot vector do, for every vector; and that   *)
(* the registry's root vector owns exactly the stubs in use, in every      *)
(* reachable state and for every set of modules.                           *)
(***************************************************************************)
EXTENDS KeywordRegistry, NatSets, FiniteSetTheorems

-----------------------------------------------------------------------------
(* The vector.                                                             *)

\* vector_empty_slot returns the first hole, or the end.
LEMMA EmptySlotIsFirst ==
  ASSUME NEW v, IsVector(v)
  PROVE  /\ EmptySlot(v) \in 0..v.active
         /\ EmptySlot(v) = v.active \/ v.slot[EmptySlot(v)] = Null
         /\ \A j \in 0..(EmptySlot(v) - 1) : v.slot[j] # Null
<1> DEFINE Cand == {i \in 0..v.active : i = v.active \/ v.slot[i] = Null}
<1>1. v.active \in Nat
  BY CapacityAssumption DEF IsVector
<1>2. Cand \in SUBSET Nat /\ v.active \in Cand
  BY <1>1
<1>3. PICK i \in Cand : \A j \in Cand : i <= j
  BY <1>2, LeastNatural
<1>4. \A j \in 0..(i - 1) : v.slot[j] # Null
  BY <1>1, <1>3
<1>5. \E k \in 0..v.active : /\ k = v.active \/ v.slot[k] = Null
                             /\ \A j \in 0..k-1 : v.slot[j] # Null
  BY <1>3, <1>4
<1> QED BY <1>5 DEF EmptySlot

\* vector_set writes one slot, which was empty, and leaves the others alone.
LEMMA SetWritesOneSlot ==
  ASSUME NEW v, IsVector(v), NEW x \in Ptr
  PROVE  LET i == EmptySlot(v)
             w == Set(v, x)
         IN  /\ IsVector(w)
             /\ w.capacity >= v.capacity
             /\ i < w.capacity
             /\ w.slot[i] = x
             /\ w.active = IF v.active <= i THEN i + 1 ELSE v.active
             /\ \A j \in 0..(w.capacity - 1) :
                  j # i => w.slot[j] = IF j < v.capacity THEN v.slot[j] ELSE Null
<1> DEFINE i == EmptySlot(v)
           e == Ensure(v, i)
           w == Set(v, x)
<1>1. /\ v.capacity \in Nat \ {0}
      /\ v.active \in 0..v.capacity
      /\ v.slot \in [0..(v.capacity - 1) -> Ptr \cup {Null}]
      /\ v = [active |-> v.active, capacity |-> v.capacity, slot |-> v.slot]
  BY DEF IsVector
<1>2. i \in 0..v.active
  BY EmptySlotIsFirst
<1> HIDE DEF i
<1>3. /\ e.capacity \in Nat \ {0}
      /\ e.capacity >= v.capacity
      /\ i < e.capacity
      /\ e.active = v.active
      /\ e.slot \in [0..(e.capacity - 1) -> Ptr \cup {Null}]
      /\ \A j \in 0..(e.capacity - 1) :
           e.slot[j] = IF j < v.capacity THEN v.slot[j] ELSE Null
      /\ e = [active |-> e.active, capacity |-> e.capacity, slot |-> e.slot]
  <2>1. CASE v.capacity > i
    BY <1>1, <1>2, <2>1 DEF Ensure
  <2>2. CASE ~(v.capacity > i)
    <3> DEFINE s == [k \in 0..(2 * v.capacity - 1) |->
                       IF k < v.capacity THEN v.slot[k] ELSE Null]
    <3>1. e = [active |-> v.active, capacity |-> 2 * v.capacity, slot |-> s]
      BY <1>1, <2>2 DEF Ensure
    <3>2. s \in [0..(2 * v.capacity - 1) -> Ptr \cup {Null}]
      BY <1>1
    <3> HIDE DEF e
    <3> QED BY <1>1, <1>2, <2>2, <3>1, <3>2
  <2> QED BY <2>1, <2>2
<1>4. w = [active   |-> IF e.active <= i THEN i + 1 ELSE e.active,
           capacity |-> e.capacity,
           slot     |-> [e.slot EXCEPT ![i] = x]]
  <2> HIDE DEF e
  <2>1. w = [e EXCEPT !.slot[i] = x, !.active = IF @ <= i THEN i + 1 ELSE @]
    BY DEF Set, e, i
  <2> HIDE DEF w
  <2> QED BY <1>3, <2>1
<1> HIDE DEF e, w
<1>5. w.slot \in [0..(w.capacity - 1) -> Ptr \cup {Null}]
  BY <1>3, <1>4
<1>6. w.active \in 0..w.capacity
  BY <1>1, <1>2, <1>3, <1>4
<1>7. IsVector(w)
  BY <1>3, <1>4, <1>5, <1>6 DEF IsVector
<1> QED BY <1>1, <1>2, <1>3, <1>4, <1>7 DEF i, w

\* vector_set keeps the vector tight and adds the one pointer to its contents;
\* no slot is used twice if the pointer is new.
LEMMA SetAddsItem ==
  ASSUME NEW v, IsVector(v), Tight(v), NEW x \in Ptr
  PROVE  /\ Tight(Set(v, x))
         /\ Items(Set(v, x)) = Items(v) \cup {x}
         /\ Distinct(v) /\ x \notin Items(v) => Distinct(Set(v, x))
<1> DEFINE i == EmptySlot(v)
           w == Set(v, x)
<1>1. /\ v.capacity \in Nat \ {0}
      /\ v.active \in 0..v.capacity
      /\ v.slot \in [0..(v.capacity - 1) -> Ptr \cup {Null}]
  BY DEF IsVector
<1>2. /\ i \in 0..v.active
      /\ i = v.active \/ v.slot[i] = Null
  BY EmptySlotIsFirst
<1>3. /\ w.capacity >= v.capacity
      /\ w.capacity \in Nat
      /\ i < w.capacity
      /\ w.slot[i] = x
      /\ w.active = IF v.active <= i THEN i + 1 ELSE v.active
      /\ \A j \in 0..(w.capacity - 1) :
           j # i => w.slot[j] = IF j < v.capacity THEN v.slot[j] ELSE Null
  BY SetWritesOneSlot DEF IsVector
<1> HIDE DEF i, w
<1>4. Filled(w) = Filled(v) \cup {i}
  BY <1>1, <1>2, <1>3, NullAssumption DEF Filled, Active
<1>5. \A j \in Filled(v) : j # i /\ w.slot[j] = v.slot[j]
  <2> SUFFICES ASSUME NEW j \in Filled(v) PROVE j # i /\ w.slot[j] = v.slot[j]
    OBVIOUS
  <2>1. j \in 0..(v.active - 1) /\ v.slot[j] # Null
    BY DEF Filled, Active
  <2> QED BY <2>1, <1>1, <1>2, <1>3
<1>6. Tight(w)
  <2>1. w.active = 0 \/ w.slot[w.active - 1] # Null
    BY <1>1, <1>2, <1>3, NullAssumption DEF Tight
  <2>2. \A j \in 0..(w.capacity - 1) : j >= w.active => w.slot[j] = Null
    BY <1>1, <1>2, <1>3 DEF Tight
  <2> QED BY <2>1, <2>2 DEF Tight
<1>7. Items(w) = Items(v) \cup {x}
  BY <1>3, <1>4, <1>5 DEF Items
<1>8. Distinct(v) /\ x \notin Items(v) => Distinct(w)
  BY <1>3, <1>4, <1>5 DEF Distinct, Items
<1> QED BY <1>6, <1>7, <1>8 DEF w

\* vector_unset of a filled slot clears that slot and no other, and moves
\* active down over the empty slots that now end the vector, if there are any.
LEMMA UnsetClearsOneSlot ==
  ASSUME NEW v, IsVector(v), Tight(v), NEW i \in Filled(v)
  PROVE  LET w == Unset(v, i)
         IN  /\ IsVector(w)
             /\ w.capacity = v.capacity
             /\ w.slot = [v.slot EXCEPT ![i] = Null]
             /\ w.active <= v.active
             /\ \A j \in 0..(v.active - 1) : j >= w.active => w.slot[j] = Null
             /\ Tight(w)
<1> DEFINE cleared == [v.slot EXCEPT ![i] = Null]
           P(n) == /\ n = 0 \/ cleared[n-1] # Null
                   /\ \A j \in n..i : cleared[j] = Null
           t == CHOOSE n \in 0..i : P(n)
           w == Unset(v, i)
<1>1. /\ v.capacity \in Nat \ {0}
      /\ v.active \in 0..v.capacity
      /\ v.slot \in [0..(v.capacity - 1) -> Ptr \cup {Null}]
      /\ v = [active |-> v.active, capacity |-> v.capacity, slot |-> v.slot]
  BY DEF IsVector
<1>2. i \in 0..(v.active - 1)
  BY DEF Filled, Active
<1>3. /\ cleared \in [0..(v.capacity - 1) -> Ptr \cup {Null}]
      /\ cleared[i] = Null
      /\ \A j \in 0..(v.capacity - 1) : j # i => cleared[j] = v.slot[j]
  BY <1>1, <1>2
<1> HIDE DEF cleared
<1>4. \E n \in 0..i : P(n)
  <2> DEFINE Cand == {n \in 0..i : n = 0 \/ cleared[n-1] # Null}
  <2>1. Cand \in SUBSET Nat /\ Cand # {} /\ i \in Nat
    BY <1>1, <1>2
  <2>2. PICK n \in Cand : \A y \in Cand : y <= n
    <3>1. \A y \in Cand : y <= i
      OBVIOUS
    <3> HIDE DEF Cand
    <3> QED BY <2>1, <3>1, GreatestNatural
  <2>3. \A j \in n..i : cleared[j] = Null
    <3> SUFFICES ASSUME NEW j \in n..i, cleared[j] # Null PROVE FALSE
      OBVIOUS
    <3>1. j # i /\ j \in Nat /\ j + 1 \in 0..i
      BY <1>1, <1>2, <1>3, <2>1
    <3>2. j + 1 \in Cand
      BY <3>1
    <3> QED BY <2>1, <2>2, <3>1, <3>2
  <2> QED BY <2>2, <2>3
<1>5. t \in 0..i /\ P(t)
  BY <1>4
<1>6. w = [active   |-> IF i + 1 = v.active THEN t ELSE v.active,
           capacity |-> v.capacity,
           slot     |-> cleared]
  <2>1. w = [v EXCEPT !.slot = cleared, !.active = IF i + 1 = @ THEN t ELSE @]
    BY DEF Unset, cleared
  <2> HIDE DEF w, t
  <2> QED BY <1>1, <2>1
<1> HIDE DEF w, t
<1>7. IsVector(w)
  BY <1>1, <1>2, <1>3, <1>5, <1>6 DEF IsVector
<1>8. \A j \in 0..(v.active - 1) : j >= w.active => w.slot[j] = Null
  BY <1>1, <1>2, <1>5, <1>6
<1>9. Tight(w)
  <2>1. w.active = 0 \/ w.slot[w.active - 1] # Null
    <3>1. CASE i + 1 = v.active
      BY <1>5, <1>6, <3>1
    <3>2. CASE i + 1 # v.active
      BY <1>1, <1>2, <1>3, <1>6, <3>2 DEF Tight
    <3> QED BY <3>1, <3>2
  <2>2. \A j \in 0..(w.capacity - 1) : j >= w.active => w.slot[j] = Null
    <3> SUFFICES ASSUME NEW j \in 0..(w.capacity - 1), j >= w.active
                 PROVE  w.slot[j] = Null
      OBVIOUS
    <3>1. CASE j < v.active
      BY <1>1, <1>8, <3>1
    <3>2. CASE j >= v.active
      BY <1>1, <1>2, <1>3, <1>6, <3>2 DEF Tight
    <3> QED BY <1>1, <1>6, <3>1, <3>2
  <2> QED BY <2>1, <2>2 DEF Tight
<1>10. w.active <= v.active
  BY <1>1, <1>2, <1>5, <1>6
<1> QED BY <1>6, <1>7, <1>8, <1>9, <1>10 DEF w, cleared

\* So vector_unset takes exactly one pointer out of a vector without doubles.
LEMMA UnsetRemovesItem ==
  ASSUME NEW v, IsVector(v), Tight(v), Distinct(v), NEW i \in Filled(v)
  PROVE  /\ Items(Unset(v, i)) = Items(v) \ {v.slot[i]}
         /\ Distinct(Unset(v, i))
<1> DEFINE w == Unset(v, i)
<1>1. /\ v.capacity \in Nat \ {0}
      /\ v.active \in 0..v.capacity
      /\ v.slot \in [0..(v.capacity - 1) -> Ptr \cup {Null}]
  BY DEF IsVector
<1>2. /\ w.active \in Nat
      /\ w.slot = [v.slot EXCEPT ![i] = Null]
      /\ w.active <= v.active
      /\ \A j \in 0..(v.active - 1) : j >= w.active => w.slot[j] = Null
  <2>1. /\ IsVector(w)
        /\ w.slot = [v.slot EXCEPT ![i] = Null]
        /\ w.active <= v.active
        /\ \A j \in 0..(v.active - 1) : j >= w.active => w.slot[j] = Null
    BY UnsetClearsOneSlot
  <2>2. w.active \in Nat
    <3> HIDE DEF w
    <3> QED BY <2>1 DEF IsVector
  <2> QED BY <2>1, <2>2
<1> HIDE DEF w
<1>3. i \in 0..(v.active - 1)
  BY DEF Filled, Active
<1>4. Filled(w) = Filled(v) \ {i}
  BY <1>1, <1>2, <1>3 DEF Filled, Active
<1>5. \A j \in Filled(w) : w.slot[j] = v.slot[j]
  BY <1>1, <1>2, <1>4 DEF Filled, Active
<1>6. \A j \in Filled(w) : v.slot[j] # v.slot[i]
  BY <1>4 DEF Distinct
<1>7. Items(w) = Items(v) \ {v.slot[i]}
  BY <1>4, <1>5, <1>6 DEF Items
<1>8. Distinct(w)
  BY <1>4, <1>5 DEF Distinct
<1> QED BY <1>7, <1>8 DEF w

-----------------------------------------------------------------------------
(* The registry.                                                           *)

\* Outside lre_init .. lre_release there is no vector and no call.
Quiet == phase \in {"new", "released"} => root = NewVector /\ Idle

IInv == TypeOK /\ VectorOwnsStubs /\ Quiet

LEMMA NewVectorIsEmpty ==
  /\ IsVector(NewVector) /\ Tight(NewVector) /\ Distinct(NewVector)
  /\ Items(NewVector) = {}
<1>1. NewVector.slot \in [0..(NewVector.capacity - 1) -> Ptr \cup {Null}]
  BY CapacityAssumption DEF NewVector
<1>2. IsVector(NewVector)
  BY <1>1, CapacityAssumption DEF NewVector, IsVector
<1>3. Filled(NewVector) = {}
  BY DEF NewVector, Filled, Active
<1>4. Tight(NewVector)
  BY CapacityAssumption DEF NewVector, Tight
<1> QED BY <1>2, <1>3, <1>4 DEF Items, Distinct

\* The slots a loop visits are filled, and a prefix of the vector.
LEMMA VisitedIsPrefix ==
  ASSUME NEW v, IsVector(v)
  PROVE  /\ Visited(v) \subseteq Filled(v)
         /\ \A i \in Visited(v) : i \in Nat /\ i < v.capacity /\ v.slot[i] \in Ptr
         /\ \A i \in Visited(v) : \A j \in 0..i : j \in Visited(v)
<1>1. /\ v.capacity \in Nat
      /\ v.active \in 0..v.capacity
      /\ v.slot \in [0..(v.capacity - 1) -> Ptr \cup {Null}]
  BY DEF IsVector
<1> QED BY <1>1 DEF Visited, Filled, Active

\* find_stub_by_keyword returns the first visited stub of that name.
LEMMA FindStubIsFirst ==
  ASSUME NEW v, IsVector(v), NEW h, NEW kw, Matches(v, h, kw) # {}
  PROVE  \E i \in Matches(v, h, kw) :
           /\ \A j \in Matches(v, h, kw) : i <= j
           /\ FindStub(v, h, kw) = v.slot[i]
<1> DEFINE found == Matches(v, h, kw)
<1>1. found \in SUBSET Nat
  BY VisitedIsPrefix DEF Matches
<1>2. \E i \in found : \A j \in found : i <= j
  <2> HIDE DEF found
  <2> QED BY <1>1, LeastNatural DEF found
<1> QED BY <1>2 DEF FindStub

LEMMA FindStubInVector ==
  ASSUME NEW v, IsVector(v), NEW h, NEW kw, FindStub(v, h, kw) # Null
  PROVE  \E i \in Visited(v) : FindStub(v, h, kw) = v.slot[i] /\ h[v.slot[i]].kw = kw
<1>1. Matches(v, h, kw) # {}
  BY DEF FindStub
<1> QED BY <1>1, FindStubIsFirst DEF Matches

LEMMA WithoutFirstType ==
  ASSUME NEW seq \in Seq(Module), NEW m \in Module
  PROVE  WithoutFirst(seq, m) \in Seq(Module)
<1>1. CASE \E i \in DOMAIN seq : seq[i] = m
  <2> DEFINE k == CHOOSE i \in DOMAIN seq :
                    seq[i] = m /\ \A j \in 1..i-1 : seq[j] # m
  <2>1. \E i \in DOMAIN seq : seq[i] = m /\ \A j \in 1..i-1 : seq[j] # m
    <3> DEFINE T == {i \in DOMAIN seq : seq[i] = m}
    <3>1. T \in SUBSET Nat /\ T # {}
      BY <1>1
    <3>2. PICK i \in T : \A j \in T : i <= j
      <4> HIDE DEF T
      <4> QED BY <3>1, LeastNatural
    <3> QED BY <3>2
  <2>2. k \in 1..Len(seq)
    BY <2>1
  <2> HIDE DEF k
  <2>3. SubSeq(seq, 1, k-1) \in Seq(Module)
    BY <2>2
  <2>4. SubSeq(seq, k+1, Len(seq)) \in Seq(Module)
    BY <2>2
  <2> QED BY <1>1, <2>3, <2>4 DEF WithoutFirst, k
<1>2. CASE ~(\E i \in DOMAIN seq : seq[i] = m)
  BY <1>2 DEF WithoutFirst
<1> QED BY <1>1, <1>2

LEMMA RegisterNextKeepsIInv == IInv /\ RegisterNext => IInv'
<1> SUFFICES ASSUME IInv, RegisterNext PROVE IInv'
  OBVIOUS
<1> DEFINE m == call.module
           n == call.next
           d == Decl[m][n]
<1>1. /\ m \in Module /\ n \in 1..Len(Decl[m]) /\ call \in Calls /\ call.op = "register"
      /\ d \in Declaration
      /\ [call EXCEPT !.next = @ + 1] \in Calls
      /\ phase \notin {"new", "released"}
  <2>1. call \in [op : {"register", "unregister"}, module : Module, next : Nat \ {0}]
    BY DEF IInv, TypeOK, Calls, NoCall, RegisterNext
  <2>2. Decl[m] \in Seq(Declaration)
    BY <2>1, DeclAssumption
  <2>3. n \in 1..Len(Decl[m])
    BY <2>1, <2>2 DEF RegisterNext
  <2>4. phase \notin {"new", "released"}
    BY DEF IInv, Quiet, Idle, NoCall, RegisterNext
  <2> QED BY <2>1, <2>2, <2>3, <2>4 DEF RegisterNext, Calls
<1>2. CASE d.installable
  <2>1. PICK s \in Ptr \ Live :
          /\ heap' = [heap EXCEPT ![s] = [kw |-> d.kw, data |-> <<m, n>>]]
          /\ root' = Set(root, s)
    BY <1>2 DEF RegisterNext, Declared
  <2>2. /\ call' = [call EXCEPT !.next = @ + 1]
        /\ UNCHANGED <<builtin, modules, phase, lost, inits>>
    BY <1>2 DEF RegisterNext, Declared
  <2>3. heap' \in [Ptr -> Stub \cup {Null}]
    <3>1. [kw |-> d.kw, data |-> <<m, n>>] \in Stub
      BY <1>1 DEF Stub, Declaration
    <3> QED BY <2>1, <3>1 DEF IInv, TypeOK
  <2>4. Live' = Live \cup {s}
    <3>1. [kw |-> d.kw, data |-> <<m, n>>] # Null
      BY <1>1, NullIsNoStub DEF Stub, Declaration
    <3> QED BY <2>1, <2>3, <3>1 DEF Live, IInv, TypeOK
  <2>5. s \notin Items(root) /\ s \notin lost
    BY <2>1 DEF IInv, VectorOwnsStubs
  <2>6. /\ IsVector(root') /\ Tight(root') /\ Distinct(root')
        /\ Items(root') = Items(root) \cup {s}
    BY <2>1, <2>5, SetWritesOneSlot, SetAddsItem DEF IInv, TypeOK, VectorOwnsStubs
  <2>7. TypeOK'
    BY <1>1, <2>2, <2>3, <2>6 DEF IInv, TypeOK
  <2>8. VectorOwnsStubs'
    BY <2>2, <2>4, <2>5, <2>6 DEF IInv, VectorOwnsStubs, Items, Tight, Distinct, Filled, Active
  <2>9. Quiet'
    BY <1>1, <2>2 DEF Quiet
  <2> QED BY <2>7, <2>8, <2>9 DEF IInv
<1>3. CASE ~d.installable
  <2>1. /\ call' = NoCall
        /\ builtin' = IF phase = "init" THEN Len(Builtins) + 1 ELSE builtin
        /\ UNCHANGED <<root, heap, modules, phase, lost, inits>>
    BY <1>3 DEF RegisterNext, Declared
  <2>2. builtin' \in 1..(Len(Builtins) + 1)
    BY <2>1, BuiltinsAssumption DEF IInv, TypeOK
  <2>3. TypeOK'
    BY <2>1, <2>2 DEF IInv, TypeOK, Calls, IsVector
  <2>4. VectorOwnsStubs'
    BY <2>1 DEF IInv, VectorOwnsStubs, Live, Items, Tight, Distinct, Filled, Active
  <2>5. Quiet'
    BY <1>1, <2>1 DEF Quiet
  <2> QED BY <2>3, <2>4, <2>5 DEF IInv
<1> QED BY <1>2, <1>3

LEMMA UnregisterNextKeepsIInv == IInv /\ UnregisterNext => IInv'
<1> SUFFICES ASSUME IInv, UnregisterNext PROVE IInv'
  OBVIOUS
<1> DEFINE s == Find(Declared(call.module, call.next).kw)
<1>1. /\ call' = [call EXCEPT !.next = @ + 1]
      /\ call' \in Calls
      /\ phase \notin {"new", "released"}
      /\ UNCHANGED <<modules, phase, builtin, lost, inits>>
  <2>1. call \in [op : {"register", "unregister"}, module : Module, next : Nat \ {0}]
    BY DEF IInv, TypeOK, Calls, NoCall, UnregisterNext
  <2>2. phase \notin {"new", "released"}
    BY DEF IInv, Quiet, Idle, NoCall, UnregisterNext
  <2> QED BY <2>1, <2>2 DEF UnregisterNext, Calls
<1>2. CASE s = Null
  <2>1. UNCHANGED <<root, heap>>
    BY <1>2 DEF UnregisterNext
  <2>2. TypeOK'
    BY <1>1, <2>1 DEF IInv, TypeOK, IsVector
  <2>3. VectorOwnsStubs'
    BY <1>1, <2>1 DEF IInv, VectorOwnsStubs, Live, Items, Tight, Distinct, Filled, Active
  <2> QED BY <1>1, <2>2, <2>3 DEF IInv, Quiet
<1>3. CASE s # Null
  <2> HIDE DEF s
  <2>1. Uninstall(s)
    BY <1>3 DEF UnregisterNext, s
  <2>2. \E i \in Visited(root) : root.slot[i] = s
    BY <1>3, FindStubInVector DEF s, Find, IInv, TypeOK
  <2>3. PICK i \in Visited(root) : root.slot[i] = s /\ root' = Unset(root, i)
    BY <2>1, <2>2 DEF Uninstall
  <2>4. i \in Filled(root) /\ s \in Ptr
    BY <2>3, VisitedIsPrefix DEF IInv, TypeOK
  <2>5. /\ IsVector(root') /\ Tight(root') /\ Distinct(root')
        /\ Items(root') = Items(root) \ {s}
    BY <2>3, <2>4, UnsetClearsOneSlot, UnsetRemovesItem DEF IInv, TypeOK, VectorOwnsStubs
  <2>6. heap' = [heap EXCEPT ![s] = Null] /\ heap' \in [Ptr -> Stub \cup {Null}]
    BY <2>1, <2>4 DEF Uninstall, IInv, TypeOK
  <2>7. Live' = Live \ {s}
    BY <2>4, <2>6 DEF Live, IInv, TypeOK
  <2>8. s \in Items(root)
    BY <2>3, <2>4 DEF Items
  <2>9. TypeOK'
    BY <1>1, <2>5, <2>6 DEF IInv, TypeOK
  <2>10. VectorOwnsStubs'
    BY <1>1, <2>5, <2>7, <2>8 DEF IInv, VectorOwnsStubs
  <2> QED BY <1>1, <2>9, <2>10 DEF IInv, Quiet
<1> QED BY <1>2, <1>3

LEMMA LreKeywordReleaseKeepsIInv == IInv /\ LreKeywordRelease => IInv'
<1> SUFFICES ASSUME IInv, LreKeywordRelease PROVE IInv'
  OBVIOUS
<1> DEFINE destroyed == {root.slot[i] : i \in Visited(root)}
<1>1. /\ heap' = [s \in Ptr |-> IF s \in destroyed THEN Null ELSE heap[s]]
      /\ lost' = lost \cup (Items(root) \ destroyed)
      /\ root' = NewVector
      /\ phase' = "released"
      /\ call' = NoCall
      /\ UNCHANGED <<modules, builtin, call, inits>>
  BY DEF LreKeywordRelease, Idle
<1>2. destroyed \subseteq Items(root)
  BY VisitedIsPrefix DEF IInv, TypeOK, Items
<1> HIDE DEF destroyed
<1>3. Live' = Live \ destroyed
  BY <1>1 DEF Live
<1>4. heap' \in [Ptr -> Stub \cup {Null}]
  BY <1>1 DEF IInv, TypeOK
<1>5. Items(root) \subseteq Ptr
  BY DEF IInv, VectorOwnsStubs, Live
<1>6. TypeOK'
  BY <1>1, <1>4, <1>5, NewVectorIsEmpty DEF IInv, TypeOK, Phases
<1>7. VectorOwnsStubs'
  BY <1>1, <1>2, <1>3, NewVectorIsEmpty DEF IInv, VectorOwnsStubs
<1> QED BY <1>1, <1>6, <1>7 DEF IInv, Quiet, Idle

\* The steps that only move from one call to the next.
LEMMA ControlStepKeepsIInv ==
  ASSUME IInv,
         \/ InitNextBuiltin \/ InitDone \/ RegisterDone \/ UnregisterDone
         \/ \E m \in Module : LrcModuleRegister(m) \/ LrcModuleUnregister(m)
         \/ LreRelease \/ ReleaseNextBuiltin \/ UNCHANGED vars
  PROVE  IInv'
<1>1. UNCHANGED <<root, heap, lost, inits>>
  BY DEF InitNextBuiltin, InitDone, RegisterDone, UnregisterDone, LrcModuleRegister,
         LrcModuleUnregister, LreRelease, ReleaseNextBuiltin, vars
<1>2. VectorOwnsStubs'
  BY <1>1 DEF IInv, VectorOwnsStubs, Live, Items, Tight, Distinct, Filled, Active
<1>3. /\ IsVector(root') /\ heap' \in [Ptr -> Stub \cup {Null}]
      /\ lost' \subseteq Ptr /\ inits' \in 0..MaxInits
  BY <1>1 DEF IInv, TypeOK, IsVector
<1>4. modules' \in Seq(Module)
  <2>1. CASE RegisterDone
    <3>1. call.module \in Module
      BY <2>1 DEF IInv, TypeOK, Calls, NoCall, RegisterDone
    <3> QED BY <2>1, <3>1 DEF RegisterDone, IInv, TypeOK
  <2>2. CASE UnregisterDone
    <3>1. call.module \in Module
      BY <2>2 DEF IInv, TypeOK, Calls, NoCall, UnregisterDone
    <3> QED BY <2>2, <3>1, WithoutFirstType DEF UnregisterDone, IInv, TypeOK
  <2>3. CASE UNCHANGED modules
    BY <2>3 DEF IInv, TypeOK
  <2> QED BY <2>1, <2>2, <2>3
       DEF InitNextBuiltin, InitDone, LrcModuleRegister,
           LrcModuleUnregister, LreRelease, ReleaseNextBuiltin, vars
<1>5. phase' \in Phases /\ builtin' \in 1..(Len(Builtins) + 1)
  BY BuiltinsAssumption
  DEF IInv, TypeOK, Phases, InitNextBuiltin, InitDone, RegisterDone, UnregisterDone,
      LrcModuleRegister, LrcModuleUnregister, LreRelease, ReleaseNextBuiltin, vars
<1>6. call' \in Calls
  BY BuiltinsAssumption
  DEF IInv, TypeOK, Calls, NoCall, Begin, InitNextBuiltin, InitDone, RegisterDone,
      UnregisterDone, LrcModuleRegister, LrcModuleUnregister, LreRelease,
      ReleaseNextBuiltin, vars
<1>7. Quiet'
  BY <1>1
  DEF IInv, Quiet, Idle, NoCall, InitNextBuiltin, InitDone, RegisterDone, UnregisterDone,
      LrcModuleRegister, LrcModuleUnregister, LreRelease, ReleaseNextBuiltin, vars
<1> QED BY <1>2, <1>3, <1>4, <1>5, <1>6, <1>7 DEF IInv, TypeOK

LEMMA NextKeepsIInv == IInv /\ [Next]_vars => IInv'
<1> SUFFICES ASSUME IInv, [Next]_vars PROVE IInv'
  OBVIOUS
<1>1. CASE LreInit
  <2>1. /\ root' = NewVector
        /\ root = NewVector
        /\ call = NoCall
        /\ phase' = "init"
        /\ builtin' = 1
        /\ inits' \in 0..MaxInits
        /\ UNCHANGED <<heap, modules, call, lost>>
    BY <1>1, BoundAssumption DEF LreInit, IInv, Quiet, Idle, TypeOK
  <2>2. TypeOK'
    BY <2>1, NewVectorIsEmpty, BuiltinsAssumption DEF IInv, TypeOK, Phases
  <2>3. VectorOwnsStubs'
    BY <2>1 DEF IInv, VectorOwnsStubs, Live, Items, Tight, Distinct, Filled, Active
  <2> QED BY <2>1, <2>2, <2>3 DEF IInv, Quiet
<1> QED BY <1>1, RegisterNextKeepsIInv, UnregisterNextKeepsIInv,
           LreKeywordReleaseKeepsIInv, ControlStepKeepsIInv DEF Next

LEMMA InitEstablishesIInv == Init => IInv
<1> SUFFICES ASSUME Init PROVE IInv
  OBVIOUS
<1>1. TypeOK
  BY NewVectorIsEmpty, BuiltinsAssumption, BoundAssumption
  DEF Init, TypeOK, Phases, Calls
<1>2. VectorOwnsStubs
  BY NewVectorIsEmpty DEF Init, VectorOwnsStubs, Live
<1> QED BY <1>1, <1>2 DEF IInv, Quiet, Init, Idle

LEMMA IInvIsInvariant == Spec => []IInv
<1>1. Init => IInv
  BY InitEstablishesIInv
<1>2. IInv /\ [Next]_vars => IInv'
  BY NextKeepsIInv
<1> QED BY <1>1, <1>2, PTL DEF Spec

\* In every state the registry's variables are well formed: calls are of modules
\* there are, what is installed is a stub that a module declares, and the root
\* is a vector.
THEOREM RegistryIsTyped == Spec => []TypeOK
<1>1. IInv => TypeOK
  BY DEF IInv
<1> QED BY <1>1, IInvIsInvariant, PTL

\* In every state the root vector holds each stub in use exactly once, and no
\* stub that was freed (keyword_install, keyword_uninstall, lre_keyword_release).
THEOREM RegistryOwnsStubs == Spec => []VectorOwnsStubs
<1>1. IInv => VectorOwnsStubs
  BY DEF IInv
<1> QED BY <1>1, IInvIsInvariant, PTL

-----------------------------------------------------------------------------
\* Filling a slot changes nothing that a loop visited before.
LEMMA SetKeepsVisited ==
  ASSUME NEW v, IsVector(v), NEW x \in Ptr
  PROVE  \A i \in Visited(v) : i \in Visited(Set(v, x)) /\ Set(v, x).slot[i] = v.slot[i]
<1> DEFINE e == EmptySlot(v)
           w == Set(v, x)
<1>1. /\ v.capacity \in Nat
      /\ v.active \in 0..v.capacity
      /\ v.slot \in [0..(v.capacity - 1) -> Ptr \cup {Null}]
  BY DEF IsVector
<1>2. e \in 0..v.active /\ (e = v.active \/ v.slot[e] = Null)
  BY EmptySlotIsFirst
<1>3. IsVector(w)
  BY SetWritesOneSlot
<1>4. /\ w.capacity >= v.capacity
      /\ w.active = IF v.active <= e THEN e + 1 ELSE v.active
      /\ \A j \in 0..(w.capacity - 1) :
           j # e => w.slot[j] = IF j < v.capacity THEN v.slot[j] ELSE Null
  BY SetWritesOneSlot
<1> HIDE DEF e, w
<1>5. w.capacity \in Nat
  BY <1>3 DEF IsVector
<1> SUFFICES ASSUME NEW i \in Visited(v)
             PROVE  i \in Visited(w) /\ w.slot[i] = v.slot[i]
  BY DEF w
<1>6. i \in 0..(v.active - 1) /\ \A j \in 0..i : v.slot[j] # Null
  BY DEF Visited, Active
<1>7. i < e
  BY <1>1, <1>2, <1>6
<1>8. \A j \in 0..i : w.slot[j] = v.slot[j]
  BY <1>1, <1>2, <1>4, <1>5, <1>6, <1>7
<1>9. w.active \in Int /\ i \in 0..(w.active - 1)
  BY <1>1, <1>2, <1>4, <1>6
<1>10. i \in 0..i /\ w.slot[i] = v.slot[i]
  BY <1>6, <1>8
<1>11. \A j \in 0..i : w.slot[j] # Null
  BY <1>6, <1>8
<1> QED BY <1>9, <1>10, <1>11 DEF Visited, Active

\* Emptying a slot leaves the slots before it visited, and no other.
LEMMA UnsetKeepsEarlierVisited ==
  ASSUME NEW v, IsVector(v), Tight(v), NEW i \in Visited(v)
  PROVE  \A j : j \in Visited(Unset(v, i)) <=> j \in Visited(v) /\ j < i
<1> DEFINE w == Unset(v, i)
<1>1. /\ v.capacity \in Nat
      /\ v.active \in 0..v.capacity
      /\ v.slot \in [0..(v.capacity - 1) -> Ptr \cup {Null}]
  BY DEF IsVector
<1>2. /\ IsVector(w)
      /\ w.slot = [v.slot EXCEPT ![i] = Null]
      /\ w.active <= v.active
      /\ \A j \in 0..(v.active - 1) : j >= w.active => w.slot[j] = Null
  BY VisitedIsPrefix, UnsetClearsOneSlot
<1> HIDE DEF w
<1>3. w.active \in Nat
  BY <1>2 DEF IsVector
<1>4. i \in 0..(v.active - 1) /\ \A j \in 0..i : v.slot[j] # Null
  BY DEF Visited, Active
<1>5. \A j \in 0..(v.capacity - 1) : w.slot[j] = IF j = i THEN Null ELSE v.slot[j]
  BY <1>1, <1>2
<1>6. \A j \in Visited(w) : j \in Visited(v) /\ j < i
  <2> SUFFICES ASSUME NEW j \in Visited(w) PROVE j \in Visited(v) /\ j < i
    OBVIOUS
  <2>1. j \in 0..(w.active - 1) /\ \A k \in 0..j : w.slot[k] # Null
    BY DEF Visited, Active
  <2>2. j < i
    BY <1>1, <1>3, <1>4, <1>5, <2>1
  <2>3. \A k \in 0..j : v.slot[k] # Null
    BY <1>1, <1>4, <2>1, <2>2
  <2> QED BY <1>1, <1>2, <1>3, <2>1, <2>2, <2>3 DEF Visited, Active
<1>7. \A j \in Visited(v) : j < i => j \in Visited(w)
  <2> SUFFICES ASSUME NEW j \in Visited(v), j < i PROVE j \in Visited(w)
    OBVIOUS
  <2>1. j \in 0..(v.active - 1) /\ \A k \in 0..j : v.slot[k] # Null
    BY DEF Visited, Active
  <2>2. \A k \in 0..j : w.slot[k] # Null
    <3> SUFFICES ASSUME NEW k \in 0..j PROVE w.slot[k] # Null
      OBVIOUS
    <3>1. k \in 0..(v.capacity - 1) /\ k # i
      BY <1>1, <1>4, <2>1
    <3>2. w.slot[k] = v.slot[k]
      BY <1>5, <3>1
    <3> QED BY <2>1, <3>2
  <2>3. j < w.active
    BY <1>1, <1>2, <1>3, <2>1, <2>2
  <2> QED BY <1>3, <2>1, <2>2, <2>3 DEF Visited, Active
<1> QED BY <1>6, <1>7 DEF w

\* Two vectors of which one loop visits a prefix of the other's slots, with the
\* same names in it, give the same stub for a name that both resolve.
LEMMA PrefixResolvesAlike ==
  ASSUME NEW v, IsVector(v), NEW g, NEW w, IsVector(w), NEW h, NEW kw,
         \A i \in Visited(v) : /\ i \in Visited(w)
                               /\ w.slot[i] = v.slot[i]
                               /\ h[w.slot[i]].kw = kw <=> g[v.slot[i]].kw = kw,
         Matches(v, g, kw) # {}
  PROVE  FindStub(w, h, kw) = FindStub(v, g, kw)
<1>1. PICK i \in Matches(v, g, kw) : /\ \A j \in Matches(v, g, kw) : i <= j
                                     /\ FindStub(v, g, kw) = v.slot[i]
  BY FindStubIsFirst
<1>2. i \in Visited(v) /\ i \in Matches(w, h, kw)
  BY <1>1 DEF Matches
<1>3. PICK k \in Matches(w, h, kw) : /\ \A j \in Matches(w, h, kw) : k <= j
                                     /\ FindStub(w, h, kw) = w.slot[k]
  BY <1>2, FindStubIsFirst
<1>4. k \in Nat /\ i \in Nat /\ k <= i
  BY <1>2, <1>3, VisitedIsPrefix DEF Matches
<1>5. k \in Visited(v)
  BY <1>2, <1>4, VisitedIsPrefix
<1>6. k \in Matches(v, g, kw)
  BY <1>3, <1>5 DEF Matches
<1>7. k = i
  BY <1>1, <1>4, <1>6
<1> QED BY <1>1, <1>2, <1>3, <1>7

LEMMA RegisterNeverRebinds ==
  ASSUME IInv, RegisterNext, NEW kw, Find(kw) # Null
  PROVE  Find(kw)' = Find(kw)
<1>1. CASE Decl[call.module][call.next].installable
  <2>1. PICK s \in Ptr \ Live :
          /\ heap' = [heap EXCEPT ![s] = [kw   |-> Decl[call.module][call.next].kw,
                                          data |-> <<call.module, call.next>>]]
          /\ root' = Set(root, s)
    BY <1>1 DEF RegisterNext, Declared
  <2>2. IsVector(root) /\ IsVector(root') /\ Items(root) \subseteq Live
    BY <2>1, SetWritesOneSlot DEF IInv, TypeOK, VectorOwnsStubs
  <2>3. \A i \in Visited(root) :
          /\ i \in Visited(root')
          /\ root'.slot[i] = root.slot[i]
          /\ heap'[root'.slot[i]].kw = kw <=> heap[root.slot[i]].kw = kw
    <3> SUFFICES ASSUME NEW i \in Visited(root)
                 PROVE  /\ i \in Visited(root')
                        /\ root'.slot[i] = root.slot[i]
                        /\ heap'[root'.slot[i]].kw = kw <=> heap[root.slot[i]].kw = kw
      OBVIOUS
    <3>1. i \in Visited(root') /\ root'.slot[i] = root.slot[i]
      BY <2>1, <2>2, SetKeepsVisited
    <3>2. root.slot[i] \in Items(root) /\ root.slot[i] \in Ptr
      BY <2>2, VisitedIsPrefix DEF Items
    <3>3. heap'[root.slot[i]] = heap[root.slot[i]]
      BY <2>1, <2>2, <3>2 DEF IInv, TypeOK
    <3> QED BY <3>1, <3>3
  <2>4. Matches(root, heap, kw) # {}
    BY DEF Find, FindStub
  <2> QED BY <2>2, <2>3, <2>4, PrefixResolvesAlike DEF Find
<1>2. CASE ~Decl[call.module][call.next].installable
  BY <1>2 DEF RegisterNext, Declared, Find
<1> QED BY <1>1, <1>2

LEMMA UnregisterNeverRebindsOthers ==
  ASSUME IInv, UnregisterNext, NEW kw, kw # Decl[call.module][call.next].kw,
         Find(kw)' # Null
  PROVE  Find(kw)' = Find(kw)
<1> DEFINE s == Find(Decl[call.module][call.next].kw)
<1>1. CASE s = Null
  BY <1>1 DEF UnregisterNext, Declared, Find
<1>2. CASE s # Null
  <2>1. PICK i \in Visited(root) : /\ s = root.slot[i]
                                   /\ heap[s].kw = Decl[call.module][call.next].kw
    BY <1>2, FindStubInVector DEF Find, IInv, TypeOK
  <2> HIDE DEF s
  <2>2. Uninstall(s)
    BY <1>2 DEF UnregisterNext, Declared, s
  <2>3. PICK k \in Visited(root) : root.slot[k] = s /\ root' = Unset(root, k)
    BY <2>1, <2>2 DEF Uninstall
  <2>4. /\ IsVector(root) /\ Tight(root) /\ Distinct(root) /\ k \in Filled(root)
        /\ k \in Nat /\ k < root.capacity /\ s \in Ptr
    BY <2>3, VisitedIsPrefix DEF IInv, TypeOK, VectorOwnsStubs
  <2>5. IsVector(root') /\ root'.slot = [root.slot EXCEPT ![k] = Null]
    BY <2>3, <2>4, UnsetClearsOneSlot
  <2>6. \A j \in Visited(root') :
          /\ j \in Visited(root)
          /\ root.slot[j] = root'.slot[j]
          /\ heap[root.slot[j]].kw = kw <=> heap'[root'.slot[j]].kw = kw
    <3> SUFFICES ASSUME NEW j \in Visited(root')
                 PROVE  /\ j \in Visited(root)
                        /\ root.slot[j] = root'.slot[j]
                        /\ heap[root.slot[j]].kw = kw <=> heap'[root'.slot[j]].kw = kw
      OBVIOUS
    <3>1. j \in Visited(root) /\ j < k
      BY <2>3, <2>4, UnsetKeepsEarlierVisited
    <3>2. j \in Filled(root) /\ j \in Nat /\ j < root.capacity
      BY <2>4, <3>1, VisitedIsPrefix
    <3>3. j # k
      BY <2>4, <3>1, <3>2
    <3>4. root'.slot[j] = root.slot[j]
      BY <2>4, <2>5, <3>2, <3>3 DEF IsVector
    <3>5. root.slot[j] # s
      BY <2>3, <2>4, <3>2, <3>3 DEF Distinct
    <3>6. heap'[root.slot[j]] = heap[root.slot[j]]
      BY <2>2, <3>1, <3>5, <2>4, VisitedIsPrefix DEF Uninstall, IInv, TypeOK
    <3> QED BY <3>1, <3>4, <3>6
  <2>7. Matches(root', heap', kw) # {}
    BY DEF Find, FindStub
  <2>8. FindStub(root, heap, kw) = FindStub(root', heap', kw)
    <3>1. IsVector(root) /\ IsVector(root')
      BY <2>4, <2>5
    <3> QED BY <2>6, <2>7, <3>1, PrefixResolvesAlike
  <2> QED BY <2>8 DEF Find
<1> QED BY <1>1, <1>2

\* A name that resolves never resolves to another stub later, unless the
\* stub of that very name is unregistered (find_stub_by_keyword over the slots
\* that vector_set and vector_unset leave).
THEOREM NamesNeverRebind == Spec => NeverRebinds
<1> DEFINE A == phase = "up" =>
                  \A kw \in Keyword :
                    \/ Find(kw) = Null \/ Find(kw)' = Null
                    \/ Find(kw)' = Find(kw)
                    \/ UnregisterNext /\ Declared(call.module, call.next).kw = kw
<1>1. Spec => []IInv
  <2>1. Init => IInv
    BY InitEstablishesIInv
  <2>2. IInv /\ [Next]_vars => IInv'
    BY NextKeepsIInv
  <2> QED BY <2>1, <2>2, PTL DEF Spec
<1>2. IInv /\ [Next]_vars => A
  <2> SUFFICES ASSUME IInv, [Next]_vars, phase = "up", NEW kw \in Keyword,
                      Find(kw) # Null, Find(kw)' # Null,
                      ~(UnregisterNext /\ Declared(call.module, call.next).kw = kw)
               PROVE  Find(kw)' = Find(kw)
    OBVIOUS
  <2>1. CASE RegisterNext
    BY <2>1, RegisterNeverRebinds
  <2>2. CASE UnregisterNext
    BY <2>2, UnregisterNeverRebindsOthers DEF Declared
  <2>3. CASE UNCHANGED <<root, heap>>
    BY <2>3 DEF Find
  <2> QED BY <2>1, <2>2, <2>3
       DEF Next, vars, LreInit, LreKeywordRelease, InitNextBuiltin, InitDone, RegisterDone,
           UnregisterDone, LrcModuleRegister, LrcModuleUnregister, LreRelease,
           ReleaseNextBuiltin
<1>3. IInv /\ [Next]_vars => [A]_vars
  BY <1>2
<1> QED BY <1>1, <1>3, PTL DEF Spec, NeverRebinds

-----------------------------------------------------------------------------
(* Counting.  A module is listed at the end of its registration, when each *)
(* of its keywords has gone in once more, and loses each of them at most   *)
(* once before it is taken off the list: once a stub is gone from the      *)
(* vector, the hole it leaves hides every later stub of that name from the *)
(* loop of find_stub_by_keyword.                                           *)

Slots(m, n) == {i \in Filled(root) : heap[root.slot[i]].data = <<m, n>>}
Places(m)   == {i \in DOMAIN modules : modules[i] = m}

\* What a module's keyword can count on while a call is in progress.
Kept(m, n) ==
  /\ call.op = "register" /\ call.module = m /\ n < call.next =>
       Listed(m) + 1 <= Installed(m, n)
  /\ \/ Listed(m) <= Installed(m, n)
     \/ /\ call.op = "unregister" /\ call.module = m
        /\ Listed(m) <= Installed(m, n) + 1
        /\ Matches(root, heap, Decl[m][n].kw) = {}

KeywordsAreKept ==
  phase \in {"init", "up"} /\ inits = 1 =>
    \A m \in Module : Exclusive(m) => \A n \in DOMAIN Decl[m] : Kept(m, n)

\* A stub has the name of the declaration it was made of.
StubsAreDeclared ==
  \A s \in Live : \E m \in Module : \E n \in DOMAIN Decl[m] :
    heap[s].data = <<m, n>> /\ heap[s].kw = Decl[m][n].kw

\* Nothing is listed before the first lre_init.
NewIsEmpty ==
  /\ inits = 0 => phase = "new" /\ modules = <<>>
  /\ phase = "new" => inits = 0

LInv == IInv /\ StubsAreDeclared /\ NewIsEmpty /\ KeywordsAreKept

\* The sets that are counted are finite.
LEMMA CountsAreNumbers ==
  ASSUME IInv, NEW m, NEW n
  PROVE  /\ IsFiniteSet(Slots(m, n)) /\ Installed(m, n) = Cardinality(Slots(m, n))
         /\ IsFiniteSet(Places(m)) /\ Listed(m) = Cardinality(Places(m))
         /\ Installed(m, n) \in Nat /\ Listed(m) \in Nat
<1>1. root.active \in Nat /\ Len(modules) \in Nat /\ DOMAIN modules = 1..Len(modules)
  BY DEF IInv, TypeOK, IsVector
<1>2. IsFiniteSet(0..(root.active - 1)) /\ IsFiniteSet(1..Len(modules))
  BY <1>1, FS_Interval
<1>3. Slots(m, n) \in SUBSET (0..(root.active - 1))
  BY DEF Slots, Filled, Active
<1>4. Places(m) \in SUBSET (1..Len(modules))
  BY <1>1 DEF Places
<1>5. IsFiniteSet(Slots(m, n)) /\ IsFiniteSet(Places(m))
  BY <1>2, <1>3, <1>4, FS_Subset
<1> QED BY <1>5, FS_CardinalityType DEF Installed, Listed, Slots, Places

\* The slot that is filled is a new one, and the others keep what they hold.
LEMMA SetFillsOneSlot ==
  ASSUME NEW v, IsVector(v), Tight(v), NEW x \in Ptr
  PROVE  \E e : /\ e \notin Filled(v) /\ Filled(Set(v, x)) = Filled(v) \cup {e}
                /\ Set(v, x).slot[e] = x
                /\ \A i \in Filled(v) : Set(v, x).slot[i] = v.slot[i]
<1> DEFINE e == EmptySlot(v)
           w == Set(v, x)
<1>1. /\ v.capacity \in Nat
      /\ v.active \in 0..v.capacity
      /\ v.slot \in [0..(v.capacity - 1) -> Ptr \cup {Null}]
  BY DEF IsVector
<1>2. e \in 0..v.active /\ (e = v.active \/ v.slot[e] = Null)
  BY EmptySlotIsFirst
<1>3. /\ IsVector(w) /\ w.capacity >= v.capacity /\ e < w.capacity /\ w.slot[e] = x
      /\ w.active = IF v.active <= e THEN e + 1 ELSE v.active
      /\ \A j \in 0..(w.capacity - 1) :
           j # e => w.slot[j] = IF j < v.capacity THEN v.slot[j] ELSE Null
  BY SetWritesOneSlot
<1> HIDE DEF e, w
<1>4. w.capacity \in Nat /\ w.active \in Nat
  BY <1>3 DEF IsVector
<1>5. e \notin Filled(v)
  BY <1>1, <1>2 DEF Filled, Active
<1>6. \A i \in Filled(v) : w.slot[i] = v.slot[i]
  BY <1>1, <1>3, <1>4, <1>5 DEF Filled, Active
<1>7. \A i \in Filled(v) : i \in Filled(w)
  BY <1>1, <1>2, <1>3, <1>4, <1>6 DEF Filled, Active
<1>8. e \in Filled(w)
  BY <1>1, <1>2, <1>3, <1>4, NullAssumption DEF Filled, Active
<1>9. ASSUME NEW i \in Filled(w), i # e PROVE i \in Filled(v)
  <2>1. i \in 0..(w.active - 1) /\ w.slot[i] # Null /\ i \in 0..(w.capacity - 1)
    BY <1>3, <1>4 DEF Filled, Active, IsVector
  <2>2. i < v.capacity /\ v.slot[i] # Null
    BY <1>3, <1>9, <2>1
  <2>3. i < v.active
    BY <1>1, <2>1, <2>2 DEF Tight
  <2> QED BY <1>1, <2>1, <2>2, <2>3 DEF Filled, Active
<1>10. Filled(w) = Filled(v) \cup {e}
  BY <1>7, <1>8, <1>9
<1> QED BY <1>3, <1>5, <1>6, <1>10 DEF w

\* The slot that is emptied is one less, and the others keep what they hold.
LEMMA UnsetEmptiesOneSlot ==
  ASSUME NEW v, IsVector(v), Tight(v), NEW k \in Filled(v)
  PROVE  /\ Filled(Unset(v, k)) = Filled(v) \ {k}
         /\ \A i \in Filled(v) \ {k} : Unset(v, k).slot[i] = v.slot[i]
<1> DEFINE w == Unset(v, k)
<1>1. /\ v.capacity \in Nat
      /\ v.active \in 0..v.capacity
      /\ v.slot \in [0..(v.capacity - 1) -> Ptr \cup {Null}]
      /\ k \in 0..(v.active - 1)
  BY DEF IsVector, Filled, Active
<1>2. /\ IsVector(w) /\ w.slot = [v.slot EXCEPT ![k] = Null] /\ w.active <= v.active
      /\ \A j \in 0..(v.active - 1) : j >= w.active => w.slot[j] = Null
  BY UnsetClearsOneSlot
<1> HIDE DEF w
<1>3. w.active \in Nat
  BY <1>2 DEF IsVector
<1>4. \A j \in 0..(v.active - 1) : w.slot[j] = IF j = k THEN Null ELSE v.slot[j]
  BY <1>1, <1>2
<1>5. ASSUME NEW i \in Filled(v) \ {k} PROVE i \in Filled(w) /\ w.slot[i] = v.slot[i]
  BY <1>1, <1>2, <1>3, <1>4 DEF Filled, Active
<1>6. ASSUME NEW i \in Filled(w) PROVE i \in Filled(v) \ {k}
  BY <1>1, <1>2, <1>3, <1>4 DEF Filled, Active
<1> QED BY <1>5, <1>6 DEF w

\* lrc_func_register and lrc_call_register add one stub, of one declaration.
LEMMA InstallCounts ==
  ASSUME IInv, NEW s \in Ptr \ Live, NEW stub, heap' = [heap EXCEPT ![s] = stub],
         root' = Set(root, s), UNCHANGED modules, NEW m, NEW n, IInv'
  PROVE  /\ Listed(m)' = Listed(m)
         /\ Installed(m, n)' =
              IF stub.data = <<m, n>> THEN Installed(m, n) + 1 ELSE Installed(m, n)
<1>1. IsVector(root) /\ Tight(root) /\ Items(root) \subseteq Live
  BY DEF IInv, TypeOK, VectorOwnsStubs
<1>2. PICK e : /\ e \notin Filled(root) /\ Filled(root') = Filled(root) \cup {e}
               /\ root'.slot[e] = s
               /\ \A i \in Filled(root) : root'.slot[i] = root.slot[i]
  BY <1>1, SetFillsOneSlot
<1>3. heap'[s] = stub
  BY DEF IInv, TypeOK
<1>4. \A i \in Filled(root) : heap'[root'.slot[i]] = heap[root.slot[i]]
  <2> SUFFICES ASSUME NEW i \in Filled(root)
               PROVE  heap'[root'.slot[i]] = heap[root.slot[i]]
    OBVIOUS
  <2>1. root.slot[i] \in Live
    BY <1>1 DEF Items
  <2>2. root.slot[i] \in Ptr /\ root.slot[i] # s
    BY <2>1 DEF Live
  <2> QED BY <1>2, <2>2 DEF IInv, TypeOK
<1>5. Slots(m, n)' = IF stub.data = <<m, n>> THEN Slots(m, n) \cup {e} ELSE Slots(m, n)
  <2>1. Slots(m, n)' = {i \in Filled(root) \cup {e} : heap'[root'.slot[i]].data = <<m, n>>}
    BY <1>2 DEF Slots
  <2> QED BY <1>2, <1>3, <1>4, <2>1 DEF Slots
<1>6. e \notin Slots(m, n)
  BY <1>2 DEF Slots
<1>7. IsFiniteSet(Slots(m, n)) /\ Installed(m, n) = Cardinality(Slots(m, n))
  BY CountsAreNumbers
<1>8. Installed(m, n)' = Cardinality(Slots(m, n)')
  BY DEF Installed, Slots
<1>9. Cardinality(Slots(m, n) \cup {e}) = Cardinality(Slots(m, n)) + 1
  BY <1>6, <1>7, FS_AddElement
<1>10. Listed(m)' = Listed(m)
  BY DEF Listed
<1> QED BY <1>5, <1>7, <1>8, <1>9, <1>10

\* keyword_uninstall takes one stub, and no later one of its name is visible.
LEMMA UninstallCounts ==
  ASSUME IInv, NEW kw, Find(kw) # Null, Uninstall(Find(kw)), UNCHANGED modules,
         NEW m, NEW n,
         NEW d, d = heap[Find(kw)].data
  PROVE  /\ Listed(m)' = Listed(m)
         /\ Matches(root', heap', kw) = {}
         /\ \A other : Matches(root', heap', other) \subseteq Matches(root, heap, other)
         /\ Find(kw) \in Live /\ heap[Find(kw)].kw = kw
         /\ Installed(m, n)' = IF d = <<m, n>> THEN Installed(m, n) - 1
                               ELSE Installed(m, n)
<1> DEFINE s == Find(kw)
<1>1. /\ IsVector(root) /\ Tight(root) /\ Distinct(root) /\ Items(root) \subseteq Live
  BY DEF IInv, TypeOK, VectorOwnsStubs
<1>2. Matches(root, heap, kw) # {}
  BY DEF Find, FindStub
<1>3. PICK k \in Matches(root, heap, kw) :
        (\A j \in Matches(root, heap, kw) : k <= j) /\ s = root.slot[k]
  BY <1>1, <1>2, FindStubIsFirst DEF Find
<1> HIDE DEF s
<1>4. k \in Visited(root) /\ k \in Filled(root) /\ heap[s].kw = kw
  BY <1>1, <1>3, VisitedIsPrefix DEF Matches
<1>5. /\ heap' = [heap EXCEPT ![s] = Null]
      /\ root' = Unset(root, CHOOSE i \in Visited(root) : root.slot[i] = s)
  BY <1>3, <1>4 DEF Uninstall, s
<1>6. root' = Unset(root, k)
  <2>1. PICK i \in Visited(root) : root.slot[i] = s /\ root' = Unset(root, i)
    BY <1>3, <1>4, <1>5
  <2>2. i \in Filled(root)
    BY <1>1, VisitedIsPrefix
  <2>3. i = k
    BY <1>1, <1>3, <1>4, <2>1, <2>2 DEF Distinct
  <2> QED BY <2>1, <2>3
<1>7. /\ Filled(root') = Filled(root) \ {k}
      /\ \A i \in Filled(root) \ {k} : root'.slot[i] = root.slot[i]
  BY <1>1, <1>4, <1>6, UnsetEmptiesOneSlot
<1>8. s \in Live /\ s \in Ptr
  BY <1>1, <1>3, <1>4 DEF Items, Live
<1>9. \A i \in Filled(root) \ {k} : heap'[root'.slot[i]] = heap[root.slot[i]]
  <2> SUFFICES ASSUME NEW i \in Filled(root) \ {k}
               PROVE  heap'[root'.slot[i]] = heap[root.slot[i]]
    OBVIOUS
  <2>1. root.slot[i] # s
    BY <1>1, <1>3, <1>4 DEF Distinct
  <2>2. root.slot[i] \in Ptr
    BY <1>1 DEF Items, Live
  <2> QED BY <1>5, <1>7, <1>8, <2>1, <2>2 DEF IInv, TypeOK
<1>10. \A j \in Visited(root') : j \in Visited(root) /\ j < k /\ j \in Filled(root) \ {k}
  <2> SUFFICES ASSUME NEW j \in Visited(root')
               PROVE  j \in Visited(root) /\ j < k /\ j \in Filled(root) \ {k}
    OBVIOUS
  <2>1. j \in Visited(root) /\ j < k
    BY <1>1, <1>4, <1>6, UnsetKeepsEarlierVisited
  <2>2. k \in Nat /\ j \in Nat /\ j \in Filled(root)
    BY <1>1, <1>4, <2>1, VisitedIsPrefix
  <2> QED BY <2>1, <2>2
<1>11. \A other : \A j \in Matches(root', heap', other) :
         j \in Matches(root, heap, other) /\ j < k
  BY <1>9, <1>10 DEF Matches
<1>12. Matches(root', heap', kw) = {}
  <2> SUFFICES ASSUME NEW j \in Matches(root', heap', kw) PROVE FALSE
    OBVIOUS
  <2>1. j \in Matches(root, heap, kw) /\ j < k
    BY <1>11
  <2>2. j \in Nat /\ k \in Nat
    BY <1>1, <1>4, <2>1, VisitedIsPrefix DEF Matches
  <2> QED BY <1>3, <2>1, <2>2
<1>13. Slots(m, n)' = IF heap[s].data = <<m, n>> THEN Slots(m, n) \ {k} ELSE Slots(m, n)
  <2>1. Slots(m, n)' = {i \in Filled(root) \ {k} : heap'[root'.slot[i]].data = <<m, n>>}
    BY <1>7 DEF Slots
  <2> QED BY <1>3, <1>9, <2>1 DEF Slots
<1>14. heap[s].data = <<m, n>> => k \in Slots(m, n)
  BY <1>3, <1>4 DEF Slots
<1>15. /\ IsFiniteSet(Slots(m, n)) /\ Installed(m, n) = Cardinality(Slots(m, n))
       /\ Installed(m, n)' = Cardinality(Slots(m, n)')
  BY CountsAreNumbers DEF Installed, Slots
<1>16. k \in Slots(m, n) => Cardinality(Slots(m, n) \ {k}) = Cardinality(Slots(m, n)) - 1
  BY <1>15, FS_RemoveElement
<1>17. Listed(m)' = Listed(m)
  BY DEF Listed
<1> QED BY <1>4, <1>8, <1>11, <1>12, <1>13, <1>14, <1>15, <1>16, <1>17 DEF s

\* lre_module_create lists a module once more.
LEMMA AppendCounts ==
  ASSUME IInv, NEW m \in Module, modules' = Append(modules, m), NEW o
  PROVE  Listed(o)' = IF o = m THEN Listed(o) + 1 ELSE Listed(o)
<1> DEFINE k == Len(modules) + 1
<1>1. modules \in Seq(Module) /\ Len(modules) \in Nat
  BY DEF IInv, TypeOK
<1>2. /\ DOMAIN modules' = DOMAIN modules \cup {k} /\ k \notin DOMAIN modules
      /\ modules'[k] = m /\ \A i \in DOMAIN modules : modules'[i] = modules[i]
  BY <1>1
<1> HIDE DEF k
<1>3. Places(o)' = IF o = m THEN Places(o) \cup {k} ELSE Places(o)
  BY <1>2 DEF Places
<1>4. k \notin Places(o)
  BY <1>2 DEF Places
<1>5. IsFiniteSet(Places(o)) /\ Listed(o) = Cardinality(Places(o))
  BY CountsAreNumbers
<1>6. Listed(o)' = Cardinality(Places(o)')
  BY DEF Listed, Places
<1>7. Cardinality(Places(o) \cup {k}) = Cardinality(Places(o)) + 1
  BY <1>4, <1>5, FS_AddElement
<1> QED BY <1>3, <1>5, <1>6, <1>7

\* A sequence without its k-th element.
LEMMA WithoutOne ==
  ASSUME NEW S, NEW s \in Seq(S), NEW k \in 1..Len(s)
  PROVE  LET t == SubSeq(s, 1, k-1) \o SubSeq(s, k+1, Len(s))
         IN  /\ DOMAIN t = 1..(Len(s) - 1)
             /\ \A j \in 1..(Len(s) - 1) : t[j] = IF j < k THEN s[j] ELSE s[j + 1]
<1> DEFINE a == SubSeq(s, 1, k-1)
           b == SubSeq(s, k+1, Len(s))
<1>1. Len(s) \in Nat
  OBVIOUS
<1>2. a \in Seq(S) /\ Len(a) = k - 1 /\ \A j \in 1..(k - 1) : a[j] = s[j]
  BY <1>1
<1>3. b \in Seq(S)
  BY <1>1
<1>4. Len(b) = Len(s) - k
  BY <1>1
<1>5. ASSUME NEW j \in 1..(Len(s) - k) PROVE b[j] = s[k + j]
  <2>1. (k + 1) + j - 1 = k + j
    BY <1>1
  <2> QED BY <1>1, <2>1
<1> HIDE DEF a, b
<1>6. Len(a \o b) = Len(s) - 1
  BY <1>1, <1>2, <1>3, <1>4
<1>7. DOMAIN (a \o b) = 1..(Len(s) - 1)
  BY <1>2, <1>3, <1>6
<1>8. ASSUME NEW j \in 1..(Len(s) - 1)
      PROVE  (a \o b)[j] = IF j < k THEN s[j] ELSE s[j + 1]
  <2>1. CASE j < k
    BY <1>1, <1>2, <1>3, <1>4, <2>1
  <2>2. CASE ~(j < k)
    <3>1. j - (k - 1) \in 1..(Len(s) - k) /\ k + (j - (k - 1)) = j + 1
      BY <1>1, <2>2
    <3>2. (a \o b)[j] = b[j - (k - 1)]
      BY <1>1, <1>2, <1>3, <1>4, <2>2
    <3> QED BY <1>5, <2>2, <3>1, <3>2
  <2> QED BY <2>1, <2>2
<1> QED BY <1>7, <1>8 DEF a, b

\* lre_module_delete lists a module once less, and no other less or more.
LEMMA DeleteCounts ==
  ASSUME IInv, NEW m \in Module, modules' = WithoutFirst(modules, m), NEW o
  PROVE  /\ Listed(o)' <= Listed(o)
         /\ o = m => Listed(o)' = 0 \/ Listed(o)' <= Listed(o) - 1
         /\ Listed(o)' \in Nat
<1>1. modules \in Seq(Module) /\ Len(modules) \in Nat /\ DOMAIN modules = 1..Len(modules)
  BY DEF IInv, TypeOK
<1>2. /\ IsFiniteSet(Places(o)) /\ Listed(o) = Cardinality(Places(o)) /\ Listed(o) \in Nat
      /\ Listed(o)' = Cardinality(Places(o)')
  BY CountsAreNumbers DEF Listed, Places
<1>3. CASE ~\E i \in DOMAIN modules : modules[i] = m
  <2>1. modules' = modules
    BY <1>3 DEF WithoutFirst
  <2>2. o = m => Places(o) = {}
    BY <1>3 DEF Places
  <2>3. Listed(o)' = Listed(o)
    BY <2>1 DEF Listed
  <2> QED BY <1>2, <2>2, <2>3, FS_EmptySet
<1>4. CASE \E i \in DOMAIN modules : modules[i] = m
  <2> DEFINE First(i) == modules[i] = m /\ \A j \in 1..i-1 : modules[j] # m
             k == CHOOSE i \in DOMAIN modules : First(i)
  <2>1. \E i \in DOMAIN modules : First(i)
    <3> DEFINE T == {i \in DOMAIN modules : modules[i] = m}
    <3>1. T \in SUBSET Nat /\ T # {}
      BY <1>1, <1>4
    <3>2. PICK i \in T : \A j \in T : i <= j
      <4> HIDE DEF T
      <4> QED BY <3>1, LeastNatural
    <3>3. i \in DOMAIN modules /\ modules[i] = m
      OBVIOUS
    <3>4. \A j \in 1..i-1 : modules[j] # m
      BY <1>1, <3>2
    <3> QED BY <3>3, <3>4
  <2>2. k \in DOMAIN modules /\ modules[k] = m
    BY <2>1
  <2>3. modules' = SubSeq(modules, 1, k-1) \o SubSeq(modules, k+1, Len(modules))
    BY <1>4 DEF WithoutFirst
  <2> HIDE DEF k, First
  <2>4. k \in 1..Len(modules)
    BY <1>1, <2>2
  <2>5. /\ DOMAIN modules' = 1..(Len(modules) - 1)
        /\ \A j \in 1..(Len(modules) - 1) :
             modules'[j] = IF j < k THEN modules[j] ELSE modules[j + 1]
    BY <1>1, <2>3, <2>4, WithoutOne
  <2> DEFINE T == Places(o) \ {k}
             f == [j \in Places(o)' |-> IF j < k THEN j ELSE j + 1]
  <2>6. \A j \in Places(o)' : j \in 1..(Len(modules) - 1) /\ modules'[j] = o
    BY <2>5 DEF Places
  <2>7. f \in [Places(o)' -> T]
    <3> SUFFICES ASSUME NEW j \in Places(o)'
                 PROVE  (IF j < k THEN j ELSE j + 1) \in T
      OBVIOUS
    <3> QED BY <1>1, <2>4, <2>5, <2>6 DEF Places
  <2>8. \A i, j \in Places(o)' : f[i] = f[j] => i = j
    BY <1>1, <2>4, <2>6
  <2>9. f \in Injection(Places(o)', T)
    BY <2>7, <2>8 DEF Injection, IsInjective
  <2>10. /\ IsFiniteSet(T)
         /\ Cardinality(T) = IF k \in Places(o) THEN Cardinality(Places(o)) - 1
                             ELSE Cardinality(Places(o))
    BY <1>2, FS_RemoveElement
  <2> HIDE DEF f, T
  <2>11. IsFiniteSet(Places(o)') /\ Cardinality(Places(o)') <= Cardinality(T)
    BY <2>9, <2>10, FS_Injection
  <2>12. Cardinality(Places(o)') \in Nat
    BY <2>11, FS_CardinalityType
  <2>13. o = m => k \in Places(o)
    BY <2>2 DEF Places
  <2> QED BY <1>2, <2>10, <2>11, <2>12, <2>13
<1> QED BY <1>3, <1>4

\* A step that touches neither the stubs nor the list, and begins at most a call.
LEMMA ControlKeepsLInv ==
  ASSUME LInv, IInv', UNCHANGED <<root, heap, modules, inits>>,
         phase # "new", phase' # "new",
         phase' \in {"init", "up"} => phase \in {"init", "up"},
         \/ call' = call
         \/ Idle /\ call'.op \in {"register", "unregister"} /\ call'.next = 1
         \/ call.op = "register" /\ call' = NoCall
  PROVE  LInv'
<1> USE DEF LInv
<1>1. StubsAreDeclared' /\ NewIsEmpty'
  BY DEF StubsAreDeclared, NewIsEmpty, Live
<1>2. \A m \in Module : \A n \in DOMAIN Decl[m] : Kept(m, n) => Kept(m, n)'
  <2> SUFFICES ASSUME NEW m \in Module, NEW n \in DOMAIN Decl[m], Kept(m, n)
               PROVE  Kept(m, n)'
    OBVIOUS
  <2>1. Listed(m)' = Listed(m) /\ Installed(m, n)' = Installed(m, n)
        /\ Matches(root', heap', Decl[m][n].kw) = Matches(root, heap, Decl[m][n].kw)
    BY DEF Listed, Installed, Filled, Active
  <2>2. CASE call' = call
    BY <2>1, <2>2 DEF Kept
  <2>3. CASE Idle /\ call'.op \in {"register", "unregister"} /\ call'.next = 1
    <3>1. n \in Nat /\ ~(n < 1)
      BY DeclAssumption
    <3> QED BY <2>1, <2>3, <3>1 DEF Kept, Idle, NoCall
  <2>4. CASE call.op = "register" /\ call' = NoCall
    BY <2>1, <2>4 DEF Kept, NoCall
  <2> QED BY <2>2, <2>3, <2>4
<1>3. KeywordsAreKept'
  BY <1>2 DEF KeywordsAreKept
<1> QED BY <1>1, <1>3

\* Where a call is in progress, the program is between lre_init and lre_release.
LEMMA CallsAreBusy ==
  ASSUME LInv, call # NoCall
  PROVE  /\ call.module \in Module /\ call.next \in Nat \ {0}
         /\ call.op \in {"register", "unregister"} /\ phase # "new"
         /\ Decl[call.module] \in Seq(Declaration)
  BY DeclAssumption DEF LInv, IInv, TypeOK, Calls, Quiet, Idle

LEMMA RegisterNextKeepsLInv == LInv /\ RegisterNext => LInv'
<1> SUFFICES ASSUME LInv, RegisterNext PROVE LInv'
  OBVIOUS
<1> DEFINE m == call.module
           n == call.next
           stub == [kw |-> Decl[m][n].kw, data |-> <<m, n>>]
<1>1. IInv' /\ IInv
  BY RegisterNextKeepsIInv DEF LInv
<1>2. /\ call.op = "register" /\ m \in Module /\ n \in DOMAIN Decl[m] /\ phase # "new"
      /\ UNCHANGED <<modules, phase, inits>>
  BY CallsAreBusy DEF RegisterNext, NoCall
<1>3. CASE Decl[m][n].installable
  <2>1. PICK s \in Ptr \ Live : heap' = [heap EXCEPT ![s] = stub] /\ root' = Set(root, s)
    BY <1>3 DEF RegisterNext, Declared
  <2>2. call' = [call EXCEPT !.next = @ + 1]
    BY <1>3 DEF RegisterNext, Declared
  <2>3. call'.op = "register" /\ call'.module = m /\ call'.next = n + 1 /\ n \in Nat
    BY <1>1, <2>2, CallsAreBusy DEF IInv, TypeOK, Calls, NoCall, RegisterNext
  <2>4. stub.data = <<m, n>> /\ stub.kw = Decl[m][n].kw
    OBVIOUS
  <2> HIDE DEF stub
  <2>5. \A o, q : /\ Listed(o)' = Listed(o)
                  /\ Installed(o, q)' = IF o = m /\ q = n THEN Installed(o, q) + 1
                                        ELSE Installed(o, q)
    <3> SUFFICES ASSUME NEW o, NEW q
                 PROVE  /\ Listed(o)' = Listed(o)
                        /\ Installed(o, q)' = IF o = m /\ q = n THEN Installed(o, q) + 1
                                              ELSE Installed(o, q)
      OBVIOUS
    <3>1. /\ Listed(o)' = Listed(o)
          /\ Installed(o, q)' = IF stub.data = <<o, q>> THEN Installed(o, q) + 1
                                ELSE Installed(o, q)
      BY <1>1, <1>2, <2>1, InstallCounts
    <3> QED BY <2>4, <3>1
  <2>6. StubsAreDeclared'
    <3> SUFFICES ASSUME NEW p \in Live'
                 PROVE  \E o \in Module : \E q \in DOMAIN Decl[o] :
                          heap'[p].data = <<o, q>> /\ heap'[p].kw = Decl[o][q].kw
      BY DEF StubsAreDeclared
    <3>1. CASE p = s
      BY <1>1, <1>2, <2>1, <2>4, <3>1 DEF IInv, TypeOK
    <3>2. CASE p # s
      <4>1. p \in Live /\ heap'[p] = heap[p]
        BY <1>1, <2>1, <3>2 DEF Live, IInv, TypeOK
      <4> QED BY <4>1 DEF LInv, StubsAreDeclared
    <3> QED BY <3>1, <3>2
  <2>7. ASSUME NEW o \in Module, NEW q \in DOMAIN Decl[o], Kept(o, q)
        PROVE  Kept(o, q)'
    <3>1. /\ Listed(o) \in Nat /\ Installed(o, q) \in Nat /\ Listed(o) <= Installed(o, q)
          /\ o = m /\ q < n => Listed(o) + 1 <= Installed(o, q)
      BY <1>1, <1>2, <2>7, CountsAreNumbers DEF Kept
    <3>2. q \in Nat
      BY DeclAssumption
    <3>3. /\ Listed(o)' <= Installed(o, q)'
          /\ o = m /\ q < n + 1 => Listed(o)' + 1 <= Installed(o, q)'
      BY <2>3, <2>5, <3>1, <3>2
    <3> QED BY <2>3, <3>3 DEF Kept
  <2>8. KeywordsAreKept'
    BY <1>2, <2>7 DEF LInv, KeywordsAreKept
  <2>9. NewIsEmpty'
    BY <1>2 DEF LInv, NewIsEmpty
  <2> QED BY <1>1, <2>6, <2>8, <2>9 DEF LInv
<1>4. CASE ~Decl[m][n].installable
  <2>1. call' = NoCall /\ UNCHANGED <<root, heap>>
    BY <1>4 DEF RegisterNext, Declared
  <2> QED BY <1>1, <1>2, <2>1, ControlKeepsLInv
<1> QED BY <1>3, <1>4

LEMMA UnregisterNextKeepsLInv == LInv /\ UnregisterNext => LInv'
<1> SUFFICES ASSUME LInv, UnregisterNext PROVE LInv'
  OBVIOUS
<1> DEFINE m == call.module
           n == call.next
           kw == Decl[m][n].kw
<1>1. IInv' /\ IInv
  BY UnregisterNextKeepsIInv DEF LInv
<1>2. /\ call.op = "unregister" /\ m \in Module /\ n \in DOMAIN Decl[m] /\ phase # "new"
      /\ UNCHANGED <<modules, phase, inits>> /\ call' = [call EXCEPT !.next = @ + 1]
  BY CallsAreBusy DEF UnregisterNext, NoCall
<1>3. call'.op = "unregister" /\ call'.module = m
  BY <1>1, <1>2 DEF IInv, TypeOK, Calls, NoCall
<1>4. NewIsEmpty'
  BY <1>2 DEF LInv, NewIsEmpty
<1>5. CASE Find(kw) = Null
  <2>1. UNCHANGED <<root, heap>>
    BY <1>5 DEF UnregisterNext, Declared
  <2>2. StubsAreDeclared'
    BY <2>1 DEF LInv, StubsAreDeclared, Live
  <2>3. \A o \in Module : \A q \in DOMAIN Decl[o] : Kept(o, q) => Kept(o, q)'
    BY <1>2, <1>3, <2>1 DEF Kept, Listed, Installed, Filled, Active
  <2>4. KeywordsAreKept'
    BY <1>2, <2>3 DEF LInv, KeywordsAreKept
  <2> QED BY <1>1, <1>4, <2>2, <2>4 DEF LInv
<1>6. CASE Find(kw) # Null
  <2> DEFINE s == Find(kw)
  <2>1. Uninstall(s)
    BY <1>6 DEF UnregisterNext, Declared
  <2> HIDE DEF kw
  <2>2. \A o, q : /\ Listed(o)' = Listed(o)
                  /\ Installed(o, q)' = IF heap[s].data = <<o, q>>
                                        THEN Installed(o, q) - 1 ELSE Installed(o, q)
    <3> SUFFICES ASSUME NEW o, NEW q
                 PROVE  /\ Listed(o)' = Listed(o)
                        /\ Installed(o, q)' = IF heap[s].data = <<o, q>>
                                              THEN Installed(o, q) - 1 ELSE Installed(o, q)
      OBVIOUS
    <3>1. PICK d : d = heap[s].data
      OBVIOUS
    <3>2. /\ Listed(o)' = Listed(o)
          /\ Installed(o, q)' = IF d = <<o, q>> THEN Installed(o, q) - 1
                                ELSE Installed(o, q)
      BY <1>1, <1>2, <1>6, <2>1, <3>1, UninstallCounts
    <3> QED BY <3>1, <3>2
  <2>3. /\ Matches(root', heap', kw) = {}
        /\ \A other : Matches(root', heap', other) \subseteq Matches(root, heap, other)
        /\ s \in Live /\ heap[s].kw = kw
    BY <1>1, <1>2, <1>6, <2>1, UninstallCounts
  <2>4. Matches(root, heap, kw) # {}
    BY <1>6 DEF Find, FindStub
  <2>5. heap' = [heap EXCEPT ![s] = Null]
    BY <2>1 DEF Uninstall
  <2> HIDE DEF s
  <2>6. PICK a \in Module : \E b \in DOMAIN Decl[a] :
          heap[s].data = <<a, b>> /\ kw = Decl[a][b].kw
    BY <2>3 DEF LInv, StubsAreDeclared
  <2>7. PICK b \in DOMAIN Decl[a] : heap[s].data = <<a, b>> /\ kw = Decl[a][b].kw
    BY <2>6
  <2>8. StubsAreDeclared'
    <3> SUFFICES ASSUME NEW p \in Live'
                 PROVE  \E o \in Module : \E q \in DOMAIN Decl[o] :
                          heap'[p].data = <<o, q>> /\ heap'[p].kw = Decl[o][q].kw
      BY DEF StubsAreDeclared
    <3>1. p \in Live /\ heap'[p] = heap[p]
      BY <1>1, <2>5 DEF Live, IInv, TypeOK
    <3> QED BY <3>1 DEF LInv, StubsAreDeclared
  <2>9. ASSUME NEW o \in Module, Exclusive(o), NEW q \in DOMAIN Decl[o], Kept(o, q)
        PROVE  Kept(o, q)'
    <3>1. Listed(o) \in Nat /\ Installed(o, q) \in Nat
      BY <1>1, CountsAreNumbers
    <3>2. CASE o = a /\ q = b
      <4>1. Matches(root', heap', Decl[o][q].kw) = {} /\ Listed(o) <= Installed(o, q)
        BY <2>3, <2>4, <2>7, <2>9, <3>2 DEF Kept
      <4>2. o = m
        <5>1. Decl[o][q].kw = Decl[m][n].kw
          BY <2>7, <3>2 DEF kw
        <5> QED BY <1>2, <2>9, <5>1 DEF Exclusive
      <4>3. Listed(o)' = Listed(o) /\ Installed(o, q)' = Installed(o, q) - 1
        BY <2>2, <2>7, <3>2
      <4>4. Listed(o)' <= Installed(o, q)' + 1
        BY <3>1, <4>1, <4>3
      <4> QED BY <1>3, <4>1, <4>2, <4>4 DEF Kept
    <3>3. CASE ~(o = a /\ q = b)
      <4>1. Listed(o)' = Listed(o) /\ Installed(o, q)' = Installed(o, q)
        BY <2>2, <2>7, <3>3
      <4>2. Matches(root, heap, Decl[o][q].kw) = {} => Matches(root', heap', Decl[o][q].kw) = {}
        BY <2>3
      <4> QED BY <1>2, <1>3, <2>9, <4>1, <4>2 DEF Kept
    <3> QED BY <3>2, <3>3
  <2>10. KeywordsAreKept'
    BY <1>2, <2>9 DEF LInv, KeywordsAreKept
  <2> QED BY <1>1, <1>4, <2>8, <2>10 DEF LInv
<1> QED BY <1>5, <1>6

\* The ends of the two calls count a module in, and out.
LEMMA CallEndsKeepLInv ==
  ASSUME LInv, RegisterDone \/ UnregisterDone
  PROVE  LInv'
<1> DEFINE m == call.module
<1>1. IInv' /\ IInv
  BY ControlStepKeepsIInv DEF LInv
<1>2. /\ m \in Module /\ phase # "new" /\ call.next \in Nat /\ call' = NoCall
      /\ UNCHANGED <<root, heap, phase, inits>>
      /\ Decl[m] \in Seq(Declaration) /\ call.next > Len(Decl[m])
  BY CallsAreBusy DEF RegisterDone, UnregisterDone, NoCall
<1>3. StubsAreDeclared' /\ NewIsEmpty'
  BY <1>2 DEF LInv, StubsAreDeclared, NewIsEmpty, Live
<1>4. \A o, q : Installed(o, q)' = Installed(o, q)
  BY <1>2 DEF Installed, Filled, Active
<1>5. \A o \in Module : \A q \in DOMAIN Decl[o] : Kept(o, q) => Kept(o, q)'
  <2> SUFFICES ASSUME NEW o \in Module, NEW q \in DOMAIN Decl[o], Kept(o, q)
               PROVE  Kept(o, q)'
    OBVIOUS
  <2>1. Listed(o) \in Nat /\ Installed(o, q) \in Nat
    BY <1>1, CountsAreNumbers
  <2>2. CASE RegisterDone
    <3>1. Listed(o)' = IF o = m THEN Listed(o) + 1 ELSE Listed(o)
      BY <1>1, <1>2, <2>2, AppendCounts DEF RegisterDone
    <3>2. o = m => q < call.next
      BY <1>2
    <3>3. Listed(o)' <= Installed(o, q)
      BY <2>2, <3>1, <3>2 DEF RegisterDone, Kept
    <3> QED BY <1>2, <1>4, <3>3 DEF Kept, NoCall
  <2>3. CASE UnregisterDone
    <3>1. /\ Listed(o)' <= Listed(o) /\ Listed(o)' \in Nat
          /\ o = m => Listed(o)' = 0 \/ Listed(o)' <= Listed(o) - 1
      BY <1>1, <1>2, <2>3, DeleteCounts DEF UnregisterDone
    <3>2. Listed(o)' <= Installed(o, q)
      BY <2>1, <3>1 DEF Kept
    <3> QED BY <1>2, <1>4, <3>2 DEF Kept, NoCall
  <2> QED BY <2>2, <2>3
<1>6. KeywordsAreKept'
  BY <1>2, <1>5 DEF LInv, KeywordsAreKept
<1> QED BY <1>1, <1>3, <1>6 DEF LInv

\* lre_init starts without a list, and lre_keyword_release ends what is claimed.
LEMMA LifeCycleKeepsLInv ==
  ASSUME LInv, LreInit \/ LreKeywordRelease
  PROVE  LInv'
<1>1. IInv' /\ IInv
  BY NextKeepsIInv DEF LInv, Next
<1>2. CASE LreInit
  <2>1. /\ phase' = "init" /\ inits' = inits + 1 /\ call = NoCall /\ call' = NoCall
        /\ UNCHANGED <<heap, modules>> /\ inits \in Nat
    BY <1>1, <1>2, BoundAssumption DEF LreInit, IInv, TypeOK, Quiet, Idle
  <2>2. StubsAreDeclared' /\ NewIsEmpty'
    BY <2>1 DEF LInv, StubsAreDeclared, NewIsEmpty, Live
  <2>3. KeywordsAreKept'
    <3> SUFFICES ASSUME inits + 1 = 1, NEW o \in Module, NEW q \in DOMAIN Decl[o]
                 PROVE  Kept(o, q)'
      BY <2>1 DEF KeywordsAreKept
    <3>1. modules' = <<>>
      BY <2>1 DEF LInv, NewIsEmpty
    <3>2. Listed(o)' = 0
      BY <3>1, FS_EmptySet DEF Listed
    <3>3. Installed(o, q)' \in Nat
      <4>1. root'.active \in Nat
        BY <1>1 DEF IInv, TypeOK, IsVector
      <4>2. IsFiniteSet(0..(root'.active - 1))
        BY <4>1, FS_Interval
      <4>3. Slots(o, q)' \in SUBSET (0..(root'.active - 1))
        BY DEF Slots, Filled, Active
      <4> QED BY <4>2, <4>3, FS_Subset, FS_CardinalityType DEF Slots, Installed
    <3> QED BY <2>1, <3>2, <3>3 DEF Kept, NoCall
  <2> QED BY <1>1, <2>2, <2>3 DEF LInv
<1>3. CASE LreKeywordRelease
  <2>1. phase = "release" /\ phase' = "released" /\ inits' = inits /\ modules' = modules
    BY <1>3 DEF LreKeywordRelease
  <2>2. NewIsEmpty' /\ KeywordsAreKept'
    BY <2>1 DEF LInv, NewIsEmpty, KeywordsAreKept
  <2>3. \A s \in Live' : s \in Live /\ heap'[s] = heap[s]
    BY <1>3 DEF LreKeywordRelease, Live
  <2> QED BY <1>1, <2>2, <2>3 DEF LInv, StubsAreDeclared
<1> QED BY <1>2, <1>3

LEMMA NextKeepsLInv == LInv /\ [Next]_vars => LInv'
<1> SUFFICES ASSUME LInv, [Next]_vars PROVE LInv'
  OBVIOUS
<1>1. IInv'
  BY NextKeepsIInv DEF LInv
<1>2. CASE InitNextBuiltin \/ InitDone \/ LreRelease \/ ReleaseNextBuiltin
           \/ \E m \in Module : LrcModuleRegister(m) \/ LrcModuleUnregister(m)
  <2>1. UNCHANGED <<root, heap, modules, inits>> /\ phase # "new" /\ phase' # "new"
    BY <1>2 DEF InitNextBuiltin, InitDone, LreRelease, ReleaseNextBuiltin,
       LrcModuleRegister, LrcModuleUnregister
  <2>2. phase' \in {"init", "up"} => phase \in {"init", "up"}
    BY <1>2 DEF InitNextBuiltin, InitDone, LreRelease, ReleaseNextBuiltin,
       LrcModuleRegister, LrcModuleUnregister
  <2>3. \/ call' = call
        \/ Idle /\ call'.op \in {"register", "unregister"} /\ call'.next = 1
    BY <1>2 DEF InitNextBuiltin, InitDone, LreRelease, ReleaseNextBuiltin,
       LrcModuleRegister, LrcModuleUnregister, Begin
  <2> QED BY <1>1, <2>1, <2>2, <2>3, ControlKeepsLInv
<1>3. CASE UNCHANGED vars
  <2>1. StubsAreDeclared' /\ NewIsEmpty'
    BY <1>3 DEF vars, LInv, StubsAreDeclared, NewIsEmpty, Live
  <2>2. KeywordsAreKept'
    BY <1>3 DEF vars, LInv, KeywordsAreKept, Kept, Listed, Installed, Filled, Active
  <2> QED BY <1>1, <2>1, <2>2 DEF LInv
<1> QED
  BY <1>2, <1>3, RegisterNextKeepsLInv, UnregisterNextKeepsLInv, CallEndsKeepLInv,
     LifeCycleKeepsLInv DEF Next

\* In the first session, between calls, a module that shares no name with
\* another has each of its keywords installed as often as it is listed: what
\* lrc_module_register listed is not taken by another module's unregistration,
\* and a registration that failed is not listed (lre_module_create,
\* lre_module_delete, keyword_uninstall).
THEOREM ListedIsAlwaysInstalled == Spec => []ListedIsInstalled
<1>1. Init => LInv
  BY InitEstablishesIInv DEF Init, LInv, StubsAreDeclared, Live, NewIsEmpty, KeywordsAreKept
<1>2. LInv /\ [Next]_vars => LInv'
  BY NextKeepsLInv
<1>3. LInv => ListedIsInstalled
  BY DEF LInv, KeywordsAreKept, Kept, ListedIsInstalled, Idle, NoCall
<1> QED BY <1>1, <1>2, <1>3, PTL DEF Spec
=============================================================================

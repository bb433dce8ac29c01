------------------------------- MODULE Vector -------------------------------
(***************************************************************************)
(* The slot vector of vector.c, as far as the keyword registry uses it: a  *)
(* growing array of pointers in which an entry is removed by writing NULL  *)
(* over it.  Slots are numbered from 0, as in the code.  A vector is a     *)
(* record of the three fields of vector_t.                                 *)
(***************************************************************************)
EXTENDS Integers

CONSTANTS
  Ptr,           \* the addresses a slot may hold
  Null,          \* the empty slot
  FirstCapacity  \* slots that vector_init(0) allocates

ASSUME NullAssumption     == Null \notin Ptr
ASSUME CapacityAssumption == FirstCapacity \in Nat \ {0}

\* vector_init(0): every slot is zero.
NewVector == [active   |-> 0,
              capacity |-> FirstCapacity,
              slot     |-> [i \in 0..FirstCapacity-1 |-> Null]]

IsVector(v) ==
  /\ v = [active |-> v.active, capacity |-> v.capacity, slot |-> v.slot]
  /\ v.capacity \in Nat \ {0}
  /\ v.active \in 0..v.capacity
  /\ v.slot \in [0..(v.capacity - 1) -> Ptr \cup {Null}]

\* Indices of the slots the vector counts as active, and of the filled ones.
Active(v) == 0..(v.active - 1)
Filled(v) == {i \in Active(v) : v.slot[i] # Null}
Items(v)  == {v.slot[i] : i \in Filled(v)}

\* vector_empty_slot: the first hole among the active slots, else the slot
\* after the last one.
EmptySlot(v) ==
  CHOOSE i \in 0..v.active :
    /\ i = v.active \/ v.slot[i] = Null
    /\ \A j \in 0..i-1 : v.slot[j] # Null

\* A fault: the capacity is doubled, the array keeps its size.
EnsureCapacityOnly(v, n) ==
  IF v.capacity > n THEN v ELSE [v EXCEPT !.capacity = 2 * @]

\* vector_ensure: double the array and clear its new half when slot n is out
\* of range.  n is at most the capacity, so one doubling is enough.
Ensure(v, n) ==
  IF v.capacity > n THEN v
  ELSE [v EXCEPT !.capacity = 2 * @,
                 !.slot = [i \in 0..(2 * v.capacity - 1) |->
                             IF i < v.capacity THEN v.slot[i] ELSE Null]]

\* vector_set: fill the first empty slot.
Set(v, x) ==
  LET i == EmptySlot(v)
      w == Ensure(v, i)
  IN  [w EXCEPT !.slot[i] = x,
                !.active  = IF @ <= i THEN i + 1 ELSE @]

\* A fault: active drops whichever slot is emptied.
UnsetShrinking(v, i) == [v EXCEPT !.slot[i] = Null, !.active = @ - 1]

\* vector_unset: empty slot i; when it was the last active one, active drops
\* below every empty slot that now ends the vector.
Unset(v, i) ==
  LET cleared == [v.slot EXCEPT ![i] = Null]
      trimmed == CHOOSE n \in 0..i :
                   /\ n = 0 \/ cleared[n-1] # Null
                   /\ \A j \in n..i : cleared[j] = Null
  IN  [v EXCEPT !.slot   = cleared,
                !.active = IF i + 1 = @ THEN trimmed ELSE @]

\* vector_foreach_active_slot: the loop condition tests the slot as well as
\* the index, so the loop ends at the first empty slot.
Visited(v) == {i \in Active(v) : \A j \in 0..i : v.slot[j] # Null}

\* What the vector's operations keep: active ends at a filled slot, and
\* nothing is stored beyond it.
Tight(v) ==
  /\ v.active = 0 \/ v.slot[v.active - 1] # Null
  /\ \A i \in 0..(v.capacity - 1) : i >= v.active => v.slot[i] = Null

\* No item is stored twice.
Distinct(v) == \A i, j \in Filled(v) : v.slot[i] = v.slot[j] => i = j
=============================================================================

------------------------------ MODULE RuleTree ------------------------------
(***************************************************************************)
(* Syntax trees as the executor sees them, and the values that execution   *)
(* passes around.  Data is abstracted to what decides the control flow: a  *)
(* value is an integer or a string, and a string may be on the heap.       *)
(***************************************************************************)
EXTENDS Integers, Sequences

CONSTANT Programs  \* the trees to execute

(***************************************************************************)
(* A tree is a sequence of nodes, numbered by their positions in the order *)
(* of the text, as the parser comes to them; node 1 is the content.  kids  *)
(* are the children of a content, func or block, and the value list of an  *)
(* expr, arg or valblock; args are the arg nodes of a func or call; opt is *)
(* the operator that follows the node: "arith" for + - * /, "bits" for the *)
(* % & | ^ that parse but cannot be computed.  neg is the negative flag of *)
(* a block, str says that a literal is a string.                           *)
(***************************************************************************)
NodeTypes == {"content", "func", "block", "expr", "arg", "val", "var", "valblock", "call"}
Opts      == {"none", "and", "or", "not", "arith", "bits"}

SyntaxNode == [type : NodeTypes, kids : Seq(Nat), args : Seq(Nat),
               opt : Opts, neg : BOOLEAN, str : BOOLEAN]

Members(list)  == {list[k] : k \in DOMAIN list}
Parts(t, n)    == Members(t[n].args) \cup Members(t[n].kids)
Ascending(list) == \A j, k \in DOMAIN list : j < k => list[j] < list[k]

\* Each node but the first is part of one other, and all that is inside of a
\* node comes before what follows the node.
IsTree(t) ==
  /\ t \in Seq(SyntaxNode) /\ t # <<>> /\ t[1].type = "content"
  /\ \A n \in DOMAIN t :
       /\ Parts(t, n) \subseteq (n + 1)..Len(t)
       /\ Ascending(t[n].args) /\ Ascending(t[n].kids)
       /\ \A x \in Members(t[n].args) : t[x].type = "arg"
       /\ \A x \in Members(t[n].args), y \in Members(t[n].kids) : x < y
       /\ n # 1 => \E p \in DOMAIN t : n \in Parts(t, p)
  /\ \A p, q \in DOMAIN t : \A x \in Parts(t, p), y \in Parts(t, q) :
       q < p /\ p < y => x < y

ASSUME ProgramsAssumption == \A t \in Programs : IsTree(t)

\* Return values.  A rule is false, true, or not valid; a C function that
\* evaluates a value returns 0 or -EINVAL.
False  == 0
True   == 1
Uninit == 255        \* VAL_UNINITIALIZED
Dead   == -559030547 \* RET_DEAD_VAL
Ok     == 0
Einval == -22
NoRet  == -1         \* no value returned yet
Valid(r) == r \in {False, True}

\* struct lre_value: its type, and the NEEDFREE flag of a heap string.
Unknown == [type |-> "unknown", heap |-> FALSE]
IntVal  == [type |-> "int",     heap |-> FALSE]
StrVal  == [type |-> "string",  heap |-> FALSE]
HeapVal == [type |-> "string",  heap |-> TRUE]
Values  == {Unknown, IntVal, StrVal, HeapVal}

\* What the module's callbacks for a node may do.  "null" is a constructor
\* without an object, "fail" an exec or arg handler that reports an error.
NoAnswer == "unasked"
Answers(type) ==
  CASE type = "func" -> {"null", "fail", "ok"}
    [] type = "call" -> {"null", "fail", "int", "heap"}
    [] type = "arg"  -> {"fail", "ok"}
    [] type = "expr" -> {"false", "true", "fail"}
    [] type = "var"  -> {"unset", "int", "heap"}
    [] OTHER         -> {}

ValueOf(a)   == CASE a = "int" -> IntVal [] a = "heap" -> HeapVal [] OTHER -> Unknown
VerdictOf(a) == CASE a = "false" -> False [] a = "true" -> True [] OTHER -> Dead
=============================================================================

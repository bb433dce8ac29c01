---------------------------- MODULE RuleSemantics ----------------------------
(***************************************************************************)
(* What executing a rule promises: its verdict is the meaning of its tree  *)
(* under the answers of the callbacks, reached in one step.                *)
(***************************************************************************)
EXTENDS RuleTree

VARIABLES prog, answer, verdict

vars == <<prog, answer, verdict>>

\* The smallest member of a set of positions.
First(S) == CHOOSE i \in S : \A j \in S : i <= j

\* An operand has a value of a type, or is in error.  The value of a list of
\* operands is decided by the first that is no integer, or that an operator
\* which cannot be computed joins to the integers before it.
Error == "error"

ListValue(t, list, operand) ==
  LET bad(i)  == \/ operand[list[i]] \in {Error, "unknown"}
                 \/ operand[list[i]] = "int" /\ i > 1 /\ t[list[i-1]].opt # "arith"
      stops   == {i \in DOMAIN list : bad(i) \/ operand[list[i]] = "string"}
  IN  IF list = <<>> THEN "unknown"
      ELSE IF stops = {} THEN "int"
      ELSE IF bad(First(stops)) THEN Error ELSE "string"

\* The arguments of a function or call: each has a value that its handler takes.
ArgsAccepted(t, n, ans, operand) ==
  \A k \in DOMAIN t[n].args :
    LET arg == t[n].args[k]
    IN  /\ ListValue(t, t[arg].kids, operand) # Error
        /\ ans[arg] = "ok"

\* A node as an operand, given the nodes that come after it.
OperandOf(t, ans, operand, n) ==
  CASE t[n].type = "val" -> IF t[n].str THEN "string" ELSE "int"
    [] t[n].type \in {"var", "call"} /\
       (t[n].type = "var" \/ ArgsAccepted(t, n, ans, operand)) ->
         CASE ans[n] = "int"  -> "int"
           [] ans[n] = "heap" -> "string"
           [] OTHER           -> Error
    [] t[n].type = "valblock" -> ListValue(t, t[n].kids, operand)
    [] OTHER -> Error

Operands(t, ans) ==
  LET operand[n \in DOMAIN t] == OperandOf(t, ans, operand, n) IN operand

\* The verdict on a list of statements joined by && and || (both associate to
\* the right) is that of its first decisive member: the last one, one after
\* which the operator makes the rest irrelevant, one without a verdict, or one
\* that no logical operator joins to the statement before it.
ListVerdict(t, list, verdictOf) ==
  LET v(i)     == verdictOf[list[i]]
      opt(i)   == t[list[i]].opt
      joined(i) == i = 1 \/ opt(i-1) \in {"and", "or"}
      decisive == {i \in DOMAIN list :
                     \/ i = Len(list) \/ ~Valid(v(i)) \/ ~joined(i)
                     \/ opt(i) = "and" /\ v(i) = False
                     \/ opt(i) = "or"  /\ v(i) = True}
      d        == First(decisive)
  IN  IF list = <<>> THEN Uninit
      ELSE IF Valid(v(d)) /\ joined(d) THEN v(d) ELSE Dead

\* The verdict of a node, given those of the nodes that come after it.  A negated
\* group turns false into true and everything else into false.
VerdictOn(t, ans, operand, verdictOf, n) ==
  CASE t[n].type = "expr" /\ ListValue(t, t[n].kids, operand) # Error ->
         VerdictOf(ans[n])
    [] t[n].type = "func" /\ ans[n] = "ok" /\ ArgsAccepted(t, n, ans, operand) ->
         ListVerdict(t, t[n].kids, verdictOf)
    [] t[n].type = "block" ->
         LET v == ListVerdict(t, t[n].kids, verdictOf)
         IN  IF t[n].neg THEN (IF v = False THEN True ELSE False) ELSE v
    [] OTHER -> Dead

Verdicts(t, ans) ==
  LET operand == Operands(t, ans)
      verdictOf[n \in DOMAIN t] == VerdictOn(t, ans, operand, verdictOf, n)
  IN  verdictOf

Meaning(t, ans) == ListVerdict(t, t[1].kids, Verdicts(t, ans))

Init ==
  /\ prog \in Programs
  /\ answer = [n \in DOMAIN prog |-> NoAnswer]
  /\ verdict = NoRet

Judge ==
  /\ verdict = NoRet
  /\ answer' \in [DOMAIN prog -> {NoAnswer} \cup UNION {Answers(x) : x \in NodeTypes}]
  /\ verdict' = Meaning(prog, answer')
  /\ UNCHANGED prog

Next == Judge

Spec == Init /\ [][Next]_vars
=============================================================================

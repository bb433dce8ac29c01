----------------------------- MODULE MCExecutor -----------------------------
(***************************************************************************)
(* Rules for TLC, as families over their operators.  In the comments f and *)
(* g are functions, e an expression, c and d calls, $v a variable.         *)
(***************************************************************************)
EXTENDS Executor

Plain(type, kids)     == [type |-> type, kids |-> kids, args |-> <<>>,
                          opt |-> "none", neg |-> FALSE, str |-> FALSE]
With(type, args, kids) == [Plain(type, kids) EXCEPT !.args = args]
Then(n, opt)          == [n EXCEPT !.opt = opt]
Block(neg, kids)      == [Plain("block", kids) EXCEPT !.neg = neg]
Str                   == [Plain("val", <<>>) EXCEPT !.str = TRUE]
Int1                  == Plain("val", <<>>)

\* f{ e==1 o1 e==1 o2 e==1 }
Chain(o1, o2) ==
  << Plain("content", <<2>>), Plain("func", <<3, 5, 7>>),
     Then(Plain("expr", <<4>>), o1), Int1,
     Then(Plain("expr", <<6>>), o2), Int1,
     Plain("expr", <<8>>), Int1 >>

\* f{ (!)(e==1 o1 e==1) o2 e==1 }
Grouped(neg, o1, o2) ==
  << Plain("content", <<2>>), Plain("func", <<3, 8>>),
     Then(Block(neg, <<4, 6>>), o2),
     Then(Plain("expr", <<5>>), o1), Int1, Plain("expr", <<7>>), Int1,
     Plain("expr", <<9>>), Int1 >>

\* f(a=1, a="s"){ e==$v o1 g{ e==1 } o2 e==1 }
Nested(o1, o2) ==
  << Plain("content", <<2>>), With("func", <<3, 5>>, <<7, 9, 12>>),
     Plain("arg", <<4>>), Int1, Plain("arg", <<6>>), Str,
     Then(Plain("expr", <<8>>), o1), Plain("var", <<>>),
     Then(Plain("func", <<10>>), o2), Plain("expr", <<11>>), Int1,
     Plain("expr", <<13>>), Int1 >>

\* f{ (!)(e == c(a=d())) o1 e==$v }
Calls(neg, o1) ==
  << Plain("content", <<2>>), Plain("func", <<3, 8>>),
     Then(Block(neg, <<4>>), o1), Plain("expr", <<5>>),
     With("call", <<6>>, <<>>), Plain("arg", <<7>>), With("call", <<>>, <<>>),
     Plain("expr", <<9>>), Plain("var", <<>>) >>

\* f(a=(1 v1 c()) v2 1){ e==1 } o1 g{ e == c() v1 $v v2 "s" } o2
Operands(v1, v2, o1, o2) ==
  << Plain("content", <<2, 10>>), Then(With("func", <<3>>, <<8>>), o1),
     Plain("arg", <<4, 7>>), Then(Plain("valblock", <<5, 6>>), v2),
     Then(Int1, v1), With("call", <<>>, <<>>), Int1,
     Plain("expr", <<9>>), Int1,
     Then(Plain("func", <<11>>), o2), Plain("expr", <<12, 13, 14>>),
     Then(With("call", <<>>, <<>>), v1), Then(Plain("var", <<>>), v2), Str >>

\* f{ g(a=$v){ e==$v } o1 e == c(a=($v), a=d(a=$v)) o2 e==1 }
Passing(o1, o2) ==
  << Plain("content", <<2>>), Plain("func", <<3, 8, 17>>),
     Then(With("func", <<4>>, <<6>>), o1), Plain("arg", <<5>>), Plain("var", <<>>),
     Plain("expr", <<7>>), Plain("var", <<>>),
     Then(Plain("expr", <<9>>), o2), With("call", <<10, 13>>, <<>>),
     Plain("arg", <<11>>), Plain("valblock", <<12>>), Plain("var", <<>>),
     Plain("arg", <<14>>), With("call", <<15>>, <<>>), Plain("arg", <<16>>),
     Plain("var", <<>>), Plain("expr", <<18>>), Int1 >>

\* f{ e == () }, which parses.
EmptyValue ==
  << Plain("content", <<2>>), Plain("func", <<3>>),
     Plain("expr", <<4>>), Plain("valblock", <<>>) >>

Logic == {"and", "or", "none"}

PositiveRules ==
  {EmptyValue} \cup
  {Chain(o1, o2) : o1 \in Logic \cup {"not"}, o2 \in Logic \cup {"not"}} \cup
  {Grouped(FALSE, o1, o2) : o1 \in Logic, o2 \in Logic} \cup
  {Nested(o1, o2) : o1 \in Logic, o2 \in Logic} \cup
  {Calls(FALSE, o1) : o1 \in Logic} \cup
  {Passing(o1, o2) : o1 \in Logic, o2 \in Logic} \cup
  {Operands(v1, v2, o1, o2) : v1 \in {"arith", "bits"}, v2 \in {"arith", "bits"},
                             o1 \in Logic, o2 \in Logic}

NegativeRules ==
  {Grouped(TRUE, o1, o2) : o1 \in Logic, o2 \in Logic} \cup
  {Calls(TRUE, o1) : o1 \in Logic}

AllRules == PositiveRules \cup NegativeRules
=============================================================================

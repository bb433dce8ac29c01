------------------------------ MODULE MCGrammar ------------------------------
(***************************************************************************)
(* Rules for TLC: every construct of the language, with every operator     *)
(* class between constructs.                                               *)
(***************************************************************************)
EXTENDS Grammar

MCWords    == {"f", "c", "a", "b", "e", "v", "n"}
MCStrings  == {"'s'"}
MCAlphabet == {"n", "'s'", "(", ")", "{", "}", ",", "=", "==", "&&", "+", "!", "$"}

Lit(w)          == [type |-> "val", val |-> w, isvar |-> FALSE, opt |-> ""]
Var             == [type |-> "val", val |-> "v", isvar |-> TRUE, opt |-> ""]
Sum(vals)       == [type |-> "valblock", vals |-> vals, opt |-> ""]
Call(args)      == [type |-> "call", key |-> "c", args |-> args, opt |-> ""]
Arg(key, vals)  == [key |-> key, vals |-> vals]
Expr(comp, vals) == [type |-> "expr", key |-> "e", comp |-> comp, vals |-> vals, opt |-> ""]
Func(args, body) == [type |-> "func", key |-> "f", args |-> args, body |-> body, opt |-> ""]
Group(neg, body) == [type |-> "block", negative |-> neg, body |-> body, opt |-> ""]
Then(n, opt)     == [n EXCEPT !.opt = opt]

Is1   == Expr("==", <<Lit("n")>>)

\* Arguments, values, bodies.
ArgLists == {<<>>, <<Arg("a", <<Lit("'s'")>>)>>,
             <<Arg("a", <<Lit("n")>>), Arg("b", <<Call(<<>>)>>)>>}
FlatVals == {<<Var>>, <<Then(Lit("n"), "-"), Lit("n")>>,
             <<Then(Call(<<Arg("b", <<Lit("n")>>)>>), "%"), Lit("'s'")>>}
Nested   == {<<Sum(<<Lit("n")>>)>>, <<Sum(<<Sum(<<Lit("n")>>)>>)>>,
             <<Then(Sum(<<Then(Lit("n"), "*"), Var>>), "+"), Lit("n")>>}
Bodies(vals) ==
  {<<Expr("!=", vs)>> : vs \in vals} \cup
  {<<Then(Group(neg, <<Then(Is1, o), Expr(">", vs)>>), "||"), Is1>> :
     neg \in BOOLEAN, o \in Logic \ {"!"}, vs \in vals}

Whole(vals) ==
  {<<Func(as, body)>> : as \in ArgLists, body \in Bodies(vals)} \cup
  {<<Then(Func(<<>>, <<Is1>>), o), Func(<<Arg("a", vs)>>, <<Func(<<>>, <<Is1>>)>>)>> :
     o \in {"&&", "||"}, vs \in vals}

FullList == [k \in 1..ArgMax |-> Arg(IF k % 2 = 1 THEN "a" ELSE "b", <<Lit("n")>>)]
MCRules  == Whole(FlatVals \cup Nested) \cup {<<Func(FullList, <<Expr("==", <<Call(FullList)>>)>>)>>}
===============================================================================

---------------------------- MODULE MCInterpreter ----------------------------
(***************************************************************************)
(* Codes for TLC.  f is a function with arguments a and b, an expression e *)
(* and a variable v; c is a call with the argument b; m is a macro of one  *)
(* and of two arguments, k a macro that expands to m.                      *)
(***************************************************************************)
EXTENDS Interpreter

MCWords   == {"f", "c", "a", "b", "e", "v", "n", "m", "k", "x"}
MCStrings == {"'s'"}

None   == [x \in {} |-> <<>>]
MCRoot == [x \in {"f", "c"} |->
             IF x = "f" THEN [y \in {"a", "b", "e", "v"} |-> None]
             ELSE [y \in {"b"} |-> None]]

MCMacros ==
  << [name |-> "m", params |-> <<"_p">>,
      body |-> <<"f", "(", "a", "=", "_p", ")", "{", "e", "==", "n", "}">>],
     [name |-> "k", params |-> <<>>, body |-> <<"m", "(", "n", ")">>],
     [name |-> "m", params |-> <<"_p", "_q">>,
      body |-> <<"f", "(", "a", "=", "_p", ")", "{", "e", "==", "$", "_q", "}">>] >>

Short     == <<"f", "(", "a", "=", "n", ")", "{", "e", "==", "n", "}">>
TwoArgs   == <<"f", "(", "a", "=", "n", ",", "b", "=", "'s'", ")", "{", "e", "==", "n", "}">>
NoArgs    == <<"f", "(", ")", "{", "e", "==", "$", "v", "}">>
Calling   == <<"f", "(", "a", "=", "c", "(", "b", "=", "n", ")", "+", "(", "n", ")", ")", "{",
               "e", "==", "c", "(", ")", "}">>
Grouping  == <<"f", "(", "a", "=", "n", ")", "{", "!", "(", "e", "==", "n", "&&",
               "e", "!=", "n", ")", "||", "e", ">", "n", "}", "&&">> \o Short
UnknownArg == <<"f", "(", "a", "=", "c", "(", "b", "=", "n", ")", ",", "x", "=", "n", ")",
                "{", "e", "==", "n", "}">>
NoOperand  == <<"f", "(", "a", "=", "n", ")", "{", "(", "e", "==", "}">>
Unclosed   == <<"f", "(", "a", "=", "c", "(", "b", "=", "n", ")", ")", "{", "(", "e", "==", "n", "}">>
BadChar    == <<"f", "@">>
Macro(as)  == <<"m", "(">> \o as \o <<")">>

MixedCodes ==
  {Short, TwoArgs, NoArgs, Calling, Grouping, UnknownArg, NoOperand, Unclosed, BadChar,
   Macro(<<"n">>), Macro(<<"n", ",", "v">>), Macro(<<"n", ",">>),
   Macro(<<"n", ",", "n", ",", "n">>), <<"k", "(", ")">>, <<"m", "n">>, <<"(">>, <<>>}


MCGarbage == {<<>>, <<Bound>>}

\* A function without an argument list.
Bare      == <<"f", "{", "e", "==", "n", "}">>
BareCodes == {Short, Bare}
===============================================================================

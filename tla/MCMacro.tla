------------------------------ MODULE MCMacro ------------------------------
(***************************************************************************)
(* Macro files for TLC: every short body over two parameters of which one  *)
(* begins with the other, and files that define macros again, include each *)
(* other, and are not well formed.                                         *)
(***************************************************************************)
EXTENDS Macro

Word(w)   == [type |-> "keyword", word |-> w]
Symbol(c) == [type |-> "symbol", word |-> <<c>>]
Str(w)    == [type |-> "string", word |-> w]
Bad       == [type |-> "bad", word |-> <<"#">>]

p == <<"p">>
pq == <<"p", "q">>
m == <<"m">>
Here == <<"h">>
There == <<"t">>

End(toks)  == [toks |-> toks, cont |-> FALSE]
More(toks) == [toks |-> toks, cont |-> TRUE]
IncludeOf(name) == <<Word(<<"include">>), Str(name)>>
DefineOf(params, body) ==
  <<Word(<<"define">>), Word(m), Symbol("(")>>
    \o (CASE params = <<>> -> <<>>
          [] Len(params) = 1 -> <<Word(params[1])>>
          [] Len(params) = 2 -> <<Word(params[1]), Symbol(","), Word(params[2])>>
          [] Len(params) = 3 -> <<Word(params[1]), Symbol(","), Word(params[2]),
                                  Symbol(","), Word(params[3])>>)
    \o <<Symbol(")"), Str(body)>>

\* Bodies.
Bodies == UNION {[1..n -> {"$", "p", "q", "x"}] : n \in 0..5}
BodyFiles ==
  {[f \in {Here} |-> <<End(DefineOf(params, body))>>] :
     params \in {<<p>>, <<p, pq>>, <<pq, p>>}, body \in Bodies}

\* Bodies with three arguments to fill in: of three parameters, and of one.
WideFiles ==
  {[f \in {Here} |-> <<End(DefineOf(<<p, <<"q">>, <<"x">> >>, <<"$", "p", "$", "q", "$", "x">>))>>],
   [f \in {Here} |-> <<End(DefineOf(<<p>>, <<"$", "p", "$", "p", "$", "p">>))>>]}

Again(c) == DefineOf(<<p>>, <<"$", "p", c>>)

\* Lines of a file that may be included, or include.
SomeLines ==
  {<<>>,
   <<End(Again("x")), End(IncludeOf(There)), End(Again("y"))>>,
   <<End(IncludeOf(Here)), End(Again("z")), End(IncludeOf(There))>>,
   <<More(<<Bad>>), End(Again("x")), More(Front(Again("y"))), End(<<Last(Again("y"))>>)>>,
   <<End(<<Bad>> \o Again("x")), End(SubSeq(Again("x"), 1, 5)), End(Again("x")),
     End(DefineOf(<<>>, <<"$">>)), End(IncludeOf(<<"nowhere">>)), More(<<>>), End(<<Word(m)>>),
     End(<<Word(<<"include">>)>>)>>}

MCFileSets ==
  BodyFiles \cup WideFiles \cup {[f \in {There} |-> <<>>]}
    \cup [{Here, There} -> SomeLines]

MCCalls ==
  {[name |-> m, args |-> args] : args \in {<<>>, << <<"1">> >>, << <<"1">>, <<"2", "2">> >>}}
=============================================================================

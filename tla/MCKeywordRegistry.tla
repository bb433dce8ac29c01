------------------------- MODULE MCKeywordRegistry -------------------------
(***************************************************************************)
(* A small registry for TLC: two built-in modules, a module of two         *)
(* functions, a module whose only name is that of a built-in, and a module *)
(* whose second declaration is a call without exec.                        *)
(***************************************************************************)
EXTENDS KeywordRegistry, TLC

CONSTANTS file, process, pair, single, broken

MCModule   == {file, process, pair, single, broken}
MCBuiltins == <<file, process>>

Ok(kw)  == [kw |-> kw, installable |-> TRUE]
Bad(kw) == [kw |-> kw, installable |-> FALSE]

MCKeyword == {"file", "process", "a", "b", "d", "e"}
MCDecl ==
  (file    :> <<Ok("file")>>) @@ (process :> <<Ok("process")>>) @@
  (pair    :> <<Ok("a"), Ok("b")>>) @@ (single :> <<Ok("file")>>) @@
  (broken  :> <<Ok("d"), Bad("e")>>)

\* Addresses carry no order.
Addresses == Permutations(Ptr)
=============================================================================

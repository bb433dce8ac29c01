------------------------------- MODULE Semantic -------------------------------
(***************************************************************************)
(* The semantic analysis of semantic.c: every name of a syntax tree is     *)
(* looked up in the keyword vector of the construct it stands in.  A       *)
(* keyword vector is a function from the names it holds to the vectors of  *)
(* their stubs; the type of a stub is not looked at, so it is left out.    *)
(* The result says whether every name was found, and carries args, in      *)
(* which the keys that were found are bound to their stubs.                *)
(***************************************************************************)
EXTENDS Syntax

CONSTANT Root   \* get_root_keyvec(): the functions and calls installed

\* The text a key points to, in code with these words.
KeyText(key, words) == IF key \in DOMAIN words THEN words[key] ELSE "bytes"

NotFound(s) == [s EXCEPT !.ok = FALSE]

\* Every step of a list, up to the first that fails.
Each(Step(_, _), s, list) ==
  FoldLeft(LAMBDA t, x : IF t.ok THEN Step(t, x) ELSE t, s, list)

RECURSIVE BindVals(_, _, _)

\* The arguments of node n, whose stub has the vector subvec.  Values are
\* looked up in kwvec.
BindArgs(n, subvec, kwvec, s) ==
  LET Bind(t, k) ==
        IF KeyText(t.args[n.cell][k], t.words) \in DOMAIN subvec
        THEN BindVals(IF k \in DOMAIN n.args THEN n.args[k] ELSE <<>>, kwvec,
                      [t EXCEPT !.args[n.cell][k] = Bound])
        ELSE NotFound(t)
  IN  Each(Bind, s, [k \in DOMAIN s.args[n.cell] |-> k])

\* semanitic_parse_call: a name not found here is one of the root vector, and
\* so are the values of its arguments.
BindCall(n, kwvec, s) ==
  IF n.key \in DOMAIN kwvec THEN BindArgs(n, kwvec[n.key], kwvec, s)
  ELSE IF n.key \in DOMAIN Root THEN BindArgs(n, Root[n.key], Root, s)
  ELSE NotFound(s)

\* semanitic_parse_val.
BindVals(vals, kwvec, s) ==
  LET Bind(t, n) ==
        CASE n.type = "val"      -> IF n.isvar /\ n.val \notin DOMAIN kwvec
                                    THEN NotFound(t) ELSE t
          [] n.type = "valblock" -> BindVals(n.vals, kwvec, t)
          [] n.type = "call"     -> BindCall(n, kwvec, t)
  IN  Each(Bind, s, vals)

\* semanitic_parse_childs, with _func, _expr and _block.
RECURSIVE BindItems(_, _, _)
BindBody(n, subvec, s) == IF s.ok THEN BindItems(n.body, subvec, s) ELSE s
BindFunc(n, kwvec, s) ==
  IF n.key \in DOMAIN kwvec
  THEN BindBody(n, kwvec[n.key], BindArgs(n, kwvec[n.key], kwvec, s))
  ELSE NotFound(s)
BindItems(items, kwvec, s) ==
  LET Bind(t, n) ==
        CASE n.type = "func"  -> BindFunc(n, kwvec, t)
          [] n.type = "expr"  -> IF n.key \in DOMAIN kwvec
                                 THEN BindVals(n.vals, kwvec, t) ELSE NotFound(t)
          [] n.type = "block" -> BindItems(n.body, kwvec, t)
  IN  Each(Bind, s, items)

\* interp_semantic_analysis of a tree over the words of its code.
Analyse(tree, args, words) ==
  BindItems(tree.body, Root, [ok |-> TRUE, args |-> args, words |-> words])
===============================================================================

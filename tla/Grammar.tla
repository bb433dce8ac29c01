------------------------------- MODULE Grammar -------------------------------
(***************************************************************************)
(* The reference for the parser: a rule is a tree without pool blocks, and *)
(* Spell writes it down.  The state is a spelled rule, in which one token  *)
(* may then be deleted, inserted or replaced, or which is cut short.       *)
(***************************************************************************)
EXTENDS Syntax

CONSTANTS
  Rules,     \* rules to spell: sequences of items
  Alphabet   \* tokens that an edit may put in

ASSUME AlphabetAssumption == Alphabet \subseteq Named \cup Symbols

VARIABLES
  rule,     \* the rule
  code,     \* its tokens, edited or not
  edited

vars == <<rule, code, edited>>

Opt(n) == IF n.opt = "" THEN <<>> ELSE <<n.opt>>

RECURSIVE SpellNode(_)
SpellList(list) == FlattenSeq([k \in DOMAIN list |-> SpellNode(list[k])])
SpellArgs(args) ==
  <<"(">> \o FlattenSeq([k \in DOMAIN args |->
               (IF k = 1 THEN <<>> ELSE <<",">>)
               \o <<args[k].key, "=">> \o SpellList(args[k].vals)]) \o <<")">>
SpellNode(n) ==
  (CASE n.type = "val"      -> IF n.isvar THEN <<"$", n.val>> ELSE <<n.val>>
     [] n.type = "valblock" -> <<"(">> \o SpellList(n.vals) \o <<")">>
     [] n.type = "call"     -> <<n.key>> \o SpellArgs(n.args)
     [] n.type = "expr"     -> <<n.key, n.comp>> \o SpellList(n.vals)
     [] n.type = "func"     -> <<n.key>> \o SpellArgs(n.args)
                               \o <<"{">> \o SpellList(n.body) \o <<"}">>
     [] n.type = "block"    -> (IF n.negative THEN <<"!">> ELSE <<>>)
                               \o <<"(">> \o SpellList(n.body) \o <<")">>)
  \o Opt(n)

\* A parsed tree without its pool blocks.
RECURSIVE Strip(_, _, _)
StripList(list, args, words) == [k \in DOMAIN list |-> Strip(list[k], args, words)]
StripArgs(n, args, words) ==
  [k \in DOMAIN n.args |-> [key  |-> words[args[n.cell][k]],
                            vals |-> StripList(n.args[k], args, words)]]
Strip(n, args, words) ==
  CASE n.type = "val" -> [type |-> "val", val |-> n.val, isvar |-> n.isvar, opt |-> n.opt]
    [] n.type = "valblock" -> [type |-> "valblock", opt |-> n.opt,
                               vals |-> StripList(n.vals, args, words)]
    [] n.type = "call" -> [type |-> "call", key |-> n.key, opt |-> n.opt,
                           args |-> StripArgs(n, args, words)]
    [] n.type = "expr" -> [type |-> "expr", key |-> n.key, comp |-> n.comp, opt |-> n.opt,
                           vals |-> StripList(n.vals, args, words)]
    [] n.type = "func" -> [type |-> "func", key |-> n.key, opt |-> n.opt,
                           args |-> StripArgs(n, args, words),
                           body |-> StripList(n.body, args, words)]
    [] n.type = "block" -> [type |-> "block", negative |-> n.negative, opt |-> n.opt,
                            body |-> StripList(n.body, args, words)]

Init ==
  /\ rule \in Rules
  /\ code = SpellList(rule)
  /\ edited = FALSE

Delete(k)     == code' = RemoveAt(code, k)
Insert(k, t)  == code' = InsertAt(code, k, t)
Replace(k, t) == code' = ReplaceAt(code, k, t)
Cut(k)        == code' = SubSeq(code, 1, k - 1)

Next ==
  /\ ~edited /\ edited' = TRUE
  /\ \E k \in DOMAIN code :
       Delete(k) \/ Cut(k) \/ \E t \in Alphabet : Insert(k, t) \/ Replace(k, t)
  /\ UNCHANGED rule

Spec == Init /\ [][Next]_vars
-------------------------------------------------------------------------------
Parse(c) ==
  ParseContent(StartParse(c, NewPool, [b \in 1..InitCount |-> <<>>], <<>>))

Items(r)       == StripList(r.out.body, r.p.args,
                            SelectSeq(r.p.code, LAMBDA t : t \in Named))
Consumed(r)    == SubSeq(r.p.code, 1, r.p.i - 1)
NoCommas(toks) == SelectSeq(toks, LAMBDA t : t # ",")

\* The parser accepts every rule as it is spelled, reads it to the end, and
\* builds the tree it was spelled from.
ParsesBack ==
  ~edited => \E r \in {Parse(code)} :
                 /\ r.ret = "ok" /\ Consumed(r) = code
                 /\ Items(r) = rule

\* Brackets that may open a value: neither a group nor an argument list.
OpensArgs(c, k) ==
  /\ k > 1 /\ c[k - 1] \in Named
  /\ k < Len(c)
  /\ (c[k + 1] = ")" \/ (k + 1 < Len(c) /\ c[k + 2] = "="))
ValueBrackets(c) ==
  {k \in DOMAIN c : /\ c[k] = "(" /\ ~OpensArgs(c, k)
                    /\ (k > 1 => c[k - 1] \notin Logic \cup {"{"})}

\* The two places where the parser does not look: at how a value in parentheses
\* ended, and at what follows an argument list at its limit.
Unlooked(c) ==
  \/ ValueBrackets(c) # {}
  \/ Cardinality({k \in DOMAIN c : c[k] = "="}) >= ArgMax

\* Of an edited rule the parser accepts only what it puts into the tree: the
\* tree spells the tokens consumed, commas aside, so that no token is dropped or
\* supplied in silence, unless the rule had a value in parentheses (whose result
\* syntax_parse_val drops) or as many arguments as syntax_parse_func_args reads.
TreeSpellsCode ==
  \E r \in {Parse(code)} :
      r.ret = "ok" =>
        \/ edited /\ Unlooked(SpellList(rule))
        \/ NoCommas(SpellList(Items(r))) = NoCommas(Consumed(r))

\* The parser looks for a token behind the end of the code only where a call has
\* "(" and at most one token after it: syntax_parse_call takes the type of
\* peek_next_token, which then is NULL.  A code that stops anywhere else is
\* refused, or complete.
CrashNeedsCallAtEnd ==
  \E r \in {Parse(code)} :
      r.ret = "crash" =>
        \E k \in DOMAIN code : /\ k + 1 >= Len(code) /\ code[k] = "("
                               /\ k > 1 /\ code[k - 1] \in Named
===============================================================================

-------------------------------- MODULE Syntax --------------------------------
(***************************************************************************)
(* The recursive-descent parser of syntax.c.  Every nonterminal is an      *)
(* operator from a parser state to a result; the state carries the read    *)
(* position, the node pool and the part of a block's bytes that outlives a *)
(* use of the block.                                                       *)
(*                                                                         *)
(* A token is its spelling: a keyword of Words, a quoted string of         *)
(* Strings, or a symbol.  Of a block that is reused only the arguments of  *)
(* a function or call node are read before they are written, and only as   *)
(* many as args.count says; args[b] is the sequence of these argument keys *)
(* for block b, so that count is its length.  A key is a pointer into      *)
(* workmem, written as the number of the word it points to: all words of a *)
(* model are taken to have one length.                                     *)
(***************************************************************************)
EXTENDS Mempool

CONSTANTS
  Words,     \* what the lexer takes for a keyword: names and numbers
  Strings,   \* quoted strings
  ArgMax     \* SYNTAX_ARG_MAX

ASSUME ArgMaxAssumption == ArgMax \in Nat \ {0}

Logic       == {"&&", "||", "!"}
Comp        == {"==", "!=", ">", "<", ">=", "<="}
Arith       == {"%", "&", "|", "^", "+", "-", "*", "/"}
ArithAssign == {"+=", "-=", "*=", "/="}
Operators   == Logic \cup Comp \cup Arith \cup ArithAssign \cup {"="}
Brackets    == {"{", "}", "(", ")"}
Symbols     == Operators \cup Brackets \cup {",", "$", "~"}
Named       == Words \cup Strings     \* what read_keyword accepts
Eof         == "end of code"

\* A key that matches no keyword: analysed already, or bytes malloc left.
Bound == 0

\* garbage is what a block made by malloc holds as argument keys.
StartParse(code, pool, args, garbage) ==
  [code |-> code, i |-> 1, pool |-> pool, args |-> args, garbage |-> garbage]

\* peek_curr_token is Tok(p, 0), peek_next_token is Tok(p, 1).
Tok(p, k) == IF p.i + k <= Len(p.code) THEN p.code[p.i + k] ELSE Eof
Read(p)   == IF p.i <= Len(p.code) THEN [p EXCEPT !.i = @ + 1] ELSE p

\* The number of the word at the read position.
WordNumber(p) == Len(SelectSeq(SubSeq(p.code, 1, p.i), LAMBDA t : t \in Named))

\* What a nonterminal leaves.  out is the node, or the list, it built.
Done(p, out)   == [ret |-> "ok", p |-> p, out |-> out]
Failed(p, out) == [ret |-> "error", p |-> p, out |-> out]
Crashed(p)     == [ret |-> "crash", p |-> p, out |-> <<>>]

\* A node of any type takes a block; its args stay as they were.
Cell(p) == NextBlock(p.pool)
Take(p) ==
  [p EXCEPT !.pool = MemAlloc(@),
            !.args = IF Cell(p) \in DOMAIN @ THEN @ ELSE Append(@, p.garbage)]
Give(p, b) == [p EXCEPT !.pool = MemFree(@, b)]

\* A fault: a call is read as a name.
ValTypeWithoutCall(p) ==
  CASE Tok(p, 0) \in Named /\ Tok(p, 1) # Eof -> "normal"
    [] Tok(p, 0) = "("                        -> "block"
    [] Tok(p, 0) = "$"                        -> "var"
    [] OTHER                                  -> "unknown"

\* peek_expr_val_type and peek_expr_type.
ValType(p) ==
  CASE Tok(p, 0) \in Words   -> IF Tok(p, 1) = Eof THEN "unknown"
                                ELSE IF Tok(p, 1) = "(" THEN "call" ELSE "normal"
    [] Tok(p, 0) \in Strings -> "normal"
    [] Tok(p, 0) = "("       -> "block"
    [] Tok(p, 0) = "$"       -> "var"
    [] OTHER                 -> "unknown"

ExprType(p) ==
  CASE Tok(p, 0) = Eof       -> "eof"
    [] Tok(p, 0) \in Words   -> IF Tok(p, 1) = Eof THEN "unknown"
                                ELSE IF Tok(p, 1) \in {"{", "("} THEN "func"
                                ELSE "normal"
    [] Tok(p, 0) = "("       -> "block"
    [] Tok(p, 0) = "!" /\ Tok(p, 1) = "(" -> "negblock"
    [] OTHER                 -> "unknown"

RECURSIVE ParseVals(_, _), ParseArgList(_, _, _), ParseItems(_, _)

\* A literal or the name of a variable.
ParseName(p, isvar) ==
  IF Tok(p, 0) \in Named
  THEN Done(Take(Read(p)), [type |-> "val", cell |-> Cell(p), val |-> Tok(p, 0),
                            isvar |-> isvar, opt |-> ""])
  ELSE Failed(Read(p), <<>>)

\* "(" values ")".  The result of the values inside is not looked at.
CloseValBlock(cell, inner) ==
  CASE inner.ret = "crash" -> inner
    [] inner.ret # "crash" /\ Tok(inner.p, 0) = ")" ->
         Done(Read(inner.p), [type |-> "valblock", cell |-> cell, vals |-> inner.out,
                              opt |-> ""])
    [] OTHER -> Failed(Give(Read(inner.p), cell), <<>>)

ParseValBlock(p) == CloseValBlock(Cell(p), ParseVals(Take(Read(p)), <<>>))

\* The arguments of a node are set to none.
Uncount(p, cell) == [p EXCEPT !.args[cell] = <<>>]

\* key = values, for one argument after the other: an argument counts once its
\* values are parsed, and a missing comma goes unnoticed.  After ArgMax
\* arguments the loop ends whatever follows.
NextArg(p, cell, args) ==
  IF Tok(p, 0) = ")" THEN Done(Read(p), args)
  ELSE ParseArgList(IF Tok(p, 0) = "," THEN Read(p) ELSE p, cell, args)

AddArg(key, vals, cell, args) ==
  CASE vals.ret = "ok"    -> NextArg([vals.p EXCEPT !.args[cell] = Append(@, key)], cell,
                                     Append(args, vals.out))
    [] vals.ret = "error" -> Failed(Uncount(vals.p, cell), <<>>)
    [] vals.ret = "crash" -> vals

\* A fault: what follows the name of an argument is looked at without a test.
ParseArgListUntested(p, cell, args) ==
  IF Len(args) = ArgMax THEN Done(p, args)
  ELSE CASE Tok(p, 0) \notin Named -> Failed(Uncount(Read(p), cell), <<>>)
         [] Tok(p, 0) \in Named /\ Tok(p, 1) = Eof -> Crashed(p)
         [] OTHER ->
              AddArg(WordNumber(p), ParseVals(Read(Read(p)), <<>>), cell, args)

ParseArgList(p, cell, args) ==
  IF Len(args) = ArgMax THEN Done(p, args)
  ELSE CASE Tok(p, 0) \notin Named -> Failed(Uncount(Read(p), cell), <<>>)
         [] Tok(p, 0) \in Named /\ Tok(p, 1) # "=" ->
              Failed(Uncount(Read(Read(p)), cell), <<>>)
         [] OTHER ->
              AddArg(WordNumber(p), ParseVals(Read(Read(p)), <<>>), cell, args)

\* A fault: the arguments of the block's last use stay.
ParseArgsUncounted(p, cell) ==
  IF Tok(p, 0) = ")" THEN Done(Read(p), <<>>) ELSE ParseArgList(p, cell, <<>>)

\* syntax_parse_func_args, after "(".
ParseArgs(p, cell) ==
  IF Tok(p, 0) = ")" THEN Done(Read(Uncount(p, cell)), <<>>)
  ELSE ParseArgList(Uncount(p, cell), cell, <<>>)

\* syntax_parse_call.  It looks past the next token for a second "(".
CloseCall(p, args) ==
  CASE args.ret = "ok"    -> Done(args.p, [type |-> "call", cell |-> Cell(p), key |-> Tok(p, 0),
                                           args |-> args.out, opt |-> ""])
    [] args.ret = "error" -> Failed(Give(args.p, Cell(p)), <<>>)
    [] args.ret = "crash" -> args

ParseCall(p) ==
  LET q == Read(Read(Take(p)))
  IN  CASE Tok(q, 1) = Eof -> Crashed(q)
        [] Tok(q, 1) = "(" -> CloseCall(p, Done(Uncount(q, Cell(p)), <<>>))
        [] OTHER           -> CloseCall(p, ParseArgs(q, Cell(p)))

\* syntax_parse_val: values with arithmetic operators between them.
ParseVal(p) ==
  CASE ValType(p) = "block"   -> ParseValBlock(p)
    [] ValType(p) = "call"    -> ParseCall(p)
    [] ValType(p) = "var"     -> ParseName(Read(p), TRUE)
    [] ValType(p) = "normal"  -> ParseName(p, FALSE)
    [] ValType(p) = "unknown" -> Failed(p, <<>>)

AddVal(v, vals) ==
  CASE v.ret # "ok" -> [v EXCEPT !.out = vals]
    [] v.ret = "ok" /\ Tok(v.p, 0) \in Arith ->
         ParseVals(Read(v.p), Append(vals, [v.out EXCEPT !.opt = Tok(v.p, 0)]))
    [] OTHER -> Done(v.p, Append(vals, v.out))

ParseVals(p, vals) == AddVal(ParseVal(p), vals)

\* syntax_parse_expr: name, comparison, values.
CloseExpr(p, vals) ==
  CASE vals.ret = "ok"    -> Done(vals.p, [type |-> "expr", cell |-> Cell(p), key |-> Tok(p, 0),
                                           comp |-> Tok(p, 1), vals |-> vals.out, opt |-> ""])
    [] vals.ret = "error" -> Failed(Give(vals.p, Cell(p)), <<>>)
    [] vals.ret = "crash" -> vals

ParseExpr(p) ==
  LET op == Read(Take(p))
  IN  IF Tok(op, 0) \in Comp THEN CloseExpr(p, ParseVals(Read(op), <<>>))
      ELSE Failed(Give(Read(op), Cell(p)), <<>>)

\* A fault: the closing bracket is read and not looked at.
CloseBlockUnread(cell, negative, items) ==
  IF items.ret # "ok" THEN items
  ELSE Done(Read(items.p), [type |-> "block", cell |-> cell, negative |-> negative,
                            body |-> items.out, opt |-> ""])

\* syntax_parse_block and its caller: items, then ")".  When ")" is missing
\* the block is not destroyed.
CloseBlock(cell, negative, items) ==
  CASE items.ret = "error" -> Failed(Give(items.p, cell), <<>>)
    [] items.ret = "crash" -> items
    [] items.ret = "ok" /\ Tok(items.p, 0) # ")" -> Failed(Read(items.p), <<>>)
    [] OTHER -> Done(Read(items.p), [type |-> "block", cell |-> cell, negative |-> negative,
                                     body |-> items.out, opt |-> ""])

ParseBlock(p, negative) == CloseBlock(Cell(p), negative, ParseItems(Take(p), <<>>))

\* syntax_parse_func: name, arguments or none, body.  Without an argument list
\* nothing sets args.
CloseFunc(p, args, body) ==
  CASE body.ret = "crash" -> body
    [] body.ret = "error" -> Failed(Give(body.p, Cell(p)), <<>>)
    [] body.ret = "ok" /\ Tok(body.p, 0) # "}" -> Failed(Give(Read(body.p), Cell(p)), <<>>)
    [] OTHER -> Done(Read(body.p), [type |-> "func", cell |-> Cell(p), key |-> Tok(p, 0),
                                    args |-> args, body |-> body.out, opt |-> ""])

OpenBody(p, args) ==
  CASE args.ret = "crash" -> args
    [] args.ret = "error" -> Failed(Give(args.p, Cell(p)), <<>>)
    [] args.ret = "ok" /\ Tok(args.p, 0) # "{" -> Failed(Give(Read(args.p), Cell(p)), <<>>)
    [] OTHER -> CloseFunc(p, args.out, ParseItems(Read(args.p), <<>>))

ParseFunc(p) ==
  LET q == Read(Take(p))
  IN  OpenBody(p, IF Tok(q, 0) = "(" THEN ParseArgs(Read(q), Cell(p)) ELSE Done(q, <<>>))

\* __syntax_parse_block: items with logic operators between them, up to a
\* closing bracket or the end of the code.
ParseItem(p) ==
  CASE ExprType(p) = "func"     -> ParseFunc(p)
    [] ExprType(p) = "negblock" -> ParseBlock(Read(Read(p)), TRUE)
    [] ExprType(p) = "block"    -> ParseBlock(Read(p), FALSE)
    [] ExprType(p) = "normal"   -> ParseExpr(p)
    [] ExprType(p) = "unknown"  -> Failed(p, <<>>)

AddItem(item, items) ==
  LET opt == Tok(item.p, 0)
  IN  CASE item.ret # "ok" -> [item EXCEPT !.out = items]
        [] item.ret = "ok" /\ opt \in Logic ->
             ParseItems(Read(item.p), Append(items, [item.out EXCEPT !.opt = opt]))
        [] item.ret = "ok" /\ opt \in Operators \ Logic ->
             Failed(Read(item.p), Append(items, item.out))
        [] item.ret = "ok" /\ opt \in {")", "}"} -> Done(item.p, Append(items, item.out))
        [] OTHER -> ParseItems(item.p, Append(items, item.out))

ParseItems(p, items) ==
  IF ExprType(p) = "eof" THEN Done(p, items) ELSE AddItem(ParseItem(p), items)

\* syntax_parse_content.  Its node is not freed when the items fail.
CloseContent(cell, items) ==
  IF items.ret = "ok"
  THEN Done(items.p, [type |-> "content", cell |-> cell, body |-> items.out])
  ELSE items

ParseContent(p) == CloseContent(Cell(p), ParseItems(Take(p), <<>>))

\* The blocks of a tree in the order destroy_syntax_content frees them.  The
\* arguments are counted by args.count.
RECURSIVE NodeCells(_, _)
ListCells(list, args) ==
  FlattenSeq([k \in DOMAIN list |-> NodeCells(list[k], args)])

\* A fault: the arguments are forgotten.
ArgCellsForgotten(n, args) == <<>>

ArgCells(n, args) ==
  FlattenSeq([k \in DOMAIN n.args \cap DOMAIN args[n.cell] |->
                ListCells(n.args[k], args)])
NodeCells(n, args) ==
  (CASE n.type = "val"                -> <<>>
     [] n.type \in {"valblock", "expr"} -> ListCells(n.vals, args)
     [] n.type = "call"               -> ArgCells(n, args)
     [] n.type = "func"               -> ArgCells(n, args) \o ListCells(n.body, args)
     [] n.type \in {"block", "content"} -> ListCells(n.body, args))
  \o <<n.cell>>

DestroyTree(tree, pool, args) ==
  FoldLeft(MemFree, pool, NodeCells(tree, args))
===============================================================================

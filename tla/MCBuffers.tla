----------------------------- MODULE MCBuffers -----------------------------
(***************************************************************************)
(* Codes around every limit, for buffers of 16 bytes, a token array of     *)
(* four, and a handle stack of twelve that is given as 24.                 *)
(***************************************************************************)
EXTENDS Buffers

MCDefault == [b \in Buffer |-> CASE b = "stacks" -> 24 [] b = "out" -> 12 [] OTHER -> 16]

C(len, words, chars, tokens, handles) ==
  [len |-> len, words |-> words, chars |-> chars, tokens |-> tokens,
   handles |-> handles, macro |-> FALSE]
MacroCall(len) == [C(len, 1, 1, 3, 0) EXCEPT !.macro = TRUE]

MCCodes ==
  {C(0, 0, 0, 0, 0),
   C(9, 1, 3, 3, 1), C(15, 2, 12, 3, 1),     \* fit
   C(15, 1, 15, 1, 0), C(15, 2, 15, 2, 0),   \* words without separators
   C(14, 4, 4, 12, 4),                       \* more tokens than four
   C(16, 1, 10, 3, 1), C(31, 1, 20, 3, 1),   \* one growth
   C(32, 1, 20, 3, 1), C(63, 1, 50, 3, 1),   \* and another
   C(40, 13, 13, 39, 13),                    \* more handles than twelve
   C(72, 23, 23, 72, 23),                    \* and more than are pushed
   MacroCall(9), MacroCall(20)}
=============================================================================

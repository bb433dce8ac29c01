------------------------------ MODULE Buffers ------------------------------
(***************************************************************************)
(* The four buffers of one interpreter (struct interp) over the calls of   *)
(* interpreter_execute: how they grow, the pointers that the context keeps *)
(* into them, and how far each stage writes.  A code is its measures; what *)
(* Interpreter.tla and Executor.tla have in detail is a choice here.       *)
(*                                                                         *)
(* realloc is called with the size a buffer had, so the size on record is  *)
(* twice what is allocated.  A write past the end is noted in "over", and  *)
(* the program goes on: the bytes there are somebody else's.               *)
(***************************************************************************)
EXTENDS Integers

CONSTANTS
  Codes,       \* what the host may execute
  Default,     \* DEFAULT_CODEBUF_SIZE and the others, by buffer
  TokenSize,   \* sizeof(struct lex_token)
  HandleSize,  \* sizeof(lrc_obj_t *)
  StackGap,    \* EXEC_STACK_GAP
  OutUnit,     \* EXEC_OUT_UNIT_MAX
  Details      \* lengths of the strings that handlers put out

Buffer == {"code", "work", "stacks", "out"}

\* A code has len characters, of which chars are in words (keywords and
\* strings); handles is how many functions and calls it has, each of at least
\* three tokens; macro says that it is a call of a macro.
Code == [len : Nat, words : Nat, chars : Nat, tokens : Nat, handles : Nat, macro : BOOLEAN]

ASSUME CodesAssumption ==
  /\ Codes \subseteq Code
  /\ \A c \in Codes : c.chars <= c.len /\ c.tokens <= c.len /\ 3 * c.handles <= c.tokens
ASSUME SizesAssumption ==
  /\ Default \in [Buffer -> Nat \ {0}]
  /\ TokenSize \in Nat /\ HandleSize \in Nat /\ HandleSize <= 3 * TokenSize
  /\ TokenSize >= 2 /\ StackGap \in Nat /\ 2 * StackGap <= Default["stacks"]
  /\ OutUnit \in Nat /\ OutUnit >= 5 /\ OutUnit < Default["out"]
  /\ Default["work"] = Default["code"]
ASSUME DetailsAssumption == Details \subseteq Nat

VARIABLES
  pc,        \* the stage interpreter_execute is about to run
  buf,       \* by buffer: the size on record, the bytes allocated, the times it moved
  at,        \* by buffer: which block the context's pointer into it is in
  code,      \* the code in codebuf
  ends,      \* whether a zero follows it
  detailen,  \* ctx->detailen
  cap,       \* ctx->detailcap
  open,      \* functions and calls active
  entered,   \* functions and calls begun
  idx,       \* ctx->stackidx
  over       \* what went past the bytes allocated since the context was initialised

vars == <<pc, buf, at, code, ends, detailen, cap, open, entered, idx, over>>
stage == <<open, entered, idx>>

NoCode == [len |-> 0, words |-> 0, chars |-> 0, tokens |-> 0, handles |-> 0, macro |-> FALSE]

\* xxx_SIZE_MAX.
SizeMax(b) == 4 * Default[b]

Init ==
  /\ pc = "idle" /\ code = NoCode /\ ends = TRUE
  /\ buf = [b \in Buffer |-> [size |-> Default[b], room |-> Default[b], moved |-> 0]]
  /\ at = [b \in Buffer |-> 0]
  /\ detailen = 0 /\ cap = 0
  /\ open = 0 /\ entered = 0 /\ idx = 0
  /\ over = {}

-----------------------------------------------------------------------------
\* A fault: the limit is where the next size would reach it.
CanExpandBelowMax(b) == 2 * buf[b].size < SizeMax(b)

\* interp_expands_codebuf and the other three.
CanExpand(b) == buf[b].size < SizeMax(b)

Expanded(b) ==
  [buf EXCEPT ![b] = [size |-> IF 2 * @.size < SizeMax(b) THEN 2 * @.size ELSE SizeMax(b),
                      room |-> @.size, moved |-> @.moved + 1]]

\* interp_context_init clears as much as is on record, and takes the pointers.
Cleared == {b \in Buffer : buf[b].size > buf[b].room}
Here(bs) == [b \in Buffer |-> bs[b].moved]

\* A fault: the pointer to the code is the one from before it moved.
InterpLoadCodeUnmoved(c) ==
  /\ buf["code"].size <= c.len => CanExpand("code")
  /\ buf' = IF buf["code"].size <= c.len THEN Expanded("code") ELSE buf
  /\ ends' = (c.len < buf["code"].size)
  /\ at' = Here(buf)
  /\ over' = Cleared \cup (IF c.len < buf'["code"].room THEN {} ELSE {"code"})
  /\ code' = c /\ pc' = "lexer"

\* interp_load_code, which expands once, whatever the length.  What the context
\* was cleared of ends the code; the bytes that expanding adds are not clear.
InterpLoadCode(c) ==
  /\ buf["code"].size <= c.len => CanExpand("code")
  /\ buf' = IF buf["code"].size <= c.len THEN Expanded("code") ELSE buf
  /\ ends' = (c.len < buf["code"].size)
  /\ at' = Here(buf')
  /\ over' = Cleared \cup (IF c.len < buf'["code"].room THEN {} ELSE {"code"})
  /\ code' = c /\ pc' = "lexer"

InterpContextInit ==
  /\ detailen' = 0 /\ cap' = buf["out"].size
  /\ open' = 0 /\ entered' = 0 /\ idx' = 0

InterpContextCreate(c) ==
  /\ pc = "idle"
  /\ InterpContextInit
  /\ InterpLoadCode(c)

\* The code does not fit: the context, which is inside struct interp, is freed.
InterpContextCreateFailed(c) ==
  /\ pc = "idle"
  /\ buf["code"].size <= c.len /\ ~CanExpand("code")
  /\ pc' = "crashed" /\ code' = c
  /\ UNCHANGED <<buf, at, ends, detailen, cap, over>> /\ UNCHANGED stage

\* interp_lexer_analysis.  Each word takes a byte more than it has, and the
\* last zero another; the end of the code takes a token.  A code without an end
\* is read on into what is behind it.
WorkNeed(c) == IF c.words = 0 THEN 0 ELSE c.chars + c.words + 1

\* A fault: the work memory keeps its size.
WorkExpandedNever == buf

WorkExpanded == IF buf["code"].size > buf["work"].size THEN Expanded("work") ELSE buf

Lexer ==
  /\ pc = "lexer"
  /\ buf["code"].size > buf["work"].size => CanExpand("work")
  /\ buf' = WorkExpanded /\ at' = [at EXCEPT !["work"] = buf'["work"].moved]
  /\ \E c \in IF ends THEN {code} ELSE {d \in Codes : d.len >= code.len} :
       /\ code' = c
       /\ over' = over \cup (IF WorkNeed(c) > buf'["work"].room THEN {"work"} ELSE {})
                       \cup (IF (c.tokens + 1) * TokenSize > buf'["stacks"].room
                             THEN {"tokens"} ELSE {})
  /\ pc' = "preprocess"
  /\ UNCHANGED <<ends, detailen, cap>> /\ UNCHANGED stage

\* lre_create_code_by_macro makes the code in a buffer of the default size.
Expansions == {c \in Codes : c.len < Default["code"]}

\* interp_preprocess: a macro's code is loaded in place of the call.
PreprocessContent ==
  /\ pc = "preprocess" /\ code.macro
  /\ InterpContextInit
  /\ \E c \in Expansions : InterpLoadCode(c)

\* No macro, and the code parses.
Parse ==
  /\ pc = "preprocess" /\ ~code.macro
  /\ pc' = "execute"
  /\ UNCHANGED <<buf, at, code, ends, detailen, cap, over>> /\ UNCHANGED stage

\* Any stage may end in an error, that of the lexer is met here in the next; an
\* execution ends once no function is active.
Finish ==
  /\ pc \in {"preprocess", "execute"} /\ open = 0
  /\ pc' = "idle"
  /\ UNCHANGED <<buf, at, code, ends, detailen, cap, over>> /\ UNCHANGED stage

-----------------------------------------------------------------------------
(* Execution.  The handles take the place of the tokens.                   *)

\* A fault: they come behind the tokens.
HandleEndBehindTokens(k) == (code.tokens + 1) * TokenSize + k * HandleSize

\* Where the k-th handle ends.
HandleEnd(k) == k * HandleSize

\* exec_ctx_push_handle, and the callers who go on without it.  stackdepth is a
\* number of bytes.
PushHandle ==
  /\ pc = "execute" /\ entered < code.handles
  /\ entered' = entered + 1 /\ open' = open + 1
  /\ IF idx + StackGap >= buf["stacks"].size
     THEN UNCHANGED <<idx, over>>
     ELSE /\ idx' = idx + 1
          /\ over' = over \cup (IF HandleEnd(idx + 1) > buf["stacks"].room
                                THEN {"handles"} ELSE {})
  /\ UNCHANGED <<pc, buf, at, code, ends, detailen, cap>>

\* exec_ctx_pop_handle, but for a call whose argument has no value.
PopHandle ==
  /\ pc = "execute" /\ open > 0
  /\ open' = open - 1
  /\ idx' \in {idx - 1, idx}
  /\ UNCHANGED <<pc, buf, at, code, ends, detailen, cap, entered, over>>

\* A fault: room is looked for when there is none.
OutFullLate == detailen >= cap

OutFull == detailen + OutUnit >= cap

\* exec_output_cb, with a string of l characters.
ExecOutputCb(l) ==
  /\ pc = "execute" /\ open > 0
  /\ IF OutFull /\ ~CanExpand("out") THEN UNCHANGED <<buf, at, detailen, cap, over>>
     ELSE /\ buf' = IF OutFull THEN Expanded("out") ELSE buf
          /\ at' = [at EXCEPT !["out"] = buf'["out"].moved]
          /\ cap' = IF OutFull THEN buf'["out"].size ELSE cap
          /\ detailen' = detailen + (IF l + 1 >= OutUnit THEN OutUnit ELSE l + 1)
          /\ over' = over \cup (IF detailen' + 1 > buf'["out"].room THEN {"out"} ELSE {})
  /\ UNCHANGED <<pc, code, ends>> /\ UNCHANGED stage

Next ==
  \/ \E c \in Codes : InterpContextCreate(c) \/ InterpContextCreateFailed(c)
  \/ Lexer \/ PreprocessContent \/ Parse \/ Finish
  \/ PushHandle \/ PopHandle \/ \E l \in Details : ExecOutputCb(l)

Spec == Init /\ [][Next]_vars

-----------------------------------------------------------------------------
\* A buffer has as many bytes as it says ("Interp: expand code buf, new size:").
SizesAreTrue == \A b \in Buffer : buf[b].size = buf[b].room

\* Until a buffer grows, the code, the clearing and the output stay in theirs,
\* and the words do unless the code has fewer other characters than words: the
\* lexer writes a zero more than it needs.
InBoundsUntilGrown ==
  SizesAreTrue =>
    /\ over \subseteq {"tokens", "handles", "work"}
    /\ "work" \in over => code.len - code.chars < code.words

\* A rule whose tokens fit has room for every handle that it pushes, and no push
\* is refused: stackdepth counts bytes and stackidx entries, and the check of
\* exec_ctx_push_handle never fails before the memory ends.
HandlesFit ==
  pc = "execute" /\ "tokens" \notin over => "handles" \notin over /\ idx >= open

\* Whatever has moved, the context points into the blocks there are.
PointersAreCurrent == pc # "idle" /\ pc # "crashed" => at = Here(buf)

\* The work memory is on record as at least as long as the code buffer when the
\* words of a code are used, and is never refused what that takes.
WorkFollowsCode ==
  /\ pc \in {"preprocess", "execute"} => buf["code"].size <= buf["work"].size
  /\ pc = "lexer" /\ buf["code"].size > buf["work"].size => CanExpand("work")

\* The program frees a part of struct interp only for a code that is longer than
\* the largest code buffer, and only after others have made it that large.
CrashNeedsHugeCode ==
  pc = "crashed" => code.len >= SizeMax("code") /\ buf["code"].moved = 2
=============================================================================

--------------------------- MODULE Buffers_proofs ---------------------------
(***************************************************************************)
(* For every code and all sizes the assumptions allow: the handle stack    *)
(* takes the memory of the tokens, and a rule whose tokens fit never needs *)
(* the check against a number of bytes; the pointers follow the buffers;   *)
(* the work memory follows the code; and nothing but tokens, handles and   *)
(* the zeros of the words is written past a buffer that never grew.        *)
(***************************************************************************)
EXTENDS Buffers, TLAPS

Measured(c) ==
  /\ c.tokens \in Nat /\ c.handles \in Nat
  /\ 3 * c.handles <= c.tokens

\* The stacks neither grow nor move, and nothing is active before the execution.
StacksInv ==
  /\ DOMAIN buf = Buffer
  /\ buf["stacks"].size = Default["stacks"] /\ buf["stacks"].room = Default["stacks"]
  /\ Measured(code)
  /\ pc \in {"idle", "crashed", "lexer", "preprocess", "execute"}
  /\ open \in Nat /\ entered \in Nat /\ idx \in Int
  /\ pc \in {"lexer", "preprocess"} =>
       open = 0 /\ entered = 0 /\ idx = 0 /\ "handles" \notin over
  /\ pc \in {"preprocess", "execute"} /\ "tokens" \notin over =>
       (code.tokens + 1) * TokenSize <= Default["stacks"]
  /\ pc = "execute" =>
       /\ open <= entered /\ entered <= code.handles /\ idx <= entered
       /\ "tokens" \notin over => idx >= open /\ "handles" \notin over

-----------------------------------------------------------------------------
\* Multiplication by a natural number keeps the order.
LEMMA ProductsAreOrdered ==
  ASSUME NEW a \in Nat, NEW b \in Nat, NEW c \in Nat, a <= b
  PROVE  a * c <= b * c
<1> DEFINE d == b - a
<1>1. d \in Nat /\ b = a + d
  OBVIOUS
<1> HIDE DEF d
<1>2. b * c = a * c + d * c
  BY <1>1
<1>3. d * c \in Nat /\ a * c \in Nat
  BY <1>1
<1> QED BY <1>2, <1>3

\* The handles of a code take no more memory than its tokens (HandleEnd).
LEMMA HandlesTakeLessThanTokens ==
  ASSUME NEW c, Measured(c), NEW k \in Nat, k <= c.handles
  PROVE  k * HandleSize <= (c.tokens + 1) * TokenSize
<1>1. HandleSize \in Nat /\ TokenSize \in Nat /\ 3 * TokenSize \in Nat
  BY SizesAssumption
<1>2. c.handles \in Nat /\ c.tokens \in Nat /\ 3 * c.handles <= c.tokens + 1
  BY DEF Measured
<1>3. HandleSize * k <= (3 * TokenSize) * k
  BY <1>1, SizesAssumption, ProductsAreOrdered
<1>4. (3 * k) * TokenSize <= (c.tokens + 1) * TokenSize
  <2>1. 3 * k <= c.tokens + 1 /\ 3 * k \in Nat /\ c.tokens + 1 \in Nat
    BY <1>2
  <2> QED BY <1>1, <2>1, ProductsAreOrdered
<1>5. /\ HandleSize * k = k * HandleSize /\ (3 * TokenSize) * k = (3 * k) * TokenSize
      /\ k * HandleSize \in Int /\ (3 * k) * TokenSize \in Int
      /\ (c.tokens + 1) * TokenSize \in Int
  BY <1>1, <1>2
<1> QED BY <1>3, <1>4, <1>5

\* A push that exec_ctx_push_handle refuses would need more handles than tokens.
LEMMA NoPushIsRefused ==
  ASSUME NEW c, Measured(c), NEW k \in Int, k < c.handles,
         (c.tokens + 1) * TokenSize <= Default["stacks"]
  PROVE  k + StackGap < Default["stacks"]
<1>1. Default["stacks"] \in Nat /\ StackGap \in Nat /\ 2 * StackGap <= Default["stacks"]
  BY SizesAssumption DEF Buffer
<1>2. c.handles \in Nat /\ c.tokens \in Nat /\ 3 * c.handles <= c.tokens
  BY DEF Measured
<1>3. 2 * (c.tokens + 1) <= Default["stacks"]
  <2>1. TokenSize \in Nat /\ 2 <= TokenSize /\ c.tokens + 1 \in Nat
    BY <1>2, SizesAssumption
  <2>2. 2 * (c.tokens + 1) <= TokenSize * (c.tokens + 1)
    BY <2>1, ProductsAreOrdered
  <2>3. TokenSize * (c.tokens + 1) = (c.tokens + 1) * TokenSize
    BY <2>1
  <2>4. (c.tokens + 1) * TokenSize \in Int
    BY <2>1
  <2> QED BY <1>1, <1>2, <2>2, <2>3, <2>4
<1> QED BY <1>1, <1>2, <1>3

\* Growing another buffer leaves the stacks alone.
LEMMA ExpandedLeavesStacks ==
  ASSUME DOMAIN buf = Buffer, NEW b \in Buffer, b # "stacks"
  PROVE  DOMAIN Expanded(b) = Buffer /\ Expanded(b)["stacks"] = buf["stacks"]
  BY DEF Expanded, Buffer

LEMMA CodesAreMeasured == \A c \in Codes : Measured(c)
<1> SUFFICES ASSUME NEW c \in Codes PROVE Measured(c)
  OBVIOUS
<1>1. c \in Code
  BY CodesAssumption
<1>2. c.tokens \in Nat /\ c.handles \in Nat
  BY <1>1 DEF Code
<1> QED BY <1>2, CodesAssumption DEF Measured

-----------------------------------------------------------------------------
\* Loading a code, the host's or a macro's, starts from a cleared context.
LEMMA LoadKeepsStacksInv ==
  ASSUME StacksInv, NEW c \in Codes, InterpContextInit, InterpLoadCode(c)
  PROVE  StacksInv'
<1>1. DOMAIN buf' = Buffer /\ buf'["stacks"] = buf["stacks"]
  BY ExpandedLeavesStacks DEF StacksInv, InterpLoadCode, Buffer
<1>2. "handles" \notin over'
  BY DEF InterpLoadCode, Cleared, Buffer
<1>3. Measured(code')
  BY CodesAreMeasured DEF InterpLoadCode
<1> QED
  BY <1>1, <1>2, <1>3 DEF StacksInv, InterpLoadCode, InterpContextInit

\* The lexer is the stage that finds out whether the tokens fit.
LEMMA LexerKeepsStacksInv ==
  ASSUME StacksInv, Lexer
  PROVE  StacksInv'
<1> USE DEF stage
<1>1. DOMAIN buf' = Buffer /\ buf'["stacks"] = buf["stacks"]
  BY ExpandedLeavesStacks DEF StacksInv, Lexer, WorkExpanded, Buffer
<1>2. PICK c \in {code} \cup Codes :
        /\ code' = c
        /\ over' = over \cup (IF WorkNeed(c) > buf'["work"].room THEN {"work"} ELSE {})
                        \cup (IF (c.tokens + 1) * TokenSize > buf'["stacks"].room
                              THEN {"tokens"} ELSE {})
  BY DEF Lexer
<1>3. Measured(code') /\ "handles" \notin over'
  BY <1>2, CodesAreMeasured DEF StacksInv, Lexer
<1>4. "tokens" \notin over' => (code'.tokens + 1) * TokenSize <= Default["stacks"]
  <2> SUFFICES ASSUME "tokens" \notin over'
               PROVE  (c.tokens + 1) * TokenSize <= Default["stacks"]
    BY <1>2
  <2>1. ~((c.tokens + 1) * TokenSize > Default["stacks"])
    BY <1>1, <1>2 DEF StacksInv
  <2>2. c.tokens \in Nat
    BY <1>2, CodesAreMeasured DEF StacksInv, Measured
  <2>3. (c.tokens + 1) * TokenSize \in Int /\ Default["stacks"] \in Int
    BY <2>2, SizesAssumption DEF Buffer
  <2> QED BY <2>1, <2>3
<1>5. /\ pc = "lexer" /\ pc' = "preprocess"
      /\ open' = open /\ entered' = entered /\ idx' = idx
  BY DEF Lexer
<1> QED
  BY <1>1, <1>3, <1>4, <1>5 DEF StacksInv

LEMMA PushKeepsStacksInv ==
  ASSUME StacksInv, PushHandle
  PROVE  StacksInv'
<1>1. /\ pc = "execute" /\ entered < code.handles
      /\ entered' = entered + 1 /\ open' = open + 1
      /\ UNCHANGED <<pc, buf, code>>
      /\ entered \in Nat /\ open \in Nat /\ idx \in Int /\ code.handles \in Nat
      /\ open <= entered /\ idx <= entered
  BY DEF PushHandle, StacksInv, Measured
<1>2. idx' \in Int /\ idx' <= entered'
  BY <1>1 DEF PushHandle
<1>3. "tokens" \notin over' => "tokens" \notin over
  BY DEF PushHandle
<1>4. ASSUME "tokens" \notin over
      PROVE  idx' >= open' /\ "handles" \notin over'
  <2>1. /\ (code.tokens + 1) * TokenSize <= Default["stacks"]
        /\ Measured(code) /\ idx >= open /\ "handles" \notin over
        /\ buf["stacks"].size = Default["stacks"] /\ buf["stacks"].room = Default["stacks"]
    BY <1>1, <1>4 DEF StacksInv
  <2>2. Default["stacks"] \in Nat /\ StackGap \in Nat
    BY SizesAssumption DEF Buffer
  <2>3. idx + StackGap < Default["stacks"]
    <3>1. idx < code.handles
      BY <1>1
    <3> QED BY <1>1, <2>1, <3>1, NoPushIsRefused
  <2>4. ~(HandleEnd(idx + 1) > Default["stacks"])
    <3>1. idx + 1 \in Nat /\ idx + 1 <= code.handles
      BY <1>1, <2>1
    <3>2. (idx + 1) * HandleSize <= (code.tokens + 1) * TokenSize
      BY <2>1, <3>1, HandlesTakeLessThanTokens
    <3>3. (idx + 1) * HandleSize \in Int /\ (code.tokens + 1) * TokenSize \in Int
      BY <3>1, <2>1, SizesAssumption DEF Measured
    <3> QED BY <2>1, <2>2, <3>2, <3>3 DEF HandleEnd
  <2>5. ~(idx + StackGap >= Default["stacks"])
    BY <1>1, <2>2, <2>3
  <2>6. idx' = idx + 1 /\ "handles" \notin over'
    BY <2>1, <2>4, <2>5 DEF PushHandle
  <2> QED BY <1>1, <2>1, <2>6
<1>5. (open' <= entered' /\ entered' <= code'.handles)
  BY <1>1
<1>6. open' \in Nat /\ entered' \in Nat
  BY <1>1
<1> QED
  BY <1>1, <1>2, <1>3, <1>4, <1>5, <1>6 DEF StacksInv

LEMMA PopKeepsStacksInv ==
  ASSUME StacksInv, PopHandle
  PROVE  StacksInv'
<1>1. /\ pc = "execute" /\ open > 0 /\ open' = open - 1 /\ idx' \in {idx - 1, idx}
      /\ UNCHANGED <<pc, buf, code, entered, over>>
  BY DEF PopHandle
<1> QED BY <1>1 DEF StacksInv

LEMMA OutputKeepsStacksInv ==
  ASSUME StacksInv, NEW l \in Details, ExecOutputCb(l)
  PROVE  StacksInv'
<1> USE DEF stage
<1>1. DOMAIN buf' = Buffer /\ buf'["stacks"] = buf["stacks"]
  BY ExpandedLeavesStacks DEF StacksInv, ExecOutputCb, Buffer
<1>2. /\ "tokens" \in over' <=> "tokens" \in over
      /\ "handles" \in over' <=> "handles" \in over
  BY DEF ExecOutputCb
<1>3. UNCHANGED <<pc, code, open, entered, idx>>
  BY DEF ExecOutputCb
<1> QED BY <1>1, <1>2, <1>3 DEF StacksInv

LEMMA StepKeepsStacksInv == StacksInv /\ [Next]_vars => StacksInv'
<1> SUFFICES ASSUME StacksInv, [Next]_vars PROVE StacksInv'
  OBVIOUS
<1> USE DEF stage
<1>1. CASE \E c \in Codes : InterpContextCreate(c)
  BY <1>1, LoadKeepsStacksInv DEF InterpContextCreate
<1>2. CASE \E c \in Codes : InterpContextCreateFailed(c)
  BY <1>2, CodesAreMeasured DEF InterpContextCreateFailed, StacksInv
<1>3. CASE PreprocessContent
  BY <1>3, LoadKeepsStacksInv DEF PreprocessContent, Expansions
<1>4. CASE Parse
  BY <1>4 DEF Parse, StacksInv, Measured
<1>5. CASE Finish
  BY <1>5 DEF Finish, StacksInv
<1>6. CASE UNCHANGED vars
  BY <1>6 DEF vars, StacksInv
<1> QED
  BY <1>1, <1>2, <1>3, <1>4, <1>5, <1>6, LexerKeepsStacksInv, PushKeepsStacksInv,
     PopKeepsStacksInv, OutputKeepsStacksInv DEF Next

\* A rule whose tokens fit has room for all its handles, and none is refused,
\* whatever the sizes and however often the interpreter ran before
\* (exec_ctx_push_handle).
THEOREM HandlesAlwaysFit == Spec => []HandlesFit
<1>1. Init => StacksInv
  BY SizesAssumption DEF Init, NoCode, StacksInv, Measured, Buffer
<1>2. StacksInv => HandlesFit
  BY DEF StacksInv, HandlesFit
<1> QED BY <1>1, <1>2, StepKeepsStacksInv, PTL DEF Spec

-----------------------------------------------------------------------------
PointersInv == /\ DOMAIN buf = Buffer
               /\ pc \in {"lexer", "preprocess", "execute"} => at = Here(buf)
               /\ pc \in {"idle", "crashed", "lexer", "preprocess", "execute"}

LEMMA StepKeepsPointersInv == PointersInv /\ [Next]_vars => PointersInv'
<1> SUFFICES ASSUME PointersInv, [Next]_vars PROVE PointersInv'
  OBVIOUS
<1> USE DEF PointersInv
<1>1. ASSUME NEW c, InterpLoadCode(c) PROVE PointersInv'
  <2>1. DOMAIN buf' = Buffer
    BY <1>1 DEF InterpLoadCode, Expanded
  <2> QED BY <1>1, <2>1 DEF InterpLoadCode, Here
<1>2. ASSUME NEW b \in Buffer, buf' = buf \/ buf' = Expanded(b), at = Here(buf)
      PROVE  DOMAIN buf' = Buffer /\ [at EXCEPT ![b] = buf'[b].moved] = Here(buf')
  <2>1. CASE buf' = buf
    BY <2>1, <1>2 DEF Here
  <2>2. CASE buf' = Expanded(b)
    BY <2>2, <1>2 DEF Here, Expanded
  <2> QED BY <1>2, <2>1, <2>2
<1>3. CASE \E c \in Codes : InterpContextCreate(c) \/ InterpContextCreateFailed(c)
  BY <1>1, <1>3 DEF InterpContextCreate, InterpContextCreateFailed
<1>4. CASE PreprocessContent
  BY <1>1, <1>4 DEF PreprocessContent
<1>5. CASE Lexer
  BY <1>2, <1>5 DEF Lexer, WorkExpanded, Buffer
<1>6. CASE Parse \/ Finish \/ PushHandle \/ PopHandle
  BY <1>6 DEF Parse, Finish, PushHandle, PopHandle, Here
<1>7. CASE \E l \in Details : ExecOutputCb(l)
  BY <1>2, <1>7 DEF ExecOutputCb, Buffer, Here
<1>8. CASE UNCHANGED vars
  BY <1>8 DEF vars, Here
<1> QED BY <1>3, <1>4, <1>5, <1>6, <1>7, <1>8 DEF Next

\* However the buffers grow and move, the context points into the blocks there
\* are (interp_expands_codebuf and the other three, interp_context_init).
THEOREM PointersAreAlwaysCurrent == Spec => []PointersAreCurrent
<1>1. Init => PointersInv
  BY DEF Init, PointersInv
<1>2. PointersInv => PointersAreCurrent
  BY DEF PointersInv, PointersAreCurrent
<1> QED BY <1>1, <1>2, StepKeepsPointersInv, PTL DEF Spec
-----------------------------------------------------------------------------
\* The sizes on record: what b has after it moved none, one or two times.
Grown(b) ==
  \/ buf[b].moved = 0 /\ buf[b].size = Default[b]
  \/ buf[b].moved = 1 /\ buf[b].size = 2 * Default[b]
  \/ buf[b].moved = 2 /\ buf[b].size = 4 * Default[b]

\* The work memory is one growth behind the code buffer at most, and only
\* until the lexer runs.
GrowthInv ==
  /\ DOMAIN buf = Buffer /\ Grown("code") /\ Grown("work")
  /\ buf["code"].moved <= buf["work"].moved + (IF pc \in {"lexer", "crashed"} THEN 1 ELSE 0)
  /\ CrashNeedsHugeCode

\* Growing a buffer below its limit takes it to its next size.
LEMMA ExpandedIsGrown ==
  ASSUME DOMAIN buf = Buffer, NEW b \in {"code", "work"}, Grown(b), CanExpand(b),
         buf' = Expanded(b)
  PROVE  Grown(b)' /\ buf'[b].moved = buf[b].moved + 1
<1>1. Default[b] \in Nat /\ Default[b] > 0 /\ b \in Buffer
  BY SizesAssumption DEF Buffer
<1>2. buf'[b] = [size |-> IF 2 * buf[b].size < SizeMax(b) THEN 2 * buf[b].size
                          ELSE SizeMax(b),
                 room |-> buf[b].size, moved |-> buf[b].moved + 1]
  BY <1>1 DEF Expanded
<1>3. buf[b].moved \in {0, 1}
  BY <1>1 DEF Grown, CanExpand, SizeMax
<1> QED
  BY <1>1, <1>2, <1>3 DEF Grown, SizeMax

\* Loading a code may take the code buffer one growth further.
LEMMA LoadKeepsGrowthInv ==
  ASSUME GrowthInv, pc \in {"idle", "preprocess"}, NEW c, InterpLoadCode(c)
  PROVE  GrowthInv'
<1>1. pc' = "lexer" /\ buf["code"].moved <= buf["work"].moved
  BY DEF InterpLoadCode, GrowthInv, Grown
<1>2. CASE buf' = buf
  BY <1>1, <1>2 DEF GrowthInv, Grown, CrashNeedsHugeCode
<1>3. CASE buf' = Expanded("code") /\ CanExpand("code")
  <2>1. Grown("code")' /\ buf'["code"].moved = buf["code"].moved + 1
    BY <1>3, ExpandedIsGrown DEF GrowthInv
  <2>2. DOMAIN buf' = Buffer /\ buf'["work"] = buf["work"]
    BY <1>3 DEF GrowthInv, Expanded, Buffer
  <2>3. buf["code"].moved \in Nat /\ buf["work"].moved \in Nat
    BY DEF GrowthInv, Grown
  <2> QED
    BY <1>1, <2>1, <2>2, <2>3 DEF GrowthInv, Grown, CrashNeedsHugeCode
<1> QED BY <1>2, <1>3 DEF InterpLoadCode

\* The lexer catches up.
LEMMA LexerKeepsGrowthInv ==
  ASSUME GrowthInv, Lexer
  PROVE  GrowthInv'
<1>0. pc = "lexer" /\ pc' = "preprocess"
  BY DEF Lexer
<1>1. /\ buf["code"].moved \in 0..2 /\ buf["work"].moved \in 0..2
      /\ Default["code"] = Default["work"] /\ Default["code"] \in Nat \ {0}
      /\ buf["code"].moved <= buf["work"].moved + 1
  BY <1>0, SizesAssumption DEF GrowthInv, Grown, Buffer
<1>2. CASE buf["code"].size > buf["work"].size
  <2>1. buf' = Expanded("work") /\ CanExpand("work")
    BY <1>2 DEF Lexer, WorkExpanded
  <2>2. Grown("work")' /\ buf'["work"].moved = buf["work"].moved + 1
    BY <2>1, ExpandedIsGrown DEF GrowthInv
  <2>3. DOMAIN buf' = Buffer /\ buf'["code"] = buf["code"]
    BY <2>1 DEF GrowthInv, Expanded, Buffer
  <2> QED
    BY <1>0, <1>1, <2>2, <2>3 DEF GrowthInv, Grown, CrashNeedsHugeCode
<1>3. CASE ~(buf["code"].size > buf["work"].size)
  <2>1. buf' = buf
    BY <1>3 DEF Lexer, WorkExpanded
  <2>2. buf["code"].moved <= buf["work"].moved
    BY <1>1, <1>3 DEF GrowthInv, Grown
  <2> QED
    BY <1>0, <2>1, <2>2 DEF GrowthInv, Grown, CrashNeedsHugeCode
<1> QED BY <1>2, <1>3

\* Freeing a part of struct interp takes a code of the largest size.
LEMMA FailedCreateKeepsGrowthInv ==
  ASSUME GrowthInv, NEW c \in Codes, InterpContextCreateFailed(c)
  PROVE  GrowthInv'
<1>1. /\ c.len \in Nat /\ Default["code"] \in Nat \ {0}
  BY CodesAssumption, SizesAssumption DEF Code, Buffer
<1>2. buf["code"].size = 4 * Default["code"] /\ buf["code"].moved = 2
  BY <1>1 DEF InterpContextCreateFailed, CanExpand, SizeMax, GrowthInv, Grown
<1>3. buf["code"].size <= c.len /\ code' = c /\ buf' = buf /\ pc' = "crashed" /\ pc = "idle"
  BY DEF InterpContextCreateFailed
<1>4. c.len >= SizeMax("code")
  BY <1>1, <1>2, <1>3 DEF SizeMax
<1>5. CrashNeedsHugeCode'
  BY <1>2, <1>3, <1>4 DEF CrashNeedsHugeCode, SizeMax
<1> QED BY <1>2, <1>3, <1>5 DEF GrowthInv, Grown

LEMMA StepKeepsGrowthInv == GrowthInv /\ [Next]_vars => GrowthInv'
<1> SUFFICES ASSUME GrowthInv, [Next]_vars PROVE GrowthInv'
  OBVIOUS
<1>1. CASE \E c \in Codes : InterpContextCreate(c)
  BY <1>1, LoadKeepsGrowthInv DEF InterpContextCreate
<1>2. CASE \E c \in Codes : InterpContextCreateFailed(c)
  BY <1>2, FailedCreateKeepsGrowthInv
<1>3. CASE PreprocessContent
  BY <1>3, LoadKeepsGrowthInv DEF PreprocessContent
<1>4. CASE Parse \/ Finish \/ PushHandle \/ PopHandle
  BY <1>4 DEF Parse, Finish, PushHandle, PopHandle, GrowthInv, Grown, CrashNeedsHugeCode
<1>5. CASE \E l \in Details : ExecOutputCb(l)
  <2>1. DOMAIN buf' = Buffer /\ buf'["code"] = buf["code"] /\ buf'["work"] = buf["work"]
    BY <1>5 DEF ExecOutputCb, GrowthInv, Expanded, Buffer
  <2>2. pc = "execute" /\ pc' = pc
    BY <1>5 DEF ExecOutputCb
  <2> QED BY <2>1, <2>2 DEF GrowthInv, Grown, CrashNeedsHugeCode
<1>6. CASE UNCHANGED vars
  BY <1>6 DEF vars, GrowthInv, Grown, CrashNeedsHugeCode, SizeMax
<1> QED
  BY <1>1, <1>2, <1>3, <1>4, <1>5, <1>6, LexerKeepsGrowthInv DEF Next

\* What the sizes of the two buffers have in common, in every state.
LEMMA GrowthIsInStep == Spec => []GrowthInv
<1>1. Init => GrowthInv
  BY DEF Init, GrowthInv, Grown, CrashNeedsHugeCode, Buffer
<1> QED BY <1>1, StepKeepsGrowthInv, PTL DEF Spec

\* However often and with whatever codes the interpreter is used, the lexer is
\* never refused the work memory (interp_lexer_analysis).
THEOREM WorkAlwaysFollowsCode == Spec => []WorkFollowsCode
<1>1. GrowthInv => WorkFollowsCode
  <2> SUFFICES ASSUME GrowthInv PROVE WorkFollowsCode
    OBVIOUS
  <2>1. /\ Default["code"] = Default["work"] /\ Default["code"] \in Nat \ {0}
    BY SizesAssumption DEF Buffer
  <2> QED
    BY <2>1 DEF GrowthInv, Grown, WorkFollowsCode, CanExpand, SizeMax
<1> QED BY <1>1, GrowthIsInStep, PTL

\* A part of struct interp is freed only for a code of the largest size, and
\* only after the code buffer has grown twice (interp_context_create).
THEOREM CrashAlwaysNeedsHugeCode == Spec => []CrashNeedsHugeCode
<1>1. GrowthInv => CrashNeedsHugeCode
  BY DEF GrowthInv
<1> QED BY <1>1, GrowthIsInStep, PTL

-----------------------------------------------------------------------------
\* A buffer is as it was allocated, or its record says more than it has.
Sizes ==
  /\ DOMAIN buf = Buffer
  /\ \A b \in Buffer :
       /\ buf[b].size \in Nat /\ buf[b].room \in Nat
       /\ \/ buf[b].size = Default[b] /\ buf[b].room = Default[b]
          \/ buf[b].size > buf[b].room

\* What the lexer and the output rely on while no buffer has grown: a code that
\* ends inside its buffer, and a capacity that is that of the output.
BoundsInv ==
  /\ Sizes
  /\ pc \in {"idle", "crashed", "lexer", "preprocess", "execute"}
  /\ SizesAreTrue /\ pc = "lexer" => ends /\ code \in Codes /\ code.len < Default["code"]
  /\ SizesAreTrue /\ pc \in {"lexer", "preprocess", "execute"} =>
       cap = Default["out"] /\ detailen \in Nat
  /\ InBoundsUntilGrown

LEMMA TrueSizesAreDefaults ==
  ASSUME Sizes, SizesAreTrue
  PROVE  \A b \in Buffer : buf[b].size = Default[b] /\ buf[b].room = Default[b]
<1> SUFFICES ASSUME NEW b \in Buffer
             PROVE  buf[b].size = Default[b] /\ buf[b].room = Default[b]
  OBVIOUS
<1>1. buf[b].size \in Nat /\ buf[b].size = buf[b].room
  BY DEF Sizes, SizesAreTrue
<1> QED BY <1>1 DEF Sizes

\* A buffer that grows has fewer bytes than its record says, from then on.
LEMMA GrowingEndsTrueSizes ==
  ASSUME Sizes, NEW b \in Buffer, CanExpand(b), buf' = Expanded(b)
  PROVE  Sizes' /\ ~SizesAreTrue'
<1>1. Default[b] \in Nat /\ Default[b] > 0 /\ buf[b].size \in Nat
  BY SizesAssumption DEF Sizes
<1>2. /\ DOMAIN buf' = Buffer
      /\ buf'[b].size = IF 2 * buf[b].size < SizeMax(b) THEN 2 * buf[b].size ELSE SizeMax(b)
      /\ buf'[b].room = buf[b].size
      /\ \A o \in Buffer \ {b} : buf'[o] = buf[o]
  BY DEF Sizes, Expanded
<1>3. buf[b].size > 0
  BY <1>1 DEF Sizes
<1>4. buf'[b].size \in Nat /\ buf'[b].room \in Nat /\ buf'[b].size > buf'[b].room
  BY <1>1, <1>2, <1>3 DEF CanExpand, SizeMax
<1>5. buf'[b].size # buf'[b].room
  BY <1>4
<1>6. Sizes'
  BY <1>2, <1>4 DEF Sizes
<1> QED BY <1>5, <1>6 DEF SizesAreTrue

\* interp_load_code: a code that needs no growth is in its buffer, and ended.
LEMMA LoadKeepsBoundsInv ==
  ASSUME BoundsInv, NEW c \in Codes, InterpContextInit, InterpLoadCode(c)
  PROVE  BoundsInv'
<1>1. pc' = "lexer" /\ code' = c
  BY DEF InterpLoadCode
<1>2. CASE buf' = Expanded("code") /\ CanExpand("code")
  <2>1. Sizes' /\ ~SizesAreTrue'
    BY <1>2, GrowingEndsTrueSizes DEF BoundsInv, Buffer
  <2> QED BY <1>1, <2>1 DEF BoundsInv, InBoundsUntilGrown
<1>3. CASE buf' = buf /\ ~(buf["code"].size <= c.len)
  <2>1. Sizes' /\ (SizesAreTrue' => SizesAreTrue)
    BY <1>3 DEF BoundsInv, Sizes, SizesAreTrue
  <2>2. ASSUME SizesAreTrue
        PROVE  over' = {} /\ ends' /\ c.len < Default["code"] /\ cap' = Default["out"]
               /\ detailen' = 0
    <3>1. \A b \in Buffer : buf[b].size = Default[b] /\ buf[b].room = Default[b]
      BY <2>2, TrueSizesAreDefaults DEF BoundsInv
    <3>2. c.len \in Nat /\ \A b \in Buffer : Default[b] \in Nat
      BY CodesAssumption, SizesAssumption DEF Code
    <3>3. c.len < Default["code"]
      BY <1>3, <3>1, <3>2 DEF Buffer
    <3>4. Cleared = {}
      BY <3>1, <3>2 DEF Cleared
    <3> QED
      BY <1>3, <3>1, <3>3, <3>4 DEF InterpLoadCode, InterpContextInit, Buffer
  <2> QED BY <1>1, <2>1, <2>2 DEF BoundsInv, InBoundsUntilGrown
<1> QED BY <1>2, <1>3 DEF InterpLoadCode

\* interp_lexer_analysis: a work memory as long as the code buffer is too short
\* for nothing but the zeros of more words than there are other characters.
LEMMA LexerKeepsBoundsInv ==
  ASSUME BoundsInv, Lexer
  PROVE  BoundsInv'
<1>1. pc = "lexer" /\ pc' = "preprocess" /\ UNCHANGED <<cap, detailen>>
  BY DEF Lexer
<1>2. CASE buf' = Expanded("work") /\ CanExpand("work")
  <2>1. Sizes' /\ ~SizesAreTrue'
    BY <1>2, GrowingEndsTrueSizes DEF BoundsInv, Buffer
  <2> QED BY <1>1, <2>1 DEF BoundsInv, InBoundsUntilGrown
<1>3. CASE buf' = buf
  <2>1. Sizes' /\ (SizesAreTrue' => SizesAreTrue)
    BY <1>3 DEF BoundsInv, Sizes, SizesAreTrue
  <2>2. ASSUME SizesAreTrue
        PROVE  /\ cap' = Default["out"] /\ detailen' \in Nat
               /\ over' \subseteq {"tokens", "handles", "work"}
               /\ "work" \in over' => code'.len - code'.chars < code'.words
    <3>1. \A b \in Buffer : buf[b].size = Default[b] /\ buf[b].room = Default[b]
      BY <2>2, TrueSizesAreDefaults DEF BoundsInv
    <3>2. /\ ends /\ code \in Codes /\ code.len < Default["code"]
          /\ cap = Default["out"] /\ detailen \in Nat
          /\ over \subseteq {"tokens", "handles", "work"}
          /\ "work" \in over => code.len - code.chars < code.words
      BY <1>1, <2>2 DEF BoundsInv, InBoundsUntilGrown
    <3>3. /\ code' = code
          /\ over' = over \cup (IF WorkNeed(code) > buf'["work"].room THEN {"work"} ELSE {})
                         \cup (IF (code.tokens + 1) * TokenSize > buf'["stacks"].room
                               THEN {"tokens"} ELSE {})
      BY <3>2 DEF Lexer
    <3>4. /\ code.len \in Nat /\ code.words \in Nat /\ code.chars \in Nat
          /\ Default["work"] = Default["code"] /\ Default["code"] \in Nat
      BY <3>2, CodesAssumption, SizesAssumption DEF Code, Buffer
    <3>5. WorkNeed(code) > Default["work"] => code.len - code.chars < code.words
      BY <3>2, <3>4 DEF WorkNeed
    <3>6. buf'["work"].room = Default["work"]
      BY <1>3, <3>1 DEF Buffer
    <3> QED BY <1>1, <3>2, <3>3, <3>5, <3>6
  <2> QED BY <1>1, <2>1, <2>2 DEF BoundsInv, InBoundsUntilGrown
<1> QED BY <1>2, <1>3 DEF Lexer, WorkExpanded

\* exec_output_cb: what it puts out leaves room for the last zero.
LEMMA OutputKeepsBoundsInv ==
  ASSUME BoundsInv, NEW l \in Details, ExecOutputCb(l)
  PROVE  BoundsInv'
<1>1. pc = "execute" /\ pc' = pc /\ code' = code
  BY DEF ExecOutputCb
<1>2. CASE OutFull /\ ~CanExpand("out")
  BY <1>1, <1>2 DEF ExecOutputCb, BoundsInv, Sizes, SizesAreTrue, InBoundsUntilGrown
<1>3. CASE OutFull /\ CanExpand("out")
  <2>1. Sizes' /\ ~SizesAreTrue'
    BY <1>3, GrowingEndsTrueSizes DEF BoundsInv, Buffer, ExecOutputCb
  <2> QED BY <1>1, <2>1 DEF BoundsInv, InBoundsUntilGrown
<1>4. CASE ~OutFull
  <2>1. /\ buf' = buf /\ cap' = cap
        /\ detailen' = detailen + (IF l + 1 >= OutUnit THEN OutUnit ELSE l + 1)
        /\ over' = over \cup (IF detailen' + 1 > buf'["out"].room THEN {"out"} ELSE {})
    BY <1>4 DEF ExecOutputCb
  <2>2. Sizes' /\ (SizesAreTrue' => SizesAreTrue)
    BY <2>1 DEF BoundsInv, Sizes, SizesAreTrue
  <2>3. ASSUME SizesAreTrue
        PROVE  cap' = Default["out"] /\ detailen' \in Nat /\ over' = over
    <3>1. /\ cap = Default["out"] /\ detailen \in Nat /\ buf'["out"].room = Default["out"]
      BY <1>1, <2>1, <2>3, TrueSizesAreDefaults DEF BoundsInv, Buffer
    <3>2. l \in Nat /\ OutUnit \in Nat /\ Default["out"] \in Nat
      BY DetailsAssumption, SizesAssumption DEF Buffer
    <3>3. detailen' \in Nat /\ detailen' <= detailen + OutUnit
      BY <2>1, <3>1, <3>2
    <3>4. detailen + OutUnit < cap
      BY <1>4, <3>1, <3>2 DEF OutFull
    <3>5. ~(detailen' + 1 > buf'["out"].room)
      BY <3>1, <3>2, <3>3, <3>4
    <3> QED BY <2>1, <3>1, <3>3, <3>5
  <2> QED BY <1>1, <2>2, <2>3 DEF BoundsInv, InBoundsUntilGrown
<1> QED BY <1>2, <1>3, <1>4

LEMMA StepKeepsBoundsInv == BoundsInv /\ [Next]_vars => BoundsInv'
<1> SUFFICES ASSUME BoundsInv, [Next]_vars PROVE BoundsInv'
  OBVIOUS
<1> USE DEF stage
<1>1. CASE \E c \in Codes : InterpContextCreate(c)
  BY <1>1, LoadKeepsBoundsInv DEF InterpContextCreate
<1>2. ASSUME NEW c \in Codes, InterpContextCreateFailed(c) PROVE BoundsInv'
  <2>1. ~SizesAreTrue
    <3> SUFFICES ASSUME SizesAreTrue PROVE FALSE
      OBVIOUS
    <3>1. buf["code"].size = Default["code"] /\ Default["code"] \in Nat \ {0}
      BY TrueSizesAreDefaults, SizesAssumption DEF BoundsInv, Buffer
    <3> QED BY <1>2, <3>1 DEF InterpContextCreateFailed, CanExpand, SizeMax
  <2>2. Sizes' /\ ~SizesAreTrue' /\ pc' = "crashed"
    BY <1>2, <2>1 DEF InterpContextCreateFailed, BoundsInv, Sizes, SizesAreTrue
  <2> QED BY <2>2 DEF BoundsInv, InBoundsUntilGrown
<1>3. CASE PreprocessContent
  BY <1>3, LoadKeepsBoundsInv DEF PreprocessContent, Expansions
<1>4. CASE Parse \/ Finish \/ PushHandle \/ PopHandle
  <2>1. /\ UNCHANGED <<buf, code, detailen, cap>>
        /\ over' \subseteq over \cup {"handles"}
        /\ pc \in {"preprocess", "execute"} /\ pc' \in {"idle", "execute"}
    BY <1>4 DEF Parse, Finish, PushHandle, PopHandle
  <2>2. Sizes' /\ (SizesAreTrue' => SizesAreTrue)
    BY <2>1 DEF BoundsInv, Sizes, SizesAreTrue
  <2> QED BY <2>1, <2>2 DEF BoundsInv, InBoundsUntilGrown
<1>5. CASE UNCHANGED vars
  BY <1>5 DEF vars, BoundsInv, Sizes, SizesAreTrue, InBoundsUntilGrown
<1> QED
  BY <1>1, <1>2, <1>3, <1>4, <1>5, LexerKeepsBoundsInv, OutputKeepsBoundsInv DEF Next

\* While no buffer has grown, the clearing, the loading and the output stay in
\* theirs for every code, and the words do unless a code has more words than
\* other characters (interp_load_code, interp_lexer_analysis, exec_output_cb).
THEOREM AlwaysInBoundsUntilGrown == Spec => []InBoundsUntilGrown
<1>1. Init => BoundsInv
  <2> SUFFICES ASSUME Init PROVE BoundsInv
    OBVIOUS
  <2>1. Sizes
    BY SizesAssumption DEF Init, Sizes
  <2> QED BY <2>1 DEF Init, BoundsInv, InBoundsUntilGrown
<1>2. BoundsInv => InBoundsUntilGrown
  BY DEF BoundsInv
<1> QED BY <1>1, <1>2, StepKeepsBoundsInv, PTL DEF Spec
=============================================================================

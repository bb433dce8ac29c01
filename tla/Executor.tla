------------------------------ MODULE Executor ------------------------------
(***************************************************************************)
(* The rule executor (execute.c): a recursive walk over a syntax tree that *)
(* calls the handlers of the modules.  The recursion is made explicit: the *)
(* variable "frames" is the C call stack, with one kind of frame for each  *)
(* execute_syntax_xxx function, and "ret" is the value the function that   *)
(* returned last left for its caller.                                      *)
(*                                                                         *)
(* What a handler answers is the environment's choice, made when it is     *)
(* first called and kept in "answer" (a node is executed at most once).    *)
(***************************************************************************)
EXTENDS RuleTree, FiniteSets

CONSTANTS
  StackDepth,  \* ctx->stackdepth
  StackGap     \* EXEC_STACK_GAP

\* No push is refused: HandlesFit, in Buffers, is why.
Handles(t) == {n \in DOMAIN t : t[n].type \in {"func", "call"}}
ASSUME StackAssumption ==
  /\ StackDepth \in Nat /\ StackGap \in Nat
  /\ \A t \in Programs : Cardinality(Handles(t)) + StackGap <= StackDepth

VARIABLES
  prog,     \* the tree being executed
  answer,   \* what each node's callbacks answered so far
  frames,   \* the C stack
  ret,      \* the value returned last, NoRet once it has been used
  val,      \* the *arg that a value function filled in
  stack,    \* ctx->stack: the object (its node) in each entry
  sp,       \* ctx->stackidx
  objects,  \* objects constructed and not destructed
  strings,  \* heap strings not released
  called,   \* the last callback: the node, and the object handed to it
  failed    \* some callback or operator has failed

vars == <<prog, answer, frames, ret, val, stack, sp, objects, strings, called, failed>>

Node(n)  == prog[n]
Top      == frames[Len(frames)]
NoObject == 0
NoCall   == [node |-> 0, object |-> NoObject]

\* Frames.
ChildsFrame(list) == [fn |-> "childs", list |-> list, i |-> 1, res |-> Uninit, opt |-> "none"]
ValFrame(list, h) == [fn |-> "val", list |-> list, i |-> 1, arg |-> Unknown,
                      opt |-> "none", handle |-> h]
ExprFrame(n, h)   == [fn |-> "expr", node |-> n, handle |-> h]
BlockFrame(n)     == [fn |-> "block", node |-> n]
FuncFrame(n)      == [fn |-> "func", node |-> n, a |-> 1, at |-> "args"]
CallFrame(n)      == [fn |-> "call", node |-> n, a |-> 1, at |-> "args"]

Caller        == SubSeq(frames, 1, Len(frames) - 1)
Enter(f)      == frames' = Append(frames, f) /\ ret' = NoRet
EnterAs(t, f) == frames' = Append(Append(Caller, t), f) /\ ret' = NoRet
Continue(t)   == frames' = Append(Caller, t) /\ ret' = NoRet
Return(r)     == frames' = Caller /\ ret' = r

Running(fn)  == frames # <<>> /\ Top.fn = fn /\ ret = NoRet
Returned(fn) == frames # <<>> /\ Top.fn = fn /\ ret # NoRet

\* exec_ctx_get_handle; below the first entry there is no object.
GetHandle == IF sp >= 1 THEN stack[sp] ELSE NoObject

\* exec_ctx_push_handle: its error is ignored by both callers.
PushHandle(n) ==
  IF sp + StackGap >= StackDepth
  THEN UNCHANGED <<stack, sp>>
  ELSE stack' = [stack EXCEPT ![sp + 1] = n] /\ sp' = sp + 1

\* The callback of node n runs with object o and answers a.
Callback(n, o, a) ==
  /\ a \in Answers(Node(n).type)
  /\ answer' = [answer EXCEPT ![n] = a]
  /\ called' = [node |-> n, object |-> o]

\* lre_value_release
Released(v) == IF v.heap THEN strings - 1 ELSE strings

-----------------------------------------------------------------------------
\* execute_syntax_childs: start the next child.
ChildsEnterFunc ==
  /\ Running("childs") /\ Top.i <= Len(Top.list)
  /\ LET n == Top.list[Top.i] IN
     /\ Node(n).type = "func"
     /\ \E a \in Answers("func") :
          /\ Callback(n, n, a)
          /\ IF a = "null"
             THEN /\ ret' = Dead /\ failed' = TRUE
                  /\ UNCHANGED <<frames, stack, sp, objects>>
             ELSE /\ objects' = objects \cup {n}
                  /\ PushHandle(n)
                  /\ Enter(FuncFrame(n))
                  /\ UNCHANGED failed
  /\ UNCHANGED <<prog, val, strings>>

ChildsEnterExpr ==
  /\ Running("childs") /\ Top.i <= Len(Top.list)
  /\ LET n == Top.list[Top.i] IN
     /\ Node(n).type = "expr"
     /\ frames' = frames \o <<ExprFrame(n, GetHandle), ValFrame(Node(n).kids, GetHandle)>>
     /\ ret' = NoRet
  /\ UNCHANGED <<prog, answer, val, stack, sp, objects, strings, called, failed>>

ChildsEnterBlock ==
  /\ Running("childs") /\ Top.i <= Len(Top.list)
  /\ LET n == Top.list[Top.i] IN
     /\ Node(n).type = "block"
     /\ frames' = frames \o <<BlockFrame(n), ChildsFrame(Node(n).kids)>>
     /\ ret' = NoRet
  /\ UNCHANGED <<prog, answer, val, stack, sp, objects, strings, called, failed>>

\* The list is at its end (at once, when it is empty).
ChildsEnd ==
  /\ Running("childs") /\ Top.i > Len(Top.list)
  /\ Return(Top.res)
  /\ UNCHANGED <<prog, answer, val, stack, sp, objects, strings, called, failed>>

\* The child has a result: combine it with the result so far, and go on, unless
\* the operator after the child makes the rest irrelevant.
Combine(res, opt, r) ==
  CASE res = Uninit -> r
    [] res # Uninit /\ opt = "and" -> IF res = True /\ r = True THEN True ELSE False
    [] res # Uninit /\ opt = "or"  -> IF res = True \/ r = True THEN True ELSE False
    [] OTHER -> Dead

\* A fault: only && is cut short.
DecidedByAndOnly(opt, res) == opt = "and" /\ res = False

Decided(opt, res) == (opt = "and" /\ res = False) \/ (opt = "or" /\ res = True)

\* A fault: the child's result is combined before it is checked.
ChildsReturnedUnchecked ==
  /\ Returned("childs")
  /\ LET next == Node(Top.list[Top.i]).opt
         res  == Combine(Top.res, Top.opt, ret)
     IN  /\ IF res = Dead \/ Decided(next, res)
            THEN Return(res)
            ELSE Continue([Top EXCEPT !.i = @ + 1, !.res = res, !.opt = next])
         /\ failed' = (failed \/ res = Dead)
  /\ UNCHANGED <<prog, answer, val, stack, sp, objects, strings, called>>

ChildsReturned ==
  /\ Returned("childs")
  /\ LET next == Node(Top.list[Top.i]).opt
         res  == IF Valid(ret) THEN Combine(Top.res, Top.opt, ret) ELSE Dead
     IN  /\ IF res = Dead \/ Decided(next, res)
            THEN Return(res)
            ELSE Continue([Top EXCEPT !.i = @ + 1, !.res = res, !.opt = next])
         /\ failed' = (failed \/ res = Dead)
  /\ UNCHANGED <<prog, answer, val, stack, sp, objects, strings, called>>

\* execute_syntax_block
BlockReturned ==
  /\ Returned("block")
  /\ Return(IF Node(Top.node).neg THEN (IF ret = 0 THEN True ELSE False) ELSE ret)
  /\ UNCHANGED <<prog, answer, val, stack, sp, objects, strings, called, failed>>

\* A fault: the value of an expression is never released.
ExprReturnedUnreleased ==
  /\ Returned("expr")
  /\ IF ret # Ok
     THEN /\ Return(Dead)
          /\ UNCHANGED <<answer, called, failed>>
     ELSE \E a \in Answers("expr") :
            /\ Callback(Top.node, Top.handle, a)
            /\ Return(VerdictOf(a))
            /\ failed' = (failed \/ a = "fail")
  /\ UNCHANGED <<prog, val, stack, sp, objects, strings>>

\* execute_syntax_expr, after its value: the handler gets the object that was
\* current when the function started, and the value is released only when the
\* handler's answer is valid.
ExprReturned ==
  /\ Returned("expr")
  /\ IF ret # Ok
     THEN /\ Return(Dead)
          /\ UNCHANGED <<answer, strings, called, failed>>
     ELSE \E a \in Answers("expr") :
            /\ Callback(Top.node, Top.handle, a)
            /\ Return(VerdictOf(a))
            /\ strings' = IF a = "fail" THEN strings ELSE Released(val)
            /\ failed' = (failed \/ a = "fail")
  /\ UNCHANGED <<prog, val, stack, sp, objects>>

-----------------------------------------------------------------------------
\* execute_syntax_func and execute_syntax_call share their argument loop.
Args == Node(Top.node).args

ArgEnter(fn) ==
  /\ Running(fn) /\ Top.at = "args" /\ Top.a <= Len(Args)
  /\ EnterAs([Top EXCEPT !.at = "value"], ValFrame(Node(Args[Top.a]).kids, GetHandle))
  /\ UNCHANGED <<prog, answer, val, stack, sp, objects, strings, called, failed>>

\* A fault: the handle stays on the stack.
LeaveUnpopped(r) ==
  /\ objects' = objects \ {Top.node}
  /\ sp' = sp
  /\ Return(r)

\* The label out of both functions: destroy the object, pop its handle.
Leave(r) ==
  /\ objects' = objects \ {Top.node}
  /\ sp' = sp - 1
  /\ Return(r)

\* A fault: the loop does not advance.
ArgReturnedAgain(fn, error) ==
  /\ Returned(fn) /\ Top.at = "value" /\ ret = Ok
  /\ \E a \in Answers("arg") :
       /\ Callback(Args[Top.a], Top.node, a)
       /\ IF a = "fail"
          THEN /\ Leave(error)
               /\ failed' = TRUE
               /\ UNCHANGED strings
          ELSE /\ Continue([Top EXCEPT !.at = "args"])
               /\ strings' = Released(val)
               /\ UNCHANGED <<sp, objects, failed>>
  /\ UNCHANGED <<prog, val, stack>>

\* The argument has its value and its handler runs.  On failure the function
\* leaves with the error, and the value is not released.
ArgReturned(fn, error) ==
  /\ Returned(fn) /\ Top.at = "value" /\ ret = Ok
  /\ \E a \in Answers("arg") :
       /\ Callback(Args[Top.a], Top.node, a)
       /\ IF a = "fail"
          THEN /\ Leave(error)
               /\ failed' = TRUE
               /\ UNCHANGED strings
          ELSE /\ Continue([Top EXCEPT !.a = @ + 1, !.at = "args"])
               /\ strings' = Released(val)
               /\ UNCHANGED <<sp, objects, failed>>
  /\ UNCHANGED <<prog, val, stack>>

\* Faults: the function goes on with its next argument; or it returns with its
\* object destroyed and its handle on the stack.
FuncArgSkipped ==
  /\ Returned("func") /\ Top.at = "value" /\ ret # Ok
  /\ Continue([Top EXCEPT !.a = @ + 1, !.at = "args"])
  /\ UNCHANGED <<prog, answer, val, stack, sp, objects, strings, called, failed>>

FuncArgFailedUnpopped ==
  /\ Returned("func") /\ Top.at = "value" /\ ret # Ok
  /\ objects' = objects \ {Top.node}
  /\ Return(Dead)
  /\ UNCHANGED <<prog, answer, val, stack, sp, strings, called, failed>>

\* The argument has no value: a function leaves in the same way ...
FuncArgFailed ==
  /\ Returned("func") /\ Top.at = "value" /\ ret # Ok
  /\ Leave(Dead)
  /\ UNCHANGED <<prog, answer, val, stack, strings, called, failed>>

\* ... but a call returns at once and leaves its object and its handle behind.
CallArgFailed ==
  /\ Returned("call") /\ Top.at = "value" /\ ret # Ok
  /\ Return(ret)
  /\ UNCHANGED <<prog, answer, val, stack, sp, objects, strings, called, failed>>

\* After its arguments a function runs its exec and then its body.
FuncExec ==
  /\ Running("func") /\ Top.at = "args" /\ Top.a > Len(Args)
  /\ called' = [node |-> Top.node, object |-> Top.node]
  /\ IF answer[Top.node] = "fail"
     THEN Leave(Dead) /\ failed' = TRUE
     ELSE /\ EnterAs([Top EXCEPT !.at = "body"], ChildsFrame(Node(Top.node).kids))
          /\ UNCHANGED <<sp, objects, failed>>
  /\ UNCHANGED <<prog, answer, val, stack, strings>>

FuncBodyReturned ==
  /\ Returned("func") /\ Top.at = "body"
  /\ Leave(ret)
  /\ UNCHANGED <<prog, answer, val, stack, strings, called, failed>>

\* After its arguments a call runs its exec, which fills in the value.
CallExec ==
  /\ Running("call") /\ Top.at = "args" /\ Top.a > Len(Args)
  /\ called' = [node |-> Top.node, object |-> Top.node]
  /\ IF answer[Top.node] = "fail"
     THEN Leave(Einval) /\ failed' = TRUE /\ UNCHANGED <<val, strings>>
     ELSE /\ Leave(Ok)
          /\ val' = ValueOf(answer[Top.node])
          /\ strings' = IF val'.heap THEN strings + 1 ELSE strings
          /\ UNCHANGED failed
  /\ UNCHANGED <<prog, answer, stack>>

-----------------------------------------------------------------------------
\* execute_syntax_val: what follows once an operand v is known.  The first
\* string is the result; integers are folded from left to right.
Fold(v) ==
  LET opt == Node(Top.list[Top.i]).opt
      bad == v = Unknown \/ (v = IntVal /\ Top.arg # Unknown /\ Top.opt # "arith")
  IN  /\ CASE bad -> Return(Einval) /\ val' = Top.arg
          [] ~bad /\ v.type = "string" -> Return(Ok) /\ val' = v
          [] OTHER -> /\ Continue([Top EXCEPT !.i = @ + 1, !.arg = IntVal, !.opt = opt])
                      /\ UNCHANGED val
      /\ failed' = (failed \/ bad)

ValLiteral ==
  /\ Running("val") /\ Top.i <= Len(Top.list)
  /\ LET n == Top.list[Top.i] IN
     /\ Node(n).type = "val"
     /\ Fold(IF Node(n).str THEN StrVal ELSE IntVal)
  /\ UNCHANGED <<prog, answer, stack, sp, objects, strings, called>>

\* A variable's handler; its return value is not looked at.
ValVariable ==
  /\ Running("val") /\ Top.i <= Len(Top.list)
  /\ LET n == Top.list[Top.i] IN
     /\ Node(n).type = "var"
     /\ \E a \in Answers("var") :
          /\ Callback(n, Top.handle, a)
          /\ Fold(ValueOf(a))
          /\ strings' = IF a = "heap" THEN strings + 1 ELSE strings
  /\ UNCHANGED <<prog, stack, sp, objects>>

ValEnterBlock ==
  /\ Running("val") /\ Top.i <= Len(Top.list)
  /\ LET n == Top.list[Top.i] IN
     /\ Node(n).type = "valblock"
     /\ Enter(ValFrame(Node(n).kids, GetHandle))
  /\ UNCHANGED <<prog, answer, val, stack, sp, objects, strings, called, failed>>

ValEnterCall ==
  /\ Running("val") /\ Top.i <= Len(Top.list)
  /\ LET n == Top.list[Top.i] IN
     /\ Node(n).type = "call"
     /\ \E a \in Answers("call") :
          /\ Callback(n, n, a)
          /\ IF a = "null"
             THEN /\ ret' = Einval /\ failed' = TRUE
                  /\ UNCHANGED <<frames, stack, sp, objects>>
             ELSE /\ objects' = objects \cup {n}
                  /\ PushHandle(n)
                  /\ Enter(CallFrame(n))
                  /\ UNCHANGED failed
  /\ UNCHANGED <<prog, val, strings>>

\* A value block or a call is back.
ValReturned ==
  /\ Returned("val")
  /\ IF ret = Ok THEN Fold(val) ELSE Return(Einval) /\ UNCHANGED <<val, failed>>
  /\ UNCHANGED <<prog, answer, stack, sp, objects, strings, called>>

ValEnd ==
  /\ Running("val") /\ Top.i > Len(Top.list)
  /\ Return(Ok)
  /\ val' = Top.arg
  /\ UNCHANGED <<prog, answer, stack, sp, objects, strings, called, failed>>

-----------------------------------------------------------------------------
\* interp_execute starts on the content of a tree.
Init ==
  /\ prog \in Programs
  /\ answer = [n \in DOMAIN prog |-> NoAnswer]
  /\ frames = <<ChildsFrame(prog[1].kids)>>
  /\ ret = NoRet
  /\ val = Unknown
  /\ stack = [i \in 1..StackDepth |-> NoObject]
  /\ sp = 0
  /\ objects = {}
  /\ strings = 0
  /\ called = NoCall
  /\ failed = FALSE

Next ==
  \/ ChildsEnterFunc \/ ChildsEnterExpr \/ ChildsEnterBlock
  \/ ChildsEnd \/ ChildsReturned \/ BlockReturned \/ ExprReturned
  \/ ArgEnter("func") \/ ArgEnter("call")
  \/ ArgReturned("func", Dead) \/ ArgReturned("call", Einval)
  \/ FuncArgFailed \/ CallArgFailed
  \/ FuncExec \/ FuncBodyReturned \/ CallExec
  \/ ValLiteral \/ ValVariable \/ ValEnterBlock \/ ValEnterCall
  \/ ValReturned \/ ValEnd

\* The executor is one thread that runs until it returns.
Spec == Init /\ [][Next]_vars /\ WF_vars(Next)

Finished == frames = <<>>

-----------------------------------------------------------------------------
\* The function in whose braces a node is written, 0 for none: the semantic
\* analysis takes the names of the node from this function.
Parent(n) == CHOOSE p \in DOMAIN prog : n \in Parts(prog, p)
Owner[n \in DOMAIN prog] ==
  IF n = 1 THEN 0
  ELSE IF Node(Parent(n)).type = "func" /\ n \in Members(Node(Parent(n)).kids)
       THEN Parent(n) ELSE Owner[Parent(n)]

\* Expression and variable handlers get the object of the function that
\* encloses them: they cast it to that function's own struct
\* (exec_ctx_get_handle reads whatever is on top of the handle stack).
HandlersGetTheirObject ==
  called.node # 0 /\ Node(called.node).type \in {"expr", "var"} =>
    called.object = Owner[called.node]

\* The nearest function or call around a node, also when the node is in one of
\* its arguments.
Holder[n \in DOMAIN prog] ==
  IF n = 1 THEN 0
  ELSE IF Node(Parent(n)).type \in {"func", "call"} THEN Parent(n) ELSE Holder[Parent(n)]

\* In the rules without a negated group, the only construct that lets a rule go
\* on after a call was abandoned with its object on the stack, expression and
\* variable handlers get the object of the nearest function or call: their own,
\* except for a variable in an argument (exec_ctx_get_handle).
Negates == \E n \in DOMAIN prog : Node(n).neg
HandlersGetNearestObjectUnnegated ==
  ~Negates /\ called.node # 0 /\ Node(called.node).type \in {"expr", "var"} =>
    called.object = Holder[called.node]

\* The handle stack holds the objects of the active functions and calls,
\* outermost first, and these are all the objects there are, also on every path
\* that leaves with an error; until an object is abandoned, and that is only ever
\* the object of a call whose argument failed (the pushes, pops and destructors
\* of execute_syntax_func and _call).
Owning    == {k \in DOMAIN frames : frames[k].fn \in {"func", "call"}}
Rank(k)   == Cardinality({j \in Owning : j <= k})
Active    == {frames[k].node : k \in Owning}
Abandoned == objects \ Active
StackMirrorsFrames ==
  \/ /\ sp = Cardinality(Owning)
     /\ \A k \in Owning : stack[Rank(k)] = frames[k].node
     /\ objects = Active
  \/ /\ Abandoned # {} /\ failed
     /\ \A n \in Abandoned : Node(n).type = "call" /\ Node(n).args # <<>>

\* An execution in which nothing failed releases every heap string and every
\* object, whatever its operators skipped.
CleanExecutionLeavesNothing ==
  Finished /\ ~failed => strings = 0 /\ objects = {} /\ sp = 0

\* An execution in which something failed has no verdict (the return
\* RET_DEAD_VAL of every function on the way out).
FailureIsFinal == Finished /\ failed => ~Valid(ret)

\* The same of the rules without a negated group, which take a failure for true
\* or false; and in these no callback runs after a failure.
FailureIsFinalUnnegated == ~Negates => FailureIsFinal
FailureStopsUnnegated   == [][failed /\ ~Negates => UNCHANGED called]_vars

\* What the walk computes is the rule's meaning: the verdict of the abstract
\* specification for the answers that the callbacks gave, no matter which
\* callbacks were skipped.
Rule == INSTANCE RuleSemantics WITH
          answer  <- IF Finished THEN answer ELSE [n \in DOMAIN prog |-> NoAnswer],
          verdict <- IF Finished THEN ret ELSE NoRet
ComputesMeaning == Rule!Spec

\* Every execution ends.
Terminates == <>Finished
=============================================================================

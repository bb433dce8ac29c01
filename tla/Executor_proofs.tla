-------------------------- MODULE Executor_proofs --------------------------
(***************************************************************************)
(* What holds of every execution of every rule: what a failure leaves      *)
(* behind, whose objects are on the handle stack, and which object a       *)
(* handler gets.                                                           *)
(***************************************************************************)
EXTENDS Executor, NatSets, FiniteSetTheorems, SequenceTheorems, TLAPS

-----------------------------------------------------------------------------
\* The C stack over a tree t.
Lists(t)        == {list \in Seq(DOMAIN t) : Ascending(list)}
ChildsFrames(t) == [fn : {"childs"}, list : Lists(t), i : Nat \ {0},
                    res : {Uninit, False, True}, opt : Opts]
ValFrames(t)    == [fn : {"val"}, list : Lists(t), i : Nat \ {0},
                    arg : {Unknown, IntVal}, opt : Opts, handle : Nat]
ExprFrames(t)   == [fn : {"expr"}, node : DOMAIN t, handle : Nat]
BlockFrames(t)  == [fn : {"block"}, node : DOMAIN t]
FuncFrames(t)   == [fn : {"func"}, node : {n \in DOMAIN t : t[n].type = "func"},
                    a : Nat \ {0}, at : {"args", "value", "body"}]
CallFrames(t)   == [fn : {"call"}, node : {n \in DOMAIN t : t[n].type = "call"},
                    a : Nat \ {0}, at : {"args", "value"}]
Frame(t) == ChildsFrames(t) \cup ValFrames(t) \cup ExprFrames(t) \cup BlockFrames(t)
            \cup FuncFrames(t) \cup CallFrames(t)

\* A function gives a value or a verdict, and waits for the one or the other.
Gives(f) == IF f.fn \in {"val", "call"} THEN "value" ELSE "verdict"
Wants(f) == IF f.fn \in {"val", "expr"} \/ (f.fn \in {"func", "call"} /\ f.at = "value")
            THEN "value" ELSE "verdict"
Awaited(fs)   == IF fs = <<>> THEN "verdict" ELSE Wants(fs[Len(fs)])
Results(kind) == IF kind = "value" THEN {Ok, Einval} ELSE {Dead, Uninit, False, True}

\* A frame that called another one is at a part of the tree; one that is running
\* has called nothing yet.
Waiting(t, f) ==
  /\ f.fn \in {"childs", "val"} => f.i \in DOMAIN f.list
  /\ f.fn \in {"func", "call"} =>
       f.at = "body" \/ (f.at = "value" /\ f.a \in DOMAIN t[f.node].args)
Ready(f) ==
  \/ f.fn \in {"childs", "val"}
  \/ f.fn \in {"func", "call"} /\ f.at = "args"

Called(t, fs)  == fs # <<>> => Waiting(t, fs[Len(fs)])
Stacked(t, fs) ==
  /\ fs \in Seq(Frame(t))
  /\ \A k \in DOMAIN fs :
       /\ Gives(fs[k]) = IF k = 1 THEN "verdict" ELSE Wants(fs[k - 1])
       /\ k < Len(fs) => Waiting(t, fs[k])

FramesInv ==
  /\ prog \in Programs
  /\ Stacked(prog, frames)
  /\ IF ret = NoRet THEN frames # <<>> /\ Ready(Top)
                    ELSE Called(prog, frames) /\ ret \in Results(Awaited(frames))

ValuesInv ==
  /\ val \in Values
  /\ stack \in [1..StackDepth -> Nat]
  /\ sp \in Int /\ sp <= StackDepth
  /\ objects \in SUBSET DOMAIN prog
  /\ strings \in Int
  /\ failed \in BOOLEAN

\* A failure is on its way out: without a negated group nothing turns it into a
\* verdict.
FailInv ==
  /\ ~Negates /\ failed => ret = IF Awaited(frames) = "value" THEN Einval ELSE Dead
  /\ ret = Einval => failed

\* A heap string exists only on its way from the function that returned it to the
\* caller, until something fails.
StringsInv ==
  ~failed => strings = IF Awaited(frames) = "value" /\ ret = Ok /\ val.heap THEN 1 ELSE 0

\* The order of the walk.  Left(t, f, w) are the nodes that a frame will still
\* come to by itself; w says that it waits for one that it has come to.
Left(t, f, w) ==
  CASE f.fn \in {"childs", "val"} ->
         {f.list[j] : j \in {j \in DOMAIN f.list : f.i < j \/ (f.i = j /\ ~w)}}
    [] f.fn \in {"func", "call"} /\ f.at # "body" ->
         {t[f.node].args[j] : j \in {j \in DOMAIN t[f.node].args :
                                      f.a < j \/ (f.a = j /\ f.at = "args")}}
         \cup Members(t[f.node].kids)
    [] OTHER -> {}
Ahead == [k \in DOMAIN frames |->
            IF k < Len(frames) \/ ret # NoRet THEN Left(prog, frames[k], TRUE)
                                              ELSE Left(prog, frames[k], FALSE)]

\* The walk is in the order of the text: what a frame has ahead comes before
\* all that its callers have ahead, and after all objects; and the node whose
\* part it is comes before anything that its callees have ahead.
Ordered(t, A, O) ==
  /\ \A j, k \in DOMAIN A : j < k => \A x \in A[j], y \in A[k] : y < x
  /\ \A j, k \in DOMAIN A : j <= k =>
       \A x \in A[j], y \in A[k] : \E p \in DOMAIN t : x \in Parts(t, p) /\ p < y
  /\ \A j \in DOMAIN A : \A x \in A[j], n \in O : n < x

\* The node of a frame, or the nodes in its list.
Nodes(f) == IF f.fn \in {"childs", "val"} THEN Members(f.list) ELSE {f.node}

OrderInv ==
  /\ Ordered(prog, Ahead, objects)
  /\ \A j \in Owning, k \in DOMAIN frames : j < k =>
       \A x \in Nodes(frames[k]) : frames[j].node < x

\* A handler's frame was given the object of its node, and that is the object of
\* the next function or call down the C stack.
Near(k) ==
  IF \E j \in Owning : j < k
  THEN frames[CHOOSE j \in Owning : j < k /\ \A i \in Owning : i < k => i <= j].node
  ELSE NoObject
HolderInv ==
  \A k \in DOMAIN frames : frames[k].fn \notin {"func", "call"} =>
    /\ \A x \in Nodes(frames[k]) : Holder[x] = Near(k)
    /\ ~failed /\ frames[k].fn \in {"val", "expr"} => frames[k].handle = Near(k)

-----------------------------------------------------------------------------
\* A frame's function says which record it is.
LEMMA FrameKinds ==
  ASSUME NEW t, NEW f \in Frame(t)
  PROVE  /\ f.fn = "childs" => f \in ChildsFrames(t)
         /\ f.fn = "val"    => f \in ValFrames(t)
         /\ f.fn = "expr"   => f \in ExprFrames(t)
         /\ f.fn = "block"  => f \in BlockFrames(t)
         /\ f.fn = "func"   => f \in FuncFrames(t)
         /\ f.fn = "call"   => f \in CallFrames(t)
         /\ f.fn \in {"childs", "val", "expr", "block", "func", "call"}
BY DEF Frame, ChildsFrames, ValFrames, ExprFrames, BlockFrames, FuncFrames, CallFrames

\* A call pushes one frame ...
LEMMA PushFrame ==
  ASSUME NEW t, NEW fs, Stacked(t, fs), Called(t, fs),
         NEW f \in Frame(t), Gives(f) = Awaited(fs)
  PROVE  /\ Stacked(t, Append(fs, f))
         /\ Append(fs, f) # <<>>
         /\ Len(Append(fs, f)) = Len(fs) + 1
         /\ Append(fs, f)[Len(fs) + 1] = f
<1> DEFINE gs == Append(fs, f)
<1>1. /\ fs \in Seq(Frame(t)) /\ Len(fs) \in Nat /\ DOMAIN fs = 1..Len(fs)
      /\ fs = <<>> <=> Len(fs) = 0
  BY LenProperties, EmptySeq DEF Stacked
<1>2. /\ gs \in Seq(Frame(t))
      /\ Len(gs) = Len(fs) + 1
      /\ DOMAIN gs = 1..(Len(fs) + 1)
      /\ gs[Len(fs) + 1] = f
      /\ \A k \in 1..Len(fs) : gs[k] = fs[k]
      /\ gs # <<>>
  BY <1>1, AppendProperties, LenProperties
<1> HIDE DEF gs
<1>3. ASSUME NEW k \in DOMAIN gs
      PROVE  /\ Gives(gs[k]) = IF k = 1 THEN "verdict" ELSE Wants(gs[k - 1])
             /\ k < Len(gs) => Waiting(t, gs[k])
  <2>1. CASE k <= Len(fs)
    <3>1. k \in DOMAIN fs /\ gs[k] = fs[k] /\ (k # 1 => gs[k - 1] = fs[k - 1])
      BY <1>1, <1>2, <2>1
    <3>2. k < Len(fs) => Waiting(t, fs[k])
      BY <3>1 DEF Stacked
    <3>3. k = Len(fs) => Waiting(t, fs[k])
      BY <1>1, <3>1 DEF Called
    <3>4. Gives(fs[k]) = IF k = 1 THEN "verdict" ELSE Wants(fs[k - 1])
      BY <3>1 DEF Stacked
    <3> QED BY <1>1, <1>2, <2>1, <3>1, <3>2, <3>3, <3>4
  <2>2. CASE k = Len(fs) + 1
    <3>1. Awaited(fs) = IF k = 1 THEN "verdict" ELSE Wants(gs[k - 1])
      BY <1>1, <1>2, <2>2 DEF Awaited
    <3> QED BY <1>1, <1>2, <2>2, <3>1
  <2> QED BY <1>1, <1>2, <2>1, <2>2
<1>4. Stacked(t, gs)
  BY <1>2, <1>3 DEF Stacked
<1> QED BY <1>1, <1>2, <1>4 DEF gs

\* ... and a return takes one away; what is then on top waits for the result.
LEMMA PopFrame ==
  ASSUME NEW t, NEW fs, Stacked(t, fs), fs # <<>>
  PROVE  LET gs == SubSeq(fs, 1, Len(fs) - 1)
         IN  /\ Stacked(t, gs)
             /\ Called(t, gs)
             /\ Awaited(gs) = Gives(fs[Len(fs)])
             /\ Len(gs) = Len(fs) - 1
             /\ \A k \in 1..(Len(fs) - 1) : gs[k] = fs[k]
             /\ fs = Append(gs, fs[Len(fs)])
             /\ fs[Len(fs)] \in Frame(t)
             /\ Len(fs) \in DOMAIN fs
<1> DEFINE gs == SubSeq(fs, 1, Len(fs) - 1)
<1>1. /\ fs \in Seq(Frame(t)) /\ Len(fs) \in Nat \ {0} /\ DOMAIN fs = 1..Len(fs)
  BY LenProperties, EmptySeq DEF Stacked
<1>2. /\ gs \in Seq(Frame(t))
      /\ Len(gs) = Len(fs) - 1
      /\ DOMAIN gs = 1..(Len(fs) - 1)
      /\ \A k \in 1..(Len(fs) - 1) : gs[k] = fs[k]
      /\ gs = <<>> <=> Len(gs) = 0
  <2>1. \A k \in 1..(Len(fs) - 1) : fs[k] \in Frame(t)
    BY <1>1, ElementOfSeq
  <2>2. /\ gs \in Seq(Frame(t))
        /\ Len(gs) = Len(fs) - 1
        /\ \A k \in 1..(Len(fs) - 1) : gs[k] = fs[k]
    BY <1>1, <2>1, SubSeqProperties
  <2> HIDE DEF gs
  <2> QED BY <2>2, LenProperties, EmptySeq
<1> HIDE DEF gs
<1>3. /\ \A k \in 1..Len(fs) : /\ Gives(fs[k]) = IF k = 1 THEN "verdict" ELSE Wants(fs[k - 1])
                               /\ k < Len(fs) => Waiting(t, fs[k])
  BY <1>1 DEF Stacked
<1>4. Stacked(t, gs)
  BY <1>1, <1>2, <1>3 DEF Stacked
<1>5. Called(t, gs)
  BY <1>1, <1>2, <1>3 DEF Called
<1>6. Awaited(gs) = Gives(fs[Len(fs)])
  BY <1>1, <1>2, <1>3 DEF Awaited
<1>7. fs[Len(fs)] \in Frame(t)
  BY <1>1, ElementOfSeq
<1>8. fs = Append(gs, fs[Len(fs)])
  <2> DEFINE hs == Append(gs, fs[Len(fs)])
  <2>0. /\ hs \in Seq(Frame(t))
        /\ Len(hs) = Len(gs) + 1
        /\ \A k \in 1..Len(gs) : hs[k] = gs[k]
        /\ hs[Len(gs) + 1] = fs[Len(fs)]
    BY <1>2, <1>7, AppendProperties
  <2> HIDE DEF hs
  <2>1. /\ hs \in Seq(Frame(t))
        /\ Len(hs) = Len(fs)
        /\ \A k \in 1..Len(gs) : hs[k] = gs[k]
        /\ hs[Len(fs)] = fs[Len(fs)]
    <3>1. Len(gs) + 1 = Len(fs)
      BY <1>1, <1>2
    <3> QED BY <2>0, <3>1
  <2>2. \A k \in 1..Len(fs) : hs[k] = fs[k]
    BY <1>1, <1>2, <2>1
  <2>3. hs = fs
    BY <1>1, <2>1, <2>2, SeqEqual
  <2> QED BY <2>3 DEF hs
<1> QED BY <1>1, <1>2, <1>4, <1>5, <1>6, <1>7, <1>8 DEF gs

\* A call with two frames at once.
LEMMA ConcatTwo ==
  ASSUME NEW S, NEW s \in Seq(S), NEW x \in S, NEW y \in S
  PROVE  s \o <<x, y>> = Append(Append(s, x), y)
<1> DEFINE u == s \o <<x, y>>
           v == Append(s, x)
           w == Append(v, y)
<1>1. <<x, y>> \in Seq(S) /\ Len(<<x, y>>) = 2 /\ <<x, y>>[1] = x /\ <<x, y>>[2] = y
  OBVIOUS
<1>2. Len(s) \in Nat
  OBVIOUS
<1>3. /\ u \in Seq(S) /\ Len(u) = Len(s) + 2
      /\ \A i \in 1..(Len(s) + 2) : u[i] = IF i <= Len(s) THEN s[i] ELSE <<x, y>>[i - Len(s)]
  BY <1>1, ConcatProperties
<1>4. /\ v \in Seq(S) /\ Len(v) = Len(s) + 1 /\ v[Len(s) + 1] = x
      /\ \A i \in 1..Len(s) : v[i] = s[i]
  BY AppendProperties
<1> HIDE DEF v
<1>5. /\ w \in Seq(S) /\ Len(w) = Len(v) + 1 /\ w[Len(v) + 1] = y
      /\ \A i \in 1..Len(v) : w[i] = v[i]
  BY <1>4, AppendProperties
<1> HIDE DEF u, w
<1>6. /\ Len(w) = Len(s) + 2 /\ w[Len(s) + 2] = y /\ w[Len(s) + 1] = x
      /\ \A i \in 1..Len(s) : w[i] = s[i]
  BY <1>2, <1>4, <1>5
<1>7. u[Len(s) + 1] = x /\ u[Len(s) + 2] = y /\ \A i \in 1..Len(s) : u[i] = s[i]
  BY <1>1, <1>2, <1>3
<1>8. ASSUME NEW i \in 1..Len(u) PROVE u[i] = w[i]
  <2>1. i \in 1..Len(s) \/ i = Len(s) + 1 \/ i = Len(s) + 2
    BY <1>2, <1>3
  <2> QED BY <2>1, <1>6, <1>7
<1>9. u = w
  BY <1>3, <1>5, <1>6, <1>8, SeqEqual
<1> QED BY <1>9 DEF u, v, w

-----------------------------------------------------------------------------
\* What the ways to leave a function or to go on do to the C stack.
LEMMA TopOfFrames ==
  ASSUME FramesInv, frames # <<>>
  PROVE  /\ Top \in Frame(prog)
         /\ Stacked(prog, Caller) /\ Called(prog, Caller)
         /\ Awaited(Caller) = Gives(Top)
         /\ Len(Caller) = Len(frames) - 1
         /\ \A k \in 1..(Len(frames) - 1) : Caller[k] = frames[k]
         /\ frames = Append(Caller, Top)
         /\ Len(frames) \in Nat \ {0} /\ DOMAIN frames = 1..Len(frames)
<1>1. Stacked(prog, frames)
  BY DEF FramesInv
<1>2. Len(frames) \in Nat \ {0} /\ DOMAIN frames = 1..Len(frames)
  BY <1>1, LenProperties, EmptySeq DEF Stacked
<1> QED BY <1>1, <1>2, PopFrame DEF Top, Caller

LEMMA ReturnFrames ==
  ASSUME FramesInv, frames # <<>>, UNCHANGED prog,
         NEW r \in Results(Gives(Top)), Return(r)
  PROVE  FramesInv' /\ Awaited(frames') = Gives(Top)
<1>1. Stacked(prog, Caller) /\ Called(prog, Caller) /\ Awaited(Caller) = Gives(Top)
  BY TopOfFrames
<1>2. r # NoRet
  BY DEF Results, NoRet, Ok, Einval, Dead, Uninit, False, True
<1>3. frames' = Caller /\ ret' = r /\ prog' = prog
  BY DEF Return
<1>4. /\ Stacked(prog', frames') /\ Called(prog', frames')
      /\ ret' \in Results(Awaited(frames')) /\ ret' # NoRet
  BY <1>1, <1>2, <1>3
<1>5. prog' \in Programs
  BY <1>3 DEF FramesInv
<1> QED BY <1>1, <1>3, <1>4, <1>5 DEF FramesInv

LEMMA ContinueFrames ==
  ASSUME FramesInv, frames # <<>>, UNCHANGED prog,
         NEW f \in Frame(prog), Gives(f) = Gives(Top), Ready(f), Continue(f)
  PROVE  FramesInv'
<1>1. /\ Stacked(prog, Caller) /\ Called(prog, Caller) /\ Awaited(Caller) = Gives(Top)
      /\ Len(Caller) = Len(frames) - 1
  BY TopOfFrames
<1>2. frames' = Append(Caller, f) /\ ret' = NoRet /\ prog' = prog
  BY DEF Continue
<1>3. /\ Stacked(prog, frames') /\ frames' # <<>>
      /\ Len(frames') = Len(Caller) + 1
      /\ frames'[Len(Caller) + 1] = f
  BY <1>1, <1>2, PushFrame
<1>4. Top' = f
  BY <1>3 DEF Top
<1>5. prog' \in Programs /\ Stacked(prog', frames')
  BY <1>2, <1>3 DEF FramesInv
<1> QED BY <1>2, <1>3, <1>4, <1>5 DEF FramesInv

LEMMA EnterFrames ==
  ASSUME FramesInv, frames # <<>>, UNCHANGED prog,
         NEW f \in Frame(prog), Gives(f) = Gives(Top), Waiting(prog, f),
         NEW g \in Frame(prog), Gives(g) = Wants(f), Ready(g), EnterAs(f, g)
  PROVE  FramesInv'
<1>1. /\ Stacked(prog, Caller) /\ Called(prog, Caller) /\ Awaited(Caller) = Gives(Top)
      /\ Len(Caller) = Len(frames) - 1
  BY TopOfFrames
<1> DEFINE fs == Append(Caller, f)
<1>2. /\ Stacked(prog, fs) /\ fs # <<>>
      /\ Len(fs) = Len(Caller) + 1
      /\ fs[Len(Caller) + 1] = f
  BY <1>1, PushFrame
<1>3. frames' = Append(fs, g) /\ ret' = NoRet /\ prog' = prog
  BY DEF EnterAs
<1> HIDE DEF fs
<1>4. Called(prog, fs) /\ Awaited(fs) = Wants(f)
  BY <1>2 DEF Called, Awaited
<1>5. /\ Stacked(prog, frames') /\ frames' # <<>>
      /\ Len(frames') = Len(fs) + 1
      /\ frames'[Len(fs) + 1] = g
  BY <1>2, <1>3, <1>4, PushFrame
<1>6. Top' = g
  BY <1>5 DEF Top
<1>7. prog' \in Programs /\ Stacked(prog', frames')
  BY <1>3, <1>5 DEF FramesInv
<1> QED BY <1>3, <1>5, <1>6, <1>7 DEF FramesInv

\* Enter is EnterAs with the frame on top unchanged.
LEMMA EnterIsEnterAs ==
  ASSUME FramesInv, frames # <<>>, NEW g
  PROVE  Enter(g) <=> EnterAs(Top, g)
BY TopOfFrames DEF Enter, EnterAs

LEMMA EnterTwoFrames ==
  ASSUME FramesInv, frames # <<>>, UNCHANGED prog, Waiting(prog, Top),
         NEW f \in Frame(prog), Gives(f) = Wants(Top), Waiting(prog, f),
         NEW g \in Frame(prog), Gives(g) = Wants(f), Ready(g),
         frames' = frames \o <<f, g>>, ret' = NoRet
  PROVE  FramesInv'
<1>1. /\ Stacked(prog, frames) /\ Called(prog, frames) /\ Awaited(frames) = Wants(Top)
  BY DEF FramesInv, Called, Awaited, Top
<1> DEFINE fs == Append(frames, f)
<1>2. /\ Stacked(prog, fs) /\ fs # <<>>
      /\ Len(fs) = Len(frames) + 1
      /\ fs[Len(frames) + 1] = f
  BY <1>1, PushFrame
<1>3. frames' = Append(fs, g)
  BY <1>1, ConcatTwo DEF Stacked
<1> HIDE DEF fs
<1>4. Called(prog, fs) /\ Awaited(fs) = Wants(f)
  BY <1>2 DEF Called, Awaited
<1> DEFINE gs == Append(fs, g)
<1>8. /\ Stacked(prog, gs) /\ gs # <<>>
      /\ Len(gs) = Len(fs) + 1
      /\ gs[Len(fs) + 1] = g
  BY <1>2, <1>4, PushFrame
<1> HIDE DEF gs
<1>5. /\ Stacked(prog, frames') /\ frames' # <<>>
      /\ Len(frames') = Len(fs) + 1
      /\ frames'[Len(fs) + 1] = g
  <2>1. frames' = gs
    BY <1>3 DEF gs
  <2> QED BY ONLY <2>1, <1>8
<1>6. Top' = g
  BY <1>5 DEF Top
<1>7. prog' \in Programs /\ Stacked(prog', frames')
  BY <1>5 DEF FramesInv
<1> QED BY <1>5, <1>6, <1>7 DEF FramesInv

\* A constructor that returns nothing is an error of the caller itself.
LEMMA StayFrames ==
  ASSUME FramesInv, frames # <<>>, UNCHANGED <<prog, frames>>, Waiting(prog, Top),
         ret' \in Results(Wants(Top))
  PROVE  FramesInv' /\ Awaited(frames') = Wants(Top)
<1>1. ret' # NoRet
  BY DEF Results, NoRet, Ok, Einval, Dead, Uninit, False, True
<1>2. Called(prog, frames) /\ Awaited(frames) = Wants(Top)
  BY DEF Called, Awaited, Top
<1>3. Called(prog', frames') /\ ret' \in Results(Awaited(frames'))
  BY <1>2
<1>4. prog' \in Programs /\ Stacked(prog', frames')
  BY DEF FramesInv
<1> QED BY <1>1, <1>2, <1>3, <1>4 DEF FramesInv

-----------------------------------------------------------------------------
\* The parts of a tree, and the frames that start on them.
LEMMA TreeParts ==
  ASSUME NEW t \in Programs, NEW n \in DOMAIN t
  PROVE  /\ t \in Seq(SyntaxNode) /\ Len(t) \in Nat \ {0} /\ DOMAIN t = 1..Len(t)
         /\ t[n] \in SyntaxNode
         /\ t[n].kids \in Seq(DOMAIN t) /\ t[n].args \in Seq(DOMAIN t)
         /\ t[n].kids \in Lists(t) /\ t[n].args \in Lists(t)
         /\ t[n].opt \in Opts
<1>1. IsTree(t)
  BY ProgramsAssumption
<1>2. t \in Seq(SyntaxNode) /\ Len(t) \in Nat \ {0} /\ DOMAIN t = 1..Len(t)
  BY <1>1, LenProperties, EmptySeq DEF IsTree
<1>3. t[n] \in SyntaxNode
  BY <1>2, ElementOfSeq
<1>4. t[n].kids \in Seq(Nat) /\ t[n].args \in Seq(Nat) /\ t[n].opt \in Opts
  BY <1>3 DEF SyntaxNode
<1>5. Parts(t, n) \subseteq DOMAIN t
  <2>1. n \in Nat /\ Parts(t, n) \subseteq (n + 1)..Len(t)
    BY <1>1, <1>2 DEF IsTree
  <2> QED BY <1>2, <2>1
<1>6. ASSUME NEW list \in Seq(Nat), Members(list) \subseteq DOMAIN t
      PROVE  list \in Seq(DOMAIN t)
  BY <1>6 DEF Members
<1>7. t[n].kids \in Seq(DOMAIN t) /\ t[n].args \in Seq(DOMAIN t)
  BY <1>4, <1>5, <1>6 DEF Parts
<1>8. t[n].kids \in Lists(t) /\ t[n].args \in Lists(t)
  BY <1>1, <1>7 DEF IsTree, Lists
<1> QED BY <1>2, <1>3, <1>4, <1>7, <1>8

LEMMA NewFrames ==
  ASSUME NEW t
  PROVE  /\ \A list \in Lists(t) :
              /\ ChildsFrame(list) \in Frame(t)
              /\ Gives(ChildsFrame(list)) = "verdict" /\ Ready(ChildsFrame(list))
         /\ \A list \in Lists(t), h \in Nat :
              /\ ValFrame(list, h) \in Frame(t)
              /\ Gives(ValFrame(list, h)) = "value" /\ Ready(ValFrame(list, h))
         /\ \A n \in DOMAIN t, h \in Nat :
              /\ ExprFrame(n, h) \in Frame(t)
              /\ Gives(ExprFrame(n, h)) = "verdict"
              /\ Wants(ExprFrame(n, h)) = "value" /\ Waiting(t, ExprFrame(n, h))
         /\ \A n \in DOMAIN t :
              /\ BlockFrame(n) \in Frame(t)
              /\ Gives(BlockFrame(n)) = "verdict"
              /\ Wants(BlockFrame(n)) = "verdict" /\ Waiting(t, BlockFrame(n))
              /\ t[n].type = "func" =>
                   /\ FuncFrame(n) \in Frame(t)
                   /\ Gives(FuncFrame(n)) = "verdict" /\ Ready(FuncFrame(n))
              /\ t[n].type = "call" =>
                   /\ CallFrame(n) \in Frame(t)
                   /\ Gives(CallFrame(n)) = "value" /\ Ready(CallFrame(n))
<1>1. ASSUME NEW list \in Lists(t)
      PROVE  /\ ChildsFrame(list) \in ChildsFrames(t)
             /\ Gives(ChildsFrame(list)) = "verdict" /\ Ready(ChildsFrame(list))
  BY DEF ChildsFrame, ChildsFrames, Gives, Ready, Opts
<1>2. ASSUME NEW list \in Lists(t), NEW h \in Nat
      PROVE  /\ ValFrame(list, h) \in ValFrames(t)
             /\ Gives(ValFrame(list, h)) = "value" /\ Ready(ValFrame(list, h))
  BY DEF ValFrame, ValFrames, Gives, Ready, Opts
<1>3. ASSUME NEW n \in DOMAIN t, NEW h \in Nat
      PROVE  /\ ExprFrame(n, h) \in ExprFrames(t)
             /\ Gives(ExprFrame(n, h)) = "verdict"
             /\ Wants(ExprFrame(n, h)) = "value" /\ Waiting(t, ExprFrame(n, h))
  BY DEF ExprFrame, ExprFrames, Gives, Wants, Waiting
<1>4. ASSUME NEW n \in DOMAIN t
      PROVE  /\ BlockFrame(n) \in BlockFrames(t)
             /\ Gives(BlockFrame(n)) = "verdict"
             /\ Wants(BlockFrame(n)) = "verdict" /\ Waiting(t, BlockFrame(n))
             /\ t[n].type = "func" =>
                  /\ FuncFrame(n) \in FuncFrames(t)
                  /\ Gives(FuncFrame(n)) = "verdict" /\ Ready(FuncFrame(n))
             /\ t[n].type = "call" =>
                  /\ CallFrame(n) \in CallFrames(t)
                  /\ Gives(CallFrame(n)) = "value" /\ Ready(CallFrame(n))
  BY DEF BlockFrame, BlockFrames, FuncFrame, FuncFrames, CallFrame, CallFrames,
         Gives, Wants, Waiting, Ready
<1> QED BY <1>1, <1>2, <1>3, <1>4 DEF Frame

\* The frame that runs, or that a function returned to.
LEMMA TopKinds ==
  ASSUME FramesInv, frames # <<>>
  PROVE  /\ Top \in Frame(prog)
         /\ Top.fn = "childs" => Top \in ChildsFrames(prog)
         /\ Top.fn = "val"    => Top \in ValFrames(prog)
         /\ Top.fn = "expr"   => Top \in ExprFrames(prog)
         /\ Top.fn = "block"  => Top \in BlockFrames(prog)
         /\ Top.fn = "func"   => Top \in FuncFrames(prog)
         /\ Top.fn = "call"   => Top \in CallFrames(prog)
         /\ ret # NoRet => Waiting(prog, Top) /\ ret \in Results(Wants(Top))
         /\ ret = NoRet => Ready(Top)
         /\ Top.fn \in {"childs", "val"} => Top.list \in Seq(DOMAIN prog) /\ Ascending(Top.list)
<1>1. Top \in Frame(prog)
  BY TopOfFrames
<1>2. /\ ret # NoRet => Waiting(prog, Top) /\ ret \in Results(Wants(Top))
      /\ ret = NoRet => Ready(Top)
  BY DEF FramesInv, Called, Awaited, Top
<1>3. Top.fn \in {"childs", "val"} => Top.list \in Lists(prog)
  BY <1>1, FrameKinds DEF ChildsFrames, ValFrames
<1> QED BY <1>1, <1>2, <1>3, FrameKinds DEF Lists

LEMMA HandleIsNat ==
  ASSUME ValuesInv
  PROVE  GetHandle \in Nat
BY DEF ValuesInv, GetHandle, NoObject

-----------------------------------------------------------------------------
\* Results and strings, action by action.
ResultInv == FramesInv /\ ValuesInv /\ FailInv /\ StringsInv

\* While a function runs nothing has failed, if the rule has no negated group,
\* and no heap string is around.
LEMMA RunningIsClean ==
  ASSUME ResultInv, ret = NoRet
  PROVE  (~Negates => ~failed) /\ (~failed => strings = 0)
BY DEF ResultInv, FailInv, StringsInv, NoRet, Ok, Einval, Dead

LEMMA ResultOfNoReturn ==
  ASSUME UNCHANGED prog, ret' = NoRet,
         ~Negates => ~failed', ~failed' => strings' = 0
  PROVE  FailInv' /\ StringsInv'
BY DEF FailInv, StringsInv, Negates, Node, NoRet, Ok, Einval

\* A function that gives a verdict keeps a failure that the rule cannot negate.
LEMMA ResultOfVerdict ==
  ASSUME UNCHANGED prog, Awaited(frames') = "verdict",
         ret' \in {Dead, Uninit, False, True},
         ~Negates /\ failed' => ret' = Dead, ~failed' => strings' = 0
  PROVE  FailInv' /\ StringsInv'
<1>1. Negates' <=> Negates
  BY DEF Negates, Node
<1>2. ret' # Einval
  BY DEF Dead, Uninit, False, True, Einval
<1> HIDE DEF Negates
<1> QED BY <1>1, <1>2 DEF FailInv, StringsInv

LEMMA PushKeepsValues ==
  ASSUME ValuesInv, NEW n \in Nat, PushHandle(n)
  PROVE  stack' \in [1..StackDepth -> Nat] /\ sp' \in Int /\ sp' <= StackDepth
BY StackAssumption DEF ValuesInv, PushHandle

LEMMA LeaveKeepsValues ==
  ASSUME ValuesInv, UNCHANGED <<prog, stack>>, objects' = objects \ {Top.node},
         sp' = sp - 1, val' \in Values, strings' \in Int, failed' \in BOOLEAN
  PROVE  ValuesInv'
BY StackAssumption DEF ValuesInv

LEMMA ChildsEnterFuncResult ==
  ASSUME ResultInv, ChildsEnterFunc
  PROVE  ResultInv'
<1> DEFINE n == Top.list[Top.i]
<1>1. /\ FramesInv /\ ValuesInv /\ frames # <<>> /\ ret = NoRet /\ Top.fn = "childs"
      /\ Top.i <= Len(Top.list) /\ UNCHANGED <<prog, val, strings>>
  BY DEF ChildsEnterFunc, Running, ResultInv
<1>2. /\ Top \in Frame(prog) /\ Top \in ChildsFrames(prog) /\ n \in DOMAIN prog
      /\ Waiting(prog, Top) /\ Wants(Top) = "verdict"
  BY <1>1, TopKinds DEF ChildsFrames, Waiting, Wants
<1>3. Node(n).type = "func"
  BY DEF ChildsEnterFunc
<1>4. PICK a \in Answers("func") :
         IF a = "null"
         THEN /\ ret' = Dead /\ failed' = TRUE
              /\ UNCHANGED <<frames, stack, sp, objects>>
         ELSE /\ objects' = objects \cup {n}
              /\ PushHandle(n)
              /\ Enter(FuncFrame(n))
              /\ UNCHANGED failed
  BY DEF ChildsEnterFunc
<1> HIDE DEF n
<1>5. CASE a = "null"
  <2>1. ret' \in Results(Wants(Top))
    BY <1>2, <1>4, <1>5 DEF Results
  <2>2. FramesInv' /\ Awaited(frames') = "verdict"
    BY <1>1, <1>2, <1>4, <1>5, <2>1, StayFrames
  <2>3. FailInv' /\ StringsInv'
    BY <1>4, <1>5, <2>2 DEF FailInv, StringsInv, Dead, Einval
  <2>4. ValuesInv'
    BY <1>1, <1>4, <1>5 DEF ValuesInv
  <2> QED BY <2>2, <2>3, <2>4 DEF ResultInv
<1>6. CASE a # "null"
  <2>1. /\ FuncFrame(n) \in Frame(prog)
        /\ Gives(FuncFrame(n)) = Wants(Top) /\ Ready(FuncFrame(n))
    BY <1>2, <1>3, NewFrames DEF Node
  <2>2. EnterAs(Top, FuncFrame(n)) /\ ret' = NoRet
    BY <1>1, <1>4, <1>6, EnterIsEnterAs DEF Enter
  <2>3. FramesInv'
    BY <1>1, <1>2, <2>1, <2>2, EnterFrames
  <2>4. FailInv' /\ StringsInv'
    BY <1>1, <1>4, <1>6, <2>2, RunningIsClean, ResultOfNoReturn
  <2>5. prog \in Programs /\ n \in Nat
    BY <1>1, <1>2, TreeParts DEF FramesInv
  <2>6. ValuesInv'
    BY <1>1, <1>2, <1>4, <1>6, <2>5, PushKeepsValues DEF ValuesInv
  <2> QED BY <2>3, <2>4, <2>6 DEF ResultInv
<1> QED BY <1>5, <1>6

LEMMA ChildsEnterExprResult ==
  ASSUME ResultInv, ChildsEnterExpr
  PROVE  ResultInv'
<1> DEFINE n == Top.list[Top.i]
           f == ExprFrame(n, GetHandle)
           g == ValFrame(Node(n).kids, GetHandle)
<1>1. /\ FramesInv /\ ValuesInv /\ frames # <<>> /\ ret = NoRet /\ Top.fn = "childs"
      /\ Top.i <= Len(Top.list)
      /\ UNCHANGED <<prog, val, stack, sp, objects, strings, failed>>
      /\ frames' = frames \o <<f, g>> /\ ret' = NoRet
  BY DEF ChildsEnterExpr, Running, ResultInv
<1>2. /\ n \in DOMAIN prog /\ Waiting(prog, Top) /\ Wants(Top) = "verdict"
  BY <1>1, TopKinds DEF ChildsFrames, Waiting, Wants
<1>3. Node(n).kids \in Lists(prog) /\ GetHandle \in Nat
  BY <1>1, <1>2, TreeParts, HandleIsNat DEF FramesInv, Node
<1>4. /\ f \in Frame(prog) /\ Gives(f) = Wants(Top) /\ Waiting(prog, f)
      /\ g \in Frame(prog) /\ Gives(g) = Wants(f) /\ Ready(g)
  BY <1>2, <1>3, NewFrames
<1> HIDE DEF f, g
<1>5. FramesInv'
  BY <1>1, <1>2, <1>4, EnterTwoFrames
<1>6. FailInv' /\ StringsInv'
  BY <1>1, RunningIsClean, ResultOfNoReturn
<1>7. ValuesInv'
  BY <1>1 DEF ValuesInv
<1> QED BY <1>5, <1>6, <1>7 DEF ResultInv

LEMMA ChildsEnterBlockResult ==
  ASSUME ResultInv, ChildsEnterBlock
  PROVE  ResultInv'
<1> DEFINE n == Top.list[Top.i]
           f == BlockFrame(n)
           g == ChildsFrame(Node(n).kids)
<1>1. /\ FramesInv /\ ValuesInv /\ frames # <<>> /\ ret = NoRet /\ Top.fn = "childs"
      /\ Top.i <= Len(Top.list)
      /\ UNCHANGED <<prog, val, stack, sp, objects, strings, failed>>
      /\ frames' = frames \o <<f, g>> /\ ret' = NoRet
  BY DEF ChildsEnterBlock, Running, ResultInv
<1>2. /\ n \in DOMAIN prog /\ Waiting(prog, Top) /\ Wants(Top) = "verdict"
  BY <1>1, TopKinds DEF ChildsFrames, Waiting, Wants
<1>3. Node(n).kids \in Lists(prog)
  BY <1>1, <1>2, TreeParts DEF FramesInv, Node
<1>4. /\ f \in Frame(prog) /\ Gives(f) = Wants(Top) /\ Waiting(prog, f)
      /\ g \in Frame(prog) /\ Gives(g) = Wants(f) /\ Ready(g)
  BY <1>2, <1>3, NewFrames
<1> HIDE DEF f, g
<1>5. FramesInv'
  BY <1>1, <1>2, <1>4, EnterTwoFrames
<1>6. FailInv' /\ StringsInv'
  BY <1>1, RunningIsClean, ResultOfNoReturn
<1>7. ValuesInv'
  BY <1>1 DEF ValuesInv
<1> QED BY <1>5, <1>6, <1>7 DEF ResultInv

LEMMA ChildsEndResult ==
  ASSUME ResultInv, ChildsEnd
  PROVE  ResultInv'
<1>1. /\ FramesInv /\ ValuesInv /\ frames # <<>> /\ ret = NoRet /\ Top.fn = "childs"
      /\ UNCHANGED <<prog, val, stack, sp, objects, strings, failed>>
      /\ Return(Top.res)
  BY DEF ChildsEnd, Running, ResultInv
<1>2. Gives(Top) = "verdict" /\ Top.res \in {Uninit, False, True}
  BY <1>1, TopKinds DEF ChildsFrames, Gives
<1>3. FramesInv' /\ Awaited(frames') = "verdict"
  BY <1>1, <1>2, ReturnFrames DEF Results
<1>4. (~Negates => ~failed) /\ (~failed => strings = 0)
  BY <1>1, RunningIsClean
<1>5. FailInv' /\ StringsInv'
  BY <1>1, <1>2, <1>3, <1>4, ResultOfVerdict DEF Return
<1>6. ValuesInv'
  BY <1>1 DEF ValuesInv
<1> QED BY <1>3, <1>5, <1>6 DEF ResultInv

\* The loops go on with their next child, operand or argument.
LEMMA NextChild ==
  ASSUME NEW t, NEW f \in ChildsFrames(t), NEW r \in {False, True}, NEW o \in Opts
  PROVE  /\ [fn |-> "childs", list |-> f.list, i |-> f.i + 1, res |-> r, opt |-> o]
              \in ChildsFrames(t)
         /\ [f EXCEPT !.i = @ + 1, !.res = r, !.opt = o]
              = [fn |-> "childs", list |-> f.list, i |-> f.i + 1, res |-> r, opt |-> o]
<1> DEFINE g1 == [f EXCEPT !.i = @ + 1]
           g2 == [g1 EXCEPT !.res = r]
           g3 == [g2 EXCEPT !.opt = o]
<1>1. f = [fn |-> "childs", list |-> f.list, i |-> f.i, res |-> f.res, opt |-> f.opt]
      /\ f.list \in Lists(t) /\ f.i \in Nat \ {0}
  BY DEF ChildsFrames
<1>2. g3 = [f EXCEPT !.i = @ + 1, !.res = r, !.opt = o]
  OBVIOUS
<1>3. g1 = [fn |-> "childs", list |-> f.list, i |-> f.i + 1, res |-> f.res, opt |-> f.opt]
  BY <1>1
<1> HIDE DEF g1
<1>4. g2 = [fn |-> "childs", list |-> f.list, i |-> f.i + 1, res |-> r, opt |-> f.opt]
  BY <1>3
<1> HIDE DEF g2
<1>5. g3 = [fn |-> "childs", list |-> f.list, i |-> f.i + 1, res |-> r, opt |-> o]
  BY <1>4
<1> HIDE DEF g3
<1>6. [fn |-> "childs", list |-> f.list, i |-> f.i + 1, res |-> r, opt |-> o]
        \in ChildsFrames(t)
  BY <1>1 DEF ChildsFrames
<1> QED BY <1>2, <1>5, <1>6

LEMMA NextOperand ==
  ASSUME NEW t, NEW f \in ValFrames(t), NEW o \in Opts
  PROVE  /\ [fn |-> "val", list |-> f.list, i |-> f.i + 1, arg |-> IntVal, opt |-> o,
             handle |-> f.handle] \in ValFrames(t)
         /\ [f EXCEPT !.i = @ + 1, !.arg = IntVal, !.opt = o]
              = [fn |-> "val", list |-> f.list, i |-> f.i + 1, arg |-> IntVal, opt |-> o,
                 handle |-> f.handle]
<1> DEFINE g1 == [f EXCEPT !.i = @ + 1]
           g2 == [g1 EXCEPT !.arg = IntVal]
           g3 == [g2 EXCEPT !.opt = o]
<1>1. f = [fn |-> "val", list |-> f.list, i |-> f.i, arg |-> f.arg, opt |-> f.opt,
           handle |-> f.handle]
      /\ f.list \in Lists(t) /\ f.i \in Nat \ {0} /\ f.handle \in Nat
  BY DEF ValFrames
<1>2. g3 = [f EXCEPT !.i = @ + 1, !.arg = IntVal, !.opt = o]
  OBVIOUS
<1>3. g1 = [fn |-> "val", list |-> f.list, i |-> f.i + 1, arg |-> f.arg, opt |-> f.opt,
            handle |-> f.handle]
  BY <1>1
<1> HIDE DEF g1
<1>4. g2 = [fn |-> "val", list |-> f.list, i |-> f.i + 1, arg |-> IntVal, opt |-> f.opt,
            handle |-> f.handle]
  BY <1>3
<1> HIDE DEF g2
<1>5. g3 = [fn |-> "val", list |-> f.list, i |-> f.i + 1, arg |-> IntVal, opt |-> o,
            handle |-> f.handle]
  BY <1>4
<1> HIDE DEF g3
<1>6. [fn |-> "val", list |-> f.list, i |-> f.i + 1, arg |-> IntVal, opt |-> o,
       handle |-> f.handle] \in ValFrames(t)
  BY <1>1 DEF ValFrames
<1> QED BY <1>2, <1>5, <1>6

\* Both functions and calls.
LEMMA OwnerFrames ==
  ASSUME FramesInv, frames # <<>>, Top.fn \in {"func", "call"}
  PROVE  /\ Top.node \in DOMAIN prog /\ Node(Top.node).type = Top.fn
         /\ Top.a \in Nat \ {0}
         /\ Gives(Top) = IF Top.fn = "func" THEN "verdict" ELSE "value"
         /\ [fn |-> Top.fn, node |-> Top.node, a |-> Top.a, at |-> "value"] \in Frame(prog)
         /\ [Top EXCEPT !.at = "value"]
              = [fn |-> Top.fn, node |-> Top.node, a |-> Top.a, at |-> "value"]
         /\ [fn |-> Top.fn, node |-> Top.node, a |-> Top.a + 1, at |-> "args"] \in Frame(prog)
         /\ [Top EXCEPT !.a = @ + 1, !.at = "args"]
              = [fn |-> Top.fn, node |-> Top.node, a |-> Top.a + 1, at |-> "args"]
<1> DEFINE f  == [fn |-> Top.fn, node |-> Top.node, a |-> Top.a, at |-> Top.at]
           g1 == [Top EXCEPT !.a = @ + 1]
           g2 == [g1 EXCEPT !.at = "args"]
           h  == [Top EXCEPT !.at = "value"]
<1>1. Top.fn = "func" => Top \in FuncFrames(prog)
  BY TopKinds
<1>2. Top.fn = "call" => Top \in CallFrames(prog)
  BY TopKinds
<1>3. /\ Top.node \in DOMAIN prog /\ Node(Top.node).type = Top.fn
      /\ Top.a \in Nat \ {0} /\ Top = f
      /\ Gives(Top) = IF Top.fn = "func" THEN "verdict" ELSE "value"
  <2>1. CASE Top.fn = "func"
    BY <1>1, <2>1 DEF FuncFrames, Gives, Node
  <2>2. CASE Top.fn = "call"
    BY <1>2, <2>2 DEF CallFrames, Gives, Node
  <2> QED BY <2>1, <2>2
<1>4. g2 = [Top EXCEPT !.a = @ + 1, !.at = "args"]
  OBVIOUS
<1>5. h = [fn |-> Top.fn, node |-> Top.node, a |-> Top.a, at |-> "value"]
  BY <1>3
<1>6. g1 = [fn |-> Top.fn, node |-> Top.node, a |-> Top.a + 1, at |-> Top.at]
  BY <1>3
<1> HIDE DEF g1
<1>7. g2 = [fn |-> Top.fn, node |-> Top.node, a |-> Top.a + 1, at |-> "args"]
  BY <1>6
<1> HIDE DEF g2, h
<1>8. /\ [fn |-> Top.fn, node |-> Top.node, a |-> Top.a, at |-> "value"] \in Frame(prog)
      /\ [fn |-> Top.fn, node |-> Top.node, a |-> Top.a + 1, at |-> "args"] \in Frame(prog)
  BY <1>3 DEF Frame, FuncFrames, CallFrames, Node
<1> QED BY <1>3, <1>4, <1>5, <1>7, <1>8 DEF h

LEMMA ChildsReturnedResult ==
  ASSUME ResultInv, ChildsReturned
  PROVE  ResultInv'
<1> DEFINE n    == Top.list[Top.i]
           next == Node(n).opt
           res  == IF Valid(ret) THEN Combine(Top.res, Top.opt, ret) ELSE Dead
           f    == [Top EXCEPT !.i = @ + 1, !.res = res, !.opt = next]
<1>1. /\ FramesInv /\ ValuesInv /\ frames # <<>> /\ ret # NoRet /\ Top.fn = "childs"
      /\ UNCHANGED <<prog, val, stack, sp, objects, strings>>
      /\ IF res = Dead \/ Decided(next, res) THEN Return(res) ELSE Continue(f)
      /\ failed' = (failed \/ res = Dead)
  BY DEF ChildsReturned, Returned, ResultInv
<1> HIDE DEF f
<1>2. /\ Top \in ChildsFrames(prog) /\ n \in DOMAIN prog /\ Wants(Top) = "verdict"
      /\ Gives(Top) = "verdict" /\ ret \in {Dead, Uninit, False, True}
      /\ Awaited(frames) = "verdict"
  BY <1>1, TopKinds DEF ChildsFrames, Waiting, Wants, Gives, Results, Awaited, Top
<1>3. next \in Opts
  BY <1>1, <1>2, TreeParts DEF FramesInv, Node
<1>4. res \in {False, True, Dead}
  BY <1>2 DEF ChildsFrames, Valid, Combine
<1>5. (~Negates /\ failed => res = Dead) /\ (~failed => strings = 0)
  <2>1. ~Negates /\ failed => ret = Dead
    BY <1>2 DEF ResultInv, FailInv
  <2>2. ~failed => strings = 0
    BY <1>2 DEF ResultInv, StringsInv
  <2> QED BY <2>1, <2>2 DEF Valid, Dead, False, True
<1> HIDE DEF res, next
<1>6. CASE res = Dead \/ Decided(next, res)
  <2>1. Return(res) /\ res \in Results(Gives(Top))
    BY <1>1, <1>2, <1>4, <1>6 DEF Results
  <2>2. FramesInv' /\ Awaited(frames') = "verdict" /\ ret' = res
    BY <1>1, <1>2, <2>1, ReturnFrames DEF Return
  <2>3. FailInv' /\ StringsInv'
    <3>1. ~Negates /\ failed' => ret' = Dead
      BY <1>1, <1>5, <2>2
    <3>2. ~failed' => strings' = 0
      BY <1>1, <1>5
    <3> QED BY <1>1, <1>4, <2>2, <3>1, <3>2, ResultOfVerdict
  <2> QED BY <1>1, <2>2, <2>3 DEF ResultInv, ValuesInv
<1>7. CASE ~(res = Dead \/ Decided(next, res))
  <2>1. Continue(f) /\ ret' = NoRet
    BY <1>1, <1>7 DEF Continue
  <2>2. f \in ChildsFrames(prog) /\ f.fn = "childs"
    <3> DEFINE g == [fn |-> "childs", list |-> Top.list, i |-> Top.i + 1, res |-> res,
                     opt |-> next]
    <3>1. res \in {False, True}
      BY <1>4, <1>7
    <3>2. g \in ChildsFrames(prog) /\ f = g
      BY <1>2, <1>3, <3>1, NextChild DEF f
    <3> QED BY <3>2
  <2>3. FramesInv'
    BY <1>1, <1>2, <2>1, <2>2, ContinueFrames DEF Frame, Gives, Ready
  <2>4. FailInv' /\ StringsInv'
    BY <1>1, <1>5, <1>7, <2>1, ResultOfNoReturn
  <2> QED BY <1>1, <2>3, <2>4 DEF ResultInv, ValuesInv
<1> QED BY <1>6, <1>7

LEMMA BlockReturnedResult ==
  ASSUME ResultInv, BlockReturned
  PROVE  ResultInv'
<1> DEFINE r == IF Node(Top.node).neg THEN (IF ret = 0 THEN True ELSE False) ELSE ret
<1>1. /\ FramesInv /\ ValuesInv /\ frames # <<>> /\ ret # NoRet /\ Top.fn = "block"
      /\ UNCHANGED <<prog, val, stack, sp, objects, strings, failed>>
      /\ Return(r)
  BY DEF BlockReturned, Returned, ResultInv
<1>2. /\ Top.node \in DOMAIN prog /\ Wants(Top) = "verdict" /\ Gives(Top) = "verdict"
      /\ ret \in {Dead, Uninit, False, True} /\ Awaited(frames) = "verdict"
  BY <1>1, TopKinds DEF BlockFrames, Wants, Gives, Results, Awaited, Top
<1>3. r \in Results(Gives(Top)) /\ (~Negates => r = ret)
  BY <1>2 DEF Results, Negates
<1>4. (~Negates /\ failed => r = Dead) /\ (~failed => strings = 0)
  BY <1>2, <1>3 DEF ResultInv, FailInv, StringsInv
<1> HIDE DEF r
<1>5. FramesInv' /\ Awaited(frames') = "verdict" /\ ret' = r
  BY <1>1, <1>2, <1>3, ReturnFrames DEF Return
<1>6. FailInv' /\ StringsInv'
  BY <1>1, <1>2, <1>3, <1>4, <1>5, ResultOfVerdict DEF Results
<1> QED BY <1>1, <1>5, <1>6 DEF ResultInv, ValuesInv

LEMMA ExprReturnedResult ==
  ASSUME ResultInv, ExprReturned
  PROVE  ResultInv'
<1>1. /\ FramesInv /\ ValuesInv /\ frames # <<>> /\ ret # NoRet /\ Top.fn = "expr"
      /\ UNCHANGED <<prog, val, stack, sp, objects>>
  BY DEF ExprReturned, Returned, ResultInv
<1>2. /\ Gives(Top) = "verdict" /\ ret \in {Ok, Einval} /\ Awaited(frames) = "value"
  BY <1>1, TopKinds DEF Wants, Gives, Results, Awaited, Top
<1>3. CASE ret # Ok
  <2>1. Return(Dead) /\ UNCHANGED <<strings, failed>>
    BY <1>3 DEF ExprReturned
  <2>2. FramesInv' /\ Awaited(frames') = "verdict" /\ ret' = Dead
    BY <1>1, <1>2, <2>1, ReturnFrames DEF Results, Return
  <2>3. failed
    BY <1>2, <1>3 DEF ResultInv, FailInv
  <2>4. FailInv' /\ StringsInv'
    BY <2>1, <2>2, <2>3 DEF FailInv, StringsInv, Dead, Einval
  <2> QED BY <1>1, <2>1, <2>2, <2>4 DEF ResultInv, ValuesInv
<1>4. CASE ret = Ok
  <2>1. PICK a \in Answers("expr") :
           /\ Return(VerdictOf(a))
           /\ strings' = IF a = "fail" THEN strings ELSE Released(val)
           /\ failed' = (failed \/ a = "fail")
    BY <1>4 DEF ExprReturned
  <2>2. PICK r \in {False, True, Dead} : Return(r) /\ (a = "fail" <=> r = Dead)
    <3>1. VerdictOf(a) \in {False, True, Dead} /\ (a = "fail" <=> VerdictOf(a) = Dead)
      BY DEF Answers, VerdictOf, False, True, Dead
    <3> QED BY <2>1, <3>1
  <2>3. FramesInv' /\ Awaited(frames') = "verdict" /\ ret' = r
    BY <1>1, <1>2, <2>2, ReturnFrames DEF Results, Return
  <2>4. ~Negates => ~failed
    BY <1>2, <1>4 DEF ResultInv, FailInv, Ok, Einval
  <2>5. ~failed => strings = IF val.heap THEN 1 ELSE 0
    BY <1>2, <1>4 DEF ResultInv, StringsInv
  <2>6. ~failed' => strings' = 0
    <3>1. SUFFICES ASSUME ~failed' PROVE strings' = 0
      OBVIOUS
    <3>2. ~failed /\ a # "fail"
      BY <2>1, <3>1
    <3>3. strings' = Released(val)
      BY <2>1, <3>2
    <3> QED BY <2>5, <3>2, <3>3 DEF Released
  <2>7. FailInv' /\ StringsInv'
    <3>1. failed' => failed \/ r = Dead
      BY <2>1, <2>2
    <3> QED BY <1>1, <2>3, <2>4, <2>6, <3>1, ResultOfVerdict
  <2>8. strings' \in Int /\ failed' \in BOOLEAN
    BY <1>1, <2>1 DEF ValuesInv, Released
  <2> QED BY <1>1, <2>3, <2>7, <2>8 DEF ResultInv, ValuesInv
<1> QED BY <1>3, <1>4

LEMMA ArgEnterResult ==
  ASSUME ResultInv, NEW fn \in {"func", "call"}, ArgEnter(fn)
  PROVE  ResultInv'
<1> DEFINE f == [Top EXCEPT !.at = "value"]
           g == ValFrame(Node(Args[Top.a]).kids, GetHandle)
<1>1. /\ FramesInv /\ ValuesInv /\ frames # <<>> /\ ret = NoRet /\ Top.fn = fn
      /\ Top.at = "args" /\ Top.a <= Len(Args)
      /\ UNCHANGED <<prog, val, stack, sp, objects, strings, failed>>
      /\ EnterAs(f, g)
  BY DEF ArgEnter, Running, ResultInv
<1> HIDE DEF f, g
<1>2. /\ Top.node \in DOMAIN prog /\ Top.a \in Nat \ {0}
      /\ f \in Frame(prog) /\ Gives(f) = Gives(Top)
      /\ f.fn = Top.fn /\ f.node = Top.node /\ f.a = Top.a /\ f.at = "value"
  <2>1. f = [fn |-> Top.fn, node |-> Top.node, a |-> Top.a, at |-> "value"]
    BY <1>1, OwnerFrames DEF f
  <2>2. /\ Top.node \in DOMAIN prog /\ Top.a \in Nat \ {0}
        /\ [fn |-> Top.fn, node |-> Top.node, a |-> Top.a, at |-> "value"] \in Frame(prog)
    BY <1>1, OwnerFrames
  <2> QED BY <2>1, <2>2 DEF Gives
<1>3. Args \in Seq(DOMAIN prog) /\ Top.a \in DOMAIN Args /\ Args[Top.a] \in DOMAIN prog
  <2>1. Args \in Seq(DOMAIN prog)
    <3>1. prog \in Programs
      BY <1>1 DEF FramesInv
    <3> QED BY <1>2, <3>1, TreeParts DEF Node, Args
  <2> QED BY <1>1, <1>2, <2>1
<1>4. g \in Frame(prog) /\ Gives(g) = "value" /\ Ready(g)
  <2>1. Node(Args[Top.a]).kids \in Lists(prog) /\ GetHandle \in Nat
    <3>1. prog \in Programs
      BY <1>1 DEF FramesInv
    <3> QED BY <1>1, <1>3, <3>1, TreeParts, HandleIsNat DEF Node
  <2> QED BY <2>1, NewFrames DEF g
<1>5. Wants(f) = "value" /\ Waiting(prog, f)
  BY <1>1, <1>2, <1>3 DEF Wants, Waiting, Args, Node
<1>6. FramesInv' /\ ret' = NoRet
  BY <1>1, <1>2, <1>4, <1>5, EnterFrames DEF EnterAs
<1>7. FailInv' /\ StringsInv'
  BY <1>1, <1>6, RunningIsClean, ResultOfNoReturn
<1> QED BY <1>1, <1>6, <1>7 DEF ResultInv, ValuesInv

LEMMA ArgReturnedResult ==
  ASSUME ResultInv,
         NEW fn \in {"func", "call"}, NEW error \in {Dead, Einval},
         fn = "func" <=> error = Dead, ArgReturned(fn, error)
  PROVE  ResultInv'
<1> DEFINE f == [fn |-> Top.fn, node |-> Top.node, a |-> Top.a + 1, at |-> "args"]
<1>1. /\ FramesInv /\ ValuesInv /\ frames # <<>> /\ ret = Ok /\ ret # NoRet
      /\ Top.fn = fn /\ Top.at = "value" /\ UNCHANGED <<prog, val, stack>>
  BY DEF ArgReturned, Returned, ResultInv
<1>2. PICK a \in Answers("arg") :
         IF a = "fail"
         THEN Leave(error) /\ failed' = TRUE /\ UNCHANGED strings
         ELSE /\ Continue([Top EXCEPT !.a = @ + 1, !.at = "args"])
              /\ strings' = Released(val)
              /\ UNCHANGED <<sp, objects, failed>>
  BY DEF ArgReturned
<1>3. CASE a = "fail"
  <2>1. /\ Return(error) /\ failed' = TRUE /\ UNCHANGED strings
        /\ objects' = objects \ {Top.node} /\ sp' = sp - 1
    BY <1>2, <1>3 DEF Leave
  <2>2. Gives(Top) = (IF fn = "func" THEN "verdict" ELSE "value")
        /\ error \in Results(Gives(Top))
    BY <1>1 DEF Gives, Results, Dead, Einval
  <2>3. FramesInv' /\ Awaited(frames') = Gives(Top) /\ ret' = error
    BY <1>1, <2>1, <2>2, ReturnFrames DEF Return
  <2>4. FailInv' /\ StringsInv'
    BY <2>1, <2>2, <2>3 DEF FailInv, StringsInv, Dead, Einval
  <2>5. ValuesInv'
    BY <1>1, <2>1, LeaveKeepsValues DEF ValuesInv
  <2> QED BY <2>3, <2>4, <2>5 DEF ResultInv
<1>4. CASE a # "fail"
  <2>1. Continue(f) /\ f \in Frame(prog) /\ Gives(f) = Gives(Top) /\ Ready(f)
    <3>1. Continue([Top EXCEPT !.a = @ + 1, !.at = "args"])
      BY <1>2, <1>4
    <3>2. [Top EXCEPT !.a = @ + 1, !.at = "args"] = f /\ f \in Frame(prog)
      BY <1>1, OwnerFrames
    <3>3. Continue(f)
      BY ONLY <3>1, <3>2
    <3> QED BY <1>1, <3>2, <3>3 DEF Gives, Ready
  <2> HIDE DEF f
  <2>2. ret' = NoRet /\ strings' = Released(val) /\ UNCHANGED <<sp, objects, failed>>
    BY <1>2, <1>4, <2>1 DEF Continue
  <2>3. FramesInv'
    BY <1>1, <2>1, ContinueFrames
  <2>4. Awaited(frames) = "value"
    BY <1>1 DEF Awaited, Wants, Top
  <2>5. (~Negates => ~failed) /\ (~failed => strings = IF val.heap THEN 1 ELSE 0)
    BY <1>1, <2>4 DEF ResultInv, FailInv, StringsInv, Ok, Einval
  <2>6. ~failed' => strings' = 0
    BY <2>2, <2>5 DEF Released
  <2>7. FailInv' /\ StringsInv'
    BY <1>1, <2>2, <2>5, <2>6, ResultOfNoReturn
  <2>8. ValuesInv'
    BY <1>1, <2>2 DEF ValuesInv, Released
  <2> QED BY <2>3, <2>7, <2>8 DEF ResultInv
<1> QED BY <1>3, <1>4

LEMMA FuncArgFailedResult ==
  ASSUME ResultInv, FuncArgFailed
  PROVE  ResultInv'
<1>1. /\ FramesInv /\ ValuesInv /\ frames # <<>> /\ ret # Ok /\ ret # NoRet
      /\ Top.fn = "func" /\ Top.at = "value"
      /\ objects' = objects \ {Top.node} /\ sp' = sp - 1 /\ Return(Dead)
      /\ UNCHANGED <<prog, val, stack, strings, failed>>
  BY DEF FuncArgFailed, Returned, Leave, ResultInv
<1>2. Gives(Top) = "verdict" /\ Awaited(frames) = "value" /\ ret = Einval /\ failed
  BY <1>1, TopKinds DEF Gives, Wants, Awaited, Top, Results, ResultInv, FailInv
<1>3. FramesInv' /\ Awaited(frames') = "verdict" /\ ret' = Dead
  BY <1>1, <1>2, ReturnFrames DEF Results, Return
<1>4. FailInv' /\ StringsInv'
  BY <1>1, <1>2, <1>3 DEF FailInv, StringsInv, Dead, Einval
<1>5. ValuesInv'
  BY <1>1, LeaveKeepsValues DEF ValuesInv
<1> QED BY <1>3, <1>4, <1>5 DEF ResultInv

LEMMA CallArgFailedResult ==
  ASSUME ResultInv, CallArgFailed
  PROVE  ResultInv'
<1>1. /\ FramesInv /\ ValuesInv /\ frames # <<>> /\ ret # Ok /\ ret # NoRet
      /\ Top.fn = "call" /\ Top.at = "value" /\ Return(ret)
      /\ UNCHANGED <<prog, val, stack, sp, objects, strings, failed>>
  BY DEF CallArgFailed, Returned, ResultInv
<1>2. Gives(Top) = "value" /\ Awaited(frames) = "value" /\ ret = Einval /\ failed
  BY <1>1, TopKinds DEF Gives, Wants, Awaited, Top, Results, ResultInv, FailInv
<1>3. FramesInv' /\ Awaited(frames') = "value" /\ ret' = Einval
  BY <1>1, <1>2, ReturnFrames DEF Results, Return
<1>4. FailInv' /\ StringsInv'
  BY <1>1, <1>2, <1>3 DEF FailInv, StringsInv, Dead, Einval
<1> QED BY <1>1, <1>3, <1>4 DEF ResultInv, ValuesInv

LEMMA FuncExecResult ==
  ASSUME ResultInv, FuncExec
  PROVE  ResultInv'
<1> DEFINE f == [Top EXCEPT !.at = "body"]
           g == ChildsFrame(Node(Top.node).kids)
<1>1. /\ FramesInv /\ ValuesInv /\ frames # <<>> /\ ret = NoRet
      /\ Top.fn = "func" /\ Top.at = "args" /\ UNCHANGED <<prog, val, stack, strings>>
      /\ IF answer[Top.node] = "fail"
         THEN Leave(Dead) /\ failed' = TRUE
         ELSE EnterAs(f, g) /\ UNCHANGED <<sp, objects, failed>>
  BY DEF FuncExec, Running, ResultInv
<1>2. /\ Top \in FuncFrames(prog) /\ Gives(Top) = "verdict"
      /\ (~Negates => ~failed) /\ (~failed => strings = 0)
  BY <1>1, TopKinds, RunningIsClean DEF Gives
<1>3. CASE answer[Top.node] = "fail"
  <2>1. /\ Return(Dead) /\ failed' = TRUE
        /\ objects' = objects \ {Top.node} /\ sp' = sp - 1
    BY <1>1, <1>3 DEF Leave
  <2>2. FramesInv' /\ Awaited(frames') = "verdict" /\ ret' = Dead
    BY <1>1, <1>2, <2>1, ReturnFrames DEF Results, Return
  <2>3. FailInv' /\ StringsInv'
    BY <2>1, <2>2 DEF FailInv, StringsInv, Dead, Einval
  <2>4. ValuesInv'
    BY <1>1, <2>1, LeaveKeepsValues DEF ValuesInv
  <2> QED BY <2>2, <2>3, <2>4 DEF ResultInv
<1>4. CASE answer[Top.node] # "fail"
  <2>1. /\ f \in FuncFrames(prog) /\ f.fn = "func" /\ f.at = "body"
    BY <1>2 DEF FuncFrames
  <2>2. Node(Top.node).kids \in Lists(prog)
    BY <1>1, <1>2, TreeParts DEF FramesInv, Node, FuncFrames
  <2>3. g \in Frame(prog) /\ Gives(g) = "verdict" /\ Ready(g)
    BY <2>2, NewFrames
  <2>4. EnterAs(f, g) /\ UNCHANGED <<sp, objects, failed>>
    BY <1>1, <1>4
  <2> HIDE DEF f, g
  <2>5. f \in Frame(prog) /\ Gives(f) = "verdict" /\ Wants(f) = "verdict"
        /\ Waiting(prog, f)
    BY <2>1 DEF Frame, Gives, Wants, Waiting
  <2>6. FramesInv' /\ ret' = NoRet
    BY <1>1, <1>2, <2>3, <2>4, <2>5, EnterFrames DEF EnterAs
  <2>7. FailInv' /\ StringsInv'
    BY <1>1, <1>2, <2>4, <2>6, ResultOfNoReturn
  <2> QED BY <1>1, <2>4, <2>6, <2>7 DEF ResultInv, ValuesInv
<1> QED BY <1>3, <1>4

LEMMA FuncBodyReturnedResult ==
  ASSUME ResultInv, FuncBodyReturned
  PROVE  ResultInv'
<1>1. /\ FramesInv /\ ValuesInv /\ frames # <<>> /\ ret # NoRet
      /\ Top.fn = "func" /\ Top.at = "body"
      /\ objects' = objects \ {Top.node} /\ sp' = sp - 1 /\ Return(ret)
      /\ UNCHANGED <<prog, val, stack, strings, failed>>
  BY DEF FuncBodyReturned, Returned, Leave, ResultInv
<1>2. /\ Gives(Top) = "verdict" /\ Awaited(frames) = "verdict"
      /\ ret \in Results("verdict")
  BY <1>1, TopKinds DEF Gives, Wants, Awaited, Top
<1>3. FramesInv' /\ Awaited(frames') = "verdict" /\ ret' = ret
  BY <1>1, <1>2, ReturnFrames DEF Return
<1>4. FailInv' /\ StringsInv'
  <2>1. (~Negates /\ failed => ret = Dead) /\ (~failed => strings = 0)
    BY <1>2 DEF ResultInv, FailInv, StringsInv
  <2> QED BY <1>1, <1>2, <1>3, <2>1, ResultOfVerdict DEF Results
<1>5. ValuesInv'
  BY <1>1, LeaveKeepsValues DEF ValuesInv
<1> QED BY <1>3, <1>4, <1>5 DEF ResultInv

LEMMA CallExecResult ==
  ASSUME ResultInv, CallExec
  PROVE  ResultInv'
<1>1. /\ FramesInv /\ ValuesInv /\ frames # <<>> /\ ret = NoRet
      /\ Top.fn = "call" /\ UNCHANGED <<prog, stack>>
      /\ IF answer[Top.node] = "fail"
         THEN Leave(Einval) /\ failed' = TRUE /\ UNCHANGED <<val, strings>>
         ELSE /\ Leave(Ok)
              /\ val' = ValueOf(answer[Top.node])
              /\ strings' = IF val'.heap THEN strings + 1 ELSE strings
              /\ UNCHANGED failed
  BY DEF CallExec, Running, ResultInv
<1>2. /\ Gives(Top) = "value" /\ (~Negates => ~failed) /\ (~failed => strings = 0)
  BY <1>1, RunningIsClean DEF Gives
<1>3. CASE answer[Top.node] = "fail"
  <2>1. /\ Return(Einval) /\ failed' = TRUE /\ UNCHANGED <<val, strings>>
        /\ objects' = objects \ {Top.node} /\ sp' = sp - 1
    BY <1>1, <1>3 DEF Leave
  <2>2. FramesInv' /\ Awaited(frames') = "value" /\ ret' = Einval
    BY <1>1, <1>2, <2>1, ReturnFrames DEF Results, Return
  <2>3. FailInv' /\ StringsInv'
    BY <2>1, <2>2 DEF FailInv, StringsInv, Dead, Einval, Ok
  <2>4. ValuesInv'
    BY <1>1, <2>1, LeaveKeepsValues DEF ValuesInv
  <2> QED BY <2>2, <2>3, <2>4 DEF ResultInv
<1>4. CASE answer[Top.node] # "fail"
  <2>1. /\ Return(Ok) /\ val' = ValueOf(answer[Top.node]) /\ UNCHANGED failed
        /\ strings' = IF val'.heap THEN strings + 1 ELSE strings
        /\ objects' = objects \ {Top.node} /\ sp' = sp - 1
    BY <1>1, <1>4 DEF Leave
  <2>2. FramesInv' /\ Awaited(frames') = "value" /\ ret' = Ok
    BY <1>1, <1>2, <2>1, ReturnFrames DEF Results, Return
  <2>3. FailInv' /\ StringsInv'
    <3>1. Negates' <=> Negates
      BY <1>1 DEF Negates, Node
    <3> HIDE DEF Negates
    <3> QED BY <1>1, <1>2, <2>1, <2>2, <3>1 DEF FailInv, StringsInv, Ok, Einval, Dead
  <2>4. val' \in Values
    BY <2>1 DEF ValueOf, Values
  <2>5. ValuesInv'
    BY <1>1, <2>1, <2>4, LeaveKeepsValues DEF ValuesInv
  <2> QED BY <2>2, <2>3, <2>5 DEF ResultInv
<1> QED BY <1>3, <1>4

\* The next operand of a value list is v.
LEMMA FoldResult ==
  ASSUME FramesInv, ValuesInv, UNCHANGED prog, frames # <<>>, Top.fn = "val",
         Top.i \in DOMAIN Top.list, NEW v \in Values, Fold(v),
         ~Negates => ~failed, ~failed => strings' = IF v.heap THEN 1 ELSE 0
  PROVE  /\ FramesInv' /\ FailInv' /\ StringsInv'
         /\ val' \in Values /\ failed' \in BOOLEAN
<1> DEFINE n   == Top.list[Top.i]
           f   == [fn |-> "val", list |-> Top.list, i |-> Top.i + 1, arg |-> IntVal,
                   opt |-> Node(n).opt, handle |-> Top.handle]
           bad == v = Unknown \/ (v = IntVal /\ Top.arg # Unknown /\ Top.opt # "arith")
<1>1. /\ Top \in ValFrames(prog) /\ n \in DOMAIN prog /\ Top.arg \in {Unknown, IntVal}
      /\ Gives(Top) = "value" /\ failed \in BOOLEAN
  BY TopKinds DEF ValFrames, Gives, ValuesInv
<1>2. Node(n).opt \in Opts
  BY <1>1, TreeParts DEF FramesInv, Node
<1>3. f \in ValFrames(prog)
      /\ [Top EXCEPT !.i = @ + 1, !.arg = IntVal, !.opt = Node(n).opt] = f
  BY <1>1, <1>2, NextOperand
<1>4. /\ failed' = (failed \/ bad)
      /\ bad => Return(Einval) /\ val' = Top.arg
      /\ ~bad /\ v.type = "string" => Return(Ok) /\ val' = v
      /\ ~bad /\ v.type # "string" =>
           Continue([Top EXCEPT !.i = @ + 1, !.arg = IntVal, !.opt = Node(n).opt])
           /\ UNCHANGED val
  BY DEF Fold
<1> HIDE DEF n, f
<1>5. ~bad /\ v.type # "string" => Continue(f) /\ UNCHANGED val
  BY ONLY <1>3, <1>4
<1>6. Unknown \in Values /\ IntVal \in Values /\ val \in Values
  BY DEF Values, ValuesInv
<1>7. Negates' <=> Negates
  BY DEF Negates, Node
<1> HIDE DEF Negates
<1>8. CASE bad
  <2>1. Return(Einval) /\ val' = Top.arg /\ failed' = TRUE
    BY <1>4, <1>8
  <2>2. FramesInv' /\ Awaited(frames') = "value" /\ ret' = Einval
    BY <1>1, <2>1, ReturnFrames DEF Results, Return
  <2>3. FailInv' /\ StringsInv'
    BY <2>1, <2>2 DEF FailInv, StringsInv, Ok, Einval
  <2> QED BY <1>1, <1>6, <2>1, <2>2, <2>3
<1>9. CASE ~bad /\ v.type = "string"
  <2>1. Return(Ok) /\ val' = v /\ failed' = failed
    BY <1>1, <1>4, <1>9
  <2>2. FramesInv' /\ Awaited(frames') = "value" /\ ret' = Ok
    BY <1>1, <2>1, ReturnFrames DEF Results, Return
  <2>3. FailInv' /\ StringsInv'
    BY <1>7, <2>1, <2>2 DEF FailInv, StringsInv, Ok, Einval
  <2> QED BY <1>1, <2>1, <2>2, <2>3
<1>10. CASE ~bad /\ v.type # "string"
  <2>1. Continue(f) /\ val' = val /\ failed' = failed
    BY <1>1, <1>4, <1>5, <1>10
  <2>2. f \in Frame(prog) /\ Gives(f) = "value" /\ Ready(f) /\ ret' = NoRet
    BY <1>3, <2>1 DEF Frame, ValFrames, Gives, Ready, Continue
  <2>3. FramesInv'
    BY <1>1, <2>1, <2>2, ContinueFrames
  <2>4. ~v.heap
    BY <1>10 DEF Values, Unknown, IntVal, StrVal, HeapVal
  <2>5. FailInv' /\ StringsInv'
    BY <2>1, <2>2, <2>4, ResultOfNoReturn
  <2> QED BY <1>1, <1>6, <2>1, <2>3, <2>5
<1> HIDE DEF bad
<1> QED BY <1>8, <1>9, <1>10

LEMMA ValLiteralResult ==
  ASSUME ResultInv, ValLiteral
  PROVE  ResultInv'
<1> DEFINE v == IF Node(Top.list[Top.i]).str THEN StrVal ELSE IntVal
<1>1. /\ FramesInv /\ ValuesInv /\ frames # <<>> /\ ret = NoRet /\ Top.fn = "val"
      /\ Top.i <= Len(Top.list) /\ Fold(v)
      /\ UNCHANGED <<prog, stack, sp, objects, strings>>
  BY DEF ValLiteral, Running, ResultInv
<1>2. v \in Values /\ ~v.heap
  BY DEF Values, StrVal, IntVal
<1> HIDE DEF v
<1>3. Top.i \in DOMAIN Top.list
  BY <1>1, TopKinds DEF ValFrames
<1>4. (~Negates => ~failed) /\ (~failed => strings' = IF v.heap THEN 1 ELSE 0)
  BY <1>1, <1>2, RunningIsClean
<1>5. FramesInv' /\ FailInv' /\ StringsInv' /\ val' \in Values /\ failed' \in BOOLEAN
  BY <1>1, <1>2, <1>3, <1>4, FoldResult
<1> QED BY <1>1, <1>5 DEF ResultInv, ValuesInv

LEMMA ValVariableResult ==
  ASSUME ResultInv, ValVariable
  PROVE  ResultInv'
<1>1. /\ FramesInv /\ ValuesInv /\ frames # <<>> /\ ret = NoRet /\ Top.fn = "val"
      /\ Top.i <= Len(Top.list) /\ UNCHANGED <<prog, stack, sp, objects>>
  BY DEF ValVariable, Running, ResultInv
<1>2. PICK a \in Answers("var") :
         Fold(ValueOf(a)) /\ strings' = IF a = "heap" THEN strings + 1 ELSE strings
  BY DEF ValVariable
<1>3. ValueOf(a) \in Values /\ (ValueOf(a).heap <=> a = "heap")
  BY DEF ValueOf, Values, Answers, Unknown, IntVal, HeapVal
<1>4. Top.i \in DOMAIN Top.list
  BY <1>1, TopKinds DEF ValFrames
<1>5. (~Negates => ~failed) /\ (~failed => strings' = IF ValueOf(a).heap THEN 1 ELSE 0)
  BY <1>1, <1>2, <1>3, RunningIsClean
<1>6. FramesInv' /\ FailInv' /\ StringsInv' /\ val' \in Values /\ failed' \in BOOLEAN
  BY <1>1, <1>2, <1>3, <1>4, <1>5, FoldResult
<1>7. strings' \in Int
  BY <1>1, <1>2 DEF ValuesInv
<1> QED BY <1>1, <1>6, <1>7 DEF ResultInv, ValuesInv

LEMMA ValEnterBlockResult ==
  ASSUME ResultInv, ValEnterBlock
  PROVE  ResultInv'
<1> DEFINE n == Top.list[Top.i]
           g == ValFrame(Node(n).kids, GetHandle)
<1>1. /\ FramesInv /\ ValuesInv /\ frames # <<>> /\ ret = NoRet /\ Top.fn = "val"
      /\ Top.i <= Len(Top.list) /\ Enter(g)
      /\ UNCHANGED <<prog, val, stack, sp, objects, strings, failed>>
  BY DEF ValEnterBlock, Running, ResultInv
<1>2. /\ Top \in Frame(prog) /\ n \in DOMAIN prog
      /\ Waiting(prog, Top) /\ Wants(Top) = "value"
  BY <1>1, TopKinds DEF ValFrames, Waiting, Wants
<1>3. Node(n).kids \in Lists(prog) /\ GetHandle \in Nat
  BY <1>1, <1>2, TreeParts, HandleIsNat DEF FramesInv, Node
<1>4. g \in Frame(prog) /\ Gives(g) = Wants(Top) /\ Ready(g)
  BY <1>2, <1>3, NewFrames
<1> HIDE DEF n, g
<1>5. EnterAs(Top, g) /\ ret' = NoRet
  BY <1>1, EnterIsEnterAs DEF Enter
<1>6. FramesInv'
  BY <1>1, <1>2, <1>4, <1>5, EnterFrames
<1>7. FailInv' /\ StringsInv'
  BY <1>1, <1>5, RunningIsClean, ResultOfNoReturn
<1> QED BY <1>1, <1>6, <1>7 DEF ResultInv, ValuesInv

LEMMA ValEnterCallResult ==
  ASSUME ResultInv, ValEnterCall
  PROVE  ResultInv'
<1> DEFINE n == Top.list[Top.i]
<1>1. /\ FramesInv /\ ValuesInv /\ frames # <<>> /\ ret = NoRet /\ Top.fn = "val"
      /\ Top.i <= Len(Top.list) /\ UNCHANGED <<prog, val, strings>>
  BY DEF ValEnterCall, Running, ResultInv
<1>2. /\ Top \in Frame(prog) /\ n \in DOMAIN prog
      /\ Waiting(prog, Top) /\ Wants(Top) = "value"
  BY <1>1, TopKinds DEF ValFrames, Waiting, Wants
<1>3. Node(n).type = "call"
  BY DEF ValEnterCall
<1>4. PICK a \in Answers("call") :
         IF a = "null"
         THEN /\ ret' = Einval /\ failed' = TRUE
              /\ UNCHANGED <<frames, stack, sp, objects>>
         ELSE /\ objects' = objects \cup {n}
              /\ PushHandle(n)
              /\ Enter(CallFrame(n))
              /\ UNCHANGED failed
  BY DEF ValEnterCall
<1> HIDE DEF n
<1>5. CASE a = "null"
  <2>1. ret' \in Results(Wants(Top))
    BY <1>2, <1>4, <1>5 DEF Results
  <2>2. FramesInv' /\ Awaited(frames') = "value"
    BY <1>1, <1>2, <1>4, <1>5, <2>1, StayFrames
  <2>3. FailInv' /\ StringsInv'
    BY <1>4, <1>5, <2>2 DEF FailInv, StringsInv, Dead, Einval
  <2>4. ValuesInv'
    BY <1>1, <1>4, <1>5 DEF ValuesInv
  <2> QED BY <2>2, <2>3, <2>4 DEF ResultInv
<1>6. CASE a # "null"
  <2>1. /\ CallFrame(n) \in Frame(prog)
        /\ Gives(CallFrame(n)) = Wants(Top) /\ Ready(CallFrame(n))
    BY <1>2, <1>3, NewFrames DEF Node
  <2>2. EnterAs(Top, CallFrame(n)) /\ ret' = NoRet
    BY <1>1, <1>4, <1>6, EnterIsEnterAs DEF Enter
  <2>3. FramesInv'
    BY <1>1, <1>2, <2>1, <2>2, EnterFrames
  <2>4. FailInv' /\ StringsInv'
    BY <1>1, <1>4, <1>6, <2>2, RunningIsClean, ResultOfNoReturn
  <2>5. prog \in Programs /\ n \in Nat
    BY <1>1, <1>2, TreeParts DEF FramesInv
  <2>6. ValuesInv'
    BY <1>1, <1>2, <1>4, <1>6, <2>5, PushKeepsValues DEF ValuesInv
  <2> QED BY <2>3, <2>4, <2>6 DEF ResultInv
<1> QED BY <1>5, <1>6

LEMMA ValReturnedResult ==
  ASSUME ResultInv, ValReturned
  PROVE  ResultInv'
<1>1. /\ FramesInv /\ ValuesInv /\ frames # <<>> /\ ret # NoRet /\ Top.fn = "val"
      /\ UNCHANGED <<prog, stack, sp, objects, strings>>
  BY DEF ValReturned, Returned, ResultInv
<1>2. /\ Gives(Top) = "value" /\ Awaited(frames) = "value" /\ ret \in {Ok, Einval}
      /\ Top.i \in DOMAIN Top.list /\ val \in Values
  BY <1>1, TopKinds DEF Gives, Wants, Awaited, Top, Results, Waiting, ValuesInv
<1>3. CASE ret = Ok
  <2>1. Fold(val)
    BY <1>3 DEF ValReturned
  <2>2. (~Negates => ~failed) /\ (~failed => strings' = IF val.heap THEN 1 ELSE 0)
    BY <1>1, <1>2, <1>3 DEF ResultInv, FailInv, StringsInv, Ok, Einval
  <2>3. FramesInv' /\ FailInv' /\ StringsInv' /\ val' \in Values /\ failed' \in BOOLEAN
    BY <1>1, <1>2, <2>1, <2>2, FoldResult
  <2> QED BY <1>1, <2>3 DEF ResultInv, ValuesInv
<1>4. CASE ret # Ok
  <2>1. Return(Einval) /\ UNCHANGED <<val, failed>>
    BY <1>4 DEF ValReturned
  <2>2. FramesInv' /\ Awaited(frames') = "value" /\ ret' = Einval
    BY <1>1, <1>2, <2>1, ReturnFrames DEF Results, Return
  <2>3. failed
    BY <1>2, <1>4 DEF ResultInv, FailInv
  <2>4. FailInv' /\ StringsInv'
    BY <2>1, <2>2, <2>3 DEF FailInv, StringsInv, Ok, Einval
  <2> QED BY <1>1, <2>1, <2>2, <2>4 DEF ResultInv, ValuesInv
<1> QED BY <1>3, <1>4

LEMMA ValEndResult ==
  ASSUME ResultInv, ValEnd
  PROVE  ResultInv'
<1>1. /\ FramesInv /\ ValuesInv /\ frames # <<>> /\ ret = NoRet /\ Top.fn = "val"
      /\ Return(Ok) /\ val' = Top.arg
      /\ UNCHANGED <<prog, stack, sp, objects, strings, failed>>
  BY DEF ValEnd, Running, ResultInv
<1>2. Gives(Top) = "value" /\ Top.arg \in {Unknown, IntVal}
  BY <1>1, TopKinds DEF ValFrames, Gives
<1>3. val' \in Values /\ ~val'.heap
  BY <1>1, <1>2 DEF Values, Unknown, IntVal
<1>4. FramesInv' /\ Awaited(frames') = "value" /\ ret' = Ok
  BY <1>1, <1>2, ReturnFrames DEF Results, Return
<1>5. (~Negates => ~failed) /\ (~failed => strings = 0)
  BY <1>1, RunningIsClean
<1>6. Negates' <=> Negates
  BY <1>1 DEF Negates, Node
<1>7. FailInv' /\ StringsInv'
  <2> HIDE DEF Negates
  <2> QED BY <1>1, <1>3, <1>4, <1>5, <1>6 DEF FailInv, StringsInv, Ok, Einval
<1> QED BY <1>1, <1>3, <1>4, <1>7 DEF ResultInv, ValuesInv

LEMMA ResultInit ==
  ASSUME Init
  PROVE  ResultInv
<1>1. /\ prog \in Programs /\ frames = <<ChildsFrame(prog[1].kids)>> /\ ret = NoRet
      /\ val = Unknown /\ stack = [i \in 1..StackDepth |-> NoObject] /\ sp = 0
      /\ objects = {} /\ strings = 0 /\ failed = FALSE
  BY DEF Init
<1>2. 1 \in DOMAIN prog /\ prog[1].kids \in Lists(prog)
  <2>1. prog # <<>> /\ prog \in Seq(SyntaxNode)
    BY <1>1, ProgramsAssumption DEF IsTree
  <2>2. 1 \in DOMAIN prog
    BY <2>1, LenProperties, EmptySeq
  <2> QED BY <1>1, <2>2, TreeParts
<1> DEFINE f == ChildsFrame(prog[1].kids)
<1>3. f \in Frame(prog) /\ Gives(f) = "verdict" /\ Ready(f)
  BY <1>2, NewFrames
<1> HIDE DEF f
<1>4. frames \in Seq(Frame(prog)) /\ Len(frames) = 1 /\ frames[1] = f /\ frames # <<>>
      /\ DOMAIN frames = {1}
  BY <1>1, <1>3 DEF f
<1>5. Stacked(prog, frames)
  BY <1>3, <1>4 DEF Stacked
<1>6. FramesInv
  BY <1>1, <1>3, <1>4, <1>5 DEF FramesInv, Top
<1>7. ValuesInv
  <2>1. val \in Values
    BY <1>1 DEF Values
  <2>2. stack \in [1..StackDepth -> Nat]
    BY <1>1, StackAssumption DEF NoObject
  <2>3. sp \in Int /\ sp <= StackDepth /\ strings \in Int
    BY <1>1, StackAssumption
  <2>4. failed \in BOOLEAN
    BY <1>1, Zenon
  <2> QED BY <1>1, <2>1, <2>2, <2>3, <2>4 DEF ValuesInv
<1>8. FailInv /\ StringsInv
  BY <1>1 DEF FailInv, StringsInv, NoRet, Ok, Einval
<1> QED BY <1>6, <1>7, <1>8 DEF ResultInv

LEMMA ResultNext ==
  ASSUME ResultInv, [Next]_vars
  PROVE  ResultInv'
<1>1. CASE ChildsEnterFunc    BY <1>1, ChildsEnterFuncResult
<1>2. CASE ChildsEnterExpr    BY <1>2, ChildsEnterExprResult
<1>3. CASE ChildsEnterBlock   BY <1>3, ChildsEnterBlockResult
<1>4. CASE ChildsEnd          BY <1>4, ChildsEndResult
<1>5. CASE ChildsReturned     BY <1>5, ChildsReturnedResult
<1>6. CASE BlockReturned      BY <1>6, BlockReturnedResult
<1>7. CASE ExprReturned       BY <1>7, ExprReturnedResult
<1>8. CASE ArgEnter("func")   BY <1>8, ArgEnterResult
<1>9. CASE ArgEnter("call")   BY <1>9, ArgEnterResult
<1>10. CASE ArgReturned("func", Dead)
  BY <1>10, ArgReturnedResult DEF Dead, Einval
<1>11. CASE ArgReturned("call", Einval)
  BY <1>11, ArgReturnedResult DEF Dead, Einval
<1>12. CASE FuncArgFailed     BY <1>12, FuncArgFailedResult
<1>13. CASE CallArgFailed     BY <1>13, CallArgFailedResult
<1>14. CASE FuncExec          BY <1>14, FuncExecResult
<1>15. CASE FuncBodyReturned  BY <1>15, FuncBodyReturnedResult
<1>16. CASE CallExec          BY <1>16, CallExecResult
<1>17. CASE ValLiteral        BY <1>17, ValLiteralResult
<1>18. CASE ValVariable       BY <1>18, ValVariableResult
<1>19. CASE ValEnterBlock     BY <1>19, ValEnterBlockResult
<1>20. CASE ValEnterCall      BY <1>20, ValEnterCallResult
<1>21. CASE ValReturned       BY <1>21, ValReturnedResult
<1>22. CASE ValEnd            BY <1>22, ValEndResult
<1>23. CASE UNCHANGED vars
  <2>1. /\ prog' = prog /\ frames' = frames /\ ret' = ret /\ val' = val /\ stack' = stack
        /\ sp' = sp /\ objects' = objects /\ strings' = strings /\ failed' = failed
    BY <1>23 DEF vars
  <2>2. FramesInv'
    BY <2>1 DEF ResultInv, FramesInv, Top
  <2>3. ValuesInv' /\ FailInv' /\ StringsInv'
    BY <2>1 DEF ResultInv, ValuesInv, FailInv, StringsInv, Negates, Node
  <2> QED BY <2>2, <2>3 DEF ResultInv
<1> QED BY <1>1, <1>2, <1>3, <1>4, <1>5, <1>6, <1>7, <1>8, <1>9, <1>10, <1>11, <1>12,
           <1>13, <1>14, <1>15, <1>16, <1>17, <1>18, <1>19, <1>20, <1>21, <1>22, <1>23
        DEF Next

\* In every execution of every rule the C stack is well formed, what a function
\* returned is what its caller waits for, and no heap string is left where
\* nothing failed (the calls and returns of execute.c).
THEOREM ExecutorResults == Spec => []ResultInv
<1>1. Init => ResultInv
  BY ResultInit
<1>2. ResultInv /\ [Next]_vars => ResultInv'
  BY ResultNext
<1> QED BY <1>1, <1>2, PTL DEF Spec

\* A rule without a negated group in which a callback or an operator failed has
\* no verdict (RET_DEAD_VAL on every path out of execute.c).
THEOREM FailureHasNoVerdict == Spec => []FailureIsFinalUnnegated
<1>1. ResultInv => FailureIsFinalUnnegated
  BY DEF ResultInv, FailInv, FailureIsFinalUnnegated, FailureIsFinal, Finished, Awaited,
         Valid, Dead, False, True
<1> QED BY <1>1, ExecutorResults, PTL

\* In a rule without a negated group no callback runs after a failure.
LEMMA NoCallAfterFailure ==
  ASSUME ResultInv, Next, failed, ~Negates
  PROVE  UNCHANGED called
<1>1. ret # NoRet /\ (Awaited(frames) = "value" => ret # Ok)
  BY DEF ResultInv, FailInv, NoRet, Ok, Einval, Dead
<1>2. \A fn : ~Running(fn)
  BY <1>1 DEF Running
<1>3. ~ChildsEnterFunc /\ ~ChildsEnterExpr /\ ~ChildsEnterBlock /\ ~ChildsEnd
  BY <1>2 DEF ChildsEnterFunc, ChildsEnterExpr, ChildsEnterBlock, ChildsEnd
<1>4. ~ArgEnter("func") /\ ~ArgEnter("call") /\ ~FuncExec /\ ~CallExec
  BY <1>2 DEF ArgEnter, FuncExec, CallExec
<1>5. ~ValLiteral /\ ~ValVariable /\ ~ValEnterBlock /\ ~ValEnterCall /\ ~ValEnd
  BY <1>2 DEF ValLiteral, ValVariable, ValEnterBlock, ValEnterCall, ValEnd
<1>6. ~ArgReturned("func", Dead) /\ ~ArgReturned("call", Einval)
  BY <1>1 DEF ArgReturned, Returned, Awaited, Wants, Top
<1>7. ExprReturned => UNCHANGED called
  BY <1>1 DEF ExprReturned, Returned, Awaited, Wants, Top
<1>8. \/ ChildsReturned \/ BlockReturned \/ FuncArgFailed \/ CallArgFailed
      \/ FuncBodyReturned \/ ValReturned
      => UNCHANGED called
  BY DEF ChildsReturned, BlockReturned, FuncArgFailed, CallArgFailed, FuncBodyReturned,
         ValReturned
<1> QED BY <1>3, <1>4, <1>5, <1>6, <1>7, <1>8 DEF Next

\* And none of its callbacks runs after the failure.
THEOREM FailureStopsCallbacks == Spec => FailureStopsUnnegated
<1>1. ResultInv /\ [Next]_vars => [failed /\ ~Negates => UNCHANGED called]_vars
  BY NoCallAfterFailure DEF vars
<1> QED BY <1>1, ExecutorResults, PTL DEF Spec, FailureStopsUnnegated

-----------------------------------------------------------------------------
\* The order of the walk.  What a step may do to the nodes ahead: drop some ...
LEMMA OrderedShrinks ==
  ASSUME NEW t, NEW A, NEW O, Ordered(t, A, O),
         NEW B, DOMAIN B \subseteq DOMAIN A, \A k \in DOMAIN B : B[k] \subseteq A[k],
         NEW P \in SUBSET O
  PROVE  Ordered(t, B, P)
<1>1. ASSUME NEW j \in DOMAIN B, NEW k \in DOMAIN B, j < k, NEW x \in B[j], NEW y \in B[k]
      PROVE  y < x
  BY <1>1 DEF Ordered
<1>2. ASSUME NEW j \in DOMAIN B, NEW k \in DOMAIN B, j <= k, NEW x \in B[j], NEW y \in B[k]
      PROVE  \E p \in DOMAIN t : x \in Parts(t, p) /\ p < y
  BY <1>2 DEF Ordered
<1>3. ASSUME NEW j \in DOMAIN B, NEW x \in B[j], NEW n \in P
      PROVE  n < x
  BY <1>3 DEF Ordered
<1> QED BY <1>1, <1>2, <1>3 DEF Ordered

\* ... hand them over to a new frame ...
LEMMA OrderedHandsOver ==
  ASSUME NEW t, NEW A, NEW O, Ordered(t, A, O), NEW m \in Nat \ {0}, DOMAIN A = 1..m,
         NEW B, DOMAIN B = 1..(m + 1), \A k \in 1..(m - 1) : B[k] \subseteq A[k],
         B[m] = {}, B[m + 1] \subseteq A[m]
  PROVE  Ordered(t, B, O)
<1>1. ASSUME NEW k \in DOMAIN B
      PROVE  \E i \in DOMAIN A : B[k] \subseteq A[i] /\ (i = k \/ (i = m /\ k = m + 1))
  <2>1. CASE k = m + 1
    <3>1. m \in DOMAIN A
      OBVIOUS
    <3>2. B[k] \subseteq A[m]
      BY <2>1
    <3> QED BY <2>1, <3>1, <3>2
  <2>2. CASE k = m
    BY <2>2
  <2>3. CASE k \in 1..(m - 1)
    BY <2>3
  <2> QED BY <2>1, <2>2, <2>3
<1>2. ASSUME NEW j \in DOMAIN B, NEW k \in DOMAIN B, j < k, NEW x \in B[j], NEW y \in B[k]
      PROVE  y < x
  <2>1. PICK i \in DOMAIN A : B[j] \subseteq A[i] /\ (i = j \/ (i = m /\ j = m + 1))
    BY <1>1
  <2>2. PICK h \in DOMAIN A : B[k] \subseteq A[h] /\ (h = k \/ (h = m /\ k = m + 1))
    BY <1>1
  <2>3. i < h
    BY <1>2, <2>1, <2>2
  <2> QED BY <1>2, <2>1, <2>2, <2>3 DEF Ordered
<1>3. ASSUME NEW j \in DOMAIN B, NEW k \in DOMAIN B, j <= k, NEW x \in B[j], NEW y \in B[k]
      PROVE  \E p \in DOMAIN t : x \in Parts(t, p) /\ p < y
  <2>1. PICK i \in DOMAIN A : B[j] \subseteq A[i] /\ (i = j \/ (i = m /\ j = m + 1))
    BY <1>1
  <2>2. PICK h \in DOMAIN A : B[k] \subseteq A[h] /\ (h = k \/ (h = m /\ k = m + 1))
    BY <1>1
  <2>3. i <= h
    BY <1>3, <2>1, <2>2
  <2> QED BY <1>3, <2>1, <2>2, <2>3 DEF Ordered
<1>4. ASSUME NEW j \in DOMAIN B, NEW x \in B[j], NEW n \in O
      PROVE  n < x
  BY <1>1, <1>4 DEF Ordered
<1> QED BY <1>2, <1>3, <1>4 DEF Ordered

\* ... or come to the next one and start on its parts.
LEMMA OrderedDescends ==
  ASSUME NEW t \in Programs, NEW A, NEW O, Ordered(t, A, O), O \subseteq DOMAIN t,
         NEW m \in Nat \ {0}, DOMAIN A = 1..m, \A k \in 1..m : A[k] \subseteq DOMAIN t,
         NEW n \in A[m],
         NEW q \in Nat, q > m,
         NEW B, DOMAIN B = 1..q, \A k \in 1..(m - 1) : B[k] \subseteq A[k],
         B[m] \subseteq {x \in A[m] : n < x},
         \A k \in (m + 1)..(q - 1) : B[k] = {},
         B[q] \subseteq Parts(t, n),
         NEW P \in SUBSET (O \cup {n})
  PROVE  Ordered(t, B, P)
<1>1. IsTree(t) /\ DOMAIN t \subseteq Nat /\ n \in DOMAIN t /\ DOMAIN t = 1..Len(t)
  BY ProgramsAssumption, TreeParts
<1>2. ASSUME NEW y \in Parts(t, n) PROVE n < y /\ y \in Nat
  <2>1. Parts(t, n) \subseteq (n + 1)..Len(t) /\ n \in Nat /\ Len(t) \in Nat
    BY <1>1, TreeParts DEF IsTree
  <2> QED BY <2>1
<1>3. ASSUME NEW k \in 1..m, NEW x \in B[k]
      PROVE  /\ x \in A[k] /\ x \in Nat /\ n < x
             /\ \E p \in DOMAIN t : x \in Parts(t, p) /\ p < n
  <2>1. x \in A[k] /\ k \in DOMAIN A /\ m \in DOMAIN A /\ k <= m
    OBVIOUS
  <2>2. n < x
    BY <2>1 DEF Ordered
  <2>3. \E p \in DOMAIN t : x \in Parts(t, p) /\ p < n
    BY <2>1 DEF Ordered
  <2> QED BY <1>1, <2>1, <2>2, <2>3
<1>4. ASSUME NEW k \in 1..m, NEW x \in B[k], NEW y \in Parts(t, n)
      PROVE  y < x
  <2>1. PICK p \in DOMAIN t : x \in Parts(t, p) /\ p < n
    BY <1>3
  <2>2. n < x
    BY <1>3
  <2> QED BY <1>1, <2>1, <2>2 DEF IsTree
<1>5. \A k \in 1..q : B[k] # {} => k \in 1..m \/ k = q
  OBVIOUS
<1>6. ASSUME NEW j \in 1..q, NEW k \in 1..q, j < k, NEW x \in B[j], NEW y \in B[k]
      PROVE  y < x
  <2>1. j \in 1..m
    BY <1>5, <1>6
  <2>2. CASE k \in 1..m
    BY <1>3, <1>6, <2>1, <2>2 DEF Ordered
  <2>3. CASE k = q
    BY <1>4, <2>1, <2>3
  <2> QED BY <1>5, <2>2, <2>3
<1>7. ASSUME NEW j \in 1..q, NEW k \in 1..q, j <= k, NEW x \in B[j], NEW y \in B[k]
      PROVE  \E p \in DOMAIN t : x \in Parts(t, p) /\ p < y
  <2>1. CASE k \in 1..m
    <3>1. j \in 1..m /\ x \in A[j] /\ y \in A[k]
      BY <1>3, <1>7, <2>1
    <3> QED BY <1>7, <2>1, <3>1 DEF Ordered
  <2>2. CASE k = q /\ j \in 1..m
    <3>1. PICK p \in DOMAIN t : x \in Parts(t, p) /\ p < n
      BY <1>3, <2>2
    <3>2. n < y /\ y \in Nat /\ p \in Nat /\ n \in Nat
      BY <1>1, <1>2, <2>2
    <3> QED BY <3>1, <3>2
  <2>3. CASE k = q /\ j = q
    BY <1>1, <1>2, <2>3
  <2> QED BY <1>5, <2>1, <2>2, <2>3
<1>8. ASSUME NEW j \in 1..q, NEW x \in B[j], NEW o \in P
      PROVE  o < x
  <2>1. n < x /\ x \in Nat /\ n \in Nat
    BY <1>1, <1>2, <1>3, <1>5
  <2>2. CASE o = n
    BY <2>1, <2>2
  <2>3. CASE o \in O
    <3>1. o < n /\ o \in Nat
      BY <1>1, <2>3 DEF Ordered
    <3> QED BY <2>1, <3>1
  <2> QED BY <2>2, <2>3
<1> QED BY <1>6, <1>7, <1>8 DEF Ordered

\* The C stack after each way to leave or to go on.
LEMMA ReturnShape ==
  ASSUME FramesInv, frames # <<>>, NEW r, Return(r)
  PROVE  /\ ret' = r /\ Len(frames') = Len(frames) - 1
         /\ DOMAIN frames' = 1..(Len(frames) - 1)
         /\ \A k \in 1..(Len(frames) - 1) : frames'[k] = frames[k]
<1>1. /\ Stacked(prog, Caller) /\ Len(Caller) = Len(frames) - 1
      /\ \A k \in 1..(Len(frames) - 1) : Caller[k] = frames[k]
  BY TopOfFrames
<1>2. frames' = Caller /\ ret' = r
  BY DEF Return
<1>3. DOMAIN Caller = 1..Len(Caller)
  BY <1>1, LenProperties DEF Stacked
<1> QED BY <1>1, <1>2, <1>3

LEMMA ContinueShape ==
  ASSUME FramesInv, frames # <<>>, NEW f \in Frame(prog), Continue(f)
  PROVE  /\ ret' = NoRet /\ Len(frames') = Len(frames)
         /\ DOMAIN frames' = 1..Len(frames)
         /\ \A k \in 1..(Len(frames) - 1) : frames'[k] = frames[k]
         /\ frames'[Len(frames)] = f
<1>1. /\ Caller \in Seq(Frame(prog)) /\ Len(Caller) = Len(frames) - 1
      /\ \A k \in 1..(Len(frames) - 1) : Caller[k] = frames[k]
      /\ Len(frames) \in Nat \ {0}
  BY TopOfFrames DEF Stacked
<1>2. frames' = Append(Caller, f) /\ ret' = NoRet
  BY DEF Continue
<1> DEFINE gs == Append(Caller, f)
<1>3. /\ gs \in Seq(Frame(prog)) /\ Len(gs) = Len(Caller) + 1
      /\ \A k \in 1..Len(Caller) : gs[k] = Caller[k]
      /\ gs[Len(Caller) + 1] = f
  BY <1>1, AppendProperties
<1> HIDE DEF gs
<1>4. DOMAIN gs = 1..Len(gs)
  BY <1>3, LenProperties
<1>5. Len(Caller) + 1 = Len(frames) /\ Len(Caller) = Len(frames) - 1
  BY <1>1
<1>6. frames' = gs
  BY <1>2 DEF gs
<1> QED BY ONLY <1>1, <1>2, <1>3, <1>4, <1>5, <1>6

LEMMA EnterShape ==
  ASSUME FramesInv, frames # <<>>, NEW f \in Frame(prog), NEW g \in Frame(prog),
         EnterAs(f, g)
  PROVE  /\ ret' = NoRet /\ Len(frames') = Len(frames) + 1
         /\ DOMAIN frames' = 1..(Len(frames) + 1)
         /\ \A k \in 1..(Len(frames) - 1) : frames'[k] = frames[k]
         /\ frames'[Len(frames)] = f
         /\ frames'[Len(frames) + 1] = g
<1>1. /\ Caller \in Seq(Frame(prog)) /\ Len(Caller) = Len(frames) - 1
      /\ \A k \in 1..(Len(frames) - 1) : Caller[k] = frames[k]
      /\ Len(frames) \in Nat \ {0}
  BY TopOfFrames DEF Stacked
<1> DEFINE fs == Append(Caller, f)
           gs == Append(fs, g)
<1>2. frames' = gs /\ ret' = NoRet
  BY DEF EnterAs
<1>3. /\ fs \in Seq(Frame(prog)) /\ Len(fs) = Len(Caller) + 1
      /\ \A k \in 1..Len(Caller) : fs[k] = Caller[k]
      /\ fs[Len(Caller) + 1] = f
  BY <1>1, AppendProperties
<1> HIDE DEF fs
<1>4. /\ gs \in Seq(Frame(prog)) /\ Len(gs) = Len(fs) + 1
      /\ \A k \in 1..Len(fs) : gs[k] = fs[k]
      /\ gs[Len(fs) + 1] = g
  BY <1>3, AppendProperties
<1> HIDE DEF gs
<1>5. DOMAIN gs = 1..Len(gs)
  BY <1>4, LenProperties
<1>6. /\ Len(Caller) + 1 = Len(frames) /\ Len(Caller) = Len(frames) - 1
      /\ Len(frames) \in 1..Len(frames)
      /\ \A k \in 1..(Len(frames) - 1) : k \in 1..Len(frames)
  BY <1>1
<1>7. Len(fs) = Len(frames) /\ Len(gs) = Len(frames) + 1
  BY <1>3, <1>4, <1>6
<1>8. /\ \A k \in 1..(Len(frames) - 1) : gs[k] = frames[k]
      /\ gs[Len(frames)] = f
  BY <1>1, <1>3, <1>4, <1>6, <1>7
<1>9. gs[Len(frames) + 1] = g
  BY ONLY <1>4, <1>7
<1> QED BY ONLY <1>2, <1>5, <1>7, <1>8, <1>9

LEMMA EnterTwoShape ==
  ASSUME FramesInv, frames # <<>>, NEW f \in Frame(prog), NEW g \in Frame(prog),
         frames' = frames \o <<f, g>>, ret' = NoRet
  PROVE  /\ Len(frames') = Len(frames) + 2
         /\ DOMAIN frames' = 1..(Len(frames) + 2)
         /\ \A k \in 1..Len(frames) : frames'[k] = frames[k]
         /\ frames'[Len(frames) + 1] = f
         /\ frames'[Len(frames) + 2] = g
<1>1. frames \in Seq(Frame(prog)) /\ Len(frames) \in Nat
  BY TopOfFrames DEF FramesInv, Stacked
<1> DEFINE gs == frames \o <<f, g>>
<1>2. <<f, g>> \in Seq(Frame(prog)) /\ Len(<<f, g>>) = 2 /\ <<f, g>>[1] = f /\ <<f, g>>[2] = g
  OBVIOUS
<1>3. /\ gs \in Seq(Frame(prog)) /\ Len(gs) = Len(frames) + 2
      /\ \A k \in 1..(Len(frames) + 2) :
           gs[k] = IF k <= Len(frames) THEN frames[k] ELSE <<f, g>>[k - Len(frames)]
  BY <1>1, <1>2, ConcatProperties
<1>4. frames' = gs
  OBVIOUS
<1> HIDE DEF gs
<1>5. DOMAIN gs = 1..Len(gs)
  BY <1>3, LenProperties
<1>6. /\ \A k \in 1..Len(frames) : gs[k] = frames[k]
      /\ gs[Len(frames) + 1] = <<f, g>>[1]
      /\ gs[Len(frames) + 2] = <<f, g>>[2]
  BY <1>1, <1>3
<1> QED BY ONLY <1>2, <1>3, <1>4, <1>5, <1>6
-----------------------------------------------------------------------------
\* What a frame has ahead when it starts, ...
LEMMA LeftAtStart ==
  ASSUME NEW t
  PROVE  /\ \A list : Left(t, ChildsFrame(list), FALSE) \subseteq Members(list)
         /\ \A list, h : Left(t, ValFrame(list, h), FALSE) \subseteq Members(list)
         /\ \A n, h, w : Left(t, ExprFrame(n, h), w) = {}
         /\ \A n, w : Left(t, BlockFrame(n), w) = {}
         /\ \A n : Left(t, FuncFrame(n), FALSE) \subseteq Parts(t, n)
         /\ \A n : Left(t, CallFrame(n), FALSE) \subseteq Parts(t, n)
<1>1. ASSUME NEW list
      PROVE  Left(t, ChildsFrame(list), FALSE) \subseteq Members(list)
  BY DEF Left, ChildsFrame, Members
<1>2. ASSUME NEW list, NEW h
      PROVE  Left(t, ValFrame(list, h), FALSE) \subseteq Members(list)
  BY DEF Left, ValFrame, Members
<1>3. ASSUME NEW n, NEW h, NEW w
      PROVE  Left(t, ExprFrame(n, h), w) = {} /\ Left(t, BlockFrame(n), w) = {}
  BY DEF Left, ExprFrame, BlockFrame
<1>4. ASSUME NEW n
      PROVE  /\ Left(t, FuncFrame(n), FALSE) \subseteq Parts(t, n)
             /\ Left(t, CallFrame(n), FALSE) \subseteq Parts(t, n)
  BY DEF Left, FuncFrame, CallFrame, Members, Parts
<1> QED BY <1>1, <1>2, <1>3, <1>4

\* ... when its loop has come to an element of its list, ...
LEMMA LeftInList ==
  ASSUME NEW t, NEW f, f.fn = "childs" \/ f.fn = "val", f.list \in Seq(Nat), Ascending(f.list),
         f.i \in Nat \ {0}
  PROVE  /\ \A w : Left(t, f, w) \subseteq Members(f.list)
         /\ Left(t, f, TRUE) \subseteq Left(t, f, FALSE)
         /\ f.i \in DOMAIN f.list =>
              /\ f.list[f.i] \in Left(t, f, FALSE)
              /\ \A x \in Left(t, f, TRUE) : f.list[f.i] < x
         /\ \A g : g.fn = f.fn /\ g.list = f.list /\ g.i = f.i + 1 =>
              Left(t, g, FALSE) \subseteq Left(t, f, TRUE)
<1>1. /\ Left(t, f, TRUE) = {f.list[j] : j \in {j \in DOMAIN f.list : f.i < j}}
      /\ Left(t, f, FALSE) = {f.list[j] : j \in {j \in DOMAIN f.list : f.i < j \/ f.i = j}}
      /\ DOMAIN f.list \subseteq Nat
  BY DEF Left
<1>2. \A w : Left(t, f, w) \subseteq Members(f.list)
  BY DEF Left, Members
<1>3. Left(t, f, TRUE) \subseteq Left(t, f, FALSE)
  BY <1>1
<1>4. ASSUME f.i \in DOMAIN f.list
      PROVE  /\ f.list[f.i] \in Left(t, f, FALSE)
             /\ \A x \in Left(t, f, TRUE) : f.list[f.i] < x
  BY <1>1, <1>4 DEF Ascending
<1>5. ASSUME NEW g, g.fn = f.fn, g.list = f.list, g.i = f.i + 1
      PROVE  Left(t, g, FALSE) \subseteq Left(t, f, TRUE)
  <2>1. Left(t, g, FALSE) = {f.list[j] : j \in {j \in DOMAIN f.list :
                                                 f.i + 1 < j \/ f.i + 1 = j}}
    BY <1>5 DEF Left
  <2>2. ASSUME NEW x \in Left(t, g, FALSE)
        PROVE  x \in Left(t, f, TRUE)
    <3>1. PICK j \in DOMAIN f.list : (f.i + 1 < j \/ f.i + 1 = j) /\ x = f.list[j]
      BY ONLY <2>1, <2>2
    <3>2. f.i < j
      BY <1>1, <3>1
    <3> QED BY ONLY <1>1, <3>1, <3>2
  <2> QED BY ONLY <2>2
<1> QED BY <1>2, <1>3, <1>4, <1>5

\* ... or to an argument, and when it has no more of them.
LEMMA LeftOfOwner ==
  ASSUME NEW t \in Programs, NEW f, f.fn = "func" \/ f.fn = "call", f.node \in DOMAIN t,
         f.a \in Nat \ {0}
  PROVE  LET args == t[f.node].args IN
         /\ \A w : Left(t, f, w) \subseteq Parts(t, f.node)
         /\ \A v, w : Left(t, f, v) = Left(t, f, w)
         /\ f.at # "body" => \A w : Members(t[f.node].kids) \subseteq Left(t, f, w)
         /\ \A g, w : g.fn = f.fn /\ g.at = "body" => Left(t, g, w) = {}
         /\ \A g, v, w : g.fn = f.fn /\ g.node = f.node /\ g.a = f.a /\ g.at = "value"
                         /\ f.at = "args" /\ f.a \in DOMAIN args =>
              /\ args[f.a] \in Left(t, f, v)
              /\ Left(t, g, w) \subseteq {x \in Left(t, f, v) : args[f.a] < x}
         /\ \A g, v, w : g.fn = f.fn /\ g.node = f.node /\ g.a = f.a + 1 /\ g.at = "args"
                         /\ f.at = "value" =>
              Left(t, g, w) \subseteq Left(t, f, v)
<1> DEFINE args == t[f.node].args
           kids == Members(t[f.node].kids)
<1>1. /\ args \in Seq(Nat) /\ Ascending(args)
      /\ \A x \in Members(args), y \in kids : x < y
      /\ DOMAIN args \subseteq Nat /\ \A j \in DOMAIN args : args[j] \in Nat
  <2>1. IsTree(t)
    BY ProgramsAssumption
  <2>2. t[f.node] \in SyntaxNode
    BY TreeParts
  <2>3. args \in Seq(Nat)
    BY <2>2 DEF SyntaxNode
  <2> QED BY <2>1, <2>3 DEF IsTree
<1>2. ASSUME NEW h, h.fn = f.fn, h.node = f.node, h.at # "body", NEW w
      PROVE  Left(t, h, w) = {args[j] : j \in {j \in DOMAIN args :
                                               h.a < j \/ (h.a = j /\ h.at = "args")}} \cup kids
  BY <1>2 DEF Left
<1>3. ASSUME NEW h, h.fn = f.fn, h.at = "body", NEW w
      PROVE  Left(t, h, w) = {}
  BY <1>3 DEF Left
<1>4. ASSUME NEW w PROVE Left(t, f, w) \subseteq Parts(t, f.node)
  <2>1. CASE f.at = "body"
    BY <1>3, <2>1
  <2>2. CASE f.at # "body"
    BY <1>2, <2>2 DEF Parts, Members
  <2> QED BY <2>1, <2>2
<1>5. ASSUME NEW v, NEW w PROVE Left(t, f, v) = Left(t, f, w)
  <2>1. CASE f.at = "body"
    BY <1>3, <2>1
  <2>2. CASE f.at # "body"
    BY <1>2, <2>2
  <2> QED BY <2>1, <2>2
<1>6. ASSUME f.at # "body", NEW w PROVE kids \subseteq Left(t, f, w)
  BY <1>2, <1>6
<1>7. ASSUME NEW g, NEW v, NEW w, g.fn = f.fn, g.node = f.node, g.a = f.a, g.at = "value",
             f.at = "args", f.a \in DOMAIN args
      PROVE  /\ args[f.a] \in Left(t, f, v)
             /\ Left(t, g, w) \subseteq {x \in Left(t, f, v) : args[f.a] < x}
  <2>1. Left(t, f, v) = {args[j] : j \in {j \in DOMAIN args : f.a < j \/ f.a = j}} \cup kids
    BY <1>2, <1>7
  <2>2. Left(t, g, w) = {args[j] : j \in {j \in DOMAIN args : f.a < j}} \cup kids
    BY <1>2, <1>7
  <2>3. args[f.a] \in Members(args) /\ \A j \in DOMAIN args : f.a < j => args[f.a] < args[j]
    BY <1>1, <1>7 DEF Members, Ascending
  <2>4. \A y \in kids : args[f.a] < y
    BY <1>1, <2>3
  <2> QED BY <1>7, <2>1, <2>2, <2>3, <2>4
<1>8. ASSUME NEW g, NEW v, NEW w, g.fn = f.fn, g.node = f.node, g.a = f.a + 1,
             g.at = "args", f.at = "value"
      PROVE  Left(t, g, w) \subseteq Left(t, f, v)
  <2>1. Left(t, f, v) = {args[j] : j \in {j \in DOMAIN args : f.a < j}} \cup kids
    BY <1>2, <1>8
  <2>2. Left(t, g, w) = {args[j] : j \in {j \in DOMAIN args : f.a + 1 < j \/ f.a + 1 = j}}
                        \cup kids
    BY <1>2, <1>8
  <2> QED BY <1>1, <2>1, <2>2
<1> QED BY <1>3, <1>4, <1>5, <1>6, <1>7, <1>8

-----------------------------------------------------------------------------
\* What a step of the executor is to the walk.  The callers of the function on
\* top are not touched, and a failure stays one.
Owns(f) == f.fn \in {"func", "call"}
Kept(f, g) ==
  /\ f.fn = g.fn /\ Nodes(f) = Nodes(g)
  /\ f.fn \in {"val", "expr"} => f.handle = g.handle
Below ==
  /\ UNCHANGED prog
  /\ \A k \in 1..(Len(frames) - 1) : frames'[k] = frames[k]
  /\ failed => failed'
  /\ \/ called' = called
     \/ Node(called'.node).type \in {"func", "call", "arg"}
     \/ /\ Top.fn \in {"val", "expr"}
        /\ called'.node \in Nodes(Top) /\ called'.object = Top.handle

\* The function on top goes on, ...
GoesOn ==
  /\ Len(frames') = Len(frames)
  /\ Kept(frames'[Len(frames)], Top)
  /\ Ahead'[Len(frames)] \subseteq Ahead[Len(frames)]
  /\ UNCHANGED <<stack, sp, objects>>

\* ... returns; that of a function or a call destroys its object and pops its
\* handle, but for the call whose argument failed, ...
Leaves ==
  /\ Len(frames') = Len(frames) - 1 /\ ret' # NoRet
  /\ UNCHANGED stack
  /\ \/ ~Owns(Top) /\ UNCHANGED <<sp, objects>>
     \/ Owns(Top) /\ objects' = objects \ {Top.node} /\ sp' = sp - 1
     \/ /\ Top.fn = "call" /\ Node(Top.node).args # <<>> /\ failed'
        /\ UNCHANGED <<sp, objects>>

\* ... starts on the body of its function, ...
HandsOver ==
  /\ Len(frames') = Len(frames) + 1
  /\ Top.fn = "func" /\ Kept(frames'[Len(frames)], Top)
  /\ frames'[Len(frames) + 1].fn = "childs"
  /\ Nodes(frames'[Len(frames) + 1]) = Members(Node(Top.node).kids)
  /\ Ahead'[Len(frames)] = {} /\ Ahead'[Len(frames) + 1] \subseteq Ahead[Len(frames)]
  /\ UNCHANGED <<stack, sp, objects>>

\* ... or comes to a node n.
ComesTo(n) ==
  /\ n \in Ahead[Len(frames)]
  /\ Len(frames') > Len(frames)
  /\ Kept(frames'[Len(frames)], Top)
  /\ Ahead'[Len(frames)] \subseteq {x \in Ahead[Len(frames)] : n < x}
  /\ \A k \in (Len(frames) + 1)..(Len(frames') - 1) : Ahead'[k] = {}
  /\ Ahead'[Len(frames')] \subseteq Parts(prog, n)
Pushes(n) ==
  /\ ComesTo(n) /\ Len(frames') = Len(frames) + 1
  /\ Owns(frames'[Len(frames')]) /\ frames'[Len(frames')].node = n
  /\ Node(n).type \in {"func", "call"}
  /\ objects' = objects \cup {n} /\ PushHandle(n)
Enters(n) ==
  /\ ComesTo(n)
  /\ \A k \in (Len(frames) + 1)..Len(frames') :
       /\ ~Owns(frames'[k])
       /\ Nodes(frames'[k]) \in {{n}, Members(Node(n).kids)}
       /\ frames'[k].fn \in {"val", "expr"} => frames'[k].handle = GetHandle
  /\ Node(n).type \notin {"func", "call"}
  /\ UNCHANGED <<stack, sp, objects>>

Walks == Below /\ (GoesOn \/ Leaves \/ HandsOver \/ \E n \in DOMAIN prog : Pushes(n) \/ Enters(n))

\* What is ahead of the function on top, before and after a step.
LEMMA AheadOfTop ==
  ASSUME FramesInv, frames # <<>>
  PROVE  /\ DOMAIN Ahead = 1..Len(frames) /\ Len(frames) \in Nat \ {0}
         /\ ret = NoRet => Ahead[Len(frames)] = Left(prog, Top, FALSE)
         /\ ret # NoRet => Ahead[Len(frames)] = Left(prog, Top, TRUE)
<1>1. Len(frames) \in Nat \ {0} /\ DOMAIN frames = 1..Len(frames)
  BY TopOfFrames
<1>2. DOMAIN Ahead = 1..Len(frames) /\ Len(frames) \in DOMAIN frames
  BY <1>1 DEF Ahead
<1>3. ASSUME ret = NoRet
      PROVE  Ahead[Len(frames)] = Left(prog, Top, FALSE)
  <2>1. ~(Len(frames) < Len(frames)) /\ ~(ret # NoRet)
    BY <1>1, <1>3
  <2> QED BY <1>1, <1>2, <2>1, Zenon DEF Ahead, Top
<1>4. ASSUME ret # NoRet
      PROVE  Ahead[Len(frames)] = Left(prog, Top, TRUE)
  BY <1>1, <1>2, <1>4 DEF Ahead, Top
<1> QED BY <1>1, <1>2, <1>3, <1>4

LEMMA AheadAfter ==
  ASSUME UNCHANGED prog, NEW k \in DOMAIN frames'
  PROVE  /\ k < Len(frames') \/ ret' # NoRet => Ahead'[k] = Left(prog, frames'[k], TRUE)
         /\ ~(k < Len(frames') \/ ret' # NoRet) => Ahead'[k] = Left(prog, frames'[k], FALSE)
BY DEF Ahead

\* The loops over a list, at their element.
LEMMA AtElement ==
  ASSUME FramesInv, frames # <<>>, Top.fn \in {"childs", "val"}, Top.i <= Len(Top.list)
  PROVE  LET n == Top.list[Top.i] IN
         /\ n \in DOMAIN prog /\ n \in Nodes(Top)
         /\ ret = NoRet => n \in Ahead[Len(frames)]
         /\ ret = NoRet => Left(prog, Top, TRUE) \subseteq {x \in Ahead[Len(frames)] : n < x}
         /\ Left(prog, Top, TRUE) \subseteq Ahead[Len(frames)]
         /\ \A g : g.fn = Top.fn /\ g.list = Top.list /\ g.i = Top.i + 1 =>
              Left(prog, g, FALSE) \subseteq Ahead[Len(frames)]
<1>1. /\ Top.list \in Seq(DOMAIN prog) /\ Ascending(Top.list) /\ Top.i \in Nat \ {0}
  BY TopKinds DEF ChildsFrames, ValFrames
<1>2. prog \in Programs /\ DOMAIN prog = 1..Len(prog) /\ Len(prog) \in Nat
  <2>1. prog \in Programs
    BY DEF FramesInv
  <2>2. prog \in Seq(SyntaxNode)
    BY <2>1, ProgramsAssumption DEF IsTree
  <2> QED BY <2>1, <2>2, LenProperties
<1>3. Top.list \in Seq(Nat) /\ Top.i \in DOMAIN Top.list
  BY <1>1, <1>2
<1>4. Top.list[Top.i] \in DOMAIN prog /\ Top.list[Top.i] \in Nodes(Top)
  BY <1>1, <1>3 DEF Nodes, Members
<1>5. /\ ret = NoRet => Ahead[Len(frames)] = Left(prog, Top, FALSE)
      /\ ret # NoRet => Ahead[Len(frames)] = Left(prog, Top, TRUE)
  BY AheadOfTop
<1>6. /\ Left(prog, Top, TRUE) \subseteq Left(prog, Top, FALSE)
      /\ Top.list[Top.i] \in Left(prog, Top, FALSE)
      /\ \A x \in Left(prog, Top, TRUE) : Top.list[Top.i] < x
      /\ \A g : g.fn = Top.fn /\ g.list = Top.list /\ g.i = Top.i + 1 =>
           Left(prog, g, FALSE) \subseteq Left(prog, Top, TRUE)
  BY <1>1, <1>3, LeftInList
<1>7. Left(prog, Top, TRUE) \subseteq Ahead[Len(frames)]
  BY <1>5, <1>6
<1>8. ASSUME ret = NoRet
      PROVE  /\ Top.list[Top.i] \in Ahead[Len(frames)]
             /\ Left(prog, Top, TRUE) \subseteq {x \in Ahead[Len(frames)] : Top.list[Top.i] < x}
  BY <1>5, <1>6, <1>8
<1>9. ASSUME NEW g, g.fn = Top.fn, g.list = Top.list, g.i = Top.i + 1
      PROVE  Left(prog, g, FALSE) \subseteq Ahead[Len(frames)]
  BY <1>6, <1>7, <1>9
<1> QED BY <1>4, <1>7, <1>8, <1>9

\* The loop over the arguments, at its argument and after it.
LEMMA AtArgument ==
  ASSUME FramesInv, frames # <<>>, Owns(Top)
  PROVE  LET m == Len(frames)
             n == Args[Top.a]
             f == [fn |-> Top.fn, node |-> Top.node, a |-> Top.a, at |-> "value"]
             g == [fn |-> Top.fn, node |-> Top.node, a |-> Top.a + 1, at |-> "args"]
         IN  /\ Top.at = "args" /\ Top.a <= Len(Args) =>
                  /\ n \in DOMAIN prog /\ Node(n).type = "arg" /\ n \in Ahead[m]
                  /\ Left(prog, f, TRUE) \subseteq {x \in Ahead[m] : n < x}
             /\ Top.at = "value" => Left(prog, g, FALSE) \subseteq Ahead[m]
             /\ Kept(f, Top) /\ Kept(g, Top)
<1> DEFINE n == Args[Top.a]
           f == [fn |-> Top.fn, node |-> Top.node, a |-> Top.a, at |-> "value"]
           g == [fn |-> Top.fn, node |-> Top.node, a |-> Top.a + 1, at |-> "args"]
<1>1. /\ prog \in Programs /\ Top.node \in DOMAIN prog /\ Top.a \in Nat \ {0}
      /\ Top.fn = "func" \/ Top.fn = "call"
  BY OwnerFrames DEF FramesInv, Owns
<1>2. Args \in Seq(DOMAIN prog) /\ Args = prog[Top.node].args
  BY <1>1, TreeParts DEF Args, Node
<1>3. PICK w \in BOOLEAN : Ahead[Len(frames)] = Left(prog, Top, w)
  BY AheadOfTop
<1>4. ASSUME Top.at = "args", Top.a <= Len(Args)
      PROVE  /\ n \in DOMAIN prog /\ Node(n).type = "arg" /\ n \in Ahead[Len(frames)]
             /\ Left(prog, f, TRUE) \subseteq {x \in Ahead[Len(frames)] : n < x}
  <2>1. Top.a \in DOMAIN Args /\ n \in DOMAIN prog /\ n \in Members(Args)
    BY <1>1, <1>2, <1>4 DEF Members
  <2>2. Node(n).type = "arg"
    BY <1>1, <1>2, <2>1, ProgramsAssumption DEF IsTree, Node
  <2>3. f.fn = Top.fn /\ f.node = Top.node /\ f.a = Top.a /\ f.at = "value"
    OBVIOUS
  <2> HIDE DEF f
  <2>4. /\ n \in Left(prog, Top, w)
        /\ Left(prog, f, TRUE) \subseteq {x \in Left(prog, Top, w) : n < x}
    <3> DEFINE h == Top
    <3> HIDE DEF h
    <3>1. /\ prog \in Programs /\ h.node \in DOMAIN prog /\ h.a \in Nat \ {0}
          /\ h.fn = "func" \/ h.fn = "call"
      BY <1>1 DEF h
    <3>2. /\ f.fn = h.fn /\ f.node = h.node /\ f.a = h.a /\ f.at = "value"
          /\ h.at = "args" /\ h.a \in DOMAIN prog[h.node].args
      BY <1>2, <1>4, <2>1, <2>3 DEF h
    <3>3. /\ prog[h.node].args[h.a] \in Left(prog, h, w)
          /\ Left(prog, f, TRUE) \subseteq {x \in Left(prog, h, w) : prog[h.node].args[h.a] < x}
      BY ONLY <3>1, <3>2, LeftOfOwner, ProgramsAssumption
    <3> QED BY <1>2, <3>3 DEF h
  <2> QED BY <1>3, <2>1, <2>2, <2>4
<1>5. ASSUME Top.at = "value"
      PROVE  Left(prog, g, FALSE) \subseteq Ahead[Len(frames)]
  <2>3. g.fn = Top.fn /\ g.node = Top.node /\ g.a = Top.a + 1 /\ g.at = "args"
    OBVIOUS
  <2> DEFINE h == Top
  <2> HIDE DEF g, h
  <2>4. /\ prog \in Programs /\ h.node \in DOMAIN prog /\ h.a \in Nat \ {0}
        /\ h.fn = "func" \/ h.fn = "call"
    BY <1>1 DEF h
  <2>5. /\ g.fn = h.fn /\ g.node = h.node /\ g.a = h.a + 1 /\ g.at = "args"
        /\ h.at = "value"
    BY <1>5, <2>3 DEF h
  <2>6. Left(prog, g, FALSE) \subseteq Left(prog, h, w)
    BY ONLY <2>4, <2>5, LeftOfOwner, ProgramsAssumption
  <2> QED BY <1>3, <2>6 DEF h
<1>6. Kept(f, Top) /\ Kept(g, Top)
  BY <1>1 DEF Kept, Nodes
<1> QED BY <1>4, <1>5, <1>6

\* The ways to go on and to return, as steps of the walk.
LEMMA Continues ==
  ASSUME FramesInv, frames # <<>>, UNCHANGED <<prog, stack, sp, objects>>,
         NEW f \in Frame(prog), Continue(f), Kept(f, Top),
         Left(prog, f, FALSE) \subseteq Ahead[Len(frames)]
  PROVE  GoesOn /\ \A k \in 1..(Len(frames) - 1) : frames'[k] = frames[k]
<1>1. /\ ret' = NoRet /\ Len(frames') = Len(frames)
      /\ DOMAIN frames' = 1..Len(frames) /\ Len(frames) \in Nat \ {0}
      /\ \A k \in 1..(Len(frames) - 1) : frames'[k] = frames[k]
      /\ frames'[Len(frames)] = f
  BY ContinueShape, TopOfFrames
<1>2. Ahead'[Len(frames)] = Left(prog, f, FALSE)
  <2>1. Len(frames) \in DOMAIN frames' /\ ~(Len(frames) < Len(frames') \/ ret' # NoRet)
    BY <1>1
  <2> QED BY <1>1, <2>1, AheadAfter
<1> QED BY <1>1, <1>2 DEF GoesOn

LEMMA Refuses ==
  ASSUME FramesInv, frames # <<>>, ret = NoRet, ret' # NoRet,
         UNCHANGED <<prog, frames, stack, sp, objects>>,
         Top.fn \in {"childs", "val"}, Top.i <= Len(Top.list)
  PROVE  GoesOn /\ \A k \in 1..(Len(frames) - 1) : frames'[k] = frames[k]
<1>1. Left(prog, Top, TRUE) \subseteq Ahead[Len(frames)]
  BY AtElement
<1>2. Len(frames) \in DOMAIN frames /\ frames[Len(frames)] = Top
  BY TopOfFrames DEF Top
<1>3. Ahead'[Len(frames)] = Left(prog, Top, TRUE)
  BY <1>2, AheadAfter
<1> QED BY <1>1, <1>2, <1>3 DEF GoesOn, Kept

LEMMA Returns ==
  ASSUME FramesInv, frames # <<>>, NEW r, r # NoRet, Return(r)
  PROVE  /\ Len(frames') = Len(frames) - 1 /\ ret' # NoRet
         /\ \A k \in 1..(Len(frames) - 1) : frames'[k] = frames[k]
BY ReturnShape

LEMMA Comes ==
  ASSUME FramesInv, frames # <<>>, UNCHANGED prog,
         NEW f \in Frame(prog), NEW g \in Frame(prog), EnterAs(f, g), Kept(f, Top),
         NEW n \in Ahead[Len(frames)],
         Left(prog, f, TRUE) \subseteq {x \in Ahead[Len(frames)] : n < x},
         Left(prog, g, FALSE) \subseteq Parts(prog, n)
  PROVE  /\ ComesTo(n) /\ Len(frames') = Len(frames) + 1
         /\ frames'[Len(frames')] = g
         /\ \A k \in 1..(Len(frames) - 1) : frames'[k] = frames[k]
<1>1. /\ ret' = NoRet /\ Len(frames') = Len(frames) + 1
      /\ DOMAIN frames' = 1..(Len(frames) + 1) /\ Len(frames) \in Nat \ {0}
      /\ \A k \in 1..(Len(frames) - 1) : frames'[k] = frames[k]
      /\ frames'[Len(frames)] = f
      /\ frames'[Len(frames) + 1] = g
  BY EnterShape, TopOfFrames
<1>2. /\ Len(frames) \in DOMAIN frames' /\ Len(frames) + 1 \in DOMAIN frames'
      /\ Len(frames) < Len(frames') /\ ~(Len(frames) + 1 < Len(frames') \/ ret' # NoRet)
      /\ \A k \in (Len(frames) + 1)..(Len(frames') - 1) : FALSE
  BY <1>1
<1>3. Ahead'[Len(frames)] = Left(prog, f, TRUE)
  BY <1>1, <1>2, AheadAfter
<1>4. Ahead'[Len(frames) + 1] = Left(prog, g, FALSE)
  BY <1>1, <1>2, AheadAfter
<1>5. ComesTo(n)
  BY <1>1, <1>2, <1>3, <1>4 DEF ComesTo
<1> QED BY <1>1, <1>5

LEMMA ComesTwice ==
  ASSUME FramesInv, frames # <<>>, UNCHANGED prog,
         NEW f \in Frame(prog), NEW g \in Frame(prog),
         frames' = frames \o <<f, g>>, ret' = NoRet,
         NEW n \in Ahead[Len(frames)],
         Left(prog, Top, TRUE) \subseteq {x \in Ahead[Len(frames)] : n < x},
         Left(prog, f, TRUE) = {}, Left(prog, g, FALSE) \subseteq Parts(prog, n)
  PROVE  /\ ComesTo(n) /\ Len(frames') = Len(frames) + 2
         /\ frames'[Len(frames) + 1] = f /\ frames'[Len(frames) + 2] = g
         /\ \A k \in 1..(Len(frames) - 1) : frames'[k] = frames[k]
<1>1. /\ Len(frames') = Len(frames) + 2
      /\ DOMAIN frames' = 1..(Len(frames) + 2) /\ Len(frames) \in Nat \ {0}
      /\ \A k \in 1..Len(frames) : frames'[k] = frames[k]
      /\ frames'[Len(frames)] = Top
      /\ frames'[Len(frames) + 1] = f
      /\ frames'[Len(frames) + 2] = g
  BY EnterTwoShape, TopOfFrames DEF Top
<1>2. /\ Len(frames) \in DOMAIN frames' /\ Len(frames) < Len(frames')
      /\ Len(frames) + 1 \in DOMAIN frames' /\ Len(frames) + 1 < Len(frames')
      /\ Len(frames) + 2 \in DOMAIN frames'
      /\ ~(Len(frames) + 2 < Len(frames') \/ ret' # NoRet)
      /\ \A k \in (Len(frames) + 1)..(Len(frames') - 1) : k = Len(frames) + 1
  BY <1>1
<1>3. Ahead'[Len(frames)] = Left(prog, Top, TRUE)
  BY <1>1, <1>2, AheadAfter
<1>4. Ahead'[Len(frames) + 1] = {}
  BY <1>1, <1>2, AheadAfter
<1>5. Ahead'[Len(frames) + 2] = Left(prog, g, FALSE)
  BY <1>1, <1>2, AheadAfter
<1>6. ComesTo(n)
  BY <1>1, <1>2, <1>3, <1>4, <1>5 DEF ComesTo, Kept
<1> QED BY <1>1, <1>6

\* The same, action by action.
LEMMA ChildsEnterFuncWalks ==
  ASSUME ResultInv, ChildsEnterFunc
  PROVE  Walks
<1> DEFINE n == Top.list[Top.i]
<1>1. /\ FramesInv /\ frames # <<>> /\ ret = NoRet /\ Top.fn = "childs"
      /\ Top.i <= Len(Top.list) /\ UNCHANGED prog
  BY DEF ChildsEnterFunc, Running, ResultInv
<1>2. /\ n \in DOMAIN prog /\ n \in Ahead[Len(frames)]
      /\ Left(prog, Top, TRUE) \subseteq {x \in Ahead[Len(frames)] : n < x}
  BY <1>1, AtElement
<1>3. Node(n).type = "func"
  BY DEF ChildsEnterFunc
<1>4. PICK a \in Answers("func") :
         /\ Callback(n, n, a)
         /\ IF a = "null"
            THEN /\ ret' = Dead /\ failed' = TRUE
                 /\ UNCHANGED <<frames, stack, sp, objects>>
            ELSE /\ objects' = objects \cup {n}
                 /\ PushHandle(n)
                 /\ Enter(FuncFrame(n))
                 /\ UNCHANGED failed
  BY DEF ChildsEnterFunc
<1> HIDE DEF n
<1>5. Node(called'.node).type \in {"func", "call", "arg"}
  BY <1>3, <1>4 DEF Callback
<1>6. CASE a = "null"
  <2>1. GoesOn /\ \A k \in 1..(Len(frames) - 1) : frames'[k] = frames[k]
    BY <1>1, <1>4, <1>6, Refuses DEF Dead, NoRet
  <2>2. failed'
    BY <1>4, <1>6
  <2> QED BY <1>1, <1>5, <2>1, <2>2 DEF Walks, Below
<1>7. CASE a # "null"
  <2>1. FuncFrame(n) \in Frame(prog) /\ Top \in Frame(prog)
    BY <1>1, <1>2, <1>3, NewFrames, TopKinds DEF Node
  <2>2. EnterAs(Top, FuncFrame(n)) /\ Kept(Top, Top)
    BY <1>1, <1>4, <1>7, EnterIsEnterAs DEF Kept
  <2>3. Left(prog, FuncFrame(n), FALSE) \subseteq Parts(prog, n)
    BY LeftAtStart
  <2>4. /\ ComesTo(n) /\ Len(frames') = Len(frames) + 1
        /\ frames'[Len(frames')] = FuncFrame(n)
        /\ \A k \in 1..(Len(frames) - 1) : frames'[k] = frames[k]
    BY <1>1, <1>2, <2>1, <2>2, <2>3, Comes
  <2>5. Pushes(n)
    BY <1>3, <1>4, <1>7, <2>4 DEF Pushes, Owns, FuncFrame
  <2>6. failed' = failed
    BY <1>4, <1>7
  <2> QED BY <1>1, <1>2, <1>5, <2>4, <2>5, <2>6 DEF Walks, Below
<1> QED BY <1>6, <1>7

LEMMA ChildsEnterExprWalks ==
  ASSUME ResultInv, ChildsEnterExpr
  PROVE  Walks
<1> DEFINE n == Top.list[Top.i]
           f == ExprFrame(n, GetHandle)
           g == ValFrame(Node(n).kids, GetHandle)
<1>1. /\ FramesInv /\ ValuesInv /\ frames # <<>> /\ ret = NoRet /\ Top.fn = "childs"
      /\ Top.i <= Len(Top.list)
      /\ UNCHANGED <<prog, stack, sp, objects, called, failed>>
      /\ frames' = frames \o <<f, g>> /\ ret' = NoRet /\ Node(n).type = "expr"
  BY DEF ChildsEnterExpr, Running, ResultInv
<1>2. /\ n \in DOMAIN prog /\ n \in Ahead[Len(frames)]
      /\ Left(prog, Top, TRUE) \subseteq {x \in Ahead[Len(frames)] : n < x}
  BY <1>1, AtElement
<1> HIDE DEF n
<1>3. f \in Frame(prog) /\ g \in Frame(prog)
  <2>1. Node(n).kids \in Lists(prog) /\ GetHandle \in Nat
    BY <1>1, <1>2, TreeParts, HandleIsNat DEF FramesInv, Node
  <2> QED BY <1>2, <2>1, NewFrames
<1>4. Left(prog, f, TRUE) = {} /\ Left(prog, g, FALSE) \subseteq Parts(prog, n)
  <2>1. Left(prog, g, FALSE) \subseteq Members(Node(n).kids)
    BY LeftAtStart
  <2> QED BY <2>1, LeftAtStart DEF Parts, Node
<1>5. /\ ~Owns(f) /\ Nodes(f) = {n} /\ f.handle = GetHandle
      /\ ~Owns(g) /\ Nodes(g) = Members(Node(n).kids) /\ g.handle = GetHandle
  BY DEF Owns, Nodes, ExprFrame, ValFrame
<1> HIDE DEF f, g
<1>6. /\ ComesTo(n) /\ Len(frames') = Len(frames) + 2
      /\ frames'[Len(frames) + 1] = f /\ frames'[Len(frames) + 2] = g
      /\ \A k \in 1..(Len(frames) - 1) : frames'[k] = frames[k]
  BY <1>1, <1>2, <1>3, <1>4, ComesTwice
<1>7. Enters(n)
  <2>1. \A k \in (Len(frames) + 1)..Len(frames') : k = Len(frames) + 1 \/ k = Len(frames) + 2
    BY <1>1, <1>6, TopOfFrames
  <2> QED BY <1>1, <1>5, <1>6, <2>1 DEF Enters
<1> QED BY <1>1, <1>2, <1>6, <1>7 DEF Walks, Below

LEMMA ChildsEnterBlockWalks ==
  ASSUME ResultInv, ChildsEnterBlock
  PROVE  Walks
<1> DEFINE n == Top.list[Top.i]
           f == BlockFrame(n)
           g == ChildsFrame(Node(n).kids)
<1>1. /\ FramesInv /\ frames # <<>> /\ ret = NoRet /\ Top.fn = "childs"
      /\ Top.i <= Len(Top.list)
      /\ UNCHANGED <<prog, stack, sp, objects, called, failed>>
      /\ frames' = frames \o <<f, g>> /\ ret' = NoRet /\ Node(n).type = "block"
  BY DEF ChildsEnterBlock, Running, ResultInv
<1>2. /\ n \in DOMAIN prog /\ n \in Ahead[Len(frames)]
      /\ Left(prog, Top, TRUE) \subseteq {x \in Ahead[Len(frames)] : n < x}
  BY <1>1, AtElement
<1> HIDE DEF n
<1>3. f \in Frame(prog) /\ g \in Frame(prog)
  <2>1. Node(n).kids \in Lists(prog)
    BY <1>1, <1>2, TreeParts DEF FramesInv, Node
  <2> QED BY <1>2, <2>1, NewFrames
<1>4. Left(prog, f, TRUE) = {} /\ Left(prog, g, FALSE) \subseteq Parts(prog, n)
  <2>1. Left(prog, g, FALSE) \subseteq Members(Node(n).kids)
    BY LeftAtStart
  <2> QED BY <2>1, LeftAtStart DEF Parts, Node
<1>5. /\ ~Owns(f) /\ Nodes(f) = {n} /\ f.fn = "block"
      /\ ~Owns(g) /\ Nodes(g) = Members(Node(n).kids) /\ g.fn = "childs"
  BY DEF Owns, Nodes, BlockFrame, ChildsFrame
<1> HIDE DEF f, g
<1>6. /\ ComesTo(n) /\ Len(frames') = Len(frames) + 2
      /\ frames'[Len(frames) + 1] = f /\ frames'[Len(frames) + 2] = g
      /\ \A k \in 1..(Len(frames) - 1) : frames'[k] = frames[k]
  BY <1>1, <1>2, <1>3, <1>4, ComesTwice
<1>7. Enters(n)
  <2>1. \A k \in (Len(frames) + 1)..Len(frames') : k = Len(frames) + 1 \/ k = Len(frames) + 2
    BY <1>1, <1>6, TopOfFrames
  <2> QED BY <1>1, <1>5, <1>6, <2>1 DEF Enters
<1> QED BY <1>1, <1>2, <1>6, <1>7 DEF Walks, Below

LEMMA ChildsEndWalks ==
  ASSUME ResultInv, ChildsEnd
  PROVE  Walks
<1>1. /\ FramesInv /\ frames # <<>> /\ Top.fn = "childs"
      /\ UNCHANGED <<prog, stack, sp, objects, called, failed>> /\ Return(Top.res)
  BY DEF ChildsEnd, Running, ResultInv
<1>2. Top.res # NoRet
  BY <1>1, TopKinds DEF ChildsFrames, Uninit, False, True, NoRet
<1>3. /\ Len(frames') = Len(frames) - 1 /\ ret' # NoRet
      /\ \A k \in 1..(Len(frames) - 1) : frames'[k] = frames[k]
  BY <1>1, <1>2, Returns
<1> QED BY <1>1, <1>3 DEF Walks, Below, Leaves, Owns

LEMMA ChildsReturnedWalks ==
  ASSUME ResultInv, ChildsReturned
  PROVE  Walks
<1> DEFINE next == Node(Top.list[Top.i]).opt
           res  == IF Valid(ret) THEN Combine(Top.res, Top.opt, ret) ELSE Dead
           f    == [Top EXCEPT !.i = @ + 1, !.res = res, !.opt = next]
<1>1. /\ FramesInv /\ frames # <<>> /\ ret # NoRet /\ Top.fn = "childs"
      /\ UNCHANGED <<prog, stack, sp, objects, called>>
      /\ IF res = Dead \/ Decided(next, res) THEN Return(res) ELSE Continue(f)
      /\ failed => failed'
  BY DEF ChildsReturned, Returned, ResultInv
<1> HIDE DEF f
<1>2. /\ Top \in ChildsFrames(prog) /\ Top.list[Top.i] \in DOMAIN prog
      /\ ret \in {Dead, Uninit, False, True} /\ Top.i <= Len(Top.list)
  BY <1>1, TopKinds DEF ChildsFrames, Waiting, Wants, Results
<1>3. next \in Opts
  BY <1>1, <1>2, TreeParts DEF FramesInv, Node
<1>4. res \in {False, True, Dead}
  BY <1>2 DEF ChildsFrames, Valid, Combine
<1> HIDE DEF res, next
<1>5. CASE res = Dead \/ Decided(next, res)
  <2>1. Return(res) /\ res # NoRet
    BY <1>1, <1>4, <1>5 DEF Dead, False, True, NoRet
  <2>2. /\ Len(frames') = Len(frames) - 1 /\ ret' # NoRet
        /\ \A k \in 1..(Len(frames) - 1) : frames'[k] = frames[k]
    BY <1>1, <2>1, Returns
  <2> QED BY <1>1, <2>2 DEF Walks, Below, Leaves, Owns
<1>6. CASE ~(res = Dead \/ Decided(next, res))
  <2>1. Continue(f) /\ res \in {False, True}
    BY <1>1, <1>4, <1>6
  <2>2. /\ f \in ChildsFrames(prog) /\ f.fn = "childs" /\ f.list = Top.list
        /\ f.i = Top.i + 1
    <3> DEFINE g == [fn |-> "childs", list |-> Top.list, i |-> Top.i + 1, res |-> res,
                     opt |-> next]
    <3>1. g \in ChildsFrames(prog) /\ f = g
      BY <1>2, <1>3, <2>1, NextChild DEF f
    <3> QED BY <3>1
  <2>3. Kept(f, Top) /\ f \in Frame(prog)
    BY <1>1, <2>2 DEF Kept, Nodes, Frame
  <2>4. Left(prog, f, FALSE) \subseteq Ahead[Len(frames)]
    BY <1>1, <1>2, <2>2, AtElement
  <2>5. GoesOn /\ \A k \in 1..(Len(frames) - 1) : frames'[k] = frames[k]
    BY <1>1, <2>1, <2>3, <2>4, Continues
  <2> QED BY <1>1, <2>5 DEF Walks, Below
<1> QED BY <1>5, <1>6

LEMMA BlockReturnedWalks ==
  ASSUME ResultInv, BlockReturned
  PROVE  Walks
<1> DEFINE r == IF Node(Top.node).neg THEN (IF ret = 0 THEN True ELSE False) ELSE ret
<1>1. /\ FramesInv /\ frames # <<>> /\ ret # NoRet /\ Top.fn = "block"
      /\ UNCHANGED <<prog, stack, sp, objects, called, failed>> /\ Return(r)
  BY DEF BlockReturned, Returned, ResultInv
<1>2. r # NoRet
  BY <1>1 DEF True, False, NoRet
<1> HIDE DEF r
<1>3. /\ Len(frames') = Len(frames) - 1 /\ ret' # NoRet
      /\ \A k \in 1..(Len(frames) - 1) : frames'[k] = frames[k]
  BY <1>1, <1>2, Returns
<1> QED BY <1>1, <1>3 DEF Walks, Below, Leaves, Owns

LEMMA ExprReturnedWalks ==
  ASSUME ResultInv, ExprReturned
  PROVE  Walks
<1>1. /\ FramesInv /\ frames # <<>> /\ Top.fn = "expr"
      /\ UNCHANGED <<prog, stack, sp, objects>>
  BY DEF ExprReturned, Returned, ResultInv
<1>2. PICK r \in {Dead, False, True} : Return(r)
  BY DEF ExprReturned, VerdictOf
<1>3. failed => failed'
  BY DEF ExprReturned
<1>4. \/ called' = called
      \/ called'.node \in Nodes(Top) /\ called'.object = Top.handle
  BY <1>1 DEF ExprReturned, Callback, Nodes
<1>5. /\ Len(frames') = Len(frames) - 1 /\ ret' # NoRet
      /\ \A k \in 1..(Len(frames) - 1) : frames'[k] = frames[k]
  BY <1>1, <1>2, Returns DEF Dead, False, True, NoRet
<1> QED BY <1>1, <1>3, <1>4, <1>5 DEF Walks, Below, Leaves, Owns

LEMMA ArgEnterWalks ==
  ASSUME ResultInv, NEW fn \in {"func", "call"}, ArgEnter(fn)
  PROVE  Walks
<1> DEFINE n == Args[Top.a]
           f == [fn |-> Top.fn, node |-> Top.node, a |-> Top.a, at |-> "value"]
           g == ValFrame(Node(n).kids, GetHandle)
<1>1. /\ FramesInv /\ ValuesInv /\ frames # <<>> /\ Top.fn \in {"func", "call"}
      /\ Owns(Top) /\ Top.at = "args" /\ Top.a <= Len(Args)
      /\ UNCHANGED <<prog, stack, sp, objects, called, failed>>
      /\ EnterAs([Top EXCEPT !.at = "value"], g)
  BY DEF ArgEnter, Running, ResultInv, Owns
<1>2. /\ f \in Frame(prog) /\ [Top EXCEPT !.at = "value"] = f
  BY <1>1, OwnerFrames
<1>3. /\ n \in DOMAIN prog /\ Node(n).type = "arg" /\ n \in Ahead[Len(frames)]
      /\ Left(prog, f, TRUE) \subseteq {x \in Ahead[Len(frames)] : n < x}
      /\ Kept(f, Top)
  BY <1>1, AtArgument
<1>4. EnterAs(f, g)
  BY <1>1, <1>2
<1> HIDE DEF n, f
<1>5. g \in Frame(prog)
  <2>1. Node(n).kids \in Lists(prog) /\ GetHandle \in Nat
    BY <1>1, <1>3, TreeParts, HandleIsNat DEF FramesInv, Node
  <2> QED BY <2>1, NewFrames
<1>6. Left(prog, g, FALSE) \subseteq Parts(prog, n)
  <2>1. Left(prog, g, FALSE) \subseteq Members(Node(n).kids)
    BY LeftAtStart
  <2> QED BY <2>1 DEF Parts, Node
<1>7. ~Owns(g) /\ Nodes(g) = Members(Node(n).kids) /\ g.handle = GetHandle
  BY DEF Owns, Nodes, ValFrame
<1> HIDE DEF g
<1>8. /\ ComesTo(n) /\ Len(frames') = Len(frames) + 1
      /\ frames'[Len(frames')] = g
      /\ \A k \in 1..(Len(frames) - 1) : frames'[k] = frames[k]
  BY <1>1, <1>2, <1>3, <1>4, <1>5, <1>6, Comes
<1>9. Enters(n)
  <2>1. \A k \in (Len(frames) + 1)..Len(frames') : k = Len(frames')
    BY <1>1, <1>8, TopOfFrames
  <2> QED BY <1>1, <1>3, <1>7, <1>8, <2>1 DEF Enters
<1> QED BY <1>1, <1>3, <1>8, <1>9 DEF Walks, Below

LEMMA ArgReturnedWalks ==
  ASSUME ResultInv, NEW fn \in {"func", "call"}, NEW error, error # NoRet,
         ArgReturned(fn, error)
  PROVE  Walks
<1> DEFINE g == [fn |-> Top.fn, node |-> Top.node, a |-> Top.a + 1, at |-> "args"]
<1>1. /\ FramesInv /\ frames # <<>> /\ Top.fn \in {"func", "call"} /\ Top.at = "value"
      /\ Owns(Top) /\ ret # NoRet /\ UNCHANGED <<prog, stack>>
  BY DEF ArgReturned, Returned, ResultInv, Owns
<1>2. PICK a \in Answers("arg") :
         /\ Callback(Args[Top.a], Top.node, a)
         /\ IF a = "fail"
            THEN Leave(error) /\ failed' = TRUE
            ELSE /\ Continue([Top EXCEPT !.a = @ + 1, !.at = "args"])
                 /\ UNCHANGED <<sp, objects, failed>>
  BY DEF ArgReturned
<1>3. Node(called'.node).type \in {"func", "call", "arg"}
  <2>1. called'.node = Args[Top.a]
    BY <1>2 DEF Callback
  <2>2. Top.a \in DOMAIN Args /\ Top.node \in DOMAIN prog
    BY <1>1, TopKinds, OwnerFrames DEF Waiting, Args, Node
  <2>3. Args[Top.a] \in Members(prog[Top.node].args)
    BY <2>2 DEF Members, Args, Node
  <2>4. IsTree(prog)
    BY <1>1, ProgramsAssumption DEF FramesInv
  <2>5. Node(Args[Top.a]).type = "arg"
    BY <2>2, <2>3, <2>4 DEF IsTree, Node
  <2> QED BY <2>1, <2>5
<1>4. CASE a = "fail"
  <2>1. Return(error) /\ objects' = objects \ {Top.node} /\ sp' = sp - 1 /\ failed'
    BY <1>2, <1>4 DEF Leave
  <2>2. /\ Len(frames') = Len(frames) - 1 /\ ret' # NoRet
        /\ \A k \in 1..(Len(frames) - 1) : frames'[k] = frames[k]
    BY <1>1, <2>1, Returns
  <2> QED BY <1>1, <1>3, <2>1, <2>2 DEF Walks, Below, Leaves
<1>5. CASE a # "fail"
  <2>1. /\ Continue([Top EXCEPT !.a = @ + 1, !.at = "args"])
        /\ UNCHANGED <<sp, objects, failed>>
    BY <1>2, <1>5
  <2>2. Continue(g) /\ g \in Frame(prog)
    BY <1>1, <2>1, OwnerFrames
  <2>3. Kept(g, Top) /\ Left(prog, g, FALSE) \subseteq Ahead[Len(frames)]
    BY <1>1, AtArgument
  <2> HIDE DEF g
  <2>4. GoesOn /\ \A k \in 1..(Len(frames) - 1) : frames'[k] = frames[k]
    BY <1>1, <2>1, <2>2, <2>3, Continues
  <2> QED BY <1>1, <1>3, <2>1, <2>4 DEF Walks, Below
<1> QED BY <1>4, <1>5

LEMMA FuncArgFailedWalks ==
  ASSUME ResultInv, FuncArgFailed
  PROVE  Walks
<1>1. /\ FramesInv /\ frames # <<>> /\ Owns(Top)
      /\ UNCHANGED <<prog, stack, called, failed>>
      /\ Return(Dead) /\ objects' = objects \ {Top.node} /\ sp' = sp - 1
  BY DEF FuncArgFailed, Returned, ResultInv, Owns, Leave
<1>2. /\ Len(frames') = Len(frames) - 1 /\ ret' # NoRet
      /\ \A k \in 1..(Len(frames) - 1) : frames'[k] = frames[k]
  BY <1>1, Returns DEF Dead, NoRet
<1> QED BY <1>1, <1>2 DEF Walks, Below, Leaves

LEMMA CallArgFailedWalks ==
  ASSUME ResultInv, CallArgFailed
  PROVE  Walks
<1>1. /\ FramesInv /\ frames # <<>> /\ Top.fn = "call" /\ Top.at = "value"
      /\ ret # NoRet /\ ret # Ok
      /\ UNCHANGED <<prog, stack, sp, objects, called, failed>> /\ Return(ret)
  BY DEF CallArgFailed, Returned, ResultInv
<1>2. ret = Einval /\ Node(Top.node).args # <<>>
  <2>1. Waiting(prog, Top) /\ ret \in Results(Wants(Top))
    BY <1>1, TopKinds
  <2>2. Top.a \in DOMAIN Node(Top.node).args
    BY <1>1, <2>1 DEF Waiting, Node
  <2>3. Node(Top.node).args # <<>>
    BY <2>2
  <2> QED BY <1>1, <2>1, <2>3 DEF Wants, Results
<1>3. failed'
  BY <1>1, <1>2 DEF ResultInv, FailInv
<1>4. /\ Len(frames') = Len(frames) - 1 /\ ret' # NoRet
      /\ \A k \in 1..(Len(frames) - 1) : frames'[k] = frames[k]
  BY <1>1, Returns
<1> QED BY <1>1, <1>2, <1>3, <1>4 DEF Walks, Below, Leaves

LEMMA FuncExecWalks ==
  ASSUME ResultInv, FuncExec
  PROVE  Walks
<1> DEFINE f == [Top EXCEPT !.at = "body"]
           g == ChildsFrame(Node(Top.node).kids)
<1>1. /\ FramesInv /\ frames # <<>> /\ Top.fn = "func" /\ Owns(Top) /\ Top.at = "args"
      /\ Top.a > Len(Args)
      /\ UNCHANGED <<prog, stack>> /\ called'.node = Top.node
      /\ IF answer[Top.node] = "fail"
         THEN Leave(Dead) /\ failed' = TRUE
         ELSE /\ EnterAs(f, g)
              /\ UNCHANGED <<sp, objects, failed>>
  BY DEF FuncExec, Running, ResultInv, Owns
<1> HIDE DEF f, g
<1>2. Top \in FuncFrames(prog) /\ Top.node \in DOMAIN prog /\ Node(Top.node).type = "func"
  BY <1>1, TopKinds DEF FuncFrames, Node
<1>3. Node(called'.node).type \in {"func", "call", "arg"}
  BY <1>1, <1>2
<1>4. CASE answer[Top.node] = "fail"
  <2>1. Return(Dead) /\ objects' = objects \ {Top.node} /\ sp' = sp - 1 /\ failed'
    BY <1>1, <1>4 DEF Leave
  <2>2. /\ Len(frames') = Len(frames) - 1 /\ ret' # NoRet
        /\ \A k \in 1..(Len(frames) - 1) : frames'[k] = frames[k]
    BY <1>1, <2>1, Returns DEF Dead, NoRet
  <2> QED BY <1>1, <1>3, <2>1, <2>2 DEF Walks, Below, Leaves
<1>5. CASE answer[Top.node] # "fail"
  <2>1. EnterAs(f, g) /\ UNCHANGED <<sp, objects, failed>>
    BY <1>1, <1>5
  <2>2. /\ f \in FuncFrames(prog) /\ f.fn = "func" /\ f.node = Top.node /\ f.at = "body"
    BY <1>2 DEF f, FuncFrames
  <2>3. g \in Frame(prog) /\ g.fn = "childs" /\ Nodes(g) = Members(Node(Top.node).kids)
    <3>1. Node(Top.node).kids \in Lists(prog)
      BY <1>1, <1>2, TreeParts DEF FramesInv, Node
    <3> QED BY <3>1, NewFrames DEF g, Nodes, ChildsFrame
  <2>4. f \in Frame(prog) /\ Kept(f, Top)
    BY <1>1, <2>2 DEF Frame, Kept, Nodes
  <2>5. /\ ret' = NoRet /\ Len(frames') = Len(frames) + 1
        /\ DOMAIN frames' = 1..(Len(frames) + 1) /\ Len(frames) \in Nat \ {0}
        /\ \A k \in 1..(Len(frames) - 1) : frames'[k] = frames[k]
        /\ frames'[Len(frames)] = f
        /\ frames'[Len(frames) + 1] = g
    BY <1>1, <2>1, <2>3, <2>4, EnterShape, TopOfFrames
  <2>6. /\ Len(frames) \in DOMAIN frames' /\ Len(frames) + 1 \in DOMAIN frames'
        /\ Len(frames) < Len(frames') /\ ~(Len(frames) + 1 < Len(frames') \/ ret' # NoRet)
    BY <2>5
  <2>7. Ahead'[Len(frames)] = {}
    <3>1. Ahead'[Len(frames)] = Left(prog, f, TRUE)
      BY <1>1, <2>5, <2>6, AheadAfter
    <3> QED BY <2>2, <3>1 DEF Left
  <2>8. Ahead'[Len(frames) + 1] \subseteq Ahead[Len(frames)]
    <3>1. Ahead'[Len(frames) + 1] = Left(prog, g, FALSE)
      BY <1>1, <2>5, <2>6, AheadAfter
    <3>2. Left(prog, g, FALSE) \subseteq Members(prog[Top.node].kids)
      BY LeftAtStart DEF g, Node
    <3>3. PICK w \in BOOLEAN : Ahead[Len(frames)] = Left(prog, Top, w)
      BY <1>1, AheadOfTop
    <3>4. Members(prog[Top.node].kids) \subseteq Left(prog, Top, w)
      <4>1. prog \in Programs /\ Top.a \in Nat \ {0} /\ Top.at # "body"
        BY <1>1, <1>2 DEF FramesInv, FuncFrames
      <4> QED BY <1>1, <1>2, <4>1, LeftOfOwner
    <3> QED BY <3>1, <3>2, <3>3, <3>4
  <2>9. HandsOver
    BY <1>1, <2>1, <2>3, <2>4, <2>5, <2>7, <2>8 DEF HandsOver
  <2> QED BY <1>1, <1>3, <2>1, <2>5, <2>9 DEF Walks, Below
<1> QED BY <1>4, <1>5

LEMMA FuncBodyReturnedWalks ==
  ASSUME ResultInv, FuncBodyReturned
  PROVE  Walks
<1>1. /\ FramesInv /\ frames # <<>> /\ Owns(Top) /\ ret # NoRet
      /\ UNCHANGED <<prog, stack, called, failed>>
      /\ Return(ret) /\ objects' = objects \ {Top.node} /\ sp' = sp - 1
  BY DEF FuncBodyReturned, Returned, ResultInv, Owns, Leave
<1>2. /\ Len(frames') = Len(frames) - 1 /\ ret' # NoRet
      /\ \A k \in 1..(Len(frames) - 1) : frames'[k] = frames[k]
  BY <1>1, Returns
<1> QED BY <1>1, <1>2 DEF Walks, Below, Leaves

LEMMA CallExecWalks ==
  ASSUME ResultInv, CallExec
  PROVE  Walks
<1>1. /\ FramesInv /\ frames # <<>> /\ Top.fn = "call" /\ Owns(Top)
      /\ UNCHANGED <<prog, stack>> /\ called'.node = Top.node /\ (failed => failed')
  BY DEF CallExec, Running, ResultInv, Owns
<1>2. PICK r \in {Ok, Einval} : Leave(r)
  BY DEF CallExec
<1>3. Return(r) /\ objects' = objects \ {Top.node} /\ sp' = sp - 1
  BY <1>2 DEF Leave
<1>4. Node(called'.node).type \in {"func", "call", "arg"}
  BY <1>1, TopKinds DEF CallFrames, Node
<1>5. /\ Len(frames') = Len(frames) - 1 /\ ret' # NoRet
      /\ \A k \in 1..(Len(frames) - 1) : frames'[k] = frames[k]
  BY <1>1, <1>3, Returns DEF Ok, Einval, NoRet
<1> QED BY <1>1, <1>3, <1>4, <1>5 DEF Walks, Below, Leaves

LEMMA FoldWalks ==
  ASSUME FramesInv, frames # <<>>, Top.fn = "val", Top.i <= Len(Top.list),
         UNCHANGED <<prog, stack, sp, objects>>, NEW v, Fold(v)
  PROVE  /\ (GoesOn \/ Leaves) /\ (failed => failed')
         /\ \A k \in 1..(Len(frames) - 1) : frames'[k] = frames[k]
<1> DEFINE opt == Node(Top.list[Top.i]).opt
           f   == [Top EXCEPT !.i = @ + 1, !.arg = IntVal, !.opt = opt]
<1>1. failed => failed'
  BY DEF Fold
<1> HIDE DEF f
<1>2. (\E r \in {Ok, Einval} : Return(r)) \/ Continue(f)
  BY DEF Fold, f
<1>3. CASE \E r \in {Ok, Einval} : Return(r)
  <2>1. PICK r \in {Ok, Einval} : Return(r)
    BY <1>3
  <2>2. /\ Len(frames') = Len(frames) - 1 /\ ret' # NoRet
        /\ \A k \in 1..(Len(frames) - 1) : frames'[k] = frames[k]
    BY <2>1, Returns DEF Ok, Einval, NoRet
  <2> QED BY <1>1, <2>2 DEF Leaves, Owns
<1>4. CASE Continue(f)
  <2>1. Top \in ValFrames(prog) /\ Top.list[Top.i] \in DOMAIN prog
    BY TopKinds, AtElement
  <2>2. opt \in Opts
    BY <2>1, TreeParts DEF FramesInv, Node
  <2> HIDE DEF opt
  <2>3. /\ f \in ValFrames(prog) /\ f.fn = "val" /\ f.list = Top.list
        /\ f.i = Top.i + 1 /\ f.handle = Top.handle
    <3> DEFINE g == [fn |-> "val", list |-> Top.list, i |-> Top.i + 1, arg |-> IntVal,
                     opt |-> opt, handle |-> Top.handle]
    <3>1. g \in ValFrames(prog) /\ f = g
      BY <2>1, <2>2, NextOperand DEF f
    <3> QED BY <3>1
  <2>4. Kept(f, Top) /\ f \in Frame(prog)
    BY <2>3 DEF Kept, Nodes, Frame
  <2>5. Left(prog, f, FALSE) \subseteq Ahead[Len(frames)]
    BY <2>3, AtElement
  <2>6. GoesOn /\ \A k \in 1..(Len(frames) - 1) : frames'[k] = frames[k]
    BY <1>4, <2>4, <2>5, Continues
  <2> QED BY <1>1, <2>6
<1> QED BY <1>2, <1>3, <1>4

LEMMA ValLiteralWalks ==
  ASSUME ResultInv, ValLiteral
  PROVE  Walks
<1>1. /\ FramesInv /\ frames # <<>> /\ Top.fn = "val" /\ Top.i <= Len(Top.list)
      /\ UNCHANGED <<prog, stack, sp, objects, called>>
  BY DEF ValLiteral, Running, ResultInv
<1>2. PICK v : Fold(v)
  BY DEF ValLiteral
<1> QED BY <1>1, <1>2, FoldWalks DEF Walks, Below

LEMMA ValVariableWalks ==
  ASSUME ResultInv, ValVariable
  PROVE  Walks
<1>1. /\ FramesInv /\ frames # <<>> /\ Top.fn = "val" /\ Top.i <= Len(Top.list)
      /\ UNCHANGED <<prog, stack, sp, objects>>
  BY DEF ValVariable, Running, ResultInv
<1>2. PICK a : Callback(Top.list[Top.i], Top.handle, a) /\ Fold(ValueOf(a))
  BY DEF ValVariable
<1>3. called'.node \in Nodes(Top) /\ called'.object = Top.handle
  BY <1>1, <1>2, AtElement DEF Callback
<1> QED BY <1>1, <1>2, <1>3, FoldWalks DEF Walks, Below

LEMMA ValEnterBlockWalks ==
  ASSUME ResultInv, ValEnterBlock
  PROVE  Walks
<1> DEFINE n == Top.list[Top.i]
           g == ValFrame(Node(n).kids, GetHandle)
<1>1. /\ FramesInv /\ ValuesInv /\ frames # <<>> /\ ret = NoRet /\ Top.fn = "val"
      /\ Top.i <= Len(Top.list)
      /\ UNCHANGED <<prog, stack, sp, objects, called, failed>>
      /\ Node(n).type = "valblock" /\ Enter(g)
  BY DEF ValEnterBlock, Running, ResultInv
<1>2. /\ n \in DOMAIN prog /\ n \in Ahead[Len(frames)]
      /\ Left(prog, Top, TRUE) \subseteq {x \in Ahead[Len(frames)] : n < x}
  BY <1>1, AtElement
<1>3. EnterAs(Top, g) /\ Kept(Top, Top) /\ Top \in Frame(prog)
  BY <1>1, EnterIsEnterAs, TopKinds DEF Kept
<1> HIDE DEF n
<1>4. g \in Frame(prog)
  <2>1. Node(n).kids \in Lists(prog) /\ GetHandle \in Nat
    BY <1>1, <1>2, TreeParts, HandleIsNat DEF FramesInv, Node
  <2> QED BY <2>1, NewFrames
<1>5. Left(prog, g, FALSE) \subseteq Parts(prog, n)
  <2>1. Left(prog, g, FALSE) \subseteq Members(Node(n).kids)
    BY LeftAtStart
  <2> QED BY <2>1 DEF Parts, Node
<1>6. ~Owns(g) /\ Nodes(g) = Members(Node(n).kids) /\ g.handle = GetHandle
  BY DEF Owns, Nodes, ValFrame
<1> HIDE DEF g
<1>7. /\ ComesTo(n) /\ Len(frames') = Len(frames) + 1
      /\ frames'[Len(frames')] = g
      /\ \A k \in 1..(Len(frames) - 1) : frames'[k] = frames[k]
  BY <1>1, <1>2, <1>3, <1>4, <1>5, Comes
<1>8. Enters(n)
  <2>1. \A k \in (Len(frames) + 1)..Len(frames') : k = Len(frames')
    BY <1>1, <1>7, TopOfFrames
  <2> QED BY <1>1, <1>6, <1>7, <2>1 DEF Enters
<1> QED BY <1>1, <1>2, <1>7, <1>8 DEF Walks, Below

LEMMA ValEnterCallWalks ==
  ASSUME ResultInv, ValEnterCall
  PROVE  Walks
<1> DEFINE n == Top.list[Top.i]
<1>1. /\ FramesInv /\ frames # <<>> /\ ret = NoRet /\ Top.fn = "val"
      /\ Top.i <= Len(Top.list) /\ UNCHANGED prog
  BY DEF ValEnterCall, Running, ResultInv
<1>2. /\ n \in DOMAIN prog /\ n \in Ahead[Len(frames)]
      /\ Left(prog, Top, TRUE) \subseteq {x \in Ahead[Len(frames)] : n < x}
  BY <1>1, AtElement
<1>3. Node(n).type = "call"
  BY DEF ValEnterCall
<1>4. PICK a \in Answers("call") :
         /\ Callback(n, n, a)
         /\ IF a = "null"
            THEN /\ ret' = Einval /\ failed' = TRUE
                 /\ UNCHANGED <<frames, stack, sp, objects>>
            ELSE /\ objects' = objects \cup {n}
                 /\ PushHandle(n)
                 /\ Enter(CallFrame(n))
                 /\ UNCHANGED failed
  BY DEF ValEnterCall
<1> HIDE DEF n
<1>5. Node(called'.node).type \in {"func", "call", "arg"}
  BY <1>3, <1>4 DEF Callback
<1>6. CASE a = "null"
  <2>1. GoesOn /\ \A k \in 1..(Len(frames) - 1) : frames'[k] = frames[k]
    BY <1>1, <1>4, <1>6, Refuses DEF Einval, NoRet
  <2>2. failed'
    BY <1>4, <1>6
  <2> QED BY <1>1, <1>5, <2>1, <2>2 DEF Walks, Below
<1>7. CASE a # "null"
  <2>1. CallFrame(n) \in Frame(prog) /\ Top \in Frame(prog)
    BY <1>1, <1>2, <1>3, NewFrames, TopKinds DEF Node
  <2>2. EnterAs(Top, CallFrame(n)) /\ Kept(Top, Top)
    BY <1>1, <1>4, <1>7, EnterIsEnterAs DEF Kept
  <2>3. Left(prog, CallFrame(n), FALSE) \subseteq Parts(prog, n)
    BY LeftAtStart
  <2>4. /\ ComesTo(n) /\ Len(frames') = Len(frames) + 1
        /\ frames'[Len(frames')] = CallFrame(n)
        /\ \A k \in 1..(Len(frames) - 1) : frames'[k] = frames[k]
    BY <1>1, <1>2, <2>1, <2>2, <2>3, Comes
  <2>5. Pushes(n)
    BY <1>3, <1>4, <1>7, <2>4 DEF Pushes, Owns, CallFrame
  <2>6. failed' = failed
    BY <1>4, <1>7
  <2> QED BY <1>1, <1>2, <1>5, <2>4, <2>5, <2>6 DEF Walks, Below
<1> QED BY <1>6, <1>7

LEMMA ValReturnedWalks ==
  ASSUME ResultInv, ValReturned
  PROVE  Walks
<1>1. /\ FramesInv /\ frames # <<>> /\ Top.fn = "val" /\ ret # NoRet
      /\ UNCHANGED <<prog, stack, sp, objects, called>>
  BY DEF ValReturned, Returned, ResultInv
<1>2. Top.i <= Len(Top.list)
  BY <1>1, TopKinds DEF Waiting
<1>3. CASE ret = Ok
  <2>1. Fold(val)
    BY <1>3 DEF ValReturned
  <2> QED BY <1>1, <1>2, <2>1, FoldWalks DEF Walks, Below
<1>4. CASE ret # Ok
  <2>1. Return(Einval) /\ failed' = failed
    BY <1>4 DEF ValReturned
  <2>2. /\ Len(frames') = Len(frames) - 1 /\ ret' # NoRet
        /\ \A k \in 1..(Len(frames) - 1) : frames'[k] = frames[k]
    BY <1>1, <2>1, Returns DEF Einval, NoRet
  <2> QED BY <1>1, <2>1, <2>2 DEF Walks, Below, Leaves, Owns
<1> QED BY <1>3, <1>4

LEMMA ValEndWalks ==
  ASSUME ResultInv, ValEnd
  PROVE  Walks
<1>1. /\ FramesInv /\ frames # <<>> /\ Top.fn = "val"
      /\ UNCHANGED <<prog, stack, sp, objects, called, failed>> /\ Return(Ok)
  BY DEF ValEnd, Running, ResultInv
<1>2. /\ Len(frames') = Len(frames) - 1 /\ ret' # NoRet
      /\ \A k \in 1..(Len(frames) - 1) : frames'[k] = frames[k]
  BY <1>1, Returns DEF Ok, NoRet
<1> QED BY <1>1, <1>2 DEF Walks, Below, Leaves, Owns

LEMMA EveryStepWalks ==
  ASSUME ResultInv, Next
  PROVE  Walks /\ frames # <<>>
<1>1. ASSUME ChildsEnterFunc     PROVE Walks  BY <1>1, ChildsEnterFuncWalks
<1>2. ASSUME ChildsEnterExpr     PROVE Walks  BY <1>2, ChildsEnterExprWalks
<1>3. ASSUME ChildsEnterBlock    PROVE Walks  BY <1>3, ChildsEnterBlockWalks
<1>4. ASSUME ChildsEnd           PROVE Walks  BY <1>4, ChildsEndWalks
<1>5. ASSUME ChildsReturned      PROVE Walks  BY <1>5, ChildsReturnedWalks
<1>6. ASSUME BlockReturned       PROVE Walks  BY <1>6, BlockReturnedWalks
<1>7. ASSUME ExprReturned        PROVE Walks  BY <1>7, ExprReturnedWalks
<1>8. ASSUME ArgEnter("func")    PROVE Walks  BY <1>8, ArgEnterWalks
<1>9. ASSUME ArgEnter("call")    PROVE Walks  BY <1>9, ArgEnterWalks
<1>10. ASSUME ArgReturned("func", Dead)   PROVE Walks
  BY <1>10, ArgReturnedWalks DEF Dead, NoRet
<1>11. ASSUME ArgReturned("call", Einval) PROVE Walks
  BY <1>11, ArgReturnedWalks DEF Einval, NoRet
<1>12. ASSUME FuncArgFailed      PROVE Walks  BY <1>12, FuncArgFailedWalks
<1>13. ASSUME CallArgFailed      PROVE Walks  BY <1>13, CallArgFailedWalks
<1>14. ASSUME FuncExec           PROVE Walks  BY <1>14, FuncExecWalks
<1>15. ASSUME FuncBodyReturned   PROVE Walks  BY <1>15, FuncBodyReturnedWalks
<1>16. ASSUME CallExec           PROVE Walks  BY <1>16, CallExecWalks
<1>17. ASSUME ValLiteral         PROVE Walks  BY <1>17, ValLiteralWalks
<1>18. ASSUME ValVariable        PROVE Walks  BY <1>18, ValVariableWalks
<1>19. ASSUME ValEnterBlock      PROVE Walks  BY <1>19, ValEnterBlockWalks
<1>20. ASSUME ValEnterCall       PROVE Walks  BY <1>20, ValEnterCallWalks
<1>21. ASSUME ValReturned        PROVE Walks  BY <1>21, ValReturnedWalks
<1>22. ASSUME ValEnd             PROVE Walks  BY <1>22, ValEndWalks
<1>23. Walks
  BY <1>1, <1>2, <1>3, <1>4, <1>5, <1>6, <1>7, <1>8, <1>9, <1>10, <1>11, <1>12, <1>13,
     <1>14, <1>15, <1>16, <1>17, <1>18, <1>19, <1>20, <1>21, <1>22 DEF Next
<1>24. (\E fn : Running(fn) \/ Returned(fn)) => frames # <<>>
  BY DEF Running, Returned
<1>25. \E fn : Running(fn) \/ Returned(fn)
  BY DEF Next, ChildsEnterFunc, ChildsEnterExpr, ChildsEnterBlock, ChildsEnd,
         ChildsReturned, BlockReturned, ExprReturned, ArgEnter, ArgReturned,
         FuncArgFailed, CallArgFailed, FuncExec, FuncBodyReturned, CallExec, ValLiteral,
         ValVariable, ValEnterBlock, ValEnterCall, ValReturned, ValEnd
<1> QED BY <1>23, <1>24, <1>25

-----------------------------------------------------------------------------
\* The order of the walk is an invariant.
LEMMA AheadInTree ==
  ASSUME FramesInv
  PROVE  \A k \in DOMAIN frames :
           /\ Ahead[k] \subseteq DOMAIN prog
           /\ Owns(frames[k]) => Ahead[k] \subseteq Parts(prog, frames[k].node)
           /\ ~Owns(frames[k]) => Ahead[k] \subseteq Nodes(frames[k])
<1> SUFFICES ASSUME NEW k \in DOMAIN frames
             PROVE  /\ Ahead[k] \subseteq DOMAIN prog
                    /\ Owns(frames[k]) => Ahead[k] \subseteq Parts(prog, frames[k].node)
                    /\ ~Owns(frames[k]) => Ahead[k] \subseteq Nodes(frames[k])
  OBVIOUS
<1>1. prog \in Programs /\ IsTree(prog) /\ frames \in Seq(Frame(prog))
  BY ProgramsAssumption DEF FramesInv, Stacked
<1>2. DOMAIN prog = 1..Len(prog) /\ Len(prog) \in Nat
  BY <1>1, LenProperties DEF IsTree
<1> DEFINE f == frames[k]
<1>3. f \in Frame(prog)
  BY <1>1, ElementOfSeq, LenProperties
<1>4. PICK w \in BOOLEAN : Ahead[k] = Left(prog, f, w)
  BY DEF Ahead
<1> HIDE DEF f
<1>5. CASE f.fn = "childs" \/ f.fn = "val"
  <2>1. f.list \in Seq(DOMAIN prog) /\ Ascending(f.list) /\ f.i \in Nat \ {0}
    BY <1>3, <1>5, FrameKinds DEF ChildsFrames, ValFrames, Lists
  <2>2. f.list \in Seq(Nat)
    BY <1>2, <2>1
  <2>3. Left(prog, f, w) \subseteq Members(f.list)
    BY <1>5, <2>1, <2>2, LeftInList
  <2>4. Members(f.list) \subseteq DOMAIN prog /\ Members(f.list) = Nodes(f) /\ ~Owns(f)
    BY <1>5, <2>1 DEF Members, Nodes, Owns
  <2> QED BY <1>4, <2>3, <2>4 DEF f
<1>6. CASE f.fn = "expr" \/ f.fn = "block"
  <2>1. Left(prog, f, w) = {} /\ ~Owns(f)
    BY <1>6 DEF Left, Owns
  <2> QED BY <1>4, <2>1 DEF f
<1>7. CASE f.fn = "func" \/ f.fn = "call"
  <2>1. f.node \in DOMAIN prog /\ f.a \in Nat \ {0} /\ Owns(f)
    BY <1>3, <1>7, FrameKinds DEF FuncFrames, CallFrames, Owns
  <2>2. Left(prog, f, w) \subseteq Parts(prog, f.node)
    BY <1>1, <1>7, <2>1, LeftOfOwner
  <2>3. Parts(prog, f.node) \subseteq (f.node + 1)..Len(prog) /\ f.node \in Nat
    BY <1>1, <1>2, <2>1 DEF IsTree
  <2>4. Parts(prog, f.node) \subseteq DOMAIN prog
    BY <1>2, <2>3
  <2> QED BY <1>4, <2>1, <2>2, <2>4 DEF f
<1> QED BY <1>3, <1>5, <1>6, <1>7, FrameKinds

\* The frames that a step keeps.
LEMMA KeptFrames ==
  ASSUME FramesInv, FramesInv', frames # <<>>, Walks
  PROVE  /\ DOMAIN frames = 1..Len(frames) /\ Len(frames) \in Nat \ {0}
         /\ DOMAIN frames' = 1..Len(frames') /\ Len(frames') \in Nat
         /\ Len(frames') >= Len(frames) - 1
         /\ \A k \in DOMAIN frames' : k <= Len(frames) =>
              /\ k \in DOMAIN frames /\ Kept(frames'[k], frames[k])
              /\ k \in Owning' <=> k \in Owning
              /\ k \in Owning => frames'[k].node = frames[k].node
         /\ \A k \in 1..(Len(frames) - 1) : Ahead'[k] = Ahead[k]
<1>1. DOMAIN frames = 1..Len(frames) /\ Len(frames) \in Nat \ {0}
  BY TopOfFrames
<1>2. DOMAIN frames' = 1..Len(frames') /\ Len(frames') \in Nat
  BY LenProperties DEF FramesInv, Stacked
<1>3. /\ UNCHANGED prog
      /\ \A k \in 1..(Len(frames) - 1) : frames'[k] = frames[k]
      /\ GoesOn \/ Leaves \/ HandsOver \/ \E n : ComesTo(n)
  BY DEF Walks, Below, Pushes, Enters
<1>4. \/ Len(frames') = Len(frames) - 1 /\ ret' # NoRet
      \/ Len(frames') = Len(frames)
      \/ Len(frames') = Len(frames) + 1
      \/ Len(frames') > Len(frames)
  <2>1. GoesOn => Len(frames') = Len(frames)
    BY DEF GoesOn
  <2>2. Leaves => Len(frames') = Len(frames) - 1 /\ ret' # NoRet
    BY DEF Leaves
  <2>3. HandsOver => Len(frames') = Len(frames) + 1
    BY DEF HandsOver
  <2>4. (\E n : ComesTo(n)) => Len(frames') > Len(frames)
    BY DEF ComesTo
  <2> QED BY ONLY <1>3, <2>1, <2>2, <2>3, <2>4
<1>5. Len(frames) \in Nat \ {0} /\ Len(frames') \in Nat
  BY <1>1, <1>2
<1>6. Len(frames') >= Len(frames) - 1
  BY ONLY <1>4, <1>5
<1>7. Len(frames') = Len(frames) - 1 => ret' # NoRet
  BY ONLY <1>4, <1>5
<1>8. Len(frames') >= Len(frames) => Kept(frames'[Len(frames)], Top)
  <2>1. Leaves => ~(Len(frames') >= Len(frames))
    BY <1>1 DEF Leaves
  <2>2. GoesOn \/ HandsOver \/ (\E n : ComesTo(n)) => Kept(frames'[Len(frames)], Top)
    BY DEF GoesOn, HandsOver, ComesTo
  <2> QED BY <1>3, <2>1, <2>2
<1>9. ASSUME NEW k \in DOMAIN frames', k <= Len(frames)
      PROVE  /\ k \in DOMAIN frames /\ Kept(frames'[k], frames[k])
             /\ k \in Owning' <=> k \in Owning
             /\ k \in Owning => frames'[k].node = frames[k].node
  <2>1. k \in DOMAIN frames
    BY <1>1, <1>2, <1>9
  <2>2. Kept(frames'[k], frames[k])
    <3>1. CASE k = Len(frames)
      <4>1. Len(frames') >= Len(frames) /\ frames[k] = Top
        BY <1>1, <1>2, <3>1 DEF Top
      <4> QED BY <1>8, <3>1, <4>1
    <3>2. CASE k \in 1..(Len(frames) - 1)
      <4>1. frames'[k] = frames[k]
        BY <1>3, <3>2
      <4> QED BY <4>1 DEF Kept
    <3> QED BY <1>1, <2>1, <3>1, <3>2
  <2>3. k \in Owning' <=> k \in Owning
    BY <2>1, <2>2 DEF Owning, Kept
  <2>4. k \in Owning => frames'[k].node = frames[k].node
    BY <2>2 DEF Owning, Kept, Nodes
  <2> QED BY <2>1, <2>2, <2>3, <2>4
<1>10. ASSUME NEW k \in 1..(Len(frames) - 1)
      PROVE  Ahead'[k] = Ahead[k]
  <2>0. frames'[k] = frames[k]
    BY <1>3
  <2>1. /\ k \in DOMAIN frames' /\ (k < Len(frames') \/ ret' # NoRet)
        /\ k \in DOMAIN frames /\ k < Len(frames) /\ frames'[k] = frames[k]
    <3>1. k \in DOMAIN frames /\ k < Len(frames)
      BY <1>1
    <3>2. k < Len(frames') \/ ret' # NoRet
      BY ONLY <1>6, <1>7, <1>5, k \in 1..(Len(frames) - 1)
    <3>3. k \in DOMAIN frames'
      BY <1>1, <1>2, <1>6
    <3> QED BY <2>0, <3>1, <3>2, <3>3
  <2>2. Ahead'[k] = Left(prog, frames'[k], TRUE)
    BY <1>3, <2>1, AheadAfter
  <2>3. Ahead[k] = Left(prog, frames[k], TRUE)
    BY <2>1 DEF Ahead
  <2> QED BY <2>1, <2>2, <2>3
<1> QED BY <1>1, <1>2, <1>6, <1>9, <1>10

\* The nodes of the active functions and calls come before all that is ahead of
\* the function on top.
LEMMA AboveOwners ==
  ASSUME FramesInv, OrderInv, frames # <<>>, NEW n \in Ahead[Len(frames)]
  PROVE  /\ n \in DOMAIN prog
         /\ \A j \in Owning : frames[j].node < n
<1>1. /\ DOMAIN frames = 1..Len(frames) /\ Len(frames) \in DOMAIN frames
      /\ Top = frames[Len(frames)] /\ Len(frames) \in Nat
  BY TopOfFrames DEF Top
<1>2. /\ n \in DOMAIN prog
      /\ Owns(Top) => n \in Parts(prog, Top.node)
      /\ ~Owns(Top) => n \in Nodes(Top)
  BY <1>1, AheadInTree
<1>3. IsTree(prog) /\ DOMAIN prog = 1..Len(prog)
  BY ProgramsAssumption, LenProperties DEF FramesInv, IsTree
<1>4. ASSUME Owns(Top)
      PROVE  Top.node < n /\ Top.node \in Nat /\ n \in Nat
  <2>1. Top.node \in DOMAIN prog
    BY <1>4, OwnerFrames DEF Owns
  <2> QED BY <1>2, <1>3, <1>4, <2>1 DEF IsTree
<1>5. ASSUME NEW j \in Owning
      PROVE  frames[j].node < n
  <2>1. j \in DOMAIN frames /\ j <= Len(frames)
    BY <1>1 DEF Owning
  <2>2. CASE j = Len(frames)
    BY <1>1, <1>4, <2>2 DEF Owning, Owns
  <2>3. CASE j < Len(frames) /\ ~Owns(Top)
    BY <1>1, <1>2, <2>3 DEF OrderInv
  <2>4. CASE j < Len(frames) /\ Owns(Top)
    <3>1. Top.node \in Nodes(Top)
      BY <2>4 DEF Nodes, Owns
    <3>2. frames[j].node < Top.node
      BY <1>1, <2>4, <3>1 DEF OrderInv
    <3>3. frames[j] \in Frame(prog) /\ frames[j].node \in Nat
      <4>1. frames[j] \in Frame(prog)
        BY <1>1, <2>1, ElementOfSeq DEF FramesInv, Stacked
      <4> QED BY <1>3, <4>1, FrameKinds DEF Owning, FuncFrames, CallFrames
    <3> QED BY <1>4, <2>4, <3>2, <3>3
  <2> QED BY <1>1, <2>1, <2>2, <2>3, <2>4
<1> QED BY <1>2, <1>5

LEMMA OrderOfAhead ==
  ASSUME FramesInv, FramesInv', ValuesInv, OrderInv, frames # <<>>, Walks
  PROVE  Ordered(prog, Ahead', objects')
<1>1. /\ DOMAIN Ahead = 1..Len(frames) /\ Len(frames) \in Nat \ {0}
      /\ DOMAIN frames = 1..Len(frames)
      /\ \A k \in 1..Len(frames) : Ahead[k] \subseteq DOMAIN prog
      /\ prog \in Programs /\ objects \subseteq DOMAIN prog
      /\ Ordered(prog, Ahead, objects)
  BY AheadOfTop, AheadInTree, TopOfFrames DEF FramesInv, ValuesInv, OrderInv
<1>2. DOMAIN Ahead' = 1..Len(frames') /\ Len(frames') \in Nat
  BY KeptFrames DEF Ahead
<1>3. \A k \in 1..(Len(frames) - 1) : Ahead'[k] = Ahead[k]
  BY KeptFrames
<1> DEFINE A == Ahead
           B == Ahead'
           m == Len(frames)
           q == Len(frames')
<1>4. /\ DOMAIN A = 1..m /\ m \in Nat \ {0} /\ \A k \in 1..m : A[k] \subseteq DOMAIN prog
      /\ DOMAIN B = 1..q /\ q \in Nat
      /\ \A k \in 1..(m - 1) : B[k] = A[k]
      /\ Ordered(prog, A, objects)
  BY <1>1, <1>2, <1>3
<1>5. CASE GoesOn
  <2>1. q = m /\ B[m] \subseteq A[m] /\ objects' = objects
    BY <1>5 DEF GoesOn
  <2> HIDE DEF A, B, m, q
  <2>2. DOMAIN B \subseteq DOMAIN A /\ \A k \in DOMAIN B : B[k] \subseteq A[k]
    BY <1>4, <2>1
  <2>3. Ordered(prog, B, objects)
    BY <1>4, <2>2, OrderedShrinks
  <2> QED BY <2>1, <2>3 DEF B
<1>6. CASE Leaves
  <2>1. q = m - 1 /\ objects' \in SUBSET objects
    BY <1>6 DEF Leaves
  <2> HIDE DEF A, B, m, q
  <2>2. DOMAIN B \subseteq DOMAIN A /\ \A k \in DOMAIN B : B[k] \subseteq A[k]
    BY <1>4, <2>1
  <2>3. Ordered(prog, B, objects')
    BY <1>4, <2>1, <2>2, OrderedShrinks
  <2> QED BY <2>3 DEF B
<1>7. CASE HandsOver
  <2>1. q = m + 1 /\ B[m] = {} /\ B[m + 1] \subseteq A[m] /\ objects' = objects
    BY <1>7 DEF HandsOver
  <2> HIDE DEF A, B, m, q
  <2>2. DOMAIN B = 1..(m + 1) /\ \A k \in 1..(m - 1) : B[k] \subseteq A[k]
    BY <1>4, <2>1
  <2>3. Ordered(prog, B, objects)
    BY <1>4, <2>1, <2>2, OrderedHandsOver
  <2> QED BY <2>1, <2>3 DEF B
<1>8. CASE \E n \in DOMAIN prog : Pushes(n) \/ Enters(n)
  <2>1. PICK n \in DOMAIN prog : Pushes(n) \/ Enters(n)
    BY <1>8
  <2>2. ComesTo(n) /\ objects' \in SUBSET (objects \cup {n})
    BY <2>1 DEF Pushes, Enters
  <2>3. /\ n \in A[m] /\ q > m /\ B[m] \subseteq {x \in A[m] : n < x}
        /\ \A k \in (m + 1)..(q - 1) : B[k] = {}
        /\ B[q] \subseteq Parts(prog, n)
    BY <2>2 DEF ComesTo
  <2> HIDE DEF A, B, m, q
  <2>4. \A k \in 1..(m - 1) : B[k] \subseteq A[k]
    BY <1>4
  <2>5. Ordered(prog, B, objects')
    BY <1>1, <1>4, <2>2, <2>3, <2>4, OrderedDescends
  <2> QED BY <2>5 DEF B
<1> QED BY <1>5, <1>6, <1>7, <1>8 DEF Walks

LEMMA OrderOfOwners ==
  ASSUME FramesInv, FramesInv', OrderInv, frames # <<>>, Walks
  PROVE  \A j \in Owning', k \in DOMAIN frames' : j < k =>
           \A x \in Nodes(frames'[k]) : frames'[j].node < x
<1> SUFFICES ASSUME NEW j \in Owning', NEW k \in DOMAIN frames', j < k,
                    NEW x \in Nodes(frames'[k])
             PROVE  frames'[j].node < x
  OBVIOUS
<1> DEFINE m == Len(frames)
           q == Len(frames')
<1>1. /\ m \in Nat \ {0} /\ q \in Nat /\ DOMAIN frames = 1..m /\ DOMAIN frames' = 1..q
      /\ \A i \in DOMAIN frames' : i <= m =>
           /\ i \in DOMAIN frames /\ Kept(frames'[i], frames[i])
           /\ i \in Owning' <=> i \in Owning
           /\ i \in Owning => frames'[i].node = frames[i].node
  BY KeptFrames
<1>2. j \in DOMAIN frames'
  BY DEF Owning
<1> HIDE DEF m, q
<1>3. j \in Nat /\ k \in Nat
  BY ONLY <1>1, <1>2, k \in DOMAIN frames'
<1>4. CASE k <= m
  <2>1. j <= m
    BY ONLY <1>1, <1>3, <1>4, j < k
  <2>2. /\ k \in DOMAIN frames /\ x \in Nodes(frames[k])
        /\ j \in Owning /\ frames'[j].node = frames[j].node
    BY <1>1, <1>2, <1>4, <2>1 DEF Kept
  <2> QED BY <2>2 DEF OrderInv
<1>5. CASE k > m /\ HandsOver
  <2>1. /\ q = m + 1 /\ Top.fn = "func" /\ Owns(Top)
        /\ Nodes(frames'[m + 1]) = Members(Node(Top.node).kids)
    BY <1>5 DEF HandsOver, m, q, Owns
  <2>2. k = m + 1 /\ j <= m
    BY ONLY <1>1, <1>3, <1>5, <2>1, k \in DOMAIN frames', j < k
  <2>3. j \in Owning /\ frames'[j].node = frames[j].node /\ j \in DOMAIN frames
    BY <1>1, <1>2, <2>2
  <2>4. Top.node \in DOMAIN prog
    BY <2>1, OwnerFrames
  <2>5. IsTree(prog) /\ DOMAIN prog \subseteq Nat
    BY ProgramsAssumption, LenProperties DEF FramesInv, IsTree
  <2>6. x \in Parts(prog, Top.node)
    BY <2>1, <2>2 DEF Parts, Node
  <2>7. Top.node < x /\ x \in Nat /\ Top.node \in Nat
    BY <2>4, <2>5, <2>6 DEF IsTree
  <2>8. CASE j = m
    BY <2>3, <2>7, <2>8 DEF Top, m
  <2>9. CASE j < m
    <3>1. m \in DOMAIN frames /\ Top.node \in Nodes(frames[m])
      BY <1>1, <2>1 DEF Top, m, Nodes
    <3>2. frames[j].node < Top.node
      BY <2>3, <2>9, <3>1 DEF OrderInv
    <3>3. frames[j].node \in Nat
      <4>1. frames[j] \in Frame(prog)
        BY <2>3, ElementOfSeq DEF FramesInv, Stacked
      <4> QED BY <2>3, <2>5, <4>1, FrameKinds DEF Owning, FuncFrames, CallFrames
    <3> QED BY <2>3, <2>7, <3>2, <3>3
  <2> QED BY ONLY <1>1, <1>3, <2>2, <2>8, <2>9
<1>6. CASE k > m /\ \E n \in DOMAIN prog : Pushes(n) \/ Enters(n)
  <2>1. PICK n \in DOMAIN prog : Pushes(n) \/ Enters(n)
    BY <1>6
  <2>2. n \in Ahead[Len(frames)]
    BY <2>1 DEF Pushes, Enters, ComesTo
  <2>3. \A i \in Owning : frames[i].node < n
    BY <2>2, AboveOwners
  <2>4. x = n \/ x \in Parts(prog, n)
    <3>1. CASE Pushes(n)
      <4>1. q = m + 1 /\ Owns(frames'[q]) /\ frames'[q].node = n
        BY <3>1 DEF Pushes, m, q
      <4>2. k = q
        BY ONLY <1>1, <1>3, <1>6, <4>1, k \in DOMAIN frames'
      <4> QED BY <4>1, <4>2 DEF Owns, Nodes
    <3>2. CASE Enters(n)
      <4>1. k \in (Len(frames) + 1)..Len(frames')
        BY ONLY <1>1, <1>3, <1>6, k \in DOMAIN frames' DEF m, q
      <4>2. Nodes(frames'[k]) \in {{n}, Members(Node(n).kids)}
        BY <3>2, <4>1 DEF Enters
      <4> QED BY <4>2 DEF Parts, Node
    <3> QED BY <2>1, <3>1, <3>2
  <2>5. IsTree(prog) /\ DOMAIN prog \subseteq Nat
    BY ProgramsAssumption, LenProperties DEF FramesInv, IsTree
  <2>6. n <= x /\ n \in Nat /\ x \in Nat
    BY <2>4, <2>5 DEF IsTree
  <2>7. j \in Owning /\ frames'[j].node = frames[j].node
    <3>1. CASE Pushes(n)
      <4>1. q = m + 1
        BY <3>1 DEF Pushes, m, q
      <4>2. j <= m
        BY ONLY <1>1, <1>3, <4>1, k \in DOMAIN frames', j < k
      <4> QED BY <1>1, <1>2, <4>2
    <3>2. CASE Enters(n)
      <4>1. ~Owns(frames'[j]) \/ j <= m
        <5>1. j > m => j \in (Len(frames) + 1)..Len(frames')
          BY ONLY <1>1, <1>2, <1>3 DEF m, q
        <5>2. j > m \/ j <= m
          BY ONLY <1>1, <1>3
        <5> QED BY <3>2, <5>1, <5>2 DEF Enters
      <4>2. j <= m
        BY <4>1 DEF Owning, Owns
      <4> QED BY <1>1, <1>2, <4>2
    <3> QED BY <2>1, <3>1, <3>2
  <2>8. frames[j].node < n /\ frames[j].node \in Nat
    <3>1. frames[j] \in Frame(prog)
      BY <2>7, ElementOfSeq, LenProperties DEF Owning, FramesInv, Stacked
    <3> QED BY <2>3, <2>5, <2>7, <3>1, FrameKinds DEF Owning, FuncFrames, CallFrames
  <2> QED BY ONLY <2>6, <2>7, <2>8
<1>7. CASE k > m /\ (GoesOn \/ Leaves)
  <2>1. q <= m
    <3>1. GoesOn => q = m
      BY DEF GoesOn, m, q
    <3>2. Leaves => q = m - 1
      BY DEF Leaves, m, q
    <3> QED BY ONLY <1>1, <1>7, <3>1, <3>2
  <2> QED BY ONLY <1>1, <1>3, <1>7, <2>1, k \in DOMAIN frames'
<1>8. k > m \/ k <= m
  BY ONLY <1>1, <1>3
<1> QED BY <1>4, <1>5, <1>6, <1>7, <1>8 DEF Walks

LEMMA OrderInit ==
  ASSUME Init, FramesInv
  PROVE  OrderInv
<1>1. /\ frames = <<ChildsFrame(prog[1].kids)>> /\ ret = NoRet /\ objects = {}
  BY DEF Init
<1>2. /\ Len(frames) = 1 /\ DOMAIN frames = {1} /\ Top = ChildsFrame(prog[1].kids)
      /\ frames[1] = ChildsFrame(prog[1].kids) /\ frames # <<>>
  BY <1>1 DEF Top
<1>3. DOMAIN Ahead = {1} /\ Ahead[1] \subseteq Members(prog[1].kids)
  <2>1. Ahead[1] = Left(prog, Top, FALSE)
    BY <1>1, <1>2, AheadOfTop
  <2> QED BY <1>2, <2>1, LeftAtStart DEF Ahead
<1>4. IsTree(prog) /\ 1 \in DOMAIN prog
  <2>1. IsTree(prog)
    BY ProgramsAssumption DEF FramesInv
  <2> QED BY <2>1, LenProperties, EmptySeq DEF IsTree
<1>5. \A x \in Members(prog[1].kids) : x \in Parts(prog, 1) /\ 1 < x
  BY <1>4 DEF IsTree, Parts
<1>6. Ordered(prog, Ahead, objects)
  BY <1>1, <1>3, <1>4, <1>5 DEF Ordered
<1>7. Owning = {}
  BY <1>2 DEF Owning, ChildsFrame
<1> QED BY <1>6, <1>7 DEF OrderInv

LEMMA OrderNext ==
  ASSUME ResultInv, OrderInv, [Next]_vars
  PROVE  OrderInv'
<1>1. CASE Next
  <2>1. Walks /\ frames # <<>> /\ ResultInv'
    BY <1>1, EveryStepWalks, ResultNext
  <2>2. FramesInv /\ FramesInv' /\ ValuesInv /\ prog' = prog
    BY <2>1 DEF ResultInv, Walks, Below
  <2> QED BY <2>1, <2>2, OrderOfAhead, OrderOfOwners DEF OrderInv
<1>2. CASE UNCHANGED vars
  <2>1. /\ prog' = prog /\ frames' = frames /\ ret' = ret /\ objects' = objects
    BY <1>2 DEF vars
  <2>2. Ahead' = Ahead
    BY <2>1 DEF Ahead
  <2>3. Owning' = Owning
    BY <2>1 DEF Owning
  <2> QED BY <2>1, <2>2, <2>3 DEF OrderInv
<1> QED BY <1>1, <1>2

-----------------------------------------------------------------------------
\* The handle stack.  The functions and calls on the C stack after a step.
LEMMA OwnersAreFinite ==
  ASSUME NEW m \in Nat, NEW S \in SUBSET (1..m)
  PROVE  /\ IsFiniteSet(S) /\ Cardinality(S) \in Nat
         /\ \A k \in S : Cardinality({j \in S : j <= k}) \in 1..Cardinality(S)
<1>1. IsFiniteSet(1..m)
  BY FS_Interval
<1>2. IsFiniteSet(S) /\ Cardinality(S) \in Nat
  BY <1>1, FS_Subset, FS_CardinalityType
<1>3. ASSUME NEW k \in S
      PROVE  Cardinality({j \in S : j <= k}) \in 1..Cardinality(S)
  <2> DEFINE T == {j \in S : j <= k}
  <2>1. T \in SUBSET S /\ k \in T
    OBVIOUS
  <2> HIDE DEF T
  <2>2. IsFiniteSet(T) /\ Cardinality(T) <= Cardinality(S)
    BY <1>2, <2>1, FS_Subset
  <2>3. Cardinality(T) \in Nat /\ Cardinality(T) # 0
    BY <2>1, <2>2, FS_CardinalityType, FS_EmptySet
  <2> QED BY <1>2, <2>2, <2>3 DEF T
<1> QED BY <1>2, <1>3

LEMMA OwnersAfter ==
  ASSUME FramesInv, FramesInv', frames # <<>>, Walks
  PROVE  /\ Owning \subseteq 1..Len(frames)
         /\ GoesOn \/ HandsOver \/ (Leaves /\ ~Owns(Top)) \/ (\E n : Enters(n)) =>
              Owning' = Owning
         /\ Leaves /\ Owns(Top) =>
              Len(frames) \in Owning /\ Owning' = Owning \ {Len(frames)}
         /\ \A n : Pushes(n) =>
              /\ Owning' = Owning \cup {Len(frames) + 1}
              /\ frames'[Len(frames) + 1].node = n
         /\ \A k \in Owning : k \in Owning' => frames'[k].node = frames[k].node
<1> DEFINE m == Len(frames)
           q == Len(frames')
<1>1. /\ m \in Nat \ {0} /\ q \in Nat /\ DOMAIN frames = 1..m /\ DOMAIN frames' = 1..q
      /\ \A i \in DOMAIN frames' : i <= m =>
           /\ i \in DOMAIN frames /\ Kept(frames'[i], frames[i])
           /\ i \in Owning' <=> i \in Owning
           /\ i \in Owning => frames'[i].node = frames[i].node
  BY KeptFrames
<1> HIDE DEF m, q
<1>2. Owning \subseteq 1..m /\ Owning' \subseteq 1..q
  BY <1>1 DEF Owning
<1>3. m \in Owning <=> Owns(Top)
  BY <1>1 DEF Owning, Owns, Top, m
<1>4. /\ q >= m /\ (\A i \in Owning' : i <= m) => Owning' = Owning
      /\ q = m - 1 => Owning' = Owning \ {m}
      /\ q = m + 1 /\ q \in Owning' => Owning' = Owning \cup {m + 1}
  <2>1. \A i \in 1..q : i <= m => (i \in Owning' <=> i \in Owning)
    BY <1>1
  <2>2. /\ m \in Nat \ {0} /\ q \in Nat
        /\ Owning \in SUBSET (1..m) /\ Owning' \in SUBSET (1..q)
    BY ONLY <1>1, <1>2
  <2> DEFINE S == Owning
             T == Owning'
  <2>3. /\ m \in Nat \ {0} /\ q \in Nat /\ S \in SUBSET (1..m) /\ T \in SUBSET (1..q)
        /\ \A i \in 1..q : i <= m => (i \in T <=> i \in S)
    BY ONLY <2>1, <2>2
  <2> HIDE DEF S, T
  <2>4. /\ q >= m /\ (\A i \in T : i <= m) => T = S
        /\ q = m - 1 => T = S \ {m}
        /\ q = m + 1 /\ q \in T => T = S \cup {m + 1}
    <3>1. ASSUME q >= m, \A i \in T : i <= m
          PROVE  T = S
      <4>1. ASSUME NEW i \in T PROVE i \in S
        BY <2>3, <3>1
      <4>2. ASSUME NEW i \in S PROVE i \in T
        <5>1. i \in 1..q /\ i <= m
          BY <2>3, <3>1
        <5> QED BY <2>3, <5>1
      <4> QED BY <4>1, <4>2
    <3>2. ASSUME q = m - 1
          PROVE  T = S \ {m}
      <4>1. ASSUME NEW i \in T PROVE i \in S /\ i # m
        <5>1. i \in 1..q /\ i <= m /\ i # m
          BY <2>3, <3>2
        <5> QED BY <2>3, <5>1
      <4>2. ASSUME NEW i \in S, i # m PROVE i \in T
        <5>1. i \in 1..q /\ i <= m
          BY <2>3, <3>2, <4>2
        <5> QED BY <2>3, <5>1
      <4> QED BY <4>1, <4>2
    <3>3. ASSUME q = m + 1, q \in T
          PROVE  T = S \cup {m + 1}
      <4>1. ASSUME NEW i \in T PROVE i \in S \/ i = m + 1
        <5>1. i \in 1..q /\ (i <= m \/ i = m + 1)
          BY <2>3, <3>3
        <5> QED BY <2>3, <5>1
      <4>2. ASSUME NEW i \in S PROVE i \in T
        <5>1. i \in 1..q /\ i <= m
          BY <2>3, <3>3
        <5> QED BY <2>3, <5>1
      <4> QED BY <2>3, <3>3, <4>1, <4>2
    <3> QED BY ONLY <3>1, <3>2, <3>3
  <2> QED BY ONLY <2>4 DEF S, T
<1>5. q \in Nat /\ m \in Nat
  BY <1>1
<1>6. GoesOn => Owning' = Owning
  <2>1. GoesOn => q = m
    BY DEF GoesOn, m, q
  <2>2. q = m => q >= m /\ \A i \in Owning' : i <= m
    BY ONLY <1>2, <1>5
  <2> QED BY ONLY <1>4, <2>1, <2>2
<1>7. HandsOver => Owning' = Owning
  <2>1. HandsOver => q = m + 1 /\ m + 1 \notin Owning'
    BY DEF HandsOver, m, q, Owning
  <2>2. q = m + 1 /\ m + 1 \notin Owning' => q >= m /\ \A i \in Owning' : i <= m
    BY ONLY <1>2, <1>5
  <2> QED BY ONLY <1>4, <2>1, <2>2
<1>8. (\E n : Enters(n)) => Owning' = Owning
  <2>1. (\E n : Enters(n)) => q > m /\ \A i \in (m + 1)..q : i \notin Owning'
    BY DEF Enters, ComesTo, m, q, Owning, Owns
  <2>2. q > m /\ (\A i \in (m + 1)..q : i \notin Owning') => q >= m /\ \A i \in Owning' : i <= m
    BY ONLY <1>2, <1>5
  <2> QED BY ONLY <1>4, <2>1, <2>2
<1>9. Leaves => Owning' = Owning \ {m}
  <2>1. Leaves => q = m - 1
    BY DEF Leaves, m, q
  <2> QED BY ONLY <1>4, <2>1
<1>10. ASSUME NEW n, Pushes(n)
       PROVE  Owning' = Owning \cup {m + 1} /\ frames'[m + 1].node = n
  <2>1. q = m + 1 /\ Owns(frames'[m + 1]) /\ frames'[m + 1].node = n
    BY <1>10 DEF Pushes, m, q
  <2>2. m + 1 \in DOMAIN frames'
    BY <1>1, <2>1
  <2>3. m + 1 \in Owning'
    BY <2>1, <2>2 DEF Owning, Owns
  <2>4. Owning' = Owning \cup {m + 1}
    BY ONLY <1>4, <2>1, <2>3
  <2> QED BY <2>1, <2>4
<1>11. ASSUME NEW k \in Owning, k \in Owning'
       PROVE  frames'[k].node = frames[k].node
  <2>1. k \in DOMAIN frames' /\ k <= m
    BY <1>1, <1>2, <1>11 DEF Owning
  <2> QED BY <1>1, <2>1
<1> QED BY <1>2, <1>3, <1>6, <1>7, <1>8, <1>9, <1>10, <1>11 DEF m

LEMMA StackInit ==
  ASSUME Init
  PROVE  StackMirrorsFrames
<1>1. /\ frames = <<ChildsFrame(prog[1].kids)>> /\ sp = 0 /\ objects = {}
  BY DEF Init
<1>2. DOMAIN frames = {1} /\ frames[1] = ChildsFrame(prog[1].kids)
  BY <1>1
<1>3. Owning = {}
  BY <1>2 DEF Owning, ChildsFrame
<1>4. Active = {}
  BY <1>3 DEF Active
<1> QED BY <1>1, <1>3, <1>4, FS_EmptySet DEF StackMirrorsFrames

\* The stack and the functions on the C stack are as before.
LEMMA StackKept ==
  ASSUME StackMirrorsFrames, UNCHANGED <<prog, stack, sp, objects>>, Owning' = Owning,
         \A k \in Owning : frames'[k].node = frames[k].node, failed => failed'
  PROVE  StackMirrorsFrames'
<1>1. Active' = Active
  BY DEF Active
<1>2. Abandoned' = Abandoned
  BY <1>1 DEF Abandoned
<1>3. ASSUME NEW k PROVE Rank(k)' = Rank(k)
  BY DEF Rank
<1>4. CASE /\ sp = Cardinality(Owning)
           /\ \A k \in Owning : stack[Rank(k)] = frames[k].node
           /\ objects = Active
  <2>1. \A k \in Owning' : stack'[Rank(k)'] = frames'[k].node
    BY <1>3, <1>4
  <2> QED BY <1>1, <1>4, <2>1 DEF StackMirrorsFrames
<1>5. CASE /\ Abandoned # {} /\ failed
           /\ \A n \in Abandoned : Node(n).type = "call" /\ Node(n).args # <<>>
  BY <1>2, <1>5 DEF StackMirrorsFrames, Node
<1> QED BY <1>4, <1>5 DEF StackMirrorsFrames

\* The function or call on top returned.  Its node is the one of no other frame.
LEMMA StackPopped ==
  ASSUME StackMirrorsFrames, FramesInv, OrderInv, frames # <<>>, Owns(Top),
         UNCHANGED <<prog, stack>>, Owning' = Owning \ {Len(frames)},
         Len(frames) \in Owning, Owning \subseteq 1..Len(frames), Len(frames) \in Nat,
         \A k \in Owning' : frames'[k].node = frames[k].node, failed => failed',
         \/ objects' = objects \ {Top.node} /\ sp' = sp - 1
         \/ /\ Top.fn = "call" /\ Node(Top.node).args # <<>> /\ failed'
            /\ UNCHANGED <<sp, objects>>
  PROVE  StackMirrorsFrames'
<1> DEFINE m == Len(frames)
           t == Top.node
<1>1. /\ frames[m] = Top /\ m \in Owning /\ m \in DOMAIN frames /\ t \in DOMAIN prog
      /\ Node(t).type = Top.fn
  BY TopOfFrames, OwnerFrames DEF Top, Owns
<1>2. Owning' = Owning \ {m} /\ Owning \subseteq 1..m /\ m \in Nat
  OBVIOUS
<1>3. ASSUME NEW k \in Owning, k # m
      PROVE  frames[k].node # t
  <2>1. k < m
    BY ONLY <1>2, <1>3
  <2>2. t \in Nodes(frames[m])
    BY <1>1 DEF Nodes, Owns
  <2>3. frames[k].node < t /\ t \in Nat
    <3>1. frames[k].node < t
      BY <1>1, <2>1, <2>2 DEF OrderInv
    <3>2. DOMAIN prog \subseteq Nat
      BY ProgramsAssumption, LenProperties DEF FramesInv, IsTree
    <3> QED BY <1>1, <3>1, <3>2
  <2> QED BY <2>3
<1> HIDE DEF m, t
<1>4. Active' = Active \ {t} /\ t \in Active
  <2>1. Active' = {frames[k].node : k \in Owning \ {m}}
    BY <1>2 DEF Active
  <2>2. Active = {frames[k].node : k \in Owning} /\ frames[m].node = t
    BY <1>1 DEF Active, t
  <2> QED BY ONLY <1>1, <1>3, <2>1, <2>2
<1>5. ASSUME NEW k \in Owning'
      PROVE  Rank(k)' = Rank(k)
  <2>1. \A j \in Owning' : j <= k <=> (j \in Owning /\ j <= k)
    BY <1>2
  <2>2. \A j \in Owning : j <= k => j # m
    BY ONLY <1>2, k \in Owning'
  <2>3. {j \in Owning' : j <= k} = {j \in Owning : j <= k}
    BY ONLY <1>2, <2>2
  <2> QED BY <2>3 DEF Rank
<1>6. CASE objects' = objects \ {t} /\ sp' = sp - 1
  <2>1. CASE /\ sp = Cardinality(Owning)
             /\ \A k \in Owning : stack[Rank(k)] = frames[k].node
             /\ objects = Active
    <3>1. sp' = Cardinality(Owning')
      <4>1. IsFiniteSet(Owning)
        BY <1>2, OwnersAreFinite
      <4>2. Cardinality(Owning \ {m}) = Cardinality(Owning) - 1
        BY <1>1, <4>1, FS_RemoveElement
      <4> QED BY <1>2, <1>6, <2>1, <4>2
    <3>2. ASSUME NEW k \in Owning'
          PROVE  stack'[Rank(k)'] = frames'[k].node
      <4>1. k \in Owning /\ Rank(k)' = Rank(k) /\ frames'[k].node = frames[k].node
        BY <1>2, <1>5
      <4> QED BY <2>1, <4>1
    <3>3. objects' = Active'
      BY <1>4, <1>6, <2>1
    <3> QED BY <3>1, <3>2, <3>3 DEF StackMirrorsFrames
  <2>2. CASE /\ Abandoned # {} /\ failed
             /\ \A n \in Abandoned : Node(n).type = "call" /\ Node(n).args # <<>>
    <3>1. Abandoned' = Abandoned
      BY <1>4, <1>6 DEF Abandoned
    <3> QED BY <2>2, <3>1 DEF StackMirrorsFrames, Node
  <2> QED BY <2>1, <2>2 DEF StackMirrorsFrames
<1>7. CASE /\ Top.fn = "call" /\ Node(t).args # <<>> /\ failed'
           /\ UNCHANGED <<sp, objects>>
  <2>1. /\ Node(t).type = "call"
        /\ \A n \in Abandoned : Node(n).type = "call" /\ Node(n).args # <<>>
    BY <1>1, <1>7 DEF StackMirrorsFrames, Abandoned
  <2>2. Abandoned' \subseteq Abandoned \cup {t}
    BY <1>4, <1>7 DEF Abandoned
  <2>3. Abandoned' # {}
    <3>1. objects = Active \/ Abandoned # {}
      BY DEF StackMirrorsFrames
    <3> QED BY <1>4, <1>7, <3>1 DEF Abandoned
  <2> QED BY <1>7, <2>1, <2>2, <2>3 DEF StackMirrorsFrames, Node
<1> QED BY <1>6, <1>7 DEF t

\* A function or call is entered: its handle is pushed, and the push is not
\* refused, because each function and call is on the stack at most once.
LEMMA StackPushed ==
  ASSUME StackMirrorsFrames, FramesInv, FramesInv', ValuesInv, OrderInv, frames # <<>>,
         UNCHANGED prog, NEW n, Pushes(n), Owning' = Owning \cup {Len(frames) + 1},
         Owning \subseteq 1..Len(frames), Len(frames) \in Nat,
         frames'[Len(frames) + 1].node = n,
         \A k \in Owning : frames'[k].node = frames[k].node, failed => failed'
  PROVE  StackMirrorsFrames'
<1> DEFINE m == Len(frames) + 1
<1>1. /\ n \in Ahead[Len(frames)] /\ Node(n).type \in {"func", "call"}
      /\ objects' = objects \cup {n} /\ PushHandle(n)
  BY DEF Pushes, ComesTo
<1>2. n \in DOMAIN prog /\ \A j \in Owning : frames[j].node < n
  BY <1>1, AboveOwners
<1>3. DOMAIN prog \subseteq Nat /\ n \in Nat /\ prog \in Programs
  BY <1>2, ProgramsAssumption, LenProperties DEF FramesInv, IsTree
<1>4. n \notin objects
  <2>1. Len(frames) \in DOMAIN Ahead
    BY AheadOfTop
  <2>2. \A o \in objects : o < n
    BY <1>1, <2>1 DEF OrderInv, Ordered
  <2> QED BY <1>3, <2>2
<1>5. /\ Owning' = Owning \cup {m} /\ m \in Nat /\ m \notin Owning
      /\ \A k \in Owning : k \in Nat /\ k < m
      /\ Owning' \subseteq 1..m
  <2>1. \A k \in Owning : k \in Nat /\ k < m
    OBVIOUS
  <2>2. \A k \in Owning' : k \in Owning \/ k = m
    OBVIOUS
  <2>3. m \in Nat
    OBVIOUS
  <2>4. \A k \in Owning' : k \in 1..m
    BY <2>2
  <2>5. m \notin Owning
    BY ONLY <2>1, <2>3
  <2> QED BY <2>1, <2>3, <2>4, <2>5
<1> HIDE DEF m
<1>6. Active' = Active \cup {n}
  <2>1. frames'[m].node = n
    BY DEF m
  <2> QED BY ONLY <1>5, <2>1, \A k \in Owning : frames'[k].node = frames[k].node DEF Active
<1>7. CASE /\ sp = Cardinality(Owning)
           /\ \A k \in Owning : stack[Rank(k)] = frames[k].node
           /\ objects = Active
  <2>1. /\ IsFiniteSet(Owning) /\ Cardinality(Owning) \in Nat
        /\ \A k \in Owning : Rank(k) \in 1..Cardinality(Owning)
    BY OwnersAreFinite DEF Rank
  <2>2. Cardinality(Owning') = sp + 1
    BY <1>5, <1>7, <2>1, FS_AddElement
  <2>3. sp + 1 <= Cardinality(Handles(prog))
    <3> DEFINE f == [k \in Owning' |-> frames'[k].node]
    <3>1. \A k \in Owning' : frames'[k].node \in Handles(prog)
      <4>1. ASSUME NEW k \in Owning
            PROVE  frames[k].node \in Handles(prog)
        <5>1. frames[k] \in Frame(prog)
          BY ElementOfSeq DEF Owning, FramesInv, Stacked
        <5> QED BY <5>1, FrameKinds DEF Owning, FuncFrames, CallFrames, Handles
      <4>2. n \in Handles(prog)
        BY <1>1, <1>2 DEF Handles, Node
      <4> QED BY <1>5, <4>1, <4>2 DEF m
    <3>2. ASSUME NEW j \in Owning', NEW k \in Owning', j < k
          PROVE  frames'[j].node # frames'[k].node
      <4>1. j \in Owning
        BY ONLY <1>5, <3>2
      <4>2. CASE k = m
        <5>1. frames'[k].node = n /\ frames'[j].node = frames[j].node /\ frames[j].node < n
          BY <1>2, <4>1, <4>2 DEF m
        <5> QED BY <1>3, <5>1
      <4>3. CASE k \in Owning
        <5>1. frames[k].node \in Nodes(frames[k]) /\ k \in DOMAIN frames
          BY <4>3 DEF Nodes, Owning
        <5>2. frames[j].node < frames[k].node
          BY <3>2, <4>1, <5>1 DEF OrderInv
        <5>3. frames[k].node \in Nat
          <6>1. frames[k] \in Frame(prog)
            BY <5>1, ElementOfSeq DEF FramesInv, Stacked
          <6> QED BY <1>3, <4>3, <6>1, FrameKinds DEF Owning, FuncFrames, CallFrames
        <5> QED BY <4>1, <4>3, <5>2, <5>3
      <4> QED BY <1>5, <4>2, <4>3
    <3>3. \A k \in Owning' : f[k] = frames'[k].node
      OBVIOUS
    <3>4. f \in [Owning' -> Handles(prog)]
      BY <3>1
    <3> HIDE DEF f
    <3>5. ~\E x, y \in Owning' : x # y /\ f[x] = f[y]
      <4>1. \A x, y \in Owning' : x # y => x < y \/ y < x
        BY ONLY <1>5
      <4> QED BY <3>2, <3>3, <4>1
    <3>6. IsFiniteSet(Handles(prog)) /\ Cardinality(Handles(prog)) \in Nat
      <4>1. prog \in Seq(SyntaxNode)
        BY <1>3, ProgramsAssumption DEF IsTree
      <4>2. DOMAIN prog = 1..Len(prog) /\ Len(prog) \in Nat
        BY <4>1, LenProperties
      <4>3. IsFiniteSet(1..Len(prog))
        BY <4>2, FS_Interval
      <4>4. Handles(prog) \in SUBSET (1..Len(prog))
        BY <4>2 DEF Handles
      <4> QED BY <4>3, <4>4, FS_Subset, FS_CardinalityType
    <3>7. IsFiniteSet(Owning')
      BY <1>5, <2>1, FS_AddElement
    <3>8. ~(Cardinality(Handles(prog)) < Cardinality(Owning'))
      <4> DEFINE S == Owning'
                 T == Handles(prog)
      <4>1. /\ IsFiniteSet(S) /\ IsFiniteSet(T) /\ f \in [S -> T]
            /\ ~\E x, y \in S : x # y /\ f[x] = f[y]
        BY ONLY <3>4, <3>5, <3>6, <3>7
      <4> HIDE DEF S, T
      <4>2. ~(Cardinality(T) < Cardinality(S))
        BY ONLY <4>1, FS_PigeonHole
      <4> QED BY ONLY <4>2 DEF S, T
    <3> QED BY <1>7, <2>1, <2>2, <3>6, <3>8
  <2>4. /\ sp + StackGap < StackDepth
        /\ sp \in Nat /\ sp + 1 \in 1..StackDepth
    <3>1. /\ StackDepth \in Nat /\ StackGap \in Nat
          /\ Cardinality(Handles(prog)) + StackGap <= StackDepth
      BY <1>3, StackAssumption
    <3>2. Cardinality(Handles(prog)) \in Int
      <4>1. prog \in Seq(SyntaxNode)
        BY <1>3, ProgramsAssumption DEF IsTree
      <4>2. DOMAIN prog = 1..Len(prog) /\ Len(prog) \in Nat
        BY <4>1, LenProperties
      <4>3. IsFiniteSet(1..Len(prog))
        BY <4>2, FS_Interval
      <4>4. Handles(prog) \in SUBSET (1..Len(prog))
        BY <4>2 DEF Handles
      <4> QED BY <4>3, <4>4, FS_Subset, FS_CardinalityType
    <3>3. sp \in Nat
      BY <1>7, <2>1
    <3> QED BY ONLY <2>3, <3>1, <3>2, <3>3
  <2>5. stack' = [stack EXCEPT ![sp + 1] = n] /\ sp' = sp + 1
    <3>1. ~(sp + StackGap >= StackDepth)
      BY ONLY <2>4, StackAssumption
    <3> QED BY <1>1, <3>1 DEF PushHandle
  <2>6. ASSUME NEW k \in Owning'
        PROVE  stack'[Rank(k)'] = frames'[k].node
    <3>0. stack \in [1..StackDepth -> Nat]
      BY DEF ValuesInv
    <3>1. CASE k = m
      <4>0. \A j \in Owning' : j <= k
        BY ONLY <1>5, <3>1
      <4>1. {j \in Owning' : j <= k} = Owning'
        BY ONLY <4>0
      <4>2. Rank(k)' = sp + 1
        BY <2>2, <4>1 DEF Rank
      <4> QED BY <2>4, <2>5, <3>0, <3>1, <4>2 DEF m
    <3>2. CASE k \in Owning
      <4>1. {j \in Owning' : j <= k} = {j \in Owning : j <= k}
        BY ONLY <1>5, <3>2
      <4>2. Rank(k)' = Rank(k)
        BY <4>1 DEF Rank
      <4>3. Rank(k) \in 1..sp
        BY <1>7, <2>1, <3>2
      <4>4. Rank(k) # sp + 1 /\ Rank(k) \in 1..StackDepth
        BY ONLY <2>4, <4>3, StackAssumption
      <4>5. stack'[Rank(k)] = stack[Rank(k)]
        BY <2>5, <3>0, <4>4
      <4> QED BY <1>7, <3>2, <4>2, <4>5
    <3> QED BY <1>5, <3>1, <3>2
  <2>7. sp' = Cardinality(Owning') /\ objects' = Active'
    BY <1>1, <1>6, <1>7, <2>2, <2>5
  <2> QED BY <2>6, <2>7 DEF StackMirrorsFrames
<1>8. CASE /\ Abandoned # {} /\ failed
           /\ \A x \in Abandoned : Node(x).type = "call" /\ Node(x).args # <<>>
  <2>1. Abandoned' = Abandoned
    BY <1>1, <1>4, <1>6 DEF Abandoned
  <2> QED BY <1>8, <2>1 DEF StackMirrorsFrames, Node
<1> QED BY <1>7, <1>8 DEF StackMirrorsFrames

LEMMA StackNext ==
  ASSUME ResultInv, OrderInv, StackMirrorsFrames, [Next]_vars
  PROVE  StackMirrorsFrames'
<1>1. CASE Next
  <2>1. Walks /\ frames # <<>> /\ ResultInv'
    BY <1>1, EveryStepWalks, ResultNext
  <2>2. FramesInv /\ FramesInv' /\ ValuesInv /\ Len(frames) \in Nat
    BY <2>1, TopOfFrames DEF ResultInv
  <2>3. UNCHANGED prog /\ (failed => failed')
    BY <2>1 DEF Walks, Below
  <2>4. /\ Owning \subseteq 1..Len(frames)
        /\ \A k \in Owning : k \in Owning' => frames'[k].node = frames[k].node
    BY <2>1, <2>2, OwnersAfter
  <2>5. CASE GoesOn \/ HandsOver \/ (Leaves /\ ~Owns(Top)) \/ (\E n : Enters(n))
    <3>1. Owning' = Owning
      BY <2>1, <2>2, <2>5, OwnersAfter
    <3>2. UNCHANGED <<stack, sp, objects>>
      BY <2>5 DEF GoesOn, HandsOver, Leaves, Enters, Owns
    <3> QED BY <2>3, <2>4, <3>1, <3>2, StackKept
  <2>6. CASE Leaves /\ Owns(Top)
    <3>1. Len(frames) \in Owning /\ Owning' = Owning \ {Len(frames)}
      BY <2>1, <2>2, <2>6, OwnersAfter
    <3>2. \A k \in Owning' : frames'[k].node = frames[k].node
      BY <2>4, <3>1
    <3>3. /\ UNCHANGED stack
          /\ \/ objects' = objects \ {Top.node} /\ sp' = sp - 1
             \/ /\ Top.fn = "call" /\ Node(Top.node).args # <<>> /\ failed'
                /\ UNCHANGED <<sp, objects>>
      BY <2>6 DEF Leaves
    <3> QED BY <2>1, <2>2, <2>3, <2>4, <2>6, <3>1, <3>2, <3>3, StackPopped
  <2>7. CASE \E n : Pushes(n)
    <3>1. PICK n : Pushes(n)
      BY <2>7
    <3>2. /\ Owning' = Owning \cup {Len(frames) + 1}
          /\ frames'[Len(frames) + 1].node = n
      BY <2>1, <2>2, <3>1, OwnersAfter
    <3>3. \A k \in Owning : frames'[k].node = frames[k].node
      BY <2>4, <3>2
    <3> QED BY <2>1, <2>2, <2>3, <2>4, <3>1, <3>2, <3>3, StackPushed
  <2> QED BY <2>1, <2>5, <2>6, <2>7 DEF Walks
<1>2. CASE UNCHANGED vars
  <2>1. /\ prog' = prog /\ frames' = frames /\ stack' = stack /\ sp' = sp
        /\ objects' = objects /\ (failed => failed')
    BY <1>2 DEF vars
  <2>2. Owning' = Owning /\ \A k \in Owning : frames'[k].node = frames[k].node
    BY <2>1 DEF Owning
  <2> QED BY <2>1, <2>2, StackKept
<1> QED BY <1>1, <1>2

ExecutorInv == ResultInv /\ OrderInv /\ StackMirrorsFrames

\* The inductive invariant: what a function returned, the order of the walk, and
\* the handle stack.
THEOREM ExecutorInvariant == Spec => []ExecutorInv
<1>1. Init => ExecutorInv
  BY ResultInit, OrderInit, StackInit DEF ExecutorInv, ResultInv
<1>2. ExecutorInv /\ [Next]_vars => ExecutorInv'
  BY ResultNext, OrderNext, StackNext DEF ExecutorInv
<1> QED BY <1>1, <1>2, PTL DEF Spec

\* In every execution of every rule the handle stack holds the objects of the
\* active functions and calls, until the object of a call whose argument failed is
\* abandoned (the pushes, pops and destructors of execute_syntax_func and _call,
\* and EXEC_STACK_GAP).
THEOREM HandleStackMirrorsCStack == Spec => []StackMirrorsFrames
<1>1. ExecutorInv => StackMirrorsFrames
  BY DEF ExecutorInv
<1> QED BY <1>1, ExecutorInvariant, PTL

\* An execution of any rule in which nothing failed releases all that it acquired
\* (lre_value_release, and the label out of execute_syntax_func and _call).
THEOREM CleanExecutionsReleaseAll == Spec => []CleanExecutionLeavesNothing
<1>1. ExecutorInv => CleanExecutionLeavesNothing
  <2> SUFFICES ASSUME ExecutorInv, Finished, ~failed
               PROVE  strings = 0 /\ objects = {} /\ sp = 0
    BY DEF CleanExecutionLeavesNothing
  <2>1. strings = 0
    BY DEF ExecutorInv, ResultInv, StringsInv, Finished, Awaited
  <2>2. Owning = {}
    BY DEF Owning, Finished
  <2>3. Active = {}
    BY <2>2 DEF Active
  <2>4. sp = Cardinality(Owning) /\ objects = Active
    BY DEF ExecutorInv, StackMirrorsFrames
  <2> QED BY <2>1, <2>2, <2>3, <2>4, FS_EmptySet
<1> QED BY <1>1, ExecutorInvariant, PTL

-----------------------------------------------------------------------------
\* The nearest function or call.  Each node but the first is part of one other,
\* which comes before it.
LEMMA OneParent ==
  ASSUME prog \in Programs, NEW p \in DOMAIN prog, NEW n \in Parts(prog, p)
  PROVE  n \in DOMAIN prog /\ p < n /\ n # 1 /\ Parent(n) = p
<1>1. IsTree(prog) /\ DOMAIN prog = 1..Len(prog) /\ Len(prog) \in Nat
  BY TreeParts, ProgramsAssumption
<1>2. \A q \in DOMAIN prog : \A x \in Parts(prog, q) : x \in DOMAIN prog /\ q < x
  BY <1>1 DEF IsTree
<1>3. ASSUME NEW q \in DOMAIN prog, n \in Parts(prog, q)
      PROVE  q = p
  <2>1. \A a, b \in DOMAIN prog : n \in Parts(prog, a) /\ n \in Parts(prog, b) => ~(a < b)
    <3> SUFFICES ASSUME NEW a \in DOMAIN prog, NEW b \in DOMAIN prog,
                        n \in Parts(prog, a), n \in Parts(prog, b), a < b
                 PROVE  FALSE
      OBVIOUS
    <3>1. b < n /\ n \in Nat
      BY <1>1, <1>2
    <3>2. n < n
      BY <1>1, <3>1 DEF IsTree
    <3> QED BY <3>1, <3>2
  <2> QED BY <1>1, <1>3, <2>1
<1> QED BY <1>1, <1>2, <1>3 DEF Parent

\* A function on the nodes of a tree may be defined by the one of the parent.
LEMMA AlongParents ==
  ASSUME NEW N \in Nat, NEW S \in SUBSET (1..N), NEW up \in [1..N -> Nat],
         \A n \in 1..N : n \notin S => up[n] \in 1..(n - 1)
  PROVE  \E f \in [1..N -> Nat] :
           \A n \in 1..N : /\ n \in S => f[n] = up[n]
                           /\ n \notin S => f[n] = f[up[n]]
<1> DEFINE Good(m) == \E f \in [1..m -> Nat] :
                        \A n \in 1..m : /\ n \in S => f[n] = up[n]
                                        /\ n \notin S => f[n] = f[up[n]]
           T == {m \in Nat : m <= N => Good(m)}
<1>1. Good(0)
  <2>1. [n \in 1..0 |-> 0] \in [1..0 -> Nat] /\ 1..0 = {}
    OBVIOUS
  <2> QED BY <2>1
<1>2. ASSUME NEW m \in Nat, m + 1 <= N, Good(m)
      PROVE  Good(m + 1)
  <2>1. PICK f \in [1..m -> Nat] :
          \A n \in 1..m : /\ n \in S => f[n] = up[n]
                          /\ n \notin S => f[n] = f[up[n]]
    BY ONLY <1>2
  <2>2. \A n \in 1..(m + 1) : n \in 1..N /\ (n \notin S => up[n] \in 1..m)
    BY <1>2
  <2> DEFINE g == [n \in 1..(m + 1) |-> IF n \in S THEN up[n] ELSE f[up[n]]]
  <2>3. g \in [1..(m + 1) -> Nat]
    BY <2>1, <2>2
  <2>4. ASSUME NEW n \in 1..m PROVE g[n] = f[n]
    <3>1. n \in 1..(m + 1)
      BY <1>2
    <3>2. g[n] = IF n \in S THEN up[n] ELSE f[up[n]]
      BY <3>1
    <3> HIDE DEF g
    <3> QED BY <2>1, <3>2
  <2>5. ASSUME NEW n \in 1..(m + 1)
        PROVE  /\ n \in S => g[n] = up[n]
               /\ n \notin S => g[n] = g[up[n]]
    <3>1. n \in S => g[n] = up[n]
      OBVIOUS
    <3>2. n \notin S => g[n] = f[up[n]] /\ up[n] \in 1..m
      BY <2>2
    <3> QED BY <2>4, <3>1, <3>2
  <2> HIDE DEF g
  <2> QED BY <2>3, <2>5
<1>3. Good(N)
  <2> HIDE DEF Good
  <2>1. T \in SUBSET Nat /\ 0 \in T
    BY <1>1
  <2>2. ASSUME NEW m \in T PROVE m + 1 \in T
    BY <1>2
  <2>3. T = Nat
    <3> HIDE DEF T
    <3> QED BY <2>1, <2>2, SetInduction
  <2>4. N \in T /\ N <= N
    BY <2>3
  <2> QED BY <2>4
<1> QED BY ONLY <1>3

LEMMA HolderOfPart ==
  ASSUME prog \in Programs, NEW p \in DOMAIN prog, NEW n \in Parts(prog, p)
  PROVE  /\ n \in DOMAIN prog
         /\ Node(p).type \in {"func", "call"} => Holder[n] = p
         /\ Node(p).type \notin {"func", "call"} => Holder[n] = Holder[p]
         /\ Holder[1] = 0
<1> DEFINE N  == Len(prog)
           S  == {x \in 1..N : x = 1 \/ Node(Parent(x)).type \in {"func", "call"}}
           up == [x \in 1..N |-> IF x = 1 THEN 0 ELSE Parent(x)]
<1>1. IsTree(prog) /\ DOMAIN prog = 1..Len(prog) /\ Len(prog) \in Nat
  BY TreeParts, ProgramsAssumption
<1>2. ASSUME NEW x \in DOMAIN prog, x # 1
      PROVE  up[x] \in 1..(x - 1)
  <2>1. PICK q \in DOMAIN prog : x \in Parts(prog, q)
    BY <1>1, <1>2 DEF IsTree
  <2>2. Parent(x) = q /\ q < x
    BY <2>1, OneParent
  <2> QED BY <1>1, <2>2
<1>3. \E f \in [1..N -> Nat] :
        \A x \in 1..N : /\ x \in S => f[x] = up[x]
                        /\ x \notin S => f[x] = f[up[x]]
  <2>1. \A x \in 1..N : x \notin S => up[x] \in 1..(x - 1)
    BY <1>1, <1>2
  <2>2. \A x \in 1..N : x # 1 => up[x] \in Nat
    BY <1>1, <1>2
  <2>3. up \in [1..N -> Nat]
    BY <1>1, <2>2
  <2>4. N \in Nat /\ S \in SUBSET (1..N)
    BY <1>1
  <2> HIDE DEF N, S, up
  <2> QED BY ONLY <2>1, <2>3, <2>4, AlongParents
<1> DEFINE Step(f) == [x \in DOMAIN prog |->
                         IF x = 1 THEN 0
                         ELSE IF Node(Parent(x)).type \in {"func", "call"}
                              THEN Parent(x) ELSE f[Parent(x)]]
<1>4. \E f : f = Step(f)
  <2>1. PICK f \in [1..N -> Nat] :
          \A x \in 1..N : /\ x \in S => f[x] = up[x]
                          /\ x \notin S => f[x] = f[up[x]]
    BY <1>3
  <2>2. ASSUME NEW x \in DOMAIN prog
        PROVE  f[x] = Step(f)[x]
    BY <1>1, <2>1
  <2>3. f = Step(f)
    BY <1>1, <2>1, <2>2
  <2> QED BY <2>3
<1>5. Holder = Step(Holder)
  BY <1>4 DEF Holder
<1>6. n \in DOMAIN prog /\ n # 1 /\ Parent(n) = p
  BY OneParent
<1>7. Holder[n] = IF Node(p).type \in {"func", "call"} THEN p ELSE Holder[p]
  BY <1>5, <1>6
<1>8. 1 \in DOMAIN prog
  BY <1>1, <1>6
<1>9. Holder[1] = 0
  BY <1>5, <1>8
<1> QED BY <1>6, <1>7, <1>9

\* The nearest function or call below a frame.
LEMMA NearIs ==
  ASSUME Owning \subseteq Nat, NEW k \in Nat
  PROVE  /\ \A g \in Owning : g < k /\ (\A i \in Owning : i < k => i <= g) =>
              Near(k) = frames[g].node
         /\ (\A i \in Owning : ~(i < k)) => Near(k) = NoObject
<1> DEFINE Nearest(g) == g \in Owning /\ g < k /\ \A i \in Owning : i < k => i <= g
<1>1. ASSUME NEW g, Nearest(g)
      PROVE  Near(k) = frames[g].node
  <2> DEFINE c == CHOOSE j \in Owning : j < k /\ \A i \in Owning : i < k => i <= j
  <2>1. Nearest(c)
    BY <1>1
  <2> HIDE DEF c
  <2>2. c = g
    BY <1>1, <2>1
  <2>3. \E j \in Owning : j < k
    BY <1>1
  <2> QED BY <2>2, <2>3 DEF Near, c
<1>2. (\A i \in Owning : ~(i < k)) => Near(k) = NoObject
  BY DEF Near
<1> QED BY <1>1, <1>2

\* After a step, with the same functions and calls below.
LEMMA NearKept ==
  ASSUME Owning \subseteq Nat, Owning' \subseteq Nat, NEW k \in Nat, NEW i \in Nat,
         \A j \in Nat : j \in Owning' /\ j < k <=> j \in Owning /\ j < i,
         \A j \in Owning : j < i => frames'[j].node = frames[j].node
  PROVE  Near(k)' = Near(i)
<1> DEFINE T == {j \in Owning : j < i}
<1>1. CASE T = {}
  <2>1. (\A j \in Owning : ~(j < i)) /\ (\A j \in Owning' : ~(j < k))
    BY <1>1
  <2> QED BY <2>1 DEF Near
<1>2. CASE T # {}
  <2>1. \A y \in T : y \in Nat /\ y < i
    OBVIOUS
  <2>2. T \in SUBSET Nat /\ \A y \in T : y <= i
    <3> HIDE DEF T
    <3> QED BY <2>1
  <2>3. PICK g \in T : \A y \in T : y <= g
    <3> HIDE DEF T
    <3> QED BY <1>2, <2>2, GreatestNatural
  <2>4. g \in Owning /\ g < i /\ \A j \in Owning : j < i => j <= g
    BY <2>3
  <2>5. Near(i) = frames[g].node
    BY <2>4, NearIs
  <2> DEFINE c == CHOOSE j \in Owning' : j < k /\ \A h \in Owning' : h < k => h <= j
  <2>6. g \in Owning' /\ g < k /\ \A j \in Owning' : j < k => j <= g
    BY <2>4
  <2>7. c \in Owning' /\ c < k /\ \A j \in Owning' : j < k => j <= c
    BY <2>6
  <2> HIDE DEF c
  <2>8. c = g
    BY <2>6, <2>7
  <2>9. Near(k)' = frames'[g].node
    BY <2>6, <2>8 DEF Near, c
  <2> QED BY <2>4, <2>5, <2>9
<1> QED BY <1>1, <1>2

\* The one at or below the function on top, and the handle on top of the stack.
LEMMA NearTop ==
  ASSUME FramesInv, frames # <<>>
  PROVE  /\ Owning \subseteq 1..Len(frames) /\ Len(frames) \in Nat \ {0}
         /\ Owns(Top) => Near(Len(frames) + 1) = Top.node
         /\ ~Owns(Top) => Near(Len(frames) + 1) = Near(Len(frames))
         /\ StackMirrorsFrames /\ ~failed => GetHandle = Near(Len(frames) + 1)
<1> DEFINE m == Len(frames)
<1>1. /\ m \in Nat \ {0} /\ DOMAIN frames = 1..m /\ Owning \subseteq 1..m
      /\ m \in Owning <=> Owns(Top)
  BY TopOfFrames DEF Owning, Owns, Top
<1> HIDE DEF m
<1>2. /\ Owning \subseteq Nat /\ m \in Nat /\ m + 1 \in Nat
      /\ \A j \in Owning : j < m + 1 /\ j <= m
  BY <1>1
<1>3. ASSUME Owns(Top)
      PROVE  Near(m + 1) = Top.node
  <2>1. Near(m + 1) = frames[m].node
    BY <1>1, <1>2, <1>3, NearIs
  <2> QED BY <2>1 DEF Top, m
<1>4. ASSUME ~Owns(Top)
      PROVE  Near(m + 1) = Near(m)
  <2>1. \A j \in Owning : j < m
    BY <1>1, <1>4
  <2> DEFINE T == Owning
  <2>2. CASE T = {}
    BY <2>2 DEF Near
  <2>3. CASE T # {}
    <3>1. PICK g \in T : \A y \in T : y <= g
      <4>1. T \in SUBSET Nat /\ \A y \in T : y <= m
        BY <1>2
      <4> HIDE DEF T
      <4> QED BY <1>2, <2>3, <4>1, GreatestNatural
    <3>2. Near(m + 1) = frames[g].node
      BY <1>2, <3>1, NearIs
    <3>3. Near(m) = frames[g].node
      BY <1>2, <2>1, <3>1, NearIs
    <3> QED BY <3>2, <3>3
  <2> QED BY <2>2, <2>3
<1>5. ASSUME StackMirrorsFrames, ~failed
      PROVE  GetHandle = Near(m + 1)
  <2>1. sp = Cardinality(Owning) /\ \A k \in Owning : stack[Rank(k)] = frames[k].node
    BY <1>5 DEF StackMirrorsFrames
  <2>2. IsFiniteSet(Owning) /\ \A k \in Owning : Rank(k) \in 1..Cardinality(Owning)
    BY <1>1, OwnersAreFinite DEF Rank
  <2> DEFINE T == Owning
  <2>3. CASE T = {}
    <3>1. sp = 0
      BY <2>1, <2>3, FS_EmptySet
    <3> QED BY <2>3, <3>1 DEF Near, GetHandle
  <2>4. CASE T # {}
    <3>1. PICK g \in T : \A y \in T : y <= g
      <4>1. T \in SUBSET Nat /\ \A y \in T : y <= m
        BY <1>2
      <4> HIDE DEF T
      <4> QED BY <1>2, <2>4, <4>1, GreatestNatural
    <3>2. Near(m + 1) = frames[g].node
      BY <1>2, <3>1, NearIs
    <3>3. {j \in Owning : j <= g} = Owning
      BY <3>1
    <3>4. Rank(g) = sp
      BY <2>1, <3>3 DEF Rank
    <3>5. sp >= 1
      BY <2>1, <2>2, <3>1, <3>4
    <3> QED BY <2>1, <3>1, <3>2, <3>4, <3>5 DEF GetHandle
  <2> QED BY <2>3, <2>4
<1> QED BY <1>1, <1>3, <1>4, <1>5 DEF m

\* What is ahead of the function on top has the nearest function or call at or
\* below it.
LEMMA HolderOfAhead ==
  ASSUME FramesInv, HolderInv, frames # <<>>, NEW n \in Ahead[Len(frames)]
  PROVE  Holder[n] = Near(Len(frames) + 1) /\ n \in DOMAIN prog
<1>1. /\ Len(frames) \in DOMAIN frames /\ Top = frames[Len(frames)] /\ prog \in Programs
  BY TopOfFrames DEF Top, FramesInv
<1>2. /\ n \in DOMAIN prog
      /\ Owns(Top) => n \in Parts(prog, Top.node)
      /\ ~Owns(Top) => n \in Nodes(Top)
  BY <1>1, AheadInTree
<1>3. CASE Owns(Top)
  <2>1. Top.node \in DOMAIN prog /\ Node(Top.node).type \in {"func", "call"}
    BY <1>3, OwnerFrames DEF Owns
  <2>2. Holder[n] = Top.node
    BY <1>1, <1>2, <1>3, <2>1, HolderOfPart
  <2> QED BY <1>2, <1>3, <2>2, NearTop
<1>4. CASE ~Owns(Top)
  <2>1. Holder[n] = Near(Len(frames))
    BY <1>1, <1>2, <1>4 DEF HolderInv, Owns
  <2> QED BY <1>2, <1>4, <2>1, NearTop
<1> QED BY <1>3, <1>4

LEMMA HolderInit ==
  ASSUME Init, FramesInv
  PROVE  HolderInv
<1>1. /\ frames = <<ChildsFrame(prog[1].kids)>> /\ prog \in Programs
  BY DEF Init
<1>2. DOMAIN frames = {1} /\ frames[1] = ChildsFrame(prog[1].kids)
  BY <1>1
<1>3. Owning = {}
  BY <1>2 DEF Owning, ChildsFrame
<1>4. Near(1) = NoObject
  BY <1>3 DEF Near
<1>5. ASSUME NEW x \in Members(prog[1].kids)
      PROVE  Holder[x] = NoObject
  <2>1. IsTree(prog) /\ DOMAIN prog = 1..Len(prog) /\ 1 \in DOMAIN prog
    <3>1. IsTree(prog)
      BY <1>1, ProgramsAssumption
    <3> QED BY <3>1, LenProperties, EmptySeq DEF IsTree
  <2>2. x \in Parts(prog, 1) /\ Node(1).type = "content"
    BY <1>1, ProgramsAssumption DEF Parts, IsTree, Node
  <2> QED BY <1>1, <2>1, <2>2, HolderOfPart DEF NoObject
<1> QED BY <1>2, <1>4, <1>5 DEF HolderInv, ChildsFrame, Nodes

LEMMA HolderStep ==
  ASSUME FramesInv, FramesInv', StackMirrorsFrames, HolderInv, frames # <<>>, Walks
  PROVE  HolderInv'
<1> SUFFICES ASSUME NEW k \in DOMAIN frames', ~Owns(frames'[k])
             PROVE  /\ \A x \in Nodes(frames'[k]) : Holder[x] = Near(k)'
                    /\ ~failed' /\ frames'[k].fn \in {"val", "expr"} =>
                         frames'[k].handle = Near(k)'
  <2>1. Holder' = Holder
    BY DEF Walks, Below, Holder, Parent, Node
  <2> QED BY <2>1 DEF HolderInv, Owns
<1> DEFINE m == Len(frames)
           q == Len(frames')
<1>1. /\ m \in Nat \ {0} /\ q \in Nat /\ DOMAIN frames = 1..m /\ DOMAIN frames' = 1..q
      /\ \A i \in DOMAIN frames' : i <= m =>
           /\ i \in DOMAIN frames /\ Kept(frames'[i], frames[i])
           /\ i \in Owning' <=> i \in Owning
           /\ i \in Owning => frames'[i].node = frames[i].node
  BY KeptFrames
<1>2. Owning \subseteq 1..m /\ Owning' \subseteq 1..q /\ (failed => failed')
  BY <1>1 DEF Owning, Walks, Below
<1> HIDE DEF m, q
<1>3. k \in Nat /\ Owning \subseteq Nat /\ Owning' \subseteq Nat /\ m + 1 \in Nat
  BY ONLY <1>1, <1>2, k \in DOMAIN frames'
<1>4. CASE k <= m
  <2>1. \A j \in Nat : j \in Owning' /\ j < k <=> j \in Owning /\ j < k
    <3>1. \A j \in 1..q : j <= m => (j \in Owning' <=> j \in Owning)
      BY <1>1
    <3>2. \A j \in Nat : j < k => j <= m /\ (j \in 1..q \/ j = 0)
      BY ONLY <1>1, <1>3, <1>4, k \in DOMAIN frames'
    <3>3. 0 \notin Owning /\ 0 \notin Owning'
      BY ONLY <1>2, <1>1
    <3> QED BY ONLY <3>1, <3>2, <3>3
  <2>2. \A j \in Owning : j < k => frames'[j].node = frames[j].node
    <3>1. \A j \in Owning : j < k => j <= m /\ j \in 1..q
      BY ONLY <1>1, <1>2, <1>3, <1>4, k \in DOMAIN frames'
    <3> QED BY <1>1, <3>1
  <2>3. Near(k)' = Near(k)
    BY ONLY <1>3, <2>1, <2>2, NearKept
  <2>4. k \in DOMAIN frames /\ Kept(frames'[k], frames[k])
    BY <1>1, <1>4
  <2>5. ~Owns(frames[k])
    BY <2>4 DEF Kept, Owns
  <2> QED BY <1>2, <2>3, <2>4, <2>5 DEF HolderInv, Kept, Owns
<1>5. ASSUME k > m, Owning' = Owning
      PROVE  Near(k)' = Near(m + 1)
  <2>1. \A j \in Nat : j \in Owning' /\ j < k <=> j \in Owning /\ j < m + 1
    BY ONLY <1>1, <1>2, <1>3, <1>5
  <2>2. \A j \in Owning : j < m + 1 => frames'[j].node = frames[j].node
    <3>1. \A j \in Owning : j <= m /\ j \in 1..q
      BY ONLY <1>1, <1>2, <1>3, <1>5, k \in DOMAIN frames'
    <3> QED BY <1>1, <3>1
  <2> QED BY ONLY <1>3, <2>1, <2>2, NearKept
<1>6. CASE k > m /\ HandsOver
  <2>1. /\ q = m + 1 /\ Top.fn = "func" /\ Owns(Top)
        /\ frames'[m + 1].fn = "childs"
        /\ Nodes(frames'[m + 1]) = Members(Node(Top.node).kids)
    BY <1>6 DEF HandsOver, m, q, Owns
  <2>2. k = m + 1
    BY ONLY <1>1, <1>3, <1>6, <2>1, k \in DOMAIN frames'
  <2>3. Near(k)' = Top.node
    <3>1. Owning' = Owning
      BY <1>6, OwnersAfter
    <3>2. Near(m + 1) = Top.node
      BY <2>1, NearTop DEF m
    <3> QED BY <1>5, <1>6, <3>1, <3>2
  <2>4. Top.node \in DOMAIN prog /\ Node(Top.node).type \in {"func", "call"}
    BY <2>1, OwnerFrames DEF Owns
  <2>5. \A x \in Members(Node(Top.node).kids) : Holder[x] = Top.node
    BY <2>4, HolderOfPart DEF Parts, Node, FramesInv
  <2> QED BY <2>1, <2>2, <2>3, <2>5
<1>7. CASE k > m /\ \E n \in DOMAIN prog : Enters(n)
  <2>1. PICK n \in DOMAIN prog : Enters(n)
    BY <1>7
  <2>2. /\ n \in Ahead[Len(frames)] /\ Node(n).type \notin {"func", "call"}
        /\ \A i \in (m + 1)..q :
             /\ Nodes(frames'[i]) \in {{n}, Members(Node(n).kids)}
             /\ frames'[i].fn \in {"val", "expr"} => frames'[i].handle = GetHandle
    BY <2>1 DEF Enters, ComesTo, m, q
  <2>3. k \in (m + 1)..q
    BY ONLY <1>1, <1>3, <1>7, k \in DOMAIN frames'
  <2>4. Near(k)' = Near(m + 1)
    <3>1. Owning' = Owning
      BY <2>1, OwnersAfter
    <3> QED BY <1>5, <1>7, <3>1
  <2>5. Holder[n] = Near(m + 1)
    BY <2>2, HolderOfAhead DEF m
  <2>6. \A x \in Members(Node(n).kids) : Holder[x] = Holder[n]
    BY <2>1, <2>2, HolderOfPart DEF Parts, Node, FramesInv
  <2>7. ~failed' => GetHandle = Near(m + 1)
    BY <1>2, NearTop DEF m
  <2>8. /\ Nodes(frames'[k]) \in {{n}, Members(Node(n).kids)}
        /\ frames'[k].fn \in {"val", "expr"} => frames'[k].handle = GetHandle
    BY <2>2, <2>3
  <2> QED BY <2>4, <2>5, <2>6, <2>7, <2>8
<1>8. CASE k > m /\ (GoesOn \/ Leaves \/ \E n \in DOMAIN prog : Pushes(n))
  <2>1. GoesOn => q = m
    BY DEF GoesOn, m, q
  <2>2. Leaves => q = m - 1
    BY DEF Leaves, m, q
  <2>3. (\E n \in DOMAIN prog : Pushes(n)) => q = m + 1 /\ Owns(frames'[q])
    BY DEF Pushes, m, q
  <2>4. q = m + 1 /\ Owns(frames'[q])
    BY ONLY <1>1, <1>3, <1>8, <2>1, <2>2, <2>3, k \in DOMAIN frames'
  <2>5. k = q
    BY ONLY <1>1, <1>3, <1>8, <2>4, k \in DOMAIN frames'
  <2> QED BY <2>4, <2>5
<1>9. k > m \/ k <= m
  BY ONLY <1>1, <1>3
<1> QED BY <1>4, <1>6, <1>7, <1>8, <1>9 DEF Walks

\* The callback that a step runs, if any: after a failure there is none in a rule
\* without a negated group, and an expression or variable handler gets the object
\* of its frame.
LEMMA CalledNext ==
  ASSUME ResultInv, StackMirrorsFrames, HolderInv, HandlersGetNearestObjectUnnegated, Next
  PROVE  HandlersGetNearestObjectUnnegated'
<1>1. Walks /\ frames # <<>> /\ FramesInv
  BY EveryStepWalks DEF ResultInv
<1>2. prog' = prog /\ (Negates' <=> Negates) /\ Holder' = Holder
  BY <1>1 DEF Walks, Below, Negates, Holder, Parent, Node
<1>3. CASE called' = called
  BY <1>2, <1>3 DEF HandlersGetNearestObjectUnnegated, Node
<1>4. CASE Node(called'.node).type \in {"func", "call", "arg"}
  BY <1>2, <1>4 DEF HandlersGetNearestObjectUnnegated, Node
<1>5. CASE /\ called' # called
           /\ Top.fn \in {"val", "expr"}
           /\ called'.node \in Nodes(Top) /\ called'.object = Top.handle
  <2>1. ~Negates => ~failed
    BY <1>5, NoCallAfterFailure
  <2>2. Len(frames) \in DOMAIN frames /\ Top = frames[Len(frames)]
    BY <1>1, TopOfFrames DEF Top
  <2>3. Holder[called'.node] = Near(Len(frames))
    BY <1>5, <2>2 DEF HolderInv
  <2>4. ~failed => Top.handle = Near(Len(frames))
    BY <1>5, <2>2 DEF HolderInv
  <2> QED BY <1>2, <1>5, <2>1, <2>3, <2>4 DEF HandlersGetNearestObjectUnnegated
<1> QED BY <1>1, <1>3, <1>4, <1>5 DEF Walks, Below

NearestInv == ExecutorInv /\ HolderInv /\ HandlersGetNearestObjectUnnegated

\* In every execution of every rule without a negated group, expression and
\* variable handlers get the object of the nearest function or call around them
\* (exec_ctx_get_handle): the frame of a handler keeps the object that was on top
\* of the stack when it started, and nothing is left there by a function or call
\* that has returned.
THEOREM HandlersGetNearestObject == Spec => []HandlersGetNearestObjectUnnegated
<1>1. Init => NearestInv
  <2> SUFFICES ASSUME Init PROVE NearestInv
    OBVIOUS
  <2>1. ExecutorInv /\ FramesInv
    BY ResultInit, OrderInit, StackInit DEF ExecutorInv, ResultInv
  <2>2. HandlersGetNearestObjectUnnegated
    BY DEF Init, NoCall, HandlersGetNearestObjectUnnegated
  <2> QED BY <2>1, <2>2, HolderInit DEF NearestInv
<1>2. NearestInv /\ [Next]_vars => NearestInv'
  <2> SUFFICES ASSUME NearestInv, [Next]_vars PROVE NearestInv'
    OBVIOUS
  <2>1. ExecutorInv'
    BY ResultNext, OrderNext, StackNext DEF ExecutorInv, NearestInv
  <2>2. CASE Next
    <3>1. HolderInv'
      BY <2>1, <2>2, EveryStepWalks, HolderStep DEF NearestInv, ExecutorInv, ResultInv
    <3>2. HandlersGetNearestObjectUnnegated'
      BY <2>2, CalledNext DEF NearestInv, ExecutorInv
    <3> QED BY <2>1, <3>1, <3>2 DEF NearestInv
  <2>3. CASE UNCHANGED vars
    <3>1. prog' = prog /\ frames' = frames /\ called' = called /\ failed' = failed
      BY <2>3 DEF vars
    <3>2. Owning' = Owning /\ Holder' = Holder /\ (Negates' <=> Negates)
      BY <3>1 DEF Owning, Holder, Parent, Node, Negates
    <3>3. ASSUME NEW k PROVE Near(k)' = Near(k)
      BY <3>1, <3>2 DEF Near
    <3>4. HolderInv'
      BY <3>1, <3>2, <3>3 DEF NearestInv, HolderInv
    <3>5. HandlersGetNearestObjectUnnegated'
      BY <3>1, <3>2 DEF NearestInv, HandlersGetNearestObjectUnnegated, Node
    <3> QED BY <2>1, <3>4, <3>5 DEF NearestInv
  <2> QED BY <2>2, <2>3
<1>3. NearestInv => HandlersGetNearestObjectUnnegated
  BY DEF NearestInv
<1> QED BY <1>1, <1>2, <1>3, PTL DEF Spec
=============================================================================

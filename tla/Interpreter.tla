----------------------------- MODULE Interpreter -----------------------------
(***************************************************************************)
(* One interpreter (struct interp) and the calls of interpreter_execute    *)
(* that a host makes on it one after the other: load, lexical analysis,    *)
(* preprocessor, parser, semantic analysis, execution.  What a call leaves *)
(* for the next is the node pool and the bytes of its blocks.              *)
(*                                                                         *)
(* Executor.tla has the last stage in detail; here it has any outcome.  A  *)
(* stage that fails runs the error path of interpreter_execute at once.    *)
(***************************************************************************)
EXTENDS Semantic

CONSTANTS
  Codes,        \* what the host may execute: sequences of tokens
  Macros,       \* the macros, in the order lre_find_macro meets them
  GarbageArgs,  \* the argument keys that bytes fresh from malloc may spell
  MaxRuns       \* bound: calls of interpreter_execute

\* A macro has a name, parameters, and a body in which they occur as tokens.
ASSUME MacrosAssumption ==
  \A k \in DOMAIN Macros :
    /\ Macros[k] = [name |-> Macros[k].name, params |-> Macros[k].params,
                    body |-> Macros[k].body]
    /\ Macros[k].name \in Words
ASSUME RunsAssumption == MaxRuns \in Nat

VARIABLES
  phase,    \* the stage that interpreter_execute is about to run
  source,   \* the code the host passed
  code,     \* codebuf, or what the preprocessor made of it
  pool,     \* interp->syntax_mpool
  args,     \* args[b]: the argument keys in block b of the pool
  tree,     \* ctx->tree
  results,  \* interp->results
  errcode,  \* interp->errcode, by the stage that set it
  runs      \* calls so far

vars == <<phase, source, code, pool, args, tree, results, errcode, runs>>

Phases == {"idle", "lexer", "preprocess", "syntax", "semantic", "execute", "crashed"}
NoTree == [type |-> "none"]
Undefined == -559030547   \* LRE_RESULT_UNKNOWN

WordsOf(c) == SelectSeq(c, LAMBDA t : t \in Named)

Init ==
  /\ phase = "idle"
  /\ source = <<>> /\ code = <<>>
  /\ pool = NewPool
  /\ args = [b \in 1..InitCount |-> <<>>]
  /\ tree = NoTree
  /\ results = 0 /\ errcode = "ok"
  /\ runs = 0

\* The end of interpreter_execute: results and errcode, interp_context_destroy.
\* ctx->tree is not read again before the next call resets it.
Finish(verdict, err) ==
  /\ phase' = "idle"
  /\ results' = verdict /\ errcode' = err
  /\ pool' = IF tree = NoTree THEN pool ELSE DestroyTree(tree, pool, args)
  /\ tree' = NoTree

Fail(stage) == Finish(Undefined, stage)

\* interp_context_create.
Load(c) ==
  /\ phase = "idle" /\ runs < MaxRuns
  /\ phase' = "lexer"
  /\ source' = c /\ code' = c
  /\ tree' = NoTree
  /\ runs' = runs + 1
  /\ UNCHANGED <<pool, args, results, errcode>>

\* interp_lexer_analysis fails on a character that starts no token.
Lexer ==
  /\ phase = "lexer"
  /\ IF \A k \in DOMAIN code : code[k] \in Named \cup Symbols
     THEN /\ phase' = "preprocess"
          /\ UNCHANGED <<pool, tree, results, errcode>>
     ELSE Fail("lexer")
  /\ UNCHANGED <<source, code, args, runs>>

\* prase_macro_call_arg: name ( ) or name ( word , word ... ), whatever
\* follows.  The number of words, or -1.
MacroArgc(c) ==
  LET Spells(n) ==
        /\ Len(c) >= 2 * n + 2
        /\ \A k \in 1..n : /\ c[2 * k + 1] \in Named
                           /\ c[2 * k + 2] = IF k < n THEN "," ELSE ")"
  IN  CASE Len(c) < 3 \/ (Len(c) >= 2 /\ c[2] # "(") -> -1
        [] Len(c) >= 3 /\ c[2] = "(" /\ c[3] = ")" -> 0
        [] OTHER -> IF \E n \in 1..Len(c) : Spells(n)
                    THEN CHOOSE n \in 1..Len(c) : Spells(n) ELSE -1

IsMacro(word) == \E k \in DOMAIN Macros : Macros[k].name = word

\* lre_find_macro: the first macro of that name and number of arguments.
Defined(c) ==
  {k \in DOMAIN Macros : Macros[k].name = c[1] /\ Len(Macros[k].params) = MacroArgc(c)}

\* lre_create_code_by_macro.
Expansion(c) ==
  LET m == Macros[CHOOSE k \in Defined(c) : \A j \in Defined(c) : k <= j]
      Arg(t) == LET at == {k \in DOMAIN m.params : m.params[k] = t}
                IN  IF at = {} THEN t ELSE c[2 * (CHOOSE k \in at : TRUE) + 1]
  IN  [k \in DOMAIN m.body |-> Arg(m.body[k])]

StartsWithWord(c) == c # <<>> /\ c[1] \in Words

\* interp_preprocess.  A call of a macro replaces the whole code.
PreprocessPass ==
  /\ phase = "preprocess"
  /\ StartsWithWord(code) /\ ~IsMacro(code[1])
  /\ phase' = "syntax"
  /\ UNCHANGED <<source, code, pool, args, tree, results, errcode, runs>>

\* A fault: the old code stays.
PreprocessRepeat ==
  /\ phase = "preprocess"
  /\ StartsWithWord(code) /\ IsMacro(code[1]) /\ Defined(code) # {}
  /\ phase' = "lexer"
  /\ UNCHANGED <<source, code, pool, args, tree, results, errcode, runs>>

PreprocessExpand ==
  /\ phase = "preprocess"
  /\ StartsWithWord(code) /\ IsMacro(code[1]) /\ Defined(code) # {}
  /\ code' = Expansion(code)
  /\ phase' = "lexer"
  /\ UNCHANGED <<source, pool, args, tree, results, errcode, runs>>

PreprocessFail ==
  /\ phase = "preprocess"
  /\ \/ ~StartsWithWord(code)
     \/ StartsWithWord(code) /\ IsMacro(code[1]) /\ Defined(code) = {}
  /\ Fail("preprocess")
  /\ UNCHANGED <<source, code, args, runs>>

\* interp_syntax_parse, with what malloc may return if the pool runs out.
SyntaxParse ==
  /\ phase = "syntax"
  /\ \E garbage \in GarbageArgs :
       \E r \in {ParseContent(StartParse(code, pool, args, garbage))} :
           /\ pool' = r.p.pool /\ args' = r.p.args
           /\ CASE r.ret = "ok" ->
                     /\ phase' = "semantic" /\ tree' = r.out
                     /\ UNCHANGED <<results, errcode>>
                [] r.ret = "error" ->
                     /\ phase' = "idle" /\ tree' = NoTree
                     /\ results' = Undefined /\ errcode' = "syntax"
                [] r.ret = "crash" ->
                     /\ phase' = "crashed" /\ tree' = NoTree
                     /\ UNCHANGED <<results, errcode>>
  /\ UNCHANGED <<source, code, runs>>

\* interp_semantic_analysis.
SemanticAnalysis ==
  /\ phase = "semantic"
  /\ \E s \in {Analyse(tree, args, WordsOf(code))} :
         /\ args' = s.args
         /\ IF s.ok THEN phase' = "execute" /\ UNCHANGED <<pool, tree, results, errcode>>
            ELSE Fail("semantic")
  /\ UNCHANGED <<source, code, runs>>

\* interp_execute and what interpreter_execute does with its result.
Execute(verdict) ==
  /\ phase = "execute"
  /\ Finish(verdict, IF verdict = Undefined THEN "execute" ELSE "ok")
  /\ UNCHANGED <<source, code, args, runs>>

Preprocess == PreprocessPass \/ PreprocessExpand \/ PreprocessFail
Stage == Lexer \/ Preprocess \/ SyntaxParse \/ SemanticAnalysis
         \/ \E v \in {0, 1, Undefined} : Execute(v)
Next == (\E c \in Codes : Load(c)) \/ Stage

\* interpreter_execute runs its stages without waiting for anybody.  Every stage
\* changes the phase, so that the next stage runs is that the phase changes.
Advance ==
  /\ phase \notin {"idle", "crashed"}
  /\ phase' \in Phases \ {phase}

Spec == Init /\ [][Next]_vars /\ WF_phase(Advance)
-------------------------------------------------------------------------------

FreeBlocks == ToSet(pool.node)
TreeCells  == IF tree = NoTree THEN <<>> ELSE NodeCells(tree, args)

\* Blocks that are neither free nor in the tree: nothing points to them.
Leaked == Blocks(pool) \ (FreeBlocks \cup ToSet(TreeCells))

\* A block is in the free list once or in the tree once, never in both: what
\* the error paths of syntax.c and destroy_syntax_content free, they free once,
\* whatever count a reused node held, and mem_alloc hands nothing out twice.
PoolIsSound ==
  /\ IsInjective(pool.node) /\ FreeBlocks \subseteq Blocks(pool)
  /\ pool.free_count = Len(pool.node)
  /\ IsInjective(TreeCells)
  /\ FreeBlocks \cap ToSet(TreeCells) = {}

\* A block is lost only by a parse that fails: interp_context_destroy returns
\* every node of a tree, after each of the other outcomes.
LeaksOnlyInFailedParse ==
  [][Leaked' # Leaked => phase = "syntax" /\ phase' # "semantic"]_vars

\* Whether a code parses and passes the semantic analysis, on a new context.
AcceptedAlone(c) ==
  \E r \in {ParseContent(StartParse(c, NewPool, [b \in 1..InitCount |-> <<>>], <<>>))} :
      r.ret = "ok" /\ Analyse(r.out, r.p.args, WordsOf(c)).ok

\* The semantic analysis accepts a code on a used context if it accepts it on
\* a new one: nodes taken from the pool carry nothing over.
AcceptanceIgnoresHistory ==
  [][phase = "semantic" => ((phase' = "execute") <=> AcceptedAlone(code))]_vars

\* interpreter_execute comes back, through any number of macro expansions,
\* when no macro expands to itself.
EveryRunEnds == (phase = "lexer") ~> (phase = "idle")
===============================================================================

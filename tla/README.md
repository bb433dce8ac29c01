# Verification of lre, the logic rule engine

lre evaluates rules such as

    file(path="/etc/passwd"){ exist == 1 && !(owner == "bob") }

for a host program. A rule is read by a small interpreter (lexer, preprocessor,
parser, semantic analysis, executor) that calls back into *modules*, which
register the functions, arguments, expressions, variables and calls that rules
may use; the built-in modules look at files, processes and sockets. This
directory holds TLA+ models of that program, the TLC configurations that check
them, and proofs of the theorems that hold for every instance. All paths below
are in `src/`.

## 1. Inventory

The program is single threaded and has no persistent state. What makes it hard
is state that outlives a call (one global keyword vector that every module
edits, one interpreter whose buffers and syntax nodes every rule reuses, the
global lists of the modules), error paths that leave from the middle of a
recursion, and a machine that changes while the modules read it.

| Component | State | Operations | Meets | What makes it correct |
|---|---|---|---|---|
| Keyword vector (`vector.c`) | slots, capacity, active | init, set in the first empty slot, unset, the loop macros | registry | what is set is there once, what is unset is gone, active ends after the last filled slot |
| Keyword registry and modules (`keyword.c`, `lre.c`, `lrc/builtin_lrc.c`) | root vector, stubs on the heap, module list | `lre_init`, `lre_release`, `lrc_module_register`, `lrc_module_unregister` | vector; semantic analysis reads it | the vector owns the stubs; no name resolves to another stub behind the host's back; a listed module works |
| Lexer (`lexer.c`) | tokens and words in buffers of the interpreter | `interp_lexer_analysis` | interpreter | buffers hold what is written |
| Preprocessor and macros (`preprocess.c`, `macro.c`) | macro table, a second interpreter | load, find, expand | interpreter | a macro call becomes the body of its last definition, and this ends |
| Parser (`syntax.c`) | the tree, made of pool nodes | one function per construct, one destroy function per node | node pool | the tree is what the code spells; what is malformed is refused |
| Node pool (`mempool.c`) | free list | alloc, free | parser | a node has one owner; nodes come back |
| Semantic analysis (`semantic.c`) | rewrites names of the tree to stubs | one function per construct | registry | a rule's fate depends on the rule and the registry only |
| Executor (`execute.c`, values of `lre.c`) | handle stack, values, objects of the modules | one function per construct | modules' callbacks | the verdict is the rule's meaning; handlers get their own object; a failure ends the rule; nothing is left over |
| Interpreter (`interpreter.c`, `lre_execute`) | four buffers, context, results | `interpreter_execute` | all stages | every call ends in a verdict or a reported error, whatever came before; no stage leaves its buffer |
| Arithmetic and comparison (`calculate.c`) | - | compute, compare | executor, modules | an operator has a value or fails |
| Process module (`lrc/lrc_process.c`) | the global process list | load, three objects and their callbacks, release | executor; /proc | what is said of a process was true of it; one snapshot for all rules |
| Network module (`lrc/lrc_network.c`) | two global arrays | load in two passes, object and callbacks, release | executor; /proc/net | a port on which a socket listens is found |
| File module (`lrc/lrc_file.c`) | one stat per object | exec, three expressions | executor; the file system | the answers of a rule are of one moment, and of a file |
| Path modules (`lrc/lrc_c_fuzzypath.c`, `lrc/lrc_c_splicepath.c`) | - | search, splice | file module through a value | a search finds what its pattern means |
| conf, log, utils, list.h, lrexe, samples | - | - | - | - |

Behaviours that are hard to test: the order of registrations and
unregistrations, names shared between modules and partial registration; every
exit of the executor's recursion with objects on the stack; negated groups
around failures; nodes and buffers reused by a later rule; malformed rules at
every position; macro files that include each other; processes, sockets and
files that change between two reads; a second session after a release.
`PROJECT.json` lists these hazards with their lines and the properties that
cover them.

## 2. Modules

| Module | Models | Extends |
|---|---|---|
| `Vector` | `vector.c`, `vector.h` | - |
| `KeywordRegistry` | `keyword.c`, registration in `lre.c`, `builtin_lrc.c` | `Vector` |
| `RuleTree` | syntax trees, values and answers as the executor sees them | - |
| `Executor` | `execute.c` | `RuleTree` |
| `RuleSemantics` | what the executor promises: the verdict as a function of tree and answers | `RuleTree` |
| `Mempool` | `mempool.c` | - |
| `Syntax` | `syntax.c` | `Mempool` |
| `Semantic` | `semantic.c` | `Syntax` |
| `Interpreter` | `interpreter.c`, `preprocess.c`, the lookup and expansion of `macro.c`: composes `Syntax`, `Semantic` and `Mempool` | `Semantic` |
| `Grammar` | a reference grammar for `Syntax`, with the edits of one token | `Syntax` |
| `Buffers` | the buffers of `interpreter.c` and what `lexer.c`, `preprocess.c`, `execute.c` write to them | - |
| `Macro` | `macro.c`: macro files, bodies, expansion | - |
| `Process` | `lrc/lrc_process.c` | - |
| `Network` | `lrc/lrc_network.c` | - |
| `Engine` | sessions of `lre_init` and `lre_release` around `Process` and `Network`, which it composes | `Process`, `Network` |
| `FuzzyPath` | `lrc/lrc_c_fuzzypath.c`, `lrc/lrc_c_splicepath.c` | - |
| `File` | `lrc/lrc_file.c`, the comparisons of `calculate.c` | `FuzzyPath` |
| `Paths` | rules that hand the value of a path call to another and to `file`: composes the two | `File` |
| `MCKeywordRegistry`, `MCExecutor`, `MCGrammar`, `MCInterpreter`, `MCEngine`, `MCPaths`, `MCMacro`, `MCBuffers` | instances for TLC | |
| `KeywordRegistry_proofs`, `Executor_proofs`, `Meaning_proofs`, `Buffers_proofs`, `Macro_proofs`, `Engine_proofs`, `Paths_proofs` | lemmas and theorems about the module, `KeywordRegistry_proofs` also about `Vector`, `Engine_proofs` about `Process` and `Network`, `Meaning_proofs` about `Executor` and `RuleSemantics` | the module, `TLAPS` |
| `NatSets` | theorems that several proofs need: least and greatest naturals, induction, the functions that loops and recursions define, sequences laid end to end | |

Operators that begin with "A fault:" in their comment are mistakes that the
code does not make; nothing uses them. Each shows what one of the properties
would find.

### KeywordRegistry

`root` is `*root_kstub_vec`, `heap` the stubs by address, `modules`
`lre_modulelists`. One action is one iteration of the loops in
`lrc_module_register` and `lrc_module_unregister`, so the vector is visible
half way through a module; `call` is the program counter of that loop. A
module is a sequence of declarations; a call without `exec` cannot be
installed, which is the failure `lrc_call_register` has. `lre_init` registers
the built-ins through the same actions and ignores their result;
`lre_release` unregisters them and destroys what its loop visits. `Visited` is
the loop macro: slots up to the first empty one.

### Executor and RuleSemantics

The C recursion is the variable `frames`, with one kind of frame for each
`execute_syntax_xxx` function; an action runs from one call or return to the
next. `stack` and `sp` are `ctx->stack` and `ctx->stackidx`, `objects` what
constructors made and destructors have not taken, `strings` the values that
need a free. What a callback answers is chosen by the environment when it is
called. Values are integers or strings without their contents; comparisons are
part of a handler's answer; an arithmetic operator computes on integers and
fails on strings, and `% & | ^` always fail, as in `lre_calc_int`. A handler is
given the object of the nearest function or call around it (`Holder`), so a
variable in an argument gets the object of that call, although semantic.c:117
looks its name up in the vocabulary outside of it.
`RuleSemantics` says what the verdict is in one step: the value of a list is
decided by its first operand in error, the verdict of a list by its first
decisive member. `Executor` implements it (`ComputesMeaning`): the verdict
does not depend on which callbacks were skipped.

### Syntax, Grammar, Mempool

A parser state is the tokens left, the pool, and for every block of the pool
the argument keys that lie in it. A parse function returns `ok`, `error` or
`crash` (a read through a null token), with what its error path returned to
the pool. A token is a word, a string or a symbol; the same word is the same
token. `mem_alloc` takes the head of the free list, or malloc's memory with
any bytes (`GarbageArgs`). `Grammar` writes a tree as tokens, edits one token
(drop, insert, replace, cut), parses the result, and compares.

### Semantic and Interpreter

`Root` is the vocabulary: names and, below each, its own names. One action is
one stage of `interpreter_execute`; the parse and the analysis are one step
each, since nothing else runs meanwhile. Execution has any result here; its
stages are the subject of `Executor`. A macro is a name, parameters and a body
as tokens in which a parameter stands for `$` and its name.
A stage that fails takes the error path at once, which destroys the tree.

### Buffers

A code is its measures: characters, words, characters in words, tokens,
handles. `buf` has, for each of the four buffers, the size on record
(`cbufsize` and the others), the bytes that `realloc` really gave, and how
often the block moved; `at` is the block that the context's pointer is in.
The stages run in the order of `interpreter_execute`, and each notes in `over`
when it writes past the bytes there are; the program goes on, as the C program
would, with somebody else's bytes overwritten. A code that lost its final zero
is read on as any longer code. What the heap holds behind a buffer is outside
of the model. What the stages compute is not here but in `Interpreter` and
`Executor`; any stage may end the call (`Finish`).

### Macro

A file is a sequence of physical lines, each a sequence of tokens and whether
it ends in a backslash. `loading` is the C recursion of `lre_macro_conf_load`:
one frame per file, with the lines to come. The words of a token are sequences
of characters, because the search for parameters in a body
(`Content2Token`) is about them. `macros` is the hash table with all lists
as one; a list is searched from its head, and names that differ never match.
No file is ever closed, so `opened` only grows; at `MaxOpen` no file can be
opened any more. A body with more tokens than their array has room for stops
the program (`overflow`).

### Process, Network, Engine

`system` is the machine, and changes between any two reads: processes start,
end and exec (`Fork`, `Exit`, `Exec`), pids come back. `get_process_info`
is four actions, one per read of `/proc/<pid>`, with `entry` what it has
filled so far; the owner of a process that is gone is any user, since `stat`'s
result is not looked at and its buffer not initialised. `seen` and `steady`
are history: what each process ran since `opendir`, and which were there all
the time. Paths are cut into pieces where those of an instance differ, so that
a prefix of the text is a prefix of the sequence; `PathMatches` has the
direction of the code's `strncmp`, the executable as a prefix of the argument,
which is neither equality nor the directory that the documentation of
`procpath` speaks of (lrc_process.c:851). The properties about answers do not
use it: they say in words of their own which paths were asked for.
The three objects are one record with a kind; what runs past an array, through
a null key or through a freed list stops the program with its reason in
`fault`. In `Network` the two passes over each table are two actions, with
rows that come at any place between them.

`Engine` adds sessions. `lre_release` frees what the modules loaded and
leaves the pointers; `up` is the time between `lre_init` and `lre_release`.
The two modules share no state but the session, so a behaviour has rules of
one of them.

### FuzzyPath, File, Paths

A path is a sequence of names, a name a sequence of characters, a multi-path
a sequence of paths. `Frags` cuts a pattern at its asterisks, `Places` is the
loop of `recurse_dir` that looks for the fragments, `FuzzyMatch` what it makes
of the places; `Glob` is what a pattern is taken to mean. The
buffer of `fuzzy2path` that nothing wrote to when a relative path begins with
an asterisk is any of `Unwritten`. `readdir`'s order within one search is
fixed, since no property tells orders apart. `File` has the `stat` of
`file_execute` and the expressions; rights are sets of bits, and `Int2Perm` is
`int2perm` with what 8 and 9 do. `Paths` is a rule: some calls, each given the
value of the one before, then `file` over the last value, then expressions up
to the first that is false, the file system changing between any two steps
(`moments` is the history of one rule). There are no links, no `..`, and the
working directory is the root.

## 3. Runs

| Run | Shows | Bounds |
|---|---|---|
| `registry` | Modules with and without names of their own, in every order of calls over two init and release cycles, one of them refused half way: the vector owns each stub once, a listed module with names of its own stays installed, no name is rebound. | 5 modules, 4 addresses, `MaxListed` 3, `MaxInits` 2 |
| `registry_hole` | Refutes `InstalledIsFound`: after an unregistration, keywords behind the hole are not found. | the same, `MaxInits` 1 |
| `executor_all` | The handle stack is the active functions, with only objects of abandoned calls in between; nothing is left over without a failure; every execution ends; its verdict is the meaning. In rules without negated groups handlers get the object of the nearest function or call, no callback runs after a failure, and a failure leaves no verdict. | rules of up to 14 nodes, every answer |
| `executor_wrong_object` | Refutes `HandlersGetTheirObject` for negated groups. | the rules with negated groups |
| `grammar` | A rule parses to its tree; after an edit it is refused or its tree spells it, values in parentheses and full argument lists apart; only a code that ends at the name of a call crashes the parser. | every construct, one edit, a list of 4 arguments |
| `interp_mixed` | Three calls on one context, of 17 codes that fail in every stage: the pool stays sound, only failed parses lose nodes, a rule's acceptance does not depend on the calls before it, and every call ends. | `MaxRuns` 3, 9 blocks, 3 macros |
| `interp_stale` | Refutes `AcceptanceIgnoresHistory` for a function without an argument list. | two codes |
| `engine` | What the process list and the answers say was true of the machine at some time of the read; every load ends; one snapshot serves all; freed lists are met in no first session. | 2 pids, 3 programs, 2 changes, 12 rules; 1 port, 2 changes, 3 rules; 2 sessions |
| `paths` | The answers of a rule are of one moment; rights are those of files; a search finds what its pattern means; a file found several times exists for no rule. | 4 trees, 12 patterns, 5 rules, 2 calls, 1 change |
| `macro` | A call means the last definition, its expansion is a substitution unless the body misleads, the token array overflows only through a repeated name, every load ends. | every body up to 5 characters over 2 parameters; 2 files with any of 5 contents |
| `buffers` | Until a buffer grows each stage stays in its buffer; handles fit where tokens fit; pointers follow buffers that move; the work memory keeps up; only a code of the largest size crashes the load. | 14 codes around every limit, any number of calls |
| `buffers_growth` | Refutes `SizesAreTrue`: a buffer that has grown has half of the bytes it says. | as above |

Why the bounds are enough.

- Registry. A vector of first capacity 2 grows within the four addresses, gets
  a hole in every position, and fills it again. Addresses carry no order, so
  they are symmetric (the passing run uses this, the refuting run does not). A
  slot is found only when no hole is before it, so the trim of `vector_unset`
  over more than one slot is not reached through this interface; the proof of
  `UnsetClearsOneSlot` covers it.
- Executor. The rules of `MCExecutor` are families over every operator between
  the statements; each callback position is met with each answer, before and
  after each other. `StackDepth` is above the depth of every rule, and
  `StackAssumption` says so: a rule that parsed has room for its handles, which
  is `HandlesFit` of `Buffers` and proved there.
- Grammar and interpreter. Nine blocks make the pool run out in the longer
  rules and be reused in the next one. `ArgMax` is 4 or 2 in place of 8
  (`SYNTAX_ARG_MAX`), and one rule has a full list. `LeaksOnlyInFailedParse`
  is what holds of the error paths: they do lose nodes.
- Engine. Two changes let a process end and its pid come back between any two
  of its four reads, or exec between them. `CountMax` is 1 in place of 1024, so
  the array overflows with two processes. One of the programs has a path that
  begins with another's, one has none; the rules ask for names, for paths with
and without an excluded one, and for the directory of both. Two sessions are what a freed list takes.
- Paths. The letters of the names repeat, so that fragments overlap and ends
  are found twice. `FuzzyPointMax` is 2 in place of 4, `DirDepthMax` 4 in place
  of 128.
- Macro. Bodies of five characters have two uses of a parameter, one of which
  begins with the other. `ArgcMax` is 2 in place of 16, `CodeMax` 6 in place of
  4096, `MaxOpen` 3.
- Buffers. 16 bytes stand for the 4096 of code and work memory, 24 for the 8192
  of the stacks, 12 for the 4096 of the output, 6 for a token's 24, 2 for a
  handle's 8, 2 for the gap of 64, 6 for the unit of 256. The order between
  them is that of the code, and the codes lie on both sides of each limit; the
  theorems hold for all sizes.

Deadlock is checked in `paths`. It is not where the program really stops: a
host may stop calling (`registry`, `interp_*`), an execution or a parse is done
(`executor_*`, `grammar`), or a write outside of its memory or a freed pointer
ends the program (`engine`, `macro`, `buffers`).

### Fairness

`Executor` assumes `WF_vars(Next)`, `Interpreter` weak fairness of the stages
of a call in progress (`Advance`), `Engine` of the steps of a load (`Load`,
`NetworkLoad`) and `Macro` of those of `lre_macro_conf_load` (`LoadStep`). The
code is one thread that runs without waiting, so a call that can take a step
takes it. No fairness says that the host calls, that a process comes or ends,
or that a file can be opened.

### What the refuting runs show

- `registry_hole`: `vector_foreach_active_slot` (vector.h:21-22) has the slot
  in its loop condition, so the `if (!keystub) continue` of its users never
  sees an empty slot. Unregistering a module hides the keywords behind it, and
  `lre_release` never frees them.
- `executor_wrong_object`: `execute_syntax_call` (execute.c:341) returns
  without the pop and without the destructor, and `!ret` (execute.c:386) turns
  its `RET_DEAD_VAL` into 0. A handler after such a group gets the object of
  the abandoned call.
- `interp_stale`: syntax.c:110 takes a node from the pool without resetting
  `args.count`; a function without arguments has those of the node's last use.
- `buffers_growth`: interpreter.c:80 calls `realloc` with the size that the
  buffer has and records twice that, as do the other three.

Some properties are weaker than what one would like to say, and their
exceptions are what the code does: `TreeSpellsCode` exempts values in
parentheses (syntax.c:544 ignores the result of the values inside) and full
argument lists (syntax.c:757); `CrashNeedsCallAtEnd` allows the null token of
syntax.c:825; `ExpansionsAreSubstitutions` exempts bodies that spell a
parameter without a `$` (macro.c:179); `RunningMeansRan` exempts paths that
begin with that of a program that ran, and `NotRunningMeansAbsent` programs in
a directory asked for and beginnings of excluded paths (below); `SearchesFindTheirMeaning` exempts
fragments that overlap and names that have the end of the pattern twice;
`FirstSessionIsSound` says nothing of a second session (lrc_process.c:186 and
lrc_network.c:180 leave pointers to freed memory);
`NotListeningMeansAbsent` is about TCP, since the handler answers for UDP from
the TCP table (lrc_network.c:305); `RightsAreOfFiles` is about numbers whose
digits are octal, since 8 and 9 reach into the digit before (lrc_file.c:201:
`permission == 680` is true of a file with 0700); the properties that end in
`Unnegated` are about rules without negated groups (execute.c:386).

### Where the documentation of a built-in module differs

lrc_process.c:851 says of `procpath`: "Specify process binary directory.
example: procpath="/usr/local/"". The code does not do this:
`fill_spec_process` compares over the length of the executable's path
(lrc_process.c:281), so that

- a directory matches no program in it: `process(procpath="/bin/"){running==1}`
  is false while `/bin/vi` runs from before the read of `/proc` to its end. The
  `engine` run has this rule; `NotRunningMeansAbsent` speaks of whole paths and
  allows the answer, and `RunningMeansRan` says that there is no other, since no
  executable is the beginning of the name of its directory;
- `/bin/vi` is taken for `/bin/vim`: `running`, "Check process running or not"
  (lrc_process.c:867), is said of a path that no process ran;
- `excludepath`, with the example `"/usr/local/"` (lrc_process.c:855), excludes
  nothing that is in there.

The samples (samples/main.c:26, samples/tests.conf) give paths of executables,
and for those, separated by the `;` of lre.h:48, the two properties say what
the answers mean.

## 4. Proofs

Every theorem below holds for every value of the constants that the
assumptions allow. Each invariant is part of an inductive one that TLC checked
on the runs' instances first.

Registry (`KeywordRegistry_proofs`)

- `RegistryIsTyped`, `RegistryOwnsStubs`: `IInv` is `TypeOK`, `VectorOwnsStubs`
  and `Quiet`, that between `lre_release` and `lre_init` the vector is empty
  and no call is in progress: without it `lre_init`, which replaces the vector,
  could drop stubs. There is one lemma per action that writes the vector; they
  rest on `SetAddsItem` and `UnsetRemovesItem`. The trim of `active` needs the
  greatest filled slot, hence `NatSets`.
- `NamesNeverRebind`: a registration fills the first empty slot, which is
  behind every slot a loop visits, so what resolves is still met first. An
  unregistration makes a hole; what is before it resolves as before, what is
  behind is not found.
- `ListedIsAlwaysInstalled` counts. For a module that shares no name, each of
  its keywords is installed at least as often as the module is listed (`Kept`),
  and once more while a registration has passed it. An unregistration may be
  one short, but only for a name that no loop meets any more: having taken one
  stub of that name it has made the hole that hides the others. `LInv` adds that
  a stub has the name it was declared with.
- `UnsetClearsOneSlot`: the trim loop of `vector_unset`, for every vector.

Executor (`Executor_proofs`), for every tree and all answers

- `ExecutorInvariant`: `ExecutorInv` is `ResultInv`, `OrderInv` and
  `StackMirrorsFrames`. `ResultInv` is what a C function may assume of its
  caller and its callee: each frame waits for the kind of result that the one
  above it gives (`FramesInv`), an error value comes only of a failure
  (`FailInv`), a heap string is owned by the function that waits for it
  (`StringsInv`). `OrderInv` says that the nodes still to come lie, frame by
  frame, behind those already met, so that the object pushed for a node is not
  there yet: `StackMirrorsFrames` compares sets of nodes and would be
  indifferent to a node that is met twice. The stack never overflows because its
  objects are distinct handles of the tree.
- `HandleStackMirrorsCStack`, `CleanExecutionsReleaseAll`,
  `FailureHasNoVerdict`: parts of it, at every moment or at the end.
- `FailureStopsCallbacks`: a step that calls a module starts from a frame that
  runs, and then nothing has failed (`RunningIsClean`).
- `HandlersGetNearestObject`: `HolderInv` adds that the frames between two
  functions or calls are about nodes held by the lower one, and that a handler's
  frame has kept the object that was on top of the stack when it started.

Meaning (`Meaning_proofs`), for every tree and all answers

- `ExecutorComputesMeaning` is the refinement `ComputesMeaning`: the executor
  implements `RuleSemantics`. The last return is the step `Judge`, every other
  step a stutter. It rests on `MeaningInvariant`.
- `MeaningInv` compares each frame with the meaning of its part of the tree for
  the answers given so far. `Progress`: the statements, operands and arguments
  that a frame is past decide nothing, and `res`, `opt` and `arg` are what they
  leave. `Linked`: a frame computes what the frame below it waits for. `Stands`:
  a value returned is that meaning.
- The answers grow while the walk goes on, so what was found must not depend on
  the answers to come (`AnswerIsLocal`): a node's meaning depends only on the
  nodes from it to its end, and a callback answers behind all that the active
  functions have found (`ProgressKept`). This is what the order of the nodes in
  `IsTree` is for: a node in two lists would be asked twice and could answer
  differently.
- The meaning is defined by recursion over the tree. That such a function exists
  and satisfies its equation at every node is `DescendingFunction` in `NatSets`,
  for a tree whose parts come after it; `OperandMeaning` and `VerdictMeaning`
  unfold it once, for each kind of node, which is all that a step needs.
- `DecidedAt` and `ValueAt` are the heart of it: a list evaluated from the left,
  with an accumulated result, an operator and an early return, ends at the first
  decisive member with that member's verdict.

Buffers (`Buffers_proofs`), for all sizes, codes and orders of calls

- `HandlesAlwaysFit`: `StacksInv` counts. Each handle belongs to a function or
  call of at least three tokens, and each pop takes at most what was pushed, so
  `open <= idx <= entered <= handles`; where `tokens * TokenSize` fits,
  `handles * HandleSize` does, and the ignored failure of a push is not reached.
- `WorkAlwaysFollowsCode`, `CrashAlwaysNeedsHugeCode`: `GrowthInv` knows that
  the code and the work memory have grown at most twice, the code at most once
  more than the work memory, and that only while the lexer is about to run; so
  the lexer's growth is never refused, and a load is refused only for a code of
  the largest size, after two growths.
- `AlwaysInBoundsUntilGrown`: in `BoundsInv` a buffer that has grown has less
  than its record says for good, and one that has not has its first size, in
  which the code ends; `PointersAreAlwaysCurrent` is a simpler induction.

Processes and sockets (`Engine_proofs`)

- `ScanInvariance`: `ScanInv` has what the properties of the snapshot leave out.
  The history knows what every living process runs (`HistoryIsCurrent`), the
  entry in progress is already evident as far as it is filled
  (`EntryIsEvident`), the list descends and lies behind the cursor
  (`Descending`, `BehindCursor`), so no process is met twice, and no steady
  process behind the cursor is missing (`NoneIsMissing`). The last needs that
  only the open of `stat` drops a process, and that it succeeds for one that is
  there throughout.
- `AnswersAreTrue`: `AnswerInv` adds that the entry of a steady process has the
  path of a program it ran (`SteadyPaths`), that a ready object holds exactly
  what the list selects for it, and that only ready objects are asked
  (`ObjectInv`). What is selected is then compared with what was asked for:
  a path that is one of those asked for is matched by itself
  (`AskedPathMatches`), and a path that matches is one of them or a proper
  beginning (`RunningIsEvident`), the exception that `RunningMeansRan` states. The value of `processdir` is a loop over the list; it is a
  recursive function, whose values `StepwiseFunction` of `NatSets` provides.
- `EngineImplementsProcess` and `EngineImplementsNetwork`: every step of the
  engine is a step of the module or leaves its variables alone, so what is
  proved of `ProcessSpec` and `NetworkSpec` holds of the engine. From the first
  follow `SnapshotIsAlwaysEvidence`, `SnapshotIsAlwaysComplete`,
  `RunningAlwaysMeansRan`, `NotRunningAlwaysMeansAbsent` and
  `DirsAreAlwaysOfPrograms`; `OneSnapshotOnly` follows step by step, since
  `Execute` opens `/proc` only when there is no list.
- `NotListeningAlwaysMeansAbsent`: the array has room for the rows of the first
  pass and the line of titles, so one socket that comes between the passes does
  no harm; the property promises nothing for two (`NetworkInv`).
- `FirstSessionIsAlwaysSound`: `SessionInv` says that something freed and a
  session up make it at least the second; only a callback in a session or a
  release of one touches what is freed.

Files (`Paths_proofs`)

- `AnswersAreOfOneMoment`: what the object of `file` knows is what one `stat`
  found in one of the rule's moments, or the values for no file (`Looked`), and
  each answer follows from it (`Answered`).
- `RightsAreAlwaysOfFiles`: octal digits of a number are the classes of
  `int2perm`'s value, so comparing bit sets is comparing digits class by class;
  a path without a file has all bits set, of which no octal number has those
  above the ninth digit. The proof is what showed that the numbers must be
  octal.
- `SearchesAlwaysFindTheirMeaning`: first for one name and one pattern. Walking
  along the pattern, so many fragments have ended and so many characters of the
  next one have come (`Fragmented`), and `Glob` says where in the name that may
  end (`Ending`). What the code finds is meant (`MatchMeans`): the places it
  found, taken from the left, are ends of that kind, since fragments that do not
  overlap leave each other room; the last fragment closes the name or an
  asterisk does. What is meant is found (`MeaningMatches`): wherever the meaning
  is in the name, the search is not ahead of it (`Behind`), since it takes the
  first occurrence; so every fragment is found, and the last one at the end when
  it is in the name once. Without asterisks both are equality
  (`PlainMeansItself`). Then for paths: in a tree, a search from the last
  directory without an asterisk meets every path whose names fit
  (`RecurseDirFinds`), and a call's value has the paths of all its searches and
  no other (`ExecuteFinds`). `SearchInv` says that the file systems stay trees,
  also the one that a search saw, that values are multi-paths, and what call a
  value comes from.
- `ExistsAlwaysMeansFoundAlone`: a value that `stat` finds is a single path, so
  two paths that the patterns mean would both be that path.

Macros (`Macro_proofs`), for all files, calls and limits

- `CallsMeanTheLastDefinition`: `MacroInv` types the state. `TextInv` says that
  the macros read so far, oldest first, followed by what the frames still have
  to say, are `Definitions`, as long as files can still be opened. What a frame
  has to say (`Leaves`) is its rest, an include standing for its file, and
  `Remains` puts the frames together, the innermost first. Reading a line takes
  one logical line off the rest (`TextSplit`; `LogicalSplit` is that
  `read_macro_line` joins the lines that `LogicalLines` joins, though one counts
  from the front and the other from the back). An include pushes the frame that
  it stands for. It may stand for a file whose own includes are one level less
  deep in the table of `Definitions`, which is why that table goes to
  `MaxOpen`: a frame is never deeper than the files opened, so the levels do not
  run out before the files do. At the end nothing remains, and the first macro
  that fits in a list that was built from its head is the last that fits in the
  text (`FirstIsLast`).
- `CallsAreSubstituted`: the code cuts the body into tokens when it is defined
  and puts the arguments in when it is called; `Substitute` does both in one
  scan. The proof runs the two scans side by side (`StepsAgree`): at every
  place both are in the middle of a word, or both before it, and the
  tokens found, filled with the arguments, are what has been put out, but for
  the characters since the last parameter (`TokensSubstitute`). They part only
  where the body is `Misleading`. Of two parameters of one name both take the
  first.
- `OverflowNeedsRepeatedName`: each parameter that the scan finds gives two
  tokens and has a place of its own, behind the places before it (`Placed`), so
  with more than `2 * ArgcMax + 1` tokens there are more places than parameters,
  and two of them spell one (`ManyTokensRepeat`, by the pigeonhole principle).

The assumptions are the ASSUMEs of the modules. Registry: the first capacity is
positive, null is no stub, declarations are sequences. Executor: a rule is a
tree whose parts come after it (`ProgramsAssumption`), and the stack has room
for all its handles (`StackAssumption`, which `HandlesAlwaysFit` justifies).
Buffers: a code has no more tokens than characters and three tokens for each
handle, a handle takes no more bytes than three tokens, the work memory starts
as large as the code buffer, lengths are naturals. Engine: pids are positive,
no process is `Gone`, requests have their fields, the socket tables are
sequences of rows. Paths: `stat` gives twelve bits of rights, a run starts with
file systems that are finite trees, what rules and other calls give are
multi-paths, a buffer holds some path, rules are sequences of expressions, a
permission is a natural. Macros: lines are sequences
of tokens and a keyword is not the empty word, arguments are texts, the limits
are naturals.

Model-checked only:

- `AcceptanceIgnoresHistory`, `PoolIsSound`, `LeaksOnlyInFailedParse`,
  `ParsesBack`, `TreeSpellsCode`, `CrashNeedsCallAtEnd`: the parser and the
  semantic analysis are recursive operators, which the prover cannot use, and
  with them every module that uses them.
- `Terminates`, `EveryRunEnds`, `LoadsEnd`, `LoadEnds`: liveness, which the
  prover does not do.

## 5. Not modelled

The characters of tokens, except for the words of macro files; the numbers of
`calculate.c`, that is overflow, division and the value that means failure;
configuration, log, utilities, hosts. The vectors below a stub, which are
written once while it is installed. The release of an interpreter, of the pool
and of the macros, which ends their life; the dump and help functions, which
print. The limits in bytes of paths and lines, that of a command line among
them (lrc_process.c:165). The bytes of a syntax node, which the destroy
functions rely on (syntax.c:1027).

Smaller things that the modules leave out, none of which a property depends
on: `lre_init` that returns early because the configuration or the macros
cannot be initialised (lre.c:330-345); a call that succeeds without setting
its value, which `Executor` has as a failure (execute.c:167-169 makes it one);
why a macro was not found, by name or by number of arguments; the reads of
which one pass over `/proc/net` consists; a change of the file system in the
middle of one search, and a search that fails for want of a path
(lrc_c_fuzzypath.c:255); operators other than `==` and `!=` on the owner of a
file, which the code takes for `!=` (lrc_file.c:180).

## 6. Plan

1. `Calculate`: integers of a fixed width, the results that mean failure.
2. Composition of `Interpreter` with `KeywordRegistry`: rules between
   registrations.
3. Proofs: the pool's soundness for every order of allocations and frees, in a
   form that does not need the parser's recursion.

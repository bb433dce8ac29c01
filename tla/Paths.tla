------------------------------- MODULE Paths -------------------------------
(***************************************************************************)
(* A rule about a file whose path is computed: calls of fuzzypath and      *)
(* splicepath, the value of one handed to the next, then file over the     *)
(* last value, while the file system changes between any two of them.      *)
(***************************************************************************)
EXTENDS File, FiniteSets

CONSTANTS
  NoValue,   \* no call was made yet
  Bases,     \* multi-paths that other calls give for a base
  Patterns,  \* multi-paths that a rule spells
  Rules,     \* what a rule says of the file: expressions joined by &&
  Unwritten, \* paths that a buffer on the stack may happen to hold
  MaxCalls   \* bound: calls of a rule

\* The expressions of all rules; rights are compared with a number.
Expressions == UNION {Range(rule) : rule \in Rules}

ASSUME CallsAssumption == MaxCalls \in Nat
ASSUME PathsAssumption == Patterns \cup Bases \subseteq MultiPaths /\ Unwritten \subseteq PathType
ASSUME RulesAssumption ==
  /\ Rules \subseteq Seq(Expressions)
  /\ \A e \in Expressions : e.what = "permission" => e.arg \in Nat

VARIABLES
  val,     \* the value of the last call
  search,  \* the last call of fuzzypath, with the file system it saw
  calls,   \* calls of the rule so far
  rest     \* the expressions to come

pathVars == <<val, search, calls, rest>>
vars == <<fsVars, fileVars, pathVars>>

Init ==
  /\ FileInit
  /\ val = NoValue /\ search = NoValue /\ calls = 0 /\ rest = <<>>

Called(value) ==
  /\ val' = value
  /\ calls' = calls + 1
  /\ moments' = moments \cup {fs}
  /\ UNCHANGED <<fs, fsChanges, fileVars, rest>>

\* A base that a rule gives: the call before, another module's, or none.
BaseValues == IF calls = 0 THEN Bases ELSE {val}

\* fuzzypath(basepath = base, path = path).
CallFuzzypath ==
  /\ file = FileNull /\ calls < MaxCalls
  /\ \E base \in {<<>>} \cup BaseValues, path \in Patterns, buf \in Unwritten :
       LET out == FuzzypathExecute(fs, base, path, buf)
       IN  /\ search' = [fs |-> fs, base |-> base, path |-> path, out |-> out]
           /\ Called(out)

\* splicepath(basepath = base, path = path).
CallSplicepath ==
  /\ file = FileNull /\ calls < MaxCalls
  /\ \E base \in {<<>>} \cup BaseValues, path \in Patterns :
       /\ ~NothingToSplice(base, path)
       /\ Called(SplicepathExecute(base, path))
  /\ search' = NoValue

\* The rule is over: nothing of it is left.
Leave ==
  /\ file' = FileNull /\ said' = {} /\ moments' = {}
  /\ val' = NoValue /\ search' = NoValue /\ calls' = 0
  /\ UNCHANGED <<fs, fsChanges, rest>>

\* A call that fails fails the argument, and with it the rule.
CallSplicepathFailed ==
  /\ file = FileNull /\ calls < MaxCalls
  /\ \E base \in {<<>>} \cup BaseValues, path \in Patterns : NothingToSplice(base, path)
  /\ Leave

CallFile ==
  /\ \E value \in IF calls = 0 THEN Patterns ELSE {val} : FileExecute(value)
  /\ rest' \in Rules
  /\ UNCHANGED <<val, search, calls>>

\* One expression; what is false ends a list of &&.
Expression ==
  /\ rest # <<>>
  /\ ExprHandler(Head(rest))
  /\ rest' = IF \A s \in said' : s.yes THEN Tail(rest) ELSE <<>>
  /\ UNCHANGED <<val, search, calls>>

\* file_destructor.
EndOfRule == file # FileNull /\ rest = <<>> /\ Leave

Next ==
  \/ CallFuzzypath \/ CallSplicepath \/ CallSplicepathFailed \/ CallFile \/ Expression \/ EndOfRule
  \/ Others /\ UNCHANGED pathVars

Spec == Init /\ [][Next]_vars

-----------------------------------------------------------------------------
(* Properties.                                                             *)

\* The paths that a call of fuzzypath asks for.
Asked == IF search.base = <<>> \/ Head(search.path).abs THEN Range(search.path)
         ELSE {Join(b, p) : b \in Range(search.base), p \in Range(search.path)}

\* p is what the pattern says, name for name.
Means(pattern, p) ==
  /\ p \in DOMAIN search.fs /\ search.fs[p].type \in {"reg", "dir"}
  /\ Len(p) = Len(pattern.names)
  /\ \A k \in DOMAIN p : Glob(p[k], pattern.names[k])

Searched(pattern) ==
  /\ pattern.abs /\ Len(pattern.names) < DirDepthMax
  /\ \E k \in DOMAIN pattern.names : IsFuzzy(pattern.names[k])
  /\ \A k \in DOMAIN pattern.names : ~TooFuzzy(pattern.names[k])

\* What a search finds is what the asterisks mean: nothing else, unless two
\* fragments of a pattern overlap in a name, and all of it, unless the end of a
\* pattern is in a name twice (recurse_dir looks for fragments from where the one
\* before begins, and takes the first).
SearchesFindTheirMeaning ==
  file = FileNull /\ search # NoValue /\ (\A pattern \in Asked : Searched(pattern)) =>
    /\ \A k \in DOMAIN search.out : search.out[k] # Empty =>
         \E pattern \in Asked :
           LET p == search.out[k].names
           IN  \/ Means(pattern, p)
               \/ /\ Len(p) = Len(pattern.names)
                  /\ \E j \in DOMAIN p : Overlapping(p[j], pattern.names[j])
    /\ \A pattern \in Asked, p \in DOMAIN search.fs :
         Means(pattern, p) =>
           \/ Path(TRUE, p) \in Range(search.out)
           \/ \E j \in DOMAIN p : RepeatedEnd(p[j], pattern.names[j])

\* A rule over a pattern says that the file exists only when the search found
\* one path alone, and that path was there during the rule (file_execute takes
\* the value of a search that found more for the name of one file).
ExistsMeansFoundAlone ==
  (\E x \in Held("exist", {"=="}) : x.arg = 1) =>
    /\ Len(file.path) = 1
    /\ \E f \in moments : file.path[1].names \in DOMAIN f
    /\ search # NoValue /\ (\A pattern \in Asked : Searched(pattern)) =>
         Cardinality({p \in DOMAIN search.fs : \E pattern \in Asked :
                        /\ Means(pattern, p)
                        /\ \A j \in DOMAIN p : ~RepeatedEnd(p[j], pattern.names[j])}) <= 1
=============================================================================

------------------------------- MODULE Macro -------------------------------
(***************************************************************************)
(* Macro files and macro calls (macro.c): lre_macro_init reads the global  *)
(* file line by line and the files that it includes in its midst, and a    *)
(* call is replaced by the body of the macro with its arguments.           *)
(*                                                                         *)
(* A physical line is [toks, cont]: its tokens and whether it ends in a    *)
(* backslash.  A token is [type, word], the word a sequence of characters, *)
(* a string without its quotes; a comment sign, or a string that does not  *)
(* end, is of type "bad".  An include runs on the interpreter that is in   *)
(* the middle of the including line; the line has nothing left to read.    *)
(***************************************************************************)
EXTENDS Integers, SequencesExt

CONSTANTS
  FileSets,    \* the macro files a run may find: functions from names to lines
  Global,      \* LR_GLOBAL_MACRO_PATH
  Calls,       \* calls in the code of the host: [name, args]
  IdentChars,  \* the characters of a keyword
  NoMacro,     \* lre_find_macro found nothing
  ArgcMax,     \* LRE_MACRO_ARGC_MAX
  CodeMax,     \* DEFAULT_CODEBUF_SIZE
  MaxOpen      \* the files that a process may have open

\* The lines of all files, their tokens, and the characters of these.
Lines      == UNION {UNION {Range(there[name]) : name \in DOMAIN there} : there \in FileSets}
Tokens     == UNION {Range(line.toks) : line \in Lines}
Characters == UNION {Range(tok.word) : tok \in Tokens}

\* The characters of the arguments of all calls.
ArgCharacters == UNION {UNION {Range(arg) : arg \in Range(call.args)} : call \in Calls}

ASSUME MacroLimits == ArgcMax \in Nat /\ CodeMax \in Nat /\ MaxOpen \in Nat
ASSUME TextAssumption ==
  /\ \A there \in FileSets : \A name \in DOMAIN there : there[name] \in Seq(Lines)
  /\ Lines \subseteq [toks : Seq(Tokens), cont : BOOLEAN]
  /\ Tokens \subseteq [type : {"keyword", "symbol", "string", "bad"}, word : Seq(Characters)]
  /\ \A tok \in Tokens : tok.type = "keyword" => tok.word # <<>>
ASSUME CallsAssumption == \A call \in Calls : call.args \in Seq(Seq(ArgCharacters))

VARIABLES
  files,     \* the files there are (external)
  loading,   \* the calls of lre_macro_conf_load: the file and the lines to come
  opened,    \* files opened; none is closed
  macros,    \* macro_hlists, all lists as one: newest first
  pc,        \* "off", "loading", "ready", or why the program stopped
  expanded   \* the last call, its macro and what it was replaced by

vars == <<files, loading, opened, macros, pc, expanded>>

Init ==
  /\ files \in FileSets
  /\ loading = <<>> /\ opened = 0
  /\ macros = <<>> /\ pc = "off" /\ expanded = NoMacro

-----------------------------------------------------------------------------
(* Bodies.                                                                 *)

\* strncmp(ptr, keyword, wordlen) == 0.
Spells(text, k, word) == IsPrefix(word, SubSeq(text, k, Len(text)))

\* lre_macro_content2token at one place after the first: where a parameter is
\* spelt, the word before it ends, together with the character there, while a "$"
\* is still to come.
Dollars(text) == {k \in DOMAIN text : text[k] = "$"}

\* A fault: the character before an argument is not cut off.
SplitKeeping(content, params, acc, p) ==
  LET here == {i \in DOMAIN params : Spells(content, p + 1, params[i])}
  IN  IF p < acc.ptr \/ here = {} \/ (\A k \in Dollars(content) : k < p) THEN acc
      ELSE [ptr |-> p + 1 + Len(params[Min(here)]),
            token |-> acc.token \o << [arg |-> 0, word |-> SubSeq(content, acc.ptr, p)],
                                      [arg |-> Min(here), word |-> <<>>] >>]

Split(content, params, acc, p) ==
  LET here == {i \in DOMAIN params : Spells(content, p + 1, params[i])}
  IN  IF p < acc.ptr \/ here = {} \/ (\A k \in Dollars(content) : k < p) THEN acc
      ELSE [ptr |-> p + 1 + Len(params[Min(here)]),
            token |-> acc.token \o << [arg |-> 0, word |-> SubSeq(content, acc.ptr, p - 1)],
                                      [arg |-> Min(here), word |-> <<>>] >>]

Content2Token(content, params) ==
  LET scan[p \in 0..Len(content)] ==
        IF p = 0 THEN [ptr |-> 1, token |-> <<>>]
        ELSE CHOOSE next \in {Split(content, params, acc, p) : acc \in {scan[p - 1]}} : TRUE
      end == scan[Len(content)]
  IN  Append(end.token, [arg |-> 0, word |-> SubSeq(content, end.ptr, Len(content))])

\* lre_create_code_by_macro.  What does not fit is cut off.
CreateCode(m, args) ==
  LET code == FlattenSeq([k \in DOMAIN m.token |->
                            IF m.token[k].arg = 0 THEN m.token[k].word
                            ELSE args[m.token[k].arg]])
  IN  SubSeq(code, 1, IF Len(code) < CodeMax THEN Len(code) ELSE CodeMax - 1)

-----------------------------------------------------------------------------
(* Lines.                                                                  *)

\* read_macro_line: a line and what it continues in.
LineEnd(lines) ==
  CHOOSE n \in DOMAIN lines :
    /\ n = Len(lines) \/ ~lines[n].cont
    /\ \A k \in 1..(n - 1) : lines[k].cont
Line(lines) == FlattenSeq([k \in 1..LineEnd(lines) |-> lines[k].toks])

IsSymbol(tok, word) == tok.type = "symbol" /\ tok.word = word
IsWord(tok, word) == tok.type = "keyword" /\ tok.word = word

\* A fault: one parameter more than there is room for.
ParamCountsOneMore(toks) ==
  {n \in 1..(ArgcMax + 1) :
     /\ 2 * n + 1 <= Len(toks)
     /\ \A k \in 1..n : /\ toks[2 * k].type = "keyword"
                        /\ IsSymbol(toks[2 * k + 1], IF k < n THEN <<",">> ELSE <<")">>)}

\* lre_macro_arg_parse: "(" and so many parameters and ")", in tokens that begin
\* there.
ParamCounts(toks) ==
  {n \in 1..ArgcMax :
     /\ 2 * n + 1 <= Len(toks)
     /\ \A k \in 1..n : /\ toks[2 * k].type = "keyword"
                        /\ IsSymbol(toks[2 * k + 1], IF k < n THEN <<",">> ELSE <<")">>)}

\* lre_macro_parse: the macros, one or none, that the tokens behind "define" make.
Parsed(toks) ==
  LET rest   == Tail(toks)
      none   == Len(rest) >= 2 /\ IsSymbol(rest[2], <<")">>)
      counts == IF none THEN {0} ELSE ParamCounts(rest)
      n      == CHOOSE n \in counts : TRUE
      body   == IF n = 0 THEN 3 ELSE 2 * n + 2
  IN  IF toks = <<>> \/ toks[1].type # "keyword" \/ rest = <<>>
           \/ ~IsSymbol(rest[1], <<"(">>) THEN {}
      ELSE IF counts = {} \/ Len(rest) < body \/ rest[body].type # "string" THEN {}
      ELSE LET params == [k \in 1..n |-> rest[2 * k].word]
           IN  {[name |-> toks[1].word, params |-> params, body |-> rest[body].word,
                 token |-> Content2Token(rest[body].word, params)]}

-----------------------------------------------------------------------------
(* lre_macro_conf_load.                                                    *)

\* fopen, on behalf of the frames that are there.  A file that cannot be opened
\* is passed over.
Open(frames, name) ==
  IF name \in DOMAIN files /\ opened < MaxOpen
  THEN loading' = Append(frames, files[name]) /\ opened' = opened + 1
  ELSE loading' = frames /\ UNCHANGED opened

\* lre_macro_init.
LreMacroInit ==
  /\ pc = "off" /\ pc' = "loading"
  /\ Open(<<>>, Global)
  /\ UNCHANGED <<files, macros, expanded>>

\* A fault: new macros go behind the old.
MacroAddTail(m) == macros' = Append(macros, m)

MacroAdd(m) == macros' = <<m>> \o macros

\* What lre_macro_conf_parse makes of a line that has no bad token.
Frames(rest) == Append(Front(loading), rest)

Include(toks, rest) ==
  /\ IsWord(toks[1], <<"include">>)
  /\ IF Len(toks) > 1 /\ toks[2].type = "string"
     THEN Open(Frames(rest), toks[2].word)
     ELSE loading' = Frames(rest) /\ UNCHANGED opened
  /\ UNCHANGED <<macros, pc>>

Define(toks, rest) ==
  /\ IsWord(toks[1], <<"define">>)
  /\ \E made \in {Parsed(Tail(toks))} :
       IF made = {} THEN UNCHANGED <<macros, pc>>
       ELSE \E m \in made :
              /\ MacroAdd(m)
              /\ pc' = IF Len(m.token) > 2 * ArgcMax + 1 THEN "overflow" ELSE pc
  /\ loading' = Frames(rest) /\ UNCHANGED opened

Ignored(toks) ==
  \/ toks = <<>>
  \/ \E k \in DOMAIN toks : toks[k].type = "bad"
  \/ ~IsWord(toks[1], <<"include">>) /\ ~IsWord(toks[1], <<"define">>)

\* A fault: a line that cannot be read is read again.
ConfParseRetrying(toks, rest) ==
  IF Ignored(toks) THEN UNCHANGED <<loading, opened, macros, pc>>
  ELSE Include(toks, rest) \/ Define(toks, rest)

ConfParse(toks, rest) ==
  IF Ignored(toks) THEN loading' = Frames(rest) /\ UNCHANGED <<opened, macros, pc>>
  ELSE Include(toks, rest) \/ Define(toks, rest)

ConfLoadLine ==
  /\ pc = "loading" /\ loading # <<>> /\ Last(loading) # <<>>
  /\ \E lines \in {Last(loading)} :
       \E toks \in {Line(lines)} :
         ConfParse(toks, SubSeq(lines, LineEnd(lines) + 1, Len(lines)))
  /\ UNCHANGED <<files, expanded>>

\* The end of a file, and of lre_macro_init after the last.
ConfLoadEnd ==
  /\ pc = "loading"
  /\ IF loading = <<>> THEN pc' = "ready" /\ UNCHANGED loading
     ELSE Last(loading) = <<>> /\ loading' = Front(loading) /\ UNCHANGED pc
  /\ UNCHANGED <<files, opened, macros, expanded>>

-----------------------------------------------------------------------------
\* preprocess_content: lre_find_macro, by name and number of arguments.
FindMacro(call) ==
  SelectInSeq(macros, LAMBDA m : m.name = call.name /\ Len(m.params) = Len(call.args))

PreprocessContent(call) ==
  /\ pc = "ready"
  /\ LET k == FindMacro(call)
     IN  expanded' = IF k = 0 THEN [call |-> call, macro |-> NoMacro, code |-> <<>>]
                     ELSE [call |-> call, macro |-> macros[k],
                           code |-> CreateCode(macros[k], call.args)]
  /\ UNCHANGED <<files, loading, opened, macros, pc>>

LoadStep == ConfLoadLine \/ ConfLoadEnd

Next == LreMacroInit \/ LoadStep \/ \E call \in Calls : PreprocessContent(call)

Spec == Init /\ [][Next]_vars /\ WF_vars(LoadStep)

-----------------------------------------------------------------------------
(* What the files say, and what a body means.                              *)

\* A line before those that follow it, and the lines of a file, each joined with
\* those that continue it.
JoinLine(line, after) ==
  IF line.cont THEN <<line.toks \o Head(after)>> \o Tail(after) ELSE <<line.toks>> \o after
LogicalLines(lines) ==
  LET last[k \in 0..Len(lines)] ==
        IF k = 0 THEN << <<>> >> ELSE JoinLine(lines[Len(lines) + 1 - k], last[k - 1])
  IN  last[Len(lines)]

\* The definitions that a line stands for, and that a file does, given those of
\* the files that may be included.
Says(toks, included) ==
  IF Ignored(toks) THEN <<>>
  ELSE IF IsWord(toks[1], <<"define">>) THEN SetToSeq(Parsed(Tail(toks)))
  ELSE IF Len(toks) > 1 /\ toks[2].type = "string" /\ toks[2].word \in DOMAIN included
  THEN included[toks[2].word] ELSE <<>>
Text(lines, included) ==
  FlattenSeq([k \in DOMAIN LogicalLines(lines) |-> Says(LogicalLines(lines)[k], included)])

\* The definitions in the files, an include standing for those of its file, to a
\* depth.
Definitions ==
  LET text[d \in 0..MaxOpen] ==
        [f \in DOMAIN files |-> Text(files[f], IF d = 0 THEN <<>> ELSE text[d - 1])]
  IN  IF Global \in DOMAIN files THEN text[MaxOpen][Global] ELSE <<>>

\* A call means the last definition of its name with so many parameters, in the
\* order of the text with every include in its place, unless the files that may
\* be open run out (lre_macro_conf_load, lre_macro_add, lre_find_macro).
CallsMeanLastDefinition ==
  expanded # NoMacro /\ opened < MaxOpen =>
    LET all  == Definitions
        fits == {k \in DOMAIN all : all[k].name = expanded.call.name
                                    /\ Len(all[k].params) = Len(expanded.call.args)}
    IN  expanded.macro = IF fits = {} THEN NoMacro
                         ELSE all[CHOOSE k \in fits : \A j \in fits : j <= k]

\* The keyword at a place of a text.
Ident(text, k) ==
  LET to == CHOOSE n \in (k - 1)..Len(text) :
              /\ \A j \in k..n : text[j] \in IdentChars
              /\ n = Len(text) \/ text[n + 1] \notin IdentChars
  IN  SubSeq(text, k, to)

\* "$" and the name of a parameter stand for the argument, all else for itself;
\* of two parameters of one name the first counts.
Substitute(body, params, args, acc, k) ==
  LET word  == Ident(body, k + 1)
      named == {i \in DOMAIN params : params[i] = word}
  IN  IF k < acc.next THEN acc
      ELSE IF body[k] = "$" /\ named # {}
      THEN [next |-> k + 1 + Len(word), out |-> acc.out \o args[Min(named)]]
      ELSE [next |-> k + 1, out |-> Append(acc.out, body[k])]
Substituted(body, params, args) ==
  LET scan[k \in 0..Len(body)] ==
        IF k = 0 THEN [next |-> 1, out |-> <<>>]
        ELSE CHOOSE next \in {Substitute(body, params, args, acc, k) : acc \in {scan[k - 1]}} : TRUE
  IN  scan[Len(body)].out

\* A parameter's name is spelt somewhere else than behind a "$", or begins a
\* longer name there.
Misleading(body, params) ==
  \E i \in DOMAIN params, k \in 2..Len(body) :
    /\ Spells(body, k, params[i])
    /\ body[k - 1] # "$" \/ Ident(body, k) # params[i]

\* A call is replaced by the body with the arguments in place of the parameters,
\* when names of parameters occur in it behind a "$" only and none begins with
\* another (lre_macro_content2token compares prefixes, at every place).
ExpansionsAreSubstitutions ==
  expanded # NoMacro /\ expanded.macro # NoMacro =>
    LET m    == expanded.macro
        code == Substituted(m.body, m.params, expanded.call.args)
    IN  Misleading(m.body, m.params)
        \/ expanded.code = SubSeq(code, 1, IF Len(code) < CodeMax THEN Len(code)
                                           ELSE CodeMax - 1)

\* The tokens of a body go past their array only when a name of a parameter is
\* spelt twice in it (token in lre_macro_content2token has no check).
OverflowNeedsRepetition ==
  pc = "overflow" =>
    LET m == Head(macros)
    IN  \E i \in DOMAIN m.params : \E x, y \in DOMAIN m.body :
          x # y /\ Spells(m.body, x, m.params[i]) /\ Spells(m.body, y, m.params[i])

\* lre_macro_init comes back, also when files include each other: none is ever
\* closed, so there is an end to opening them.
LoadEnds == (pc = "loading") ~> (pc # "loading")
=============================================================================

----------------------------- MODULE FuzzyPath -----------------------------
(***************************************************************************)
(* The calls of fuzzypath and splicepath (lrc/lrc_c_fuzzypath.c,           *)
(* lrc/lrc_c_splicepath.c) as functions of a file system.                  *)
(*                                                                         *)
(* A name is a sequence of characters, "*" only in a pattern.  A path is a *)
(* sequence of names and whether it begins with a slash; empty names       *)
(* between slashes leave no trace in it.  What a call takes and returns is *)
(* a multi-path: the sequence of the paths between the semicolons, one     *)
(* empty path when the string is empty.                                    *)
(***************************************************************************)
EXTENDS Integers, SequencesExt

CONSTANTS
  Characters,     \* what names and patterns are made of
  FuzzyPointMax,  \* FUZZY_POINT_MAX
  DirDepthMax     \* DIR_DEPTH_MAX

ASSUME FuzzyAssumption == FuzzyPointMax \in Nat /\ DirDepthMax \in Nat

Path(abs, names) == [abs |-> abs, names |-> names]
Empty == Path(FALSE, <<>>)

PathType == [abs : BOOLEAN, names : Seq(Seq(Characters))]
MultiPaths == Seq(PathType) \ {<<>>}

-----------------------------------------------------------------------------
(* One name against one pattern.                                           *)

IsFuzzy(token) == "*" \in Range(token)

\* fuzzy2path, step 1: the fragments between the asterisks, without the empty
\* ones except for the last.
Cut(acc, c) ==
  IF c # "*" THEN [acc EXCEPT !.cur = Append(@, c)]
  ELSE [done |-> IF acc.cur = <<>> THEN acc.done ELSE Append(acc.done, acc.cur), cur |-> <<>>]
Frags(token) ==
  LET cut[i \in 0..Len(token)] ==
        IF i = 0 THEN [done |-> <<>>, cur |-> <<>>] ELSE Cut(cut[i - 1], token[i])
  IN  Append(cut[Len(token)].done, cut[Len(token)].cur)

\* The fragments before the last one fill all but one place of frag.str.
TooFuzzy(token) == Len(Frags(token)) > FuzzyPointMax

\* Where frag occurs in name, in order; strstr of it from a place on, 0 for NULL.
Occurrences(name, frag) ==
  {k \in 1..(Len(name) + 1 - Len(frag)) : SubSeq(name, k, k + Len(frag) - 1) = frag}
Strstr(name, from, frag) ==
  LET later == {k \in Occurrences(name, frag) : k >= from}
  IN  IF later = {} THEN 0 ELSE CHOOSE k \in later : \A j \in later : k <= j

\* recurse_dir: the first occurrence of every fragment, looked for from where the
\* one before it begins; 0 from the first that is missing.
Places(name, frags) ==
  LET place[k \in 0..Len(frags)] ==
        IF k = 0 THEN 1
        ELSE IF place[k - 1] = 0 THEN 0 ELSE Strstr(name, place[k - 1], frags[k])
  IN  place

\* A fault: the last fragment may be found anywhere.
FuzzyMatchOpenEnd(name, token) ==
  LET frags == Frags(token)
      place == Places(name, frags)
  IN  place[Len(frags)] # 0 /\ (Head(token) = "*" \/ place[1] = 1)

\* recurse_dir, the test of a fuzzy name: after the last fragment comes nothing
\* more, unless the pattern ends in an asterisk.
FuzzyMatch(name, token) ==
  LET frags == Frags(token)
      place == Places(name, frags)
      last  == place[Len(frags)]
  IN  /\ last # 0
      /\ Head(token) = "*" \/ place[1] = 1
      /\ Last(token) = "*" \/ SubSeq(name, last, Len(name)) = Last(frags)

Fits(name, token) == IF IsFuzzy(token) THEN FuzzyMatch(name, token) ELSE name = token

-----------------------------------------------------------------------------
(* The search.  files gives every existing path, as the sequence of its names *)
(* from the root, and its type: "dir", "reg" or "other".                   *)

IsDir(files, names) == names \in DOMAIN files /\ files[names].type = "dir"

\* recurse_dir from a directory, against the patterns of the names below it:
\* the files and directories so far down, through directories that fit.
RecurseDir(files, base, tokens) ==
  IF ~IsDir(files, base) THEN {}
  ELSE {p \in DOMAIN files :
          /\ Len(p) = Len(base) + Len(tokens) /\ IsPrefix(base, p)
          /\ \A k \in DOMAIN tokens : Fits(p[Len(base) + k], tokens[k])
          /\ \A k \in Len(base)..(Len(p) - 1) : IsDir(files, SubSeq(p, 1, k))
          /\ files[p].type \in {"dir", "reg"}}

\* fuzzy2path: a set of paths, empty when it fails.  A path without asterisks is
\* its own result, there or not.  A relative one that begins with an asterisk,
\* and the empty path, use a buffer that was never written; buf is what it holds.
Fuzzy2Path(files, path, buf) ==
  LET tokens == path.names
      fuzzy  == {k \in DOMAIN tokens : IsFuzzy(tokens[k])}
      plain  == IF fuzzy = {} THEN Len(tokens)
                ELSE (CHOOSE k \in fuzzy : \A j \in fuzzy : k <= j) - 1
      base   == IF plain = 0 /\ ~path.abs THEN buf
                ELSE Path(path.abs, SubSeq(tokens, 1, plain))
  IN  IF (\E k \in fuzzy : TooFuzzy(tokens[k])) \/ Len(tokens) >= DirDepthMax THEN {}
      ELSE IF fuzzy = {} THEN {base}
      ELSE {Path(base.abs, p) :
              p \in RecurseDir(files, base.names, SubSeq(tokens, plain + 1, Len(tokens)))}

\* "%s/" and "%s": behind an empty base a path becomes absolute.
Join(base, path) == Path(base.abs \/ base.names = <<>>, base.names \o path.names)

\* fuzzypath_execute.  readdir gives the paths of one search in any order.
\* No path at all is the empty string, which is a value like any other.
FuzzypathExecute(files, base, path, buf) ==
  LET searches == IF base = <<>> \/ path[1].abs THEN path
                  ELSE FlattenSeq([i \in DOMAIN base |->
                                     [j \in DOMAIN path |-> Join(base[i], path[j])]])
      out == FlattenSeq([k \in DOMAIN searches |->
                           SetToSeq(Fuzzy2Path(files, searches[k], buf))])
  IN  IF out = <<>> THEN <<Empty>> ELSE out

\* splicepath_execute fails when it has neither a base nor a path ...
NothingToSplice(base, path) == base \in {<<>>, <<Empty>>} /\ path = <<Empty>>

\* ... and joins two strings otherwise, so of two multi-paths the last path of one
\* and the first of the other.
SplicepathExecute(base, path) ==
  IF path = <<Empty>> THEN base
  ELSE LET front == IF base = <<>> THEN <<Empty>> ELSE base
       IN  Front(front) \o <<Join(Last(front), Head(path))>> \o Tail(path)

-----------------------------------------------------------------------------
(* What an asterisk is taken to mean: any characters, or none.  ends[j] is  *)
(* where that which the first j characters of the pattern mean may end.    *)

Reach(name, ends, c) ==
  IF c = "*" THEN {i \in 0..Len(name) : \E h \in ends : h <= i}
  ELSE {i \in 1..Len(name) : i - 1 \in ends /\ name[i] = c}
Glob(name, token) ==
  LET ends[j \in 0..Len(token)] == IF j = 0 THEN {0} ELSE Reach(name, ends[j - 1], token[j])
  IN  Len(name) \in ends[Len(token)]

\* Two fragments that follow each other may share characters of the name.
Overlapping(name, token) ==
  LET frags == Frags(token)
  IN  \E k \in 1..(Len(frags) - 1) :
        \E i \in Occurrences(name, frags[k]), j \in Occurrences(name, frags[k + 1]) :
          frags[k + 1] # <<>> /\ i <= j /\ j < i + Len(frags[k])

\* The last fragment is in the name more than once.
RepeatedEnd(name, token) ==
  Last(token) # "*" /\ \E i, j \in Occurrences(name, Last(Frags(token))) : i # j
=============================================================================

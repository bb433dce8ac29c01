------------------------------ MODULE MCPaths ------------------------------
(***************************************************************************)
(* A small tree for TLC: two directories of files whose names repeat their *)
(* letters, and patterns of every shape over them.                         *)
(***************************************************************************)
EXTENDS Paths

MCCharacters == {"a", "b", "d", "e", "*"}

a == <<"a">>
aa == <<"a", "a">>
ab == <<"a", "b">>
ba == <<"b", "a">>
aba == <<"a", "b", "a">>
d == <<"d">>
e == <<"e">>

Dir755 == [type |-> "dir", owner |-> "root", rights |-> {0, 2, 3, 5, 6, 7, 8}]
Root644 == [type |-> "reg", owner |-> "root", rights |-> {2, 5, 7, 8}]
Root700 == [type |-> "reg", owner |-> "root", rights |-> {6, 7, 8}]
User644 == [type |-> "reg", owner |-> "1000", rights |-> {2, 5, 7, 8}]
Device == [type |-> "other", owner |-> "root", rights |-> {7, 8}]

MCAttributes == {User644}

Tree(files) == [p \in {<<>>, <<d>>, <<e>>} \cup DOMAIN files |->
                  IF p \in DOMAIN files THEN files[p] ELSE Dir755]

MCInitialFs ==
  {Tree([p \in {<<d, aba>>} |-> Root700]),
   Tree([p \in {<<d, aa>>, <<d, ab>>} |-> IF p = <<d, aa>> THEN Root644 ELSE Device]),
   Tree([p \in {<<d, ab>>, <<e, ba>>} |-> Root644]),
   Tree([p \in {<<d, a>>, <<d, a, ab>>} |-> IF p = <<d, a>> THEN Dir755 ELSE Root700])}

\* A token is a name or a pattern.
Star == <<"*">>
Tokens == {ab, Star, Star \o a, a \o Star, a \o Star \o a, Star \o a \o Star \o ab \o Star}

MCPatterns ==
  {<<Path(TRUE, <<d, t>>)>> : t \in Tokens}
    \cup {<<Path(TRUE, <<Star, a \o Star>>)>>, <<Path(FALSE, <<Star \o a>>)>>,
          <<Path(FALSE, <<a, ab>>)>>, <<Path(TRUE, <<d, aba, a>>)>>,
          <<Empty>>, <<Path(TRUE, <<d, ab>>), Path(TRUE, <<e, Star>>)>>}

Says(what, op, arg) == [what |-> what, op |-> op, arg |-> arg]
MCRules ==
  {<<Says("exist", "==", 1), Says("owner", "==", "root"), Says("permission", "==", 644)>>,
   <<Says("exist", "==", 0), Says("owner", "!=", "root"), Says("permission", ">", 640)>>,
   <<Says("permission", "<=", 640), Says("permission", "!=", 700), Says("exist", ">=", 0)>>,
   <<Says("permission", "<", 644), Says("owner", "==", "1000")>>,
   <<Says("permission", "==", 680)>>}

MCBases == {<<Path(TRUE, <<d>>)>>, <<Path(TRUE, <<d>>), Path(TRUE, <<e>>)>>}
MCUnwritten == {Path(TRUE, <<d>>), Path(FALSE, <<aba>>)}
=============================================================================

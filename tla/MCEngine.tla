------------------------------ MODULE MCEngine ------------------------------
(***************************************************************************)
(* A small machine for TLC: vi, vim and a kernel thread called vi, whose   *)
(* executables differ in that one path begins with the other.              *)
(***************************************************************************)
EXTENDS Engine

Vi  == <<"/", "bin", "/", "vi">>
Vim == <<"/", "bin", "/", "vi", "m">>

MCPrograms ==
  {[name |-> "vi", exe |-> Vi, user |-> "root",
    args |-> << <<"vi">>, <<"-f">> >>],
   [name |-> "vim", exe |-> Vim, user |-> "1000",
    args |-> << <<"vim">>, <<"-f">>, <<"y">> >>],
   [name |-> "vi", exe |-> NoPath, user |-> "root", args |-> <<>>]}

\* A rule gives some of the arguments.
Rule(kind, name, path, exclude, key, index) ==
  [kind |-> kind, procname |-> name, procpath |-> path, excludepath |-> exclude,
   argkey |-> key, argindex |-> index]
Key(text, spaces) == [text |-> text, spaces |-> spaces]

\* Two binaries, the second with vi's path as its beginning.
Binaries == << <<"/", "sbin", "/", "vi">>, Vim>>

\* A directory, in which both are.
Directory == << <<"/", "bin", "/">> >>

MCRequests ==
  {Rule("process", "vi", Null, Null, Null, 0),
   Rule("process", "vi", Binaries, Null, Null, 0),
   Rule("process", Null, Binaries, <<Vi>>, Null, 0),
   Rule("process", Null, Directory, Null, Null, 0),
   Rule("process", Null, Null, Null, Null, 0),
   Rule("processdir", "vi", Null, <<Vi>>, Null, 0),
   Rule("processdir", Null, Binaries, Null, Null, 0),
   Rule("cmdline_extract", "vi", Null, Null, Key(<<"-f">>, 1), 0),
   Rule("cmdline_extract", "vim", Null, Null, Key(<<"-f">>, 1), 0),
   Rule("cmdline_extract", "vim", Null, Null, Key(<<>>, 0), 0),
   Rule("cmdline_extract", "vim", Null, Null, Key(<<"-f">>, 0), 1),
   Rule("cmdline_extract", "vim", Null, Null, Null, 0)}

MCNetRequests ==
  {[protocol |-> "", port |-> 22], [protocol |-> "udp", port |-> 22],
   [protocol |-> "tcp", port |-> 0]}

Listening == [port |-> 22, state |-> LISTEN]
Closed    == [port |-> 22, state |-> CLOSE]
MCInitialSockets ==
  {[tcp |-> <<>>, udp |-> <<>>], [tcp |-> <<Listening>>, udp |-> <<>>],
   [tcp |-> <<Closed>>, udp |-> <<Closed>>]}
=============================================================================

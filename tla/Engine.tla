------------------------------- MODULE Engine -------------------------------
(***************************************************************************)
(* The life of the engine (lre.c, lrc/builtin_lrc.c) around the modules    *)
(* that keep what they read in globals: sessions from lre_init to          *)
(* lre_release, rules of either module within a session, one object at a   *)
(* time, and a machine that changes all the while.                         *)
(*                                                                         *)
(* The two modules share the session and nothing else, so the rules of a   *)
(* behaviour are of one module; those with rules of both are two of these, *)
(* interleaved.                                                            *)
(***************************************************************************)
EXTENDS Process, Network

CONSTANT MaxSessions  \* bound: calls of lre_init

ASSUME SessionsAssumption == MaxSessions \in Nat

VARIABLES
  about,     \* what the rules of the host ask for
  up,        \* between lre_init and lre_release
  sessions   \* calls of lre_init so far

engineVars == <<about, up, sessions>>
vars == <<procVars, netVars, engineVars>>

Init ==
  /\ about \in {"processes", "network"}
  /\ ProcessInit /\ (about = "network" => Alive = {})
  /\ NetworkInit /\ (about = "processes" => sockets["tcp"] = <<>>)
  /\ up = FALSE /\ sessions = 0

\* What a callback writes to memory it does not own ends the program.
Alright == fault = "none" /\ netFault = "none"

\* lre_init: the modules register and keep their globals as they are.
LreInit ==
  /\ Alright /\ ~up /\ sessions < MaxSessions
  /\ up' = TRUE /\ sessions' = sessions + 1
  /\ UNCHANGED <<about, procVars, netVars>>

\* lre_release, between two rules: lrc_process_release, lrc_network_release.
LreRelease ==
  /\ Alright /\ up /\ obj = NoObject /\ netObj = NoNetObj
  /\ up' = FALSE
  /\ LrcProcessRelease
  /\ LrcNetworkRelease
  /\ UNCHANGED <<about, sessions>>

ProcessRule ==
  /\ about = "processes" /\ Alright /\ up
  /\ Callbacks \/ Load
  /\ UNCHANGED <<netVars, engineVars>>

NetworkRule ==
  /\ about = "network" /\ Alright /\ up
  /\ NetworkCallbacks \/ NetworkLoad
  /\ UNCHANGED <<procVars, engineVars>>

Environment ==
  /\ Alright
  /\ \/ about = "processes" /\ Machine /\ UNCHANGED netVars
     \/ about = "network" /\ Kernel /\ UNCHANGED procVars
  /\ UNCHANGED engineVars

Next == LreInit \/ LreRelease \/ ProcessRule \/ NetworkRule \/ Environment

\* The program is one thread: a load that has begun goes on.
Fairness == /\ WF_vars(Load /\ UNCHANGED <<netVars, engineVars>>)
            /\ WF_vars(NetworkLoad /\ UNCHANGED <<procVars, engineVars>>)

Spec == Init /\ [][Next]_vars /\ Fairness

-----------------------------------------------------------------------------
\* Memory that was freed is touched in no first session: only after a release
\* and another lre_init can a rule, or the next release, meet a list or an array
\* of an earlier session (lrc_process_release, lrc_network_release).
FirstSessionIsSound ==
  fault \in {"freed_list", "double_free"} \/ netFault # "none" => sessions > 1

\* Every read of /proc comes to its end (processes_info_load, network_info_load).
LoadsEnd == (pc # "idle" \/ netPc # "idle") ~> (pc = "idle" /\ netPc = "idle")
=============================================================================

------------------------------ MODULE Network ------------------------------
(***************************************************************************)
(* The module of network (lrc/lrc_network.c).  The first object that       *)
(* executes reads /proc/net/tcp and /proc/net/udp into global arrays, each *)
(* in two passes, one to count the lines and one to keep them, while       *)
(* sockets come and go.                                                    *)
(***************************************************************************)
EXTENDS Integers, SequencesExt

CONSTANTS
  NetNull,        \* no answer
  Ports,          \* ports of sockets
  NetRequests,    \* rules of the host: a protocol in lower case, "" when none
                  \* is given, and a port, any int, NoPort when none is given
  InitialSockets, \* tables that a run starts with
  MaxNetChanges   \* bound: sockets that come or go

Tables == {"tcp", "udp"}
NoPort == -1      \* INVAILD_PORT
LISTEN == 10      \* TCP_LISTEN
CLOSE  == 7       \* TCP_CLOSE, the state of an unconnected UDP socket
ValidPort(n) == n > 0 /\ n <= 65535

Row == [port : Ports, state : {LISTEN, CLOSE}]

ASSUME NetChangesAssumption == MaxNetChanges \in Nat
ASSUME InitialSocketsAssumption == InitialSockets \subseteq [Tables -> Seq(Row)]

VARIABLES
  sockets,    \* the rows of the two tables of the kernel (external)
  netChanges, \* how often they changed
  stats,      \* tcp_stats and udp_stats, with their counts
  netInit,    \* net_initialized
  netPc,      \* the next pass of network_info_load
  entries,    \* lines that the first pass counted
  lasting,    \* lasting[t]: rows that were in t since the load began
  opened,     \* opened[t]: rows that t got since then
  netObj,     \* the object of the rule in progress
  netAnswer,  \* what its last callback returned
  netFault    \* what stopped the program

netVars == <<sockets, netChanges, stats, netInit, netPc, entries, lasting, opened,
             netObj, netAnswer, netFault>>
loadVars  == <<stats, netInit, netPc, entries>>
kernelVars == <<sockets, netChanges, lasting, opened>>

NoNetObj == [state |-> "none"]

NetworkInit ==
  /\ sockets \in InitialSockets
  /\ netChanges = 0
  /\ stats = [t \in Tables |-> [ptr |-> "null", rows |-> <<>>]]
  /\ netInit = FALSE /\ netPc = "idle" /\ entries = 0
  /\ lasting = [t \in Tables |-> {}] /\ opened = [t \in Tables |-> 0]
  /\ netObj = NoNetObj /\ netAnswer = NetNull /\ netFault = "none"

-----------------------------------------------------------------------------
(* The kernel.  A new row may come at any place of a table.                *)

SocketChange(t, table) ==
  /\ netChanges < MaxNetChanges
  /\ netChanges' = netChanges + 1
  /\ sockets' = [sockets EXCEPT ![t] = table]
  /\ IF netPc = "idle" THEN UNCHANGED <<lasting, opened>>
     ELSE /\ lasting' = [lasting EXCEPT ![t] = @ \cap Range(table)]
          /\ opened' = [opened EXCEPT ![t] = IF Len(table) > Len(sockets[t])
                                             THEN @ + 1 ELSE @]
  /\ UNCHANGED <<loadVars, netObj, netAnswer, netFault>>

OpenSocket(t, row) ==
  /\ row \notin Range(sockets[t])
  /\ \E k \in 1..(Len(sockets[t]) + 1) : SocketChange(t, InsertAt(sockets[t], k, row))

CloseSocket(t) == \E k \in DOMAIN sockets[t] : SocketChange(t, RemoveAt(sockets[t], k))

-----------------------------------------------------------------------------
(* network_info_load: tcp_state_load, then udp_state_load.                 *)

NetRunning == netFault = "none"

PassOf == [tcp |-> [count |-> "tcp_count", read |-> "tcp_read", next |-> "udp_count"],
           udp |-> [count |-> "udp_count", read |-> "udp_read", next |-> "idle"]]

\* The end of the load of one table.
Loaded(t) ==
  /\ netPc' = PassOf[t].next
  /\ netInit' = (t = "udp")

\* A fault: the line of titles is not counted.
CountRowsOnly(t) ==
  /\ netPc = PassOf[t].count
  /\ netPc' = PassOf[t].read
  /\ entries' = Len(sockets[t])
  /\ UNCHANGED <<stats, netInit, kernelVars, netObj, netAnswer, netFault>>

\* The first pass counts every line, the titles too.
CountRows(t) ==
  /\ netPc = PassOf[t].count
  /\ netPc' = PassOf[t].read
  /\ entries' = Len(sockets[t]) + 1
  /\ UNCHANGED <<stats, netInit, kernelVars, netObj, netAnswer, netFault>>

\* fopen fails: the array stays what it was, and nobody looks at the result.
OpenFails(t) ==
  /\ netPc = PassOf[t].count
  /\ Loaded(t)
  /\ UNCHANGED <<stats, entries, kernelVars, netObj, netAnswer, netFault>>

\* The second pass keeps the rows that the array has room for.
ReadRows(t) ==
  /\ netPc = PassOf[t].read
  /\ stats' = [stats EXCEPT ![t] = [ptr |-> "live",
       rows |-> SubSeq(sockets[t], 1,
                       IF Len(sockets[t]) < entries THEN Len(sockets[t]) ELSE entries)]]
  /\ Loaded(t)
  /\ UNCHANGED <<entries, kernelVars, netObj, netAnswer, netFault>>

NetworkLoad == NetRunning /\ \E t \in Tables : CountRows(t) \/ OpenFails(t) \/ ReadRows(t)

-----------------------------------------------------------------------------
(* The callbacks.                                                          *)

\* network_constructor, arg_protocol_handler, arg_port_handler.
NetworkConstructor(r) ==
  /\ NetRunning /\ netObj = NoNetObj
  /\ netObj' = [protocol |-> r.protocol, port |-> r.port, state |-> "args"]
  /\ UNCHANGED <<kernelVars, loadVars, netAnswer, netFault>>

\* network_execute: loads once, and names the protocol when no rule did.
NetworkExecute ==
  /\ NetRunning /\ netObj.state = "args"
  /\ netObj' = [netObj EXCEPT !.state = "ready",
                              !.protocol = IF @ = "" THEN "tcp" ELSE @]
  /\ IF netInit THEN UNCHANGED <<netPc, lasting, opened>>
     ELSE /\ netPc' = "tcp_count"
          /\ lasting' = [t \in Tables |-> Range(sockets[t])]
          /\ opened' = [t \in Tables |-> 0]
  /\ UNCHANGED <<sockets, netChanges, stats, netInit, entries, netAnswer, netFault>>

\* The row that expr_listen_handler looks for: TCP_LISTEN for tcp, and for udp
\* the state 7, but both in the array of tcp.
Listens(row, o) ==
  /\ row.port = o.port
  /\ row.state = IF o.protocol = "tcp" THEN LISTEN ELSE CLOSE

\* expr_listen_handler; another protocol, or no port, is an error.
ExprListen ==
  /\ NetRunning /\ netPc = "idle" /\ netObj.state = "ready"
  /\ LET asked == netObj.protocol \in Tables /\ ValidPort(netObj.port)
     IN  IF asked /\ stats["tcp"].ptr = "freed" /\ stats["tcp"].rows # <<>>
         THEN netFault' = "freed_stats" /\ UNCHANGED netAnswer
         ELSE /\ netAnswer' =
                   [by |-> netObj,
                    val |-> IF asked
                            THEN IF \E k \in DOMAIN stats["tcp"].rows :
                                      Listens(stats["tcp"].rows[k], netObj)
                                 THEN "yes" ELSE "no"
                            ELSE "error"]
              /\ UNCHANGED netFault
  /\ UNCHANGED <<kernelVars, loadVars, netObj>>

NetworkDestructor ==
  /\ NetRunning /\ netPc = "idle" /\ netObj.state # "none"
  /\ netObj' = NoNetObj /\ netAnswer' = NetNull
  /\ UNCHANGED <<kernelVars, loadVars, netFault>>

\* lrc_network_release: the arrays are freed, their pointers and counts stay.
LrcNetworkRelease ==
  /\ NetRunning /\ netObj = NoNetObj
  /\ netInit' = FALSE
  /\ IF netInit /\ \E t \in Tables : stats[t].ptr = "freed"
     THEN netFault' = "double_free" /\ UNCHANGED stats
     ELSE /\ stats' = IF netInit
                      THEN [t \in Tables |-> [stats[t] EXCEPT !.ptr =
                                                IF @ = "live" THEN "freed" ELSE @]]
                      ELSE stats
          /\ UNCHANGED netFault
  /\ UNCHANGED <<kernelVars, netPc, entries, netObj, netAnswer>>

-----------------------------------------------------------------------------
Kernel == \E t \in Tables : CloseSocket(t) \/ \E row \in Row : OpenSocket(t, row)

NetworkCallbacks ==
  \/ (\E r \in NetRequests : NetworkConstructor(r)) \/ NetworkExecute
  \/ ExprListen \/ NetworkDestructor

NetworkNext == Kernel \/ NetworkLoad \/ NetworkCallbacks \/ LrcNetworkRelease

NetworkSpec == NetworkInit /\ [][NetworkNext]_netVars

-----------------------------------------------------------------------------
(* Properties.                                                             *)

\* "Not listening" is said of no TCP port on which a socket listened all the
\* while the tables were read, unless two or more sockets came meanwhile, or
\* the table could not be opened (tcp_state_load, expr_listen_handler).
NotListeningMeansAbsent ==
  netAnswer # NetNull /\ netAnswer.val = "no" /\ netAnswer.by.protocol = "tcp" =>
    \/ [port |-> netAnswer.by.port, state |-> LISTEN] \notin lasting["tcp"]
    \/ opened["tcp"] > 1
    \/ stats["tcp"].ptr # "live"
=============================================================================

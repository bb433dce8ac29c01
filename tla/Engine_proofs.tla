---------------------------- MODULE Engine_proofs ----------------------------
(***************************************************************************)
(* What the process list says of the machine, for every set of pids and    *)
(* programs and every number of changes while /proc is read; and that the  *)
(* engine with its sessions takes only steps that the module of process    *)
(* allows, so that what is proved of the module holds of the engine.       *)
(***************************************************************************)
EXTENDS Engine, NatSets

\* What the fields of an entry may hold.
Owners    == Users \cup {g.user : g \in Programs}
Exes      == {NoPath} \cup {g.exe : g \in Programs}
Names     == {g.name : g \in Programs}
ArgLists  == {<<>>} \cup {g.args : g \in Programs}
ListEntry == [pid : Pids, user : Owners, exe : Exes, name : Names, args : ArgLists]
Partial   == [pid : Pids, user : Owners \cup {Null}, exe : Exes, name : Names \cup {Null}]

ScanType ==
  /\ system \in [Pids -> Programs \cup {Gone}]
  /\ seen \in [Pids -> SUBSET Programs]
  /\ steady \in SUBSET Pids
  /\ pc \in Reads \cup {"idle"}
  /\ cursor \in Nat
  /\ list \in Seq(ListEntry)

\* While the list is read, the history has what runs now.
HistoryIsCurrent ==
  pc # "idle" =>
    /\ \A p \in Pids : system[p] # Gone => system[p] \in seen[p]
    /\ \A p \in steady : system[p] # Gone

\* What has been read of the entry is true of the process at the cursor.
EntryIsEvident ==
  pc \in {"owner", "exe", "stat", "cmdline"} =>
    /\ entry \in Partial /\ entry.pid = cursor
    /\ pc # "owner" => entry.user \in Owners
    /\ entry.exe = NoPath \/ \E g \in seen[cursor] : entry.exe = g.exe
    /\ pc = "cmdline" => \E g \in seen[cursor] : entry.name = g.name

\* The list grows towards larger pids, and nothing of it is beyond the cursor.
Descending == \A j, k \in DOMAIN list : j < k => list[j].pid > list[k].pid
BehindCursor ==
  pc # "idle" => \A k \in DOMAIN list :
                   /\ list[k].pid <= cursor
                   /\ pc # "readdir" => list[k].pid < cursor

Listed(p) == \E k \in DOMAIN list : list[k].pid = p

\* No process that was there throughout has been passed over.
NoneIsMissing ==
  \A p \in steady :
    IF pc = "idle" THEN Listed(p)
    ELSE p <= cursor => Listed(p) \/ (p = cursor /\ pc # "readdir")

ScanInv ==
  /\ ScanType /\ HistoryIsCurrent /\ EntryIsEvident
  /\ SnapshotIsEvidence /\ Descending /\ BehindCursor /\ NoneIsMissing

-----------------------------------------------------------------------------
\* Adding an entry at the head (process_info_add) keeps the others behind it.
LEMMA AddedAtHead ==
  ASSUME NEW S, NEW s \in Seq(S), NEW e \in S
  PROVE  /\ <<e>> \o s \in Seq(S)
         /\ DOMAIN (<<e>> \o s) = 1..(Len(s) + 1)
         /\ (<<e>> \o s)[1] = e
         /\ \A k \in DOMAIN (<<e>> \o s) : k # 1 =>
              k - 1 \in DOMAIN s /\ (<<e>> \o s)[k] = s[k - 1]
         /\ \A k \in DOMAIN s : (<<e>> \o s)[k + 1] = s[k]
  OBVIOUS

\* The first objects meet no list.
LEMMA InitEstablishesScanInv == ProcessInit => ScanInv
<1> SUFFICES ASSUME ProcessInit PROVE ScanInv
  OBVIOUS
<1>1. ScanType
  BY DEF ProcessInit, ScanType
<1> QED
  BY <1>1 DEF ProcessInit, ScanInv, HistoryIsCurrent, EntryIsEvident,
     SnapshotIsEvidence, Descending, BehindCursor, NoneIsMissing

\* A process that starts, ends or runs another program only adds to what was
\* seen, and only takes from what was there throughout.
LEMMA ChangeKeepsScanInv ==
  ASSUME ScanInv, NEW p \in Pids, NEW g \in Programs \cup {Gone}, Change(p, g)
  PROVE  ScanInv'
<1> USE DEF ScanInv, Change, listVars, scanVars, ruleVars
<1>1. /\ system' = [system EXCEPT ![p] = g]
      /\ UNCHANGED <<list, pc, cursor, entry>>
      /\ steady' \subseteq steady
      /\ \A q \in Pids : seen[q] \subseteq seen'[q]
      /\ seen' \in [Pids -> SUBSET Programs]
  BY GoneIsNoProgram DEF ScanType
<1>2. ScanType'
  BY <1>1 DEF ScanType
<1>3. HistoryIsCurrent'
  <2> SUFFICES ASSUME pc # "idle" PROVE HistoryIsCurrent'
    BY <1>1 DEF HistoryIsCurrent
  <2>1. /\ steady' = IF g = Gone THEN steady \ {p} ELSE steady
        /\ seen' = [seen EXCEPT ![p] = @ \cup ({g} \ {Gone})]
    OBVIOUS
  <2>2. \A q \in Pids : system'[q] # Gone => system'[q] \in seen'[q]
    BY <1>1, <2>1 DEF ScanType, HistoryIsCurrent
  <2>3. \A q \in steady' : system'[q] # Gone
    BY <1>1, <2>1 DEF ScanType, HistoryIsCurrent
  <2> QED BY <2>2, <2>3 DEF HistoryIsCurrent
<1>4. EntryIsEvident'
  BY <1>1 DEF EntryIsEvident, Partial
<1>5. SnapshotIsEvidence'
  <2>1. \A k \in DOMAIN list : list[k] \in ListEntry
    BY DEF ScanType
  <2>2. \A k \in DOMAIN list : seen[list[k].pid] \subseteq seen'[list[k].pid]
    BY <1>1, <2>1 DEF ListEntry
  <2> QED BY <1>1, <2>2 DEF SnapshotIsEvidence, Evident
<1>6. Descending' /\ BehindCursor' /\ NoneIsMissing'
  BY <1>1 DEF Descending, BehindCursor, NoneIsMissing, Listed
<1> QED BY <1>2, <1>3, <1>4, <1>5, <1>6

\* A step that leaves the machine, the list and the read alone.
LEMMA RuleStepKeepsScanInv ==
  ASSUME ScanInv, UNCHANGED <<system, list, pc, cursor, entry, steady, seen>>
  PROVE  ScanInv'
  BY DEF ScanInv, ScanType, HistoryIsCurrent, EntryIsEvident, SnapshotIsEvidence,
     Evident, Descending, BehindCursor, NoneIsMissing, Listed

\* The read begins only when there is no list.
LEMMA OpendirKeepsScanInv ==
  ASSUME ScanInv, list = <<>>, Opendir, UNCHANGED <<system, changes>>, list' = list
  PROVE  ScanInv'
<1> USE DEF ScanInv, Opendir
<1>1. \A p \in Pids : p > 0
  BY PidsAssumption
<1>2. ScanType'
  BY GoneIsNoProgram DEF ScanType, Alive, Reads
<1>3. HistoryIsCurrent'
  BY DEF HistoryIsCurrent, Alive, ScanType
<1>4. DOMAIN list' = {}
  OBVIOUS
<1>5. EntryIsEvident' /\ SnapshotIsEvidence' /\ Descending' /\ BehindCursor'
  BY <1>4 DEF EntryIsEvident, SnapshotIsEvidence, Descending, BehindCursor
<1>6. NoneIsMissing'
  <2> SUFFICES ASSUME NEW p \in Alive, p <= 0 PROVE FALSE
    BY DEF NoneIsMissing
  <2> QED BY PidsAssumption DEF Alive
<1> QED BY <1>2, <1>3, <1>5, <1>6

\* Only a step of readdir passes over processes, and none that is steady.
LEMMA ReaddirKeepsScanInv ==
  ASSUME ScanInv, NEW p \in Pids, Readdir(p)
  PROVE  ScanInv'
<1> USE DEF ScanInv, Readdir, machineVars, listVars, ruleVars
<1>1. p \in Nat /\ \A q \in Pids : q \in Nat
  BY PidsAssumption
<1>2. ScanType' /\ HistoryIsCurrent' /\ SnapshotIsEvidence' /\ Descending'
  BY <1>1 DEF ScanType, Reads, HistoryIsCurrent, SnapshotIsEvidence, Evident, Descending
<1>3. EntryIsEvident'
  BY DEF EntryIsEvident, Partial, Exes
<1>4. BehindCursor'
  <2>1. \A k \in DOMAIN list : list[k].pid \in Nat
    <3>1. \A k \in DOMAIN list : list[k] \in ListEntry
      BY DEF ScanType
    <3> QED BY <1>1, <3>1 DEF ListEntry
  <2>2. \A k \in DOMAIN list : list[k].pid <= cursor
    BY DEF BehindCursor
  <2>3. cursor \in Nat /\ cursor < p
    BY DEF ScanType
  <2>4. \A k \in DOMAIN list : list[k].pid < p /\ list[k].pid <= p
    BY <1>1, <2>1, <2>2, <2>3
  <2> QED BY <2>4 DEF BehindCursor
<1>5. NoneIsMissing'
  <2> SUFFICES ASSUME NEW q \in steady, q <= p, q # p PROVE Listed(q)
    BY DEF NoneIsMissing, Listed
  <2>1. q \in Nat /\ cursor \in Nat
    BY <1>1 DEF ScanType
  <2>2. q <= cursor
    BY <1>1, <2>1
  <2> QED BY <2>2 DEF NoneIsMissing
<1> QED BY <1>2, <1>3, <1>4, <1>5

\* closedir comes after the last process that was there throughout.
LEMMA ReaddirEndKeepsScanInv ==
  ASSUME ScanInv, ReaddirEnd
  PROVE  ScanInv'
  BY DEF ScanInv, ReaddirEnd, machineVars, listVars, ruleVars, ScanType,
     HistoryIsCurrent, EntryIsEvident, SnapshotIsEvidence, Evident, Descending,
     BehindCursor, NoneIsMissing, Listed

\* Every read of an entry sees the process as it is, or nothing.
LEMMA ProgramIsSeen ==
  ASSUME ScanInv, pc \in {"owner", "exe", "stat", "cmdline"}
  PROVE  /\ entry \in Partial /\ entry.pid = cursor /\ cursor \in Pids
         /\ Program = Gone \/ (Program \in seen[cursor] /\ Program \in Programs)
         /\ cursor \in steady => Program # Gone
<1>1. entry \in Partial /\ entry.pid = cursor /\ cursor \in Pids
  BY DEF ScanInv, EntryIsEvident, Partial
<1> QED
  BY <1>1 DEF ScanInv, ScanType, HistoryIsCurrent, Program

\* The three reads that may fail and keep the process.
LEMMA ReadOwnerKeepsScanInv ==
  ASSUME ScanInv, ReadOwner
  PROVE  ScanInv'
<1> USE DEF ReadOwner, machineVars, listVars, ruleVars
<1>1. PICK u \in Owners : entry' = [entry EXCEPT !.user = u]
  BY ProgramIsSeen DEF Owners
<1>2. EntryIsEvident'
  BY <1>1, ProgramIsSeen DEF ScanInv, EntryIsEvident, Partial
<1> QED
  BY <1>2 DEF ScanInv, ScanType, Reads, HistoryIsCurrent, SnapshotIsEvidence,
     Evident, Descending, BehindCursor, NoneIsMissing, Listed

LEMMA ReadExeKeepsScanInv ==
  ASSUME ScanInv, ReadExe
  PROVE  ScanInv'
<1> USE DEF ReadExe, machineVars, listVars, ruleVars
<1>1. PICK x \in Exes : /\ entry' = [entry EXCEPT !.exe = x]
                        /\ x = NoPath \/ \E g \in seen[cursor] : x = g.exe
  BY ProgramIsSeen DEF Exes
<1>2. EntryIsEvident'
  BY <1>1, ProgramIsSeen DEF ScanInv, EntryIsEvident, Partial
<1> QED
  BY <1>2 DEF ScanInv, ScanType, Reads, HistoryIsCurrent, SnapshotIsEvidence,
     Evident, Descending, BehindCursor, NoneIsMissing, Listed

\* A process that was there throughout can be opened, so it is not dropped.
LEMMA ReadStatKeepsScanInv ==
  ASSUME ScanInv, ReadStat
  PROVE  ScanInv'
<1> USE DEF ReadStat, machineVars, listVars, ruleVars
<1>1. UNCHANGED <<system, list, cursor, steady, seen>>
  OBVIOUS
<1>2. pc' \in Reads /\ pc = "stat" /\ pc' # "idle"
  BY DEF Reads
<1>3. EntryIsEvident'
  <2>1. CASE Program = Gone
    BY <2>1 DEF EntryIsEvident
  <2>2. CASE Program # Gone
    BY <2>2, ProgramIsSeen DEF ScanInv, EntryIsEvident, Partial, Names
  <2> QED BY <2>1, <2>2
<1>4. NoneIsMissing'
  BY <1>1, <1>2, ProgramIsSeen DEF ScanInv, NoneIsMissing, Listed
<1>5. BehindCursor'
  BY <1>1, <1>2, PidsAssumption DEF ScanInv, BehindCursor, ScanType, ListEntry
<1> QED
  BY <1>1, <1>2, <1>3, <1>4, <1>5 DEF ScanInv, ScanType, HistoryIsCurrent,
     SnapshotIsEvidence, Evident, Descending

\* The entry that process_info_add puts at the head is evident and the newest.
LEMMA ReadCmdlineKeepsScanInv ==
  ASSUME ScanInv, ReadCmdline
  PROVE  ScanInv'
<1> DEFINE a == IF Program = Gone THEN <<>> ELSE Program.args
           e == [pid |-> entry.pid, user |-> entry.user, exe |-> entry.exe,
                 name |-> entry.name, args |-> a]
<1> USE DEF ReadCmdline, machineVars, ruleVars
<1>1. /\ UNCHANGED <<system, cursor, steady, seen>>
      /\ pc = "cmdline" /\ pc' = "readdir" /\ list' = <<e>> \o list
  OBVIOUS
<1>2. /\ entry \in Partial /\ entry.pid = cursor /\ entry.user \in Owners
      /\ cursor \in Pids /\ cursor \in Nat
      /\ entry.exe = NoPath \/ \E g \in seen[cursor] : entry.exe = g.exe
      /\ \E g \in seen[cursor] : entry.name = g.name
      /\ a = <<>> \/ \E g \in seen[cursor] : a = g.args
      /\ a \in ArgLists
  BY <1>1, ProgramIsSeen DEF ScanInv, EntryIsEvident, ScanType, ArgLists
<1>3. \A k \in DOMAIN list : list[k] \in ListEntry /\ list[k].pid \in Nat
  <2>1. \A k \in DOMAIN list : list[k] \in ListEntry
    BY DEF ScanInv, ScanType
  <2> QED BY <2>1, PidsAssumption DEF ListEntry
<1>4. e \in ListEntry
  <2>1. entry.name \in Names
    BY <1>2 DEF ScanInv, ScanType, Names
  <2> HIDE DEF a
  <2> QED BY <1>2, <2>1 DEF ListEntry, Partial
<1>5. Evident(e)
  BY <1>2 DEF Evident
<1>6. e.pid = cursor
  BY <1>2
<1> HIDE DEF e
<1>7. list \in Seq(ListEntry)
  BY DEF ScanInv, ScanType
<1>8. /\ list' \in Seq(ListEntry)
      /\ DOMAIN list' = 1..(Len(list) + 1)
      /\ list'[1] = e
      /\ \A k \in DOMAIN list' : k # 1 => k - 1 \in DOMAIN list /\ list'[k] = list[k - 1]
      /\ \A k \in DOMAIN list : list'[k + 1] = list[k]
  BY <1>1, <1>4, <1>7, AddedAtHead
<1>9. DOMAIN list = 1..Len(list) /\ Len(list) \in Nat
  BY <1>7
<1>10. ScanType' /\ HistoryIsCurrent' /\ EntryIsEvident'
  BY <1>1, <1>8 DEF ScanInv, ScanType, Reads, HistoryIsCurrent, EntryIsEvident
<1>11. SnapshotIsEvidence'
  <2>1. \A k \in DOMAIN list' : Evident(list'[k])
    BY <1>5, <1>8 DEF ScanInv, SnapshotIsEvidence
  <2> QED BY <1>1, <2>1 DEF SnapshotIsEvidence, Evident
<1>12. \A k \in DOMAIN list : list[k].pid < cursor
  BY <1>1 DEF ScanInv, BehindCursor
<1>13. BehindCursor'
  BY <1>1, <1>2, <1>3, <1>6, <1>8, <1>12 DEF BehindCursor
<1>14. Descending'
  <2> SUFFICES ASSUME NEW j \in DOMAIN list', NEW k \in DOMAIN list', j < k
               PROVE  list'[j].pid > list'[k].pid
    BY DEF Descending
  <2>1. k # 1 /\ k - 1 \in DOMAIN list /\ list'[k] = list[k - 1]
    BY <1>8, <1>9
  <2>2. CASE j = 1
    BY <1>2, <1>3, <1>6, <1>8, <1>12, <2>1, <2>2
  <2>3. CASE j # 1
    <3>1. j - 1 \in DOMAIN list /\ list'[j] = list[j - 1] /\ j - 1 < k - 1
      BY <1>8, <1>9, <2>3
    <3> QED BY <2>1, <3>1 DEF ScanInv, Descending
  <2> QED BY <2>2, <2>3
<1>15. NoneIsMissing'
  <2> SUFFICES ASSUME NEW p \in steady, p <= cursor
               PROVE  \E k \in DOMAIN list' : list'[k].pid = p
    BY <1>1 DEF NoneIsMissing, Listed
  <2>1. CASE p = cursor
    BY <1>6, <1>8, <1>9, <2>1
  <2>2. CASE p # cursor
    <3>1. PICK k \in DOMAIN list : list[k].pid = p
      BY <1>1, <2>2 DEF ScanInv, NoneIsMissing, Listed
    <3>2. k + 1 \in DOMAIN list'
      BY <1>8, <1>9
    <3>3. list'[k + 1] = list[k]
      BY <1>8
    <3> QED BY <3>1, <3>2, <3>3
  <2> QED BY <2>1, <2>2
<1> QED
  BY <1>10, <1>11, <1>13, <1>14, <1>15 DEF ScanInv

-----------------------------------------------------------------------------
\* The three exec callbacks load the list or leave it.
LEMMA ExecuteKeepsScanInv ==
  ASSUME ScanInv, Execute
  PROVE  ScanInv'
<1>1. CASE list = <<>> /\ Opendir /\ UNCHANGED <<system, changes>>
  BY <1>1, OpendirKeepsScanInv DEF Execute, listVars
<1>2. CASE UNCHANGED <<machineVars, scanVars>>
  BY <1>2, RuleStepKeepsScanInv DEF Execute, machineVars, scanVars, listVars
<1> QED BY <1>1, <1>2 DEF Execute

\* Every step of the module keeps the invariant.
LEMMA StepKeepsScanInv == ScanInv /\ [ProcessNext]_procVars => ScanInv'
<1> SUFFICES ASSUME ScanInv, [ProcessNext]_procVars PROVE ScanInv'
  OBVIOUS
<1>1. CASE Machine
  BY <1>1, ChangeKeepsScanInv DEF Machine, Fork, Exec, Exit
<1>2. CASE Load
  BY <1>2, ReaddirKeepsScanInv, ReaddirEndKeepsScanInv, ReadOwnerKeepsScanInv,
     ReadExeKeepsScanInv, ReadStatKeepsScanInv, ReadCmdlineKeepsScanInv DEF Load
<1>3. CASE Callbacks
  <2>1. CASE Execute
    BY <2>1, ExecuteKeepsScanInv
  <2>2. CASE ~Execute
    <3>1. UNCHANGED <<system, list, pc, cursor, entry, steady, seen>>
      BY <1>3, <2>2 DEF Callbacks, Constructor, ExecuteUnnamed, WalkFreed,
         ProcessExecute, ProcessdirExecute, CmdlineExtractExecute, ExprRunning,
         ExprUser, Destructor, Executes, machineVars, listVars, scanVars
    <3> QED BY <3>1, RuleStepKeepsScanInv
  <2> QED BY <2>1, <2>2
<1>4. CASE LrcProcessRelease
  BY <1>4, RuleStepKeepsScanInv DEF LrcProcessRelease, machineVars, scanVars
<1>5. CASE UNCHANGED procVars
  BY <1>5, RuleStepKeepsScanInv DEF procVars
<1> QED BY <1>1, <1>2, <1>3, <1>4, <1>5 DEF ProcessNext

\* The invariant holds of the module, whoever calls it.
THEOREM ScanInvariance == ProcessSpec => []ScanInv
  BY InitEstablishesScanInv, StepKeepsScanInv, PTL DEF ProcessSpec

-----------------------------------------------------------------------------
(* The answers.  What "not running" and the directories say rests on the   *)
(* paths of the entries: that of a process that was there throughout is one *)
(* it ran, and not the path of none.                                       *)

SteadyPaths ==
  /\ \A k \in DOMAIN list : list[k].pid \in steady =>
       \E g \in seen[list[k].pid] : list[k].exe = g.exe
  /\ pc \in {"stat", "cmdline"} /\ cursor \in steady =>
       \E g \in seen[cursor] : entry.exe = g.exe

\* An object is none, or has all the fields of an object.
ObjectType ==
  \/ obj = NoObject
  \/ /\ obj = [kind |-> obj.kind, procname |-> obj.procname,
               procpath |-> obj.procpath, excludepath |-> obj.excludepath,
               argkey |-> obj.argkey, argindex |-> obj.argindex,
               psinfo |-> obj.psinfo, state |-> obj.state]
     /\ obj.state \in {"args", "exec", "ready", "done", "failed"}

\* The list is read while an object executes, an object that is ready has what
\* it selects of the list, and there are answers of such objects only.
ObjectInv ==
  /\ ObjectType
  /\ pc # "idle" => obj.state = "exec"
  /\ obj.state = "ready" => obj.psinfo = FillSpecProcess
  /\ answer # Null => obj.state \in {"ready", "done"}

Answers == RunningMeansRan /\ NotRunningMeansAbsent /\ DirsAreOfPrograms

AnswerInv == ScanInv /\ SteadyPaths /\ ObjectInv /\ Answers

\* What the recursion that stands for the loop of processdir_execute collects.
LEMMA PathsAreCollected ==
  ASSUME list \in Seq(ListEntry), NEW o
  PROVE  /\ PathArr(o) \in Seq(Exes)
         /\ \A j \in DOMAIN PathArr(o) :
              \E k \in DOMAIN list : /\ NameAndPath(list[k], o)
                                     /\ list[k].exe # NoPath
                                     /\ PathArr(o)[j] = list[k].exe
<1> DEFINE N == Len(list)
           V == Seq(Exes)
           step == [n \in 1..N |-> [arr \in V |-> Collect(o, arr, list[n])]]
           Body(f) == [k \in 0..N |-> IF k = 0 THEN <<>>
                                      ELSE Collect(o, f[k - 1], list[k])]
           upto == CHOOSE f : f = Body(f)
           Told(arr) ==
             /\ arr \in V
             /\ \A j \in DOMAIN arr :
                  \E k \in DOMAIN list : /\ NameAndPath(list[k], o)
                                         /\ list[k].exe # NoPath
                                         /\ arr[j] = list[k].exe
<1>1. N \in Nat /\ DOMAIN list = 1..N /\ <<>> \in V
  OBVIOUS
<1>2. \A k \in 1..N : list[k] \in ListEntry
  OBVIOUS
<1>3. \A k \in 1..N : list[k].exe \in Exes
  BY <1>2 DEF ListEntry
<1>4. ASSUME NEW arr \in V, NEW n \in 1..N
      PROVE  Collect(o, arr, list[n]) \in V
  <2>1. list[n].exe \in Exes
    BY <1>3
  <2> QED BY <2>1 DEF Collect
<1>5. \E f : f = Body(f)
  <2>1. step \in [1..N -> [V -> V]]
    BY <1>4
  <2>2. \A n \in 1..N, arr \in V : step[n][arr] = Collect(o, arr, list[n])
    OBVIOUS
  <2> HIDE DEF step, V, N
  <2> DEFINE none == <<>>
  <2>3. PICK f \in [0..N -> V] : /\ f[0] = <<>>
                                 /\ \A n \in 1..N : f[n] = step[n][f[n - 1]]
    <3>1. N \in Nat /\ none \in V
      BY ONLY <1>1
    <3> HIDE DEF none
    <3>2. \E f \in [0..N -> V] : Stepwise(f, N, none, step)
      BY ONLY <2>1, <3>1, StepwiseFunction
    <3> QED BY ONLY <3>2 DEF none, Stepwise
  <2>4. ASSUME NEW k \in 0..N
        PROVE  f[k] = IF k = 0 THEN <<>> ELSE Collect(o, f[k - 1], list[k])
    <3>1. CASE k = 0
      BY ONLY <2>3, <3>1
    <3>2. CASE k # 0
      <4>1. k \in 1..N /\ k - 1 \in 0..N
        BY <1>1, <3>2
      <4>2. f[k - 1] \in V
        BY ONLY <2>3, <4>1
      <4>3. f[k] = step[k][f[k - 1]]
        BY ONLY <2>3, <4>1
      <4> QED BY ONLY <2>2, <3>2, <4>1, <4>2, <4>3
    <3> QED BY ONLY <3>1, <3>2
  <2>5. f = Body(f)
    BY ONLY <2>3, <2>4
  <2> QED BY ONLY <2>5
<1>6. upto = Body(upto)
  <2> HIDE DEF Body
  <2> QED BY ONLY <1>5
<1>7. PathArr(o) = upto[N]
  BY DEF PathArr
<1>8. Told(upto[0])
  <2>1. upto[0] = Body(upto)[0]
    BY ONLY <1>6
  <2>2. upto[0] = <<>>
    BY ONLY <1>1, <2>1
  <2> HIDE DEF upto
  <2> QED BY <1>1, <2>2
<1>9. ASSUME NEW n \in Nat, n + 1 <= N, Told(upto[n])
      PROVE  Told(upto[n + 1])
  <2>1. upto[n + 1] = Body(upto)[n + 1]
    BY ONLY <1>6
  <2> HIDE DEF upto
  <2>2. n + 1 \in 1..N /\ n + 1 \in 0..N /\ n + 1 # 0 /\ (n + 1) - 1 = n
    BY <1>9
  <2>3. upto[n + 1] = Collect(o, upto[n], list[n + 1])
    BY ONLY <2>1, <2>2
  <2>4. CASE upto[n + 1] = upto[n]
    BY <1>9, <2>4
  <2>5. CASE upto[n + 1] # upto[n]
    <3>1. /\ upto[n + 1] = Append(upto[n], list[n + 1].exe)
          /\ NameAndPath(list[n + 1], o) /\ list[n + 1].exe # NoPath
      BY <2>3, <2>5 DEF Collect
    <3>2. upto[n] \in V /\ list[n + 1].exe \in Exes
      BY <1>3, <1>9, <2>2
    <3>3. /\ upto[n + 1] \in V
          /\ \A j \in DOMAIN upto[n + 1] :
               \/ upto[n + 1][j] = list[n + 1].exe
               \/ j \in DOMAIN upto[n] /\ upto[n + 1][j] = upto[n][j]
      BY ONLY <3>1, <3>2
    <3> QED BY <1>1, <1>9, <2>2, <3>1, <3>3
  <2> QED BY <2>4, <2>5
<1>10. Told(upto[N])
  <2> HIDE DEF Told, upto, N
  <2> DEFINE T == {m \in Nat : m <= N => Told(upto[m])}
  <2>1. T \in SUBSET Nat /\ 0 \in T
    BY <1>8
  <2>2. ASSUME NEW m \in T PROVE m + 1 \in T
    BY <1>1, <1>9
  <2>3. T = Nat
    <3> HIDE DEF T
    <3> QED BY <2>1, <2>2, SetInduction
  <2>4. N \in T /\ N <= N
    BY <1>1, <2>3
  <2> QED BY <2>4
<1> HIDE DEF upto
<1> QED BY <1>7, <1>10

\* A path is read of the process as it is, and one that was there throughout
\* is there to be read.
LEMMA StepKeepsSteadyPaths ==
  ASSUME ScanInv, SteadyPaths, [ProcessNext]_procVars
  PROVE  SteadyPaths'
<1> USE DEF SteadyPaths
<1>1. \A k \in DOMAIN list : list[k].pid \in Pids
  <2>1. \A k \in DOMAIN list : list[k] \in ListEntry
    BY DEF ScanInv, ScanType
  <2> QED BY <2>1 DEF ListEntry
<1>2. CASE Machine
  <2>1. PICK p \in Pids, g \in Programs \cup {Gone} : Change(p, g)
    BY <1>2 DEF Machine, Fork, Exec, Exit
  <2>2. /\ UNCHANGED <<list, pc, cursor, entry>>
        /\ steady' \subseteq steady
        /\ \A q \in Pids : seen[q] \subseteq seen'[q]
    BY <2>1 DEF Change, ScanInv, ScanType, listVars, scanVars
  <2>3. pc \in {"stat", "cmdline"} => cursor \in Pids
    BY ProgramIsSeen
  <2> QED BY <1>1, <2>2, <2>3
<1>3. CASE ReadExe
  BY <1>3, ProgramIsSeen DEF ReadExe, machineVars, listVars, ScanInv, EntryIsEvident, Partial
<1>4. CASE ReadStat
  BY <1>4, ProgramIsSeen DEF ReadStat, machineVars, listVars, Partial
<1>5. CASE ReadCmdline
  <2> DEFINE e == [pid |-> entry.pid, user |-> entry.user, exe |-> entry.exe,
                   name |-> entry.name,
                   args |-> IF Program = Gone THEN <<>> ELSE Program.args]
  <2>1. /\ UNCHANGED <<steady, seen>> /\ pc = "cmdline" /\ pc' = "readdir"
        /\ list' = <<e>> \o list
    BY <1>5 DEF ReadCmdline, machineVars
  <2>2. e.pid = cursor /\ e.exe = entry.exe
    BY <2>1, ProgramIsSeen
  <2> HIDE DEF e
  <2>3. \A k \in DOMAIN list' :
          list'[k] = e \/ \E j \in DOMAIN list : list'[k] = list[j]
    <3>1. list \in Seq(ListEntry)
      BY DEF ScanInv, ScanType
    <3> QED BY ONLY <2>1, <3>1
  <2> QED BY <2>1, <2>2, <2>3
<1>6. CASE \E p \in Pids : Readdir(p)
  BY <1>6 DEF Readdir, machineVars, listVars
<1>7. CASE ReaddirEnd \/ ReadOwner
  BY <1>7 DEF ReaddirEnd, ReadOwner, machineVars, listVars
<1>8. CASE Execute
  <2>1. CASE list = <<>> /\ Opendir
    BY <1>8, <2>1 DEF Execute, Opendir, listVars
  <2>2. CASE UNCHANGED <<machineVars, scanVars>>
    BY <1>8, <2>2 DEF Execute, listVars, machineVars, scanVars
  <2> QED BY <1>8, <2>1, <2>2 DEF Execute
<1>9. CASE UNCHANGED <<list, pc, cursor, entry, steady, seen>>
  BY <1>9
<1> QED
  <2>1. CASE Callbacks /\ ~Execute
    BY <1>9, <2>1 DEF Callbacks, Constructor, ExecuteUnnamed, WalkFreed,
       ProcessExecute, ProcessdirExecute, CmdlineExtractExecute, ExprRunning,
       ExprUser, Destructor, Executes, machineVars, listVars, scanVars
  <2>2. CASE LrcProcessRelease
    BY <1>9, <2>2 DEF LrcProcessRelease, machineVars, scanVars
  <2>3. CASE UNCHANGED procVars
    BY <1>9, <2>3 DEF procVars
  <2> QED
    BY <1>2, <1>3, <1>4, <1>5, <1>6, <1>7, <1>8, <2>1, <2>2, <2>3 DEF ProcessNext, Load

\* What an object selects depends on its arguments and the list only.
LEMMA SelectedByArguments ==
  ASSUME NEW e, NEW o, NEW q,
         o.procname = q.procname, o.procpath = q.procpath,
         o.excludepath = q.excludepath
  PROVE  Selected(e, o) <=> Selected(e, q)
  BY DEF Selected, NameAndPath

\* One object at a time: the read is over before it is answered, and what it
\* was answered is forgotten with it.
LEMMA StepKeepsObjectInv ==
  ASSUME ObjectInv, [ProcessNext]_procVars
  PROVE  ObjectInv'
<1> USE DEF ObjectInv, NoObject
<1>1. CASE UNCHANGED <<list, pc, obj, answer>>
  BY <1>1 DEF ObjectType, FillSpecProcess, Selected, NameAndPath
<1>2. CASE Machine
  BY <1>1, <1>2 DEF Machine, Fork, Exec, Exit, Change, listVars, scanVars, ruleVars
<1>3. CASE Load
  <2>1. pc # "idle" /\ obj' = obj /\ answer' = answer
    BY <1>3 DEF Load, Readdir, ReaddirEnd, ReadOwner, ReadExe, ReadStat,
       ReadCmdline, ruleVars
  <2> QED BY <2>1 DEF ObjectType
<1>4. CASE \E r \in Requests : Constructor(r)
  BY <1>4 DEF Constructor, ObjectType, scanVars
<1>5. CASE Execute
  <2>1. obj' = [obj EXCEPT !.state = "exec"] /\ answer' = answer /\ obj.state = "args"
    BY <1>5 DEF Execute
  <2>2. obj'.state = "exec" /\ ObjectType'
    BY <2>1 DEF ObjectType
  <2> QED BY <2>1, <2>2
<1>6. CASE ExecuteUnnamed
  <2>1. /\ obj' = [obj EXCEPT !.state = "failed"] /\ answer' = answer
        /\ obj.state = "exec" /\ pc' = "idle"
    BY <1>6 DEF ExecuteUnnamed, Executes, scanVars
  <2>2. obj'.state = "failed" /\ ObjectType'
    BY <2>1 DEF ObjectType
  <2> QED BY <2>1, <2>2
<1>7. CASE ProcessExecute
  <2>1. CASE UNCHANGED obj
    BY <1>1, <1>7, <2>1 DEF ProcessExecute, Executes, Stop, listVars, scanVars
  <2>2. CASE obj' # obj
    <3>1. /\ obj' = [obj EXCEPT !.psinfo = FillSpecProcess, !.state = "ready"]
          /\ answer' = answer /\ obj.state = "exec"
          /\ UNCHANGED <<list, pc>> /\ pc = "idle"
      BY <1>7, <2>2 DEF ProcessExecute, Executes, Stop, listVars, scanVars
    <3>2. DOMAIN obj = {"kind", "procname", "procpath", "excludepath", "argkey",
                        "argindex", "psinfo", "state"}
      BY <3>1 DEF ObjectType
    <3> DEFINE F == FillSpecProcess
    <3> HIDE DEF F
    <3>3. /\ obj'.state = "ready" /\ obj'.psinfo = F
          /\ obj'.procname = obj.procname /\ obj'.procpath = obj.procpath
          /\ obj'.excludepath = obj.excludepath
      <4>1. obj' = [obj EXCEPT !.psinfo = F, !.state = "ready"]
        BY <3>1 DEF F
      <4> QED BY ONLY <3>2, <4>1
    <3>4. ObjectType'
      <4>1. obj' = [obj EXCEPT !.psinfo = F, !.state = "ready"]
        BY <3>1 DEF F
      <4>2. obj' = [kind |-> obj'.kind, procname |-> obj'.procname,
                    procpath |-> obj'.procpath, excludepath |-> obj'.excludepath,
                    argkey |-> obj'.argkey, argindex |-> obj'.argindex,
                    psinfo |-> obj'.psinfo, state |-> obj'.state]
        BY ONLY <3>2, <4>1
      <4> QED BY <3>3, <4>2 DEF ObjectType
    <3>5. FillSpecProcess' = F
      <4>1. \A k \in DOMAIN list : Selected(list[k], obj') <=> Selected(list[k], obj)
        BY <3>3, SelectedByArguments
      <4> QED BY <3>1, <4>1 DEF FillSpecProcess, F
    <3> QED BY <3>1, <3>3, <3>4, <3>5
  <2> QED BY <2>1, <2>2
<1>8. CASE ProcessdirExecute
  <2>1. /\ obj' = [obj EXCEPT !.state = "done"]
        /\ obj.state = "exec" /\ pc' = "idle"
    BY <1>8 DEF ProcessdirExecute, Executes, scanVars
  <2>2. obj'.state = "done" /\ ObjectType'
    BY <2>1 DEF ObjectType
  <2> QED BY <2>1, <2>2
<1>9. CASE CmdlineExtractExecute
  <2>1. /\ obj.state = "exec" /\ pc = "idle" /\ pc' = "idle" /\ list' = list
        /\ \/ UNCHANGED <<obj, answer>>
           \/ obj' = [obj EXCEPT !.state = "failed"] /\ answer' = answer
           \/ obj' = [obj EXCEPT !.state = "done"]
    BY <1>9 DEF CmdlineExtractExecute, Executes, Stop, listVars, scanVars
  <2>2. CASE UNCHANGED <<obj, answer>>
    BY <1>1, <2>1, <2>2
  <2>3. CASE obj' = [obj EXCEPT !.state = "failed"] /\ answer' = answer
    <3>1. obj'.state = "failed" /\ ObjectType'
      BY <2>1, <2>3 DEF ObjectType
    <3> QED BY <2>1, <2>3, <3>1
  <2>4. CASE obj' = [obj EXCEPT !.state = "done"]
    <3>1. obj'.state = "done" /\ ObjectType'
      BY <2>1, <2>4 DEF ObjectType
    <3> QED BY <2>1, <3>1
  <2> QED BY <2>1, <2>2, <2>3, <2>4
<1>10. CASE ExprRunning \/ \E u \in Users, isInt \in BOOLEAN : ExprUser(u, isInt)
  <2>1. UNCHANGED <<list, pc, obj>> /\ obj.state = "ready"
    BY <1>10 DEF ExprRunning, ExprUser, listVars, scanVars
  <2>2. FillSpecProcess' = FillSpecProcess
    BY <2>1 DEF FillSpecProcess, Selected, NameAndPath
  <2> QED BY <2>1, <2>2 DEF ObjectType
<1>11. CASE Destructor
  BY <1>11 DEF Destructor, ObjectType, scanVars
<1>12. CASE WalkFreed \/ LrcProcessRelease \/ UNCHANGED procVars
  BY <1>1, <1>12 DEF WalkFreed, Executes, LrcProcessRelease, listVars, scanVars, procVars
<1> QED
  BY <1>2, <1>3, <1>4, <1>5, <1>6, <1>7, <1>8, <1>9, <1>10, <1>11, <1>12
     DEF ProcessNext, Callbacks

\* A path begins with itself.
LEMMA PathBeginsWithItself ==
  ASSUME NEW exe \in Seq(STRING)
  PROVE  IsPrefix(exe, exe)
<1>1. Len(exe) \in Nat
  OBVIOUS
<1> QED BY <1>1 DEF IsPrefix

\* One of the paths asked for is matched by itself, among others.
LEMMA AskedPathMatches ==
  ASSUME NEW paths, NEW g \in Programs, g.exe # NoPath, g.exe \in Range(paths)
  PROVE  PathMatches(paths, g.exe)
<1>1. PICK k \in DOMAIN paths : g.exe = paths[k]
  BY DEF Range
<1>2. IsPrefix(g.exe, g.exe)
  BY PathsAssumption, PathBeginsWithItself
<1> QED BY <1>1, <1>2 DEF PathMatches

\* "Running" is true of what the object has of the list, when the object has
\* what it selects of it.
LEMMA RunningIsEvident ==
  ASSUME ScanInv, obj.psinfo = FillSpecProcess, obj.psinfo # {}
  PROVE  \E p \in Pids : \E g, h \in seen[p] :
           /\ obj.procname # Null => g.name = obj.procname
           /\ obj.procpath # Null =>
                /\ h.exe # NoPath
                /\ \/ h.exe \in Range(obj.procpath)
                   \/ \E k \in DOMAIN obj.procpath :
                        IsStrictPrefix(h.exe, obj.procpath[k])
                /\ obj.excludepath # Null => h.exe \notin Range(obj.excludepath)
<1>1. PICK k \in DOMAIN list : Selected(list[k], obj)
  BY DEF FillSpecProcess
<1>2. list[k] \in ListEntry /\ Evident(list[k])
  BY DEF ScanInv, ScanType, SnapshotIsEvidence
<1>3. list[k].pid \in Pids
  BY <1>2 DEF ListEntry
<1>4. PICK g \in seen[list[k].pid] : list[k].name = g.name
  BY <1>2 DEF Evident
<1>5. obj.procname # Null => g.name = obj.procname
  BY <1>1, <1>4 DEF Selected, NameAndPath
<1>6. CASE obj.procpath = Null
  BY <1>3, <1>4, <1>5, <1>6
<1>7. CASE obj.procpath # Null
  <2>1. list[k].exe # NoPath /\ PathMatches(obj.procpath, list[k].exe)
    BY <1>1, <1>7 DEF Selected, NameAndPath
  <2>2. PICK h \in seen[list[k].pid] : list[k].exe = h.exe
    BY <1>2, <2>1 DEF Evident
  <2>3. h \in Programs
    BY <1>3, <2>2 DEF ScanInv, ScanType
  <2>4. \/ h.exe \in Range(obj.procpath)
        \/ \E i \in DOMAIN obj.procpath : IsStrictPrefix(h.exe, obj.procpath[i])
    BY <2>1, <2>2 DEF PathMatches, IsStrictPrefix, Range
  <2>5. ASSUME obj.excludepath # Null
        PROVE  h.exe \notin Range(obj.excludepath)
    <3>1. ~PathMatches(obj.excludepath, h.exe)
      BY <1>1, <2>1, <2>2, <2>5 DEF Selected
    <3> QED BY <2>1, <2>2, <2>3, <3>1, AskedPathMatches
  <2> QED BY <1>3, <1>4, <1>5, <2>1, <2>2, <2>4, <2>5
<1> QED BY <1>6, <1>7

\* A process that ran one program throughout is in the list with the name and
\* the path of that program.
LEMMA SteadyProcessIsListed ==
  ASSUME ScanInv, SteadyPaths, pc = "idle",
         NEW p \in steady, NEW g \in Programs, seen[p] = {g}
  PROVE  \E k \in DOMAIN list : list[k].name = g.name /\ list[k].exe = g.exe
<1>1. PICK k \in DOMAIN list : list[k].pid = p
  BY DEF ScanInv, NoneIsMissing, Listed
<1>2. \E h \in seen[p] : list[k].name = h.name
  BY <1>1 DEF ScanInv, SnapshotIsEvidence, Evident
<1>3. \E h \in seen[p] : list[k].exe = h.exe
  BY <1>1 DEF SteadyPaths
<1> QED BY <1>2, <1>3

\* "Not running" is not said of what a process ran throughout.
LEMMA NotRunningIsAbsent ==
  ASSUME ScanInv, SteadyPaths, pc = "idle", FillSpecProcess = {},
         NEW p \in steady, NEW g \in Programs, seen[p] = {g}
  PROVE  \/ obj.procname # Null /\ g.name # obj.procname
         \/ obj.procpath # Null /\ (g.exe = NoPath \/ g.exe \notin Range(obj.procpath))
         \/ /\ obj.excludepath # Null /\ g.exe # NoPath
            /\ \E k \in DOMAIN obj.excludepath : IsPrefix(g.exe, obj.excludepath[k])
<1>1. PICK k \in DOMAIN list : list[k].name = g.name /\ list[k].exe = g.exe
  BY SteadyProcessIsListed
<1>2. ~Selected(g, obj)
  BY <1>1 DEF FillSpecProcess, Selected, NameAndPath
<1>3. CASE ~NameAndPath(g, obj)
  BY <1>3, AskedPathMatches DEF NameAndPath
<1>4. CASE obj.excludepath # Null /\ g.exe # NoPath /\ PathMatches(obj.excludepath, g.exe)
  BY <1>4 DEF PathMatches
<1> QED BY <1>2, <1>3, <1>4 DEF Selected

\* The paths that processdir_execute collects are of entries of the list.
LEMMA DirsAreEvident ==
  ASSUME ScanInv, NEW j \in DOMAIN PathArr(obj)
  PROVE  \E p \in Pids : \E g, h \in seen[p] :
           /\ obj.procname # Null => g.name = obj.procname
           /\ h.exe # NoPath /\ PathArr(obj)[j] = h.exe
           /\ obj.procpath # Null => PathMatches(obj.procpath, h.exe)
<1>1. list \in Seq(ListEntry)
  BY DEF ScanInv, ScanType
<1>2. PICK k \in DOMAIN list : /\ NameAndPath(list[k], obj)
                               /\ list[k].exe # NoPath
                               /\ PathArr(obj)[j] = list[k].exe
  BY <1>1, PathsAreCollected
<1>3. list[k] \in ListEntry /\ Evident(list[k])
  BY <1>1 DEF ScanInv, SnapshotIsEvidence
<1>4. list[k].pid \in Pids
  BY <1>3 DEF ListEntry
<1>5. PICK g \in seen[list[k].pid] : list[k].name = g.name
  BY <1>3 DEF Evident
<1>6. PICK h \in seen[list[k].pid] : list[k].exe = h.exe
  BY <1>2, <1>3 DEF Evident
<1> QED BY <1>2, <1>4, <1>5, <1>6 DEF NameAndPath

\* An answer that stands while nothing is read keeps its truth.
LEMMA StandingAnswers ==
  ASSUME Answers, UNCHANGED <<answer, seen, steady>> \/ answer' = Null
  PROVE  Answers'
  BY DEF Answers, RunningMeansRan, NotRunningMeansAbsent, DirsAreOfPrograms

\* Every new answer is true.
LEMMA StepKeepsAnswers ==
  ASSUME AnswerInv, [ProcessNext]_procVars
  PROVE  Answers'
<1> USE DEF AnswerInv
<1>1. CASE Machine
  <2>1. answer' = answer /\ (pc = "idle" => UNCHANGED <<seen, steady>>)
    BY <1>1 DEF Machine, Fork, Exec, Exit, Change, ruleVars
  <2>2. pc # "idle" => answer = Null
    BY DEF ObjectInv
  <2> QED BY <2>1, <2>2, StandingAnswers
<1>2. CASE Load
  BY <1>2, StandingAnswers DEF Load, Readdir, ReaddirEnd, ReadOwner, ReadExe,
     ReadStat, ReadCmdline, ruleVars, machineVars
<1>3. CASE Execute
  <2>1. answer' = answer /\ answer = Null
    BY <1>3 DEF Execute, ObjectInv
  <2> QED BY <2>1, StandingAnswers
<1>4. CASE ExprRunning
  <2>1. /\ obj.state = "ready" /\ obj.psinfo = FillSpecProcess
        /\ UNCHANGED <<seen, steady>> /\ pc = "idle"
        /\ answer' = [what |-> "running", val |-> (obj.psinfo # {}), by |-> obj]
    BY <1>4 DEF ExprRunning, Answer, ObjectInv, machineVars
  <2>2. answer'.what = "running" /\ answer'.by = obj /\ (answer'.val <=> obj.psinfo # {})
    BY <2>1
  <2>3. RunningMeansRan'
    BY <2>1, <2>2, RunningIsEvident DEF RunningMeansRan
  <2>4. NotRunningMeansAbsent'
    BY <2>1, <2>2, NotRunningIsAbsent DEF NotRunningMeansAbsent
  <2>5. DirsAreOfPrograms'
    BY <2>2 DEF DirsAreOfPrograms
  <2> QED BY <2>3, <2>4, <2>5 DEF Answers
<1>5. CASE \E u \in Users, isInt \in BOOLEAN : ExprUser(u, isInt)
  <2>1. answer'.what = "user"
    BY <1>5 DEF ExprUser, Answer
  <2> QED
    BY <2>1 DEF Answers, RunningMeansRan, NotRunningMeansAbsent, DirsAreOfPrograms
<1>6. CASE ProcessdirExecute
  <2> DEFINE arr == PathArr(obj)
             val == IF arr = <<>> THEN Null ELSE [k \in DOMAIN arr |-> Dir(arr[k])]
  <2>1. /\ UNCHANGED <<seen, steady>>
        /\ answer' = [what |-> "dirs", val |-> val, by |-> obj]
    BY <1>6 DEF ProcessdirExecute, Executes, Answer, machineVars
  <2>2. \A k \in DOMAIN arr :
          \E p \in Pids : \E g, h \in seen[p] :
            /\ obj.procname # Null => g.name = obj.procname
            /\ h.exe # NoPath /\ arr[k] = h.exe
            /\ obj.procpath # Null => PathMatches(obj.procpath, h.exe)
    BY DirsAreEvident
  <2> HIDE DEF arr
  <2>3. val # Null => DOMAIN val = DOMAIN arr /\ \A k \in DOMAIN arr : val[k] = Dir(arr[k])
    OBVIOUS
  <2> HIDE DEF val
  <2>4. answer'.what = "dirs" /\ answer'.by = obj /\ answer'.val = val
    BY <2>1
  <2>5. DirsAreOfPrograms'
    BY <2>1, <2>2, <2>3, <2>4 DEF DirsAreOfPrograms
  <2> QED BY <2>4, <2>5 DEF Answers, RunningMeansRan, NotRunningMeansAbsent
<1>7. CASE CmdlineExtractExecute
  <2>1. CASE answer' = answer
    BY <1>7, <2>1, StandingAnswers DEF CmdlineExtractExecute, Executes, machineVars
  <2>2. CASE answer' # answer
    <3>1. answer'.what = "values"
      BY <1>7, <2>2 DEF CmdlineExtractExecute, Stop, Answer
    <3> QED
      BY <3>1 DEF Answers, RunningMeansRan, NotRunningMeansAbsent, DirsAreOfPrograms
  <2> QED BY <2>1, <2>2
<1>8. CASE (\E r \in Requests : Constructor(r)) \/ ExecuteUnnamed \/ WalkFreed
  BY <1>8, StandingAnswers DEF Constructor, ExecuteUnnamed, WalkFreed, Executes, machineVars
<1>9. CASE ProcessExecute
  BY <1>9, StandingAnswers DEF ProcessExecute, Executes, Stop, machineVars
<1>10. CASE Destructor
  BY <1>10, StandingAnswers DEF Destructor
<1>11. CASE LrcProcessRelease \/ UNCHANGED procVars
  BY <1>11, StandingAnswers DEF LrcProcessRelease, procVars, machineVars
<1> QED
  BY <1>1, <1>2, <1>3, <1>4, <1>5, <1>6, <1>7, <1>8, <1>9, <1>10, <1>11
     DEF ProcessNext, Callbacks

\* The answers of the module are true of the machine, whoever calls it.
THEOREM AnswersAreTrue == ProcessSpec => []AnswerInv
<1>1. ProcessInit => AnswerInv
  <2> SUFFICES ASSUME ProcessInit PROVE AnswerInv
    OBVIOUS
  <2>1. ScanInv
    BY InitEstablishesScanInv
  <2>2. SteadyPaths
    BY DEF ProcessInit, SteadyPaths
  <2>3. ObjectInv /\ Answers
    BY DEF ProcessInit, ObjectInv, ObjectType, NoObject, Answers, RunningMeansRan,
       NotRunningMeansAbsent, DirsAreOfPrograms
  <2> QED BY <2>1, <2>2, <2>3 DEF AnswerInv
<1>2. AnswerInv /\ [ProcessNext]_procVars => AnswerInv'
  BY StepKeepsScanInv, StepKeepsSteadyPaths, StepKeepsObjectInv, StepKeepsAnswers
     DEF AnswerInv
<1> QED BY <1>1, <1>2, PTL DEF ProcessSpec

-----------------------------------------------------------------------------
(* The engine.                                                             *)

\* Every step of the engine is one of the module of process, or leaves it alone.
LEMMA EngineStepIsProcessStep == [Next]_vars => [ProcessNext]_procVars
<1> SUFFICES ASSUME [Next]_vars PROVE [ProcessNext]_procVars
  OBVIOUS
<1> USE DEF ProcessNext
<1>1. CASE LreInit
  BY <1>1 DEF LreInit
<1>2. CASE LreRelease
  BY <1>2 DEF LreRelease
<1>3. CASE ProcessRule
  BY <1>3 DEF ProcessRule
<1>4. CASE NetworkRule
  BY <1>4 DEF NetworkRule
<1>5. CASE Environment
  BY <1>5 DEF Environment
<1>6. CASE UNCHANGED vars
  BY <1>6 DEF vars
<1> QED BY <1>1, <1>2, <1>3, <1>4, <1>5, <1>6 DEF Next

\* The engine, with lre_init, lre_release and the other module between its
\* calls, uses lrc_process.c as the module by itself allows.
THEOREM EngineImplementsProcess == Spec => ProcessSpec
<1>1. Init => ProcessInit
  BY DEF Init
<1> QED BY <1>1, EngineStepIsProcessStep, PTL DEF Spec, ProcessSpec

\* What an entry of the process list says was true of its process while the
\* list was read (get_process_info), in every session and for every machine.
THEOREM SnapshotIsAlwaysEvidence == Spec => []SnapshotIsEvidence
<1>1. ScanInv => SnapshotIsEvidence
  BY DEF ScanInv
<1> QED BY <1>1, EngineImplementsProcess, ScanInvariance, PTL

\* A process that was there from opendir to closedir is in the list, and no
\* process is in it twice (processes_info_load).
THEOREM SnapshotIsAlwaysComplete == Spec => []SnapshotIsComplete
<1>1. ScanInv => SnapshotIsComplete
  BY DEF ScanInv, NoneIsMissing, Listed, Descending, SnapshotIsComplete
<1> QED BY <1>1, EngineImplementsProcess, ScanInvariance, PTL

\* Once it is there, the list is neither changed nor read again before the
\* program ends: lrc_process_release leaves the pointer (process_execute).
THEOREM OneSnapshotOnly == Spec => OneSnapshotPerSession
<1> DEFINE Kept == list # <<>> /\ pc = "idle" => list' = list /\ pc' = "idle"
<1>1. [ProcessNext]_procVars => [Kept]_procVars
  <2> SUFFICES ASSUME ProcessNext, list # <<>>, pc = "idle"
               PROVE  list' = list /\ pc' = "idle"
    OBVIOUS
  <2> USE DEF listVars, scanVars
  <2>1. CASE Machine
    BY <2>1 DEF Machine, Fork, Exec, Exit, Change
  <2>2. CASE Load
    BY <2>2 DEF Load, Readdir, ReaddirEnd, ReadOwner, ReadExe, ReadStat, ReadCmdline
  <2>3. CASE Callbacks
    BY <2>3 DEF Callbacks, Constructor, Execute, ExecuteUnnamed, WalkFreed,
       ProcessExecute, ProcessdirExecute, CmdlineExtractExecute, ExprRunning,
       ExprUser, Destructor, Executes
  <2>4. CASE LrcProcessRelease
    BY <2>4 DEF LrcProcessRelease
  <2> QED BY <2>1, <2>2, <2>3, <2>4 DEF ProcessNext
<1> QED
  BY <1>1, EngineImplementsProcess, PTL DEF ProcessSpec, OneSnapshotPerSession
-----------------------------------------------------------------------------
\* Freed memory outlives its session: whatever is freed, or touched after it
\* was, tells of lre_init calls before.
SomeFreed == freed = TRUE \/ \E t \in Tables : stats[t].ptr = "freed"

SessionInv ==
  /\ sessions \in Nat /\ freed \in BOOLEAN /\ up \in BOOLEAN
  /\ DOMAIN stats = Tables
  /\ up \/ SomeFreed => sessions >= 1
  /\ up /\ SomeFreed => sessions > 1
  /\ FirstSessionIsSound

\* The callbacks of the module of process touch the freed list only if it is freed.
LEMMA ProcessRuleKeepsSessionInv ==
  ASSUME SessionInv, ProcessRule
  PROVE  SessionInv'
<1> USE DEF ProcessRule, engineVars, netVars, listVars
<1>1. UNCHANGED <<freed, stats, netFault, up, sessions>> /\ up
  <2>1. CASE Load
    BY <2>1 DEF Load, Readdir, ReaddirEnd, ReadOwner, ReadExe, ReadStat, ReadCmdline
  <2>2. CASE Callbacks
    BY <2>2 DEF Callbacks, Constructor, Execute, ExecuteUnnamed, WalkFreed,
       ProcessExecute, ProcessdirExecute, CmdlineExtractExecute, ExprRunning,
       ExprUser, Destructor, Executes
  <2> QED BY <2>1, <2>2
<1>2. fault' \in {"freed_list", "double_free"} => freed
  <2>1. CASE Load
    BY <2>1 DEF Alright, Load, Readdir, ReaddirEnd, ReadOwner, ReadExe, ReadStat,
       ReadCmdline, ruleVars
  <2>2. CASE WalkFreed
    BY <2>2 DEF WalkFreed
  <2>3. CASE ProcessExecute
    BY <2>3 DEF Alright, ProcessExecute, Stop
  <2>4. CASE CmdlineExtractExecute
    BY <2>4 DEF Alright, CmdlineExtractExecute, Stop, Answer
  <2>5. CASE Callbacks /\ ~WalkFreed /\ ~ProcessExecute /\ ~CmdlineExtractExecute
    BY <2>5 DEF Alright, Callbacks, Constructor, Execute, ExecuteUnnamed,
       ProcessdirExecute, ExprRunning, ExprUser, Destructor, Answer
  <2> QED BY <2>1, <2>2, <2>3, <2>4, <2>5
<1> QED
  BY <1>1, <1>2 DEF SessionInv, SomeFreed, FirstSessionIsSound, Alright

\* Those of the module of network touch a freed array only if one is freed.
LEMMA NetworkRuleKeepsSessionInv ==
  ASSUME SessionInv, NetworkRule
  PROVE  SessionInv'
<1> USE DEF NetworkRule, engineVars, procVars, kernelVars
<1>1. UNCHANGED <<freed, fault, up, sessions>> /\ up
  OBVIOUS
<1>2. DOMAIN stats' = Tables
  <2>1. CASE UNCHANGED stats
    BY <2>1 DEF SessionInv, SomeFreed, Tables
  <2>2. CASE \E t \in Tables : ReadRows(t)
    BY <2>2 DEF ReadRows, SessionInv, SomeFreed
  <2> QED
    BY <2>1, <2>2 DEF NetworkLoad, CountRows, OpenFails, NetworkCallbacks,
       NetworkConstructor, NetworkExecute, ExprListen, NetworkDestructor, loadVars
<1>3. SomeFreed' => SomeFreed
  <2>1. CASE UNCHANGED stats
    BY <1>1, <2>1 DEF SomeFreed
  <2>2. CASE \E t \in Tables : ReadRows(t)
    BY <1>1, <2>2 DEF ReadRows, SessionInv, SomeFreed
  <2> QED
    BY <2>1, <2>2 DEF NetworkLoad, CountRows, OpenFails, NetworkCallbacks,
       NetworkConstructor, NetworkExecute, ExprListen, NetworkDestructor, loadVars
<1>4. netFault' # "none" => SomeFreed
  <2>1. CASE ExprListen
    BY <2>1 DEF ExprListen, SomeFreed, Alright, Tables
  <2>2. CASE ~ExprListen
    BY <2>2 DEF Alright, NetworkLoad, CountRows, OpenFails, ReadRows,
       NetworkCallbacks, NetworkConstructor, NetworkExecute, NetworkDestructor
  <2> QED BY <2>1, <2>2
<1> QED
  BY <1>1, <1>2, <1>3, <1>4 DEF SessionInv, FirstSessionIsSound, Alright

\* Memory that was freed is touched in no first session: only a second lre_init
\* makes the pointers that lrc_process_release and lrc_network_release leave
\* behind reachable.
THEOREM FirstSessionIsAlwaysSound == Spec => []FirstSessionIsSound
<1>1. Init => SessionInv
  <2> SUFFICES ASSUME Init PROVE SessionInv
    OBVIOUS
  <2>1. freed = FALSE /\ fault = "none" /\ up = FALSE /\ sessions = 0
    BY DEF Init, ProcessInit
  <2>2. DOMAIN stats = Tables /\ netFault = "none"
    BY DEF Init, NetworkInit
  <2>3. \A t \in Tables : stats[t].ptr = "null"
    BY DEF Init, NetworkInit
  <2> QED BY <2>1, <2>2, <2>3 DEF SessionInv, SomeFreed, FirstSessionIsSound
<1>2. SessionInv /\ [Next]_vars => SessionInv'
  <2> SUFFICES ASSUME SessionInv, [Next]_vars PROVE SessionInv'
    OBVIOUS
  <2>1. CASE LreInit
    BY <2>1 DEF LreInit, SessionInv, SomeFreed, FirstSessionIsSound, procVars,
       netVars, Alright
  <2>2. CASE LreRelease
    <3>1. sessions' = sessions /\ up' = FALSE /\ up /\ sessions >= 1
      BY <2>2 DEF LreRelease, SessionInv
    <3>2. freed' \in BOOLEAN /\ DOMAIN stats' = Tables
      BY <2>2 DEF LreRelease, LrcProcessRelease, LrcNetworkRelease, SessionInv
    <3>3. fault' \in {"freed_list", "double_free"} => SomeFreed
      BY <2>2 DEF LreRelease, LrcProcessRelease, Alright, SomeFreed, SessionInv
    <3>4. netFault' # "none" => SomeFreed
      BY <2>2 DEF LreRelease, LrcNetworkRelease, Alright, SomeFreed
    <3> QED
      BY <3>1, <3>2, <3>3, <3>4 DEF SessionInv, FirstSessionIsSound
  <2>3. CASE ProcessRule
    BY <2>3, ProcessRuleKeepsSessionInv
  <2>4. CASE NetworkRule
    BY <2>4, NetworkRuleKeepsSessionInv
  <2>5. CASE Environment
    <3>1. UNCHANGED <<freed, fault, stats, netFault, up, sessions>>
      BY <2>5 DEF Environment, Machine, Fork, Exec, Exit, Change, Kernel,
         OpenSocket, CloseSocket, SocketChange, engineVars, procVars, netVars,
         listVars, ruleVars, loadVars
    <3> QED BY <3>1 DEF SessionInv, SomeFreed, FirstSessionIsSound
  <2>6. CASE UNCHANGED vars
    BY <2>6 DEF vars, procVars, netVars, engineVars, SessionInv, SomeFreed,
       FirstSessionIsSound
  <2> QED BY <2>1, <2>2, <2>3, <2>4, <2>5, <2>6 DEF Next
<1>3. SessionInv => FirstSessionIsSound
  BY DEF SessionInv
<1> QED BY <1>1, <1>2, <1>3, PTL DEF Spec

\* "Running" is said only of a name that a process had, and only when that
\* process ran one of the paths asked for and not an excluded one, while the list
\* was read; except that a path with which one asked for begins is taken for it
\* (expr_running_handler).
THEOREM RunningAlwaysMeansRan == Spec => []RunningMeansRan
<1>1. AnswerInv => RunningMeansRan
  BY DEF AnswerInv, Answers
<1> QED BY <1>1, EngineImplementsProcess, AnswersAreTrue, PTL

\* "Not running" is said only when no process had the name and ran one of the
\* paths asked for, each as a whole, throughout the read of the list, unless it
\* is excluded (expr_running_handler).
THEOREM NotRunningAlwaysMeansAbsent == Spec => []NotRunningMeansAbsent
<1>1. AnswerInv => NotRunningMeansAbsent
  BY DEF AnswerInv, Answers
<1> QED BY <1>1, EngineImplementsProcess, AnswersAreTrue, PTL

\* The directories of processdir are those of programs that processes of the
\* name it was given ran while the list was read, if it was given paths those
\* with whose path one of them begins (processdir_execute).
THEOREM DirsAreAlwaysOfPrograms == Spec => []DirsAreOfPrograms
<1>1. AnswerInv => DirsAreOfPrograms
  BY DEF AnswerInv, Answers
<1> QED BY <1>1, EngineImplementsProcess, AnswersAreTrue, PTL

-----------------------------------------------------------------------------
(* The module of network.  The second pass over a table has room for one   *)
(* row more than the first has counted, the line of titles, so that one    *)
(* socket that comes between the passes pushes none out.                   *)

\* Every step of the engine is one of the module of network, or leaves it alone.
LEMMA EngineStepIsNetworkStep == [Next]_vars => [NetworkNext]_netVars
<1> SUFFICES ASSUME [Next]_vars PROVE [NetworkNext]_netVars
  OBVIOUS
<1> USE DEF NetworkNext
<1>1. CASE LreInit
  BY <1>1 DEF LreInit
<1>2. CASE LreRelease
  BY <1>2 DEF LreRelease
<1>3. CASE ProcessRule
  BY <1>3 DEF ProcessRule
<1>4. CASE NetworkRule
  BY <1>4 DEF NetworkRule
<1>5. CASE Environment
  BY <1>5 DEF Environment
<1>6. CASE UNCHANGED vars
  BY <1>6 DEF vars
<1> QED BY <1>1, <1>2, <1>3, <1>4, <1>5, <1>6 DEF Next

\* The engine uses lrc_network.c as the module by itself allows.
THEOREM EngineImplementsNetwork == Spec => NetworkSpec
<1>1. Init => NetworkInit
  BY DEF Init
<1> QED BY <1>1, EngineStepIsNetworkStep, PTL DEF Spec, NetworkSpec

NetworkType ==
  /\ sockets \in [Tables -> Seq(Row)]
  /\ stats \in [Tables -> [ptr : {"null", "live", "freed"}, rows : Seq(Row)]]
  /\ lasting \in [Tables -> SUBSET Row]
  /\ opened \in [Tables -> Nat]
  /\ entries \in Nat
  /\ netPc \in {"idle", "tcp_count", "tcp_read", "udp_count", "udp_read"}
  /\ \/ netObj = NoNetObj
     \/ /\ netObj = [protocol |-> netObj.protocol, port |-> netObj.port,
                     state |-> netObj.state]
        /\ netObj.state \in {"args", "ready"}

\* Rows that last are there, and the array has room for what was counted.
LastingIsThere ==
  /\ netPc # "idle" => \A t \in Tables : lasting[t] \subseteq Range(sockets[t])
  /\ netPc = "tcp_read" => Len(sockets["tcp"]) <= entries - 1 + opened["tcp"]

\* The array of tcp is of this load or of none: lrc_network_release has freed
\* that of the load before.
Kept(t) == opened[t] > 1 \/ lasting[t] \subseteq Range(stats[t].rows)
ArrayIsOfThisLoad ==
  /\ stats["tcp"].ptr = "live" => netPc \notin {"tcp_count", "tcp_read"} /\ Kept("tcp")
  /\ netPc = "idle" /\ ~netInit /\ netFault = "none" => stats["tcp"].ptr # "live"

\* The tables are read before the object that needs them is answered.
NetworkObjectInv ==
  /\ netPc # "idle" => netObj.state = "ready"
  /\ netAnswer # NetNull => netObj.state = "ready" /\ netPc = "idle"

NetworkInv ==
  /\ NetworkType /\ LastingIsThere /\ ArrayIsOfThisLoad /\ NetworkObjectInv
  /\ NotListeningMeansAbsent

\* Joining two sequences adds their lengths.
LEMMA Joined == ASSUME NEW S, NEW a \in Seq(S), NEW b \in Seq(S)
  PROVE  a \o b \in Seq(S) /\ Len(a \o b) = Len(a) + Len(b)
  OBVIOUS

\* A row that is put into a table makes it longer by one.
LEMMA RowInserted ==
  ASSUME NEW S, NEW s \in Seq(S), NEW k \in 1..(Len(s) + 1), NEW row \in S
  PROVE  InsertAt(s, k, row) \in Seq(S) /\ Len(InsertAt(s, k, row)) = Len(s) + 1
<1> DEFINE a == SubSeq(s, 1, k - 1)
           b == SubSeq(s, k, Len(s))
<1>1. Len(s) \in Nat
  OBVIOUS
<1>2. a \in Seq(S) /\ Len(a) = k - 1
  BY <1>1
<1>3. b \in Seq(S) /\ Len(b) = Len(s) + 1 - k
  BY <1>1
<1>4. InsertAt(s, k, row) = a \o <<row>> \o b
  BY DEF InsertAt
<1> HIDE DEF a, b
<1>5. a \o <<row>> \in Seq(S) /\ Len(a \o <<row>>) = k
  BY <1>2
<1>6. Len(a \o <<row>> \o b) = k + (Len(s) + 1 - k)
  BY <1>3, <1>5
<1> QED BY <1>1, <1>3, <1>4, <1>5, <1>6

\* A row that is taken out makes it shorter by one.
LEMMA RowRemoved ==
  ASSUME NEW S, NEW s \in Seq(S), NEW k \in DOMAIN s
  PROVE  RemoveAt(s, k) \in Seq(S) /\ Len(RemoveAt(s, k)) = Len(s) - 1
<1> DEFINE a == SubSeq(s, 1, k - 1)
           b == SubSeq(s, k + 1, Len(s))
<1>1. k \in 1..Len(s) /\ Len(s) \in Nat
  OBVIOUS
<1>2. a \in Seq(S) /\ Len(a) = k - 1
  BY <1>1
<1>3. b \in Seq(S) /\ Len(b) = Len(s) - k
  BY <1>1
<1>4. RemoveAt(s, k) = a \o b
  BY DEF RemoveAt
<1> HIDE DEF a, b
<1>5. Len(a \o b) = (k - 1) + (Len(s) - k)
  BY <1>2, <1>3, Joined
<1> QED BY <1>1, <1>2, <1>3, <1>4, <1>5, Joined

\* The sockets of the machine only come and go by one.
LEMMA KernelKeepsNetworkInv ==
  ASSUME NetworkInv, Kernel
  PROVE  NetworkInv'
<1> USE DEF NetworkInv
<1>1. PICK t \in Tables, table \in Seq(Row) :
        SocketChange(t, table) /\ Len(table) <= Len(sockets[t]) + 1
  <2>1. ASSUME NEW t \in Tables, CloseSocket(t)
        PROVE  \E table \in Seq(Row) :
                 SocketChange(t, table) /\ Len(table) <= Len(sockets[t]) + 1
    <3>1. PICK k \in DOMAIN sockets[t] : SocketChange(t, RemoveAt(sockets[t], k))
      BY <2>1 DEF CloseSocket
    <3>2. sockets[t] \in Seq(Row)
      BY DEF NetworkType
    <3>3. /\ RemoveAt(sockets[t], k) \in Seq(Row)
          /\ Len(RemoveAt(sockets[t], k)) = Len(sockets[t]) - 1
      BY <3>2, RowRemoved
    <3>4. Len(sockets[t]) \in Nat
      BY <3>2
    <3> QED BY <3>1, <3>3, <3>4
  <2>2. ASSUME NEW t \in Tables, NEW row \in Row, OpenSocket(t, row)
        PROVE  \E table \in Seq(Row) :
                 SocketChange(t, table) /\ Len(table) <= Len(sockets[t]) + 1
    <3>1. PICK k \in 1..(Len(sockets[t]) + 1) :
            SocketChange(t, InsertAt(sockets[t], k, row))
      BY <2>2 DEF OpenSocket
    <3>2. sockets[t] \in Seq(Row)
      BY DEF NetworkType
    <3>3. /\ InsertAt(sockets[t], k, row) \in Seq(Row)
          /\ Len(InsertAt(sockets[t], k, row)) = Len(sockets[t]) + 1
      BY <3>2, RowInserted
    <3>4. Len(sockets[t]) \in Nat
      BY <3>2
    <3> QED BY <3>1, <3>3, <3>4
  <2> QED BY <2>1, <2>2 DEF Kernel
<1>2. /\ sockets' = [sockets EXCEPT ![t] = table]
      /\ UNCHANGED <<stats, netInit, netPc, entries, netObj, netAnswer, netFault>>
  BY <1>1 DEF SocketChange, loadVars
<1>3. Len(table) \in Nat /\ Len(sockets[t]) \in Nat
  BY DEF NetworkType
<1>4. CASE netPc = "idle"
  <2>1. UNCHANGED <<lasting, opened>>
    BY <1>1, <1>4 DEF SocketChange
  <2> QED
    BY <1>2, <1>4, <2>1 DEF NetworkType, LastingIsThere, ArrayIsOfThisLoad, Kept,
       NetworkObjectInv, NotListeningMeansAbsent
<1>5. CASE netPc # "idle"
  <2>1. /\ lasting' = [lasting EXCEPT ![t] = @ \cap Range(table)]
        /\ opened' = [opened EXCEPT ![t] = IF Len(table) > Len(sockets[t])
                                           THEN @ + 1 ELSE @]
    BY <1>1, <1>5 DEF SocketChange
  <2>2. /\ lasting'[t] \subseteq Range(sockets'[t])
        /\ \A u \in Tables : lasting'[u] \subseteq lasting[u]
        /\ \A u \in Tables : opened'[u] \in Nat /\ opened'[u] >= opened[u]
        /\ Len(table) <= Len(sockets[t]) + (opened'[t] - opened[t])
    BY <1>1, <1>2, <1>3, <2>1 DEF NetworkType
  <2>3. NetworkType'
    BY <1>2, <2>1 DEF NetworkType
  <2>4. LastingIsThere'
    <3>1. \A u \in Tables : lasting'[u] \subseteq Range(sockets'[u])
      BY <1>2, <1>5, <2>1, <2>2 DEF NetworkType, LastingIsThere
    <3>2. netPc = "tcp_read" => Len(sockets'["tcp"]) <= entries - 1 + opened'["tcp"]
      <4>1. CASE t = "tcp"
        <5>1. sockets'["tcp"] = table
          BY <1>2, <4>1 DEF NetworkType
        <5>2. opened["tcp"] \in Nat /\ opened'["tcp"] \in Nat /\ entries \in Nat
          BY <2>2 DEF NetworkType, Tables
        <5> QED BY <1>3, <2>2, <4>1, <5>1, <5>2 DEF LastingIsThere
      <4>2. CASE t # "tcp"
        BY <1>2, <2>1, <4>2 DEF NetworkType, LastingIsThere
      <4> QED BY <4>1, <4>2
    <3> QED BY <1>2, <3>1, <3>2 DEF LastingIsThere
  <2>5. ArrayIsOfThisLoad'
    <3>1. Kept("tcp") => Kept("tcp")'
      <4>1. opened["tcp"] \in Nat /\ opened'["tcp"] \in Nat
        BY <2>2 DEF NetworkType, Tables
      <4>2. opened'["tcp"] >= opened["tcp"] /\ lasting'["tcp"] \subseteq lasting["tcp"]
        BY <2>2 DEF Tables
      <4> QED BY <1>2, <4>1, <4>2 DEF Kept
    <3> QED BY <1>2, <1>5, <3>1 DEF ArrayIsOfThisLoad
  <2>6. netAnswer = NetNull
    BY <1>5 DEF NetworkObjectInv
  <2> QED
    BY <1>2, <2>3, <2>4, <2>5, <2>6 DEF NetworkObjectInv, NotListeningMeansAbsent
<1> QED BY <1>4, <1>5

\* The passes of the load.
LEMMA LoadKeepsNetworkInv ==
  ASSUME NetworkInv, NetworkLoad
  PROVE  NetworkInv'
<1> USE DEF NetworkInv, PassOf, kernelVars
<1>1. PICK t \in Tables : CountRows(t) \/ OpenFails(t) \/ ReadRows(t)
  BY DEF NetworkLoad
<1>2. netPc # "idle" /\ UNCHANGED <<kernelVars, netObj, netAnswer, netFault>>
  BY <1>1 DEF CountRows, OpenFails, ReadRows, Tables
<1>3. netFault = "none"
  BY DEF NetworkLoad, NetRunning
<1>4. netObj.state = "ready" /\ netAnswer = NetNull
  BY <1>2 DEF NetworkObjectInv
<1>5. NetworkObjectInv' /\ NotListeningMeansAbsent'
  BY <1>2, <1>4 DEF NetworkObjectInv, NotListeningMeansAbsent
<1>6. Len(sockets[t]) \in Nat /\ sockets[t] \in Seq(Row)
  BY DEF NetworkType
<1>7. opened["tcp"] \in Nat /\ entries \in Nat
  BY DEF NetworkType, Tables
<1>8. CASE CountRows(t)
  <2>1. /\ entries' = Len(sockets[t]) + 1 /\ UNCHANGED <<stats, netInit>>
        /\ \/ t = "tcp" /\ netPc = "tcp_count" /\ netPc' = "tcp_read"
           \/ t = "udp" /\ netPc = "udp_count" /\ netPc' = "udp_read"
    BY <1>8 DEF CountRows, Tables
  <2>2. NetworkType'
    BY <1>2, <1>6, <2>1 DEF NetworkType
  <2>3. LastingIsThere'
    BY <1>2, <1>6, <1>7, <2>1 DEF LastingIsThere
  <2>4. ArrayIsOfThisLoad'
    BY <1>2, <2>1 DEF ArrayIsOfThisLoad, Kept
  <2> QED BY <1>5, <2>2, <2>3, <2>4
<1>9. CASE OpenFails(t)
  <2>1. /\ UNCHANGED <<stats, entries>>
        /\ \/ t = "tcp" /\ netPc = "tcp_count" /\ netPc' = "udp_count"
           \/ t = "udp" /\ netPc = "udp_count" /\ netPc' = "idle"
    BY <1>9 DEF OpenFails, Loaded, Tables
  <2>2. t = "udp" => netInit'
    BY <1>9, Zenon DEF OpenFails, Loaded
  <2>3. NetworkType' /\ LastingIsThere'
    BY <1>2, <2>1 DEF NetworkType, LastingIsThere
  <2>4. ArrayIsOfThisLoad'
    BY <1>2, <2>1, <2>2 DEF ArrayIsOfThisLoad, Kept
  <2> QED BY <1>5, <2>3, <2>4
<1>10. CASE ReadRows(t)
  <2> DEFINE n == IF Len(sockets[t]) < entries THEN Len(sockets[t]) ELSE entries
             read == SubSeq(sockets[t], 1, n)
  <2>1. /\ stats' = [stats EXCEPT ![t] = [ptr |-> "live", rows |-> read]]
        /\ entries' = entries
        /\ \/ t = "tcp" /\ netPc = "tcp_read" /\ netPc' = "udp_count"
           \/ t = "udp" /\ netPc = "udp_read" /\ netPc' = "idle"
    BY <1>10 DEF ReadRows, Loaded, Tables
  <2>2. t = "udp" => netInit'
    BY <1>10, Zenon DEF ReadRows, Loaded
  <2>3. Len(sockets[t]) <= entries => read = sockets[t]
    BY <1>6, <1>7
  <2>4. read \in Seq(Row)
    BY <1>6, <1>7
  <2> HIDE DEF read
  <2>5. NetworkType' /\ LastingIsThere'
    BY <1>2, <2>1, <2>4 DEF NetworkType, LastingIsThere
  <2>6. CASE t = "tcp"
    <3>1. stats'["tcp"].rows = read
      BY <2>1, <2>6 DEF NetworkType
    <3>2. opened["tcp"] > 1 \/ lasting["tcp"] \subseteq Range(read)
      <4>1. opened["tcp"] > 1 \/ Len(sockets["tcp"]) <= entries
        BY <1>6, <1>7, <2>1, <2>6 DEF LastingIsThere
      <4> QED BY <1>2, <2>3, <2>6, <4>1 DEF LastingIsThere, Tables
    <3>3. Kept("tcp")'
      BY <1>2, <3>1, <3>2 DEF Kept
    <3> QED BY <1>5, <2>1, <2>5, <2>6, <3>3 DEF ArrayIsOfThisLoad
  <2>7. CASE t # "tcp"
    <3>1. stats'["tcp"] = stats["tcp"]
      BY <2>1, <2>7 DEF NetworkType
    <3>2. ArrayIsOfThisLoad'
      BY <1>2, <2>1, <2>2, <2>7, <3>1 DEF ArrayIsOfThisLoad, Kept
    <3> QED BY <1>5, <2>5, <3>2
  <2> QED BY <2>6, <2>7
<1> QED BY <1>1, <1>8, <1>9, <1>10

\* A row that lasted while the tables were read is found by the handler.
LEMMA NotListeningIsAbsent ==
  ASSUME NetworkInv, netPc = "idle", netObj.protocol = "tcp",
         stats["tcp"].ptr = "live",
         ~\E k \in DOMAIN stats["tcp"].rows : Listens(stats["tcp"].rows[k], netObj)
  PROVE  \/ [port |-> netObj.port, state |-> LISTEN] \notin lasting["tcp"]
         \/ opened["tcp"] > 1
<1> DEFINE row == [port |-> netObj.port, state |-> LISTEN]
<1>1. Kept("tcp")
  BY DEF NetworkInv, ArrayIsOfThisLoad
<1>2. ASSUME row \in Range(stats["tcp"].rows) PROVE FALSE
  <2>1. PICK k \in DOMAIN stats["tcp"].rows : stats["tcp"].rows[k] = row
    BY <1>2 DEF Range
  <2>2. row.port = netObj.port /\ row.state = LISTEN
    OBVIOUS
  <2> HIDE DEF row
  <2>3. Listens(stats["tcp"].rows[k], netObj)
    BY <2>1, <2>2 DEF Listens
  <2> QED BY <2>3
<1> HIDE DEF row
<1>3. row \notin lasting["tcp"] \/ opened["tcp"] > 1
  BY <1>1, <1>2 DEF Kept
<1> QED BY <1>3 DEF row

\* The callbacks.
LEMMA NetworkCallbackKeepsNetworkInv ==
  ASSUME NetworkInv, NetworkCallbacks
  PROVE  NetworkInv'
<1> USE DEF NetworkInv, NoNetObj
<1>1. CASE \E r \in NetRequests : NetworkConstructor(r)
  <2>1. UNCHANGED <<sockets, stats, netInit, netPc, entries, lasting, opened,
                    netAnswer, netFault>> /\ netObj = NoNetObj
    BY <1>1 DEF NetworkConstructor, kernelVars, loadVars
  <2>2. NetworkType'
    BY <1>1, <2>1 DEF NetworkConstructor, NetworkType
  <2>3. netPc = "idle" /\ netAnswer = NetNull
    BY <2>1 DEF NetworkObjectInv
  <2> QED
    BY <2>1, <2>2, <2>3 DEF LastingIsThere, ArrayIsOfThisLoad, Kept, NetworkObjectInv,
       NotListeningMeansAbsent
<1>2. CASE NetworkExecute
  <2>1. /\ UNCHANGED <<sockets, stats, netInit, entries, netAnswer, netFault>>
        /\ netObj.state = "args" /\ netFault = "none"
        /\ netObj' = [netObj EXCEPT !.state = "ready",
                                    !.protocol = IF @ = "" THEN "tcp" ELSE @]
    BY <1>2 DEF NetworkExecute, NetRunning
  <2>2. netPc = "idle" /\ netAnswer = NetNull
    BY <2>1 DEF NetworkObjectInv
  <2>3. netObj' = [protocol |-> netObj'.protocol, port |-> netObj'.port,
                   state |-> netObj'.state] /\ netObj'.state = "ready"
    <3>1. DOMAIN netObj = {"protocol", "port", "state"}
      BY <2>1 DEF NetworkType
    <3> QED BY ONLY <2>1, <3>1
  <2>4. NetworkObjectInv' /\ NotListeningMeansAbsent'
    BY <2>1, <2>2, <2>3 DEF NetworkObjectInv, NotListeningMeansAbsent
  <2>5. CASE netInit
    <3>1. UNCHANGED <<netPc, lasting, opened>>
      BY <1>2, <2>5 DEF NetworkExecute
    <3> QED
      BY <2>1, <2>3, <2>4, <3>1 DEF NetworkType, LastingIsThere, ArrayIsOfThisLoad, Kept
  <2>6. CASE ~netInit
    <3>1. /\ netPc' = "tcp_count"
          /\ lasting' = [t \in Tables |-> Range(sockets[t])]
          /\ opened' = [t \in Tables |-> 0]
      BY <1>2, <2>6 DEF NetworkExecute
    <3>2. \A t \in Tables : Range(sockets[t]) \subseteq Row
      <4>1. \A t \in Tables : sockets[t] \in Seq(Row)
        BY DEF NetworkType
      <4> QED BY <4>1 DEF Range
    <3>3. stats["tcp"].ptr # "live"
      BY <2>1, <2>2, <2>6 DEF ArrayIsOfThisLoad
    <3> QED
      BY <2>1, <2>3, <2>4, <3>1, <3>2, <3>3 DEF NetworkType, LastingIsThere,
         ArrayIsOfThisLoad
  <2> QED BY <2>5, <2>6
<1>3. CASE ExprListen
  <2>1. UNCHANGED <<sockets, stats, netInit, netPc, entries, lasting, opened, netObj>>
        /\ netPc = "idle" /\ netObj.state = "ready" /\ netFault = "none"
    BY <1>3 DEF ExprListen, NetRunning, kernelVars, loadVars
  <2>2. NetworkType' /\ LastingIsThere' /\ ArrayIsOfThisLoad' /\ NetworkObjectInv'
    BY <2>1 DEF NetworkType, LastingIsThere, ArrayIsOfThisLoad, Kept, NetworkObjectInv
  <2>3. NotListeningMeansAbsent'
    <3>1. CASE netAnswer' = netAnswer
      BY <2>1, <3>1 DEF NotListeningMeansAbsent
    <3>2. CASE netAnswer' # netAnswer
      <4> DEFINE found == \E k \in DOMAIN stats["tcp"].rows :
                            Listens(stats["tcp"].rows[k], netObj)
                 asked == netObj.protocol \in Tables /\ ValidPort(netObj.port)
                 val   == IF asked THEN IF found THEN "yes" ELSE "no" ELSE "error"
      <4>1. netAnswer' = [by |-> netObj, val |-> val]
        BY <1>3, <3>2 DEF ExprListen
      <4>2. val = "no" => ~found
        OBVIOUS
      <4> HIDE DEF val
      <4>3. netAnswer'.by = netObj /\ netAnswer'.val = val
        BY <4>1
      <4> QED BY <2>1, <4>2, <4>3, NotListeningIsAbsent DEF NotListeningMeansAbsent
    <3> QED BY <3>1, <3>2
  <2> QED BY <2>2, <2>3
<1>4. CASE NetworkDestructor
  <2>1. UNCHANGED <<sockets, stats, netInit, netPc, entries, lasting, opened, netFault>>
        /\ netPc = "idle" /\ netObj' = NoNetObj /\ netAnswer' = NetNull
    BY <1>4 DEF NetworkDestructor, kernelVars, loadVars
  <2> QED
    BY <2>1 DEF NetworkType, LastingIsThere, ArrayIsOfThisLoad, Kept,
       NetworkObjectInv, NotListeningMeansAbsent
<1> QED BY <1>1, <1>2, <1>3, <1>4 DEF NetworkCallbacks

\* lrc_network_release frees what was loaded and forgets that it was.
LEMMA NetworkReleaseKeepsNetworkInv ==
  ASSUME NetworkInv, LrcNetworkRelease
  PROVE  NetworkInv'
<1> USE DEF NetworkInv, NoNetObj
<1>1. /\ UNCHANGED <<sockets, lasting, opened, netPc, entries, netObj, netAnswer>>
      /\ netObj = NoNetObj /\ ~netInit'
  BY DEF LrcNetworkRelease, kernelVars
<1>2. netPc = "idle" /\ netAnswer = NetNull
  BY <1>1 DEF NetworkObjectInv
<1>3. ASSUME /\ NetworkType'
             /\ stats'["tcp"].ptr = "live" => stats' = stats
             /\ netFault' = "none" => stats'["tcp"].ptr # "live"
      PROVE  NetworkInv'
  BY <1>1, <1>2, <1>3 DEF LastingIsThere, ArrayIsOfThisLoad, Kept, NetworkObjectInv,
     NotListeningMeansAbsent
<1>4. CASE ~netInit
  <2>1. stats' = stats /\ netFault' = netFault
    BY <1>4 DEF LrcNetworkRelease
  <2>2. netFault = "none" => stats["tcp"].ptr # "live"
    BY <1>2, <1>4 DEF ArrayIsOfThisLoad
  <2>3. NetworkType'
    BY <1>1, <2>1 DEF NetworkType
  <2> QED BY <1>3, <2>1, <2>2, <2>3
<1>5. CASE netInit /\ \E t \in Tables : stats[t].ptr = "freed"
  <2>1. stats' = stats /\ netFault' = "double_free"
    BY <1>5 DEF LrcNetworkRelease
  <2>2. NetworkType'
    BY <1>1, <2>1 DEF NetworkType
  <2> QED BY <1>3, <2>1, <2>2
<1>6. CASE netInit /\ ~\E t \in Tables : stats[t].ptr = "freed"
  <2>1. stats' = [t \in Tables |-> [stats[t] EXCEPT !.ptr =
                                      IF @ = "live" THEN "freed" ELSE @]]
    BY <1>6 DEF LrcNetworkRelease
  <2>2. stats' \in [Tables -> [ptr : {"null", "live", "freed"}, rows : Seq(Row)]]
    BY <2>1 DEF NetworkType
  <2>3. stats'["tcp"].ptr # "live"
    BY <2>1 DEF NetworkType, Tables
  <2>4. NetworkType'
    BY <1>1, <2>2 DEF NetworkType
  <2> QED BY <1>3, <2>3, <2>4
<1> QED BY <1>4, <1>5, <1>6

\* "Not listening" is said of no TCP port on which a socket listened all the
\* while the tables were read, unless two or more sockets came meanwhile, or
\* the table could not be opened (tcp_state_load, expr_listen_handler).
THEOREM NotListeningAlwaysMeansAbsent == Spec => []NotListeningMeansAbsent
<1>1. NetworkInit => NetworkInv
  <2> SUFFICES ASSUME NetworkInit PROVE NetworkInv
    OBVIOUS
  <2>1. sockets \in [Tables -> Seq(Row)]
    BY InitialSocketsAssumption DEF NetworkInit
  <2>2. NetworkType
    BY <2>1 DEF NetworkInit, NetworkType
  <2>3. stats["tcp"].ptr # "live"
    BY DEF NetworkInit, Tables
  <2> QED
    BY <2>2, <2>3 DEF NetworkInit, NetworkInv, LastingIsThere, ArrayIsOfThisLoad,
       NetworkObjectInv, NotListeningMeansAbsent
<1>2. NetworkInv /\ [NetworkNext]_netVars => NetworkInv'
  <2> SUFFICES ASSUME NetworkInv, [NetworkNext]_netVars PROVE NetworkInv'
    OBVIOUS
  <2>1. CASE UNCHANGED netVars
    BY <2>1 DEF netVars, NetworkInv, NetworkType, LastingIsThere, ArrayIsOfThisLoad,
       Kept, NetworkObjectInv, NotListeningMeansAbsent
  <2> QED
    BY <2>1, KernelKeepsNetworkInv, LoadKeepsNetworkInv, NetworkCallbackKeepsNetworkInv,
       NetworkReleaseKeepsNetworkInv DEF NetworkNext
<1>3. NetworkInv => NotListeningMeansAbsent
  BY DEF NetworkInv
<1> QED BY <1>1, <1>2, <1>3, EngineImplementsNetwork, PTL DEF NetworkSpec
=============================================================================

------------------------------ MODULE Process ------------------------------
(***************************************************************************)
(* The module of process, processdir and cmdline_extract                   *)
(* (lrc/lrc_process.c).  The first object that executes reads /proc into   *)
(* the global processlist, one process at a time and each in four reads,   *)
(* while processes start, end and exec; every later object of the session  *)
(* is answered from that list.                                             *)
(*                                                                         *)
(* A path is the sequence of its pieces, "/" among them, cut where the     *)
(* paths of an instance differ; a multi-path is the sequence of what lies  *)
(* between the semicolons.  One object lives at a time: a call nested in   *)
(* the arguments of a function is over before the function executes.       *)
(***************************************************************************)
EXTENDS Integers, FiniteSets, SequencesExt

CONSTANTS
  Pids,         \* the process ids
  Programs,     \* what a process may run: [name, exe, user, args]
  Null,         \* no value, an argument that was not given
  Gone,         \* system[p] when there is no process p
  NoPath,       \* the executable of a kernel thread, or one that is hidden
  Users,        \* what getpwuid makes of a uid
  Requests,     \* rules of the host: the kind of object and its arguments
  CountMax,     \* PROCESS_COUNT_MAX
  MaxChanges    \* bound: processes that start, end or exec

ASSUME PidsAssumption     == Pids \subseteq Nat \ {0}
ASSUME GoneIsNoProgram    == Gone \notin Programs
ASSUME PathsAssumption    ==
  \A g \in Programs : g.exe = NoPath \/ g.exe \in Seq(STRING)
ASSUME RequestsAssumption ==
  \A r \in Requests : r = [kind |-> r.kind, procname |-> r.procname,
    procpath |-> r.procpath, excludepath |-> r.excludepath,
    argkey |-> r.argkey, argindex |-> r.argindex]
ASSUME CountMaxAssumption == CountMax \in Nat /\ MaxChanges \in Nat

VARIABLES
  system,   \* the processes of the machine, by pid (external)
  changes,  \* how often that changed
  list,     \* processlist, empty when NULL
  freed,    \* what processlist points to was freed
  pc,       \* the next read of processes_info_load, "idle" outside of it
  cursor,   \* the pid readdir delivered last
  entry,    \* the process_info that get_process_info is filling
  steady,   \* processes that have been there since opendir
  seen,     \* seen[p]: the programs that p ran since opendir
  obj,      \* the object of the rule in progress
  answer,   \* what its last callback returned
  fault     \* what stopped the program, "none" while it runs

procVars == <<system, changes, list, freed, pc, cursor, entry, steady, seen,
              obj, answer, fault>>
listVars == <<list, freed>>
scanVars == <<pc, cursor, entry>>
machineVars == <<system, changes, steady, seen>>
ruleVars == <<obj, answer, fault>>

NoObject == [state |-> "none"]

Alive == {p \in Pids : system[p] # Gone}
Reads == {"readdir", "owner", "exe", "stat", "cmdline"}

ProcessInit ==
  /\ system \in [Pids -> Programs \cup {Gone}]
  /\ changes = 0
  /\ list = <<>> /\ freed = FALSE
  /\ pc = "idle" /\ cursor = 0 /\ entry = Null
  /\ steady = {} /\ seen = [p \in Pids |-> {}]
  /\ obj = NoObject /\ answer = Null /\ fault = "none"

-----------------------------------------------------------------------------
(* The machine.  steady and seen are history: no code reads them, except   *)
(* that readdir delivers what they allow.                                  *)

Change(p, g) ==
  /\ changes < MaxChanges
  /\ changes' = changes + 1
  /\ system' = [system EXCEPT ![p] = g]
  /\ IF pc = "idle"
     THEN UNCHANGED <<steady, seen>>
     ELSE /\ steady' = IF g = Gone THEN steady \ {p} ELSE steady
          /\ seen' = [seen EXCEPT ![p] = @ \cup ({g} \ {Gone})]
  /\ UNCHANGED <<listVars, scanVars, ruleVars>>

Fork(p, g) == system[p] = Gone /\ Change(p, g)
Exec(p, g) == system[p] \notin {Gone, g} /\ Change(p, g)
Exit(p)    == system[p] # Gone /\ Change(p, Gone)

-----------------------------------------------------------------------------
(* processes_info_load.                                                    *)

Opendir ==
  /\ pc' = "readdir" /\ cursor' = 0 /\ entry' = Null
  /\ steady' = Alive
  /\ seen' = [p \in Pids |-> {system[p]} \ {Gone}]

\* readdir delivers pids in ascending order.  It may deliver a process that
\* came or went since opendir; it delivers every one that was there throughout.
Readdir(p) ==
  /\ pc = "readdir"
  /\ p > cursor /\ seen[p] # {}
  /\ \A q \in steady : q <= cursor \/ q >= p
  /\ pc' = "owner" /\ cursor' = p
  /\ entry' = [pid |-> p, user |-> Null, exe |-> NoPath, name |-> Null]
  /\ UNCHANGED <<machineVars, listVars, ruleVars>>

\* closedir.
ReaddirEnd ==
  /\ pc = "readdir"
  /\ \A q \in steady : q <= cursor
  /\ pc' = "idle" /\ entry' = Null
  /\ UNCHANGED <<cursor, machineVars, listVars, ruleVars>>

Program == system[entry.pid]

\* stat of /proc/<pid>.  Its result is not looked at: when the process is gone
\* the uid is whatever was on the stack.
ReadOwner ==
  /\ pc = "owner"
  /\ pc' = "exe"
  /\ \E u \in IF Program = Gone THEN Users ELSE {Program.user} :
       entry' = [entry EXCEPT !.user = u]
  /\ UNCHANGED <<cursor, machineVars, listVars, ruleVars>>

\* A fault: a link that cannot be read leaves the path of the process before.
ReadExeUnchecked ==
  /\ pc = "exe"
  /\ pc' = "stat"
  /\ entry' = [entry EXCEPT !.exe =
                 IF Program # Gone /\ Program.exe # NoPath THEN Program.exe
                 ELSE IF list # <<>> THEN list[1].exe ELSE NoPath]
  /\ UNCHANGED <<cursor, machineVars, listVars, ruleVars>>

\* readlink of /proc/<pid>/exe.
ReadExe ==
  /\ pc = "exe"
  /\ pc' = "stat"
  /\ entry' = [entry EXCEPT !.exe = IF Program = Gone THEN NoPath ELSE Program.exe]
  /\ UNCHANGED <<cursor, machineVars, listVars, ruleVars>>

\* A fault: a process that cannot be opened ends the load.
ReadStatStopping ==
  /\ pc = "stat"
  /\ IF Program = Gone
     THEN pc' = "idle" /\ entry' = Null
     ELSE pc' = "cmdline" /\ entry' = [entry EXCEPT !.name = Program.name]
  /\ UNCHANGED <<cursor, machineVars, listVars, ruleVars>>

\* A fault: a process that cannot be opened is tried again.
ReadStatRetrying ==
  /\ pc = "stat"
  /\ IF Program = Gone
     THEN UNCHANGED <<pc, entry>>
     ELSE pc' = "cmdline" /\ entry' = [entry EXCEPT !.name = Program.name]
  /\ UNCHANGED <<cursor, machineVars, listVars, ruleVars>>

\* open and read of /proc/<pid>/stat, the only read whose failure drops the
\* process.
ReadStat ==
  /\ pc = "stat"
  /\ IF Program = Gone
     THEN pc' = "readdir" /\ entry' = Null
     ELSE pc' = "cmdline" /\ entry' = [entry EXCEPT !.name = Program.name]
  /\ UNCHANGED <<cursor, machineVars, listVars, ruleVars>>

\* open and read of /proc/<pid>/cmdline; process_info_add.
ReadCmdline ==
  /\ pc = "cmdline"
  /\ pc' = "readdir" /\ entry' = Null
  /\ list' = <<[pid |-> entry.pid, user |-> entry.user, exe |-> entry.exe,
                name |-> entry.name,
                args |-> IF Program = Gone THEN <<>> ELSE Program.args]>> \o list
  /\ UNCHANGED <<cursor, freed, machineVars, ruleVars>>

Load ==
  /\ fault = "none"
  /\ \/ \E p \in Pids : Readdir(p)
     \/ ReaddirEnd \/ ReadOwner \/ ReadExe \/ ReadStat \/ ReadCmdline

-----------------------------------------------------------------------------
(* Which processes an object selects.                                      *)

\* strncmp(element, binpath, strlen(binpath)), for every element of the path: an
\* element begins with the executable.  It is neither compared as a whole nor
\* taken for a directory.
PathMatches(paths, exe) == \E k \in DOMAIN paths : IsPrefix(exe, paths[k])

\* The tests that the object's name and path make on an entry of the list.
NameAndPath(e, o) ==
  /\ o.procname # Null => e.name = o.procname
  /\ o.procpath # Null => e.exe # NoPath /\ PathMatches(o.procpath, e.exe)

\* A fault: the name is not looked at when a path is given.
SelectedByEither(e, o) ==
  /\ IF o.procpath # Null
     THEN e.exe # NoPath /\ PathMatches(o.procpath, e.exe)
     ELSE e.name = o.procname
  /\ o.excludepath # Null =>
       e.exe = NoPath \/ ~PathMatches(o.excludepath, e.exe)

\* The body of the loop of fill_spec_process.
Selected(e, o) ==
  /\ NameAndPath(e, o)
  /\ o.excludepath # Null =>
       e.exe = NoPath \/ ~PathMatches(o.excludepath, e.exe)

\* path2dir.
Dir(path) ==
  LET slashes == {k \in DOMAIN path : path[k] = "/"}
      last    == CHOOSE k \in slashes : \A j \in slashes : j <= k
  IN  IF slashes = {} THEN path
      ELSE IF last = 1 THEN <<"/">> ELSE SubSeq(path, 1, last - 1)

\* A fault: the paths of all processes.
CollectAll(o, arr, e) ==
  IF e.exe # NoPath /\ e.exe \notin Range(arr) /\ Len(arr) < CountMax
  THEN Append(arr, e.exe) ELSE arr

\* The body of the loop of processdir_execute: each path once, CountMax at most.
Collect(o, arr, e) ==
  IF /\ NameAndPath(e, o) /\ e.exe # NoPath
     /\ e.exe \notin Range(arr) /\ Len(arr) < CountMax
  THEN Append(arr, e.exe) ELSE arr

\* The paths that it has collected at the end of the list.
PathArr(o) ==
  LET upto[k \in 0..Len(list)] ==
        IF k = 0 THEN <<>> ELSE Collect(o, upto[k - 1], list[k])
  IN  upto[Len(list)]

\* What cmdline_extract_execute takes from a process: a value, nothing (Null),
\* or a read outside the command line ("outside").
Extracted(e, o) ==
  LET key   == o.argkey
      found == {j \in DOMAIN e.args : IsPrefix(key.text, e.args[j])}
      first == CHOOSE j \in found : \A i \in found : j <= i
      skip  == Len(key.text) + key.spaces
  IN  IF o.argindex # 0 /\ o.argindex < Len(e.args)
      THEN IF o.argindex > 0 THEN e.args[o.argindex + 1] ELSE "outside"
      ELSE IF found = {} THEN Null
      ELSE IF key.spaces > 0 /\ first < Len(e.args) THEN e.args[first + 1]
      ELSE IF skip > Len(e.args[first]) THEN "outside"
      ELSE SubSeq(e.args[first], skip + 1, Len(e.args[first]))

-----------------------------------------------------------------------------
(* The callbacks.                                                          *)

Running == fault = "none"

\* process_constructor, processdir_constructor, cmdline_extract_constructor, and
\* the argument handlers that a rule of the host calls before it executes.
Constructor(r) ==
  /\ Running /\ obj = NoObject
  /\ obj' = [kind |-> r.kind, procname |-> r.procname, procpath |-> r.procpath,
             excludepath |-> r.excludepath, argkey |-> r.argkey,
             argindex |-> r.argindex, psinfo |-> {}, state |-> "args"]
  /\ UNCHANGED <<machineVars, listVars, scanVars, answer, fault>>

\* A fault: every object reads /proc anew, on top of what is there.
ExecuteReloading ==
  /\ Running /\ obj.state = "args"
  /\ obj' = [obj EXCEPT !.state = "exec"]
  /\ Opendir /\ UNCHANGED <<system, changes>>
  /\ UNCHANGED <<listVars, answer, fault>>

\* The first lines of the three exec callbacks.  opendir may fail.
Execute ==
  /\ Running /\ obj.state = "args"
  /\ obj' = [obj EXCEPT !.state = "exec"]
  /\ \/ list = <<>> /\ Opendir /\ UNCHANGED <<system, changes>>
     \/ UNCHANGED <<machineVars, scanVars>>
  /\ UNCHANGED <<listVars, answer, fault>>

Executes(kind) ==
  /\ Running /\ pc = "idle"
  /\ obj.state = "exec" /\ obj.kind = kind
  /\ UNCHANGED <<machineVars, listVars, scanVars>>

Unnamed == obj.procname = Null /\ obj.procpath = Null

\* The three exec callbacks fail without a name and without a path ...
ExecuteUnnamed ==
  /\ \E kind \in {"process", "processdir", "cmdline_extract"} : Executes(kind)
  /\ Unnamed
  /\ obj' = [obj EXCEPT !.state = "failed"]
  /\ UNCHANGED <<answer, fault>>

\* ... and walk processlist otherwise, whatever it points to.
WalkFreed ==
  /\ \E kind \in {"process", "processdir", "cmdline_extract"} : Executes(kind)
  /\ ~Unnamed /\ freed
  /\ fault' = "freed_list"
  /\ UNCHANGED <<obj, answer>>

Stop(why) == fault' = why /\ UNCHANGED <<obj, answer>>

Answer(what, val) ==
  /\ answer' = [what |-> what, val |-> val, by |-> obj]
  /\ UNCHANGED fault

\* A fault: a process without a path ends the loop.
FillUpToPathless ==
  LET pathless == {k \in DOMAIN list : list[k].exe = NoPath}
      upto     == {k \in DOMAIN list : \A j \in pathless : k < j}
  IN  {list[k] : k \in {k \in upto : Selected(list[k], obj)}}

\* fill_spec_process: the entries, whose order is that of the list.
FillSpecProcess == {list[k] : k \in {k \in DOMAIN list : Selected(list[k], obj)}}

\* process_execute: psinfo has CountMax elements and no check.
ProcessExecute ==
  /\ Executes("process") /\ ~Unnamed /\ ~freed
  /\ IF Cardinality(FillSpecProcess) > CountMax THEN Stop("overflow")
     ELSE /\ obj' = [obj EXCEPT !.psinfo = FillSpecProcess, !.state = "ready"]
          /\ UNCHANGED <<answer, fault>>

\* expr_running_handler.
ExprRunning ==
  /\ Running /\ obj.state = "ready"
  /\ Answer("running", obj.psinfo # {})
  /\ UNCHANGED <<machineVars, listVars, scanVars, obj>>

\* expr_user_handler: a string as it is, any integer as "1", because the text
\* is made of lre_value_is_int.
ExprUser(u, isInt) ==
  /\ Running /\ obj.state = "ready"
  /\ Answer("user", \E e \in obj.psinfo :
                      e.user = IF isInt THEN "1" ELSE u)
  /\ UNCHANGED <<machineVars, listVars, scanVars, obj>>

\* processdir_execute; no value at all when it finds nothing.
ProcessdirExecute ==
  /\ Executes("processdir") /\ ~Unnamed /\ ~freed
  /\ obj' = [obj EXCEPT !.state = "done"]
  /\ LET arr == PathArr(obj)
     IN  Answer("dirs", IF arr = <<>> THEN Null
                        ELSE [k \in DOMAIN arr |-> Dir(arr[k])])

\* cmdline_extract_execute.  An empty key reads the byte before it, which may
\* be a blank; no value at all writes the byte before the result.
CmdlineExtractExecute ==
  /\ Executes("cmdline_extract") /\ ~Unnamed /\ ~freed
  /\ LET filled == SelectSeq(list, LAMBDA e : e \in FillSpecProcess)
         vals   == [k \in DOMAIN filled |-> Extracted(filled[k], obj)]
         got    == SelectSeq(vals, LAMBDA v : v # Null)
     IN  IF Cardinality(FillSpecProcess) > CountMax THEN Stop("overflow")
         ELSE IF obj.argkey = Null THEN Stop("null_key")
         ELSE \/ /\ obj.argkey.text = <<>>
                 /\ obj' = [obj EXCEPT !.state = "failed"]
                 /\ UNCHANGED <<answer, fault>>
              \/ /\ obj.argkey.text # <<>> \/ obj.argkey.spaces = 0
                 /\ IF "outside" \in Range(vals) THEN Stop("outside")
                    ELSE IF got = <<>> THEN Stop("underflow")
                    ELSE /\ obj' = [obj EXCEPT !.state = "done"]
                         /\ Answer("values", got)

\* A fault: the destructor frees the processes that the object points to.
DestructorOfAll ==
  /\ Running /\ obj.state \notin {"none", "exec"}
  /\ obj' = NoObject /\ answer' = Null
  /\ freed' = (freed \/ obj.psinfo # {})
  /\ UNCHANGED <<list, machineVars, scanVars, fault>>

\* process_destructor and the other two.
Destructor ==
  /\ Running /\ obj.state \notin {"none", "exec"}
  /\ obj' = NoObject /\ answer' = Null
  /\ UNCHANGED <<machineVars, listVars, scanVars, fault>>

\* lrc_process_release: the list is freed and processlist is left as it is.
LrcProcessRelease ==
  /\ Running /\ obj = NoObject
  /\ IF list # <<>> /\ freed
     THEN fault' = "double_free" /\ UNCHANGED freed
     ELSE freed' = (list # <<>>) /\ UNCHANGED fault
  /\ UNCHANGED <<list, machineVars, scanVars, obj, answer>>

-----------------------------------------------------------------------------
Machine ==
  \/ \E p \in Pids, g \in Programs : Fork(p, g) \/ Exec(p, g)
  \/ \E p \in Pids : Exit(p)

Callbacks ==
  \/ \E r \in Requests : Constructor(r)
  \/ Execute \/ ExecuteUnnamed \/ WalkFreed
  \/ ProcessExecute \/ ProcessdirExecute \/ CmdlineExtractExecute
  \/ ExprRunning
  \/ \E u \in Users, isInt \in BOOLEAN : ExprUser(u, isInt)
  \/ Destructor

ProcessNext == Machine \/ Load \/ Callbacks \/ LrcProcessRelease

ProcessSpec == ProcessInit /\ [][ProcessNext]_procVars

-----------------------------------------------------------------------------
(* Properties.                                                             *)

\* Every entry of the process list names a program that its process ran while
\* the list was read, and a path of one it ran, though not always of the same
\* (get_process_info).
Evident(e) ==
  /\ \E g \in seen[e.pid] : e.name = g.name
  /\ e.exe = NoPath \/ \E g \in seen[e.pid] : e.exe = g.exe
  /\ e.args = <<>> \/ \E g \in seen[e.pid] : e.args = g.args

SnapshotIsEvidence == \A k \in DOMAIN list : Evident(list[k])

\* Once the list is read, it has every process that was there all the time,
\* and no process twice (processes_info_load).
SnapshotIsComplete ==
  /\ pc = "idle" => \A p \in steady : \E k \in DOMAIN list : list[k].pid = p
  /\ \A j, k \in DOMAIN list : j < k => list[j].pid > list[k].pid

\* "Running" is said only of a name that a process had, and only when that
\* process ran one of the paths asked for and not an excluded one, while the list
\* was read.  The exception is strncmp's (fill_spec_process): a path with which
\* one asked for begins is taken for it, /bin/vi for /bin/vim.
RunningMeansRan ==
  answer # Null /\ answer.what = "running" /\ answer.val =>
    LET o == answer.by
    IN  \E p \in Pids : \E g, h \in seen[p] :
          /\ o.procname # Null => g.name = o.procname
          /\ o.procpath # Null =>
               /\ h.exe # NoPath
               /\ \/ h.exe \in Range(o.procpath)
                  \/ \E k \in DOMAIN o.procpath : IsStrictPrefix(h.exe, o.procpath[k])
               /\ o.excludepath # Null => h.exe \notin Range(o.excludepath)

\* "Not running" is said only when no process had the name and ran one of the
\* paths asked for, each as a whole, from the beginning of the read of the list
\* to its end (expr_running_handler).  A process whose path is excluded, or is
\* the beginning of an excluded one (strncmp again), may be there; and so may
\* every program in a directory that is asked for, although procpath is said to
\* "Specify process binary directory" (lrc_process.c:851).
NotRunningMeansAbsent ==
  answer # Null /\ answer.what = "running" /\ ~answer.val =>
    LET o == answer.by
    IN  \A p \in steady : \A g \in Programs :
          seen[p] = {g} =>
            \/ o.procname # Null /\ g.name # o.procname
            \/ o.procpath # Null /\ (g.exe = NoPath \/ g.exe \notin Range(o.procpath))
            \/ /\ o.excludepath # Null /\ g.exe # NoPath
               /\ \E k \in DOMAIN o.excludepath : IsPrefix(g.exe, o.excludepath[k])

\* The directories of processdir are those of programs that processes of the
\* name it was given ran while the list was read, if it was given paths those
\* with whose path one of them begins (processdir_execute).
DirsAreOfPrograms ==
  answer # Null /\ answer.what = "dirs" /\ answer.val # Null =>
    \A k \in DOMAIN answer.val :
      \E p \in Pids : \E g, h \in seen[p] :
        /\ answer.by.procname # Null => g.name = answer.by.procname
        /\ h.exe # NoPath /\ answer.val[k] = Dir(h.exe)
        /\ answer.by.procpath # Null => PathMatches(answer.by.procpath, h.exe)

\* All objects are answered from one snapshot: once the list is there it neither
\* changes nor is read again, whatever the machine does (process_execute and the
\* other two load it only when it is NULL).
OneSnapshotPerSession ==
  [][list # <<>> /\ pc = "idle" => list' = list /\ pc' = "idle"]_procVars

=============================================================================

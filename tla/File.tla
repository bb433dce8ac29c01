-------------------------------- MODULE File --------------------------------
(***************************************************************************)
(* The function file (lrc/lrc_file.c) over a file system that others       *)
(* change: one stat when it executes, and expressions on what that left.   *)
(*                                                                         *)
(* Paths are those of FuzzyPath.  No name has a semicolon, there are no    *)
(* links, and the working directory is the root.                           *)
(***************************************************************************)
EXTENDS FuzzyPath

CONSTANTS
  FileNull,      \* no object
  InitialFs,     \* file systems that a run starts with, trees of files
  Attributes,    \* what a file may become: [type, owner, rights]
  MaxFsChanges   \* bound: files made, changed or removed

ASSUME FsChangesAssumption == MaxFsChanges \in Nat

\* stat gives twelve bits of rights.
Rights == SUBSET (0..11)

\* A file is in a directory, which is in a directory, and so on to the root.
IsTree(f) ==
  /\ IsFiniteSet(DOMAIN f) /\ DOMAIN f \subseteq Seq(Seq(Characters))
  /\ \A p \in DOMAIN f : \A k \in 0..(Len(p) - 1) : IsDir(f, SubSeq(p, 1, k))

ASSUME TreesAssumption == \A f \in InitialFs : IsTree(f)
ASSUME RightsAssumption ==
  /\ \A attr \in Attributes : attr.rights \in Rights
  /\ \A f \in InitialFs : \A p \in DOMAIN f : f[p].rights \in Rights

VARIABLES
  fs,         \* every path that exists, and its attributes (external)
  fsChanges,  \* how often that changed
  moments,    \* the file systems there were during the rule in progress
  file,       \* the object of the rule
  said        \* what its expressions answered

fsVars   == <<fs, fsChanges, moments>>
fileVars == <<file, said>>

\* lre_compare and lre_compare_int.
Compare(a, b, op) ==
  CASE op = "==" -> a = b  [] op = "!=" -> a # b  [] op = "<" -> a < b
    [] op = ">" -> a > b   [] op = "<=" -> a <= b [] op = ">=" -> a >= b

FileInit ==
  /\ fs \in InitialFs /\ fsChanges = 0 /\ moments = {}
  /\ file = FileNull /\ said = {}

-----------------------------------------------------------------------------
(* The file system.                                                        *)

Become(new) ==
  /\ fsChanges < MaxFsChanges
  /\ fsChanges' = fsChanges + 1
  /\ fs' = new /\ moments' = moments \cup {new}
  /\ UNCHANGED fileVars

Make(p, attr) ==
  /\ p # <<>> /\ p \notin DOMAIN fs /\ IsDir(fs, Front(p))
  /\ Become([q \in DOMAIN fs \cup {p} |-> IF q = p THEN attr ELSE fs[q]])

Chmod(p, attr) ==
  /\ fs[p].type = attr.type /\ fs[p] # attr
  /\ Become([fs EXCEPT ![p] = attr])

Unlink(p) ==
  /\ p \in DOMAIN fs \ {<<>>}
  /\ \A q \in DOMAIN fs : IsPrefix(p, q) => q = p
  /\ Become([q \in DOMAIN fs \ {p} |-> fs[q]])

-----------------------------------------------------------------------------
(* stat.  The name of a multi-path is one name, with a semicolon in it.    *)

\* stat failed: on the way is a file that is no directory, or there is nothing.
StatError(path) ==
  IF \E k \in 1..(Len(path.names) - 1) :
       LET p == SubSeq(path.names, 1, k) IN p \in DOMAIN fs /\ fs[p].type # "dir"
  THEN "ENOTDIR" ELSE "ENOENT"

Exists(path) == path # Empty /\ path.names \in DOMAIN fs

\* A fault: of a multi-path the first path counts.
StatFirst(value) == IF Exists(Head(value)) THEN "ok" ELSE StatError(Head(value))

Stat(value) ==
  IF Len(value) = 1 /\ Exists(Head(value)) THEN "ok" ELSE StatError(Head(value))

AllBits == 0..31  \* of the number -1

\* file_constructor, arg_path_handler, file_execute.  getpwuid knows no uid -1.
FileExecute(value) ==
  /\ file = FileNull
  /\ file' = CASE Stat(value) = "ok" ->
                    LET attr == fs[Head(value).names]
                    IN  [path |-> value, exist |-> 1, owner |-> attr.owner,
                         permission |-> attr.rights]
               [] Stat(value) = "ENOENT" ->
                    [path |-> value, exist |-> 0, owner |-> "-1", permission |-> AllBits]
               [] Stat(value) = "ENOTDIR" ->
                    [path |-> value, exist |-> -1, owner |-> "-1", permission |-> AllBits]
  /\ moments' = moments \cup {fs}
  /\ UNCHANGED <<fs, fsChanges, said>>

-----------------------------------------------------------------------------
(* The expressions.                                                        *)

Say(what, op, arg, yes) ==
  /\ said' = said \cup {[what |-> what, op |-> op, arg |-> arg, yes |-> yes]}
  /\ UNCHANGED <<fsVars, file>>

ExprExist(op, n) == file # FileNull /\ Say("exist", op, n, Compare(file.exist, n, op))

\* The owner is compared as a string: the name of the user, or the number of one
\* without a name.
ExprOwner(op, u) ==
  /\ file # FileNull
  /\ Say("owner", op, u, IF op = "==" THEN file.owner = u ELSE file.owner # u)

Digit(val, i) == (val \div 10^i) % 10

\* A fault: the number is taken as it is.
Int2PermAsDecimal(val) == {b \in 0..11 : (val \div 2^b) % 2 = 1}

\* int2perm: each decimal digit is or-ed in three bits further up; 8 and 9 reach
\* into the digit before them.
Int2Perm(val) ==
  {3 * d[1] + d[2] : d \in {d \in (0..9) \X (0..3) : (Digit(val, d[1]) \div 2^d[2]) % 2 = 1}}

\* file_perm_compare: the rights are equal, reach beyond, or neither.
FilePermCompare(f, b) == IF f = b THEN 0 ELSE IF f \subseteq b THEN -1 ELSE 1

\* A fault: the file is looked at once more.
ExprPermissionAnew(op, val) ==
  /\ file # FileNull
  /\ LET rights == IF Stat(file.path) = "ok" THEN fs[Head(file.path).names].rights
                   ELSE AllBits
     IN  Say("permission", op, val, Compare(FilePermCompare(rights, Int2Perm(val)), 0, op))

ExprPermission(op, val) ==
  /\ file # FileNull
  /\ Say("permission", op, val,
         Compare(FilePermCompare(file.permission, Int2Perm(val)), 0, op))

ExprHandler(e) ==
  \/ e.what = "exist" /\ ExprExist(e.op, e.arg)
  \/ e.what = "owner" /\ ExprOwner(e.op, e.arg)
  \/ e.what = "permission" /\ ExprPermission(e.op, e.arg)

Others ==
  \/ \E p \in DOMAIN fs : Unlink(p) \/ \E attr \in Attributes : Chmod(p, attr)
  \/ \E p \in UNION {DOMAIN f : f \in InitialFs}, attr \in Attributes : Make(p, attr)

-----------------------------------------------------------------------------
(* Properties.                                                             *)

Held(what, ops) == {s \in said : s.what = what /\ s.op \in ops /\ s.yes}

\* The answers of one rule are of one moment: when it says that a file exists,
\* has this owner and has these rights, there was a time during the rule when a
\* file was all that, whoever changes it meanwhile (file_execute looks once).
AnswersOfOneMoment ==
  \A x \in Held("exist", {"=="}), u \in Held("owner", {"=="}), m \in Held("permission", {"=="}) :
    x.arg = 1 =>
      \E f \in moments :
        /\ Head(file.path).names \in DOMAIN f
        /\ LET attr == f[Head(file.path).names]
           IN  attr.owner = u.arg /\ attr.rights = Int2Perm(m.arg)

\* The value of three of the rights.
Class(rights, i) == LET has(k) == IF (3 * i + k) \in rights THEN 2^k ELSE 0
                    IN  has(0) + has(1) + has(2)

\* No digit of the number reaches into the digit before it.
Octal(val) == \A i \in 0..9 : Digit(val, i) < 8

\* permission == holds exactly when there is a file and every class of it has the
\* rights of its digit; <= and < hold of files only, never of a path where there is
\* none, and only when no class has more (expr_permission_handler).
RightsAreOfFiles ==
  \A m \in said :
    LET agree == \A i \in 0..9 : Class(file.permission, i) = Digit(m.arg, i)
        none  == \A i \in 0..9 : Class(file.permission, i) <= Digit(m.arg, i)
    IN  m.what = "permission" /\ Octal(m.arg) =>
          /\ m.op = "==" => (m.yes <=> file.exist = 1 /\ agree)
          /\ m.op \in {"<=", "<"} /\ m.yes => file.exist = 1 /\ none
=============================================================================

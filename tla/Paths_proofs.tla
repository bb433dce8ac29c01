---------------------------- MODULE Paths_proofs ----------------------------
(***************************************************************************)
(* A rule over a computed path, for every file system, all changes that    *)
(* others make to it, and all calls that compute the path.  It looks at    *)
(* its file once: what its expressions answer is of one moment, and the    *)
(* rights it compares are those that the decimal digits of its number      *)
(* spell.  A search finds what its asterisks mean, but where a name has    *)
(* the same characters twice; and a file that exists is the only one that  *)
(* its search found.                                                       *)
(***************************************************************************)
EXTENDS Paths, NatSets

\* What file_execute left: a file as it was at a moment of the rule, or none.
Looked ==
  \/ /\ file.exist = 1
     /\ \E f \in moments :
          /\ Head(file.path).names \in DOMAIN f
          /\ file.owner = f[Head(file.path).names].owner
          /\ file.permission = f[Head(file.path).names].rights
  \/ file.exist \in {0, -1} /\ file.permission = AllBits

\* What an expression answered is true of that.
Answered(s) ==
  /\ s.what = "exist" /\ s.op = "==" /\ s.yes => file.exist = s.arg
  /\ s.what = "owner" /\ s.op = "==" /\ s.yes => file.owner = s.arg
  /\ s.what = "permission" =>
       /\ s.arg \in Nat
       /\ s.yes <=> Compare(FilePermCompare(file.permission, Int2Perm(s.arg)), 0, s.op)

FsInv == \A f \in moments \cup {fs} : \A p \in DOMAIN f : f[p].rights \in Rights

FileInv ==
  /\ file = FileNull => said = {}
  /\ file # FileNull => Looked
  /\ \A s \in said : Answered(s)

PathsInv == FsInv /\ FileInv /\ rest \in Seq(Expressions)

-----------------------------------------------------------------------------
(* The file system.                                                        *)

\* Whatever others make of the file system, every file has twelve bits of rights.
LEMMA BecomeKeepsPathsInv ==
  ASSUME PathsInv, NEW new, \A p \in DOMAIN new : new[p].rights \in Rights,
         Become(new), UNCHANGED pathVars
  PROVE  PathsInv'
<1>1. /\ fs' = new /\ moments' = moments \cup {new} /\ file' = file /\ said' = said
      /\ rest' = rest
  BY DEF Become, fileVars, pathVars
<1>2. FsInv'
  BY <1>1 DEF PathsInv, FsInv
<1>3. Looked => Looked'
  BY <1>1 DEF Looked
<1>4. \A s \in said : Answered(s) => Answered(s)'
  BY <1>1 DEF Answered
<1>5. FileInv'
  BY <1>1, <1>3, <1>4 DEF PathsInv, FileInv
<1> QED BY <1>1, <1>2, <1>5 DEF PathsInv

LEMMA OthersKeepPathsInv ==
  ASSUME PathsInv, Others, UNCHANGED pathVars
  PROVE  PathsInv'
<1>1. \A p \in DOMAIN fs : fs[p].rights \in Rights
  BY DEF PathsInv, FsInv
<1>2. ASSUME NEW p \in DOMAIN fs, Unlink(p) PROVE PathsInv'
  <2> DEFINE new == [q \in DOMAIN fs \ {p} |-> fs[q]]
  <2>1. Become(new)
    BY <1>2 DEF Unlink
  <2>2. \A q \in DOMAIN new : new[q].rights \in Rights
    BY <1>1
  <2> HIDE DEF new
  <2> QED BY <2>1, <2>2, BecomeKeepsPathsInv
<1>3. ASSUME NEW p \in DOMAIN fs, NEW attr \in Attributes, Chmod(p, attr) PROVE PathsInv'
  <2> DEFINE new == [fs EXCEPT ![p] = attr]
  <2>1. Become(new)
    BY <1>3 DEF Chmod
  <2>2. \A q \in DOMAIN new : new[q].rights \in Rights
    BY <1>1, RightsAssumption
  <2> HIDE DEF new
  <2> QED BY <2>1, <2>2, BecomeKeepsPathsInv
<1>4. ASSUME NEW p, NEW attr \in Attributes, Make(p, attr) PROVE PathsInv'
  <2> DEFINE new == [q \in DOMAIN fs \cup {p} |-> IF q = p THEN attr ELSE fs[q]]
  <2>1. Become(new)
    BY <1>4 DEF Make
  <2>2. \A q \in DOMAIN new : new[q].rights \in Rights
    BY <1>1, RightsAssumption
  <2> HIDE DEF new
  <2> QED BY <2>1, <2>2, BecomeKeepsPathsInv
<1> QED BY <1>2, <1>3, <1>4 DEF Others

-----------------------------------------------------------------------------
(* The rule.                                                               *)

\* A call of the path functions is a moment of the rule like any other.
LEMMA CallKeepsPathsInv ==
  ASSUME PathsInv, NEW value, Called(value)
  PROVE  PathsInv'
<1>1. /\ fs' = fs /\ moments' = moments \cup {fs} /\ file' = file /\ said' = said
      /\ rest' = rest
  BY DEF Called, fileVars
<1>2. FsInv'
  BY <1>1 DEF PathsInv, FsInv
<1>3. Looked => Looked'
  BY <1>1 DEF Looked
<1>4. \A s \in said : Answered(s) => Answered(s)'
  BY <1>1 DEF Answered
<1>5. FileInv'
  BY <1>1, <1>3, <1>4 DEF PathsInv, FileInv
<1> QED BY <1>1, <1>2, <1>5 DEF PathsInv

LEMMA LeaveKeepsPathsInv ==
  ASSUME PathsInv, Leave
  PROVE  PathsInv'
<1>1. fs' = fs /\ moments' = {} /\ file' = FileNull /\ said' = {} /\ rest' = rest
  BY DEF Leave
<1> QED BY <1>1 DEF PathsInv, FsInv, FileInv

\* file_execute leaves what stat said of the file system as it is now.
LEMMA ExecuteLooks ==
  ASSUME NEW value, FileExecute(value)
  PROVE  Looked'
<1>1. moments' = moments \cup {fs}
  BY DEF FileExecute
<1>2. CASE Stat(value) = "ok"
  <2>1. Head(value).names \in DOMAIN fs
    BY <1>2 DEF Stat, Exists, StatError
  <2>2. file' = [path |-> value, exist |-> 1, owner |-> fs[Head(value).names].owner,
                 permission |-> fs[Head(value).names].rights]
    BY <1>2 DEF FileExecute
  <2>3. /\ file'.path = value /\ file'.exist = 1
        /\ file'.owner = fs[Head(value).names].owner
        /\ file'.permission = fs[Head(value).names].rights
    BY <2>2
  <2> QED BY <1>1, <2>1, <2>3 DEF Looked
<1>3. CASE Stat(value) # "ok"
  <2>1. Stat(value) \in {"ENOENT", "ENOTDIR"}
    BY <1>3 DEF Stat, StatError
  <2>2. \/ file' = [path |-> value, exist |-> 0, owner |-> "-1", permission |-> AllBits]
        \/ file' = [path |-> value, exist |-> -1, owner |-> "-1", permission |-> AllBits]
    BY <2>1 DEF FileExecute
  <2> QED BY <2>2 DEF Looked, AllBits
<1> QED BY <1>2, <1>3

LEMMA CallFileKeepsPathsInv ==
  ASSUME PathsInv, CallFile
  PROVE  PathsInv'
<1>1. PICK value : FileExecute(value)
  BY DEF CallFile
<1>2. fs' = fs /\ moments' = moments \cup {fs} /\ said' = said /\ file = FileNull
  BY <1>1 DEF FileExecute
<1>3. FsInv'
  BY <1>2 DEF PathsInv, FsInv
<1>4. said' = {}
  BY <1>2 DEF PathsInv, FileInv
<1>5. Looked'
  BY <1>1, ExecuteLooks
<1>6. rest' \in Seq(Expressions)
  BY RulesAssumption DEF CallFile
<1> QED BY <1>3, <1>4, <1>5, <1>6 DEF PathsInv, FileInv

\* An expression answers of what the rule has looked at.
LEMMA ExpressionKeepsPathsInv ==
  ASSUME PathsInv, Expression
  PROVE  PathsInv'
<1> DEFINE e == Head(rest)
<1>1. rest \in Seq(Expressions) /\ rest # <<>>
  BY DEF PathsInv, Expression
<1>2. e \in Expressions
  BY <1>1
<1>3. rest' \in Seq(Expressions)
  BY <1>1 DEF Expression
<1>4. ExprHandler(e)
  BY DEF Expression
<1> HIDE DEF e
<1>5. PICK yes :
        /\ file # FileNull /\ Say(e.what, e.op, e.arg, yes)
        /\ e.what = "exist" => (yes <=> Compare(file.exist, e.arg, e.op))
        /\ e.what = "owner" /\ e.op = "==" => (yes <=> file.owner = e.arg)
        /\ e.what = "permission" =>
             (yes <=> Compare(FilePermCompare(file.permission, Int2Perm(e.arg)), 0, e.op))
  <2>1. CASE e.what = "exist" /\ ExprExist(e.op, e.arg)
    BY <2>1 DEF ExprExist
  <2>2. CASE e.what = "owner" /\ ExprOwner(e.op, e.arg)
    BY <2>2 DEF ExprOwner
  <2>3. CASE e.what = "permission" /\ ExprPermission(e.op, e.arg)
    BY <2>3 DEF ExprPermission
  <2> QED BY <1>4, <2>1, <2>2, <2>3 DEF ExprHandler
<1>6. PICK t : /\ said' = said \cup {t}
               /\ t.what = e.what /\ t.op = e.op /\ t.arg = e.arg /\ t.yes = yes
  <2>1. PICK t : t = [what |-> e.what, op |-> e.op, arg |-> e.arg, yes |-> yes]
    OBVIOUS
  <2>2. t.what = e.what /\ t.op = e.op /\ t.arg = e.arg /\ t.yes = yes
    BY <2>1
  <2> QED BY <1>5, <2>1, <2>2 DEF Say
<1>7. fs' = fs /\ moments' = moments /\ file' = file
  BY <1>5 DEF Say, fsVars
<1>8. FsInv' /\ (Looked => Looked')
  BY <1>7 DEF PathsInv, FsInv, Looked
<1>9. \A s \in said : Answered(s)'
  BY <1>7 DEF PathsInv, FileInv, Answered
<1>10. Answered(t)'
  <2>1. e.what = "permission" => e.arg \in Nat
    BY <1>2, RulesAssumption
  <2>2. e.what = "exist" /\ e.op = "==" /\ yes => file.exist = e.arg
    BY <1>5 DEF Compare
  <2> QED BY <1>5, <1>6, <1>7, <2>1, <2>2 DEF Answered
<1>11. \A s \in said' : Answered(s)'
  BY <1>6, <1>9, <1>10
<1> QED BY <1>3, <1>5, <1>7, <1>8, <1>11 DEF PathsInv, FileInv

LEMMA NextKeepsPathsInv == PathsInv /\ [Next]_vars => PathsInv'
<1> SUFFICES ASSUME PathsInv, [Next]_vars PROVE PathsInv'
  OBVIOUS
<1>1. CASE CallFuzzypath \/ CallSplicepath
  BY <1>1, CallKeepsPathsInv DEF CallFuzzypath, CallSplicepath
<1>2. CASE CallSplicepathFailed \/ EndOfRule
  BY <1>2, LeaveKeepsPathsInv DEF CallSplicepathFailed, EndOfRule
<1>3. CASE Others /\ UNCHANGED pathVars
  BY <1>3, OthersKeepPathsInv
<1>4. CASE UNCHANGED vars
  BY <1>4 DEF vars, fsVars, fileVars, pathVars, PathsInv, FsInv, FileInv, Looked, Answered
<1> QED
  BY <1>1, <1>2, <1>3, <1>4, CallFileKeepsPathsInv, ExpressionKeepsPathsInv DEF Next

LEMMA PathsAreLookedUpOnce == Spec => []PathsInv
<1>1. Init => PathsInv
  BY RightsAssumption DEF Init, FileInit, PathsInv, FsInv, FileInv
<1> QED BY <1>1, NextKeepsPathsInv, PTL DEF Spec

\* What a rule says of its file was true of a file at one moment of the rule,
\* whatever others do to the file system (file_execute).
THEOREM AnswersAreOfOneMoment == Spec => []AnswersOfOneMoment
<1>1. PathsInv => AnswersOfOneMoment
  <2> SUFFICES ASSUME PathsInv,
                      NEW x \in Held("exist", {"=="}), NEW u \in Held("owner", {"=="}),
                      NEW m \in Held("permission", {"=="}), x.arg = 1
               PROVE  \E f \in moments :
                        /\ Head(file.path).names \in DOMAIN f
                        /\ f[Head(file.path).names].owner = u.arg
                        /\ f[Head(file.path).names].rights = Int2Perm(m.arg)
    BY DEF AnswersOfOneMoment
  <2>1. /\ x \in said /\ x.what = "exist" /\ x.op = "==" /\ x.yes
        /\ u \in said /\ u.what = "owner" /\ u.op = "==" /\ u.yes
        /\ m \in said /\ m.what = "permission" /\ m.op = "==" /\ m.yes
    BY DEF Held
  <2>2. Answered(x) /\ Answered(u) /\ Answered(m) /\ Looked
    BY <2>1 DEF PathsInv, FileInv
  <2>3. file.exist = 1 /\ file.owner = u.arg
    BY <2>1, <2>2 DEF Answered
  <2>4. FilePermCompare(file.permission, Int2Perm(m.arg)) = 0
    BY <2>1, <2>2 DEF Answered, Compare
  <2>5. file.permission = Int2Perm(m.arg)
    BY <2>4 DEF FilePermCompare
  <2> QED BY <2>2, <2>3, <2>5 DEF Looked
<1> QED BY <1>1, PathsAreLookedUpOnce, PTL

-----------------------------------------------------------------------------
(* int2perm.                                                               *)

LEMMA Powers ==
  /\ 2^0 = 1 /\ 2^1 = 2 /\ 2^2 = 4 /\ 2^3 = 8
  /\ \A i \in 0..9 : 10^i \in Nat \ {0}
<1>1. 2^0 = 1 /\ 2^1 = 2 /\ 2^2 = 4 /\ 2^3 = 8
  OBVIOUS
<1>2. /\ 10^0 \in Nat \ {0} /\ 10^1 \in Nat \ {0} /\ 10^2 \in Nat \ {0}
      /\ 10^3 \in Nat \ {0} /\ 10^4 \in Nat \ {0} /\ 10^5 \in Nat \ {0}
      /\ 10^6 \in Nat \ {0} /\ 10^7 \in Nat \ {0} /\ 10^8 \in Nat \ {0}
      /\ 10^9 \in Nat \ {0}
  OBVIOUS
<1>3. ASSUME NEW i \in 0..9 PROVE 10^i \in Nat \ {0}
  <2>1. i \in {0, 1, 2, 3, 4, 5, 6, 7, 8, 9}
    OBVIOUS
  <2> QED BY <1>2, <2>1, Zenon
<1> QED BY <1>1, <1>3

LEMMA DigitsAreSmall ==
  ASSUME NEW num \in Nat, NEW i \in 0..9
  PROVE  Digit(num, i) \in 0..9
<1>1. PICK p \in Nat \ {0} : p = 10^i
  BY Powers
<1>2. num \div p \in Nat
  BY <1>1
<1>3. (num \div p) % 10 \in 0..9
  BY <1>2
<1> QED BY <1>1, <1>3 DEF Digit

\* The place of a right in its class is unique.
LEMMA OnePlace ==
  ASSUME NEW i \in Nat, NEW j \in Nat, NEW k \in 0..2, NEW l \in 0..2,
         3 * i + k = 3 * j + l
  PROVE  i = j /\ k = l
  OBVIOUS

\* Of a number without 8 and 9, int2perm sets the k-th right of the i-th class
\* when the i-th digit has it, and no right of any other class.
LEMMA DigitsSpellRights ==
  ASSUME NEW num \in Nat, Octal(num)
  PROVE  /\ \A i \in 0..9, k \in 0..2 :
              3 * i + k \in Int2Perm(num) <=> (Digit(num, i) \div 2^k) % 2 = 1
         /\ \A b \in Int2Perm(num) : \E i \in 0..9, k \in 0..2 : b = 3 * i + k
<1>1. ASSUME NEW b \in Int2Perm(num)
      PROVE  \E i \in 0..9, k \in 0..2 :
               b = 3 * i + k /\ (Digit(num, i) \div 2^k) % 2 = 1
  <2>1. PICK d \in (0..9) \X (0..3) :
          b = 3 * d[1] + d[2] /\ (Digit(num, d[1]) \div 2^d[2]) % 2 = 1
    BY DEF Int2Perm
  <2>2. PICK i \in 0..9, k \in 0..3 :
          b = 3 * i + k /\ (Digit(num, i) \div 2^k) % 2 = 1
    BY <2>1
  <2>3. k # 3
    <3>1. Digit(num, i) \in 0..7
      BY DigitsAreSmall DEF Octal
    <3>2. Digit(num, i) \div 8 = 0
      BY <3>1
    <3>3. (Digit(num, i) \div 8) % 2 = 0
      BY <3>2
    <3> QED BY <2>2, <3>3, Powers
  <2>4. k \in 0..2
    BY <2>3
  <2> QED BY <2>2, <2>4
<1>2. ASSUME NEW i \in 0..9, NEW k \in 0..2, (Digit(num, i) \div 2^k) % 2 = 1
      PROVE  3 * i + k \in Int2Perm(num)
  <2>1. <<i, k>> \in (0..9) \X (0..3) /\ <<i, k>>[1] = i /\ <<i, k>>[2] = k
    OBVIOUS
  <2> QED BY <1>2, <2>1 DEF Int2Perm
<1>3. ASSUME NEW i \in 0..9, NEW k \in 0..2, 3 * i + k \in Int2Perm(num)
      PROVE  (Digit(num, i) \div 2^k) % 2 = 1
  <2>1. PICK j \in 0..9, l \in 0..2 :
          3 * i + k = 3 * j + l /\ (Digit(num, j) \div 2^l) % 2 = 1
    BY <1>1, <1>3
  <2>2. i = j /\ k = l
    BY <2>1, OnePlace
  <2> QED BY <2>1, <2>2
<1> QED BY <1>1, <1>2, <1>3

\* A digit below 8 is the sum of its bits.
LEMMA BitsOfDigit ==
  ASSUME NEW d \in 0..7
  PROVE  d = (IF (d \div 1) % 2 = 1 THEN 1 ELSE 0) + (IF (d \div 2) % 2 = 1 THEN 2 ELSE 0)
             + (IF (d \div 4) % 2 = 1 THEN 4 ELSE 0)
<1>1. d \in {0, 1, 2, 3, 4, 5, 6, 7}
  OBVIOUS
<1> QED BY <1>1

\* A class of rights, bit by bit, against a digit.
LEMMA ClassAgainstDigit ==
  ASSUME NEW rights, NEW i \in Nat, NEW d \in 0..7
  PROVE  /\ Class(rights, i) = d
              <=> \A k \in 0..2 : 3 * i + k \in rights <=> (d \div 2^k) % 2 = 1
         /\ (\A k \in 0..2 : 3 * i + k \in rights => (d \div 2^k) % 2 = 1)
              => Class(rights, i) <= d
<1> DEFINE r(k) == 3 * i + k \in rights
           b(k) == (d \div 2^k) % 2 = 1
<1>1. Class(rights, i) = (IF r(0) THEN 1 ELSE 0) + (IF r(1) THEN 2 ELSE 0)
                         + (IF r(2) THEN 4 ELSE 0)
  BY Powers DEF Class
<1>2. d = (IF b(0) THEN 1 ELSE 0) + (IF b(1) THEN 2 ELSE 0) + (IF b(2) THEN 4 ELSE 0)
  BY Powers, BitsOfDigit
<1> HIDE DEF r, b
<1>3. /\ Class(rights, i) = d <=> (\A k \in {0, 1, 2} : r(k) <=> b(k))
      /\ (\A k \in {0, 1, 2} : r(k) => b(k)) => Class(rights, i) <= d
  BY <1>1, <1>2
<1>4. 0..2 = {0, 1, 2}
  OBVIOUS
<1> QED BY <1>3, <1>4 DEF r, b

\* Two sets of rights that agree in every class are the same.
LEMMA ClassesDecide ==
  ASSUME NEW num \in Nat, Octal(num), NEW rights \in Rights
  PROVE  /\ rights = Int2Perm(num) <=> \A i \in 0..9 : Class(rights, i) = Digit(num, i)
         /\ rights \subseteq Int2Perm(num) => \A i \in 0..9 : Class(rights, i) <= Digit(num, i)
<1> DEFINE bit(i, k) == (Digit(num, i) \div 2^k) % 2 = 1
<1>1. \A i \in 0..9 : Digit(num, i) \in 0..7
  BY DigitsAreSmall DEF Octal
<1>2. /\ \A i \in 0..9, k \in 0..2 : 3 * i + k \in Int2Perm(num) <=> bit(i, k)
      /\ \A b \in Int2Perm(num) : \E i \in 0..9, k \in 0..2 : b = 3 * i + k
  BY DigitsSpellRights
<1>3. \A i \in 0..9 :
        /\ Class(rights, i) = Digit(num, i)
             <=> \A k \in 0..2 : 3 * i + k \in rights <=> bit(i, k)
        /\ (\A k \in 0..2 : 3 * i + k \in rights => bit(i, k))
             => Class(rights, i) <= Digit(num, i)
  <2> SUFFICES ASSUME NEW i \in 0..9
               PROVE  /\ Class(rights, i) = Digit(num, i)
                           <=> \A k \in 0..2 : 3 * i + k \in rights <=> bit(i, k)
                      /\ (\A k \in 0..2 : 3 * i + k \in rights => bit(i, k))
                           => Class(rights, i) <= Digit(num, i)
    OBVIOUS
  <2>1. PICK d \in 0..7 : d = Digit(num, i)
    BY <1>1
  <2>2. i \in Nat
    OBVIOUS
  <2> QED BY <2>1, <2>2, ClassAgainstDigit
<1>4. \A b \in rights : \E i \in 0..9, k \in 0..2 : b = 3 * i + k
  <2> SUFFICES ASSUME NEW b \in rights PROVE \E i \in 0..9, k \in 0..2 : b = 3 * i + k
    OBVIOUS
  <2>1. b \in 0..11
    BY DEF Rights
  <2>2. b \div 3 \in 0..9 /\ b % 3 \in 0..2 /\ b = 3 * (b \div 3) + (b % 3)
    BY <2>1
  <2> QED BY <2>2
<1> HIDE DEF bit
<1>5. rights = Int2Perm(num) => \A i \in 0..9 : Class(rights, i) = Digit(num, i)
  BY <1>2, <1>3
<1>6. ASSUME \A i \in 0..9 : Class(rights, i) = Digit(num, i)
      PROVE  rights = Int2Perm(num)
  <2>1. \A i \in 0..9, k \in 0..2 : 3 * i + k \in rights <=> 3 * i + k \in Int2Perm(num)
    BY <1>2, <1>3, <1>6
  <2>2. \A b : b \in rights <=> b \in Int2Perm(num)
    BY <1>2, <1>4, <2>1
  <2> QED BY <2>2
<1>7. rights \subseteq Int2Perm(num) => \A i \in 0..9 : Class(rights, i) <= Digit(num, i)
  BY <1>2, <1>3
<1> QED BY <1>5, <1>6, <1>7

\* Where there is no file every right is set, which no number spells.
LEMMA AllBitsAreUnspelled ==
  ASSUME NEW num \in Nat, Octal(num)
  PROVE  ~(AllBits \subseteq Int2Perm(num))
<1>1. 31 \in AllBits
  BY DEF AllBits
<1>2. ASSUME 31 \in Int2Perm(num) PROVE FALSE
  <2>1. PICK i \in 0..9, k \in 0..2 : 31 = 3 * i + k
    BY <1>2, DigitsSpellRights
  <2> QED BY <2>1
<1> QED BY <1>1, <1>2

\* permission compares the rights of a file, class by class, with the digits of
\* any number without 8 and 9, and never holds of a path without a file, except
\* for > and != (int2perm, file_perm_compare, expr_permission_handler).
THEOREM RightsAreAlwaysOfFiles == Spec => []RightsAreOfFiles
<1>1. PathsInv => RightsAreOfFiles
  <2> SUFFICES ASSUME PathsInv, NEW m \in said, m.what = "permission", Octal(m.arg)
               PROVE  /\ m.op = "==" =>
                           (m.yes <=> file.exist = 1 /\ \A i \in 0..9 :
                                        Class(file.permission, i) = Digit(m.arg, i))
                      /\ m.op \in {"<=", "<"} /\ m.yes =>
                           file.exist = 1 /\ \A i \in 0..9 :
                             Class(file.permission, i) <= Digit(m.arg, i)
    BY DEF RightsAreOfFiles
  <2>1. /\ Looked /\ m.arg \in Nat
        /\ m.yes <=> Compare(FilePermCompare(file.permission, Int2Perm(m.arg)), 0, m.op)
    BY DEF PathsInv, FileInv, Answered
  <2>2. \/ file.exist = 1 /\ file.permission \in Rights
        \/ file.exist # 1 /\ file.permission = AllBits
    BY <2>1 DEF Looked, PathsInv, FsInv
  <2>3. ~(AllBits \subseteq Int2Perm(m.arg))
    BY <2>1, AllBitsAreUnspelled
  <2>4. m.op = "==" => (m.yes <=> file.permission = Int2Perm(m.arg))
    BY <2>1 DEF Compare, FilePermCompare
  <2>5. m.op \in {"<=", "<"} /\ m.yes => file.permission \subseteq Int2Perm(m.arg)
    <3> SUFFICES ASSUME m.op \in {"<=", "<"}, m.yes
                 PROVE  FilePermCompare(file.permission, Int2Perm(m.arg)) # 1
      BY DEF FilePermCompare
    <3> DEFINE c == FilePermCompare(file.permission, Int2Perm(m.arg))
    <3>1. c \in {-1, 0, 1}
      BY DEF FilePermCompare
    <3>2. Compare(c, 0, m.op)
      BY <2>1
    <3> HIDE DEF c
    <3>3. m.op = "<=" => c # 1
      BY <3>1, <3>2 DEF Compare
    <3>4. m.op = "<" => c # 1
      BY <3>1, <3>2 DEF Compare
    <3> QED BY <3>3, <3>4 DEF c
  <2>6. CASE file.exist = 1 /\ file.permission \in Rights
    BY <2>1, <2>4, <2>5, <2>6, ClassesDecide
  <2>7. CASE file.exist # 1 /\ file.permission = AllBits
    BY <2>3, <2>4, <2>5, <2>7
  <2> QED BY <2>2, <2>6, <2>7
<1> QED BY <1>1, PathsAreLookedUpOnce, PTL

-----------------------------------------------------------------------------
(* Fragments: what fuzzy2path cuts a pattern into.                         *)

\* What the loop holds at a place: the fragments so far, and the one it is in.
CutState(S) == [done : Seq(Seq(S) \ {<<>>}), cur : Seq(S)]
Cuts(c, token, S) ==
  /\ c \in [0..Len(token) -> CutState(S)]
  /\ c[0] = [done |-> <<>>, cur |-> <<>>]
  /\ \A i \in 1..Len(token) : c[i] = Cut(c[i - 1], token[i])

LEMMA CutCases ==
  ASSUME NEW S, NEW acc \in CutState(S), NEW x \in S
  PROVE  /\ Cut(acc, x) \in CutState(S)
         /\ x # "*" => Cut(acc, x).done = acc.done /\ Cut(acc, x).cur = Append(acc.cur, x)
         /\ x = "*" /\ acc.cur = <<>> => Cut(acc, x).done = acc.done /\ Cut(acc, x).cur = <<>>
         /\ x = "*" /\ acc.cur # <<>> => /\ Cut(acc, x).done = Append(acc.done, acc.cur)
                                         /\ Cut(acc, x).cur = <<>>
<1> DEFINE F == Seq(S) \ {<<>>}
<1>1. acc.done \in Seq(F) /\ acc.cur \in Seq(S) /\ acc = [done |-> acc.done, cur |-> acc.cur]
  BY DEF CutState
<1>2. Append(acc.cur, x) \in Seq(S) /\ <<>> \in Seq(S)
  BY <1>1
<1>3. acc.cur # <<>> => Append(acc.done, acc.cur) \in Seq(F)
  <2> SUFFICES ASSUME acc.cur \in F PROVE Append(acc.done, acc.cur) \in Seq(F)
    BY <1>1
  <2> HIDE DEF F
  <2> QED BY <1>1
<1>4. CASE x # "*"
  <2>1. Cut(acc, x) = [done |-> acc.done, cur |-> Append(acc.cur, x)]
    BY <1>1, <1>4 DEF Cut
  <2> QED BY <1>1, <1>2, <1>4, <2>1 DEF CutState
<1>5. CASE x = "*" /\ acc.cur = <<>>
  <2>1. Cut(acc, x) = [done |-> acc.done, cur |-> <<>>]
    BY <1>5 DEF Cut
  <2> QED BY <1>1, <1>2, <1>5, <2>1 DEF CutState
<1>6. CASE x = "*" /\ acc.cur # <<>>
  <2>1. Cut(acc, x) = [done |-> Append(acc.done, acc.cur), cur |-> <<>>]
    BY <1>6 DEF Cut
  <2> DEFINE more == Append(acc.done, acc.cur)
             next == Cut(acc, x)
  <2>2. more \in Seq(F)
    BY <1>3, <1>6
  <2> HIDE DEF more, next
  <2>3. next = [done |-> more, cur |-> <<>>]
    BY <2>1 DEF more, next
  <2>4. next \in [done : Seq(F), cur : Seq(S)] /\ next.done = more /\ next.cur = <<>>
    <3> HIDE DEF F
    <3> QED BY <1>2, <2>2, <2>3
  <2> QED BY <1>6, <2>4 DEF CutState, more, next
<1> QED BY <1>4, <1>5, <1>6

LEMMA FragsAreCut ==
  ASSUME NEW S, NEW token \in Seq(S)
  PROVE  \E c : /\ Cuts(c, token, S)
                /\ Frags(token) = Append(c[Len(token)].done, c[Len(token)].cur)
<1> DEFINE N == Len(token)
           V == CutState(S)
           start == [done |-> <<>>, cur |-> <<>>]
           step == [i \in 1..N |-> [acc \in V |-> Cut(acc, token[i])]]
           Body(f) == [i \in 0..N |-> IF i = 0 THEN [done |-> <<>>, cur |-> <<>>]
                                      ELSE Cut(f[i - 1], token[i])]
           cut == CHOOSE f : f = Body(f)
<1>1. N \in Nat /\ \A i \in 1..N : token[i] \in S
  OBVIOUS
<1>2. start \in V
  BY DEF CutState
<1>3. \A i \in 1..N : \A acc \in V : Cut(acc, token[i]) \in V
  BY <1>1, CutCases
<1>4. step \in [1..N -> [V -> V]]
  <2> HIDE DEF V, N
  <2> QED BY <1>3
<1>5. \A i \in 1..N : \A acc \in V : step[i][acc] = Cut(acc, token[i])
  OBVIOUS
<1>6. PICK f \in [0..N -> V] : Loops(f, N, start, step)
  <2> HIDE DEF N, V, start, step
  <2> QED BY <1>1, <1>2, <1>4, LoopFunction
<1>7. f = Body(f)
  <2>1. ASSUME NEW i \in 0..N, i # 0 PROVE step[i][f[i - 1]] = Cut(f[i - 1], token[i])
    <3>1. i \in 1..N /\ i - 1 \in 0..N
      BY <1>1, <2>1
    <3>2. f[i - 1] \in V
      <4> HIDE DEF V, N
      <4> QED BY ONLY <1>6, <3>1
    <3> HIDE DEF V, N, step
    <3> QED BY <1>5, <3>1, <3>2
  <2>2. \A i \in 0..N : (IF i = 0 THEN start ELSE step[i][f[i - 1]]) =
          IF i = 0 THEN [done |-> <<>>, cur |-> <<>>] ELSE Cut(f[i - 1], token[i])
    <3> HIDE DEF V, N, step
    <3> QED BY <2>1
  <2>3. [n \in 0..N |-> IF n = 0 THEN start ELSE step[n][f[n - 1]]] = Body(f)
    <3> HIDE DEF V, N, step, start
    <3> QED BY <2>2
  <2> HIDE DEF V, N, step, start, Body
  <2> QED BY ONLY <1>6, <2>3 DEF Loops
<1>8. cut = Body(cut)
  <2> HIDE DEF Body
  <2> QED BY <1>7
<1>9. \A i \in 0..N : cut[i] = IF i = 0 THEN start ELSE Cut(cut[i - 1], token[i])
  <2> HIDE DEF cut, N
  <2> QED BY <1>8
<1> HIDE DEF cut
<1>10. cut[0] = start /\ \A i \in 1..N : cut[i] = Cut(cut[i - 1], token[i])
  <2>1. (\A i \in 1..N : i \in 0..N /\ i # 0) /\ 0 \in 0..N
    OBVIOUS
  <2> HIDE DEF N, start
  <2> QED BY <1>9, <2>1
<1>11. \A i \in 0..N : cut[i] \in V
  <2> DEFINE T == {i \in Nat : cut[i] \in V}
  <2>1. 0 \in T
    BY <1>2, <1>10
  <2>2. ASSUME NEW i \in 0..(N - 1), i \in T PROVE i + 1 \in T
    <3>1. i + 1 \in 1..N /\ (i + 1) - 1 = i /\ i + 1 \in Nat
      BY <1>1
    <3> HIDE DEF V, N
    <3>2. cut[i + 1] = Cut(cut[i], token[i + 1])
      BY <1>10, <3>1
    <3> QED BY <1>3, <2>2, <3>1, <3>2
  <2>3. 0..N \subseteq T
    <3> HIDE DEF T, N
    <3> QED BY <1>1, <2>1, <2>2, BoundedInduction
  <2> HIDE DEF V, N
  <2> QED BY <2>3
<1>12. cut \in [0..N -> V]
  <2>1. cut = [i \in 0..N |-> Body(cut)[i]]
    BY <1>8
  <2> HIDE DEF V, N, Body
  <2> QED BY <1>11, <2>1
<1>13. Frags(token) = Append(cut[N].done, cut[N].cur)
  BY DEF Frags, cut
<1>14. Cuts(cut, token, S)
  BY <1>10, <1>12 DEF Cuts
<1> QED BY <1>13, <1>14

\* What the loop holds is the beginning of the fragments.
Grows(acc, frags) ==
  /\ Len(acc.done) < Len(frags)
  /\ \A k \in 1..Len(acc.done) : frags[k] = acc.done[k]
  /\ Len(acc.cur) <= Len(frags[Len(acc.done) + 1])
  /\ \A x \in 1..Len(acc.cur) : frags[Len(acc.done) + 1][x] = acc.cur[x]

LEMMA CutGrows ==
  ASSUME NEW S, NEW acc \in CutState(S), NEW x \in S, NEW frags \in Seq(Seq(S)),
         Grows(Cut(acc, x), frags)
  PROVE  /\ Grows(acc, frags)
         /\ x = "*" /\ acc.cur # <<>> => frags[Len(acc.done) + 1] = acc.cur
         /\ x # "*" => /\ Len(acc.cur) + 1 <= Len(frags[Len(acc.done) + 1])
                       /\ frags[Len(acc.done) + 1][Len(acc.cur) + 1] = x
<1> DEFINE F == Seq(S) \ {<<>>}
           done == acc.done
           cur == acc.cur
           n == Len(done)
           w == Len(cur)
           f == frags[n + 1]
<1>1. done \in Seq(F) /\ cur \in Seq(S) /\ n \in Nat /\ w \in Nat
  <2>1. done \in Seq(F) /\ cur \in Seq(S)
    BY DEF CutState
  <2> HIDE DEF F, done, cur
  <2> QED BY <2>1
<1>2. CASE x # "*"
  <2> DEFINE more == Append(cur, x)
  <2>1. Cut(acc, x).done = done /\ Cut(acc, x).cur = more
    BY <1>2, CutCases
  <2>2. Len(more) = w + 1 /\ more[w + 1] = x /\ \A i \in 1..w : more[i] = cur[i] /\ i \in 1..(w + 1)
    <3> HIDE DEF cur
    <3> QED BY <1>1
  <2>3. /\ n < Len(frags) /\ \A k \in 1..n : frags[k] = done[k]
        /\ Len(more) <= Len(f) /\ \A i \in 1..Len(more) : f[i] = more[i]
    <3> HIDE DEF more
    <3> QED BY <2>1 DEF Grows
  <2> HIDE DEF more, n, w, f, done, cur
  <2>4. n + 1 \in 1..Len(frags)
    BY <1>1, <2>3
  <2>5. Len(f) \in Nat
    BY <2>4 DEF f
  <2>6. w + 1 <= Len(f) /\ w <= Len(f) /\ w + 1 \in 1..(w + 1)
    BY ONLY <1>1, <2>2, <2>3, <2>5
  <2>7. f[w + 1] = x /\ \A i \in 1..w : f[i] = cur[i]
    BY ONLY <2>2, <2>3, <2>6
  <2>8. Grows(acc, frags)
    BY ONLY <2>3, <2>6, <2>7 DEF Grows, n, w, f, done, cur
  <2> QED BY <1>2, <2>6, <2>7, <2>8 DEF n, w, f, done, cur
<1>3. CASE x = "*" /\ cur = <<>>
  <2>1. Cut(acc, x).done = done /\ Cut(acc, x).cur = <<>> /\ cur = <<>>
    BY <1>3, CutCases
  <2>2. Grows(acc, frags)
    BY <2>1 DEF Grows
  <2> QED BY <1>3, <2>2
<1>4. CASE x = "*" /\ cur # <<>>
  <2> DEFINE more == Append(done, cur)
  <2>1. Cut(acc, x).done = more /\ Cut(acc, x).cur = <<>>
    BY <1>4, CutCases
  <2>2. Len(more) = n + 1 /\ more[n + 1] = cur /\ \A k \in 1..n : more[k] = done[k] /\ k \in 1..(n + 1)
    <3>1. done \in Seq(F) /\ cur \in F
      BY <1>1, <1>4
    <3> HIDE DEF done, cur, F
    <3> QED BY <3>1
  <2>3. Len(more) < Len(frags) /\ \A k \in 1..Len(more) : frags[k] = more[k]
    <3> HIDE DEF more
    <3> QED BY <2>1 DEF Grows
  <2>4. n + 1 \in 1..(n + 1) /\ n < Len(frags)
    <3> HIDE DEF more, n
    <3> QED BY <1>1, <2>2, <2>3
  <2> HIDE DEF more, n, w, f, done, cur
  <2>5. f = cur
    BY ONLY <2>2, <2>3, <2>4 DEF f
  <2>6. w <= Len(f) /\ (\A i \in 1..w : f[i] = cur[i]) /\ \A k \in 1..n : frags[k] = done[k]
    BY <1>1, <2>2, <2>3, <2>5 DEF w
  <2>7. Grows(acc, frags)
    BY ONLY <2>4, <2>6 DEF Grows, n, w, f, done, cur
  <2> QED BY <1>4, <2>5, <2>7 DEF n, w, f, done, cur
<1> QED BY <1>2, <1>3, <1>4

\* At a place of the pattern, n fragments have ended and w characters of the next
\* one have come.
FragStep(token, frags, n, w, j) ==
  \/ /\ token[j] # "*" /\ n[j] = n[j - 1] /\ w[j] = w[j - 1] + 1
     /\ frags[n[j] + 1][w[j]] = token[j]
  \/ token[j] = "*" /\ w[j - 1] = 0 /\ n[j] = n[j - 1] /\ w[j] = 0
  \/ /\ token[j] = "*" /\ w[j - 1] # 0 /\ n[j] = n[j - 1] + 1 /\ w[j] = 0
     /\ Len(frags[n[j]]) = w[j - 1]
Fragmented(token, frags, n, w) ==
  /\ n \in [0..Len(token) -> Nat] /\ w \in [0..Len(token) -> Nat]
  /\ n[0] = 0 /\ w[0] = 0
  /\ \A j \in 1..Len(token) : FragStep(token, frags, n, w, j)
  /\ \A j \in 0..Len(token) : n[j] < Len(frags) /\ w[j] <= Len(frags[n[j] + 1])
  /\ Len(frags) = n[Len(token)] + 1 /\ Len(frags[Len(frags)]) = w[Len(token)]
  /\ \A k \in 1..(Len(frags) - 1) : frags[k] # <<>>

LEMMA FragsFragment ==
  ASSUME NEW S, NEW token \in Seq(S)
  PROVE  Frags(token) \in Seq(Seq(S)) /\ \E n, w : Fragmented(token, Frags(token), n, w)
<1> DEFINE N == Len(token)
           F == Seq(S) \ {<<>>}
           frags == Frags(token)
<1>1. PICK c : Cuts(c, token, S) /\ frags = Append(c[N].done, c[N].cur)
  BY FragsAreCut
<1>2. N \in Nat /\ N \in 0..N /\ \A j \in 1..N : token[j] \in S
  OBVIOUS
<1>3. /\ \A j \in 0..N : c[j] \in CutState(S)
      /\ c[0] = [done |-> <<>>, cur |-> <<>>]
      /\ \A j \in 1..N : c[j] = Cut(c[j - 1], token[j])
  BY <1>1 DEF Cuts
<1> DEFINE n == [j \in 0..N |-> Len(c[j].done)]
           w == [j \in 0..N |-> Len(c[j].cur)]
           done == c[N].done
           cur == c[N].cur
<1>4. \A j \in 0..N : /\ c[j].done \in Seq(F) /\ c[j].cur \in Seq(S)
                      /\ Len(c[j].done) \in Nat /\ Len(c[j].cur) \in Nat
  <2> SUFFICES ASSUME NEW j \in 0..N
               PROVE  /\ c[j].done \in Seq(F) /\ c[j].cur \in Seq(S)
                      /\ Len(c[j].done) \in Nat /\ Len(c[j].cur) \in Nat
    OBVIOUS
  <2> DEFINE d == c[j].done
             u == c[j].cur
  <2>1. d \in Seq(F) /\ u \in Seq(S)
    <3>1. c[j] \in CutState(S)
      BY <1>3
    <3> QED BY <3>1 DEF CutState
  <2> HIDE DEF d, u, F
  <2>2. Len(d) \in Nat /\ Len(u) \in Nat
    BY <2>1
  <2> QED BY <2>1, <2>2 DEF d, u
<1>5. done \in Seq(F) /\ cur \in Seq(S) /\ done \in Seq(Seq(S))
  <2>1. done \in Seq(F) /\ cur \in Seq(S)
    <3> HIDE DEF F, N
    <3> QED BY <1>2, <1>4
  <2>2. Len(done) \in Nat /\ done \in [1..Len(done) -> F]
    <3> HIDE DEF F, done
    <3> QED BY <2>1
  <2>3. done \in [1..Len(done) -> Seq(S)]
    <3> HIDE DEF done
    <3> QED BY <2>2
  <2>4. done \in Seq(Seq(S))
    <3> HIDE DEF done
    <3> QED BY <2>2, <2>3, SeqDef
  <2> QED BY <2>1, <2>4
<1>6. frags \in Seq(Seq(S)) /\ Len(frags) = Len(done) + 1 /\ frags[Len(done) + 1] = cur
      /\ Len(done) \in Nat /\ \A k \in 1..Len(done) : frags[k] = done[k] /\ done[k] # <<>>
  <2>1. frags = Append(done, cur)
    BY <1>1
  <2> HIDE DEF frags, done, cur
  <2>2. \A k \in 1..Len(done) : done[k] # <<>>
    BY <1>5
  <2> HIDE DEF F
  <2> QED BY <1>5, <2>1, <2>2
<1> HIDE DEF frags
<1>7. Grows(c[N], frags)
  <2> DEFINE m == Len(done)
  <2>1. \A x \in 1..Len(cur) : frags[m + 1][x] = cur[x]
    BY <1>6
  <2>2. Len(cur) \in Nat
    <3> HIDE DEF cur
    <3> QED BY <1>5
  <2>3. m < Len(frags) /\ Len(cur) <= Len(frags[m + 1])
    <3>1. m < Len(frags)
      <4> HIDE DEF m, done, cur
      <4> QED BY <1>6 DEF m
    <3>2. Len(frags[m + 1]) = Len(cur)
      BY <1>6
    <3> HIDE DEF m, cur
    <3> QED BY <2>2, <3>1, <3>2
  <2>4. \A k \in 1..m : frags[k] = done[k]
    BY <1>6
  <2> HIDE DEF m
  <2> QED BY <2>1, <2>3, <2>4 DEF Grows, m
<1>8. \A j \in 0..N : Grows(c[j], frags)
  <2> DEFINE T == {d \in Nat : Grows(c[N - d], frags)}
  <2>1. 0 \in T
    <3>1. N - 0 = N
      BY <1>2
    <3> HIDE DEF N
    <3> QED BY <1>7, <3>1
  <2>2. ASSUME NEW d \in 0..(N - 1), d \in T PROVE d + 1 \in T
    <3> DEFINE j == N - d
    <3>1. j \in 1..N /\ j - 1 = N - (d + 1) /\ j - 1 \in 0..N /\ d + 1 \in Nat
      <4> HIDE DEF N
      <4> QED BY <1>2
    <3>2. Grows(c[j], frags)
      BY <2>2
    <3> HIDE DEF j, N
    <3>3. c[j] = Cut(c[j - 1], token[j]) /\ c[j - 1] \in CutState(S) /\ token[j] \in S
      BY <1>2, <1>3, <3>1
    <3>4. Grows(c[j - 1], frags)
      BY <1>6, <3>2, <3>3, CutGrows
    <3> QED BY <3>1, <3>4
  <2>3. 0..N \subseteq T
    <3> HIDE DEF T, N
    <3> QED BY <1>2, <2>1, <2>2, BoundedInduction
  <2> SUFFICES ASSUME NEW j \in 0..N PROVE Grows(c[j], frags)
    OBVIOUS
  <2>4. N - j \in 0..N /\ N - (N - j) = j
    <3> HIDE DEF N
    <3> QED BY <1>2
  <2>5. N - j \in T
    <3> HIDE DEF T, N
    <3> QED BY <2>3, <2>4
  <2>6. Grows(c[N - (N - j)], frags)
    BY <2>5
  <2> HIDE DEF N
  <2> QED BY <2>4, <2>6
<1>9. ASSUME NEW j \in 1..N PROVE FragStep(token, frags, n, w, j)
  <2> DEFINE a == c[j - 1]
             x == token[j]
  <2>1. j \in 0..N /\ j - 1 \in 0..N
    <3> HIDE DEF N
    <3> QED BY <1>2
  <2>2. a \in CutState(S) /\ c[j] = Cut(a, x) /\ x \in S /\ Grows(c[j], frags)
    <3> HIDE DEF N
    <3> QED BY <1>2, <1>3, <1>8, <2>1
  <2>3. /\ n[j] = Len(Cut(a, x).done) /\ w[j] = Len(Cut(a, x).cur)
        /\ n[j - 1] = Len(a.done) /\ w[j - 1] = Len(a.cur)
    <3> HIDE DEF N
    <3> QED BY <2>1, <2>2
  <2>4. a.done \in Seq(F) /\ a.cur \in Seq(S)
    <3> HIDE DEF N, F
    <3> QED BY <1>4, <2>1
  <2> DEFINE da == a.done
             ca == a.cur
             y == Cut(a, x)
  <2>5. /\ x # "*" => y.done = da /\ y.cur = Append(ca, x)
        /\ x = "*" /\ ca = <<>> => y.done = da /\ y.cur = <<>>
        /\ x = "*" /\ ca # <<>> => y.done = Append(da, ca) /\ y.cur = <<>>
    BY <2>2, CutCases
  <2>6. /\ x = "*" /\ ca # <<>> => frags[Len(da) + 1] = ca
        /\ x # "*" => frags[Len(da) + 1][Len(ca) + 1] = x
    <3>1. Grows(Cut(a, x), frags) /\ frags \in Seq(Seq(S))
      BY <1>6, <2>2
    <3> HIDE DEF a, x
    <3> QED BY ONLY <2>2, <3>1, CutGrows DEF da, ca
  <2> HIDE DEF N, n, w
  <2>7. CASE x # "*"
    <3>1. Len(Append(ca, x)) = Len(ca) + 1
      <4> HIDE DEF ca, x
      <4> QED BY <2>2, <2>4 DEF ca
    <3>2. n[j] = n[j - 1] /\ w[j] = w[j - 1] + 1
      BY <2>3, <2>5, <2>7, <3>1
    <3>3. frags[n[j] + 1][w[j]] = x
      BY <2>3, <2>6, <2>7, <3>2
    <3> QED BY <2>7, <3>2, <3>3 DEF FragStep
  <2>8. CASE x = "*" /\ ca = <<>>
    <3>1. n[j] = n[j - 1] /\ w[j] = 0 /\ w[j - 1] = 0
      BY <2>3, <2>5, <2>8
    <3> QED BY <2>8, <3>1 DEF FragStep
  <2>9. CASE x = "*" /\ ca # <<>>
    <3>1. Len(Append(da, ca)) = Len(da) + 1
      <4>1. ca \in F
        BY <2>4, <2>9
      <4> HIDE DEF da, ca, F
      <4> QED BY <2>4, <4>1 DEF da
    <3>2. n[j] = n[j - 1] + 1 /\ w[j] = 0
      BY <2>3, <2>5, <2>9, <3>1
    <3>3. w[j - 1] # 0
      <4>1. ca # <<>> /\ ca \in Seq(S) /\ w[j - 1] = Len(ca)
        BY <2>3, <2>4, <2>9
      <4> HIDE DEF ca
      <4> QED BY <4>1
    <3>4. Len(frags[n[j]]) = w[j - 1]
      BY <2>3, <2>6, <2>9, <3>2
    <3> QED BY <2>9, <3>2, <3>3, <3>4 DEF FragStep
  <2> QED BY <2>7, <2>8, <2>9
<1>10. /\ n \in [0..N -> Nat] /\ w \in [0..N -> Nat]
       /\ \A j \in 0..N : n[j] < Len(frags) /\ w[j] <= Len(frags[n[j] + 1])
  <2>1. \A j \in 0..N : n[j] = Len(c[j].done) /\ w[j] = Len(c[j].cur)
    <3> HIDE DEF N
    <3> QED OBVIOUS
  <2>2. n \in [0..N -> Nat] /\ w \in [0..N -> Nat]
    <3> HIDE DEF N, F
    <3> QED BY <1>4
  <2> HIDE DEF n, w, N
  <2> QED BY <1>8, <2>1, <2>2 DEF Grows
<1>11. n[0] = 0 /\ w[0] = 0
  <2>1. 0 \in 0..N
    BY <1>2
  <2>2. n[0] = Len(c[0].done) /\ w[0] = Len(c[0].cur)
    <3> HIDE DEF N
    <3> QED BY <2>1
  <2> HIDE DEF n, w
  <2> QED BY <1>3, <2>2
<1>12. Len(frags) = n[N] + 1 /\ Len(frags[Len(frags)]) = w[N]
  <2>1. n[N] = Len(done) /\ w[N] = Len(cur)
    <3> HIDE DEF N
    <3> QED BY <1>2
  <2> HIDE DEF n, w, N, done, cur
  <2> QED BY <1>6, <2>1
<1>13. \A k \in 1..(Len(frags) - 1) : frags[k] # <<>>
  <2>1. Len(frags) - 1 = Len(done)
    <3> HIDE DEF done, cur
    <3> QED BY <1>6
  <2> HIDE DEF done, cur
  <2> QED BY <1>6, <2>1
<1> HIDE DEF n, w
<1>14. Fragmented(token, frags, n, w)
  BY <1>9, <1>10, <1>11, <1>12, <1>13 DEF Fragmented
<1> QED BY <1>6, <1>14 DEF frags

-----------------------------------------------------------------------------
(* One name against one pattern: where recurse_dir finds the fragments.    *)

LEMMA SubSeqIs ==
  ASSUME NEW S, NEW s \in Seq(S), NEW k \in Nat \ {0}, NEW w \in Nat, k + w <= Len(s) + 1
  PROVE  /\ SubSeq(s, k, k + w - 1) \in Seq(S) /\ Len(SubSeq(s, k, k + w - 1)) = w
         /\ \A x \in 1..w : SubSeq(s, k, k + w - 1)[x] = s[(k - 1) + x]
<1> DEFINE m == k + w - 1
<1>1. k \in Int /\ m \in Int /\ (m - k) + 1 = w /\ (w = 0 <=> ~(k <= m)) /\ w \in Nat
  OBVIOUS
<1>2. \A i \in k..m : s[i] \in S
  <2>1. \A i \in k..m : i \in 1..Len(s)
    BY Len(s) \in Nat
  <2> QED BY <2>1
<1>3. \A x \in 1..w : k + x - 1 = (k - 1) + x
  OBVIOUS
<1> HIDE DEF m
<1>4. /\ SubSeq(s, k, m) \in Seq(S) /\ Len(SubSeq(s, k, m)) = IF k <= m THEN m - k + 1 ELSE 0
      /\ \A x \in 1..(m - k + 1) : SubSeq(s, k, m)[x] = s[k + x - 1]
  BY ONLY <1>1, <1>2, SubSeqProperties
<1>5. m - k + 1 = w
  BY <1>1
<1>6. (IF k <= m THEN m - k + 1 ELSE 0) = w
  BY ONLY <1>1, <1>5
<1> QED BY <1>3, <1>4, <1>5, <1>6 DEF m

LEMMA PrefixIs ==
  ASSUME NEW S, NEW s \in Seq(S), NEW k \in 0..Len(s)
  PROVE  /\ SubSeq(s, 1, k) \in Seq(S) /\ Len(SubSeq(s, 1, k)) = k
         /\ \A x \in 1..k : SubSeq(s, 1, k)[x] = s[x]
<1>1. /\ k \in Nat /\ 1 \in Nat \ {0} /\ 1 + k <= Len(s) + 1 /\ 1 + k - 1 = k
      /\ \A x \in 1..k : (1 - 1) + x = x
  BY Len(s) \in Nat
<1>2. /\ SubSeq(s, 1, 1 + k - 1) \in Seq(S) /\ Len(SubSeq(s, 1, 1 + k - 1)) = k
      /\ \A x \in 1..k : SubSeq(s, 1, 1 + k - 1)[x] = s[(1 - 1) + x]
  BY ONLY <1>1, SubSeqIs, s \in Seq(S)
<1> QED BY ONLY <1>1, <1>2

\* A fragment is in the name from a place on, character by character.
LEMMA OccurrenceIs ==
  ASSUME NEW S, NEW name \in Seq(S), NEW frag \in Seq(S), NEW k
  PROVE  k \in Occurrences(name, frag) <=>
           /\ k \in Nat \ {0} /\ k + Len(frag) <= Len(name) + 1
           /\ \A x \in 1..Len(frag) : name[(k - 1) + x] = frag[x]
<1> DEFINE L == Len(name)
           w == Len(frag)
           sub == SubSeq(name, k, k + w - 1)
<1>1. L \in Nat /\ w \in Nat
  OBVIOUS
<1>2. k \in 1..(L + 1 - w) <=> k \in Nat \ {0} /\ k + w <= L + 1
  <2> HIDE DEF L, w
  <2> QED BY <1>1
<1>3. ASSUME k \in Nat \ {0}, k + w <= L + 1
      PROVE  sub \in Seq(S) /\ Len(sub) = w /\ \A x \in 1..w : sub[x] = name[(k - 1) + x]
  BY <1>1, <1>3, SubSeqIs
<1>4. ASSUME k \in Nat \ {0}, k + w <= L + 1
      PROVE  sub = frag <=> \A x \in 1..w : name[(k - 1) + x] = frag[x]
  <2>1. sub = frag => \A x \in 1..w : name[(k - 1) + x] = frag[x]
    <3> HIDE DEF sub
    <3> QED BY <1>3, <1>4
  <2>2. ASSUME \A x \in 1..w : name[(k - 1) + x] = frag[x] PROVE sub = frag
    <3>1. sub \in Seq(S) /\ Len(sub) = Len(frag) /\ \A x \in 1..Len(frag) : sub[x] = frag[x]
      <4> HIDE DEF sub
      <4> QED BY <1>3, <1>4, <2>2
    <3> HIDE DEF sub
    <3> QED BY <3>1, SeqEqual
  <2> QED BY <2>1, <2>2
<1>5. k \in Occurrences(name, frag) <=> k \in 1..(L + 1 - w) /\ sub = frag
  BY DEF Occurrences
<1> HIDE DEF sub, L, w
<1> QED BY <1>2, <1>4, <1>5 DEF L, w

LEMMA StrstrFinds ==
  ASSUME NEW S, NEW name \in Seq(S), NEW frag \in Seq(S), NEW from \in Nat \ {0}
  PROVE  /\ Strstr(name, from, frag) \in 0..(Len(name) + 1)
         /\ Strstr(name, from, frag) # 0 =>
              Strstr(name, from, frag) \in Occurrences(name, frag) /\ from <= Strstr(name, from, frag)
         /\ \A k \in Occurrences(name, frag) :
              from <= k => Strstr(name, from, frag) # 0 /\ Strstr(name, from, frag) <= k
<1> DEFINE O == Occurrences(name, frag)
           later == {k \in O : k >= from}
           first == CHOOSE k \in later : \A j \in later : k <= j
           L == Len(name)
<1>1. L \in Nat /\ Len(frag) \in Nat
  OBVIOUS
<1>2. O \subseteq 1..(L + 1)
  <2>1. \A k \in O : k \in Nat \ {0} /\ k + Len(frag) <= L + 1
    BY OccurrenceIs
  <2> HIDE DEF O, L
  <2> QED BY <1>1, <2>1
<1>3. Strstr(name, from, frag) = IF later = {} THEN 0 ELSE first
  BY DEF Strstr
<1> HIDE DEF O, L
<1>4. CASE later = {}
  <2>1. \A k \in O : ~(from <= k)
    <3>1. \A k \in O : k \in Nat
      BY <1>2, <1>1
    <3> QED BY <1>4, <3>1
  <2> HIDE DEF later, first
  <2> QED BY <1>1, <1>3, <1>4, <2>1 DEF L, O
<1>5. CASE later # {}
  <2>1. later \in SUBSET Nat
    <3>1. \A k \in O : k \in Nat
      BY <1>1, <1>2
    <3> QED BY <3>1
  <2>2. \E k \in later : \A j \in later : k <= j
    <3> HIDE DEF later
    <3> QED BY <1>5, <2>1, LeastNatural
  <2>3. first \in later /\ \A j \in later : first <= j
    <3> HIDE DEF later
    <3> QED BY <2>2
  <2> HIDE DEF first
  <2>4. first \in O /\ first >= from /\ \A k \in O : k >= from => first <= k
    BY <2>3
  <2>5. first \in 1..(L + 1)
    BY <1>2, <2>4
  <2>6. Strstr(name, from, frag) = first
    BY <1>3, <1>5
  <2>7. \A k \in O : k \in Nat
    BY <1>1, <1>2
  <2> HIDE DEF later
  <2>8. /\ first \in 0..(L + 1) /\ first # 0 /\ from <= first
        /\ \A k \in O : from <= k => first <= k
    BY <1>1, <2>4, <2>5, <2>7
  <2> QED BY <2>4, <2>6, <2>8 DEF L, O
<1> QED BY <1>4, <1>5

\* The loop of recurse_dir: where it has found each fragment.
Placing(p, name, frags) ==
  /\ p \in [0..Len(frags) -> 0..(Len(name) + 1)]
  /\ p[0] = 1
  /\ \A k \in 1..Len(frags) :
       p[k] = IF p[k - 1] = 0 THEN 0 ELSE Strstr(name, p[k - 1], frags[k])

LEMMA PlacesPlace ==
  ASSUME NEW S, NEW name \in Seq(S), NEW frags \in Seq(Seq(S))
  PROVE  Placing(Places(name, frags), name, frags)
<1> DEFINE N == Len(frags)
           V == 0..(Len(name) + 1)
           Next1(k, x) == IF x = 0 THEN 0 ELSE Strstr(name, x, frags[k])
           step == [k \in 1..N |-> [x \in V |-> Next1(k, x)]]
           Body(f) == [k \in 0..N |-> IF k = 0 THEN 1
                                      ELSE IF f[k - 1] = 0 THEN 0 ELSE Strstr(name, f[k - 1], frags[k])]
           place == CHOOSE f : f = Body(f)
<1>1. N \in Nat /\ 1 \in V /\ Len(name) \in Nat /\ \A k \in 1..N : frags[k] \in Seq(S)
  OBVIOUS
<1>2. \A k \in 1..N : \A x \in V : Next1(k, x) \in V
  <2> SUFFICES ASSUME NEW k \in 1..N, NEW x \in V PROVE Next1(k, x) \in V
    OBVIOUS
  <2>1. CASE x = 0
    BY <1>1, <2>1
  <2>2. CASE x # 0
    <3>1. x \in Nat \ {0}
      BY <1>1, <2>2
    <3> QED BY <1>1, <2>2, <3>1, StrstrFinds
  <2> QED BY <2>1, <2>2
<1> HIDE DEF Next1
<1>3. step \in [1..N -> [V -> V]]
  <2> HIDE DEF V, N
  <2> QED BY <1>2
<1>4. \A k \in 1..N : \A x \in V : step[k][x] = Next1(k, x)
  OBVIOUS
<1>5. PICK f \in [0..N -> V] : Loops(f, N, 1, step)
  <2> HIDE DEF N, V, step
  <2> QED BY <1>1, <1>3, LoopFunction
<1>6. f = Body(f)
  <2>1. ASSUME NEW k \in 0..N, k # 0 PROVE step[k][f[k - 1]] = Next1(k, f[k - 1])
    <3>1. k \in 1..N /\ k - 1 \in 0..N
      BY <1>1, <2>1
    <3>2. f[k - 1] \in V
      <4> HIDE DEF V, N
      <4> QED BY ONLY <1>5, <3>1
    <3> HIDE DEF V, N, step
    <3> QED BY <1>4, <3>1, <3>2
  <2>2. \A k \in 0..N : (IF k = 0 THEN 1 ELSE step[k][f[k - 1]]) =
          IF k = 0 THEN 1 ELSE IF f[k - 1] = 0 THEN 0 ELSE Strstr(name, f[k - 1], frags[k])
    <3> HIDE DEF V, N, step
    <3> QED BY <2>1 DEF Next1
  <2>3. [n \in 0..N |-> IF n = 0 THEN 1 ELSE step[n][f[n - 1]]] = Body(f)
    <3> HIDE DEF V, N, step
    <3> QED BY <2>2
  <2> HIDE DEF V, N, step, Body
  <2> QED BY ONLY <1>5, <2>3 DEF Loops
<1>7. place = Body(place)
  <2> HIDE DEF Body
  <2> QED BY <1>6
<1>8. \A k \in 0..N : place[k] = IF k = 0 THEN 1 ELSE Next1(k, place[k - 1])
  <2> HIDE DEF place, N
  <2> QED BY <1>7 DEF Next1
<1> HIDE DEF place
<1>9. place[0] = 1 /\ \A k \in 1..N : place[k] = Next1(k, place[k - 1])
  <2>1. (\A k \in 1..N : k \in 0..N /\ k # 0) /\ 0 \in 0..N
    OBVIOUS
  <2> HIDE DEF N
  <2> QED BY <1>8, <2>1
<1>10. \A k \in 0..N : place[k] \in V
  <2> DEFINE T == {k \in Nat : place[k] \in V}
  <2>1. 0 \in T
    BY <1>1, <1>9
  <2>2. ASSUME NEW k \in 0..(N - 1), k \in T PROVE k + 1 \in T
    <3>1. k + 1 \in 1..N /\ (k + 1) - 1 = k /\ k + 1 \in Nat
      BY <1>1
    <3> HIDE DEF V, N
    <3>2. place[k + 1] = Next1(k + 1, place[k])
      BY <1>9, <3>1
    <3> QED BY <1>2, <2>2, <3>1, <3>2
  <2>3. 0..N \subseteq T
    <3> HIDE DEF T, N
    <3> QED BY <1>1, <2>1, <2>2, BoundedInduction
  <2> HIDE DEF V, N
  <2> QED BY <2>3
<1>11. place \in [0..N -> V]
  <2>1. place = [k \in 0..N |-> Body(place)[k]]
    BY <1>7
  <2> HIDE DEF V, N, Body
  <2> QED BY <1>10, <2>1
<1>12. Places(name, frags) = place
  BY DEF Places, place
<1> QED BY <1>9, <1>11, <1>12 DEF Placing, Next1

-----------------------------------------------------------------------------
(* What the asterisks mean, and what FuzzyMatch finds of it.               *)

Ending(e, name, token) ==
  /\ e \in [0..Len(token) -> SUBSET (0..Len(name))]
  /\ e[0] = {0}
  /\ \A j \in 1..Len(token) : e[j] = Reach(name, e[j - 1], token[j])

LEMMA GlobEnds ==
  ASSUME NEW S, NEW name \in Seq(S), NEW token \in Seq(S)
  PROVE  \E e : Ending(e, name, token) /\ (Glob(name, token) <=> Len(name) \in e[Len(token)])
<1> DEFINE N == Len(token)
           V == SUBSET (0..Len(name))
           start == {0}
           step == [j \in 1..N |-> [t \in V |-> Reach(name, t, token[j])]]
           Body(f) == [j \in 0..N |-> IF j = 0 THEN {0} ELSE Reach(name, f[j - 1], token[j])]
           ends == CHOOSE f : f = Body(f)
<1>1. N \in Nat /\ start \in V /\ Len(name) \in Nat
  <2>1. Len(name) \in Nat /\ N \in Nat
    OBVIOUS
  <2>2. 0 \in 0..Len(name)
    BY <2>1
  <2> QED BY <2>1, <2>2
<1>2. \A j \in 1..N : \A t \in V : Reach(name, t, token[j]) \in V
  <2>1. 1..Len(name) \subseteq 0..Len(name)
    BY <1>1
  <2> QED BY <2>1 DEF Reach
<1>3. step \in [1..N -> [V -> V]]
  <2> HIDE DEF V, N
  <2> QED BY <1>2
<1>4. \A j \in 1..N : \A t \in V : step[j][t] = Reach(name, t, token[j])
  OBVIOUS
<1>5. PICK f \in [0..N -> V] : Loops(f, N, start, step)
  <2> HIDE DEF N, V, step, start
  <2> QED BY <1>1, <1>3, LoopFunction
<1>6. f = Body(f)
  <2>1. ASSUME NEW j \in 0..N, j # 0 PROVE step[j][f[j - 1]] = Reach(name, f[j - 1], token[j])
    <3>1. j \in 1..N /\ j - 1 \in 0..N
      BY <1>1, <2>1
    <3>2. f[j - 1] \in V
      <4> HIDE DEF V, N
      <4> QED BY ONLY <1>5, <3>1
    <3> HIDE DEF V, N, step
    <3> QED BY <1>4, <3>1, <3>2
  <2>2. \A j \in 0..N : (IF j = 0 THEN start ELSE step[j][f[j - 1]]) =
          IF j = 0 THEN {0} ELSE Reach(name, f[j - 1], token[j])
    <3> HIDE DEF V, N, step
    <3> QED BY <2>1
  <2>3. [n \in 0..N |-> IF n = 0 THEN start ELSE step[n][f[n - 1]]] = Body(f)
    <3> HIDE DEF V, N, step, start
    <3> QED BY <2>2
  <2> HIDE DEF V, N, step, Body, start
  <2> QED BY ONLY <1>5, <2>3 DEF Loops
<1>7. ends = Body(ends)
  <2> HIDE DEF Body
  <2> QED BY <1>6
<1>8. \A j \in 0..N : ends[j] = IF j = 0 THEN {0} ELSE Reach(name, ends[j - 1], token[j])
  <2> HIDE DEF ends, N
  <2> QED BY <1>7
<1> HIDE DEF ends
<1>9. ends[0] = {0} /\ \A j \in 1..N : ends[j] = Reach(name, ends[j - 1], token[j])
  <2>1. (\A j \in 1..N : j \in 0..N /\ j # 0) /\ 0 \in 0..N
    OBVIOUS
  <2> HIDE DEF N
  <2> QED BY <1>8, <2>1
<1>10. \A j \in 0..N : ends[j] \in V
  <2> DEFINE T == {j \in Nat : ends[j] \in V}
  <2>1. 0 \in T
    BY <1>1, <1>9
  <2>2. ASSUME NEW j \in 0..(N - 1), j \in T PROVE j + 1 \in T
    <3>1. j + 1 \in 1..N /\ (j + 1) - 1 = j /\ j + 1 \in Nat
      BY <1>1
    <3> HIDE DEF V, N
    <3>2. ends[j + 1] = Reach(name, ends[j], token[j + 1])
      BY <1>9, <3>1
    <3> QED BY <1>2, <2>2, <3>1, <3>2
  <2>3. 0..N \subseteq T
    <3> HIDE DEF T, N
    <3> QED BY <1>1, <2>1, <2>2, BoundedInduction
  <2> HIDE DEF V, N
  <2> QED BY <2>3
<1>11. ends \in [0..N -> V]
  <2>1. ends = [j \in 0..N |-> Body(ends)[j]]
    BY <1>7
  <2> HIDE DEF V, N, Body
  <2> QED BY <1>10, <2>1
<1>12. Glob(name, token) <=> Len(name) \in ends[N]
  BY DEF Glob, ends
<1>13. Ending(ends, name, token)
  BY <1>9, <1>11 DEF Ending
<1> QED BY <1>12, <1>13

\* Where a character or an asterisk may end.
LEMMA ReachIs ==
  ASSUME NEW name, NEW t, NEW c, NEW i
  PROVE  /\ c = "*" => (i \in Reach(name, t, c) <=> i \in 0..Len(name) /\ \E h \in t : h <= i)
         /\ c # "*" => (i \in Reach(name, t, c) <=> i \in 1..Len(name) /\ i - 1 \in t /\ name[i] = c)
BY DEF Reach

\* When the last fragment is found, so is every other, in this order.
LEMMA AllFound ==
  ASSUME NEW S, NEW name \in Seq(S), NEW frags \in Seq(Seq(S)), NEW p, Placing(p, name, frags),
         p[Len(frags)] # 0
  PROVE  \A k \in 1..Len(frags) : p[k] \in Occurrences(name, frags[k]) /\ p[k - 1] <= p[k]
<1> DEFINE M == Len(frags)
           V == 0..(Len(name) + 1)
<1>1. M \in Nat /\ (\A k \in 1..M : frags[k] \in Seq(S)) /\ Len(name) \in Nat
  OBVIOUS
<1>2. /\ \A k \in 0..M : p[k] \in V
      /\ \A k \in 1..M : p[k] = IF p[k - 1] = 0 THEN 0 ELSE Strstr(name, p[k - 1], frags[k])
  BY DEF Placing
<1> DEFINE T == {d \in Nat : p[M - d] # 0}
<1>3. 0 \in T
  <2>1. M - 0 = M
    BY <1>1
  <2> QED BY <2>1
<1>4. ASSUME NEW d \in 0..(M - 1), d \in T PROVE d + 1 \in T
  <2>1. M - d \in 1..M /\ (M - d) - 1 = M - (d + 1) /\ d + 1 \in Nat
    <3> HIDE DEF M
    <3> QED BY <1>1
  <2>2. p[M - d] # 0
    BY <1>4
  <2>3. p[(M - d) - 1] # 0
    <3> HIDE DEF M, V
    <3> QED BY <1>2, <2>1, <2>2
  <2> QED BY <2>1, <2>3
<1>5. 0..M \subseteq T
  <2> HIDE DEF M, T
  <2> QED BY <1>1, <1>3, <1>4, BoundedInduction
<1> SUFFICES ASSUME NEW k \in 1..M
             PROVE  p[k] \in Occurrences(name, frags[k]) /\ p[k - 1] <= p[k]
  OBVIOUS
<1>6. /\ M - k \in 0..M /\ M - (M - k) = k
      /\ M - (k - 1) \in 0..M /\ M - (M - (k - 1)) = k - 1 /\ k - 1 \in 0..M
  <2> HIDE DEF M
  <2> QED BY <1>1
<1>7. p[M - (M - k)] # 0 /\ p[M - (M - (k - 1))] # 0
  <2>1. M - k \in T /\ M - (k - 1) \in T
    <3> HIDE DEF T, M
    <3> QED BY ONLY <1>5, <1>6
  <2> QED BY <2>1
<1>8. p[k] # 0 /\ p[k - 1] # 0
  <2> HIDE DEF M
  <2> QED BY <1>6, <1>7
<1>9. p[k - 1] \in Nat \ {0} /\ p[k] = Strstr(name, p[k - 1], frags[k])
  <2>1. p[k - 1] \in V
    <3> HIDE DEF V, M
    <3> QED BY <1>2, <1>6
  <2>2. p[k - 1] \in Nat
    BY <1>1, <2>1
  <2> QED BY <1>2, <1>8, <2>2
<1> QED BY <1>1, <1>8, <1>9, StrstrFinds

LEMMA MatchMeans ==
  ASSUME NEW S, NEW name \in Seq(S), NEW token \in Seq(S), token # <<>>,
         FuzzyMatch(name, token), ~Overlapping(name, token)
  PROVE  Glob(name, token)
<1> DEFINE N == Len(token)
           L == Len(name)
           frags == Frags(token)
           M == Len(frags)
           p == Places(name, frags)
<1>1. frags \in Seq(Seq(S)) /\ \E n, w : Fragmented(token, frags, n, w)
  BY FragsFragment
<1>2. PICK n, w : Fragmented(token, frags, n, w)
  BY <1>1
<1>3. Placing(p, name, frags)
  <2> HIDE DEF frags
  <2> QED BY <1>1, PlacesPlace
<1>4. PICK e : Ending(e, name, token) /\ (Glob(name, token) <=> L \in e[N])
  BY GlobEnds
<1>5. /\ p[M] # 0
      /\ token[1] = "*" \/ p[1] = 1
      /\ token[N] = "*" \/ SubSeq(name, p[M], L) = frags[M]
  BY DEF FuzzyMatch, Last
<1>6. \A k \in 1..(M - 1) : \A i \in Occurrences(name, frags[k]), j \in Occurrences(name, frags[k + 1]) :
        frags[k + 1] # <<>> /\ i <= j => ~(j < i + Len(frags[k]))
  BY DEF Overlapping
<1> HIDE DEF frags, p
<1>7. /\ N \in Nat \ {0} /\ L \in Nat /\ M \in Nat \ {0}
      /\ \A k \in 1..M : frags[k] \in Seq(S) /\ Len(frags[k]) \in Nat /\ (Len(frags[k]) = 0 <=> frags[k] = <<>>)
  <2>1. N \in Nat /\ N # 0 /\ L \in Nat
    OBVIOUS
  <2>2. M \in Nat /\ \A k \in 1..M : frags[k] \in Seq(S)
    BY <1>1
  <2>3. M # 0
    <3>1. M = n[N] + 1 /\ n[N] \in Nat
      <4>1. N \in 0..N
        BY <2>1
      <4> HIDE DEF N
      <4> QED BY <1>2, <4>1 DEF Fragmented, N
    <3> QED BY <3>1
  <2>4. \A s \in Seq(S) : Len(s) \in Nat /\ (Len(s) = 0 <=> s = <<>>)
    OBVIOUS
  <2> QED BY <2>1, <2>2, <2>3, <2>4
<1>8. \A k \in 1..M : /\ p[k] \in Occurrences(name, frags[k]) /\ p[k - 1] <= p[k]
                      /\ p[k] \in Nat \ {0} /\ p[k] + Len(frags[k]) <= L + 1
                      /\ \A x \in 1..Len(frags[k]) : name[(p[k] - 1) + x] = frags[k][x]
  <2> SUFFICES ASSUME NEW k \in 1..M
               PROVE  /\ p[k] \in Occurrences(name, frags[k]) /\ p[k - 1] <= p[k]
                      /\ p[k] \in Nat \ {0} /\ p[k] + Len(frags[k]) <= L + 1
                      /\ \A x \in 1..Len(frags[k]) : name[(p[k] - 1) + x] = frags[k][x]
    OBVIOUS
  <2>1. p[k] \in Occurrences(name, frags[k]) /\ p[k - 1] <= p[k]
    BY <1>1, <1>3, <1>5, AllFound
  <2> QED BY <1>7, <2>1, OccurrenceIs
<1> DEFINE K == [k \in 1..M |-> IF frags[k] = <<>> THEN L + 1 ELSE p[k]]
<1>9. /\ \A k \in 1..M : K[k] \in Nat \ {0} /\ K[k] <= L + 1
      /\ \A k \in 1..M : frags[k] # <<>> => K[k] = p[k]
      /\ \A k \in 1..M : frags[k] = <<>> => K[k] = L + 1
  <2>1. \A k \in 1..M : p[k] <= L + 1
    <3> HIDE DEF M, L
    <3> QED BY <1>7, <1>8
  <2> HIDE DEF M, L
  <2> QED BY <1>7, <1>8, <2>1
<1> HIDE DEF K
<1>10. \A k \in 1..(M - 1) : p[k] + Len(frags[k]) <= K[k + 1]
  <2> SUFFICES ASSUME NEW k \in 1..(M - 1) PROVE p[k] + Len(frags[k]) <= K[k + 1]
    OBVIOUS
  <2>1. k \in 1..M /\ k + 1 \in 1..M /\ (k + 1) - 1 = k
    <3> HIDE DEF M
    <3> QED BY <1>7
  <2>2. p[k] \in Nat /\ p[k + 1] \in Nat /\ Len(frags[k]) \in Nat /\ p[k] + Len(frags[k]) <= L + 1
        /\ p[k] <= p[k + 1]
    <3> HIDE DEF M, L
    <3> QED BY <1>7, <1>8, <2>1
  <2>3. CASE frags[k + 1] = <<>>
    <3> HIDE DEF M, L
    <3> QED BY <1>9, <2>1, <2>2, <2>3
  <2>4. CASE frags[k + 1] # <<>>
    <3>1. ~(p[k + 1] < p[k] + Len(frags[k]))
      <4> HIDE DEF M, L
      <4> QED BY <1>6, <1>8, <2>1, <2>2, <2>4
    <3>2. K[k + 1] = p[k + 1]
      <4> HIDE DEF M, L
      <4> QED BY <1>9, <2>1, <2>4
    <3> HIDE DEF M, L
    <3> QED BY <2>2, <3>1, <3>2
  <2> QED BY <2>3, <2>4
<1>11. /\ e[0] = {0} /\ \A j \in 1..N : e[j] = Reach(name, e[j - 1], token[j])
  BY <1>4 DEF Ending
<1>12. /\ \A j \in 0..N : n[j] \in Nat /\ w[j] \in Nat /\ n[j] < M /\ w[j] <= Len(frags[n[j] + 1])
       /\ n[0] = 0 /\ w[0] = 0
       /\ \A j \in 1..N : FragStep(token, frags, n, w, j)
       /\ M = n[N] + 1 /\ Len(frags[M]) = w[N]
  BY <1>2 DEF Fragmented
<1> HIDE DEF N, L, M
<1> DEFINE In(j) == \/ j = 0 /\ token[1] = "*"
                    \/ (K[n[j] + 1] - 1) + w[j] \in e[j]
<1>13. In(0)
  <2>1. CASE token[1] = "*"
    BY <2>1
  <2>2. CASE token[1] # "*"
    <3>1. 1 \in 1..N /\ 1 \in 0..N /\ 1 - 1 = 0 /\ 0 + 1 = 1 /\ 1 \in 1..M
      BY <1>7
    <3>2. n[1] = 0 /\ w[1] = 1 /\ w[1] <= Len(frags[1])
      <4>1. n[1] = n[0] /\ w[1] = w[0] + 1
        BY <1>12, <2>2, <3>1 DEF FragStep
      <4> QED BY <1>12, <3>1, <4>1
    <3>3. frags[1] # <<>>
      BY <1>7, <3>1, <3>2
    <3>4. K[1] = 1
      BY <1>5, <1>9, <2>2, <3>1, <3>3
    <3>5. (K[n[0] + 1] - 1) + w[0] = 0
      BY <1>12, <3>1, <3>4
    <3> QED BY <1>11, <3>5
  <2> QED BY <2>1, <2>2
<1>14. ASSUME NEW j \in 1..N, In(j - 1) PROVE In(j)
  <2> DEFINE m == n[j] + 1
             i == (K[m] - 1) + w[j]
  <2>1. j \in 0..N /\ j - 1 \in 0..N /\ j # 0
    BY <1>7
  <2>2. n[j] \in Nat /\ n[j] < M /\ m \in 1..M /\ w[j] \in Nat /\ w[j] <= Len(frags[m])
        /\ w[j - 1] \in Nat
    <3>1. n[j] \in Nat /\ n[j] < M /\ w[j] \in Nat /\ w[j] <= Len(frags[n[j] + 1]) /\ w[j - 1] \in Nat
      BY <1>12, <2>1
    <3>2. n[j] + 1 \in 1..M
      BY <1>7, <3>1
    <3> QED BY <3>1, <3>2
  <2>3. K[m] \in Nat \ {0} /\ K[m] <= L + 1
    <3> HIDE DEF m
    <3> QED BY <1>9, <2>2
  <2>4. e[j] = Reach(name, e[j - 1], token[j])
    BY <1>11
  <2>5. CASE /\ token[j] # "*" /\ n[j] = n[j - 1] /\ w[j] = w[j - 1] + 1
             /\ frags[m][w[j]] = token[j]
    <3>1. (K[m] - 1) + w[j - 1] \in e[j - 1]
      <4>1. ~(j - 1 = 0 /\ token[1] = "*")
        <5>1. j - 1 = 0 => j = 1
          BY <2>1, <1>7
        <5> QED BY <2>5, <5>1
      <4>2. (K[n[j - 1] + 1] - 1) + w[j - 1] \in e[j - 1]
        BY <1>14, <4>1
      <4> QED BY <2>5, <4>2
    <3>2. frags[m] # <<>>
      <4> HIDE DEF m
      <4> QED BY <1>7, <2>2, <2>5
    <3>3. K[m] = p[m] /\ p[m] + Len(frags[m]) <= L + 1 /\ p[m] \in Nat \ {0} /\ Len(frags[m]) \in Nat
          /\ name[(p[m] - 1) + w[j]] = frags[m][w[j]]
      <4>1. w[j] \in 1..Len(frags[m])
        <5> HIDE DEF m
        <5> QED BY <1>7, <2>2, <2>5
      <4> HIDE DEF m
      <4> QED BY <1>7, <1>8, <1>9, <2>2, <3>2, <4>1
    <3>4. i \in 1..L /\ i - 1 = (K[m] - 1) + w[j - 1]
      <4>1. L \in Nat /\ w[j] = w[j - 1] + 1 /\ w[j - 1] \in Nat /\ w[j] <= Len(frags[m])
        BY <1>7, <2>2, <2>5
      <4> DEFINE a == p[m]
                 b == Len(frags[m])
                 v == w[j - 1]
      <4>2. a \in Nat /\ a # 0 /\ b \in Nat /\ v \in Nat /\ L \in Nat /\ a + b <= L + 1
            /\ v + 1 <= b /\ K[m] = a /\ w[j] = v + 1
        BY <3>3, <4>1
      <4> HIDE DEF m, a, b, v
      <4>3. (a - 1) + (v + 1) \in 1..L /\ ((a - 1) + (v + 1)) - 1 = (a - 1) + v
        BY ONLY <4>2
      <4> QED BY ONLY <4>2, <4>3 DEF v
    <3>5. name[i] = token[j]
      <4> HIDE DEF m
      <4> QED BY <2>5, <3>3
    <3>6. i - 1 \in e[j - 1]
      <4> HIDE DEF m, i
      <4> QED BY ONLY <3>1, <3>4
    <3>7. i \in Reach(name, e[j - 1], token[j])
      <4> HIDE DEF i
      <4> QED BY <2>5, <3>4, <3>5, <3>6, ReachIs DEF L
    <3> QED BY <2>4, <3>7
  <2>6. CASE token[j] = "*" /\ w[j - 1] = 0 /\ n[j] = n[j - 1] /\ w[j] = 0
    <3>1. i \in 0..L /\ i = K[m] - 1
      <4> HIDE DEF m
      <4> QED BY <1>7, <2>3, <2>6
    <3>2. \E h \in e[j - 1] : h <= i
      <4>1. CASE j - 1 = 0 /\ token[1] = "*"
        <5>1. 0 \in e[j - 1] /\ 0 <= i
          <6> HIDE DEF i
          <6> QED BY <1>7, <1>11, <3>1, <4>1
        <5> QED BY <5>1
      <4>2. CASE (K[n[j - 1] + 1] - 1) + w[j - 1] \in e[j - 1]
        <5>1. i \in e[j - 1] /\ i <= i
          <6>1. (K[m] - 1) + w[j] \in e[j - 1]
            BY <2>6, <4>2
          <6> HIDE DEF m
          <6> QED BY <1>7, <3>1, <6>1
        <5> QED BY <5>1
      <4> QED BY <1>14, <4>1, <4>2
    <3>3. i \in Reach(name, e[j - 1], token[j])
      <4> HIDE DEF i
      <4> QED BY <2>6, <3>1, <3>2, ReachIs DEF L
    <3> QED BY <2>4, <3>3
  <2>7. CASE /\ token[j] = "*" /\ w[j - 1] # 0 /\ n[j] = n[j - 1] + 1 /\ w[j] = 0
             /\ Len(frags[n[j]]) = w[j - 1]
    <3> DEFINE k == n[j]
               h == (K[k] - 1) + w[j - 1]
    <3>1. n[j - 1] \in Nat /\ k = n[j - 1] + 1 /\ k \in 1..(M - 1) /\ k \in 1..M /\ m = k + 1
      <4>1. n[j - 1] \in Nat
        BY <1>12, <2>1
      <4> QED BY <1>7, <2>2, <2>7, <4>1
    <3>2. h \in e[j - 1]
      <4>1. j - 1 # 0
        BY <1>12, <2>7
      <4>2. (K[n[j - 1] + 1] - 1) + w[j - 1] \in e[j - 1]
        BY <1>14, <4>1
      <4> QED BY <2>7, <4>2
    <3>3. frags[k] # <<>>
      <4> HIDE DEF k
      <4> QED BY <1>7, <2>7, <3>1 DEF k
    <3>4. K[k] = p[k] /\ p[k] + Len(frags[k]) <= K[k + 1] /\ p[k] \in Nat
      <4> HIDE DEF k
      <4> QED BY <1>8, <1>9, <1>10, <3>1, <3>3
    <3>5. h <= i /\ i \in 0..L
      <4>1. Len(frags[k]) = w[j - 1]
        BY <2>7
      <4>2. K[k + 1] = K[m]
        BY <3>1
      <4>3. L \in Nat /\ w[j - 1] \in Nat /\ w[j] = 0
        BY <1>7, <2>2, <2>7
      <4> DEFINE a == p[k]
                 b == K[m]
                 v == w[j - 1]
      <4>4. a \in Nat /\ b \in Nat /\ b # 0 /\ v \in Nat /\ L \in Nat /\ a + v <= b /\ b <= L + 1
            /\ K[k] = a /\ w[j] = 0
        BY <2>3, <3>4, <4>1, <4>2, <4>3
      <4> HIDE DEF k, m, a, b, v
      <4>5. (a - 1) + v <= (b - 1) + 0 /\ (b - 1) + 0 \in 0..L
        BY ONLY <4>4
      <4> QED BY ONLY <4>4, <4>5 DEF b, v
    <3>6. i \in Reach(name, e[j - 1], token[j])
      <4> HIDE DEF i, h
      <4> QED BY <2>7, <3>2, <3>5, ReachIs DEF L
    <3> QED BY <2>4, <3>6
  <2>8. FragStep(token, frags, n, w, j)
    BY <1>12
  <2> QED BY <2>5, <2>6, <2>7, <2>8 DEF FragStep
<1>15. In(N)
  <2> DEFINE T == {j \in Nat : In(j)}
  <2>1. 0 \in T
    BY <1>13
  <2>2. ASSUME NEW j \in 0..(N - 1), j \in T PROVE j + 1 \in T
    <3>1. j + 1 \in 1..N /\ (j + 1) - 1 = j /\ j + 1 \in Nat
      BY <1>7
    <3>2. In(j)
      BY <2>2
    <3> HIDE DEF In
    <3>3. In((j + 1) - 1)
      BY <3>1, <3>2
    <3>4. In(j + 1)
      BY <1>14, <3>1, <3>3
    <3> QED BY <3>1, <3>4
  <2>3. N \in T
    <3>1. N \in 0..N /\ N \in Nat
      BY <1>7
    <3> HIDE DEF T
    <3> QED BY <2>1, <2>2, <3>1, BoundedInduction
  <2> QED BY <2>3
<1>16. (K[M] - 1) + w[N] \in e[N]
  BY <1>7, <1>12, <1>15
<1>17. M \in 1..M /\ w[N] \in Nat /\ N \in 1..N /\ N \in 0..N /\ N - 1 \in 0..N
  BY <1>7, <1>12
<1>18. CASE frags[M] = <<>>
  <2>1. K[M] = L + 1 /\ w[N] = 0 /\ L \in Nat
    BY <1>7, <1>9, <1>12, <1>17, <1>18
  <2>2. (K[M] - 1) + w[N] = L
    BY ONLY <2>1
  <2> QED BY <1>4, <1>16, <2>2 DEF N, L
<1>19. CASE frags[M] # <<>>
  <2>1. token[N] # "*"
    <3>1. w[N] # 0
      BY <1>7, <1>12, <1>17, <1>19
    <3> QED BY <1>12, <1>17, <3>1 DEF FragStep
  <2>2. K[M] = p[M] /\ p[M] \in Nat \ {0} /\ p[M] + w[N] <= L + 1
    BY <1>8, <1>9, <1>12, <1>17, <1>19
  <2>3. SubSeq(name, p[M], L) = frags[M]
    BY <1>5, <2>1 DEF M, N, L
  <2>4. Len(SubSeq(name, p[M], L)) = (L + 1) - p[M]
    <3> DEFINE u == (L + 1) - p[M]
    <3>1. u \in Nat /\ p[M] + u <= L + 1 /\ (p[M] + u) - 1 = L
      <4>1. \A a, b, l \in Nat : a + b <= l + 1 =>
              (l + 1) - a \in Nat /\ a + ((l + 1) - a) <= l + 1 /\ (a + ((l + 1) - a)) - 1 = l
        OBVIOUS
      <4>2. p[M] \in Nat /\ w[N] \in Nat /\ L \in Nat /\ p[M] + w[N] <= L + 1
        BY <1>7, <1>17, <2>2
      <4> QED BY ONLY <4>1, <4>2 DEF u
    <3> HIDE DEF u
    <3>2. Len(SubSeq(name, p[M], (p[M] + u) - 1)) = u
      BY <2>2, <3>1, SubSeqIs DEF L
    <3> QED BY <3>1, <3>2 DEF u
  <2>5. (L + 1) - p[M] = w[N] /\ L \in Nat
    BY <1>7, <1>12, <2>3, <2>4
  <2>6. \A a, b, l \in Nat : (l + 1) - a = b => (a - 1) + b = l
    OBVIOUS
  <2>7. p[M] \in Nat /\ w[N] \in Nat /\ K[M] = p[M]
    BY <1>17, <2>2
  <2>8. (K[M] - 1) + w[N] = L
    BY ONLY <2>5, <2>6, <2>7
  <2> QED BY <1>4, <1>16, <2>8 DEF N, L
<1> QED BY <1>18, <1>19

\* Whatever the fragments so far leave is in the name as far as i, and the search
\* has come no further: the fragments that have ended are found, before the
\* characters of the next one.
Behind(name, token, frags, n, w, p, j, i) ==
  /\ w[j] <= i
  /\ \A x \in 1..w[j] : name[(i - w[j]) + x] = frags[n[j] + 1][x]
  /\ p[n[j]] # 0
  /\ n[j] # 0 => p[n[j]] + Len(frags[n[j]]) <= (i - w[j]) + 1
  /\ token[1] # "*" /\ n[j] = 0 => i = j /\ w[j] = j
  /\ token[1] # "*" /\ n[j] # 0 => p[1] = 1

\* The next fragment is there at the end of that, and it is found.
Found(name, token, frags, n, w, p, j, i) ==
  LET k == n[j] + 1
      q == (i - w[j]) + 1
  IN  /\ k \in 1..Len(frags) /\ q \in Nat \ {0}
      /\ q \in Occurrences(name, frags[k])
      /\ p[k] # 0 /\ p[k] \in Nat /\ p[k] <= q /\ p[k] \in Occurrences(name, frags[k])
      /\ token[1] # "*" => p[1] = 1

LEMMA NextFound ==
  ASSUME NEW S, NEW name \in Seq(S), NEW token \in Seq(S), NEW frags \in Seq(Seq(S)),
         NEW n, NEW w, Fragmented(token, frags, n, w), NEW p, Placing(p, name, frags),
         NEW j \in 0..Len(token), NEW i \in 0..Len(name),
         Behind(name, token, frags, n, w, p, j, i), Len(frags[n[j] + 1]) = w[j]
  PROVE  Found(name, token, frags, n, w, p, j, i)
<1> DEFINE M == Len(frags)
           L == Len(name)
           k == n[j] + 1
           q == (i - w[j]) + 1
<1>1. n[j] \in Nat /\ w[j] \in Nat /\ n[j] < M /\ M \in Nat /\ L \in Nat
  <2>1. M \in Nat /\ L \in Nat
    OBVIOUS
  <2>2. /\ n \in [0..Len(token) -> Nat] /\ w \in [0..Len(token) -> Nat]
        /\ \A h \in 0..Len(token) : n[h] < M
    BY DEF Fragmented
  <2> QED BY ONLY <2>1, <2>2, j \in 0..Len(token)
<1>2. k \in 1..M /\ k - 1 = n[j] /\ n[j] \in 0..M /\ frags[k] \in Seq(S)
  <2>1. k \in 1..M /\ k - 1 = n[j] /\ n[j] \in 0..M
    <3> DEFINE a == n[j]
    <3>1. a \in Nat /\ a < M /\ M \in Nat
      BY <1>1
    <3> HIDE DEF a, M
    <3>2. a + 1 \in 1..M /\ (a + 1) - 1 = a /\ a \in 0..M
      BY ONLY <3>1
    <3> QED BY <3>2 DEF a
  <2> QED BY <2>1
<1>3. w[j] <= i /\ i \in Nat /\ i <= L
  BY <1>1 DEF Behind
<1>4. q \in Nat \ {0} /\ q + w[j] <= L + 1 /\ q - 1 = i - w[j]
  <2> DEFINE v == w[j]
  <2>1. v \in Nat /\ v <= i /\ i \in Nat /\ i <= L /\ L \in Nat
    BY <1>1, <1>3
  <2> HIDE DEF v, L
  <2>2. (i - v) + 1 \in Nat \ {0} /\ ((i - v) + 1) + v <= L + 1 /\ ((i - v) + 1) - 1 = i - v
    BY ONLY <2>1
  <2> QED BY <2>2 DEF v
<1>5. \A x \in 1..w[j] : name[(q - 1) + x] = frags[k][x]
  BY <1>4 DEF Behind
<1>6. q \in Occurrences(name, frags[k])
  <2>1. Len(frags[k]) = w[j]
    OBVIOUS
  <2> HIDE DEF k, q
  <2> QED BY <1>2, <1>4, <1>5, <2>1, OccurrenceIs
<1>7. p[n[j]] \in Nat \ {0} /\ p[n[j]] <= q
  <2>1. p[n[j]] # 0 /\ p[n[j]] \in 0..(L + 1)
    BY <1>2 DEF Behind, Placing
  <2>2. CASE n[j] = 0
    <3>1. p[n[j]] = 1
      BY <2>2 DEF Placing
    <3> HIDE DEF q
    <3> QED BY <1>4, <3>1
  <2>3. CASE n[j] # 0
    <3>1. n[j] \in 1..M
      <4> HIDE DEF M
      <4> QED BY <1>1, <2>3
    <3>2. Len(frags[n[j]]) \in Nat
      BY <3>1
    <3>3. p[n[j]] + Len(frags[n[j]]) <= q
      BY <2>3 DEF Behind
    <3> DEFINE a == p[n[j]]
               b == Len(frags[n[j]])
    <3>4. a \in Nat /\ a # 0 /\ b \in Nat /\ a + b <= q /\ q \in Nat
      <4>1. a \in Nat
        <5> HIDE DEF L
        <5> QED BY <1>1, <2>1
      <4> QED BY <1>4, <2>1, <3>2, <3>3, <4>1
    <3> HIDE DEF a, b, q
    <3>5. a \in Nat \ {0} /\ a <= q
      BY ONLY <3>4
    <3> QED BY <3>5 DEF a
  <2> QED BY <2>2, <2>3
<1>8. p[k] = Strstr(name, p[n[j]], frags[k])
  <2>1. p[k] = IF p[k - 1] = 0 THEN 0 ELSE Strstr(name, p[k - 1], frags[k])
    <3> HIDE DEF k, M
    <3> QED BY <1>2 DEF Placing, M
  <2> HIDE DEF k
  <2> QED BY <1>2, <1>7, <2>1
<1>9. p[k] # 0 /\ p[k] <= q /\ p[k] \in Occurrences(name, frags[k])
  <2> HIDE DEF k, q
  <2> QED BY <1>2, <1>6, <1>7, <1>8, StrstrFinds
<1>10. p[k] \in Nat
  <2> HIDE DEF k
  <2> QED BY <1>2, <1>9, OccurrenceIs
<1>11. ASSUME token[1] # "*" PROVE p[1] = 1
  <2>1. CASE n[j] = 0
    <3>1. i = j /\ w[j] = j
      BY <1>11, <2>1 DEF Behind
    <3>2. q = 1 /\ k = 1
      BY <1>3, <2>1, <3>1
    <3>3. p[1] # 0 /\ p[1] <= 1 /\ p[1] \in Nat
      <4> HIDE DEF k, q
      <4> QED BY <1>9, <1>10, <3>2
    <3> QED BY ONLY <3>3
  <2>2. CASE n[j] # 0
    BY <1>11, <2>2 DEF Behind
  <2> QED BY <2>1, <2>2
<1> HIDE DEF M
<1> QED BY <1>2, <1>4, <1>6, <1>9, <1>10, <1>11 DEF M, Found

LEMMA StaysBehind ==
  ASSUME NEW S, NEW name \in Seq(S), NEW token \in Seq(S), NEW frags \in Seq(Seq(S)),
         NEW n, NEW w, Fragmented(token, frags, n, w), NEW p, Placing(p, name, frags),
         NEW e, Ending(e, name, token), NEW j \in 1..Len(token),
         \A h \in e[j - 1] : Behind(name, token, frags, n, w, p, j - 1, h)
  PROVE  \A i \in e[j] : Behind(name, token, frags, n, w, p, j, i)
<1> DEFINE N == Len(token)
           L == Len(name)
           m == n[j] + 1
<1>1. N \in Nat /\ L \in Nat /\ j \in 0..N /\ j - 1 \in 0..N /\ j \in Nat \ {0}
  OBVIOUS
<1>2. /\ n[j] \in Nat /\ w[j] \in Nat /\ n[j - 1] \in Nat /\ w[j - 1] \in Nat
      /\ FragStep(token, frags, n, w, j)
  <2>1. /\ n \in [0..N -> Nat] /\ w \in [0..N -> Nat] /\ FragStep(token, frags, n, w, j)
    BY DEF Fragmented
  <2> HIDE DEF N
  <2> QED BY ONLY <1>1, <2>1
<1>3. e[j] = Reach(name, e[j - 1], token[j]) /\ e[j - 1] \subseteq 0..L
  BY <1>1 DEF Ending
<1> SUFFICES ASSUME NEW i \in e[j] PROVE Behind(name, token, frags, n, w, p, j, i)
  OBVIOUS
<1>4. CASE /\ token[j] # "*" /\ n[j] = n[j - 1] /\ w[j] = w[j - 1] + 1
           /\ frags[n[j] + 1][w[j]] = token[j]
  <2> DEFINE v == w[j - 1]
             h == i - 1
  <2>1. i \in 1..L /\ h \in e[j - 1] /\ name[i] = token[j]
    BY <1>3, <1>4, ReachIs
  <2>2. Behind(name, token, frags, n, w, p, j - 1, h)
    BY <2>1
  <2>3. /\ v <= h /\ \A x \in 1..v : name[(h - v) + x] = frags[m][x]
        /\ p[n[j]] # 0
        /\ n[j] # 0 => p[n[j]] + Len(frags[n[j]]) <= (h - v) + 1
        /\ token[1] # "*" /\ n[j] = 0 => h = j - 1 /\ v = j - 1
        /\ token[1] # "*" /\ n[j] # 0 => p[1] = 1
    BY <1>4, <2>2 DEF Behind
  <2>4. /\ i \in Nat /\ h = i - 1 /\ v \in Nat /\ w[j] = v + 1 /\ j \in Nat
    BY <1>1, <1>2, <1>4, <2>1
  <2> HIDE DEF v, h, m
  <2>5. w[j] <= i /\ i - w[j] = h - v /\ (h - v) + w[j] = i
    BY ONLY <2>3, <2>4
  <2>6. \A x \in 1..w[j] : x \in 1..v \/ x = w[j]
    BY ONLY <2>4
  <2>7. \A x \in 1..w[j] : name[(h - v) + x] = frags[m][x]
    BY <1>4, <2>1, <2>3, <2>5, <2>6 DEF m
  <2>8. h = j - 1 /\ v = j - 1 => i = j /\ w[j] = j
    BY ONLY <2>4
  <2> QED BY <2>3, <2>5, <2>7, <2>8 DEF Behind, m
<1>5. CASE token[j] = "*" /\ w[j - 1] = 0 /\ n[j] = n[j - 1] /\ w[j] = 0
  <2>1. i \in 0..L /\ \E h \in e[j - 1] : h <= i
    BY <1>3, <1>5, ReachIs
  <2>2. PICK h \in e[j - 1] : h <= i
    BY <2>1
  <2>3. Behind(name, token, frags, n, w, p, j - 1, h)
    OBVIOUS
  <2>4. /\ p[n[j]] # 0
        /\ n[j] # 0 => p[n[j]] + Len(frags[n[j]]) <= (h - 0) + 1
        /\ token[1] # "*" /\ n[j] = 0 => 0 = j - 1
        /\ token[1] # "*" /\ n[j] # 0 => p[1] = 1
    BY <1>5, <2>3 DEF Behind
  <2>5. i \in Nat /\ h \in Nat /\ h <= i
    <3>1. h \in 0..L
      BY <1>3
    <3> HIDE DEF L
    <3> QED BY <1>1, <2>1, <2>2, <3>1
  <2>6. n[j] # 0 => p[n[j]] + Len(frags[n[j]]) <= (i - 0) + 1
    <3> SUFFICES ASSUME n[j] # 0 PROVE p[n[j]] + Len(frags[n[j]]) <= (i - 0) + 1
      OBVIOUS
    <3> DEFINE a == p[n[j]] + Len(frags[n[j]])
    <3>1. a \in Int
      <4>1. n[j] \in 1..Len(frags)
        <5>1. n[j] \in 1..(Len(frags) - 1)
          <6>1. \A g \in 0..N : n[g] < Len(frags)
            BY ONLY Fragmented(token, frags, n, w) DEF Fragmented
          <6>2. n[j] < Len(frags) /\ Len(frags) \in Nat
            <7>1. n[j] < Len(frags)
              BY ONLY <1>1, <6>1
            <7>2. Len(frags) \in Nat
              BY ONLY frags \in Seq(Seq(S))
            <7> QED BY ONLY <7>1, <7>2
          <6> QED BY ONLY <1>2, <6>2, n[j] # 0
        <5> QED BY ONLY <5>1, Len(frags) \in Nat
      <4>2. p[n[j]] \in 0..(L + 1)
        <5>1. n[j] \in 0..Len(frags)
          BY <4>1
        <5> QED BY <5>1 DEF Placing
      <4>3. p[n[j]] \in Nat
        <5> HIDE DEF L
        <5> QED BY ONLY <1>1, <4>2
      <4>4. Len(frags[n[j]]) \in Nat
        BY <4>1
      <4> QED BY ONLY <4>3, <4>4
    <3>2. a <= (h - 0) + 1
      BY <2>4
    <3> HIDE DEF a
    <3>3. a <= (i - 0) + 1
      BY ONLY <2>5, <3>1, <3>2
    <3> QED BY <3>3 DEF a
  <2>7. token[1] # "*" => n[j] # 0
    <3>1. 0 = j - 1 => j = 1
      BY <1>1
    <3> QED BY <1>5, <2>4, <3>1
  <2>8. w[j] <= i /\ \A x \in 1..w[j] : FALSE
    BY <1>5, <2>5
  <2> QED BY <1>5, <2>4, <2>6, <2>7, <2>8 DEF Behind
<1>6. CASE /\ token[j] = "*" /\ w[j - 1] # 0 /\ n[j] = n[j - 1] + 1 /\ w[j] = 0
           /\ Len(frags[n[j]]) = w[j - 1]
  <2>1. i \in 0..L /\ \E h \in e[j - 1] : h <= i
    BY <1>3, <1>6, ReachIs
  <2>2. PICK h \in e[j - 1] : h <= i
    BY <2>1
  <2> DEFINE k == n[j]
             v == w[j - 1]
             q == (h - v) + 1
  <2>3. /\ p[k] # 0 /\ p[k] \in Nat /\ p[k] <= q
        /\ token[1] # "*" => p[1] = 1
    <3>1. h \in 0..Len(name) /\ Behind(name, token, frags, n, w, p, j - 1, h)
      BY <1>3
    <3>2. Len(frags[n[j - 1] + 1]) = w[j - 1] /\ k = n[j - 1] + 1
      BY <1>6
    <3>3. j - 1 \in 0..Len(token)
      BY <1>1
    <3>4. Found(name, token, frags, n, w, p, j - 1, h)
      BY ONLY <3>1, <3>2, <3>3, NextFound, name \in Seq(S), token \in Seq(S), frags \in Seq(Seq(S)),
              Fragmented(token, frags, n, w), Placing(p, name, frags)
    <3> HIDE DEF k
    <3> QED BY ONLY <3>2, <3>4 DEF Found, q, v
  <2>4. i \in Nat /\ h \in Nat /\ h <= i /\ v \in Nat
    <3>1. h \in 0..L
      BY <1>3
    <3> HIDE DEF L
    <3> QED BY <1>1, <1>2, <2>1, <2>2, <3>1
  <2>5. p[k] + Len(frags[k]) <= (i - w[j]) + 1
    <3> DEFINE a == p[k]
    <3>1. a \in Nat /\ a <= (h - v) + 1 /\ Len(frags[k]) = v /\ w[j] = 0
      BY <1>6, <2>3
    <3> HIDE DEF a, v
    <3>2. a + v <= (i - 0) + 1
      BY ONLY <2>4, <3>1
    <3> QED BY ONLY <3>1, <3>2 DEF a
  <2>6. w[j] <= i /\ (\A x \in 1..w[j] : FALSE) /\ n[j] # 0
    BY <1>2, <1>6, <2>4
  <2> QED BY <2>3, <2>5, <2>6 DEF Behind
<1> QED BY <1>2, <1>4, <1>5, <1>6 DEF FragStep

LEMMA MeaningMatches ==
  ASSUME NEW S, NEW name \in Seq(S), NEW token \in Seq(S), token # <<>>,
         Glob(name, token), ~RepeatedEnd(name, token)
  PROVE  FuzzyMatch(name, token)
<1> DEFINE N == Len(token)
           L == Len(name)
           frags == Frags(token)
           M == Len(frags)
           p == Places(name, frags)
<1>1. frags \in Seq(Seq(S)) /\ \E n, w : Fragmented(token, frags, n, w)
  BY FragsFragment
<1>2. PICK n, w : Fragmented(token, frags, n, w)
  BY <1>1
<1>3. Placing(p, name, frags)
  <2> HIDE DEF frags
  <2> QED BY <1>1, PlacesPlace
<1>4. PICK e : Ending(e, name, token) /\ L \in e[N]
  BY GlobEnds
<1>5. token[N] # "*" => \A i, j \in Occurrences(name, frags[M]) : i = j
  BY DEF RepeatedEnd, Last
<1>6. FuzzyMatch(name, token) <=>
        /\ p[M] # 0
        /\ token[1] = "*" \/ p[1] = 1
        /\ token[N] = "*" \/ SubSeq(name, p[M], L) = frags[M]
  BY DEF FuzzyMatch, Last
<1> HIDE DEF frags, p
<1>7. N \in Nat \ {0} /\ L \in Nat /\ N \in 0..N /\ L \in 0..L
  OBVIOUS
<1> DEFINE In(j) == \A i \in e[j] : Behind(name, token, frags, n, w, p, j, i)
<1>8. In(0)
  <2>1. e[0] = {0} /\ n[0] = 0 /\ w[0] = 0 /\ p[0] = 1
    BY <1>2, <1>3, <1>4 DEF Ending, Fragmented, Placing
  <2>2. \A x \in 1..0 : FALSE
    OBVIOUS
  <2>3. Behind(name, token, frags, n, w, p, 0, 0)
    BY <2>1, <2>2 DEF Behind
  <2> QED BY <2>1, <2>3
<1>9. ASSUME NEW j \in 1..N, In(j - 1) PROVE In(j)
  <2>1. \A h \in e[j - 1] : Behind(name, token, frags, n, w, p, j - 1, h)
    BY <1>9
  <2> QED BY <1>1, <1>2, <1>3, <1>4, <2>1, StaysBehind
<1>10. In(N)
  <2> DEFINE T == {j \in Nat : In(j)}
  <2> HIDE DEF N, In
  <2>1. 0 \in T
    BY <1>8
  <2>2. ASSUME NEW j \in 0..(N - 1), j \in T PROVE j + 1 \in T
    <3>1. j + 1 \in 1..N /\ (j + 1) - 1 = j /\ j + 1 \in Nat
      BY <1>7
    <3>2. In((j + 1) - 1)
      BY <2>2, <3>1
    <3>3. In(j + 1)
      BY <1>9, <3>1, <3>2
    <3> QED BY <3>1, <3>3
  <2>3. N \in T
    <3>1. N \in Nat
      BY <1>7
    <3> HIDE DEF T
    <3> QED BY <1>7, <2>1, <2>2, <3>1, BoundedInduction
  <2> QED BY <2>3
<1>11. Behind(name, token, frags, n, w, p, N, L)
  BY <1>4, <1>10
<1>12. M = n[N] + 1 /\ Len(frags[M]) = w[N]
  BY <1>2 DEF Fragmented
<1> DEFINE q == (L - w[N]) + 1
<1>13. /\ p[M] # 0 /\ q \in Occurrences(name, frags[M]) /\ p[M] \in Occurrences(name, frags[M])
       /\ token[1] # "*" => p[1] = 1
  <2>1. Len(frags[n[N] + 1]) = w[N]
    BY <1>12
  <2>2. Len(token) \in 0..Len(token) /\ Len(name) \in 0..Len(name)
    BY <1>7
  <2>3. Found(name, token, frags, n, w, p, N, L)
    BY ONLY <1>1, <1>2, <1>3, <1>11, <2>1, <2>2, NextFound, name \in Seq(S), token \in Seq(S)
  <2>4. M = n[N] + 1
    BY <1>12
  <2> HIDE DEF M, N, L
  <2> QED BY ONLY <2>3, <2>4 DEF Found, q
<1>14. ASSUME token[N] # "*" PROVE SubSeq(name, p[M], L) = frags[M]
  <2>1. p[M] = q
    BY <1>5, <1>13, <1>14
  <2>2. SubSeq(name, q, q + Len(frags[M]) - 1) = frags[M]
    BY <1>13 DEF Occurrences
  <2>3. q + Len(frags[M]) - 1 = L
    <3> DEFINE v == w[N]
    <3>1. v \in Nat /\ L \in Nat /\ Len(frags[M]) = v
      BY <1>2, <1>7, <1>12 DEF Fragmented
    <3> HIDE DEF v, L
    <3>2. (((L - v) + 1) + v) - 1 = L
      BY ONLY <3>1
    <3> QED BY ONLY <3>1, <3>2 DEF v
  <2>4. SubSeq(name, q, L) = frags[M]
    <3> HIDE DEF q, M, L
    <3> QED BY ONLY <2>2, <2>3
  <2> QED BY ONLY <2>1, <2>4
<1> QED BY <1>6, <1>13, <1>14

\* A pattern without asterisks means itself.
LEMMA PlainMeansItself ==
  ASSUME NEW S, NEW name \in Seq(S), NEW token \in Seq(S), ~IsFuzzy(token)
  PROVE  Glob(name, token) <=> name = token
<1> DEFINE N == Len(token)
           L == Len(name)
           Same(j, i) == i = j /\ j <= L /\ \A x \in 1..j : name[x] = token[x]
<1>1. PICK e : Ending(e, name, token) /\ (Glob(name, token) <=> L \in e[N])
  BY GlobEnds
<1>2. \A j \in 1..N : token[j] # "*"
  BY DEF IsFuzzy, Range
<1>3. N \in Nat /\ L \in Nat
  OBVIOUS
<1> DEFINE T == {j \in Nat : \A i : i \in e[j] <=> Same(j, i)}
<1>4. 0 \in T
  <2>1. e[0] = {0}
    BY <1>1 DEF Ending
  <2>2. \A i : Same(0, i) <=> i = 0
    BY <1>3
  <2> HIDE DEF Same
  <2> QED BY <2>1, <2>2
<1>5. ASSUME NEW j \in 0..(N - 1), j \in T PROVE j + 1 \in T
  <2>1. j + 1 \in 1..N /\ (j + 1) - 1 = j /\ j + 1 \in Nat /\ j \in Nat
    <3> HIDE DEF N
    <3> QED BY <1>3
  <2>2. e[j + 1] = Reach(name, e[j], token[j + 1])
    <3>1. e[j + 1] = Reach(name, e[(j + 1) - 1], token[j + 1])
      BY <1>1, <2>1 DEF Ending
    <3> QED BY <2>1, <3>1
  <2>3. token[j + 1] # "*"
    BY <1>2, <2>1
  <2> SUFFICES ASSUME NEW i PROVE i \in e[j + 1] <=> Same(j + 1, i)
    BY <2>1
  <2>4. i \in e[j + 1] <=> i \in 1..L /\ i - 1 \in e[j] /\ name[i] = token[j + 1]
    BY <2>2, <2>3, ReachIs
  <2>5. i - 1 \in e[j] <=> Same(j, i - 1)
    BY <1>5
  <2> HIDE DEF L
  <2>6. ASSUME i \in 1..L, Same(j, i - 1), name[i] = token[j + 1] PROVE Same(j + 1, i)
    <3>1. i = j + 1 /\ i <= L
      BY <1>3, <2>1, <2>6
    <3>2. \A x \in 1..(j + 1) : x \in 1..j \/ x = j + 1
      BY <2>1
    <3> QED BY <2>6, <3>1, <3>2
  <2>7. ASSUME Same(j + 1, i) PROVE i \in 1..L /\ Same(j, i - 1) /\ name[i] = token[j + 1]
    <3>1. i \in 1..L /\ i - 1 = j /\ j <= L /\ i = j + 1
      BY <1>3, <2>1, <2>7
    <3>2. \A x \in 1..j : x \in 1..(j + 1)
      BY <2>1
    <3>3. j + 1 \in 1..(j + 1)
      BY <2>1
    <3> QED BY <2>7, <3>1, <3>2, <3>3
  <2> HIDE DEF Same
  <2> QED BY ONLY <2>4, <2>5, <2>6, <2>7
<1>6. N \in T
  <2>1. N \in 0..N
    BY <1>3
  <2> HIDE DEF N, T
  <2> QED BY <1>3, <1>4, <1>5, <2>1, BoundedInduction
<1>7. L \in e[N] <=> L = N /\ \A x \in 1..N : name[x] = token[x]
  <2>1. L \in e[N] <=> Same(N, L)
    BY <1>6
  <2> HIDE DEF N, L
  <2> QED BY <1>3, <2>1
<1>8. name = token <=> L = N /\ \A x \in 1..L : name[x] = token[x]
  BY SeqEqual
<1> HIDE DEF N, L, T
<1> QED BY <1>1, <1>7, <1>8

\* The test of a name against a pattern, with an asterisk or without.
LEMMA FitMeans ==
  ASSUME NEW S, NEW name \in Seq(S), NEW token \in Seq(S),
         Fits(name, token), ~Overlapping(name, token)
  PROVE  Glob(name, token)
<1>1. CASE IsFuzzy(token)
  <2>1. token # <<>>
    BY <1>1 DEF IsFuzzy, Range
  <2>2. FuzzyMatch(name, token)
    BY <1>1 DEF Fits
  <2> QED BY <2>1, <2>2, MatchMeans
<1>2. CASE ~IsFuzzy(token)
  BY <1>2, PlainMeansItself DEF Fits
<1> QED BY <1>1, <1>2

LEMMA MeaningFits ==
  ASSUME NEW S, NEW name \in Seq(S), NEW token \in Seq(S),
         Glob(name, token), ~RepeatedEnd(name, token)
  PROVE  Fits(name, token)
<1>1. CASE IsFuzzy(token)
  <2>1. token # <<>>
    BY <1>1 DEF IsFuzzy, Range
  <2>2. FuzzyMatch(name, token)
    BY <2>1, MeaningMatches
  <2> QED BY <1>1, <2>2 DEF Fits
<1>2. CASE ~IsFuzzy(token)
  BY <1>2, PlainMeansItself DEF Fits
<1> QED BY <1>1, <1>2

-----------------------------------------------------------------------------
(* The search through the tree, and the calls that start it.               *)

\* p is there and every name of it fits the pattern's.
Leads(files, pattern, p) ==
  /\ p \in DOMAIN files /\ files[p].type \in {"dir", "reg"}
  /\ Len(p) = Len(pattern.names)
  /\ \A k \in 1..Len(pattern.names) : Fits(p[k], pattern.names[k])

\* In a tree, a search for an absolute pattern with an asterisk finds those paths,
\* from whichever directory it starts.
LEMMA RecurseDirFinds ==
  ASSUME NEW files, IsTree(files), NEW tokens \in Seq(Seq(Characters)),
         NEW plain \in 0..(Len(tokens) - 1), \A k \in 1..plain : ~IsFuzzy(tokens[k]), NEW p
  PROVE  p \in RecurseDir(files, SubSeq(tokens, 1, plain), SubSeq(tokens, plain + 1, Len(tokens)))
           <=> Leads(files, Path(TRUE, tokens), p)
<1> DEFINE T == Len(tokens)
           S == Seq(Characters)
           base == SubSeq(tokens, 1, plain)
           below == SubSeq(tokens, plain + 1, T)
<1>1. T \in Nat /\ plain \in Nat /\ plain < T
  OBVIOUS
<1>2. base \in Seq(S) /\ Len(base) = plain /\ \A k \in 1..plain : base[k] = tokens[k]
  <2>1. plain \in 0..T
    <3> HIDE DEF T
    <3> QED BY <1>1
  <2>2. tokens \in Seq(S)
    OBVIOUS
  <2> HIDE DEF S
  <2> QED BY ONLY <2>1, <2>2, PrefixIs DEF base, T
<1>3. below \in Seq(S) /\ Len(below) = T - plain /\ \A k \in 1..(T - plain) : below[k] = tokens[plain + k]
  <2> DEFINE w == T - plain
  <2>1. /\ (plain + 1) + w <= T + 1 /\ plain + 1 \in Nat \ {0} /\ w \in Nat
        /\ (plain + 1) + w - 1 = T /\ (plain + 1) - 1 = plain
    <3> HIDE DEF T
    <3> QED BY <1>1
  <2> HIDE DEF S, w
  <2>2. /\ SubSeq(tokens, plain + 1, (plain + 1) + w - 1) \in Seq(S)
        /\ Len(SubSeq(tokens, plain + 1, (plain + 1) + w - 1)) = w
        /\ \A x \in 1..w : SubSeq(tokens, plain + 1, (plain + 1) + w - 1)[x] = tokens[((plain + 1) - 1) + x]
    <3>1. tokens \in Seq(S)
      BY DEF S
    <3> QED BY ONLY <2>1, <3>1, SubSeqIs
  <2> QED BY ONLY <2>1, <2>2 DEF w
<1> HIDE DEF base, below
<1>4. DOMAIN below = 1..(T - plain)
  BY <1>3
<1>5. plain + (T - plain) = T
  <2> HIDE DEF T
  <2> QED BY <1>1
<1>6. ASSUME p \in DOMAIN files, Len(p) = T
      PROVE  /\ p \in Seq(S)
             /\ \A k \in 0..(T - 1) : IsDir(files, SubSeq(p, 1, k))
             /\ IsPrefix(base, p) <=> \A k \in 1..plain : p[k] = tokens[k]
             /\ IsPrefix(base, p) => SubSeq(p, 1, plain) = base
  <2>1. p \in Seq(S) /\ \A k \in 0..(T - 1) : IsDir(files, SubSeq(p, 1, k))
    BY <1>6 DEF IsTree
  <2>2. SubSeq(p, 1, plain) \in Seq(S) /\ Len(SubSeq(p, 1, plain)) = plain
        /\ \A k \in 1..plain : SubSeq(p, 1, plain)[k] = p[k]
    <3>1. plain \in 0..Len(p)
      <4> HIDE DEF T
      <4> QED BY <1>1, <1>6
    <3> HIDE DEF S
    <3> QED BY ONLY <2>1, <3>1, PrefixIs
  <2>3. SubSeq(base, 1, Len(base)) = base
    <3> HIDE DEF S
    <3> QED BY ONLY <1>2, SubSeqFull
  <2>4. IsPrefix(base, p) <=> base = SubSeq(p, 1, plain)
    <3>1. plain <= T
      <4> HIDE DEF T
      <4> QED BY <1>1
    <3> QED BY ONLY <1>2, <1>6, <2>3, <3>1 DEF IsPrefix
  <2>5. base = SubSeq(p, 1, plain) <=> \A k \in 1..plain : p[k] = tokens[k]
    <3> HIDE DEF S
    <3>1. ASSUME \A k \in 1..plain : p[k] = tokens[k] PROVE base = SubSeq(p, 1, plain)
      <4> DEFINE u == SubSeq(p, 1, plain)
      <4>1. /\ u \in Seq(S) /\ Len(base) = Len(u)
            /\ \A k \in 1..Len(base) : base[k] = u[k]
        BY ONLY <1>2, <2>2, <3>1
      <4> HIDE DEF u
      <4>2. base = u
        BY ONLY <1>2, <4>1, SeqEqual
      <4> QED BY <4>2 DEF u
    <3>2. ASSUME base = SubSeq(p, 1, plain) PROVE \A k \in 1..plain : p[k] = tokens[k]
      BY ONLY <1>2, <2>2, <3>2
    <3> QED BY ONLY <3>1, <3>2
  <2> QED BY <2>1, <2>4, <2>5
<1>7. p \in RecurseDir(files, base, below) <=>
        /\ IsDir(files, base)
        /\ p \in DOMAIN files
        /\ Len(p) = T /\ IsPrefix(base, p)
        /\ \A k \in 1..(T - plain) : Fits(p[plain + k], tokens[plain + k])
        /\ \A k \in plain..(Len(p) - 1) : IsDir(files, SubSeq(p, 1, k))
        /\ files[p].type \in {"dir", "reg"}
  BY <1>2, <1>3, <1>4, <1>5 DEF RecurseDir
<1>8. Leads(files, Path(TRUE, tokens), p) <=>
        /\ p \in DOMAIN files /\ files[p].type \in {"dir", "reg"} /\ Len(p) = T
        /\ \A k \in 1..T : Fits(p[k], tokens[k])
  BY DEF Leads, Path
<1>9. \A k \in 1..plain : Fits(p[k], tokens[k]) <=> p[k] = tokens[k]
  BY DEF Fits
<1>10. /\ \A k \in 1..T : k \in 1..plain \/ (k - plain \in 1..(T - plain) /\ plain + (k - plain) = k)
       /\ \A k \in 1..plain : k \in 1..T
       /\ \A k \in 1..(T - plain) : plain + k \in 1..T
       /\ plain \in 0..(T - 1) /\ \A k \in plain..(T - 1) : k \in 0..(T - 1)
  <2> HIDE DEF T
  <2> QED BY <1>1
<1>11. (\A k \in 1..T : Fits(p[k], tokens[k])) <=>
         /\ \A k \in 1..plain : p[k] = tokens[k]
         /\ \A k \in 1..(T - plain) : Fits(p[plain + k], tokens[plain + k])
  <2>1. ASSUME \A k \in 1..T : Fits(p[k], tokens[k])
        PROVE  /\ \A k \in 1..plain : p[k] = tokens[k]
               /\ \A k \in 1..(T - plain) : Fits(p[plain + k], tokens[plain + k])
    BY ONLY <1>9, <1>10, <2>1
  <2>2. ASSUME /\ \A k \in 1..plain : p[k] = tokens[k]
               /\ \A k \in 1..(T - plain) : Fits(p[plain + k], tokens[plain + k])
        PROVE  \A k \in 1..T : Fits(p[k], tokens[k])
    <3> SUFFICES ASSUME NEW k \in 1..T PROVE Fits(p[k], tokens[k])
      OBVIOUS
    <3>1. CASE k \in 1..plain
      BY ONLY <1>9, <2>2, <3>1
    <3>2. CASE k - plain \in 1..(T - plain) /\ plain + (k - plain) = k
      <4> DEFINE h == k - plain
      <4>1. h \in 1..(T - plain) /\ plain + h = k
        BY <3>2
      <4> HIDE DEF h
      <4>2. Fits(p[plain + h], tokens[plain + h])
        BY ONLY <2>2, <4>1
      <4> QED BY ONLY <4>1, <4>2
    <3> QED BY ONLY <1>10, <3>1, <3>2
  <2> QED BY ONLY <2>1, <2>2
<1>12. ASSUME p \in DOMAIN files, Len(p) = T, IsPrefix(base, p)
       PROVE  IsDir(files, base) /\ \A k \in plain..(Len(p) - 1) : IsDir(files, SubSeq(p, 1, k))
  <2>1. \A k \in 0..(T - 1) : IsDir(files, SubSeq(p, 1, k))
    BY <1>6, <1>12
  <2>2. SubSeq(p, 1, plain) = base
    BY <1>6, <1>12
  <2> QED BY ONLY <1>10, <1>12, <2>1, <2>2
<1> HIDE DEF T
<1>13. ASSUME p \in RecurseDir(files, base, below) PROVE Leads(files, Path(TRUE, tokens), p)
  <2>1. \A k \in 1..plain : p[k] = tokens[k]
    BY ONLY <1>6, <1>7, <1>13
  <2> QED BY ONLY <1>7, <1>8, <1>11, <1>13, <2>1
<1>14. ASSUME Leads(files, Path(TRUE, tokens), p) PROVE p \in RecurseDir(files, base, below)
  <2>1. IsPrefix(base, p)
    BY ONLY <1>6, <1>8, <1>11, <1>14
  <2> QED BY ONLY <1>7, <1>8, <1>11, <1>12, <1>14, <2>1
<1> QED BY <1>13, <1>14 DEF base, below, T

\* r is such a path.
LedTo(files, pattern, r) == \E p : Leads(files, pattern, p) /\ r = Path(TRUE, p)

LEMMA Fuzzy2PathFinds ==
  ASSUME NEW files, IsTree(files), NEW path \in PathType, Searched(path), NEW buf, NEW r
  PROVE  r \in Fuzzy2Path(files, path, buf) <=> LedTo(files, path, r)
<1> DEFINE tokens == path.names
           fuzzy == {k \in DOMAIN tokens : IsFuzzy(tokens[k])}
           first == CHOOSE k \in fuzzy : \A j \in fuzzy : k <= j
           plain == first - 1
           base == SubSeq(tokens, 1, plain)
           below == SubSeq(tokens, plain + 1, Len(tokens))
<1>1. tokens \in Seq(Seq(Characters)) /\ path.abs = TRUE /\ path = Path(TRUE, tokens)
  BY DEF PathType, Searched, Path
<1>2. DOMAIN tokens = 1..Len(tokens) /\ Len(tokens) \in Nat
  <2> HIDE DEF tokens
  <2> QED BY <1>1
<1>3. fuzzy # {} /\ fuzzy \in SUBSET Nat
  BY <1>2 DEF Searched
<1>4. first \in fuzzy /\ \A j \in fuzzy : first <= j
  <2> HIDE DEF fuzzy
  <2>1. \E k \in fuzzy : \A j \in fuzzy : k <= j
    BY ONLY <1>3, LeastNatural
  <2> QED BY <2>1
<1>5. first \in 1..Len(tokens) /\ \A k \in 1..Len(tokens) : IsFuzzy(tokens[k]) => first <= k
  <2> HIDE DEF first
  <2> QED BY <1>2, <1>4
<1>6. plain \in 0..(Len(tokens) - 1) /\ \A k \in 1..plain : ~IsFuzzy(tokens[k])
  <2> HIDE DEF first, tokens
  <2> QED BY <1>2, <1>5
<1>7. DirDepthMax \in Nat
  BY FuzzyAssumption
<1>8. Fuzzy2Path(files, path, buf) = {Path(TRUE, p) : p \in RecurseDir(files, base, below)}
  <2>1. ~((\E k \in fuzzy : TooFuzzy(tokens[k])) \/ Len(tokens) >= DirDepthMax)
    <3>1. Len(tokens) < DirDepthMax
      BY DEF Searched
    <3> QED BY <1>2, <1>7, <3>1 DEF Searched
  <2> DEFINE upto == IF fuzzy = {} THEN Len(tokens) ELSE first - 1
             start == IF upto = 0 /\ ~path.abs THEN buf ELSE Path(path.abs, SubSeq(tokens, 1, upto))
  <2>2. Fuzzy2Path(files, path, buf) =
          IF (\E k \in fuzzy : TooFuzzy(tokens[k])) \/ Len(tokens) >= DirDepthMax THEN {}
          ELSE IF fuzzy = {} THEN {start}
          ELSE {Path(start.abs, p) :
                  p \in RecurseDir(files, start.names, SubSeq(tokens, upto + 1, Len(tokens)))}
    BY DEF Fuzzy2Path
  <2>3. upto = plain /\ start = Path(TRUE, base)
    BY <1>1, <1>3
  <2>4. start.abs = TRUE /\ start.names = base
    <3>1. Path(TRUE, base).abs = TRUE /\ Path(TRUE, base).names = base
      BY DEF Path
    <3> HIDE DEF start, base, upto
    <3> QED BY ONLY <2>3, <3>1
  <2> HIDE DEF upto, start, fuzzy
  <2> QED BY ONLY <1>3, <2>1, <2>2, <2>3, <2>4
<1>9. \A p : p \in RecurseDir(files, base, below) <=> Leads(files, path, p)
  <2> SUFFICES ASSUME NEW p PROVE p \in RecurseDir(files, base, below) <=> Leads(files, path, p)
    OBVIOUS
  <2> HIDE DEF tokens, plain
  <2>1. p \in RecurseDir(files, base, below) <=> Leads(files, Path(TRUE, tokens), p)
    BY <1>1, <1>6, RecurseDirFinds
  <2> QED BY <1>1, <2>1
<1> HIDE DEF base, below
<1> QED BY ONLY <1>8, <1>9 DEF LedTo

\* Whatever a search gives is a path, and there are only so many.
LEMMA Fuzzy2PathType ==
  ASSUME NEW files, IsTree(files), NEW path \in PathType, NEW buf \in PathType
  PROVE  Fuzzy2Path(files, path, buf) \in SUBSET PathType /\ IsFiniteSet(Fuzzy2Path(files, path, buf))
<1> DEFINE tokens == path.names
           fuzzy == {k \in DOMAIN tokens : IsFuzzy(tokens[k])}
           first == CHOOSE k \in fuzzy : \A j \in fuzzy : k <= j
           plain == IF fuzzy = {} THEN Len(tokens) ELSE first - 1
           base == IF plain = 0 /\ ~path.abs THEN buf ELSE Path(path.abs, SubSeq(tokens, 1, plain))
           found == RecurseDir(files, base.names, SubSeq(tokens, plain + 1, Len(tokens)))
           paths == {Path(base.abs, p) : p \in found}
<1>1. tokens \in Seq(Seq(Characters)) /\ path.abs \in BOOLEAN
  BY DEF PathType
<1>2. DOMAIN tokens = 1..Len(tokens) /\ Len(tokens) \in Nat
  <2> HIDE DEF tokens
  <2> QED BY <1>1
<1>3. plain \in 0..Len(tokens)
  <2>1. CASE fuzzy = {}
    <3> HIDE DEF tokens
    <3> QED BY <1>2, <2>1
  <2>2. CASE fuzzy # {}
    <3>1. \E k \in fuzzy : \A j \in fuzzy : k <= j
      <4>1. fuzzy \in SUBSET Nat
        BY <1>2
      <4> HIDE DEF fuzzy
      <4> QED BY ONLY <2>2, <4>1, LeastNatural
    <3>2. first \in fuzzy
      <4> HIDE DEF fuzzy
      <4> QED BY ONLY <3>1 DEF first
    <3>3. first \in 1..Len(tokens)
      <4> HIDE DEF first
      <4> QED BY <1>2, <3>2
    <3> HIDE DEF first, fuzzy, tokens
    <3> QED BY ONLY <1>2, <2>2, <3>3 DEF plain
  <2> QED BY <2>1, <2>2
<1>4. base \in PathType
  <2>1. SubSeq(tokens, 1, plain) \in Seq(Seq(Characters))
    <3> HIDE DEF plain, tokens
    <3> QED BY ONLY <1>1, <1>3, PrefixIs
  <2> HIDE DEF plain, tokens
  <2> QED BY <1>1, <2>1 DEF PathType, Path
<1>5. base.abs \in BOOLEAN
  <2> HIDE DEF base
  <2> QED BY <1>4 DEF PathType
<1> HIDE DEF base
<1>6. IsFiniteSet(found) /\ found \in SUBSET Seq(Seq(Characters))
  <2>1. found \subseteq DOMAIN files
    BY DEF RecurseDir
  <2> HIDE DEF found
  <2>2. IsFiniteSet(DOMAIN files) /\ DOMAIN files \subseteq Seq(Seq(Characters))
    BY DEF IsTree
  <2> QED BY <2>1, <2>2, FS_Subset
<1> HIDE DEF found
<1>7. IsFiniteSet(paths) /\ paths \in SUBSET PathType
  <2> DEFINE g == [p \in found |-> Path(base.abs, p)]
  <2>1. g \in Surjection(found, paths)
    BY DEF Surjection
  <2>2. IsFiniteSet(paths)
    <3> HIDE DEF g, paths
    <3> QED BY <1>6, <2>1, FS_Surjection
  <2>3. paths \in SUBSET PathType
    BY <1>5, <1>6 DEF PathType, Path
  <2> QED BY <2>2, <2>3
<1>8. Fuzzy2Path(files, path, buf) \in {{}, {base}, paths}
  <2>1. Fuzzy2Path(files, path, buf) =
          IF (\E k \in fuzzy : TooFuzzy(tokens[k])) \/ Len(tokens) >= DirDepthMax THEN {}
          ELSE IF fuzzy = {} THEN {base}
          ELSE paths
    BY DEF Fuzzy2Path, base, found
  <2> HIDE DEF fuzzy, paths
  <2> QED BY <2>1
<1> HIDE DEF paths
<1>9. IsFiniteSet({}) /\ IsFiniteSet({base})
  BY FS_EmptySet, FS_Singleton
<1> QED BY <1>4, <1>7, <1>8, <1>9

\* The paths that fuzzypath_execute searches for, one after the other.
Searches(base, path) ==
  IF base = <<>> \/ path[1].abs THEN path
  ELSE FlattenSeq([i \in DOMAIN base |-> [j \in DOMAIN path |-> Join(base[i], path[j])]])

LEMMA JoinType ==
  ASSUME NEW b \in PathType, NEW p \in PathType
  PROVE  Join(b, p) \in PathType
<1>1. b.names \in Seq(Seq(Characters)) /\ p.names \in Seq(Seq(Characters)) /\ b.abs \in BOOLEAN
  BY DEF PathType
<1>2. b.names \o p.names \in Seq(Seq(Characters))
  BY <1>1
<1>3. (b.abs \/ b.names = <<>>) \in BOOLEAN
  BY <1>1
<1> QED BY <1>2, <1>3 DEF Join, Path, PathType

LEMMA SearchesHave ==
  ASSUME NEW base \in MultiPaths \cup {<<>>}, NEW path \in MultiPaths, NEW x
  PROVE  /\ Searches(base, path) \in Seq(PathType)
         /\ Has(Searches(base, path), x) <=>
              x \in IF base = <<>> \/ Head(path).abs THEN Range(path)
                    ELSE {Join(b, p) : b \in Range(base), p \in Range(path)}
<1> DEFINE m == Len(base)
           n == Len(path)
           Row(i) == [j \in 1..n |-> Join(base[i], path[j])]
           rows == [i \in 1..m |-> Row(i)]
<1>1. /\ base \in Seq(PathType) /\ path \in Seq(PathType) /\ m \in Nat /\ n \in Nat
      /\ DOMAIN base = 1..m /\ DOMAIN path = 1..n /\ path[1] = Head(path)
  <2>1. <<>> \in Seq(PathType)
    BY EmptySeq
  <2>2. base \in Seq(PathType) /\ path \in Seq(PathType) /\ path # <<>>
    BY <2>1 DEF MultiPaths
  <2>3. path[1] = Head(path)
    BY ONLY <2>2
  <2> QED BY ONLY <2>2, <2>3, LenProperties DEF m, n
<1>2. CASE base = <<>> \/ Head(path).abs
  <2>1. Searches(base, path) = path
    BY <1>1, <1>2 DEF Searches
  <2> QED BY <1>1, <1>2, <2>1 DEF Has, Range
<1>3. CASE ~(base = <<>> \/ Head(path).abs)
  <2>1. Searches(base, path) = FlattenSeq(rows)
    <3>1. rows = [i \in DOMAIN base |-> [j \in DOMAIN path |-> Join(base[i], path[j])]]
      BY <1>1
    <3> HIDE DEF rows
    <3> QED BY <1>1, <1>3, <3>1 DEF Searches
  <2>2. ASSUME NEW i \in 1..m PROVE Row(i) \in Seq(PathType) /\ Len(Row(i)) = n
    <3>1. \A j \in 1..n : Join(base[i], path[j]) \in PathType
      <4> SUFFICES ASSUME NEW j \in 1..n PROVE Join(base[i], path[j]) \in PathType
        OBVIOUS
      <4>1. base[i] \in PathType /\ path[j] \in PathType
        BY <1>1
      <4> QED BY ONLY <4>1, JoinType
    <3> HIDE DEF n
    <3> QED BY <1>1, <3>1
  <2>3. rows \in Seq(Seq(PathType)) /\ Len(rows) = m
    <3> HIDE DEF Row, m
    <3> QED BY <1>1, <2>2
  <2>4. FlattenSeq(rows) \in Seq(PathType)
    <3> HIDE DEF rows
    <3> QED BY <2>3, FlattenType
  <2>5. Has(FlattenSeq(rows), x) <=> \E i \in 1..m : Has(rows[i], x)
    <3> HIDE DEF rows
    <3> QED BY <2>3, FlattenHas
  <2>6. ASSUME NEW i \in 1..m
        PROVE  Has(rows[i], x) <=> \E j \in 1..n : Join(base[i], path[j]) = x
    <3>1. rows[i] = Row(i) /\ Len(Row(i)) = n /\ \A j \in 1..n : Row(i)[j] = Join(base[i], path[j])
      BY <2>2
    <3> HIDE DEF rows, Row, n
    <3> QED BY ONLY <3>1 DEF Has
  <2>7. x \in {Join(b, p) : b \in Range(base), p \in Range(path)} <=>
          \E i \in 1..m, j \in 1..n : Join(base[i], path[j]) = x
    <3> HIDE DEF m, n
    <3> QED BY <1>1 DEF Range
  <2> HIDE DEF rows, m, n
  <2> QED BY <1>3, <2>1, <2>4, <2>5, <2>6, <2>7
<1> QED BY <1>2, <1>3

\* A call gives what its searches find, and the empty string when that is nothing.
LEMMA ExecuteFinds ==
  ASSUME NEW files, IsTree(files), NEW base \in MultiPaths \cup {<<>>}, NEW path \in MultiPaths,
         NEW buf \in PathType
  PROVE  LET out == FuzzypathExecute(files, base, path, buf)
         IN  /\ out \in MultiPaths
             /\ \A x : x # Empty =>
                  (Has(out, x) <=> \E s : Has(Searches(base, path), s) /\ x \in Fuzzy2Path(files, s, buf))
<1> DEFINE searches == Searches(base, path)
           n == Len(searches)
           rows == [k \in 1..n |-> SetToSeq(Fuzzy2Path(files, searches[k], buf))]
           out == FlattenSeq(rows)
<1>1. searches \in Seq(PathType) /\ n \in Nat /\ DOMAIN searches = 1..n
  BY SearchesHave
<1>2. FuzzypathExecute(files, base, path, buf) = IF out = <<>> THEN <<Empty>> ELSE out
  <2>1. rows = [k \in DOMAIN searches |-> SetToSeq(Fuzzy2Path(files, searches[k], buf))]
    <3> HIDE DEF searches, n
    <3> QED BY <1>1
  <2> HIDE DEF rows
  <2> QED BY <2>1 DEF FuzzypathExecute, Searches
<1> HIDE DEF searches
<1>3. ASSUME NEW k \in 1..n
      PROVE  /\ SetToSeq(Fuzzy2Path(files, searches[k], buf)) \in Seq(PathType)
             /\ \A x : Has(SetToSeq(Fuzzy2Path(files, searches[k], buf)), x)
                         <=> x \in Fuzzy2Path(files, searches[k], buf)
  <2> DEFINE F == Fuzzy2Path(files, searches[k], buf)
  <2>1. searches[k] \in PathType
    BY <1>1
  <2>2. F \in SUBSET PathType /\ IsFiniteSet(F)
    BY <2>1, Fuzzy2PathType
  <2> HIDE DEF F
  <2>3. \A x : SetToSeq(F) \in Seq(F) /\ (Has(SetToSeq(F), x) <=> x \in F)
    BY ONLY <2>2, SetToSeqHas
  <2>4. SetToSeq(F) \in Seq(PathType)
    BY ONLY <2>2, <2>3, SeqMonotonic
  <2> QED BY ONLY <2>3, <2>4 DEF F
<1> HIDE DEF n
<1>4. rows \in Seq(Seq(PathType)) /\ Len(rows) = n
  BY <1>1, <1>3
<1>5. \A k \in 1..n : rows[k] = SetToSeq(Fuzzy2Path(files, searches[k], buf))
  OBVIOUS
<1> HIDE DEF rows
<1>6. out \in Seq(PathType)
  BY <1>4, FlattenType
<1>7. \A x : Has(out, x) <=> \E k \in 1..n : Has(rows[k], x)
  BY <1>4, FlattenHas
<1>8. Empty \in PathType
  BY DEF Empty, Path, PathType
<1>9. FuzzypathExecute(files, base, path, buf) \in MultiPaths
  <2> HIDE DEF out
  <2> QED BY <1>2, <1>6, <1>8 DEF MultiPaths
<1>10. \A x : Has(out, x) <=> \E k \in 1..n : x \in Fuzzy2Path(files, searches[k], buf)
  BY ONLY <1>3, <1>5, <1>7
<1>11. ASSUME NEW x
       PROVE  Has(out, x) <=> \E s : Has(searches, s) /\ x \in Fuzzy2Path(files, s, buf)
  <2> HIDE DEF out
  <2> QED BY ONLY <1>10 DEF Has, n
<1>12. ASSUME NEW x, x # Empty
       PROVE  Has(FuzzypathExecute(files, base, path, buf), x) <=> Has(out, x)
  <2>1. ~Has(<<>>, x) /\ ~Has(<<Empty>>, x)
    BY <1>12 DEF Has
  <2> HIDE DEF out
  <2> QED BY <1>2, <2>1
<1> HIDE DEF out
<1> QED BY <1>9, <1>11, <1>12 DEF searches

-----------------------------------------------------------------------------
(* The file system stays a tree.                                           *)

LEMMA PrefixOfPrefix ==
  ASSUME NEW S, NEW s \in Seq(S), NEW m \in 0..Len(s), NEW k \in 0..m
  PROVE  SubSeq(SubSeq(s, 1, m), 1, k) = SubSeq(s, 1, k)
<1> DEFINE r == SubSeq(s, 1, m)
           a == SubSeq(r, 1, k)
           b == SubSeq(s, 1, k)
<1>1. k \in 0..Len(s) /\ \A x \in 1..k : x \in 1..m
  BY Len(s) \in Nat
<1>2. r \in Seq(S) /\ Len(r) = m /\ \A x \in 1..m : r[x] = s[x]
  BY PrefixIs
<1>3. b \in Seq(S) /\ Len(b) = k /\ \A x \in 1..k : b[x] = s[x]
  BY <1>1, PrefixIs
<1> HIDE DEF b, r
<1>4. a \in Seq(S) /\ Len(a) = k /\ \A x \in 1..k : a[x] = r[x]
  BY <1>2, PrefixIs
<1> HIDE DEF a
<1>5. a = b
  BY ONLY <1>1, <1>2, <1>3, <1>4, SeqEqual
<1> QED BY <1>5 DEF a, b, r

LEMMA ChmodKeepsTree ==
  ASSUME NEW f, IsTree(f), NEW p \in DOMAIN f, NEW attr, f[p].type = attr.type
  PROVE  IsTree([f EXCEPT ![p] = attr])
<1> DEFINE g == [f EXCEPT ![p] = attr]
<1>1. DOMAIN g = DOMAIN f /\ \A q \in DOMAIN f : g[q] = IF q = p THEN attr ELSE f[q]
  OBVIOUS
<1> HIDE DEF g
<1>2. \A q : IsDir(f, q) => IsDir(g, q)
  BY <1>1 DEF IsDir
<1>3. IsTree(g)
  BY <1>1, <1>2 DEF IsTree
<1> QED BY <1>3 DEF g

\* A file whose name begins no other is in no one's way.
LEMMA UnlinkKeepsTree ==
  ASSUME NEW f, IsTree(f), NEW p \in DOMAIN f, \A q \in DOMAIN f : IsPrefix(p, q) => q = p
  PROVE  IsTree([q \in DOMAIN f \ {p} |-> f[q]])
<1> DEFINE g == [q \in DOMAIN f \ {p} |-> f[q]]
           S == Seq(Characters)
<1>1. DOMAIN g = DOMAIN f \ {p} /\ \A q \in DOMAIN g : g[q] = f[q]
  OBVIOUS
<1> HIDE DEF g
<1>2. IsFiniteSet(DOMAIN f) /\ DOMAIN f \subseteq Seq(S)
  BY DEF IsTree
<1> HIDE DEF S
<1>3. IsFiniteSet(DOMAIN g) /\ DOMAIN g \subseteq Seq(S)
  BY <1>1, <1>2, FS_RemoveElement
<1>4. ASSUME NEW q \in DOMAIN g, NEW k \in 0..(Len(q) - 1) PROVE IsDir(g, SubSeq(q, 1, k))
  <2>1. q \in DOMAIN f /\ q # p /\ q \in Seq(S) /\ p \in Seq(S)
    BY <1>1, <1>2
  <2>2. IsDir(f, SubSeq(q, 1, k))
    BY <2>1 DEF IsTree
  <2>3. k \in 0..Len(q) /\ k <= Len(q)
    BY ONLY <2>1, k \in 0..(Len(q) - 1)
  <2>4. SubSeq(q, 1, k) # p
    <3> SUFFICES ASSUME SubSeq(q, 1, k) = p PROVE FALSE
      OBVIOUS
    <3>1. Len(p) = k
      BY <2>1, <2>3, PrefixIs
    <3>2. SubSeq(p, 1, Len(p)) = p
      BY <2>1, SubSeqFull
    <3>3. IsPrefix(p, q)
      BY <2>3, <3>1, <3>2 DEF IsPrefix
    <3> QED BY <2>1, <3>3
  <2> QED BY <1>1, <2>2, <2>4 DEF IsDir
<1>5. IsTree(g)
  BY <1>3, <1>4 DEF IsTree, S
<1> QED BY <1>5 DEF g

\* A new file is in a directory.
LEMMA MakeKeepsTree ==
  ASSUME NEW f, IsTree(f), NEW p \in Seq(Seq(Characters)), p # <<>>, p \notin DOMAIN f,
         IsDir(f, Front(p)),
         NEW g, DOMAIN g = DOMAIN f \cup {p}, \A q \in DOMAIN f : g[q] = f[q]
  PROVE  IsTree(g)
<1> DEFINE S == Seq(Characters)
           m == Len(p) - 1
           r == SubSeq(p, 1, m)
<1>1. \A q : IsDir(f, q) => IsDir(g, q)
  BY DEF IsDir
<1>2. IsFiniteSet(DOMAIN f) /\ DOMAIN f \subseteq Seq(S)
  BY DEF IsTree
<1> HIDE DEF S
<1>3. IsFiniteSet(DOMAIN g) /\ DOMAIN g \subseteq Seq(S)
  <2>1. p \in Seq(S)
    BY DEF S
  <2> QED BY <1>2, <2>1, FS_AddElement
<1>4. m \in Nat /\ m \in 0..Len(p) /\ p \in Seq(S)
  BY DEF S
<1> HIDE DEF m
<1>5. IsDir(f, r) /\ Len(r) = m
  <2>1. Len(r) = m
    BY <1>4, PrefixIs
  <2> QED BY <2>1 DEF Front, m
<1>6. ASSUME NEW k \in 0..m PROVE IsDir(f, SubSeq(p, 1, k))
  <2>1. CASE k = m
    BY <1>5, <2>1
  <2>2. CASE k # m
    <3>1. k \in 0..(Len(r) - 1)
      BY <1>4, <1>5, <2>2
    <3>2. IsDir(f, SubSeq(r, 1, k))
      <4>1. r \in DOMAIN f
        BY <1>5 DEF IsDir
      <4> HIDE DEF r
      <4> QED BY <3>1, <4>1 DEF IsTree
    <3>3. SubSeq(r, 1, k) = SubSeq(p, 1, k)
      BY <1>4, PrefixOfPrefix
    <3> QED BY <3>2, <3>3
  <2> QED BY <2>1, <2>2
<1>7. ASSUME NEW q \in DOMAIN g, NEW k \in 0..(Len(q) - 1) PROVE IsDir(g, SubSeq(q, 1, k))
  <2>1. CASE q \in DOMAIN f
    BY <1>1, <2>1 DEF IsTree
  <2>2. CASE q = p
    BY <1>1, <1>6, <2>2 DEF m
  <2> QED BY <2>1, <2>2
<1> QED BY <1>3, <1>7 DEF IsTree, S

-----------------------------------------------------------------------------
(* The calls of a rule.                                                    *)

\* What a value and an object come from.
SearchInv ==
  /\ IsTree(fs)
  /\ calls \in Nat
  /\ calls > 0 => val \in MultiPaths
  /\ search # NoValue =>
       /\ calls > 0 /\ val = search.out
       /\ IsTree(search.fs) /\ search.base \in MultiPaths \cup {<<>>} /\ search.path \in MultiPaths
       /\ \E buf \in Unwritten :
            search.out = FuzzypathExecute(search.fs, search.base, search.path, buf)
  /\ file # FileNull =>
       /\ calls > 0 => file.path = val
       /\ file.exist = 1 => Len(file.path) = 1 /\ \E f \in moments : file.path[1].names \in DOMAIN f

LEMMA OthersKeepSearchInv ==
  ASSUME SearchInv, Others, UNCHANGED pathVars
  PROVE  SearchInv'
<1>1. IsTree(fs)
  BY DEF SearchInv
<1>2. ASSUME NEW new, IsTree(new), Become(new) PROVE SearchInv'
  <2>1. fs' = new /\ moments' = moments \cup {new} /\ file' = file
    BY <1>2 DEF Become, fileVars
  <2>2. val' = val /\ search' = search /\ calls' = calls
    BY DEF pathVars
  <2> QED BY <1>2, <2>1, <2>2 DEF SearchInv
<1>3. ASSUME NEW p \in DOMAIN fs, Unlink(p) PROVE SearchInv'
  BY <1>1, <1>2, <1>3, UnlinkKeepsTree DEF Unlink
<1>4. ASSUME NEW p \in DOMAIN fs, NEW attr \in Attributes, Chmod(p, attr) PROVE SearchInv'
  BY <1>1, <1>2, <1>4, ChmodKeepsTree DEF Chmod
<1>5. ASSUME NEW p \in UNION {DOMAIN f : f \in InitialFs}, NEW attr \in Attributes, Make(p, attr)
      PROVE  SearchInv'
  <2>1. p \in Seq(Seq(Characters))
    BY TreesAssumption DEF IsTree
  <2> DEFINE new == [q \in DOMAIN fs \cup {p} |-> IF q = p THEN attr ELSE fs[q]]
  <2>2. p # <<>> /\ p \notin DOMAIN fs /\ IsDir(fs, Front(p)) /\ Become(new)
    BY <1>5 DEF Make
  <2>3. DOMAIN new = DOMAIN fs \cup {p} /\ \A q \in DOMAIN fs : new[q] = fs[q]
    BY <2>2
  <2> HIDE DEF new
  <2>4. IsTree(new)
    BY ONLY <1>1, <2>1, <2>2, <2>3, MakeKeepsTree
  <2> QED BY <1>2, <2>2, <2>4
<1> QED BY <1>3, <1>4, <1>5 DEF Others

\* A value comes from a rule's pattern or another call.
LEMMA BasesAreMultiPaths ==
  ASSUME SearchInv, NEW base \in {<<>>} \cup BaseValues
  PROVE  base \in MultiPaths \cup {<<>>}
<1>1. calls \in Nat /\ (calls > 0 => val \in MultiPaths)
  BY DEF SearchInv
<1>2. BaseValues \subseteq MultiPaths
  BY <1>1, PathsAssumption DEF BaseValues
<1> QED BY <1>2

LEMMA FuzzypathKeepsSearchInv ==
  ASSUME SearchInv, CallFuzzypath
  PROVE  SearchInv'
<1>1. PICK base \in {<<>>} \cup BaseValues, path \in Patterns, buf \in Unwritten :
        LET out == FuzzypathExecute(fs, base, path, buf)
        IN  search' = [fs |-> fs, base |-> base, path |-> path, out |-> out] /\ Called(out)
  BY DEF CallFuzzypath
<1> DEFINE out == FuzzypathExecute(fs, base, path, buf)
<1>2. /\ fs' = fs /\ moments' = moments \cup {fs} /\ file' = file /\ file = FileNull
      /\ val' = out /\ calls' = calls + 1 /\ calls \in Nat /\ IsTree(fs)
  BY <1>1 DEF Called, fileVars, CallFuzzypath, SearchInv
<1>3. base \in MultiPaths \cup {<<>>} /\ path \in MultiPaths /\ buf \in PathType
  BY BasesAreMultiPaths, PathsAssumption
<1>4. out \in MultiPaths
  BY <1>2, <1>3, ExecuteFinds
<1>5. search' = [fs |-> fs, base |-> base, path |-> path, out |-> out]
  BY <1>1
<1> HIDE DEF out
<1>6. search'.fs = fs /\ search'.base = base /\ search'.path = path /\ search'.out = out
  BY ONLY <1>5
<1>7. calls' \in Nat /\ calls' > 0
  BY <1>2
<1> QED BY <1>2, <1>3, <1>4, <1>6, <1>7 DEF SearchInv, out

LEMMA SpliceType ==
  ASSUME NEW base \in MultiPaths \cup {<<>>}, NEW path \in MultiPaths, ~NothingToSplice(base, path)
  PROVE  SplicepathExecute(base, path) \in MultiPaths
<1>1. CASE path = <<Empty>>
  BY <1>1 DEF NothingToSplice, SplicepathExecute
<1>2. CASE path # <<Empty>>
  <2> DEFINE front == IF base = <<>> THEN <<Empty>> ELSE base
             mid == Join(Last(front), Head(path))
  <2>1. Empty \in PathType
    BY DEF Empty, Path, PathType
  <2>2. front \in MultiPaths /\ front \in Seq(PathType) /\ front # <<>>
    BY <2>1 DEF MultiPaths
  <2> HIDE DEF front
  <2>3. Front(front) \in Seq(PathType) /\ Last(front) \in PathType
    BY <2>2 DEF Front, Last
  <2>4. path \in Seq(PathType) /\ path # <<>>
    BY DEF MultiPaths
  <2>5. Head(path) \in PathType /\ Tail(path) \in Seq(PathType)
    BY <2>4
  <2>6. mid \in PathType
    BY <2>3, <2>5, JoinType
  <2>7. SplicepathExecute(base, path) = Front(front) \o <<mid>> \o Tail(path)
    BY <1>2 DEF SplicepathExecute, front
  <2> HIDE DEF mid
  <2>8. ASSUME NEW u \in Seq(PathType), NEW v \in Seq(PathType) PROVE u \o <<mid>> \o v \in MultiPaths
    <3>1. u \o <<mid>> \o v \in Seq(PathType) /\ Len(u \o <<mid>> \o v) = Len(u) + 1 + Len(v)
      BY <2>6
    <3> QED BY <3>1 DEF MultiPaths
  <2> QED BY <2>3, <2>5, <2>7, <2>8
<1> QED BY <1>1, <1>2

LEMMA SplicepathKeepsSearchInv ==
  ASSUME SearchInv, CallSplicepath
  PROVE  SearchInv'
<1>1. PICK base \in {<<>>} \cup BaseValues, path \in Patterns :
        ~NothingToSplice(base, path) /\ Called(SplicepathExecute(base, path))
  BY DEF CallSplicepath
<1>2. base \in MultiPaths \cup {<<>>} /\ path \in MultiPaths
  BY BasesAreMultiPaths, PathsAssumption
<1>3. SplicepathExecute(base, path) \in MultiPaths
  BY <1>1, <1>2, SpliceType
<1>4. /\ fs' = fs /\ file' = file /\ file = FileNull /\ search' = NoValue
      /\ val' = SplicepathExecute(base, path) /\ calls' = calls + 1 /\ calls \in Nat
  BY <1>1 DEF Called, fileVars, CallSplicepath, SearchInv
<1> QED BY <1>3, <1>4 DEF SearchInv

LEMMA CallFileKeepsSearchInv ==
  ASSUME SearchInv, CallFile
  PROVE  SearchInv'
<1>1. PICK value \in IF calls = 0 THEN Patterns ELSE {val} : FileExecute(value)
  BY DEF CallFile
<1>2. /\ fs' = fs /\ moments' = moments \cup {fs} /\ val' = val /\ search' = search /\ calls' = calls
      /\ calls \in Nat
  BY <1>1 DEF FileExecute, CallFile, SearchInv
<1>3. value \in MultiPaths /\ (calls > 0 => value = val)
  BY <1>1, <1>2, PathsAssumption DEF SearchInv
<1>4. file'.path = value /\ (file'.exist = 1 => Stat(value) = "ok")
  <2>1. CASE Stat(value) = "ok"
    BY <1>1, <2>1 DEF FileExecute
  <2>2. CASE Stat(value) # "ok"
    <3>1. Stat(value) \in {"ENOENT", "ENOTDIR"}
      BY <2>2 DEF Stat, StatError
    <3>2. \/ file' = [path |-> value, exist |-> 0, owner |-> "-1", permission |-> AllBits]
          \/ file' = [path |-> value, exist |-> -1, owner |-> "-1", permission |-> AllBits]
      BY <1>1, <3>1 DEF FileExecute
    <3> QED BY <3>2
  <2> QED BY <2>1, <2>2
<1>5. Stat(value) = "ok" => Len(value) = 1 /\ value[1].names \in DOMAIN fs
  <2>1. value # <<>> /\ value \in Seq(PathType)
    BY <1>3 DEF MultiPaths
  <2>2. Head(value) = value[1]
    BY <2>1
  <2> QED BY <2>2 DEF Stat, Exists, StatError
<1> QED BY <1>2, <1>3, <1>4, <1>5 DEF SearchInv

LEMMA NextKeepsSearchInv == SearchInv /\ [Next]_vars => SearchInv'
<1> SUFFICES ASSUME SearchInv, [Next]_vars PROVE SearchInv'
  OBVIOUS
<1>1. CASE CallSplicepathFailed \/ EndOfRule
  BY <1>1 DEF CallSplicepathFailed, EndOfRule, Leave, SearchInv
<1>2. CASE Expression
  <2>1. /\ fs' = fs /\ moments' = moments /\ file' = file
        /\ val' = val /\ search' = search /\ calls' = calls
    BY <1>2 DEF Expression, ExprHandler, ExprExist, ExprOwner, ExprPermission, Say, fsVars
  <2> QED BY <2>1 DEF SearchInv
<1>3. CASE UNCHANGED vars
  BY <1>3 DEF vars, fsVars, fileVars, pathVars, SearchInv
<1> QED
  BY <1>1, <1>2, <1>3, FuzzypathKeepsSearchInv, SplicepathKeepsSearchInv, CallFileKeepsSearchInv,
     OthersKeepSearchInv DEF Next

LEMMA SearchesAreCalls == Spec => []SearchInv
<1>1. Init => SearchInv
  BY TreesAssumption DEF Init, FileInit, SearchInv
<1> QED BY <1>1, NextKeepsSearchInv, PTL DEF Spec

-----------------------------------------------------------------------------
(* What a rule knows of the files that a search found.                     *)

\* The value of a call is what its searches lead to.
LEMMA ValueLeads ==
  ASSUME SearchInv, search # NoValue, \A pattern \in Asked : Searched(pattern)
  PROVE  /\ IsTree(search.fs) /\ Asked \subseteq PathType /\ search.out \in MultiPaths
         /\ \A x : x # Empty =>
              (Has(search.out, x) <=> \E pattern \in Asked : LedTo(search.fs, pattern, x))
<1> DEFINE f == search.fs
           b == search.base
           t == search.path
<1>1. IsTree(f) /\ b \in MultiPaths \cup {<<>>} /\ t \in MultiPaths
  BY DEF SearchInv
<1>2. PICK buf \in Unwritten : search.out = FuzzypathExecute(f, b, t, buf)
  BY DEF SearchInv
<1>3. buf \in PathType
  BY PathsAssumption
<1>4. /\ search.out \in MultiPaths
      /\ \A x : x # Empty =>
           (Has(search.out, x) <=> \E s : Has(Searches(b, t), s) /\ x \in Fuzzy2Path(f, s, buf))
  <2> HIDE DEF f, b, t
  <2> QED BY <1>1, <1>2, <1>3, ExecuteFinds
<1>5. Searches(b, t) \in Seq(PathType) /\ \A s : Has(Searches(b, t), s) <=> s \in Asked
  BY <1>1, SearchesHave DEF Asked
<1>6. Asked \subseteq PathType
  BY <1>5 DEF Has
<1> HIDE DEF f, b, t
<1>7. \A s \in Asked : \A x : x \in Fuzzy2Path(f, s, buf) <=> LedTo(f, s, x)
  <2> SUFFICES ASSUME NEW s \in Asked, NEW x
               PROVE  x \in Fuzzy2Path(f, s, buf) <=> LedTo(f, s, x)
    OBVIOUS
  <2>1. s \in PathType /\ Searched(s)
    BY <1>6
  <2> QED BY ONLY <1>1, <2>1, Fuzzy2PathFinds
<1>8. \A x : x # Empty => (Has(search.out, x) <=> \E s \in Asked : LedTo(f, s, x))
  <2> SUFFICES ASSUME NEW x, x # Empty
               PROVE  Has(search.out, x) <=> \E s \in Asked : LedTo(f, s, x)
    OBVIOUS
  <2>1. Has(search.out, x) <=> \E s : Has(Searches(b, t), s) /\ x \in Fuzzy2Path(f, s, buf)
    BY <1>4
  <2>2. Has(search.out, x) <=> \E s \in Asked : x \in Fuzzy2Path(f, s, buf)
    BY ONLY <1>5, <2>1
  <2> QED BY ONLY <1>7, <2>2
<1> QED BY <1>1, <1>4, <1>6, <1>8 DEF f

\* A path whose names fit is meant, unless fragments overlap in one of them ...
LEMMA LeadsMeans ==
  ASSUME IsTree(search.fs), NEW pattern \in PathType, NEW p, Leads(search.fs, pattern, p),
         \A j \in DOMAIN p : ~Overlapping(p[j], pattern.names[j])
  PROVE  Means(pattern, p)
<1> DEFINE S == Characters
           tokens == pattern.names
<1>1. p \in Seq(Seq(S)) /\ tokens \in Seq(Seq(S)) /\ Len(p) = Len(tokens)
  BY DEF IsTree, Leads, PathType
<1> HIDE DEF S, tokens
<1>2. DOMAIN p = 1..Len(tokens)
  BY <1>1
<1>3. ASSUME NEW k \in 1..Len(tokens) PROVE Glob(p[k], tokens[k])
  <2>1. p[k] \in Seq(S) /\ tokens[k] \in Seq(S)
    BY <1>1
  <2>2. Fits(p[k], tokens[k]) /\ ~Overlapping(p[k], tokens[k])
    BY <1>2 DEF Leads, tokens
  <2> QED BY ONLY <2>1, <2>2, FitMeans
<1> QED BY <1>2, <1>3 DEF Means, Leads, tokens

\* ... and a path that is meant has names that fit, unless one has the end of the
\* pattern twice.
LEMMA MeansLeads ==
  ASSUME IsTree(search.fs), NEW pattern \in PathType, NEW p, Means(pattern, p),
         \A j \in DOMAIN p : ~RepeatedEnd(p[j], pattern.names[j])
  PROVE  Leads(search.fs, pattern, p)
<1> DEFINE S == Characters
           tokens == pattern.names
<1>1. p \in Seq(Seq(S)) /\ tokens \in Seq(Seq(S)) /\ Len(p) = Len(tokens)
  BY DEF IsTree, Means, PathType
<1> HIDE DEF S, tokens
<1>2. DOMAIN p = 1..Len(tokens)
  BY <1>1
<1>3. ASSUME NEW k \in 1..Len(tokens) PROVE Fits(p[k], tokens[k])
  <2>1. p[k] \in Seq(S) /\ tokens[k] \in Seq(S)
    BY <1>1
  <2>2. Glob(p[k], tokens[k]) /\ ~RepeatedEnd(p[k], tokens[k])
    BY <1>2 DEF Means, tokens
  <2> QED BY ONLY <2>1, <2>2, MeaningFits
<1> QED BY <1>2, <1>3 DEF Means, Leads, tokens

LEMMA PathsDiffer ==
  \A p, q : /\ Path(TRUE, p) # Empty
            /\ Path(TRUE, p).names = p
            /\ Path(TRUE, p) = Path(TRUE, q) => p = q
<1> SUFFICES ASSUME NEW p, NEW q
             PROVE  /\ Path(TRUE, p) # Empty
                    /\ Path(TRUE, p).names = p
                    /\ Path(TRUE, p) = Path(TRUE, q) => p = q
  OBVIOUS
<1>1. \A r : Path(TRUE, r).abs = TRUE /\ Path(TRUE, r).names = r
  BY DEF Path
<1>2. Empty.abs = FALSE
  BY DEF Empty, Path
<1> QED BY ONLY <1>1, <1>2

LEMMA FoundWhenMeant ==
  ASSUME SearchInv, search # NoValue, \A pattern \in Asked : Searched(pattern),
         NEW pattern \in Asked, NEW p, Means(pattern, p),
         \A j \in DOMAIN p : ~RepeatedEnd(p[j], pattern.names[j])
  PROVE  Has(search.out, Path(TRUE, p))
<1>1. Leads(search.fs, pattern, p)
  BY ValueLeads, MeansLeads
<1>2. LedTo(search.fs, pattern, Path(TRUE, p))
  BY <1>1 DEF LedTo
<1> QED BY <1>2, ValueLeads, PathsDiffer

\* A search finds what its asterisks mean: nothing else, unless two fragments of a
\* pattern overlap in a name, and all of it, unless a name has the end of the
\* pattern twice (recurse_dir, fuzzypath_execute).
THEOREM SearchesAlwaysFindTheirMeaning == Spec => []SearchesFindTheirMeaning
<1>1. SearchInv => SearchesFindTheirMeaning
  <2> SUFFICES ASSUME SearchInv, search # NoValue, \A pattern \in Asked : Searched(pattern)
               PROVE  /\ \A k \in DOMAIN search.out : search.out[k] # Empty =>
                           \E pattern \in Asked :
                             LET p == search.out[k].names
                             IN  \/ Means(pattern, p)
                                 \/ /\ Len(p) = Len(pattern.names)
                                    /\ \E j \in DOMAIN p : Overlapping(p[j], pattern.names[j])
                      /\ \A pattern \in Asked, p \in DOMAIN search.fs :
                           Means(pattern, p) =>
                             \/ Path(TRUE, p) \in Range(search.out)
                             \/ \E j \in DOMAIN p : RepeatedEnd(p[j], pattern.names[j])
    BY DEF SearchesFindTheirMeaning
  <2>1. /\ IsTree(search.fs) /\ Asked \subseteq PathType /\ search.out \in Seq(PathType)
        /\ \A x : x # Empty =>
             (Has(search.out, x) <=> \E pattern \in Asked : LedTo(search.fs, pattern, x))
    BY ValueLeads DEF MultiPaths
  <2>2. DOMAIN search.out = 1..Len(search.out)
    BY <2>1
  <2>3. ASSUME NEW k \in DOMAIN search.out, search.out[k] # Empty
        PROVE  \E pattern \in Asked :
                 LET p == search.out[k].names
                 IN  \/ Means(pattern, p)
                     \/ /\ Len(p) = Len(pattern.names)
                        /\ \E j \in DOMAIN p : Overlapping(p[j], pattern.names[j])
    <3>1. Has(search.out, search.out[k])
      BY <2>2 DEF Has
    <3>2. PICK pattern \in Asked : LedTo(search.fs, pattern, search.out[k])
      BY <2>1, <2>3, <3>1
    <3> PICK p : Leads(search.fs, pattern, p) /\ search.out[k] = Path(TRUE, p)
      BY <3>2 DEF LedTo
    <3>3. search.out[k].names = p
      BY PathsDiffer
    <3>4. (\A j \in DOMAIN p : ~Overlapping(p[j], pattern.names[j])) => Means(pattern, p)
      BY <2>1, LeadsMeans
    <3>5. Len(p) = Len(pattern.names)
      BY DEF Leads
    <3> QED BY <3>3, <3>4, <3>5
  <2>4. ASSUME NEW pattern \in Asked, NEW p, Means(pattern, p),
               \A j \in DOMAIN p : ~RepeatedEnd(p[j], pattern.names[j])
        PROVE  Path(TRUE, p) \in Range(search.out)
    <3>1. Has(search.out, Path(TRUE, p))
      BY <2>4, FoundWhenMeant
    <3> QED BY <2>2, <3>1 DEF Has, Range
  <2> QED BY <2>3, <2>4
<1> QED BY <1>1, SearchesAreCalls, PTL

\* A rule that says its file exists is about one path that was there during the
\* rule, and the patterns of its search meant no other (file_execute looks up the
\* whole value of the search).
THEOREM ExistsAlwaysMeansFoundAlone == Spec => []ExistsMeansFoundAlone
<1>1. PathsInv /\ SearchInv => ExistsMeansFoundAlone
  <2> SUFFICES ASSUME PathsInv, SearchInv, NEW x \in Held("exist", {"=="}), x.arg = 1
               PROVE  /\ Len(file.path) = 1
                      /\ \E f \in moments : file.path[1].names \in DOMAIN f
                      /\ search # NoValue /\ (\A pattern \in Asked : Searched(pattern)) =>
                           Cardinality({p \in DOMAIN search.fs : \E pattern \in Asked :
                                          /\ Means(pattern, p)
                                          /\ \A j \in DOMAIN p : ~RepeatedEnd(p[j], pattern.names[j])}) <= 1
    BY DEF ExistsMeansFoundAlone
  <2>1. file # FileNull /\ file.exist = 1
    BY DEF PathsInv, FileInv, Held, Answered
  <2>2. Len(file.path) = 1 /\ \E f \in moments : file.path[1].names \in DOMAIN f
    BY <2>1 DEF SearchInv
  <2>3. ASSUME search # NoValue, \A pattern \in Asked : Searched(pattern)
        PROVE  Cardinality({p \in DOMAIN search.fs : \E pattern \in Asked :
                              /\ Means(pattern, p)
                              /\ \A j \in DOMAIN p : ~RepeatedEnd(p[j], pattern.names[j])}) <= 1
    <3> DEFINE found == {p \in DOMAIN search.fs : \E pattern \in Asked :
                           /\ Means(pattern, p)
                           /\ \A j \in DOMAIN p : ~RepeatedEnd(p[j], pattern.names[j])}
    <3>1. file.path = search.out
      BY <2>1, <2>3 DEF SearchInv
    <3>2. Len(search.out) = 1
      BY <2>2, <3>1
    <3>3. \A p \in found : Path(TRUE, p) = search.out[1]
      <4> SUFFICES ASSUME NEW p \in found PROVE Path(TRUE, p) = search.out[1]
        OBVIOUS
      <4>1. Has(search.out, Path(TRUE, p))
        BY <2>3, FoundWhenMeant
      <4>2. \A i \in 1..Len(search.out) : i = 1
        BY <3>2
      <4> QED BY ONLY <4>1, <4>2 DEF Has
    <3> HIDE DEF found
    <3>4. \A p, q \in found : p = q
      BY <3>3, PathsDiffer
    <3>5. found = {} \/ \E p : found = {p}
      BY <3>4
    <3>6. Cardinality(found) \in {0, 1}
      BY <3>5, FS_EmptySet, FS_Singleton
    <3> QED BY <3>6 DEF found
  <2> QED BY <2>2, <2>3
<1> QED BY <1>1, PathsAreLookedUpOnce, SearchesAreCalls, PTL
=============================================================================

--------------------------- MODULE KeywordRegistry ---------------------------
(***************************************************************************)
(* The keyword registry (keyword.c) and its users in lre.c: modules        *)
(* register their functions and calls, unregister them again, lre_init     *)
(* and lre_release do both for the built-in modules.  The code is single   *)
(* threaded; the variable "call" is the program counter of the one call in *)
(* progress, so that a module's keywords go in and out one at a time.      *)
(*                                                                         *)
(* A root stub is a heap cell, at an address of the set Ptr, which bounds  *)
(* the memory in use.  Its data pointer is abstracted to the pair          *)
(* <<module, position>> it points to.  The stubs of its arguments,         *)
(* expressions, variables and sub-functions live in a vector of its own,   *)
(* which is written once, while the stub is installed, from that struct,   *)
(* and freed with it: that vector is a function of data and is left out.   *)
(***************************************************************************)
EXTENDS Vector, Sequences, FiniteSets

CONSTANTS
  Module,        \* the struct lrc_module objects of the program
  Keyword,       \* the names they use
  Decl,          \* Decl[m]: m's functions, then its calls, in array order
  Builtins,      \* the modules of lrc_builtin_init, in its order
  MaxInits,      \* bound: calls of lre_init
  MaxListed      \* bound: entries of lre_modulelists when a module registers

\* A declaration is a name and whether it can be installed: a function always,
\* a call when it has an exec callback.
Declaration == [kw : Keyword, installable : BOOLEAN]
Stub        == [kw : Keyword, data : Module \X (Nat \ {0})]

ASSUME NullIsNoStub       == Null \notin Stub
ASSUME DeclAssumption     == Decl \in [Module -> Seq(Declaration)]
ASSUME BuiltinsAssumption == Builtins \in Seq(Module)
ASSUME BoundAssumption    == MaxInits \in Nat /\ MaxListed \in Nat

VARIABLES
  root,     \* *root_kstub_vec
  heap,     \* the root stubs allocated, by address; Null when free
  modules,  \* lre_modulelists
  phase,    \* where the program is between lre_init and lre_release
  builtin,  \* next built-in module that phase has to deal with
  call,     \* the module call in progress
  lost,     \* stubs allocated that nothing points to any more
  inits     \* calls of lre_init so far

vars == <<root, heap, modules, phase, builtin, call, lost, inits>>

Phases  == {"new", "init", "up", "release", "released"}
NoCall  == [op |-> "none"]
Calls   == {NoCall} \cup
           [op : {"register", "unregister"}, module : Module, next : Nat \ {0}]
Live    == {s \in Ptr : heap[s] # Null}
Idle    == call = NoCall

Begin(op, m) == call' = [op |-> op, module |-> m, next |-> 1]

Matches(v, h, kw) == {i \in Visited(v) : h[v.slot[i]].kw = kw}

\* A fault: the last stub of that name.
FindLastStub(v, h, kw) ==
  LET found == Matches(v, h, kw)
  IN  IF found = {} THEN Null
      ELSE v.slot[CHOOSE i \in found : \A j \in found : j <= i]

\* find_stub_by_keyword: the first stub of that name among the slots visited,
\* in a vector v of stubs whose contents h gives.
FindStub(v, h, kw) ==
  LET found == Matches(v, h, kw)
  IN  IF found = {} THEN Null
      ELSE v.slot[CHOOSE i \in found : \A j \in found : i <= j]

\* The lookup of lrc_func_unregister and of the semantic analysis.
Find(kw) == FindStub(root, heap, kw)

Init ==
  /\ root = NewVector
  /\ heap = [s \in Ptr |-> Null]
  /\ modules = <<>>
  /\ phase = "new"
  /\ builtin = 1
  /\ call = NoCall
  /\ lost = {}
  /\ inits = 0

-----------------------------------------------------------------------------
Declared(m, n) == Decl[m][n]

\* A fault: a declaration that cannot be installed is skipped.
RegisterNextSkipping ==
  /\ call.op = "register"
  /\ call.next <= Len(Decl[call.module])
  /\ LET m == call.module
         d == Declared(m, call.next)
     IN  IF d.installable
         THEN \E s \in Ptr \ Live :
                /\ heap' = [heap EXCEPT ![s] = [kw |-> d.kw, data |-> <<m, call.next>>]]
                /\ root' = Set(root, s)
         ELSE UNCHANGED <<root, heap>>
  /\ call' = [call EXCEPT !.next = @ + 1]
  /\ UNCHANGED <<modules, phase, builtin, lost, inits>>

\* One call of lrc_func_register or lrc_call_register from the loops of
\* lrc_module_register.  It fails, before it has installed anything, for a
\* call without exec; the loop then gives up and what it installed so far
\* stays.  A failed built-in also ends lrc_builtin_init, whose result lre_init
\* does not look at.
RegisterNext ==
  /\ call.op = "register"
  /\ call.next <= Len(Decl[call.module])
  /\ LET m == call.module
         d == Declared(m, call.next)
     IN  IF d.installable
         THEN /\ \E s \in Ptr \ Live :
                   /\ heap' = [heap EXCEPT ![s] = [kw |-> d.kw, data |-> <<m, call.next>>]]
                   /\ root' = Set(root, s)
              /\ call' = [call EXCEPT !.next = @ + 1]
              /\ UNCHANGED builtin
         ELSE /\ call' = NoCall
              /\ builtin' = IF phase = "init" THEN Len(Builtins) + 1 ELSE builtin
              /\ UNCHANGED <<root, heap>>
  /\ UNCHANGED <<modules, phase, lost, inits>>

\* The end of lrc_module_register: lre_module_create appends to the list.
RegisterDone ==
  /\ call.op = "register"
  /\ call.next > Len(Decl[call.module])
  /\ modules' = Append(modules, call.module)
  /\ call' = NoCall
  /\ UNCHANGED <<root, heap, phase, builtin, lost, inits>>

\* keyword_uninstall: every visited slot that holds s is unset, then s is freed.
Uninstall(s) ==
  /\ root' = IF \E i \in Visited(root) : root.slot[i] = s
             THEN Unset(root, CHOOSE i \in Visited(root) : root.slot[i] = s)
             ELSE root
  /\ heap' = [heap EXCEPT ![s] = Null]

\* One call of lrc_func_unregister or lrc_call_unregister: the keyword is
\* looked up by name, and nothing happens when it is not found.
UnregisterNext ==
  /\ call.op = "unregister"
  /\ call.next <= Len(Decl[call.module])
  /\ LET s == Find(Declared(call.module, call.next).kw)
     IN  IF s # Null THEN Uninstall(s) ELSE UNCHANGED <<root, heap>>
  /\ call' = [call EXCEPT !.next = @ + 1]
  /\ UNCHANGED <<modules, phase, builtin, lost, inits>>

\* lre_module_delete drops the first entry of the module, if it has one.
WithoutFirst(seq, m) ==
  IF \E i \in DOMAIN seq : seq[i] = m
  THEN LET k == CHOOSE i \in DOMAIN seq :
                  seq[i] = m /\ \A j \in 1..i-1 : seq[j] # m
       IN  SubSeq(seq, 1, k-1) \o SubSeq(seq, k+1, Len(seq))
  ELSE seq

UnregisterDone ==
  /\ call.op = "unregister"
  /\ call.next > Len(Decl[call.module])
  /\ modules' = WithoutFirst(modules, call.module)
  /\ call' = NoCall
  /\ UNCHANGED <<root, heap, phase, builtin, lost, inits>>

-----------------------------------------------------------------------------
\* The bounds: a registration starts only when its stubs fit in memory and
\* the module list is not full.
Fits(m) ==
  /\ Len(Decl[m]) <= Cardinality(Ptr \ Live)
  /\ Len(modules) < MaxListed

\* A program calls the two entry points of a module between lre_init and
\* lre_release.
LrcModuleRegister(m) ==
  /\ phase = "up" /\ Idle
  /\ Fits(m)
  /\ Begin("register", m)
  /\ UNCHANGED <<root, heap, modules, phase, builtin, lost, inits>>

LrcModuleUnregister(m) ==
  /\ phase = "up" /\ Idle
  /\ Begin("unregister", m)
  /\ UNCHANGED <<root, heap, modules, phase, builtin, lost, inits>>

\* lre_init: a new root vector replaces the old one, lrc_builtin_init follows.
LreInit ==
  /\ phase \in {"new", "released"}
  /\ inits < MaxInits
  /\ inits' = inits + 1
  /\ root' = NewVector
  /\ phase' = "init"
  /\ builtin' = 1
  /\ UNCHANGED <<heap, modules, call, lost>>

InitNextBuiltin ==
  /\ phase = "init" /\ Idle
  /\ builtin <= Len(Builtins)
  /\ Fits(Builtins[builtin])
  /\ Begin("register", Builtins[builtin])
  /\ builtin' = builtin + 1
  /\ UNCHANGED <<root, heap, modules, phase, lost, inits>>

InitDone ==
  /\ phase = "init" /\ Idle
  /\ builtin > Len(Builtins)
  /\ phase' = "up"
  /\ UNCHANGED <<root, heap, modules, builtin, call, lost, inits>>

\* lre_release: lrc_builtin_release unregisters the built-ins in the order
\* they were registered, whether or not that succeeded ...
LreRelease ==
  /\ phase = "up" /\ Idle
  /\ phase' = "release"
  /\ builtin' = 1
  /\ UNCHANGED <<root, heap, modules, call, lost, inits>>

ReleaseNextBuiltin ==
  /\ phase = "release" /\ Idle
  /\ builtin <= Len(Builtins)
  /\ Begin("unregister", Builtins[builtin])
  /\ builtin' = builtin + 1
  /\ UNCHANGED <<root, heap, modules, phase, lost, inits>>

\* ... and lre_keyword_release destroys the stubs it visits and frees the
\* vector, whatever else it still held.
LreKeywordRelease ==
  /\ phase = "release" /\ Idle
  /\ builtin > Len(Builtins)
  /\ LET destroyed == {root.slot[i] : i \in Visited(root)}
     IN  /\ heap' = [s \in Ptr |-> IF s \in destroyed THEN Null ELSE heap[s]]
         /\ lost' = lost \cup (Items(root) \ destroyed)
  /\ root' = NewVector
  /\ phase' = "released"
  /\ UNCHANGED <<modules, builtin, call, inits>>

Next ==
  \/ LreInit \/ InitNextBuiltin \/ InitDone
  \/ RegisterNext \/ RegisterDone
  \/ UnregisterNext \/ UnregisterDone
  \/ \E m \in Module : LrcModuleRegister(m) \/ LrcModuleUnregister(m)
  \/ LreRelease \/ ReleaseNextBuiltin \/ LreKeywordRelease

Spec == Init /\ [][Next]_vars

-----------------------------------------------------------------------------
\* Every variable has its type; the vector's arrays are as long as it says.
TypeOK ==
  /\ IsVector(root)
  /\ heap \in [Ptr -> Stub \cup {Null}]
  /\ modules \in Seq(Module)
  /\ phase \in Phases
  /\ builtin \in 1..(Len(Builtins) + 1)
  /\ call \in Calls
  /\ lost \subseteq Ptr
  /\ inits \in 0..MaxInits

\* The root vector owns its stubs: it is tight, holds no stub twice and no
\* freed stub, and every stub that has not been lost by a release is in it.  A
\* freed stub in the vector would be read by the next lookup; a stub outside
\* it is memory nobody frees (keyword_install, keyword_uninstall and
\* lre_keyword_release, with vector_set and vector_unset).
VectorOwnsStubs ==
  /\ Tight(root)
  /\ Distinct(root)
  /\ Items(root) \cup lost = Live
  /\ Items(root) \cap lost = {}

\* Installing and removing keywords never makes a name that resolves resolve
\* to another stub, except that removing a name may uncover an older stub of
\* the same name.  Rules resolve their names against this vector and keep the
\* stub pointers, so a rebinding would run another module's callbacks.
NeverRebinds ==
  [][phase = "up" =>
       \A kw \in Keyword :
         \/ Find(kw) = Null \/ Find(kw)' = Null
         \/ Find(kw)' = Find(kw)
         \/ UnregisterNext /\ Declared(call.module, call.next).kw = kw]_vars

\* How often a module is listed, and how often one of its keywords is there.
Listed(m)       == Cardinality({i \in DOMAIN modules : modules[i] = m})
Installed(m, n) == Cardinality({i \in Filled(root) : heap[root.slot[i]].data = <<m, n>>})

\* No other module declares a name of m's.
Exclusive(m) ==
  \A o \in Module \ {m} : \A i \in DOMAIN Decl[m], j \in DOMAIN Decl[o] :
    Decl[m][i].kw # Decl[o][j].kw

\* Between calls, a module listed k times that shares no name with another has
\* each of its keywords installed at least k times.  (A registration that
\* fails half way must not list its module, and an unregistration that misses
\* a keyword behind a hole must not take another module's instead.)  Before
\* the first lre_release only: it empties the vector and not the list.
ListedIsInstalled ==
  Idle /\ phase = "up" /\ inits = 1 =>
    \A m \in Module : Exclusive(m) =>
      \A n \in DOMAIN Decl[m] : Listed(m) <= Installed(m, n)

\* A keyword that is installed is found.  What keyword.c intends: every loop
\* over the vector skips empty slots with "if (!keystub) continue;".
InstalledIsFound ==
  phase = "up" => \A s \in Items(root) : Find(heap[s].kw) # Null
=============================================================================

---------------------------- MODULE LocalModule ----------------------------
(***************************************************************************)
(* The component modules of a process (locmod.cpp): the list of loaded     *)
(* modules, the threads that ask a module for a class object, create       *)
(* objects with it and release them, and the functions that unload modules *)
(* nobody uses.                                                            *)
(*                                                                         *)
(* The dynamic linker is external: dlopen of a loaded module adds a        *)
(* reference to it, dlclose takes one away, and the code and the data go   *)
(* with the last.  In each module g_dllLockCount counts the references to  *)
(* its class objects and its objects; DllCanUnloadNow answers whether it   *)
(* is 0.                                                                   *)
(***************************************************************************)
EXTENDS Naturals, Sequences, SequencesExt, FiniteSets

CONSTANTS
  Thread, NoThread,
  Module, NoModule,
  Runtime,       \* the modules that are the runtime itself: never in the list
  Unasked,       \* the modules without a DllCanUnloadNow
  MaxObjects     \* the objects of one module we follow

ASSUME ModuleAssumption ==
  /\ IsFiniteSet(Thread) /\ NoThread \notin Thread /\ NoModule \notin Module
  /\ Runtime \subseteq Module /\ Unasked \subseteq Module /\ MaxObjects \in Nat

VARIABLES
  g_LocModList,      \* the entries, first to last: [module, mAskCount]
  g_LocModListLock,  \* who holds it across steps
  handles,           \* dlopens of each module not undone
  g_dllLockCount,    \* per module; lost when the module is unmapped
  objects,           \* what keeps each module: its objects, and the StayResident(TRUE)s
                     \* that have not been undone
  pc, mod,           \* per thread: where it is, and the module it deals with
  op, cursor,        \* per thread: the walk it is on, and the position in the list
  raced,             \* history: modules loaded while another thread loaded them
  idle               \* history: asks found idle in succession since the module was last
                     \* asked for a class

listVars   == <<g_LocModList, g_LocModListLock>>
moduleVars == <<handles, g_dllLockCount, objects>>
threadVars == <<pc, mod, op, cursor>>
vars == <<listVars, moduleVars, threadVars, raced, idle>>

Goto(t, l) == pc' = [pc EXCEPT ![t] = l]

Mapped(m) == m \in Runtime \/ handles[m] > 0

\* dlclose, and what becomes of the module's data.
Dlclose(m) ==
  /\ handles' = [handles EXCEPT ![m] = @ - 1]
  /\ g_dllLockCount' = [g_dllLockCount EXCEPT ![m] = IF handles[m] = 1 THEN 0 ELSE @]

Listed(m) == {n \in DOMAIN g_LocModList : g_LocModList[n].module = m}

First(S) == CHOOSE n \in S : \A k \in S : n <= k

\* DllGetClassObject: a reference to the class object, unless there is no such class.
DllGetClassObject(t, m, onSuccess, onFailure) ==
  \/ /\ g_dllLockCount' = [g_dllLockCount EXCEPT ![m] = @ + 1]
     /\ Goto(t, onSuccess)
  \/ /\ UNCHANGED g_dllLockCount
     /\ Goto(t, onFailure)

\* Mutant: the count of asks survives the use of the module.
FindModuleKeepsCount(t, m) ==
  /\ pc[t] = "idle" /\ g_LocModListLock = NoThread
  /\ mod' = [mod EXCEPT ![t] = m]
  /\ IF Listed(m) # {}
       THEN idle' = [idle EXCEPT ![m] = 0] /\ DllGetClassObject(t, m, "class", "idle")
       ELSE /\ IF m \in Runtime THEN DllGetClassObject(t, m, "class", "idle")
               ELSE Goto(t, "dlopen") /\ UNCHANGED g_dllLockCount
            /\ UNCHANGED idle
  /\ UNCHANGED <<listVars, handles, objects, op, cursor, raced>>

\* AcquireClassObjectFromLocalModule, under the lock: the first entry of the module
\* is asked.  If there is none, the runtime is asked without further ado.
FindModule(t, m) ==
  /\ pc[t] = "idle" /\ g_LocModListLock = NoThread
  /\ mod' = [mod EXCEPT ![t] = m]
  /\ IF Listed(m) # {}
       THEN /\ g_LocModList' = [g_LocModList EXCEPT ![First(Listed(m))].mAskCount = 0]
            /\ idle' = [idle EXCEPT ![m] = 0]
            /\ DllGetClassObject(t, m, "class", "idle")
       ELSE /\ IF m \in Runtime THEN DllGetClassObject(t, m, "class", "idle")
               ELSE Goto(t, "dlopen") /\ UNCHANGED g_dllLockCount
            /\ UNCHANGED <<g_LocModList, idle>>
  /\ UNCHANGED <<g_LocModListLock, handles, objects, op, cursor, raced>>

Loading(m) == {t \in Thread : pc[t] \in {"dlopen", "get", "insert"} /\ mod[t] = m}

\* Not in the list: dlopen, without the lock.  It may fail.
Dlopen(t) ==
  /\ pc[t] = "dlopen"
  /\ \/ /\ handles' = [handles EXCEPT ![mod[t]] = @ + 1]
        /\ raced' = IF Loading(mod[t]) \ {t} # {} \/ Listed(mod[t]) # {}
                    THEN raced \cup {mod[t]} ELSE raced
        /\ Goto(t, "get")
     \/ /\ Goto(t, "idle")
        /\ UNCHANGED <<handles, raced>>
  /\ UNCHANGED <<listVars, g_dllLockCount, objects, mod, op, cursor, idle>>

\* Mutant: the error path does not close the module.
GetClassObjectLeaks(t) ==
  /\ pc[t] = "get"
  /\ DllGetClassObject(t, mod[t], "insert", "idle")
  /\ UNCHANGED <<listVars, handles, objects, mod, op, cursor, raced, idle>>

\* The module is asked for the class; without it (or without the entry points),
\* the module is closed again.
GetClassObject(t) ==
  /\ pc[t] = "get"
  /\ \/ /\ g_dllLockCount' = [g_dllLockCount EXCEPT ![mod[t]] = @ + 1]
        /\ Goto(t, "insert")
        /\ UNCHANGED handles
     \/ /\ Dlclose(mod[t])
        /\ Goto(t, "idle")
  /\ UNCHANGED <<listVars, objects, mod, op, cursor, raced, idle>>

\* The entry is inserted, whether or not another thread has been faster.
InsertModule(t) ==
  /\ pc[t] = "insert" /\ g_LocModListLock = NoThread
  /\ g_LocModList' = <<[module |-> mod[t], mAskCount |-> 0]>> \o g_LocModList
  /\ idle' = [idle EXCEPT ![mod[t]] = 0]
  /\ Goto(t, "class")
  /\ UNCHANGED <<g_LocModListLock, moduleVars, mod, op, cursor, raced>>

\* _CObject_CreateInstanceEx: the object is created (or not) before the class object
\* is released.
CreateObject(t) ==
  /\ pc[t] = "class"
  /\ Goto(t, "release")
  /\ \/ /\ objects[mod[t]] < MaxObjects
        /\ objects' = [objects EXCEPT ![mod[t]] = @ + 1]
        /\ g_dllLockCount' = [g_dllLockCount EXCEPT ![mod[t]] = @ + 1]
     \/ UNCHANGED <<objects, g_dllLockCount>>
  /\ UNCHANGED <<listVars, handles, mod, op, cursor, raced, idle>>

\* StayResident(TRUE), by a thread that has the class object.
StayResident(t) ==
  /\ pc[t] = "class" /\ objects[mod[t]] < MaxObjects
  /\ objects' = [objects EXCEPT ![mod[t]] = @ + 1]
  /\ g_dllLockCount' = [g_dllLockCount EXCEPT ![mod[t]] = @ + 1]
  /\ UNCHANGED <<listVars, handles, threadVars, raced, idle>>

ReleaseClassObject(t) ==
  /\ pc[t] = "release"
  /\ g_dllLockCount' = [g_dllLockCount EXCEPT ![mod[t]] = @ - 1]
  /\ Goto(t, "idle")
  /\ UNCHANGED <<listVars, handles, objects, mod, op, cursor, raced, idle>>

\* The last reference to an object goes, in any thread, or StayResident(FALSE) undoes
\* a StayResident(TRUE).
ReleaseObject(m) ==
  /\ objects[m] > 0
  /\ objects' = [objects EXCEPT ![m] = @ - 1]
  /\ g_dllLockCount' = [g_dllLockCount EXCEPT ![m] = @ - 1]
  /\ UNCHANGED <<listVars, handles, threadVars, raced, idle>>

Walks == {"CanUnloadAllModules", "FreeUnusedModule", "FreeUnusedModules",
          "FreeUnusedModulesImmediate", "FreeCurProcComponents"}

\* One of the functions that go through the list, which keep the lock throughout.
\* FreeUnusedModule is given a name.
StartWalk(t, w, m) ==
  /\ pc[t] = "idle" /\ g_LocModListLock = NoThread
  /\ w = "FreeUnusedModule" <=> m # NoModule
  /\ g_LocModListLock' = t
  /\ op' = [op EXCEPT ![t] = w]
  /\ mod' = [mod EXCEPT ![t] = m]
  /\ cursor' = [cursor EXCEPT ![t] = 1]
  /\ Goto(t, "walk")
  /\ UNCHANGED <<g_LocModList, moduleVars, raced, idle>>

EndWalk(t) ==
  /\ g_LocModListLock' = NoThread
  /\ op' = [op EXCEPT ![t] = "none"]
  /\ cursor' = [cursor EXCEPT ![t] = 0]
  /\ Goto(t, "idle")

NextEntry(t) ==
  /\ cursor' = [cursor EXCEPT ![t] = @ + 1]
  /\ UNCHANGED <<g_LocModListLock, op, pc>>

SetAskCount(n, c) == g_LocModList' = [g_LocModList EXCEPT ![n].mAskCount = c]

\* Mutants: FreeCurProcComponents begins again after a module in use; or to unload
\* immediately is to unload without asking.
InUseAgain(t, n) ==
  /\ IF op[t] \in {"CanUnloadAllModules", "FreeUnusedModule"} THEN EndWalk(t)
     ELSE /\ cursor' = [cursor EXCEPT ![t] = IF op[t] = "FreeCurProcComponents" THEN 1 ELSE @ + 1]
          /\ UNCHANGED <<g_LocModListLock, op, pc>>
  /\ IF op[t] \in {"FreeUnusedModules", "FreeUnusedModulesImmediate"}
       THEN SetAskCount(n, 0) ELSE UNCHANGED g_LocModList
  /\ UNCHANGED idle

InUseUnloaded(t, n) ==
  /\ IF op[t] \in {"CanUnloadAllModules", "FreeUnusedModule"} THEN EndWalk(t)
     ELSE IF op[t] = "FreeUnusedModulesImmediate"
       THEN Goto(t, "unload") /\ UNCHANGED <<g_LocModListLock, op, cursor>>
     ELSE NextEntry(t)
  /\ IF op[t] = "FreeUnusedModules" THEN SetAskCount(n, 0) ELSE UNCHANGED g_LocModList
  /\ UNCHANGED idle

\* DllCanUnloadNow answered S_FALSE: it is in use.  CanUnloadAllModules and FreeUnusedModule
\* return; FreeUnusedModules starts to count anew.
InUse(t, n) ==
  /\ IF op[t] \in {"CanUnloadAllModules", "FreeUnusedModule"} THEN EndWalk(t) ELSE NextEntry(t)
  /\ IF op[t] \in {"FreeUnusedModules", "FreeUnusedModulesImmediate"}
       THEN SetAskCount(n, 0) /\ idle' = [idle EXCEPT ![g_LocModList[n].module] = 0]
       ELSE UNCHANGED <<g_LocModList, idle>>

\* It answered NOERROR.  Only FreeUnusedModules(FALSE) waits for the third time.
NotInUse(t, n) ==
  LET m == g_LocModList[n].module
      unused == op[t] \in {"FreeUnusedModules", "FreeUnusedModulesImmediate"}
  IN
  /\ IF op[t] = "CanUnloadAllModules" \/ (op[t] = "FreeUnusedModules" /\ g_LocModList[n].mAskCount < 2)
       THEN NextEntry(t)
       ELSE Goto(t, "unload") /\ UNCHANGED <<g_LocModListLock, op, cursor>>
  /\ IF unused THEN SetAskCount(n, g_LocModList[n].mAskCount + 1) ELSE UNCHANGED g_LocModList
  /\ idle' = IF unused THEN [idle EXCEPT ![m] = IF @ < 3 THEN @ + 1 ELSE @] ELSE idle

\* One entry of the walk, its DllCanUnloadNow included.
Ask(t) ==
  LET n == cursor[t] IN
  /\ pc[t] = "walk"
  /\ IF n > Len(g_LocModList)
       THEN EndWalk(t) /\ UNCHANGED <<g_LocModList, idle>>
     ELSE IF op[t] = "FreeUnusedModule" /\ g_LocModList[n].module # mod[t]
       THEN NextEntry(t) /\ UNCHANGED <<g_LocModList, idle>>
     ELSE IF g_LocModList[n].module \in Unasked
       THEN /\ IF op[t] = "FreeUnusedModule" THEN EndWalk(t) ELSE NextEntry(t)
            /\ UNCHANGED <<g_LocModList, idle>>
     ELSE IF g_dllLockCount[g_LocModList[n].module] = 0 THEN NotInUse(t, n) ELSE InUse(t, n)
  /\ UNCHANGED <<moduleVars, mod, raced>>

\* Detach, dlclose, delete.  FreeUnusedModule returns, FreeUnusedModules goes on with the next
\* entry, FreeCurProcComponents begins again.
Unload(t) ==
  LET n == cursor[t] IN
  /\ pc[t] = "unload"
  /\ Dlclose(g_LocModList[n].module)
  /\ g_LocModList' = RemoveAt(g_LocModList, n)
  /\ IF op[t] = "FreeUnusedModule" THEN EndWalk(t)
     ELSE /\ cursor' = [cursor EXCEPT ![t] = IF op[t] = "FreeCurProcComponents" THEN 1 ELSE @]
          /\ Goto(t, "walk")
          /\ UNCHANGED <<g_LocModListLock, op>>
  /\ UNCHANGED <<objects, mod, raced, idle>>

Init ==
  /\ g_LocModList = <<>> /\ g_LocModListLock = NoThread
  /\ handles = [m \in Module |-> 0] /\ g_dllLockCount = [m \in Module |-> 0]
  /\ objects = [m \in Module |-> 0]
  /\ pc = [t \in Thread |-> "idle"] /\ mod = [t \in Thread |-> NoModule]
  /\ op = [t \in Thread |-> "none"] /\ cursor = [t \in Thread |-> 0]
  /\ raced = {} /\ idle = [m \in Module |-> 0]

Work(t) ==
  \/ Dlopen(t) \/ GetClassObject(t) \/ InsertModule(t)
  \/ CreateObject(t) \/ StayResident(t) \/ ReleaseClassObject(t) \/ Ask(t) \/ Unload(t)

Next ==
  \/ \E t \in Thread : Work(t)
  \/ \E t \in Thread, m \in Module : FindModule(t, m)
  \/ \E t \in Thread, w \in Walks, m \in Module \cup {NoModule} : StartWalk(t, w, m)
  \/ \E m \in Module : ReleaseObject(m)

Spec == Init /\ [][Next]_vars

\* A thread that has the list's lock, and a processor, goes on.
FairSpec == Spec /\ \A t \in Thread : WF_vars(Ask(t) \/ Unload(t))

-----------------------------------------------------------------------------
\* The threads that hold a reference to a class object of the module.
ClassHolders(m) == {t \in Thread : mod[t] = m /\ pc[t] \in {"insert", "class", "release"}}

\* A module somebody uses is mapped: no object, no reference to a class object and
\* no thread in the middle of a load outlives the code.  DllCanUnloadNow is answered
\* before dlclose, and a thread that loads the module meanwhile does not have
\* the lock: what saves it is its own dlopen.
UsedIsMapped ==
  /\ \A m \in Module : objects[m] > 0 \/ ClassHolders(m) # {} => Mapped(m)
  /\ \A t \in Thread : pc[t] = "get" => Mapped(mod[t])

\* Every dlopen is undone once: the handles of a module are its entries, of which
\* threads that load it at once leave several, and the loads under way.  The count a
\* module answers from is the number of its objects and of the references to its
\* class objects, however loads, unloads and loads again interleave.
CountsExact ==
  \A m \in Module :
    /\ handles[m] = Cardinality(Listed(m))
                  + Cardinality({t \in Thread : pc[t] \in {"get", "insert"} /\ mod[t] = m})
    /\ g_dllLockCount[m] = objects[m] + Cardinality(ClassHolders(m))

\* FreeUnusedModules(FALSE) unmaps a module only when it was found idle three
\* successive times since a class was last asked of it (the comment at locmod.cpp:191),
\* unless it was loaded twice: the use of one entry does not reset the other's count.
RecentlyUsedStays ==
  [][\A t \in Thread : pc[t] = "unload" /\ op[t] = "FreeUnusedModules" /\ Unload(t) =>
       LET m == g_LocModList[cursor[t]].module IN
       handles'[m] = 0 /\ m \notin raced => idle[m] >= 3]_vars

\* Every walk ends, although modules come into use and out of use under it and
\* FreeCurProcComponents begins again after each unload.
WalksEnd == \A t \in Thread : pc[t] \in {"walk", "unload"} ~> pc[t] \notin {"walk", "unload"}
=============================================================================

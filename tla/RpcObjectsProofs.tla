-------------------------- MODULE RpcObjectsProofs --------------------------
(***************************************************************************)
(* For any finite number of threads and any number of proxies: whatever    *)
(* lookups revive, a held proxy is not deleted, and the import table never *)
(* names a deleted one.                                                    *)
(*                                                                         *)
(* The heart of the invariant is Registered: a proxy with references is    *)
(* the one in the table.  Only UnregisterImportObject takes an entry away, *)
(* and it asks for a count of 0; a proxy that is no longer in the table    *)
(* can never be referred to again.                                         *)
(*                                                                         *)
(* Then two more facts rest on it: ReleaseState, one thread per proxy in   *)
(* Release, and StubBalance, an account in which the stub's count covers   *)
(* whatever may still come back to it as a RELEASE.                        *)
(***************************************************************************)
EXTENDS RpcObjects, FiniteSetTheorems, TLAPS

Holders(p) == {t \in Thread : pc[t] = "holding" /\ ref[t] = p}

\* A proxy's mRef is the number of threads that hold it.
CountsHolders == \A p \in Proxy : mRef[p] = Cardinality(Holders(p))

\* Who holds or releases a proxy has one; who is past the table has one without
\* references that is not in the table.
RefState ==
  \A t \in Thread :
    /\ pc[t] \in {"holding", "unregister", "destroy", "delete"} =>
         ref[t] \in Proxy /\ proxy[ref[t]] # "unborn"
    /\ pc[t] \in {"destroy", "delete"} => mRef[ref[t]] = 0 /\ imports # <<ref[t]>>

\* The table has no entry or that of a live proxy.
TableState == imports = <<>> \/ \E p \in Proxy : imports = <<p>> /\ proxy[p] = "live"

\* A proxy that is referred to is the one in the table.
Registered == \A p \in Proxy : mRef[p] # 0 => imports = <<p>>

\* A thread that is to register a proxy has the lock, and the table is empty.
LockState == \A t \in Thread : pc[t] = "create" => marshalLock = t /\ imports = <<>>

\* What the proofs need of the types.
UserTypes ==
  /\ proxy \in [Proxy -> {"unborn", "live", "gone"}] /\ mRef \in [Proxy -> Nat]
  /\ pc \in [Thread -> {"idle", "reply", "create", "holding", "unregister", "destroy",
                        "delete", "wild"}]
  /\ ref \in [Thread -> Proxy \cup {NoProxy}]
  /\ marshalLock \in Thread \cup {NoThread}

ObjectsInv ==
  UserTypes /\ CountsHolders /\ RefState /\ TableState /\ Registered /\ LockState

-----------------------------------------------------------------------------
\* The table as a list of one entry: registering in an empty one, taking the entry away.
LEMMA OneEntry ==
  ASSUME NEW p
  PROVE  /\ <<p>> \o <<>> = <<p>>
         /\ <<p>> # <<>>
         /\ Head(<<p>>) = p
         /\ Tail(<<p>>) = <<>>
         /\ \A q : <<p>> = <<q>> => p = q
  OBVIOUS

\* The holders of a proxy can be counted, and there are none if the count is 0.
LEMMA HoldersCount ==
  ASSUME NEW p
  PROVE  /\ IsFiniteSet(Holders(p))
         /\ Cardinality(Holders(p)) \in Nat
         /\ Cardinality(Holders(p)) = 0 <=> Holders(p) = {}
<1>1. Holders(p) \subseteq Thread
  BY DEF Holders
<1>2. IsFiniteSet(Holders(p))
  BY <1>1, FS_Subset, RpcObjectsAssumption
<1> QED
  BY <1>2, FS_CardinalityType, FS_EmptySet

\* A held proxy has references (AddRef before use, Release after).
LEMMA HeldCounted ==
  ASSUME ObjectsInv, NEW t \in Thread, pc[t] = "holding"
  PROVE  ref[t] \in Proxy /\ mRef[ref[t]] # 0 /\ mRef[ref[t]] \in Nat
<1>1. ref[t] \in Proxy
  BY DEF ObjectsInv, RefState
<1>2. t \in Holders(ref[t])
  BY DEF Holders
<1>3. Cardinality(Holders(ref[t])) # 0
  BY <1>2, HoldersCount
<1> QED
  BY <1>1, <1>3 DEF ObjectsInv, CountsHolders, UserTypes

\* A thread that begins to hold p (FindImportObject, AddRef, S_CreateObject) is one more.
LEMMA OneMoreHolder ==
  ASSUME UserTypes, CountsHolders, NEW t \in Thread, NEW p \in Proxy, pc[t] # "holding",
         Goto(t, "holding", p), mRef' = [mRef EXCEPT ![p] = @ + 1]
  PROVE  CountsHolders'
<1>1. Holders(p)' = Holders(p) \cup {t} /\ t \notin Holders(p)
  BY DEF Holders, Goto, UserTypes
<1>2. Cardinality(Holders(p)') = Cardinality(Holders(p)) + 1
  BY <1>1, HoldersCount, FS_AddElement
<1>3. \A q \in Proxy : q # p => Holders(q)' = Holders(q)
  BY DEF Holders, Goto, UserTypes
<1>4. mRef'[p] = mRef[p] + 1 /\ \A q \in Proxy : q # p => mRef'[q] = mRef[q]
  BY DEF UserTypes
<1> QED
  BY <1>2, <1>3, <1>4 DEF CountsHolders

\* A thread that neither held nor holds a proxy changes no count.
LEMMA SameHolders ==
  ASSUME UserTypes, CountsHolders, NEW t \in Thread, NEW l, NEW p, pc[t] # "holding",
         l # "holding", Goto(t, l, p), mRef' = mRef
  PROVE  CountsHolders'
<1>1. \A q \in Proxy : Holders(q)' = Holders(q)
  BY DEF Holders, Goto, UserTypes
<1> QED
  BY <1>1 DEF CountsHolders

\* A thread that gives its reference up (Release) is one fewer.
LEMMA OneHolderLess ==
  ASSUME ObjectsInv, NEW t \in Thread, pc[t] = "holding", NEW p, ref[t] = p,
         NEW l, NEW q, l # "holding",
         Goto(t, l, q), mRef' = [mRef EXCEPT ![p] = @ - 1]
  PROVE  CountsHolders'
<1>0. p \in Proxy /\ mRef[p] # 0 /\ mRef[p] \in Nat /\ UserTypes /\ CountsHolders
  BY HeldCounted DEF ObjectsInv
<1>1. Holders(p)' = Holders(p) \ {t} /\ t \in Holders(p)
  BY <1>0 DEF Holders, Goto, UserTypes
<1>2. Cardinality(Holders(p)') = Cardinality(Holders(p)) - 1
  BY <1>1, HoldersCount, FS_RemoveElement
<1>3. \A r \in Proxy : r # p => Holders(r)' = Holders(r)
  BY <1>0 DEF Holders, Goto, UserTypes
<1>4. mRef'[p] = mRef[p] - 1 /\ \A r \in Proxy : r # p => mRef'[r] = mRef[r]
  BY <1>0 DEF UserTypes
<1> QED
  BY <1>0, <1>2, <1>3, <1>4 DEF CountsHolders

-----------------------------------------------------------------------------
\* A thread that moves between locations where it has no proxy (a reply arrives, an
\* S_CreateObject fails) leaves the proxies and the table alone.
LEMMA MovesOnly ==
  ASSUME ObjectsInv, NEW t \in Thread, pc[t] \in {"idle", "create"},
         NEW l \in {"idle", "reply"}, Goto(t, l, NoProxy),
         marshalLock' \in Thread \cup {NoThread},
         \A u \in Thread \ {t} : pc[u] = "create" => marshalLock' = u,
         UNCHANGED <<proxy, mRef, imports>>
  PROVE  ObjectsInv'
<1>1. UserTypes'
  BY DEF ObjectsInv, UserTypes, Goto
<1>2. CountsHolders'
  BY SameHolders DEF ObjectsInv
<1>3. RefState'
  BY DEF ObjectsInv, UserTypes, RefState, Goto
<1>4. TableState' /\ Registered'
  BY DEF ObjectsInv, TableState, Registered
<1>5. LockState'
  BY DEF ObjectsInv, UserTypes, LockState, Goto
<1> QED
  BY <1>1, <1>2, <1>3, <1>4, <1>5 DEF ObjectsInv

\* StdMarshalInterface touches the owner only, and hands a thread the address.
LEMMA MarshalKeeps ==
  ASSUME ObjectsInv, NEW t \in Thread, Marshal(t)
  PROVE  ObjectsInv'
<1>1. CASE stub = "gone"
  <2>1. UNCHANGED userVars
    BY <1>1 DEF Marshal, userVars
  <2> QED
    BY <2>1 DEF userVars, ObjectsInv, UserTypes, CountsHolders, Holders, RefState, TableState,
                Registered, LockState
<1>2. CASE stub # "gone"
  <2>1. Goto(t, "reply", NoProxy) /\ UNCHANGED <<proxy, mRef, imports, marshalLock>>
    BY <1>2 DEF Marshal
  <2>2. pc[t] = "idle"
    BY DEF Marshal
  <2>3. marshalLock' \in Thread \cup {NoThread}
    BY <2>1 DEF ObjectsInv, UserTypes
  <2>4. \A u \in Thread \ {t} : pc[u] = "create" => marshalLock' = u
    BY <2>1 DEF ObjectsInv, LockState
  <2> QED
    BY <2>1, <2>2, <2>3, <2>4, MovesOnly
<1> QED
  BY <1>1, <1>2

\* FindImportObject refers to the proxy in the table, or leaves an empty table locked.
LEMMA FindImportKeeps ==
  ASSUME ObjectsInv, NEW t \in Thread, FindImport(t)
  PROVE  ObjectsInv'
<1>0. pc[t] = "reply" /\ marshalLock = NoThread /\ UNCHANGED <<proxy, imports>>
  BY DEF FindImport
<1>1. CASE imports # <<>>
  <2>1. PICK p \in Proxy : imports = <<p>> /\ proxy[p] = "live"
    BY <1>1 DEF ObjectsInv, TableState
  <2>2. Head(imports) = p /\ \A q : imports = <<q>> => q = p
    BY <2>1, OneEntry
  <2>3. mRef' = [mRef EXCEPT ![p] = @ + 1] /\ Goto(t, "holding", p) /\ marshalLock' = marshalLock
    BY <1>1, <2>2 DEF FindImport
  <2>4. UserTypes'
    BY <1>0, <2>3 DEF ObjectsInv, UserTypes, Goto
  <2>5. CountsHolders'
    BY <1>0, <2>3, OneMoreHolder DEF ObjectsInv
  <2>6. RefState'
    BY <1>0, <2>1, <2>3 DEF ObjectsInv, UserTypes, RefState, Goto
  <2>7. TableState' /\ Registered'
    BY <1>0, <2>1, <2>3 DEF ObjectsInv, UserTypes, TableState, Registered
  <2>8. LockState'
    BY <1>0, <2>3 DEF ObjectsInv, UserTypes, LockState, Goto
  <2> QED
    BY <2>4, <2>5, <2>6, <2>7, <2>8 DEF ObjectsInv
<1>2. CASE imports = <<>>
  <2>1. marshalLock' = t /\ Goto(t, "create", NoProxy) /\ mRef' = mRef
    BY <1>2 DEF FindImport
  <2>2. UserTypes'
    BY <1>0, <2>1 DEF ObjectsInv, UserTypes, Goto
  <2>3. CountsHolders'
    BY <1>0, <2>1, SameHolders DEF ObjectsInv
  <2>4. RefState'
    BY <1>0, <2>1 DEF ObjectsInv, UserTypes, RefState, Goto
  <2>5. TableState' /\ Registered'
    BY <1>0, <2>1 DEF ObjectsInv, TableState, Registered
  <2>6. LockState'
    <3>1. \A u \in Thread : pc[u] # "create"
      BY <1>0, RpcObjectsAssumption DEF ObjectsInv, LockState
    <3> QED
      BY <1>0, <1>2, <2>1, <3>1 DEF ObjectsInv, UserTypes, LockState, Goto
  <2> QED
    BY <2>2, <2>3, <2>4, <2>5, <2>6 DEF ObjectsInv
<1> QED
  BY <1>1, <1>2

\* S_CreateObject registers its proxy in an empty table, or fails.
LEMMA CreateProxyKeeps ==
  ASSUME ObjectsInv, NEW t \in Thread, CreateProxy(t)
  PROVE  ObjectsInv'
<1>0. pc[t] = "create" /\ marshalLock' = NoThread /\ imports = <<>>
  BY DEF CreateProxy, ObjectsInv, LockState
<1>1. \A u \in Thread : pc[u] = "create" => u = t
  BY <1>0 DEF ObjectsInv, LockState
<1>2. CASE \E p \in Proxy :
             /\ proxy[p] = "unborn"
             /\ proxy' = [proxy EXCEPT ![p] = "live"]
             /\ mRef' = [mRef EXCEPT ![p] = 1]
             /\ imports' = <<p>> \o imports
             /\ Goto(t, "holding", p)
  <2>1. PICK p \in Proxy : /\ proxy[p] = "unborn"
                           /\ proxy' = [proxy EXCEPT ![p] = "live"]
                           /\ mRef' = [mRef EXCEPT ![p] = 1]
                           /\ imports' = <<p>> \o imports
                           /\ Goto(t, "holding", p)
    BY <1>2
  <2>2. imports' = <<p>> /\ \A q : imports' = <<q>> => q = p
    BY <1>0, <2>1, OneEntry
  <2>3. \A q \in Proxy : mRef[q] = 0
    BY <1>0, OneEntry DEF ObjectsInv, Registered
  <2>4. mRef' = [mRef EXCEPT ![p] = @ + 1]
    <3>1. mRef[p] + 1 = 1
      BY <2>3
    <3> QED
      BY <2>1, <3>1, Zenon
  <2>5. UserTypes'
    BY <1>0, <2>1 DEF ObjectsInv, UserTypes, Goto
  <2>6. CountsHolders'
    BY <1>0, <2>1, <2>4, OneMoreHolder DEF ObjectsInv
  <2>7. TableState' /\ Registered'
    BY <2>1, <2>2, <2>3 DEF ObjectsInv, UserTypes, TableState, Registered
  <2>8. LockState'
    BY <1>1, <2>1 DEF ObjectsInv, UserTypes, LockState, Goto
  <2>9. RefState'
    BY <1>0, <2>1, <2>2 DEF ObjectsInv, UserTypes, RefState, Goto
  <2> QED
    BY <2>5, <2>6, <2>7, <2>8, <2>9 DEF ObjectsInv
<1>3. CASE Goto(t, "idle", NoProxy) /\ UNCHANGED <<proxy, mRef, imports>>
  BY <1>0, <1>1, <1>3, MovesOnly
<1> QED
  BY <1>2, <1>3 DEF CreateProxy

\* AddRef by a thread that has a reference.
LEMMA ShareKeeps ==
  ASSUME ObjectsInv, NEW t \in Thread, NEW u \in Thread, Share(t, u)
  PROVE  ObjectsInv'
<1>0. pc[t] = "holding" /\ pc[u] = "idle" /\ UNCHANGED <<proxy, imports, marshalLock>>
  BY DEF Share
<1>1. PICK q \in Proxy : q = ref[t] /\ mRef[q] # 0 /\ mRef[q] \in Nat
  BY <1>0, HeldCounted
<1>2. mRef' = [mRef EXCEPT ![q] = @ + 1] /\ Goto(u, "holding", q)
  BY <1>1 DEF Share
<1>3. imports = <<q>> /\ \A r : imports = <<r>> => r = q
  BY <1>1, OneEntry DEF ObjectsInv, Registered
<1>4. UserTypes'
  BY <1>0, <1>2 DEF ObjectsInv, UserTypes, Goto
<1>5. CountsHolders'
  BY <1>0, <1>2, OneMoreHolder DEF ObjectsInv
<1>6. RefState'
  BY <1>0, <1>1, <1>2, <1>3 DEF ObjectsInv, UserTypes, RefState, Goto
<1>7. TableState' /\ Registered'
  BY <1>0, <1>2, <1>3 DEF ObjectsInv, UserTypes, TableState, Registered
<1>8. LockState'
  BY <1>0, <1>2 DEF ObjectsInv, UserTypes, LockState, Goto
<1> QED
  BY <1>4, <1>5, <1>6, <1>7, <1>8 DEF ObjectsInv

\* Release gives one reference up; the entry is still that of the proxy.
LEMMA ReleaseKeeps ==
  ASSUME ObjectsInv, NEW t \in Thread, Release(t)
  PROVE  ObjectsInv'
<1>0. pc[t] = "holding" /\ UNCHANGED <<proxy, imports, marshalLock>>
  BY DEF Release
<1>1. PICK p \in Proxy : p = ref[t] /\ mRef[p] # 0 /\ mRef[p] \in Nat
  BY <1>0, HeldCounted
<1>2. PICK l \in {"idle", "unregister"} :
        Goto(t, l, IF l = "idle" THEN NoProxy ELSE p)
  BY <1>1 DEF Release
<1>3. mRef' = [mRef EXCEPT ![p] = @ - 1] /\ mRef' \in [Proxy -> Nat]
  BY <1>1 DEF Release, ObjectsInv, UserTypes
<1>4. imports = <<p>>
  BY <1>1 DEF ObjectsInv, Registered
<1>5. UserTypes'
  BY <1>0, <1>1, <1>2, <1>3 DEF ObjectsInv, UserTypes, Goto
<1>6. CountsHolders'
  <2>1. l # "holding"
    BY <1>2
  <2> QED
    BY <1>0, <1>1, <1>2, <1>3, <2>1, OneHolderLess
<1>7. RefState'
  BY <1>0, <1>1, <1>2, <1>3, <1>4 DEF ObjectsInv, UserTypes, RefState, Goto
<1>8. TableState' /\ Registered'
  BY <1>0, <1>3, <1>4 DEF ObjectsInv, UserTypes, TableState, Registered
<1>9. LockState'
  BY <1>0, <1>2 DEF ObjectsInv, UserTypes, LockState, Goto
<1> QED
  BY <1>5, <1>6, <1>7, <1>8, <1>9 DEF ObjectsInv

\* UnregisterImportObject takes an entry only if its proxy has no references.
LEMMA UnregisterKeeps ==
  ASSUME ObjectsInv, NEW t \in Thread, UnregisterImport(t)
  PROVE  ObjectsInv'
<1>0. pc[t] = "unregister" /\ UNCHANGED <<proxy, mRef, marshalLock>>
  BY DEF UnregisterImport
<1>1. ref[t] \in Proxy /\ proxy[ref[t]] # "unborn"
  BY <1>0 DEF ObjectsInv, RefState
<1>2. CASE /\ imports' = imports
           /\ Goto(t, "wild", ref[t]) \/ Goto(t, "idle", NoProxy)
  <2>1. UserTypes'
    BY <1>0, <1>1, <1>2 DEF ObjectsInv, UserTypes, Goto
  <2>2. CountsHolders'
    <3>1. CASE Goto(t, "wild", ref[t])
      BY <1>0, <3>1, SameHolders DEF ObjectsInv
    <3>2. CASE Goto(t, "idle", NoProxy)
      BY <1>0, <3>2, SameHolders DEF ObjectsInv
    <3> QED
      BY <1>2, <3>1, <3>2
  <2>3. RefState'
    BY <1>0, <1>2 DEF ObjectsInv, UserTypes, RefState, Goto
  <2>4. TableState' /\ Registered'
    BY <1>0, <1>2 DEF ObjectsInv, TableState, Registered
  <2>5. LockState'
    BY <1>0, <1>2 DEF ObjectsInv, UserTypes, LockState, Goto
  <2> QED
    BY <2>1, <2>2, <2>3, <2>4, <2>5 DEF ObjectsInv
<1>3. CASE /\ imports # <<>> => mRef[Head(imports)] = 0
           /\ imports' = IF imports = <<>> THEN imports ELSE Tail(imports)
           /\ Goto(t, "destroy", ref[t])
  <2>1. imports' = <<>>
    BY <1>3, OneEntry DEF ObjectsInv, TableState
  <2>2. \A p \in Proxy : mRef[p] = 0
    BY <1>3, OneEntry DEF ObjectsInv, Registered
  <2>3. UserTypes'
    BY <1>0, <1>1, <1>3 DEF ObjectsInv, UserTypes, Goto
  <2>4. CountsHolders'
    BY <1>0, <1>3, SameHolders DEF ObjectsInv
  <2>5. RefState'
    BY <1>0, <1>1, <1>3, <2>1, <2>2, OneEntry DEF ObjectsInv, UserTypes, RefState, Goto
  <2>6. TableState' /\ Registered'
    BY <1>0, <2>1, <2>2 DEF TableState, Registered
  <2>7. LockState'
    BY <1>0, <1>3, <2>1 DEF ObjectsInv, UserTypes, LockState, Goto
  <2> QED
    BY <2>3, <2>4, <2>5, <2>6, <2>7 DEF ObjectsInv
<1> QED
  BY <1>2, <1>3 DEF UnregisterImport

\* What is past the table is in nobody's hands: RELEASE and the deletion of the proxy.
LEMMA DestroyKeeps ==
  ASSUME ObjectsInv, NEW t \in Thread, SendRelease(t) \/ DeleteProxy(t)
  PROVE  ObjectsInv'
<1>0. /\ pc[t] \in {"destroy", "delete"} /\ UNCHANGED <<mRef, imports, marshalLock>>
      /\ proxy' \in {proxy, [proxy EXCEPT ![ref[t]] = "gone"]}
  BY DEF SendRelease, DeleteProxy
<1>1. PICK l \in {"idle", "delete", "wild"} :
        Goto(t, l, IF l = "idle" THEN NoProxy ELSE ref[t])
  BY DEF SendRelease, DeleteProxy
<1>2. /\ ref[t] \in Proxy /\ proxy[ref[t]] # "unborn"
      /\ mRef[ref[t]] = 0 /\ imports # <<ref[t]>>
  BY <1>0 DEF ObjectsInv, RefState
<1>3. UserTypes'
  BY <1>0, <1>1, <1>2 DEF ObjectsInv, UserTypes, Goto
<1>4. CountsHolders'
  <2>1. l # "holding" /\ pc[t] # "holding"
    BY <1>0, <1>1
  <2> QED
    BY <1>0, <1>1, <2>1, SameHolders DEF ObjectsInv
<1>5. RefState'
  BY <1>0, <1>1, <1>2 DEF ObjectsInv, UserTypes, RefState, Goto
<1>6. TableState' /\ Registered'
  BY <1>0, <1>2 DEF ObjectsInv, UserTypes, TableState, Registered
<1>7. LockState'
  BY <1>0, <1>1 DEF ObjectsInv, UserTypes, LockState, Goto
<1> QED
  BY <1>3, <1>4, <1>5, <1>6, <1>7 DEF ObjectsInv

\* What leaves the proxies, the table and the threads alone keeps the invariant: the
\* stub's side, a call.
LEMMA OthersKeep ==
  ASSUME ObjectsInv, UNCHANGED <<proxy, mRef, imports, marshalLock, pc, ref>>
  PROVE  ObjectsInv'
  BY DEF ObjectsInv, UserTypes, CountsHolders, Holders, RefState, TableState, Registered,
         LockState

\* ObjectsInv is an invariant of every interleaving of unmarshalling, AddRef and
\* Release in the user's process.
THEOREM ObjectsInvariant == Spec => []ObjectsInv
<1>1. Init => ObjectsInv
  <2> SUFFICES ASSUME Init PROVE ObjectsInv
    OBVIOUS
  <2>1. \A p \in Proxy : Holders(p) = {}
    BY DEF Init, Holders
  <2>2. CountsHolders
    BY <2>1, FS_EmptySet DEF Init, CountsHolders
  <2> QED
    BY <2>2 DEF Init, ObjectsInv, UserTypes, RefState, TableState, Registered, LockState
<1>2. ObjectsInv /\ [Next]_vars => ObjectsInv'
  <2> SUFFICES ASSUME ObjectsInv, [Next]_vars PROVE ObjectsInv'
    OBVIOUS
  <2>1. ASSUME NEW t \in Thread, Step(t) PROVE ObjectsInv'
    <3>1. CASE Marshal(t)
      BY <3>1, MarshalKeeps
    <3>2. CASE FindImport(t)
      BY <3>2, FindImportKeeps
    <3>3. CASE CreateProxy(t)
      BY <3>3, CreateProxyKeeps
    <3>4. CASE Call(t)
      BY <3>4, OthersKeep DEF Call
    <3>5. CASE \E u \in Thread : Share(t, u)
      BY <3>5, ShareKeeps
    <3>6. CASE Release(t)
      BY <3>6, ReleaseKeeps
    <3>7. CASE UnregisterImport(t)
      BY <3>7, UnregisterKeeps
    <3>8. CASE SendRelease(t) \/ DeleteProxy(t)
      BY <3>8, DestroyKeeps
    <3> QED
      BY <2>1, <3>1, <3>2, <3>3, <3>4, <3>5, <3>6, <3>7, <3>8 DEF Step
  <2>2. CASE StubRelease \/ DeleteStub
    BY <2>2, OthersKeep DEF StubRelease, DeleteStub, userVars
  <2>3. CASE UNCHANGED vars
    BY <2>3, OthersKeep DEF vars, userVars
  <2> QED
    BY <2>1, <2>2, <2>3 DEF Next
<1> QED
  BY <1>1, <1>2, PTL DEF Spec

\* A held proxy is not deleted, even one that a lookup revived after its last Release
\* had begun (CObjectProxy::Release and FindImportObject).
THEOREM HeldLives == Spec => []HeldNotDeleted
<1>1. ObjectsInv => HeldNotDeleted
  <2> SUFFICES ASSUME ObjectsInv, NEW t \in Thread, pc[t] = "holding"
               PROVE  proxy[ref[t]] = "live"
    BY DEF HeldNotDeleted
  <2>1. ref[t] \in Proxy /\ imports = <<ref[t]>>
    BY HeldCounted DEF ObjectsInv, Registered
  <2> QED
    BY <2>1, OneEntry DEF ObjectsInv, TableState
<1> QED
  BY <1>1, ObjectsInvariant, PTL

\* The import table has one entry at most, of a proxy that is not deleted
\* (RegisterImportObject, UnregisterImportObject).
THEOREM TableLives == Spec => []OneLiveEntry
<1>1. ObjectsInv => OneLiveEntry
  <2> SUFFICES ASSUME ObjectsInv PROVE OneLiveEntry
    OBVIOUS
  <2>1. CASE imports = <<>>
    BY <2>1 DEF OneLiveEntry
  <2>2. CASE \E p \in Proxy : imports = <<p>> /\ proxy[p] = "live"
    <3>1. PICK p \in Proxy : imports = <<p>> /\ proxy[p] = "live"
      BY <2>2
    <3>2. Len(imports) = 1 /\ DOMAIN imports = {1} /\ imports[1] = p
      BY <3>1
    <3> QED
      BY <3>1, <3>2 DEF OneLiveEntry
  <2> QED
    BY <2>1, <2>2 DEF ObjectsInv, TableState
<1> QED
  BY <1>1, ObjectsInvariant, PTL

-----------------------------------------------------------------------------
\* Who brought a proxy's count to 0 and is still in Release.
InRelease(t) == pc[t] \in {"unregister", "destroy", "delete"}

\* As long as no count fell to 0 twice during one Release: nobody reaches a deleted
\* proxy, each proxy has one thread in Release at most and is not deleted before that
\* one does it, its entry stays until that one has looked at the table, and a proxy
\* without references has such a thread.
ReleaseState ==
  ~doubled =>
    /\ \A t \in Thread : pc[t] # "wild"
    /\ \A t \in Thread : InRelease(t) => proxy[ref[t]] = "live"
    /\ \A t, u \in Thread : InRelease(t) /\ InRelease(u) /\ ref[t] = ref[u] => t = u
    /\ \A t \in Thread : pc[t] = "unregister" => imports = <<ref[t]>>
    /\ \A p \in Proxy : proxy[p] = "live" /\ mRef[p] = 0 =>
         \E t \in Thread : InRelease(t) /\ ref[t] = p

\* The threads that have the stub's address from an answer, or a RELEASE still to send.
Owing == {t \in Thread : pc[t] \in {"reply", "create", "unregister", "destroy"}}

\* The reference to the stub of the proxy that is in use.
InUse == IF \E p \in Proxy : mRef[p] # 0 THEN 1 ELSE 0

\* What the owner's side is made of.
OwnerTypes ==
  /\ stub \in {"unborn", "live", "dying", "gone"} /\ ownerUp \in BOOLEAN
  /\ stubRef \in Nat /\ releases \in Nat
  /\ marshals \in 0 .. MaxMarshals /\ remarshalled \in BOOLEAN

\* The stub's count covers every RELEASE under way, every one still to be sent or
\* promised by an answer, and the proxy in use, until it is deleted with an address
\* handed out since its count fell to 0.
StubBalance ==
  /\ stub = "unborn" => stubRef = 0
  /\ stub \in {"dying", "gone"} /\ ~remarshalled => stubRef = 0
  /\ stub # "gone" \/ ~remarshalled =>
       stubRef >= releases + Cardinality(Owing) + InUse

StubInv == OwnerTypes /\ StubBalance
-----------------------------------------------------------------------------
\* A thread outside Release moves to a location outside it and no proxy loses its last
\* reference: an answer arrives, a lookup, a new proxy, AddRef, a Release that is not
\* the last.
LEMMA OutsideRelease ==
  ASSUME ObjectsInv, ReleaseState, NEW t \in Thread,
         NEW l \in {"idle", "reply", "create", "holding"}, NEW q, Goto(t, l, q), ~InRelease(t), doubled => doubled',
         \A u \in Thread : pc[u] = "unregister" => imports' = imports,
         \A p \in Proxy : proxy[p] # "unborn" => proxy'[p] = proxy[p],
         \A p \in Proxy : proxy'[p] = "live" /\ mRef'[p] = 0 => proxy[p] = "live" /\ mRef[p] = 0
  PROVE  ReleaseState'
<1> SUFFICES ASSUME ~doubled, ~doubled' PROVE ReleaseState'
  BY DEF ReleaseState
<1>1. /\ pc' = [pc EXCEPT ![t] = l] /\ ref' = [ref EXCEPT ![t] = q]
      /\ pc \in [Thread -> {"idle", "reply", "create", "holding", "unregister", "destroy",
                            "delete", "wild"}]
      /\ DOMAIN ref = Thread
  BY DEF Goto, ObjectsInv, UserTypes
<1>2. \A u \in Thread : InRelease(u)' <=> u # t /\ InRelease(u)
  BY <1>1 DEF InRelease
<1>3. \A u \in Thread : u # t => pc'[u] = pc[u] /\ ref'[u] = ref[u]
  BY <1>1
<1>4. pc'[t] \notin {"wild", "unregister"}
  BY <1>1
<1>5. \A u \in Thread : InRelease(u) => ref[u] \in Proxy /\ proxy[ref[u]] # "unborn"
  BY DEF ObjectsInv, RefState, InRelease
<1>6. \A u \in Thread : InRelease(u)' => proxy'[ref'[u]] = "live"
  BY <1>2, <1>3, <1>5 DEF ReleaseState
<1>7. \A u \in Thread : pc'[u] = "unregister" => imports' = <<ref'[u]>>
  BY <1>3, <1>4 DEF ReleaseState
<1>8. \A p \in Proxy : proxy'[p] = "live" /\ mRef'[p] = 0 =>
         \E u \in Thread : InRelease(u)' /\ ref'[u] = p
  BY <1>2, <1>3 DEF ReleaseState
<1> QED
  BY <1>2, <1>3, <1>4, <1>6, <1>7, <1>8 DEF ReleaseState

\* Whatever leaves the proxies, the table and the threads alone.
LEMMA OthersKeepRelease ==
  ASSUME ReleaseState, UNCHANGED <<proxy, mRef, imports, pc, ref, doubled>>
  PROVE  ReleaseState'
  BY DEF ReleaseState, InRelease

\* StdMarshalInterface, the lookup and the creation of a proxy, AddRef.
LEMMA UsesKeepRelease ==
  ASSUME ObjectsInv, ReleaseState, NEW t \in Thread,
         Marshal(t) \/ FindImport(t) \/ CreateProxy(t) \/ \E u \in Thread : Share(t, u)
  PROVE  ReleaseState'
<1>1. CASE Marshal(t)
  <2>1. CASE stub = "gone"
    BY <1>1, <2>1, OthersKeepRelease DEF Marshal
  <2>2. CASE stub # "gone"
    BY <1>1, <2>2, OutsideRelease DEF Marshal, InRelease
  <2> QED
    BY <2>1, <2>2
<1>2. CASE FindImport(t)
  <2>1. CASE imports # <<>>
    <3>1. PICK p \in Proxy : imports = <<p>> /\ proxy[p] = "live"
      BY <2>1 DEF ObjectsInv, TableState
    <3>2. Goto(t, "holding", p) /\ mRef' = [mRef EXCEPT ![p] = @ + 1]
      BY <1>2, <2>1, <3>1, OneEntry DEF FindImport
    <3>3. \A r \in Proxy : mRef'[r] = 0 => mRef[r] = 0
      BY <3>2 DEF ObjectsInv, UserTypes
    <3> QED
      BY <1>2, <3>2, <3>3, OutsideRelease DEF FindImport, InRelease
  <2>2. CASE imports = <<>>
    BY <1>2, <2>2, OutsideRelease DEF FindImport, InRelease
  <2> QED
    BY <2>1, <2>2
<1>3. CASE CreateProxy(t)
  <2>0. pc[t] = "create" /\ imports = <<>> /\ doubled' = doubled
    BY <1>3 DEF CreateProxy, ObjectsInv, LockState
  <2>1. CASE \E p \in Proxy :
               /\ proxy[p] = "unborn"
               /\ proxy' = [proxy EXCEPT ![p] = "live"]
               /\ mRef' = [mRef EXCEPT ![p] = 1]
               /\ imports' = <<p>> \o imports
               /\ Goto(t, "holding", p)
    <3>1. PICK p \in Proxy : /\ proxy[p] = "unborn"
                             /\ proxy' = [proxy EXCEPT ![p] = "live"]
                             /\ mRef' = [mRef EXCEPT ![p] = 1]
                             /\ Goto(t, "holding", p)
      BY <2>1
    <3>2. /\ \A r \in Proxy : proxy[r] # "unborn" => proxy'[r] = proxy[r]
          /\ \A r \in Proxy : proxy'[r] = "live" /\ mRef'[r] = 0 => proxy[r] = "live" /\ mRef[r] = 0
      BY <3>1 DEF ObjectsInv, UserTypes
    <3>3. CASE doubled
      BY <2>0, <3>3 DEF ReleaseState
    <3>4. CASE ~doubled
      <4>1. \A u \in Thread : pc[u] # "unregister"
        BY <2>0, <3>4, OneEntry DEF ReleaseState
      <4> QED
        BY <2>0, <3>1, <3>2, <4>1, OutsideRelease DEF InRelease
    <3> QED
      BY <3>3, <3>4
  <2>2. CASE Goto(t, "idle", NoProxy) /\ UNCHANGED <<proxy, mRef, imports>>
    BY <2>0, <2>2, OutsideRelease DEF InRelease
  <2> QED
    BY <1>3, <2>1, <2>2 DEF CreateProxy
<1>4. CASE \E u \in Thread : Share(t, u)
  <2>1. PICK u \in Thread : Share(t, u)
    BY <1>4
  <2>2. PICK q \in Proxy : q = ref[t]
    BY <2>1 DEF Share, ObjectsInv, RefState
  <2>3. Goto(u, "holding", q) /\ mRef' = [mRef EXCEPT ![q] = @ + 1]
    BY <2>1, <2>2 DEF Share
  <2>4. \A r \in Proxy : mRef'[r] = 0 => mRef[r] = 0
    BY <2>3 DEF ObjectsInv, UserTypes
  <2> QED
    BY <2>1, <2>3, <2>4, OutsideRelease DEF Share, InRelease
<1> QED
  BY <1>1, <1>2, <1>3, <1>4

\* Release: who takes the last reference is the only one in Release, or doubled says so.
LEMMA ReleaseKeepsRelease ==
  ASSUME ObjectsInv, ReleaseState, NEW t \in Thread, Release(t)
  PROVE  ReleaseState'
<1>0. pc[t] = "holding" /\ UNCHANGED <<proxy, imports>>
  BY DEF Release
<1>1. PICK p \in Proxy : p = ref[t] /\ mRef[p] # 0 /\ mRef[p] \in Nat
  BY <1>0, HeldCounted
<1>2. mRef' = [mRef EXCEPT ![p] = @ - 1]
  BY <1>1 DEF Release
<1>3. CASE mRef[p] # 1
  <2>1. Goto(t, "idle", NoProxy)
    BY <1>1, <1>3 DEF Release
  <2>2. doubled => doubled'
    BY DEF Release
  <2>3. \A r \in Proxy : mRef'[r] = 0 => mRef[r] = 0
    BY <1>1, <1>2, <1>3 DEF ObjectsInv, UserTypes
  <2> QED
    BY <1>0, <2>1, <2>2, <2>3, OutsideRelease DEF InRelease
<1>4. CASE mRef[p] = 1
  <2>1. Goto(t, "unregister", p)
    BY <1>1, <1>4 DEF Release
  <2> SUFFICES ASSUME ~doubled' PROVE ReleaseState'
    BY DEF ReleaseState
  <2>2. ~doubled /\ Releasing(p) = {}
    BY <1>1, <1>4 DEF Release
  <2>3. \A u \in Thread : InRelease(u) => ref[u] # p
    BY <2>2 DEF Releasing, InRelease
  <2>4. imports = <<p>> /\ proxy[p] = "live"
    BY <1>1, OneEntry DEF ObjectsInv, Registered, TableState
  <2>5. /\ pc'[t] = "unregister" /\ ref'[t] = p
        /\ \A u \in Thread : u # t => pc'[u] = pc[u] /\ ref'[u] = ref[u]
    BY <2>1 DEF Goto, ObjectsInv, UserTypes
  <2>6. \A u \in Thread : InRelease(u)' <=> u = t \/ InRelease(u)
    BY <1>0, <2>5 DEF InRelease
  <2>7. \A r \in Proxy : r # p => mRef'[r] = mRef[r]
    BY <1>2 DEF ObjectsInv, UserTypes
  <2>8. \A u \in Thread : pc'[u] # "wild"
    BY <2>2, <2>5 DEF ReleaseState
  <2>9. \A u \in Thread : InRelease(u)' => proxy'[ref'[u]] = "live"
    BY <1>0, <2>2, <2>4, <2>5, <2>6 DEF ReleaseState
  <2>10. \A u, v \in Thread : InRelease(u)' /\ InRelease(v)' /\ ref'[u] = ref'[v] => u = v
    BY <2>2, <2>3, <2>5, <2>6 DEF ReleaseState
  <2>11. \A u \in Thread : pc'[u] = "unregister" => imports' = <<ref'[u]>>
    BY <1>0, <2>2, <2>4, <2>5 DEF ReleaseState
  <2>12. \A r \in Proxy : proxy'[r] = "live" /\ mRef'[r] = 0 =>
           \E u \in Thread : InRelease(u)' /\ ref'[u] = r
    BY <1>0, <2>2, <2>5, <2>6, <2>7 DEF ReleaseState, InRelease
  <2> QED
    BY <2>8, <2>9, <2>10, <2>11, <2>12 DEF ReleaseState
<1> QED
  BY <1>3, <1>4

\* The rest of Release: S_FALSE leaves a proxy that is referred to again; the deletion
\* is that of the one thread.
LEMMA RestKeepsRelease ==
  ASSUME ObjectsInv, ReleaseState, NEW t \in Thread,
         UnregisterImport(t) \/ SendRelease(t) \/ DeleteProxy(t)
  PROVE  ReleaseState'
<1>0. doubled' = doubled /\ mRef' = mRef
  BY DEF UnregisterImport, SendRelease, DeleteProxy
<1> SUFFICES ASSUME ~doubled PROVE ReleaseState'
  BY <1>0 DEF ReleaseState
<1>1. InRelease(t)
  BY DEF InRelease, UnregisterImport, SendRelease, DeleteProxy
<1>2. PICK p \in Proxy : p = ref[t] /\ proxy[p] = "live"
  BY <1>1 DEF ReleaseState, ObjectsInv, RefState, InRelease
<1>3. \A u \in Thread : u # t /\ InRelease(u) => ref[u] # p /\ ref[u] \in Proxy
  BY <1>1, <1>2 DEF ReleaseState, ObjectsInv, RefState, InRelease
<1>4. PICK l \in {"idle", "destroy", "delete"} : Goto(t, l, IF l = "idle" THEN NoProxy ELSE p)
  BY <1>2 DEF UnregisterImport, SendRelease, DeleteProxy
<1>5. /\ pc'[t] = l /\ ref'[t] = IF l = "idle" THEN NoProxy ELSE p
      /\ \A u \in Thread : u # t => pc'[u] = pc[u] /\ ref'[u] = ref[u]
  BY <1>4 DEF Goto, ObjectsInv, UserTypes
<1>6. \A u \in Thread : InRelease(u)' <=> IF u = t THEN l # "idle" ELSE InRelease(u)
  BY <1>5 DEF InRelease
<1>7. \A u \in Thread : pc'[u] # "wild"
  BY <1>5 DEF ReleaseState
<1>8. \A u, v \in Thread : InRelease(u)' /\ InRelease(v)' /\ ref'[u] = ref'[v] => u = v
  BY <1>3, <1>5, <1>6 DEF ReleaseState
<1>9. \A r \in Proxy : r # p => proxy'[r] = proxy[r]
  BY <1>2 DEF UnregisterImport, SendRelease, DeleteProxy, ObjectsInv, UserTypes
<1>10. l # "idle" => proxy'[p] = "live"
  <2>1. CASE DeleteProxy(t)
    BY <1>2, <1>4, <1>5, <2>1 DEF DeleteProxy, Goto, ObjectsInv, UserTypes
  <2>2. CASE UnregisterImport(t) \/ SendRelease(t)
    BY <1>2, <2>2 DEF UnregisterImport, SendRelease
  <2> QED
    BY <2>1, <2>2
<1>11. l = "idle" => proxy'[p] # "live" \/ mRef[p] # 0
  <2>1. CASE UnregisterImport(t)
    <3>1. imports = <<p>> /\ Head(imports) = p
      BY <1>2, <2>1, OneEntry DEF UnregisterImport, ReleaseState
    <3> QED
      BY <1>2, <1>5, <2>1, <3>1 DEF UnregisterImport, Goto, ObjectsInv, UserTypes
  <2>2. CASE SendRelease(t)
    BY <1>2, <1>5, <2>2 DEF SendRelease, Goto, ObjectsInv, UserTypes
  <2>3. CASE DeleteProxy(t)
    BY <1>2, <2>3 DEF DeleteProxy, ObjectsInv, UserTypes
  <2> QED
    BY <2>1, <2>2, <2>3
<1>12. \A u \in Thread : pc'[u] = "unregister" => imports' = <<ref'[u]>>
  <2> SUFFICES ASSUME NEW u \in Thread, pc'[u] = "unregister" PROVE imports' = <<ref'[u]>>
    OBVIOUS
  <2>1. u # t /\ pc[u] = "unregister" /\ ref'[u] = ref[u]
    BY <1>4, <1>5
  <2>2. imports = <<ref[u]>> /\ ref[u] # p
    BY <1>3, <2>1 DEF ReleaseState, InRelease
  <2>3. pc[t] # "unregister"
    BY <1>2, <2>2, OneEntry DEF ReleaseState
  <2>4. imports' = imports
    BY <2>3 DEF UnregisterImport, SendRelease, DeleteProxy
  <2> QED
    BY <2>1, <2>2, <2>4
<1>13. \A u \in Thread : InRelease(u)' => proxy'[ref'[u]] = "live"
  BY <1>3, <1>5, <1>6, <1>9, <1>10 DEF ReleaseState
<1>14. \A r \in Proxy : proxy'[r] = "live" /\ mRef'[r] = 0 =>
         \E u \in Thread : InRelease(u)' /\ ref'[u] = r
  <2> SUFFICES ASSUME NEW r \in Proxy, proxy'[r] = "live", mRef'[r] = 0
               PROVE  \E u \in Thread : InRelease(u)' /\ ref'[u] = r
    OBVIOUS
  <2>1. CASE r = p
    BY <1>0, <1>5, <1>6, <1>11, <2>1
  <2>2. CASE r # p
    <3>1. PICK u \in Thread : InRelease(u) /\ ref[u] = r
      BY <1>0, <1>9, <2>2 DEF ReleaseState
    <3> QED
      BY <1>2, <1>5, <1>6, <2>2, <3>1
  <2> QED
    BY <2>1, <2>2
<1> QED
  BY <1>7, <1>8, <1>12, <1>13, <1>14 DEF ReleaseState

\* A proxy that nobody holds is being destroyed by one thread, and nobody comes to a
\* deleted one, in every interleaving of lookups and Releases in which no count falls
\* to 0 twice during one Release (CObjectProxy::Release, UnregisterImportObject).
THEOREM UnheldDies == Spec => []UnheldIsDestroyed
<1>1. Init => ReleaseState
  BY DEF Init, ReleaseState, InRelease
<1>2. ObjectsInv /\ ReleaseState /\ [Next]_vars => ReleaseState'
  <2> SUFFICES ASSUME ObjectsInv, ReleaseState, [Next]_vars PROVE ReleaseState'
    OBVIOUS
  <2>1. ASSUME NEW t \in Thread, Step(t) PROVE ReleaseState'
    <3>1. CASE Marshal(t) \/ FindImport(t) \/ CreateProxy(t) \/ \E u \in Thread : Share(t, u)
      BY <3>1, UsesKeepRelease
    <3>2. CASE Call(t)
      BY <3>2, OthersKeepRelease DEF Call
    <3>3. CASE Release(t)
      BY <3>3, ReleaseKeepsRelease
    <3>4. CASE UnregisterImport(t) \/ SendRelease(t) \/ DeleteProxy(t)
      BY <3>4, RestKeepsRelease
    <3> QED
      BY <2>1, <3>1, <3>2, <3>3, <3>4 DEF Step
  <2>2. CASE StubRelease \/ DeleteStub
    BY <2>2, OthersKeepRelease DEF StubRelease, DeleteStub, userVars
  <2>3. CASE UNCHANGED vars
    BY <2>3, OthersKeepRelease DEF vars, userVars
  <2> QED
    BY <2>1, <2>2, <2>3 DEF Next
<1>3. ReleaseState => UnheldIsDestroyed
  <2> SUFFICES ASSUME ReleaseState, ~doubled, NEW p \in Proxy, proxy[p] = "live", mRef[p] = 0
               PROVE  \E t \in Thread : Releasing(p) = {t}
    BY DEF ReleaseState, UnheldIsDestroyed
  <2>1. PICK t \in Thread : InRelease(t) /\ ref[t] = p
    BY DEF ReleaseState
  <2>2. \A u \in Thread : InRelease(u) /\ ref[u] = p => u = t
    BY <2>1 DEF ReleaseState
  <2>3. Releasing(p) = {t}
    BY <2>1, <2>2 DEF Releasing, InRelease
  <2> QED
    BY <2>3
<1> QED
  BY <1>1, <1>2, <1>3, ObjectsInvariant, PTL DEF Spec

-----------------------------------------------------------------------------
IsOwing(l) == l \in {"reply", "create", "unregister", "destroy"}

\* The threads that owe the stub something can be counted, and a step of one thread
\* changes the number by what that thread does.
LEMMA OwingCount ==
  /\ IsFiniteSet(Owing) /\ Cardinality(Owing) \in Nat
  /\ Cardinality(Owing) = 0 <=> Owing = {}
<1>1. Owing \subseteq Thread
  BY DEF Owing
<1>2. IsFiniteSet(Owing)
  BY <1>1, FS_Subset, RpcObjectsAssumption
<1> QED
  BY <1>2, FS_CardinalityType, FS_EmptySet

\* A step of one thread changes what the threads owe by what that thread does.
LEMMA OwingMoves ==
  ASSUME UserTypes, NEW t \in Thread, NEW l, NEW p, Goto(t, l, p)
  PROVE  Cardinality(Owing') = Cardinality(Owing)
           + (IF IsOwing(l) THEN 1 ELSE 0) - (IF IsOwing(pc[t]) THEN 1 ELSE 0)
<1>0. /\ pc'[t] = l
      /\ \A u \in Thread : u # t => pc'[u] = pc[u]
  BY DEF Goto, UserTypes
<1>1. CASE IsOwing(l) <=> IsOwing(pc[t])
  <2>1. Owing' = Owing
    BY <1>0, <1>1 DEF Owing, IsOwing
  <2> QED
    BY <1>1, <2>1, OwingCount
<1>2. CASE IsOwing(l) /\ ~IsOwing(pc[t])
  <2>1. Owing' = Owing \cup {t} /\ t \notin Owing
    BY <1>0, <1>2 DEF Owing, IsOwing
  <2>2. Cardinality(Owing') = Cardinality(Owing) + 1
    BY <2>1, OwingCount, FS_AddElement
  <2> QED
    BY <1>2, <2>2, OwingCount
<1>3. CASE ~IsOwing(l) /\ IsOwing(pc[t])
  <2>1. Owing' = Owing \ {t} /\ t \in Owing
    BY <1>0, <1>3 DEF Owing, IsOwing
  <2>2. Cardinality(Owing') = Cardinality(Owing) - 1
    BY <2>1, OwingCount, FS_RemoveElement
  <2> QED
    BY <1>3, <2>2, OwingCount
<1> QED
  BY <1>1, <1>2, <1>3

\* A step of the user that leaves the stub, and of which what the threads owe, the
\* proxy in use and the RELEASEs under way do not add up to more than before.
LEMMA UserKeepsStub ==
  ASSUME StubInv, releases' \in Nat, UNCHANGED <<stub, stubRef, ownerUp, marshals, remarshalled>>,
         releases' + Cardinality(Owing') + InUse' <= releases + Cardinality(Owing) + InUse,
         Cardinality(Owing') \in Nat
  PROVE  StubInv'
<1>1. InUse \in {0, 1} /\ InUse' \in {0, 1}
  BY DEF InUse
<1>2. OwnerTypes'
  BY DEF StubInv, OwnerTypes
<1>3. StubBalance'
  BY <1>1, OwingCount DEF StubInv, OwnerTypes, StubBalance
<1> QED
  BY <1>2, <1>3 DEF StubInv

\* StdMarshalInterface counts at least one more for the answer it sends.
LEMMA MarshalKeepsStub ==
  ASSUME ObjectsInv, StubInv, NEW t \in Thread, Marshal(t)
  PROVE  StubInv'
<1>0. /\ pc[t] = "idle" /\ marshals' = marshals + 1 /\ marshals < MaxMarshals
      /\ remarshalled' = (remarshalled \/ stub \in {"dying", "gone"})
      /\ UNCHANGED <<releases, mRef>>
  BY DEF Marshal
<1>1. InUse \in {0, 1} /\ InUse' = InUse
  BY <1>0 DEF InUse
<1>2. marshals' \in 0 .. MaxMarshals /\ remarshalled' \in BOOLEAN
  BY <1>0, RpcObjectsAssumption DEF StubInv, OwnerTypes
<1>3. CASE stub = "gone"
  <2>1. UNCHANGED <<stub, stubRef, pc>> /\ ownerUp' = FALSE /\ remarshalled'
    BY <1>0, <1>3 DEF Marshal
  <2> QED
    BY <1>0, <1>2, <1>3, <2>1 DEF StubInv, OwnerTypes, StubBalance
<1>4. CASE stub # "gone"
  <2>1. /\ stub' = IF stub = "unborn" THEN "live" ELSE stub
        /\ stubRef' = IF stub = "unborn" THEN 1 ELSE stubRef + 2
        /\ Goto(t, "reply", NoProxy) /\ ownerUp' = ownerUp
    BY <1>4 DEF Marshal
  <2>2. Cardinality(Owing') = Cardinality(Owing) + 1
    BY <1>0, <2>1, OwingMoves, OwingCount DEF IsOwing, ObjectsInv
  <2>3. OwnerTypes'
    BY <1>0, <1>2, <2>1 DEF StubInv, OwnerTypes
  <2>4. stubRef >= releases + Cardinality(Owing) + InUse
    BY <1>4 DEF StubInv, StubBalance
  <2>5. stubRef' >= releases' + Cardinality(Owing') + InUse'
    BY <1>0, <1>1, <2>1, <2>2, <2>4, OwingCount DEF StubInv, OwnerTypes, StubBalance
  <2>6. stub' # "unborn" /\ (stub' \in {"dying", "gone"} => remarshalled')
    BY <1>0, <1>4, <2>1 DEF StubInv, OwnerTypes
  <2>7. StubBalance'
    BY <2>5, <2>6 DEF StubBalance
  <2> QED
    BY <2>3, <2>7 DEF StubInv
<1> QED
  BY <1>3, <1>4

\* The lookup or the new proxy takes over what the answer promised.
LEMMA UnmarshalKeepsStub ==
  ASSUME ObjectsInv, StubInv, NEW t \in Thread, FindImport(t) \/ CreateProxy(t)
  PROVE  StubInv'
<1>0. /\ UNCHANGED <<stub, stubRef, releases, ownerUp, marshals, remarshalled>>
      /\ pc[t] \in {"reply", "create"}
  BY DEF FindImport, CreateProxy, ownerVars
<1>1. InUse \in {0, 1} /\ InUse' \in {0, 1}
  BY DEF InUse
<1>2. Cardinality(Owing) \in Nat /\ UserTypes
  BY OwingCount DEF ObjectsInv
<1>3. CASE mRef' = mRef
  <2>1. PICK l \in {"create", "idle", "holding"}, p \in Proxy \cup {NoProxy} : Goto(t, l, p)
    <3>1. imports # <<>> => Head(imports) \in Proxy
      BY OneEntry DEF ObjectsInv, TableState
    <3> QED
      BY <3>1 DEF FindImport, CreateProxy
  <2>2. Cardinality(Owing') \in {Cardinality(Owing), Cardinality(Owing) - 1}
    BY <1>0, <1>2, <2>1, OwingMoves DEF IsOwing
  <2>3. InUse' = InUse
    BY <1>3 DEF InUse
  <2>4. Cardinality(Owing) # 0
    BY <1>0, OwingCount DEF Owing
  <2> QED
    BY <1>0, <1>1, <1>2, <2>2, <2>3, <2>4, UserKeepsStub DEF StubInv, OwnerTypes
<1>4. CASE mRef' # mRef
  <2>1. PICK p \in Proxy : Goto(t, "holding", p)
    <3>1. imports # <<>> => Head(imports) \in Proxy
      BY OneEntry DEF ObjectsInv, TableState
    <3> QED
      BY <1>4, <3>1 DEF FindImport, CreateProxy
  <2>2. Cardinality(Owing') = Cardinality(Owing) - 1
    BY <1>0, <1>2, <2>1, OwingMoves DEF IsOwing
  <2>3. Cardinality(Owing) # 0
    BY <1>0, OwingCount DEF Owing
  <2> QED
    BY <1>0, <1>1, <1>2, <2>2, <2>3, UserKeepsStub DEF StubInv, OwnerTypes
<1> QED
  BY <1>3, <1>4

\* AddRef does not take a second proxy into use.
LEMMA ShareKeepsStub ==
  ASSUME ObjectsInv, StubInv, NEW t \in Thread, NEW u \in Thread, Share(t, u)
  PROVE  StubInv'
<1>0. /\ UNCHANGED <<stub, stubRef, releases, ownerUp, marshals, remarshalled>>
      /\ pc[t] = "holding" /\ pc[u] = "idle" /\ UserTypes
  BY DEF Share, ownerVars, ObjectsInv
<1>1. PICK q \in Proxy : q = ref[t] /\ mRef[q] # 0
  BY <1>0, HeldCounted
<1>2. Goto(u, "holding", q)
  BY <1>1 DEF Share
<1>3. InUse = 1 /\ InUse' \in {0, 1}
  BY <1>1 DEF InUse
<1>4. Cardinality(Owing') = Cardinality(Owing) /\ Cardinality(Owing) \in Nat
  BY <1>0, <1>2, OwingMoves, OwingCount DEF IsOwing
<1> QED
  BY <1>0, <1>3, <1>4, UserKeepsStub DEF StubInv, OwnerTypes

\* The last Release turns the proxy in use into a RELEASE to be sent.
LEMMA ReleaseKeepsStub ==
  ASSUME ObjectsInv, StubInv, NEW t \in Thread, Release(t)
  PROVE  StubInv'
<1>0. /\ UNCHANGED <<stub, stubRef, releases, ownerUp, marshals, remarshalled>>
      /\ pc[t] = "holding" /\ UserTypes
  BY DEF Release, ownerVars, ObjectsInv
<1>1. PICK p \in Proxy : p = ref[t] /\ mRef[p] # 0 /\ mRef[p] \in Nat
  BY <1>0, HeldCounted
<1>2. mRef' = [mRef EXCEPT ![p] = @ - 1]
  BY <1>1 DEF Release
<1>3. InUse = 1 /\ InUse' \in {0, 1} /\ Cardinality(Owing) \in Nat
  BY <1>1, OwingCount DEF InUse
<1>4. CASE mRef[p] = 1
  <2>1. Goto(t, "unregister", p)
    BY <1>1, <1>4 DEF Release
  <2>2. Cardinality(Owing') = Cardinality(Owing) + 1
    BY <1>0, <1>3, <2>1, OwingMoves DEF IsOwing
  <2>3. \A q \in Proxy : q # p => mRef[q] = 0
    BY <1>1, OneEntry DEF ObjectsInv, Registered
  <2>4. \A q \in Proxy : mRef'[q] = 0
    BY <1>2, <1>4, <2>3 DEF ObjectsInv, UserTypes
  <2>5. InUse' = 0
    BY <2>4 DEF InUse
  <2> QED
    BY <1>0, <1>3, <2>2, <2>5, UserKeepsStub DEF StubInv, OwnerTypes
<1>5. CASE mRef[p] # 1
  <2>1. Goto(t, "idle", NoProxy)
    BY <1>1, <1>5 DEF Release
  <2>2. Cardinality(Owing') = Cardinality(Owing)
    BY <1>0, <1>3, <2>1, OwingMoves DEF IsOwing
  <2> QED
    BY <1>0, <1>3, <2>2, UserKeepsStub DEF StubInv, OwnerTypes
<1> QED
  BY <1>4, <1>5

\* A RELEASE is sent at most once for what was owed, or not at all.
LEMMA RestKeepsStub ==
  ASSUME ObjectsInv, StubInv, NEW t \in Thread,
         UnregisterImport(t) \/ SendRelease(t) \/ DeleteProxy(t)
  PROVE  StubInv'
<1>0. UNCHANGED <<stub, stubRef, ownerUp, marshals, remarshalled, mRef>> /\ UserTypes
  BY DEF UnregisterImport, SendRelease, DeleteProxy, ownerVars, ObjectsInv
<1>1. InUse' = InUse /\ InUse \in {0, 1} /\ Cardinality(Owing) \in Nat /\ releases \in Nat
  BY <1>0, OwingCount DEF InUse, StubInv, OwnerTypes
<1>2. CASE UnregisterImport(t)
  <2>1. PICK l \in {"wild", "idle", "destroy"}, p \in {ref[t], NoProxy} : Goto(t, l, p)
    BY <1>2 DEF UnregisterImport
  <2>2. Cardinality(Owing') \in {Cardinality(Owing), Cardinality(Owing) - 1}
    BY <1>0, <1>1, <1>2, <2>1, OwingMoves DEF IsOwing, UnregisterImport
  <2>3. Cardinality(Owing) # 0 /\ releases' = releases
    BY <1>2, OwingCount DEF Owing, UnregisterImport, ownerVars
  <2> QED
    BY <1>0, <1>1, <2>2, <2>3, UserKeepsStub
<1>3. CASE SendRelease(t)
  <2>1. PICK l \in {"wild", "delete"} : Goto(t, l, ref[t])
    BY <1>3 DEF SendRelease
  <2>2. Cardinality(Owing') = Cardinality(Owing) - 1
    BY <1>0, <1>1, <1>3, <2>1, OwingMoves DEF IsOwing, SendRelease
  <2>3. Cardinality(Owing) # 0
    BY <1>3, OwingCount DEF Owing, SendRelease
  <2>4. releases' \in {releases, releases + 1}
    BY <1>3 DEF SendRelease
  <2> QED
    BY <1>0, <1>1, <2>2, <2>3, <2>4, UserKeepsStub
<1>4. CASE DeleteProxy(t)
  <2>1. PICK l \in {"wild", "idle"}, p \in {ref[t], NoProxy} : Goto(t, l, p)
    BY <1>4 DEF DeleteProxy
  <2>2. Cardinality(Owing') = Cardinality(Owing) /\ releases' = releases
    BY <1>0, <1>1, <1>4, <2>1, OwingMoves DEF IsOwing, DeleteProxy, ownerVars
  <2> QED
    BY <1>0, <1>1, <2>2, UserKeepsStub
<1> QED
  BY <1>2, <1>3, <1>4

\* OnTransact, RELEASE: the decrement pays for the request; with 0 nothing is owed.
LEMMA OwnerKeepsStub ==
  ASSUME StubInv, StubRelease \/ DeleteStub
  PROVE  StubInv'
<1>0. Owing' = Owing /\ InUse' = InUse /\ InUse \in {0, 1} /\ Cardinality(Owing) \in Nat
  BY OwingCount DEF StubRelease, DeleteStub, userVars, Owing, InUse
<1>1. CASE StubRelease
  <2>1. /\ releases' = releases - 1 /\ stubRef' = stubRef - 1 /\ releases > 0
        /\ stub' = IF stubRef = 1 THEN "dying" ELSE stub
        /\ stub \in {"live", "dying"} /\ UNCHANGED <<ownerUp, marshals, remarshalled>>
    BY <1>1 DEF StubRelease
  <2>2. stubRef >= releases + Cardinality(Owing) + InUse
    BY <2>1 DEF StubInv, StubBalance
  <2>3. OwnerTypes'
    BY <1>0, <2>1, <2>2 DEF StubInv, OwnerTypes
  <2>4. StubBalance'
    BY <1>0, <2>1, <2>2 DEF StubInv, OwnerTypes, StubBalance
  <2> QED
    BY <2>3, <2>4 DEF StubInv
<1>2. CASE DeleteStub
  BY <1>0, <1>2 DEF StubInv, OwnerTypes, StubBalance, DeleteStub
<1> QED
  BY <1>1, <1>2

\* StubInv is an invariant of every interleaving of the owner and the user's threads.
THEOREM StubInvariant == Spec => []StubInv
<1>1. Init => StubInv
  <2> SUFFICES ASSUME Init PROVE StubInv
    OBVIOUS
  <2>1. Owing = {} /\ InUse = 0
    BY DEF Init, Owing, InUse
  <2>2. Cardinality(Owing) = 0
    BY <2>1, FS_EmptySet
  <2>3. OwnerTypes
    <3>1. marshals \in 0 .. MaxMarshals /\ stubRef \in Nat /\ releases \in Nat
      BY RpcObjectsAssumption DEF Init
    <3>2. /\ remarshalled \in BOOLEAN /\ ownerUp \in BOOLEAN
          /\ stub \in {"unborn", "live", "dying", "gone"}
      BY Zenon DEF Init
    <3> QED
      BY <3>1, <3>2 DEF OwnerTypes
  <2>4. StubBalance
    BY <2>1, <2>2 DEF Init, StubBalance
  <2> QED
    BY <2>3, <2>4 DEF StubInv
<1>2. ObjectsInv /\ StubInv /\ [Next]_vars => StubInv'
  <2> SUFFICES ASSUME ObjectsInv, StubInv, [Next]_vars PROVE StubInv'
    OBVIOUS
  <2>1. ASSUME NEW t \in Thread, Step(t) PROVE StubInv'
    <3>1. CASE Marshal(t)
      BY <3>1, MarshalKeepsStub
    <3>2. CASE FindImport(t) \/ CreateProxy(t)
      BY <3>2, UnmarshalKeepsStub
    <3>3. CASE Call(t)
      BY <3>3 DEF Call, ownerVars, StubInv, OwnerTypes, StubBalance, Owing, InUse
    <3>4. CASE \E u \in Thread : Share(t, u)
      BY <3>4, ShareKeepsStub
    <3>5. CASE Release(t)
      BY <3>5, ReleaseKeepsStub
    <3>6. CASE UnregisterImport(t) \/ SendRelease(t) \/ DeleteProxy(t)
      BY <3>6, RestKeepsStub
    <3> QED
      BY <2>1, <3>1, <3>2, <3>3, <3>4, <3>5, <3>6 DEF Step
  <2>2. CASE StubRelease \/ DeleteStub
    BY <2>2, OwnerKeepsStub
  <2>3. CASE UNCHANGED vars
    BY <2>3 DEF vars, ownerVars, userVars, StubInv, OwnerTypes, StubBalance, Owing, InUse
  <2> QED
    BY <2>1, <2>2, <2>3 DEF Next
<1> QED
  BY <1>1, <1>2, ObjectsInvariant, PTL DEF Spec

\* A stub whose count fell to 0 is in nobody's hands, as long as the object is not
\* marshalled again: no RELEASE under way, no address, no proxy in use, no RELEASE to
\* be sent (StdMarshalInterface's counting against CObjectProxy::Release).
THEOREM StubOutlives == Spec => []StubOutlivesProxies
<1>1. ObjectsInv /\ StubInv => StubOutlivesProxies
  <2> SUFFICES ASSUME ObjectsInv, StubInv, stub \in {"dying", "gone"}, ~remarshalled
               PROVE  releases = 0 /\ \A t \in Thread : pc[t] \in {"idle", "delete", "wild"}
    BY DEF StubOutlivesProxies
  <2>1. InUse \in {0, 1} /\ Cardinality(Owing) \in Nat
    BY OwingCount DEF InUse
  <2>2. releases = 0 /\ Cardinality(Owing) = 0 /\ InUse = 0
    BY <2>1 DEF StubInv, OwnerTypes, StubBalance
  <2>3. \A t \in Thread : pc[t] # "holding"
    BY <2>2, HeldCounted DEF InUse
  <2>4. \A t \in Thread : t \notin Owing
    BY <2>2, OwingCount
  <2> QED
    BY <2>2, <2>3, <2>4 DEF Owing, ObjectsInv, UserTypes
<1> QED
  BY <1>1, ObjectsInvariant, StubInvariant, PTL

\* Type correctness: in particular neither count ever falls below 0, whoever releases.
THEOREM ObjectsTypes == Spec => []TypeOK
<1>1. Init => connected \subseteq Proxy /\ doubled \in BOOLEAN
  BY DEF Init
<1>2. ObjectsInv /\ connected \subseteq Proxy /\ doubled \in BOOLEAN /\ [Next]_vars
        => (connected \subseteq Proxy /\ doubled \in BOOLEAN)'
  <2> SUFFICES ASSUME ObjectsInv, connected \subseteq Proxy, doubled \in BOOLEAN, [Next]_vars
               PROVE  connected' \subseteq Proxy /\ doubled' \in BOOLEAN
    OBVIOUS
  <2>1. ASSUME NEW t \in Thread, Call(t) PROVE connected' \subseteq Proxy /\ doubled' = doubled
    BY <2>1 DEF Call, ObjectsInv, RefState
  <2>2. ASSUME NEW t \in Thread, Release(t) PROVE connected' = connected /\ doubled' \in BOOLEAN
    BY <2>2 DEF Release
  <2>3. ASSUME NEW t \in Thread, Step(t), ~Call(t), ~Release(t)
        PROVE  UNCHANGED <<connected, doubled>>
    BY <2>3 DEF Step, Marshal, FindImport, CreateProxy, Share, UnregisterImport, SendRelease,
                DeleteProxy
  <2>4. CASE StubRelease \/ DeleteStub \/ UNCHANGED vars
    BY <2>4 DEF StubRelease, DeleteStub, vars, userVars
  <2> QED
    BY <2>1, <2>2, <2>3, <2>4 DEF Next, Step
<1>3. ObjectsInv => imports \in Seq(Proxy)
  <2>1. \A p \in Proxy : <<p>> \in Seq(Proxy)
    OBVIOUS
  <2>2. <<>> \in Seq(Proxy)
    OBVIOUS
  <2> QED
    BY <2>1, <2>2, Zenon DEF ObjectsInv, TableState
<1>4. ObjectsInv /\ StubInv /\ connected \subseteq Proxy /\ doubled \in BOOLEAN => TypeOK
  BY <1>3 DEF ObjectsInv, UserTypes, StubInv, OwnerTypes, TypeOK
<1> QED
  BY <1>1, <1>2, <1>4, ObjectsInvariant, StubInvariant, PTL DEF Spec
=============================================================================

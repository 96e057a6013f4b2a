----------------------------- MODULE RpcObjects -----------------------------
(***************************************************************************)
(* The lifetime of one object's stub and of the proxies for it when        *)
(* objects are marshalled over sockets (linux_rpc): the counts of both,    *)
(* the import table of the user's process, and RELEASE.                    *)
(*                                                                         *)
(* Here nothing like AttemptIncStrong guards a lookup: FindImportObject    *)
(* and FindExportObject increment whatever count they meet, and Release    *)
(* asks the import table afterwards whether somebody did.  The export      *)
(* table keeps its entry for ever (UnregisterExportObject has no caller),  *)
(* so an object has one stub.                                              *)
(*                                                                         *)
(* All addresses are that of the stub.  A process that reaches freed       *)
(* memory stops in the model.                                              *)
(***************************************************************************)
EXTENDS Naturals, Sequences, FiniteSets

CONSTANTS
  Thread,       \* threads of the user
  Proxy,
  NoThread, NoProxy,
  MaxMarshals   \* how often the object is marshalled

ASSUME RpcObjectsAssumption ==
  /\ IsFiniteSet(Thread) /\ NoThread \notin Thread
  /\ NoProxy \notin Proxy /\ MaxMarshals \in Nat

VARIABLES
  stub,         \* unborn, live, dying (count 0, to be deleted), gone
  stubRef,      \* the stub's mRef
  releases,     \* RELEASE requests on their way to the stub
  ownerUp,
  proxy,        \* per proxy: unborn, live, gone
  mRef,         \* per proxy
  connected,    \* the proxies whose mSocketfd is not -1
  imports,      \* the user's table, newest first
  marshalLock,  \* who holds g_marshalLock across steps
  pc, ref,      \* per thread: where it is, and the proxy it holds or releases
  marshals,     \* history: times the object was marshalled
  remarshalled, \* history: it was marshalled after the stub's count fell to 0
  doubled       \* history: a count fell to 0 again before the first Release was through

ownerVars == <<stub, stubRef, releases, ownerUp, marshals, remarshalled>>
userVars  == <<proxy, mRef, connected, imports, marshalLock, pc, ref, doubled>>
vars == <<ownerVars, userVars>>

Goto(t, l, p) == pc' = [pc EXCEPT ![t] = l] /\ ref' = [ref EXCEPT ![t] = p]

-----------------------------------------------------------------------------
\* The owner.

\* Mutant: a stub that is found again is not counted again.
MarshalBorrowed(t) ==
  /\ ownerUp /\ pc[t] = "idle" /\ marshals < MaxMarshals
  /\ marshals' = marshals + 1
  /\ remarshalled' = (remarshalled \/ stub \in {"dying", "gone"})
  /\ IF stub = "gone"
       THEN ownerUp' = FALSE /\ UNCHANGED <<stub, stubRef, pc, ref>>
       ELSE /\ stub' = IF stub = "unborn" THEN "live" ELSE stub
            /\ stubRef' = IF stub = "unborn" THEN 1 ELSE stubRef
            /\ Goto(t, "reply", NoProxy) /\ UNCHANGED ownerUp
  /\ UNCHANGED <<releases, proxy, mRef, connected, imports, marshalLock, doubled>>

\* StdMarshalInterface, for the answer to a call of thread t: a new stub is counted
\* once, one that FindExportObject found twice, even if its count was 0; one that has
\* been deleted is used all the same.
Marshal(t) ==
  /\ ownerUp /\ pc[t] = "idle" /\ marshals < MaxMarshals
  /\ marshals' = marshals + 1
  /\ remarshalled' = (remarshalled \/ stub \in {"dying", "gone"})
  /\ IF stub = "gone"
       THEN ownerUp' = FALSE /\ UNCHANGED <<stub, stubRef, pc, ref>>
       ELSE /\ stub' = IF stub = "unborn" THEN "live" ELSE stub
            /\ stubRef' = IF stub = "unborn" THEN 1 ELSE stubRef + 2
            /\ Goto(t, "reply", NoProxy) /\ UNCHANGED ownerUp
  /\ UNCHANGED <<releases, proxy, mRef, connected, imports, marshalLock, doubled>>

\* OnTransact, RELEASE: the decrement ...
StubRelease ==
  /\ ownerUp /\ releases > 0 /\ stub \in {"live", "dying"}
  /\ releases' = releases - 1
  /\ stubRef' = stubRef - 1
  /\ stub' = IF stubRef = 1 THEN "dying" ELSE stub
  /\ UNCHANGED <<ownerUp, marshals, remarshalled, userVars>>

\* ... and, it having led to 0, the deletion.
DeleteStub ==
  /\ ownerUp /\ stub = "dying"
  /\ stub' = "gone"
  /\ UNCHANGED <<stubRef, releases, ownerUp, marshals, remarshalled, userVars>>

-----------------------------------------------------------------------------
\* The user.

\* Mutant: the lookup and the registration that follows it are not one section.
FindImportUnlocked(t) ==
  /\ pc[t] = "reply" /\ marshalLock = NoThread
  /\ IF imports # <<>>
       THEN LET p == Head(imports) IN
            /\ mRef' = [mRef EXCEPT ![p] = @ + 1]
            /\ Goto(t, "holding", p)
       ELSE Goto(t, "create", NoProxy) /\ UNCHANGED mRef
  /\ UNCHANGED <<ownerVars, proxy, connected, imports, marshalLock, doubled>>

\* StdUnmarshalInterface, FindImportObject: the count of the first entry's proxy
\* is incremented, whatever it was (the second reference, of GetInterface, and the
\* release of the first are one step with it: with two in hand no count gets to 0).
\* Without an entry the lock is kept.
FindImport(t) ==
  /\ pc[t] = "reply" /\ marshalLock = NoThread
  /\ IF imports # <<>>
       THEN LET p == Head(imports) IN
            /\ mRef' = [mRef EXCEPT ![p] = @ + 1]
            /\ Goto(t, "holding", p) /\ UNCHANGED marshalLock
       ELSE /\ marshalLock' = t
            /\ Goto(t, "create", NoProxy) /\ UNCHANGED mRef
  /\ UNCHANGED <<ownerVars, proxy, connected, imports, doubled>>

\* CObjectProxy::S_CreateObject registers the proxy, whose count starts at 1, or
\* fails before that; then the lock is given up.
CreateProxy(t) ==
  /\ pc[t] = "create"
  /\ marshalLock' = NoThread
  /\ \/ \E p \in Proxy :
          /\ proxy[p] = "unborn"
          /\ proxy' = [proxy EXCEPT ![p] = "live"]
          /\ mRef' = [mRef EXCEPT ![p] = 1]
          /\ imports' = <<p>> \o imports
          /\ Goto(t, "holding", p)
     \/ Goto(t, "idle", NoProxy) /\ UNCHANGED <<proxy, mRef, imports>>
  /\ UNCHANGED <<ownerVars, connected, doubled>>

\* The first call through a proxy connects it (RpcChannel).
Call(t) ==
  /\ pc[t] = "holding" /\ ownerUp /\ stub \in {"live", "dying"}
  /\ connected' = connected \cup {ref[t]}
  /\ UNCHANGED <<ownerVars, proxy, mRef, imports, marshalLock, pc, ref, doubled>>

\* AddRef: a thread hands the proxy to another.
Share(t, u) ==
  /\ pc[t] = "holding" /\ pc[u] = "idle"
  /\ mRef' = [mRef EXCEPT ![ref[t]] = @ + 1]
  /\ Goto(u, "holding", ref[t])
  /\ UNCHANGED <<ownerVars, proxy, connected, imports, marshalLock, doubled>>

\* The threads that brought a proxy's count to 0 and are still in Release.
Releasing(p) == {t \in Thread : ref[t] = p /\ pc[t] \in {"unregister", "destroy", "delete"}}

\* CObjectProxy::Release: the decrement.
Release(t) ==
  /\ pc[t] = "holding"
  /\ mRef' = [mRef EXCEPT ![ref[t]] = @ - 1]
  /\ IF mRef[ref[t]] = 1 THEN Goto(t, "unregister", ref[t]) ELSE Goto(t, "idle", NoProxy)
  /\ doubled' = (doubled \/ (mRef[ref[t]] = 1 /\ Releasing(ref[t]) # {}))
  /\ UNCHANGED <<ownerVars, proxy, connected, imports, marshalLock>>

\* Mutant: the count is not looked at again.
UnregisterUnchecked(t) ==
  /\ pc[t] = "unregister"
  /\ imports' = IF imports = <<>> THEN imports ELSE Tail(imports)
  /\ Goto(t, IF proxy[ref[t]] = "gone" THEN "wild" ELSE "destroy", ref[t])
  /\ UNCHANGED <<ownerVars, proxy, mRef, connected, marshalLock, doubled>>

\* Mutant: the entry stays.
UnregisterNothing(t) ==
  /\ pc[t] = "unregister"
  /\ IF imports # <<>> /\ mRef[Head(imports)] # 0
       THEN Goto(t, "idle", NoProxy)
       ELSE Goto(t, IF proxy[ref[t]] = "gone" THEN "wild" ELSE "destroy", ref[t])
  /\ UNCHANGED <<ownerVars, proxy, mRef, connected, imports, marshalLock, doubled>>

\* UnregisterImportObject(mNetAddress): if the first entry's proxy is referred to
\* again, Release returns (S_FALSE).  Otherwise the entry goes; whether there was
\* one (NOERROR, E_NO_IMPORT_OBJECT) makes no difference to Release.
UnregisterImport(t) ==
  /\ pc[t] = "unregister"
  /\ \/ /\ proxy[ref[t]] = "gone"
        /\ Goto(t, "wild", ref[t]) /\ UNCHANGED imports
     \/ /\ proxy[ref[t]] # "gone"
        /\ imports # <<>> /\ mRef[Head(imports)] # 0
        /\ Goto(t, "idle", NoProxy) /\ UNCHANGED imports
     \/ /\ proxy[ref[t]] # "gone"
        /\ imports # <<>> => mRef[Head(imports)] = 0
        /\ imports' = IF imports = <<>> THEN imports ELSE Tail(imports)
        /\ Goto(t, "destroy", ref[t])
  /\ UNCHANGED <<ownerVars, proxy, mRef, connected, marshalLock, doubled>>

\* The rest of Release: RELEASE is sent if there is a connection ...
SendRelease(t) ==
  /\ pc[t] = "destroy"
  /\ IF proxy[ref[t]] = "gone"
       THEN Goto(t, "wild", ref[t]) /\ UNCHANGED releases
       ELSE /\ releases' = IF ref[t] \in connected THEN releases + 1 ELSE releases
            /\ Goto(t, "delete", ref[t])
  /\ UNCHANGED <<stub, stubRef, ownerUp, marshals, remarshalled,
                 proxy, mRef, connected, imports, marshalLock, doubled>>

\* ... and the proxy is deleted.  To delete it again is to reach freed memory.
DeleteProxy(t) ==
  /\ pc[t] = "delete"
  /\ IF proxy[ref[t]] = "gone"
       THEN Goto(t, "wild", ref[t]) /\ UNCHANGED proxy
       ELSE /\ proxy' = [proxy EXCEPT ![ref[t]] = "gone"]
            /\ Goto(t, "idle", NoProxy)
  /\ UNCHANGED <<ownerVars, mRef, connected, imports, marshalLock, doubled>>

-----------------------------------------------------------------------------
Init ==
  /\ stub = "unborn" /\ stubRef = 0 /\ releases = 0 /\ ownerUp = TRUE
  /\ marshals = 0 /\ remarshalled = FALSE
  /\ proxy = [p \in Proxy |-> "unborn"] /\ mRef = [p \in Proxy |-> 0]
  /\ connected = {} /\ imports = <<>> /\ marshalLock = NoThread
  /\ pc = [t \in Thread |-> "idle"] /\ ref = [t \in Thread |-> NoProxy]
  /\ doubled = FALSE

Step(t) ==
  \/ Marshal(t) \/ FindImport(t) \/ CreateProxy(t) \/ Call(t)
  \/ \E u \in Thread : Share(t, u)
  \/ Release(t) \/ UnregisterImport(t) \/ SendRelease(t) \/ DeleteProxy(t)

Next ==
  /\ \A t \in Thread : pc[t] # "wild"
  /\ \/ \E t \in Thread : Step(t)
     \/ StubRelease \/ DeleteStub

Spec == Init /\ [][Next]_vars

-----------------------------------------------------------------------------
\* Type correctness of the stub, the proxies, the table and the threads.
TypeOK ==
  /\ stub \in {"unborn", "live", "dying", "gone"} /\ ownerUp \in BOOLEAN
  /\ stubRef \in Nat /\ releases \in Nat
  /\ proxy \in [Proxy -> {"unborn", "live", "gone"}] /\ mRef \in [Proxy -> Nat]
  /\ connected \subseteq Proxy /\ imports \in Seq(Proxy)
  /\ marshalLock \in Thread \cup {NoThread}
  /\ pc \in [Thread -> {"idle", "reply", "create", "holding", "unregister", "destroy",
                        "delete", "wild"}]
  /\ ref \in [Thread -> Proxy \cup {NoProxy}]
  /\ marshals \in 0 .. MaxMarshals /\ remarshalled \in BOOLEAN /\ doubled \in BOOLEAN

\* A thread that holds a proxy holds one that is not deleted, even one it revived
\* between the last Release's decrement and its look at the import table.
HeldNotDeleted == \A t \in Thread : pc[t] = "holding" => proxy[ref[t]] = "live"

\* The import table has one entry at most, and that is for a proxy that is not
\* deleted: FindImportObject never increments a count in freed memory.
OneLiveEntry ==
  /\ Len(imports) <= 1
  /\ \A n \in DOMAIN imports : proxy[imports[n]] = "live"

\* A proxy that nobody holds any more is being destroyed by one thread, and nobody
\* comes to a deleted one: a Release that returns early because a lookup revived the
\* proxy (S_FALSE) leaves it to the thread that has it now.  That ends when the revived
\* proxy is released before the first Release has looked at the table: both then
\* delete it.
UnheldIsDestroyed ==
  ~doubled =>
    /\ \A p \in Proxy : proxy[p] = "live" /\ mRef[p] = 0 =>
         \E t \in Thread : Releasing(p) = {t}
    /\ \A t \in Thread : pc[t] # "wild"

\* When the stub's count falls to 0 no RELEASE is under way to it, and nobody in the
\* user has its address, a proxy, or a RELEASE still to send, unless the object was
\* marshalled again after that: what StdMarshalInterface counts makes up for every
\* RELEASE, the second one for a revived proxy included.
StubOutlivesProxies ==
  stub \in {"dying", "gone"} /\ ~remarshalled =>
    releases = 0 /\ \A t \in Thread : pc[t] \in {"idle", "delete", "wild"}
=============================================================================

------------------------------ MODULE Marshal ------------------------------
(***************************************************************************)
(* An object of one process (the owner) used from another (the user)       *)
(* over binder: the stub made when the object is marshalled, the proxy     *)
(* made when it is unmarshalled, and the two tables that are to find them  *)
(* again, the export table of the owner and the import table of the user.  *)
(*                                                                         *)
(* A stub is its own binder.  Its strong references are the proxies for it *)
(* and the replies that carry it; binder, which is external, gives the     *)
(* last one up some time after the user did.  A proxy's strong references  *)
(* are the threads that hold it (see ElRefBase, whose _android build this  *)
(* is about: in the others OnLastStrongRef is never called).  On both      *)
(* sides the end has three steps: the count falls to 0, OnLastStrongRef    *)
(* unregisters, and the object is deleted.                                 *)
(***************************************************************************)
EXTENDS Naturals, Sequences, SequencesExt

CONSTANTS
  Thread,     \* threads of the user; each call is answered with the object
  Stub, Proxy,
  NoThread, NoStub, NoProxy

ASSUME MarshalAssumption ==
  NoThread \notin Thread /\ NoStub \notin Stub /\ NoProxy \notin Proxy

VARIABLES
  stub,         \* per stub: unborn, live, dying (count 0, hook to be called),
                \* unregistered (hook returned), gone
  exports,      \* the owner's table: the stubs that have an entry
  ownerLock,    \* for whom the owner marshals, holding its g_marshalLock
  entry,        \* the entry the lookup has come to, if there is one left; while there
                \* is, it holds g_exportTableLock
  toAsk,        \* and the entries it has still to come to
  mBinder,      \* the stub each proxy was made for
  proxy,        \* per proxy: unborn, live, dying, unregistered, gone
  imports,      \* the user's table: the proxies that have an entry, newest first
  marshalLock,  \* who holds g_marshalLock across steps
  pc, pack,     \* per thread: where it is, and the binder it was handed
  ref,          \* per thread: the proxy it holds or destroys
  crossed       \* history: stubs for which a proxy was made while another was dying

lookupVars == <<ownerLock, entry, toAsk>>
ownerVars == <<stub, exports, lookupVars>>
userVars  == <<mBinder, proxy, imports, marshalLock, pc, pack, ref, crossed>>
vars == <<ownerVars, userVars>>

Exists(p) == proxy[p] \in {"live", "dying", "unregistered"}

\* The strong references binder keeps for the user.
Referenced(s) ==
  \/ \E t \in Thread : pack[t] = s
  \/ \E p \in Proxy : Exists(p) /\ mBinder[p] = s

\* Mutant: the lookup does not ask whether the stub is still alive.
FindableIfListed(s) == s \in exports

\* FindExportObject takes an entry only if attemptIncStrong succeeds.
Findable(s) == s \in exports /\ stub[s] = "live"

\* The lookup comes to the next entry; their order is that of a hash table.
ComeTo(S) ==
  \/ S = {} /\ entry' = NoStub /\ toAsk' = {}
  \/ \E s \in S : entry' = s /\ toAsk' = S \ {s}

\* StdMarshalInterface, for the answer to a call of thread t: FindExportObject
\* takes the table's lock and goes through it.
Marshal(t) ==
  /\ pc[t] = "idle" /\ ownerLock = NoThread
  /\ ownerLock' = t
  /\ ComeTo(exports)
  /\ pc' = [pc EXCEPT ![t] = "find"]
  /\ UNCHANGED <<stub, exports, mBinder, proxy, imports, marshalLock, pack, ref, crossed>>

\* The locks are given up, and the binder of s is sent to the caller, if there still is one.
Answer(t, s) ==
  /\ ownerLock' = NoThread /\ entry' = NoStub /\ toAsk' = {}
  /\ IF pc[t] = "find"
       THEN pack' = [pack EXCEPT ![t] = s] /\ pc' = [pc EXCEPT ![t] = "reply"]
       ELSE UNCHANGED pack /\ pc' = [pc EXCEPT ![t] = "idle"]
  /\ UNCHANGED <<mBinder, proxy, imports, marshalLock, ref, crossed>>

\* getWeakRefs()->attemptIncStrong() of the entry the lookup has come to.
AskEntry(t) ==
  /\ ownerLock = t /\ entry # NoStub
  /\ \/ /\ Findable(entry)
        /\ Answer(t, entry)
     \/ /\ ~Findable(entry)
        /\ ComeTo(toAsk)
        /\ UNCHANGED <<ownerLock, userVars>>
  /\ UNCHANGED <<stub, exports>>

\* No entry answered: CObjectStub::S_CreateObject, RegisterExportObject.
CreateStub(t) ==
  /\ ownerLock = t /\ entry = NoStub
  /\ \E s \in Stub :
       /\ stub[s] = "unborn"
       /\ stub' = [stub EXCEPT ![s] = "live"]
       /\ exports' = exports \cup {s}
       /\ Answer(t, s)

\* Nobody in the user refers to the stub any more, and binder lets go of it.
BinderRelease(s) ==
  /\ stub[s] = "live" /\ ~Referenced(s)
  /\ stub' = [stub EXCEPT ![s] = "dying"]
  /\ UNCHANGED <<exports, lookupVars, userVars>>

\* Mutant: the entry is removed without the table's lock.
UnregisterExportUnlocked(s) ==
  /\ stub[s] = "dying"
  /\ exports' = IF Referenced(s) THEN exports ELSE exports \ {s}
  /\ stub' = [stub EXCEPT ![s] = "unregistered"]
  /\ UNCHANGED <<lookupVars, userVars>>

\* CObjectStub::onLastStrongRef, UnregisterExportObject: a stub whose count is not
\* 0 any more keeps its entry (S_FALSE), which the hook does not look at.
UnregisterExport(s) ==
  /\ stub[s] = "dying" /\ entry = NoStub
  /\ exports' = IF Referenced(s) THEN exports ELSE exports \ {s}
  /\ stub' = [stub EXCEPT ![s] = "unregistered"]
  /\ UNCHANGED <<lookupVars, userVars>>

\* When the hook has returned, decStrong deletes the stub, without any lock.
DeleteStub(s) ==
  /\ stub[s] = "unregistered"
  /\ stub' = [stub EXCEPT ![s] = "gone"]
  /\ UNCHANGED <<exports, lookupVars, userVars>>

\* The entries of the import table that are for the binder, as positions.
EntriesOf(s) == {n \in DOMAIN imports : mBinder[imports[n]] = s}

Got(t, p) ==
  /\ pc' = [pc EXCEPT ![t] = "holding"]
  /\ ref' = [ref EXCEPT ![t] = p]
  /\ pack' = [pack EXCEPT ![t] = NoStub]

\* Mutant: AttemptIncStrong succeeds on a proxy whose count has fallen to 0.
Revivable(p) == proxy[p] \in {"live", "dying"}

\* AttemptIncStrong.
Attemptable(p) == proxy[p] = "live"

\* StdUnmarshalInterface, FindImportObject: the entries for the binder are tried
\* in order.  To try one is to use its proxy: if that has been deleted, the thread
\* is off into freed memory.  If none answers, the lock is kept.
FindImport(t) ==
  LET mine == EntriesOf(pack[t])
      Tried(n) == \A k \in mine : k < n =>
                    ~Attemptable(imports[k]) /\ proxy[imports[k]] # "gone"
  IN
  /\ pc[t] = "reply" /\ marshalLock = NoThread
  /\ \/ \E n \in mine :
          /\ Tried(n) /\ Attemptable(imports[n])
          /\ Got(t, imports[n])
          /\ UNCHANGED marshalLock
     \/ /\ \E n \in mine : Tried(n) /\ proxy[imports[n]] = "gone"
        /\ pc' = [pc EXCEPT ![t] = "wild"]
        /\ UNCHANGED <<ref, pack, marshalLock>>
     \/ /\ Tried(Len(imports) + 1)
        /\ marshalLock' = t
        /\ pc' = [pc EXCEPT ![t] = "create"]
        /\ UNCHANGED <<ref, pack>>
  /\ UNCHANGED <<ownerVars, mBinder, proxy, imports, crossed>>

\* CObjectProxy::S_CreateObject registers the proxy, takes the first reference to
\* it and gives up the lock; or it fails before that, for want of class
\* information.
CreateProxy(t) ==
  /\ pc[t] = "create"
  /\ marshalLock' = NoThread
  /\ \/ \E p \in Proxy :
          /\ proxy[p] = "unborn"
          /\ proxy' = [proxy EXCEPT ![p] = "live"]
          /\ mBinder' = [mBinder EXCEPT ![p] = pack[t]]
          /\ imports' = <<p>> \o imports
          /\ crossed' = IF EntriesOf(pack[t]) = {} THEN crossed
                        ELSE crossed \cup {pack[t]}
          /\ Got(t, p)
     \/ /\ pc' = [pc EXCEPT ![t] = "idle"]
        /\ pack' = [pack EXCEPT ![t] = NoStub]
        /\ UNCHANGED <<proxy, mBinder, imports, ref, crossed>>
  /\ UNCHANGED ownerVars

\* CObjectProxy::Release, up to the decrement of the strong count.
Release(t) ==
  /\ pc[t] = "holding"
  /\ IF \E u \in Thread \ {t} : pc[u] = "holding" /\ ref[u] = ref[t]
       THEN /\ pc' = [pc EXCEPT ![t] = "idle"]
            /\ ref' = [ref EXCEPT ![t] = NoProxy]
            /\ UNCHANGED proxy
       ELSE /\ proxy' = [proxy EXCEPT ![ref[t]] = "dying"]
            /\ pc' = [pc EXCEPT ![t] = "last"]
            /\ UNCHANGED ref
  /\ UNCHANGED <<ownerVars, mBinder, imports, marshalLock, pack, crossed>>

\* The first entry for the binder, whose proxy may be another one.
FirstEntryFor(s) == CHOOSE n \in EntriesOf(s) : \A k \in EntriesOf(s) : n <= k

\* Mutant: the proxy leaves its entry behind.
UnregisterNothing(t) ==
  /\ pc[t] = "last"
  /\ proxy' = [proxy EXCEPT ![ref[t]] = "unregistered"]
  /\ pc' = [pc EXCEPT ![t] = "transact"]
  /\ UNCHANGED <<ownerVars, imports, mBinder, marshalLock, pack, ref, crossed>>

\* CObjectProxy::OnLastStrongRef, UnregisterImportObject, without g_marshalLock.
UnregisterImport(t) ==
  /\ pc[t] = "last"
  /\ imports' = IF EntriesOf(mBinder[ref[t]]) = {} THEN imports
                ELSE RemoveAt(imports, FirstEntryFor(mBinder[ref[t]]))
  /\ proxy' = [proxy EXCEPT ![ref[t]] = "unregistered"]
  /\ pc' = [pc EXCEPT ![t] = "transact"]
  /\ UNCHANGED <<ownerVars, mBinder, marshalLock, pack, ref, crossed>>

\* The rest of OnLastStrongRef, which sends RELEASE (the stub does nothing for
\* it), and the destructor, with which the reference to the binder goes.
DeleteProxy(t) ==
  /\ pc[t] = "transact"
  /\ proxy' = [proxy EXCEPT ![ref[t]] = "gone"]
  /\ ref' = [ref EXCEPT ![t] = NoProxy]
  /\ pc' = [pc EXCEPT ![t] = "idle"]
  /\ UNCHANGED <<ownerVars, mBinder, imports, marshalLock, pack, crossed>>

\* The user's process dies and is started again: binder drops its references,
\* tables and threads begin anew.  A lookup for it goes on in the owner.
UserDies ==
  /\ pc # [t \in Thread |-> "idle"]
  /\ proxy' = [p \in Proxy |-> IF proxy[p] = "unborn" THEN "unborn" ELSE "gone"]
  /\ imports' = <<>> /\ marshalLock' = NoThread /\ crossed' = {}
  /\ pc' = [t \in Thread |-> IF ownerLock = t THEN "deserted" ELSE "idle"]
  /\ pack' = [t \in Thread |-> NoStub]
  /\ ref' = [t \in Thread |-> NoProxy]
  /\ UNCHANGED <<ownerVars, mBinder>>

Init ==
  /\ stub = [s \in Stub |-> "unborn"] /\ exports = {}
  /\ ownerLock = NoThread /\ entry = NoStub /\ toAsk = {}
  /\ mBinder = [p \in Proxy |-> NoStub] /\ proxy = [p \in Proxy |-> "unborn"]
  /\ imports = <<>> /\ marshalLock = NoThread
  /\ pc = [t \in Thread |-> "idle"] /\ pack = [t \in Thread |-> NoStub]
  /\ ref = [t \in Thread |-> NoProxy] /\ crossed = {}

Step(t) ==
  \/ Marshal(t) \/ AskEntry(t) \/ CreateStub(t) \/ FindImport(t) \/ CreateProxy(t)
  \/ Release(t) \/ UnregisterImport(t) \/ DeleteProxy(t)

Next ==
  \/ \E t \in Thread : Step(t)
  \/ \E s \in Stub : BinderRelease(s) \/ UnregisterExport(s) \/ DeleteStub(s)
  \/ UserDies

Spec == Init /\ [][Next]_vars

-----------------------------------------------------------------------------
\* Type correctness of both processes' tables, stubs, proxies and threads.
TypeOK ==
  /\ stub \in [Stub -> {"unborn", "live", "dying", "unregistered", "gone"}]
  /\ exports \subseteq Stub
  /\ ownerLock \in Thread \cup {NoThread}
  /\ entry \in Stub \cup {NoStub} /\ toAsk \subseteq Stub
  /\ mBinder \in [Proxy -> Stub \cup {NoStub}]
  /\ proxy \in [Proxy -> {"unborn", "live", "dying", "unregistered", "gone"}]
  /\ imports \in Seq(Proxy)
  /\ marshalLock \in Thread \cup {NoThread}
  /\ pc \in [Thread -> {"idle", "find", "deserted", "reply", "create", "holding", "last",
                       "transact", "wild"}]
  /\ pack \in [Thread -> Stub \cup {NoStub}]
  /\ ref \in [Thread -> Proxy \cup {NoProxy}]
  /\ crossed \subseteq Stub

\* Every binder a thread was handed or a proxy was made for is that of a stub that
\* lives and has its entry: a call through the proxy reaches the object, and an
\* object that comes home is found and not given a proxy to itself.  The
\* race is a marshalling that finds a stub which binder is just giving up.
ReferencedStubsFound == \A s \in Stub : Referenced(s) => s \in exports /\ stub[s] = "live"

\* A lookup never reaches into a deleted stub: the entries that FindExportObject
\* has come to or will come to are those of stubs that are not deleted, although
\* their counts fall to 0 and DeleteStub comes at any time.  It is the table's lock
\* that keeps a stub from the end of its hook while a lookup is on its way to it,
\* and the refusal to revive a count of 0 that keeps S_FALSE from leaving an entry behind.
LookupsReachStubs == \A s \in exports \cup toAsk \cup ({entry} \ {NoStub}) : stub[s] # "gone"

\* Who holds a proxy holds one that is alive, and no two threads destroy the
\* same one.
HeldProxiesLive ==
  /\ \A t \in Thread : pc[t] = "holding" => proxy[ref[t]] = "live"
  /\ \A t, u \in Thread :
       pc[t] \in {"last", "transact"} /\ pc[u] \in {"last", "transact"} /\ ref[t] = ref[u] => t = u

\* As long as no proxy was made for a binder while another was dying, the import
\* table holds exactly the proxies that have not been unregistered, and gives
\* every thread the same one: CObjectProxy::Equals compares addresses.
ImportsExact ==
  \A s \in Stub \ crossed :
    /\ \A p \in Proxy : mBinder[p] = s =>
         (Contains(imports, p) <=> proxy[p] \in {"live", "dying"})
    /\ \A p, q \in Proxy :
         mBinder[p] = s /\ mBinder[q] = s /\ proxy[p] = "live" /\ proxy[q] = "live" => p = q

\* An entry of the import table refers to a proxy that has not been deleted, as
\* the comment at UnregisterImportObject asks ("must atomic operation with delete
\* proxy").
ImportEntriesLive == \A n \in DOMAIN imports : proxy[imports[n]] # "gone"
=============================================================================

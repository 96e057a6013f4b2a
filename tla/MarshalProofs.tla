--------------------------- MODULE MarshalProofs ---------------------------
(***************************************************************************)
(* For any numbers of threads, stubs and proxies: who has a binder has     *)
(* that of a live stub the export table knows, lookups never reach a       *)
(* deleted stub, and held proxies are alive.                               *)
(***************************************************************************)
EXTENDS Marshal, WellFoundedInduction, SequenceTheorems, TLAPS

\* What each location of a thread says of the proxy it refers to; a proxy is
\* destroyed by one thread.
RefState ==
  /\ \A t \in Thread :
       /\ pc[t] = "holding" => ref[t] \in Proxy /\ proxy[ref[t]] = "live"
       /\ pc[t] = "last" => ref[t] \in Proxy /\ proxy[ref[t]] = "dying"
       /\ pc[t] = "transact" => ref[t] \in Proxy /\ proxy[ref[t]] = "unregistered"
  /\ \A t, u \in Thread :
       pc[t] \in {"last", "transact"} /\ pc[u] \in {"last", "transact"} /\ ref[t] = ref[u] => t = u

\* A thread that looks for a proxy was handed a binder.
PackState == \A t \in Thread : pc[t] \in {"reply", "create"} => pack[t] \in Stub

\* The steps of a stub's end.
StubEnds(s) == BinderRelease(s) \/ UnregisterExport(s) \/ DeleteStub(s)

\* The stubs that lookups may come to have not been through their hook: it removes
\* the entry, and waits for a lookup under way.
StubsToAsk ==
  /\ \A s \in exports \cup toAsk \cup ({entry} \ {NoStub}) : stub[s] \in {"live", "dying"}
  /\ ownerLock = NoThread => entry = NoStub
  /\ entry = NoStub => toAsk = {}

MarshalInv == TypeOK /\ PackState /\ RefState /\ ReferencedStubsFound /\ StubsToAsk

\* Removing an entry leaves a table of proxies (UnregisterImportObject).
LEMMA RemoveAtType ==
  ASSUME NEW S, NEW s \in Seq(S), NEW i \in DOMAIN s
  PROVE  RemoveAt(s, i) \in Seq(S)
  BY DEF RemoveAt

\* There is a first among the entries for a binder (the loop of UnregisterImportObject).
LEMMA FirstExists ==
  ASSUME NEW E, E \subseteq Nat, E # {}
  PROVE  \E n \in E : \A k \in E : n <= k
<1>1. PICK n \in E : \A k \in E : ~(<<k, n>> \in OpToRel(<, Nat))
  BY NatLessThanWellFounded, WFMin
<1>2. \A k \in E : ~(k < n)
  BY <1>1 DEF OpToRel
<1> QED
  BY <1>2

\* The two outcomes of CObjectProxy::S_CreateObject.
CreateFor(t, p) ==
  /\ pc[t] = "create" /\ proxy[p] = "unborn"
  /\ marshalLock' = NoThread
  /\ proxy' = [proxy EXCEPT ![p] = "live"]
  /\ mBinder' = [mBinder EXCEPT ![p] = pack[t]]
  /\ imports' = <<p>> \o imports
  /\ crossed' \in {crossed, crossed \cup {pack[t]}}
  /\ Got(t, p)
  /\ UNCHANGED ownerVars

CreateNone(t) ==
  /\ pc[t] = "create"
  /\ marshalLock' = NoThread
  /\ pc' = [pc EXCEPT ![t] = "idle"]
  /\ pack' = [pack EXCEPT ![t] = NoStub]
  /\ UNCHANGED <<proxy, mBinder, imports, ref, crossed, ownerVars>>

\* CreateProxy has one of the two.
LEMMA CreateCases ==
  ASSUME NEW t \in Thread, CreateProxy(t)
  PROVE  CreateNone(t) \/ \E p \in Proxy : CreateFor(t, p)
  BY DEF CreateProxy, CreateNone, CreateFor

\* Every step keeps the types of both processes' state.
LEMMA TypeStep == TypeOK /\ PackState /\ [Next]_vars => TypeOK'
<1> SUFFICES ASSUME TypeOK, PackState, [Next]_vars PROVE TypeOK'
  OBVIOUS
<1> USE MarshalAssumption
<1>1. ASSUME NEW t \in Thread, Marshal(t) PROVE TypeOK'
  BY <1>1 DEF TypeOK, Marshal, ComeTo
<1>1a. ASSUME NEW t \in Thread, AskEntry(t) PROVE TypeOK'
  BY <1>1a DEF TypeOK, AskEntry, Answer, ComeTo, userVars
<1>1b. ASSUME NEW t \in Thread, CreateStub(t) PROVE TypeOK'
  <2>1. PICK s \in Stub : /\ stub' = [stub EXCEPT ![s] = "live"]
                          /\ exports' = exports \cup {s} /\ Answer(t, s)
    BY <1>1b DEF CreateStub
  <2>2. /\ stub' \in [Stub -> {"unborn", "live", "dying", "unregistered", "gone"}]
        /\ exports' \subseteq Stub
    BY <2>1 DEF TypeOK
  <2> QED
    BY <2>1, <2>2 DEF TypeOK, Answer
<1>2. ASSUME NEW t \in Thread, FindImport(t) PROVE TypeOK'
  <2>1. \A n \in DOMAIN imports : imports[n] \in Proxy
    BY DEF TypeOK
  <2> QED
    BY <1>2, <2>1 DEF TypeOK, FindImport, Got, EntriesOf, ownerVars, lookupVars
<1>3. ASSUME NEW t \in Thread, CreateProxy(t) PROVE TypeOK'
  <2>1. ASSUME NEW p \in Proxy, CreateFor(t, p) PROVE TypeOK'
    BY <2>1 DEF CreateFor, TypeOK, PackState, Got, ownerVars, lookupVars
  <2>2. CASE CreateNone(t)
    BY <2>2 DEF CreateNone, TypeOK, PackState, ownerVars, lookupVars
  <2> QED
    BY <1>3, <2>1, <2>2, CreateCases
<1>4. ASSUME NEW t \in Thread, Release(t) PROVE TypeOK'
  BY <1>4 DEF TypeOK, Release, ownerVars, lookupVars
<1>5. ASSUME NEW t \in Thread, UnregisterImport(t) PROVE TypeOK'
  <2>1. imports' \in Seq(Proxy)
    <3>1. CASE EntriesOf(mBinder[ref[t]]) = {}
      BY <1>5, <3>1 DEF TypeOK, UnregisterImport
    <3>2. CASE EntriesOf(mBinder[ref[t]]) # {}
      <4> DEFINE E == EntriesOf(mBinder[ref[t]])
      <4>1. E \subseteq Nat
        BY DEF TypeOK, EntriesOf
      <4>2. \E n \in E : \A k \in E : n <= k
        BY <3>2, <4>1, FirstExists
      <4>3. FirstEntryFor(mBinder[ref[t]]) \in DOMAIN imports
        BY <4>2 DEF FirstEntryFor, EntriesOf
      <4> QED
        BY <1>5, <3>2, <4>3, RemoveAtType DEF TypeOK, UnregisterImport
    <3> QED
      BY <3>1, <3>2
  <2> QED
    BY <1>5, <2>1 DEF TypeOK, UnregisterImport, ownerVars, lookupVars
<1>6. ASSUME NEW t \in Thread, DeleteProxy(t) PROVE TypeOK'
  BY <1>6 DEF TypeOK, DeleteProxy, ownerVars, lookupVars
<1>7. ASSUME NEW s \in Stub, StubEnds(s) PROVE TypeOK'
  BY <1>7 DEF TypeOK, StubEnds, BinderRelease, UnregisterExport, DeleteStub, lookupVars, userVars
<1>8. CASE UserDies
  BY <1>8 DEF TypeOK, UserDies, ownerVars, lookupVars
<1>9. CASE UNCHANGED vars
  BY <1>9 DEF TypeOK, vars, ownerVars, lookupVars, userVars
<1> QED
  BY <1>1, <1>1a, <1>1b, <1>2, <1>3, <1>4, <1>5, <1>6, <1>7, <1>8, <1>9 DEF Next, Step, StubEnds

\* No step leaves a thread without the binder it is to find a proxy for.
LEMMA PackStep == TypeOK /\ PackState /\ [Next]_vars => PackState'
<1> SUFFICES ASSUME TypeOK, PackState, [Next]_vars PROVE PackState'
  OBVIOUS
<1>1. ASSUME NEW t \in Thread, Marshal(t) PROVE PackState'
  BY <1>1 DEF TypeOK, PackState, Marshal
<1>1a. ASSUME NEW t \in Thread, AskEntry(t) \/ CreateStub(t) PROVE PackState'
  BY <1>1a DEF TypeOK, PackState, AskEntry, CreateStub, Answer, userVars
<1>2. ASSUME NEW t \in Thread, FindImport(t) PROVE PackState'
  BY <1>2 DEF TypeOK, PackState, FindImport, Got
<1>3. ASSUME NEW t \in Thread, CreateProxy(t) PROVE PackState'
  <2>1. ASSUME NEW p \in Proxy, CreateFor(t, p) PROVE PackState'
    BY <2>1 DEF CreateFor, TypeOK, PackState, Got
  <2>2. CASE CreateNone(t)
    BY <2>2 DEF CreateNone, TypeOK, PackState
  <2> QED
    BY <1>3, <2>1, <2>2, CreateCases
<1>4. ASSUME NEW t \in Thread, Release(t) \/ UnregisterImport(t) \/ DeleteProxy(t)
      PROVE PackState'
  BY <1>4 DEF TypeOK, PackState, Release, UnregisterImport, DeleteProxy
<1>5. ASSUME NEW s \in Stub, StubEnds(s) PROVE PackState'
  BY <1>5 DEF PackState, StubEnds, BinderRelease, UnregisterExport, DeleteStub, userVars
<1>6. CASE UserDies
  BY <1>6 DEF PackState, UserDies
<1>7. CASE UNCHANGED vars
  BY <1>7 DEF PackState, vars, userVars
<1> QED
  BY <1>1, <1>1a, <1>2, <1>3, <1>4, <1>5, <1>6, <1>7 DEF Next, Step, StubEnds

\* A thread's location tells the state of its proxy, whatever the other threads do:
\* the last Release is alone, FindImportObject takes a live proxy only.
LEMMA RefStep == TypeOK /\ RefState /\ [Next]_vars => RefState'
<1> SUFFICES ASSUME TypeOK, RefState, [Next]_vars PROVE RefState'
  OBVIOUS
<1>1. ASSUME NEW t \in Thread, Marshal(t) PROVE RefState'
  BY <1>1 DEF TypeOK, RefState, Marshal
<1>1a. ASSUME NEW t \in Thread, AskEntry(t) \/ CreateStub(t) PROVE RefState'
  BY <1>1a DEF TypeOK, RefState, AskEntry, CreateStub, Answer, userVars
<1>2. ASSUME NEW t \in Thread, FindImport(t) PROVE RefState'
  <2>1. \A n \in DOMAIN imports : imports[n] \in Proxy
    BY DEF TypeOK
  <2> QED
    BY <1>2, <2>1 DEF TypeOK, RefState, FindImport, Got, EntriesOf, Attemptable
<1>3. ASSUME NEW t \in Thread, CreateProxy(t) PROVE RefState'
  <2>1. ASSUME NEW p \in Proxy, CreateFor(t, p) PROVE RefState'
    BY <2>1 DEF CreateFor, TypeOK, RefState, Got, ownerVars, lookupVars
  <2>2. CASE CreateNone(t)
    BY <2>2 DEF CreateNone, TypeOK, RefState, ownerVars, lookupVars
  <2> QED
    BY <1>3, <2>1, <2>2, CreateCases
<1>4. ASSUME NEW t \in Thread, Release(t) PROVE RefState'
  BY <1>4 DEF TypeOK, RefState, Release
<1>5. ASSUME NEW t \in Thread, UnregisterImport(t) PROVE RefState'
  BY <1>5 DEF TypeOK, RefState, UnregisterImport
<1>6. ASSUME NEW t \in Thread, DeleteProxy(t) PROVE RefState'
  BY <1>6 DEF TypeOK, RefState, DeleteProxy
<1>7. ASSUME NEW s \in Stub, StubEnds(s) PROVE RefState'
  BY <1>7 DEF RefState, StubEnds, BinderRelease, UnregisterExport, DeleteStub, userVars
<1>8. CASE UserDies
  BY <1>8 DEF RefState, UserDies
<1>9. CASE UNCHANGED vars
  BY <1>9 DEF RefState, vars, userVars
<1> QED
  BY <1>1, <1>1a, <1>2, <1>3, <1>4, <1>5, <1>6, <1>7, <1>8, <1>9 DEF Next, Step, StubEnds

\* The owner's side: what is referred to stays alive and listed, and what is listed
\* or about to be asked by a lookup has not been deleted.
LEMMA StubStep ==
  MarshalInv /\ [Next]_vars => ReferencedStubsFound' /\ StubsToAsk'
<1> SUFFICES ASSUME MarshalInv, [Next]_vars
             PROVE  ReferencedStubsFound' /\ StubsToAsk'
  OBVIOUS
<1> DEFINE Good == ReferencedStubsFound /\ StubsToAsk
<1> USE DEF MarshalInv, ReferencedStubsFound, StubsToAsk, Referenced, Exists
<1>1. ASSUME NEW t \in Thread, Marshal(t) PROVE Good'
  BY <1>1, MarshalAssumption DEF TypeOK, Marshal, ComeTo
<1>1a. ASSUME NEW t \in Thread, AskEntry(t) PROVE Good'
  BY <1>1a, MarshalAssumption DEF TypeOK, AskEntry, Answer, ComeTo, Findable, userVars
<1>1b. ASSUME NEW t \in Thread, CreateStub(t) PROVE Good'
  BY <1>1b DEF TypeOK, CreateStub, Answer
<1>2. ASSUME NEW t \in Thread, FindImport(t) PROVE Good'
  BY <1>2, MarshalAssumption DEF TypeOK, FindImport, Got, ownerVars, lookupVars
<1>3. ASSUME NEW t \in Thread, CreateProxy(t) PROVE Good'
  <2>1. ASSUME NEW p \in Proxy, CreateFor(t, p) PROVE Good'
    BY <2>1, MarshalAssumption DEF CreateFor, TypeOK, Got, ownerVars, lookupVars
  <2>2. CASE CreateNone(t)
    BY <2>2, MarshalAssumption DEF CreateNone, TypeOK, ownerVars, lookupVars
  <2> QED
    BY <1>3, <2>1, <2>2, CreateCases
<1>4. ASSUME NEW t \in Thread, Release(t) PROVE Good'
  BY <1>4 DEF TypeOK, RefState, Release, ownerVars, lookupVars
<1>5. ASSUME NEW t \in Thread, UnregisterImport(t) PROVE Good'
  BY <1>5 DEF TypeOK, RefState, UnregisterImport, ownerVars, lookupVars
<1>6. ASSUME NEW t \in Thread, DeleteProxy(t) PROVE Good'
  BY <1>6 DEF TypeOK, DeleteProxy, ownerVars, lookupVars
<1>7. ASSUME NEW s \in Stub, BinderRelease(s) PROVE Good'
  BY <1>7 DEF TypeOK, BinderRelease, lookupVars, userVars
<1>8. ASSUME NEW s \in Stub, UnregisterExport(s) PROVE Good'
  BY <1>8 DEF TypeOK, UnregisterExport, lookupVars, userVars
<1>8a. ASSUME NEW s \in Stub, DeleteStub(s) PROVE Good'
  BY <1>8a DEF TypeOK, DeleteStub, lookupVars, userVars
<1>9. CASE UserDies
  BY <1>9, MarshalAssumption DEF UserDies, ownerVars, lookupVars
<1>10. CASE UNCHANGED vars
  BY <1>10 DEF vars, ownerVars, lookupVars, userVars
<1> QED
  BY <1>1, <1>1a, <1>1b, <1>2, <1>3, <1>4, <1>5, <1>6, <1>7, <1>8, <1>8a, <1>9, <1>10 DEF Next, Step

\* The invariant of both processes that the theorems follow from.
THEOREM MarshalInvariant == Spec => []MarshalInv
<1>1. Init => MarshalInv
  BY MarshalAssumption DEF Init, MarshalInv, TypeOK, PackState, RefState, ReferencedStubsFound,
     StubsToAsk, Referenced, Exists
<1>2. MarshalInv /\ [Next]_vars => MarshalInv'
  BY TypeStep, PackStep, RefStep, StubStep DEF MarshalInv
<1> QED
  BY <1>1, <1>2, PTL DEF Spec

\* Type correctness, for any numbers of threads, stubs and proxies.
THEOREM TypeCorrect == Spec => []TypeOK
<1>1. MarshalInv => TypeOK
  BY DEF MarshalInv
<1> QED
  BY <1>1, MarshalInvariant, PTL

\* A binder in anybody's hands is that of a live stub the export table finds: the
\* marshalling that meets a stub binder is giving up makes a new one
\* (FindExportObject).
THEOREM StubsFound == Spec => []ReferencedStubsFound
<1>1. MarshalInv => ReferencedStubsFound
  BY DEF MarshalInv
<1> QED
  BY <1>1, MarshalInvariant, PTL

\* Every stub that FindExportObject has come to, or will come to, is there: its hook
\* (CObjectStub::onLastStrongRef) waits for the lookup, and its deletion for the hook.
THEOREM LookupsSafe == Spec => []LookupsReachStubs
<1>1. MarshalInv => LookupsReachStubs
  BY DEF MarshalInv, StubsToAsk, LookupsReachStubs
<1> QED
  BY <1>1, MarshalInvariant, PTL

\* Proxies in use are alive and destroyed by one thread, although FindImportObject
\* meets proxies whose count has fallen to 0.
THEOREM ProxiesLive == Spec => []HeldProxiesLive
<1>1. MarshalInv => HeldProxiesLive
  BY DEF MarshalInv, RefState, HeldProxiesLive
<1> QED
  BY <1>1, MarshalInvariant, PTL

-----------------------------------------------------------------------------
\* The import table beside what ImportsExact says of it: its entries are of proxies made for
\* a stub, and a binder for which no proxy was made too early has one entry at most.
EntryState ==
  /\ \A n \in 1 .. Len(imports) : mBinder[imports[n]] \in Stub
  /\ \A p \in Proxy : proxy[p] = "unborn" => mBinder[p] = NoStub
  /\ \A s \in Stub \ crossed : \A m, n \in EntriesOf(s) : m = n

\* An entry at the front moves the others up.
LEMMA PushEntries ==
  ASSUME NEW s \in Seq(Proxy), NEW p \in Proxy, NEW z, z = <<p>> \o s
  PROVE  /\ z \in Seq(Proxy) /\ Len(z) = Len(s) + 1 /\ z[1] = p
         /\ \A i \in 2 .. Len(z) : i - 1 \in 1 .. Len(s) /\ z[i] = s[i - 1]
         /\ \A i \in 1 .. Len(s) : i + 1 \in 2 .. Len(z) /\ z[i + 1] = s[i]
  OBVIOUS

\* Where the entry was that is at i once entry n is gone.
Before(i, n) == IF i < n THEN i ELSE i + 1

\* RemoveAt moves the later entries down.
LEMMA RemoveEntries ==
  ASSUME NEW s \in Seq(Proxy), NEW n \in 1 .. Len(s), NEW z, z = RemoveAt(s, n)
  PROVE  /\ z \in Seq(Proxy) /\ Len(z) = Len(s) - 1
         /\ \A i \in 1 .. Len(z) : /\ Before(i, n) \in 1 .. Len(s)
                                   /\ z[i] = s[Before(i, n)]
         /\ \A k \in 1 .. Len(s) : k # n => Contains(z, s[k])
<1>1. PICK a : a = SubSeq(s, 1, n - 1)
  OBVIOUS
<1>2. a \in Seq(Proxy) /\ Len(a) = n - 1 /\ \A i \in 1 .. n - 1 : a[i] = s[i]
  BY <1>1
<1>3. PICK b : b = SubSeq(s, n + 1, Len(s))
  OBVIOUS
<1>4. /\ b \in Seq(Proxy) /\ Len(b) = Len(s) - n
      /\ \A i \in 1 .. Len(s) - n : b[i] = s[i + n]
  BY <1>3
<1>5. /\ z \in Seq(Proxy) /\ Len(z) = Len(a) + Len(b)
      /\ \A i \in 1 .. Len(a) + Len(b) : z[i] = IF i <= Len(a) THEN a[i] ELSE b[i - Len(a)]
  <2>1. PICK c : c = a \o b
    OBVIOUS
  <2>2. /\ c \in Seq(Proxy) /\ Len(c) = Len(a) + Len(b)
        /\ \A i \in 1 .. Len(a) + Len(b) : c[i] = IF i <= Len(a) THEN a[i] ELSE b[i - Len(a)]
    BY <1>2, <1>4, <2>1, ConcatProperties
  <2>3. z = c
    BY <1>1, <1>3, <2>1 DEF RemoveAt
  <2> QED
    BY <2>2, <2>3
<1>6. z \in Seq(Proxy) /\ Len(z) = Len(s) - 1
  BY <1>2, <1>4, <1>5
<1>7. ASSUME NEW i \in 1 .. Len(z)
      PROVE  /\ Before(i, n) \in 1 .. Len(s)
             /\ z[i] = s[Before(i, n)]
  <2>1. CASE i < n
    <3>1. i \in 1 .. Len(a) + Len(b) /\ i <= Len(a) /\ i \in 1 .. n - 1
      BY <1>2, <1>4, <2>1
    <3>2. z[i] = a[i] /\ a[i] = s[i]
      BY <1>2, <1>5, <3>1
    <3> QED
      BY <2>1, <3>2 DEF Before
  <2>2. CASE ~(i < n)
    <3>1. i \in 1 .. Len(a) + Len(b) /\ ~(i <= Len(a)) /\ i - Len(a) = i - n + 1
      BY <1>2, <1>5, <2>2
    <3>2. i - n + 1 \in 1 .. Len(s) - n /\ (i - n + 1) + n = i + 1
      BY <1>6, <2>2
    <3>3. z[i] = b[i - n + 1]
      BY <1>5, <3>1
    <3>4. b[i - n + 1] = s[i + 1]
      BY <1>4, <3>2
    <3> QED
      BY <1>6, <2>2, <3>3, <3>4 DEF Before
  <2> QED
    BY <2>1, <2>2
<1>8. ASSUME NEW k \in 1 .. Len(s), k # n PROVE Contains(z, s[k])
  <2>1. PICK i : i = IF k < n THEN k ELSE k - 1
    OBVIOUS
  <2>2. i \in 1 .. Len(z) /\ Before(i, n) = k
    BY <1>6, <1>8, <2>1 DEF Before
  <2> QED
    BY <1>7, <2>2 DEF Contains
<1> QED
  BY <1>6, <1>7, <1>8

\* The first entry for a binder is one of its entries, if it has any.
LEMMA FirstIsEntry ==
  ASSUME TypeOK, NEW s, EntriesOf(s) # {}
  PROVE  FirstEntryFor(s) \in EntriesOf(s)
<1>1. EntriesOf(s) \subseteq Nat
  BY DEF TypeOK, EntriesOf
<1>2. \E n \in EntriesOf(s) : \A k \in EntriesOf(s) : n <= k
  BY <1>1, FirstExists
<1> QED
  BY <1>2 DEF FirstEntryFor

\* What the table says depends on three variables only.
LEMMA EntriesUnchanged ==
  ASSUME EntryState, ImportsExact, UNCHANGED <<imports, mBinder, proxy, crossed>>
  PROVE  EntryState' /\ ImportsExact'
  BY DEF EntryState, ImportsExact, EntriesOf, Contains

\* A binder is registered, while no other entry is for it or else it is marked.
LEMMA CreateEntries ==
  ASSUME MarshalInv, EntryState, ImportsExact, NEW t \in Thread, CreateProxy(t)
  PROVE  EntryState' /\ ImportsExact'
<1>1. TypeOK /\ PackState /\ pc[t] = "create"
  BY DEF MarshalInv, CreateProxy
<1>2. CASE UNCHANGED <<imports, mBinder, proxy, crossed>>
  BY <1>2, EntriesUnchanged
<1>3. CASE ~UNCHANGED <<imports, mBinder, proxy, crossed>>
  <2>1. PICK p \in Proxy :
          /\ proxy[p] = "unborn" /\ proxy' = [proxy EXCEPT ![p] = "live"]
          /\ mBinder' = [mBinder EXCEPT ![p] = pack[t]] /\ imports' = <<p>> \o imports
          /\ crossed' = IF EntriesOf(pack[t]) = {} THEN crossed ELSE crossed \cup {pack[t]}
    BY <1>3 DEF CreateProxy
  <2>2. PICK b \in Stub : b = pack[t]
    BY <1>1 DEF PackState
  <2>3. PICK s \in Seq(Proxy) : s = imports
    BY <1>1 DEF TypeOK
  <2>4. PICK z : z = imports'
    OBVIOUS
  <2>5. /\ z \in Seq(Proxy) /\ Len(z) = Len(s) + 1 /\ z[1] = p
        /\ \A i \in 2 .. Len(z) : i - 1 \in 1 .. Len(s) /\ z[i] = s[i - 1]
        /\ \A i \in 1 .. Len(s) : i + 1 \in 2 .. Len(z) /\ z[i + 1] = s[i]
    BY <2>1, <2>3, <2>4, PushEntries
  <2>6. /\ mBinder'[p] = b /\ proxy'[p] = "live" /\ mBinder[p] = NoStub
        /\ \A q \in Proxy : q # p => mBinder'[q] = mBinder[q] /\ proxy'[q] = proxy[q]
    BY <1>1, <2>1, <2>2 DEF TypeOK, EntryState
  <2>7. \A i \in 1 .. Len(s) : s[i] \in Proxy /\ s[i] # p /\ mBinder'[s[i]] = mBinder[s[i]]
    <3>1. \A i \in 1 .. Len(s) : s[i] \in Proxy /\ mBinder[s[i]] \in Stub
      BY <2>3 DEF EntryState
    <3> QED
      BY <2>6, <3>1, MarshalAssumption
  <2>8. \A x \in Stub : EntriesOf(x) = {i \in 1 .. Len(s) : mBinder[s[i]] = x}
    BY <2>3 DEF EntriesOf
  <2>9. \A x \in Stub : EntriesOf(x)' = {i \in 1 .. Len(z) : mBinder'[z[i]] = x}
    BY <2>4, <2>5 DEF EntriesOf
  <2>10. \A x \in Stub \ crossed' : x \in Stub \ crossed /\ (x = b => EntriesOf(b) = {})
    BY <2>1, <2>2
  <2>11. EntryState'
    <3>1. ASSUME NEW i \in 1 .. Len(z) PROVE mBinder'[z[i]] \in Stub
      <4>1. CASE i = 1
        BY <2>5, <2>6, <4>1
      <4>2. CASE i # 1
        <5>1. i - 1 \in 1 .. Len(s) /\ z[i] = s[i - 1]
          BY <2>5, <4>2
        <5> QED
          BY <2>3, <2>7, <5>1 DEF EntryState
      <4> QED
        BY <4>1, <4>2
    <3>2. \A q \in Proxy : proxy'[q] = "unborn" => mBinder'[q] = NoStub
      BY <2>6 DEF EntryState
    <3>3. ASSUME NEW x \in Stub \ crossed', NEW m \in EntriesOf(x)', NEW n \in EntriesOf(x)'
          PROVE  m = n
      <4>1. /\ m \in 1 .. Len(z) /\ mBinder'[z[m]] = x
            /\ n \in 1 .. Len(z) /\ mBinder'[z[n]] = x
        BY <2>9, <3>3
      <4>2. ASSUME NEW k \in 1 .. Len(z), mBinder'[z[k]] = x, k # 1
            PROVE  k - 1 \in EntriesOf(x)
        <5>1. k - 1 \in 1 .. Len(s) /\ z[k] = s[k - 1]
          BY <2>5, <4>2
        <5> QED
          BY <2>7, <2>8, <4>2, <5>1
      <4>3. CASE m = 1 \/ n = 1
        <5>1. x = b /\ EntriesOf(x) = {}
          BY <2>5, <2>6, <2>10, <4>1, <4>3
        <5> QED
          BY <4>1, <4>2, <4>3, <5>1
      <4>4. CASE m # 1 /\ n # 1
        <5>1. m - 1 \in EntriesOf(x) /\ n - 1 \in EntriesOf(x)
          BY <4>1, <4>2, <4>4
        <5>2. m - 1 = n - 1
          BY <2>10, <5>1 DEF EntryState
        <5> QED
          BY <4>1, <5>2
      <4> QED
        BY <4>3, <4>4
    <3> QED
      BY <2>4, <3>1, <3>2, <3>3 DEF EntryState
  <2>12. ASSUME NEW x \in Stub \ crossed'
         PROVE  /\ \A q \in Proxy : mBinder'[q] = x =>
                     (Contains(z, q) <=> proxy'[q] \in {"live", "dying"})
                /\ \A q, r \in Proxy : mBinder'[q] = x /\ mBinder'[r] = x
                     /\ proxy'[q] = "live" /\ proxy'[r] = "live" => q = r
    <3>1. x \in Stub \ crossed /\ (x = b => EntriesOf(b) = {})
      BY <2>10
    <3>2. \A q \in Proxy : q # p => (Contains(z, q) <=> Contains(s, q))
      <4>1. ASSUME NEW q \in Proxy, q # p, NEW i \in 1 .. Len(z), z[i] = q PROVE Contains(s, q)
        <5>1. i # 1
          BY <2>5, <4>1
        <5>2. i - 1 \in 1 .. Len(s) /\ s[i - 1] = q
          BY <2>5, <4>1, <5>1
        <5> QED
          BY <5>2 DEF Contains
      <4>2. ASSUME NEW q \in Proxy, NEW i \in 1 .. Len(s), s[i] = q PROVE Contains(z, q)
        <5>1. i + 1 \in 1 .. Len(z) /\ z[i + 1] = q
          BY <2>5, <4>2
        <5> QED
          BY <5>1 DEF Contains
      <4> QED
        BY <4>1, <4>2 DEF Contains
    <3>3. Contains(z, p)
      <4>1. 1 \in 1 .. Len(z)
        BY <2>5
      <4> QED
        BY <2>5, <4>1 DEF Contains
    <3>4. \A q \in Proxy : mBinder[q] = x => (Contains(s, q) <=> proxy[q] \in {"live", "dying"})
      BY <2>3, <3>1 DEF ImportsExact
    <3>5. ASSUME NEW q \in Proxy, mBinder'[q] = x
          PROVE  Contains(z, q) <=> proxy'[q] \in {"live", "dying"}
      BY <2>6, <3>2, <3>3, <3>4, <3>5
    <3>6. ASSUME x = b, NEW q \in Proxy, q # p, mBinder[q] = x PROVE proxy[q] # "live"
      <4>1. ~Contains(s, q)
        BY <2>8, <3>1, <3>6 DEF Contains
      <4> QED
        BY <3>4, <3>6, <4>1
    <3>7. ASSUME NEW q \in Proxy, NEW r \in Proxy, mBinder'[q] = x, mBinder'[r] = x,
                 proxy'[q] = "live", proxy'[r] = "live"
          PROVE  q = r
      <4>1. CASE q # p /\ r # p
        BY <2>6, <3>1, <3>7, <4>1 DEF ImportsExact
      <4>2. CASE q = p \/ r = p
        BY <2>6, <3>6, <3>7, <4>2
      <4> QED
        BY <4>1, <4>2
    <3> QED
      BY <3>5, <3>7
  <2> QED
    BY <2>4, <2>11, <2>12 DEF ImportsExact
<1> QED
  BY <1>2, <1>3

\* A dying proxy removes the first entry for its binder: its own, unless the binder is
\* marked, and never one for another binder.
LEMMA UnregisterEntries ==
  ASSUME MarshalInv, EntryState, ImportsExact, NEW t \in Thread, UnregisterImport(t)
  PROVE  EntryState' /\ ImportsExact'
<1>1. TypeOK /\ RefState
  BY DEF MarshalInv
<1>2. PICK p \in Proxy : p = ref[t] /\ proxy[p] = "dying"
  BY <1>1 DEF RefState, UnregisterImport
<1>3. PICK b : b = mBinder[p]
  OBVIOUS
<1>4. /\ imports' = IF EntriesOf(b) = {} THEN imports ELSE RemoveAt(imports, FirstEntryFor(b))
      /\ proxy' = [proxy EXCEPT ![p] = "unregistered"]
      /\ UNCHANGED <<mBinder, crossed>>
  BY <1>2, <1>3 DEF UnregisterImport
<1>5. PICK s \in Seq(Proxy) : s = imports
  BY <1>1 DEF TypeOK
<1>6. PICK z : z = imports'
  OBVIOUS
<1>7. proxy'[p] = "unregistered" /\ \A q \in Proxy : q # p => proxy'[q] = proxy[q]
  BY <1>1, <1>4 DEF TypeOK
<1>8. \A x : EntriesOf(x) = {i \in 1 .. Len(s) : mBinder[s[i]] = x}
  BY <1>5 DEF EntriesOf
<1>9. CASE EntriesOf(b) = {}
  <2>1. z = s
    BY <1>4, <1>5, <1>6, <1>9
  <2>2. b \notin Stub \ crossed
    <3>1. ASSUME b \in Stub \ crossed PROVE FALSE
      <4>1. Contains(s, p)
        BY <1>2, <1>3, <1>5, <3>1 DEF ImportsExact
      <4> QED
        BY <1>3, <1>8, <1>9, <4>1 DEF Contains
    <3> QED
      BY <3>1
  <2>3. EntryState'
    <3>1. \A q \in Proxy : proxy'[q] = "unborn" => mBinder'[q] = NoStub
      BY <1>4, <1>7 DEF EntryState
    <3>2. \A x : EntriesOf(x)' = EntriesOf(x)
      BY <1>4, <1>5, <1>6, <2>1 DEF EntriesOf
    <3> QED
      BY <1>4, <1>5, <1>6, <2>1, <3>1, <3>2 DEF EntryState
  <2>4. ImportsExact'
    <3>1. \A q \in Proxy : mBinder[q] \in Stub \ crossed => q # p
      BY <1>3, <2>2
    <3> QED
      BY <1>4, <1>5, <1>6, <1>7, <2>1, <3>1 DEF ImportsExact
  <2> QED
    BY <2>3, <2>4
<1>10. CASE EntriesOf(b) # {}
  <2>1. PICK n \in 1 .. Len(s) : n = FirstEntryFor(b) /\ mBinder[s[n]] = b
    BY <1>1, <1>8, <1>10, FirstIsEntry
  <2>2. z = RemoveAt(s, n)
    BY <1>4, <1>5, <1>6, <1>10, <2>1
  <2>3. /\ z \in Seq(Proxy) /\ Len(z) = Len(s) - 1
        /\ \A i \in 1 .. Len(z) : /\ Before(i, n) \in 1 .. Len(s)
                                  /\ z[i] = s[Before(i, n)]
        /\ \A k \in 1 .. Len(s) : k # n => Contains(z, s[k])
    BY <2>2, RemoveEntries
  <2>4. \A x : EntriesOf(x)' = {i \in 1 .. Len(z) : mBinder[z[i]] = x}
    BY <1>4, <1>6, <2>3 DEF EntriesOf
  <2>5. EntryState'
    <3>1. \A i \in 1 .. Len(z) : mBinder[z[i]] \in Stub
      BY <1>5, <2>3 DEF EntryState
    <3>2. \A q \in Proxy : proxy'[q] = "unborn" => mBinder[q] = NoStub
      BY <1>7 DEF EntryState
    <3>3. ASSUME NEW x \in Stub \ crossed, NEW i \in EntriesOf(x)', NEW j \in EntriesOf(x)'
          PROVE  i = j
      <4>1. /\ i \in 1 .. Len(z) /\ mBinder[z[i]] = x /\ j \in 1 .. Len(z) /\ mBinder[z[j]] = x
        BY <2>4, <3>3
      <4>2. Before(i, n) \in EntriesOf(x) /\ Before(j, n) \in EntriesOf(x)
        BY <1>8, <2>3, <4>1
      <4>3. Before(i, n) = Before(j, n)
        BY <4>2 DEF EntryState
      <4> QED
        BY <4>1, <4>3 DEF Before
    <3> QED
      BY <1>4, <1>6, <3>1, <3>2, <3>3 DEF EntryState
  <2>6. ASSUME NEW x \in Stub \ crossed, NEW q \in Proxy, mBinder[q] = x
        PROVE  Contains(z, q) <=> proxy'[q] \in {"live", "dying"}
    <3>1. Contains(s, q) <=> proxy[q] \in {"live", "dying"}
      BY <1>5, <2>6 DEF ImportsExact
    <3>2. Contains(z, q) => Contains(s, q)
      BY <2>3 DEF Contains
    <3>3. CASE q = p
      <4>1. Contains(s, p) /\ b \in Stub \ crossed
        BY <1>2, <1>3, <2>6, <3>1, <3>3
      <4>2. PICK k \in 1 .. Len(s) : s[k] = p
        BY <4>1 DEF Contains
      <4>3. k = n
        <5>1. k \in EntriesOf(b) /\ n \in EntriesOf(b)
          BY <1>3, <1>8, <2>1, <4>2
        <5> QED
          BY <4>1, <5>1 DEF EntryState
      <4>4. ASSUME NEW i \in 1 .. Len(z), z[i] = p PROVE FALSE
        <5>1. PICK j \in 1 .. Len(s) : j = Before(i, n)
          BY <2>3
        <5>2. s[j] = p /\ j # n
          BY <2>3, <4>4, <5>1 DEF Before
        <5>3. j \in EntriesOf(b) /\ n \in EntriesOf(b)
          BY <1>3, <1>8, <2>1, <5>2
        <5> QED
          BY <4>1, <5>2, <5>3 DEF EntryState
      <4>5. ~Contains(z, p)
        BY <4>4 DEF Contains
      <4> QED
        BY <1>7, <3>3, <4>5
    <3>4. CASE q # p
      <4>1. ASSUME Contains(s, q) PROVE Contains(z, q)
        <5>1. PICK k \in 1 .. Len(s) : s[k] = q
          BY <4>1 DEF Contains
        <5>2. k # n
          <6>1. ASSUME k = n PROVE FALSE
            <7>1. x = b /\ s[n] = q
              BY <2>1, <2>6, <5>1, <6>1
            <7>2. Contains(s, p)
              BY <1>2, <1>3, <1>5, <7>1 DEF ImportsExact
            <7>3. PICK m \in 1 .. Len(s) : s[m] = p
              BY <7>2 DEF Contains
            <7>4. m \in EntriesOf(b) /\ n \in EntriesOf(b)
              BY <1>3, <1>8, <2>1, <7>3
            <7>5. m = n
              BY <7>1, <7>4 DEF EntryState
            <7> QED
              BY <3>4, <7>1, <7>3, <7>5
          <6> QED
            BY <6>1
        <5> QED
          BY <2>3, <5>1, <5>2
      <4> QED
        BY <1>7, <3>1, <3>2, <3>4, <4>1
    <3> QED
      BY <3>3, <3>4
  <2>7. ImportsExact'
    <3>1. \A q \in Proxy : proxy'[q] = "live" => proxy[q] = "live"
      BY <1>7
    <3> QED
      BY <1>4, <1>6, <2>6, <3>1 DEF ImportsExact
  <2> QED
    BY <2>5, <2>7
<1> QED
  BY <1>9, <1>10

\* Steps that leave the table alone and move no proxy across its border.
LEMMA BorderKept ==
  ASSUME EntryState, ImportsExact, TypeOK, UNCHANGED <<imports, mBinder, crossed>>,
         NEW p \in Proxy, NEW phase, proxy' = [proxy EXCEPT ![p] = phase],
         \/ proxy[p] = "live" /\ phase = "dying"
         \/ proxy[p] = "unregistered" /\ phase = "gone"
  PROVE  EntryState' /\ ImportsExact'
<1>1. /\ proxy'[p] = phase /\ \A q \in Proxy : q # p => proxy'[q] = proxy[q]
      /\ \A q \in Proxy : /\ proxy'[q] = "unborn" => proxy[q] = "unborn"
                          /\ proxy'[q] = "live" => proxy[q] = "live"
                          /\ proxy'[q] \in {"live", "dying"} <=> proxy[q] \in {"live", "dying"}
  BY DEF TypeOK
<1>2. EntryState'
  <2>1. \A x : EntriesOf(x)' = EntriesOf(x)
    BY DEF EntriesOf
  <2> QED
    BY <1>1, <2>1 DEF EntryState
<1>3. ImportsExact'
  BY <1>1 DEF ImportsExact
<1> QED
  BY <1>2, <1>3

\* Every step keeps the import table exact.
LEMMA EntryStep ==
  MarshalInv /\ EntryState /\ ImportsExact /\ [Next]_vars => EntryState' /\ ImportsExact'
<1> SUFFICES ASSUME MarshalInv, EntryState, ImportsExact, [Next]_vars
             PROVE  EntryState' /\ ImportsExact'
  OBVIOUS
<1>1. TypeOK /\ RefState
  BY DEF MarshalInv
<1>2. ASSUME NEW t \in Thread, Marshal(t) \/ AskEntry(t) \/ CreateStub(t) \/ FindImport(t)
      PROVE  EntryState' /\ ImportsExact'
  BY <1>2, EntriesUnchanged DEF Marshal, AskEntry, CreateStub, Answer, FindImport, userVars
<1>3. ASSUME NEW t \in Thread, CreateProxy(t) PROVE EntryState' /\ ImportsExact'
  BY <1>3, CreateEntries
<1>4. ASSUME NEW t \in Thread, Release(t) PROVE EntryState' /\ ImportsExact'
  <2>1. PICK p \in Proxy : p = ref[t] /\ proxy[p] = "live"
    BY <1>1, <1>4 DEF Release, RefState
  <2>2. CASE UNCHANGED proxy
    BY <1>4, <2>2, EntriesUnchanged DEF Release
  <2>3. CASE proxy' = [proxy EXCEPT ![p] = "dying"]
    BY <1>1, <1>4, <2>1, <2>3, BorderKept DEF Release
  <2> QED
    BY <1>4, <2>1, <2>2, <2>3 DEF Release
<1>5. ASSUME NEW t \in Thread, UnregisterImport(t) PROVE EntryState' /\ ImportsExact'
  BY <1>5, UnregisterEntries
<1>6. ASSUME NEW t \in Thread, DeleteProxy(t) PROVE EntryState' /\ ImportsExact'
  <2>1. PICK p \in Proxy : p = ref[t] /\ proxy[p] = "unregistered"
    BY <1>1, <1>6 DEF DeleteProxy, RefState
  <2>2. proxy' = [proxy EXCEPT ![p] = "gone"] /\ UNCHANGED <<imports, mBinder, crossed>>
    BY <1>6, <2>1 DEF DeleteProxy
  <2> QED
    BY <1>1, <2>1, <2>2, BorderKept
<1>7. ASSUME NEW s \in Stub, StubEnds(s)
      PROVE  EntryState' /\ ImportsExact'
  BY <1>7, EntriesUnchanged DEF StubEnds, BinderRelease, UnregisterExport, DeleteStub, userVars
<1>8. ASSUME UserDies PROVE EntryState' /\ ImportsExact'
  <2>1. imports' = <<>> /\ UNCHANGED mBinder
        /\ \A p \in Proxy : /\ proxy'[p] \in {"unborn", "gone"}
                            /\ proxy'[p] = "unborn" => proxy[p] = "unborn"
    BY <1>8 DEF UserDies
  <2>2. Len(imports') = 0 /\ DOMAIN imports' = {}
    BY <2>1
  <2>3. \A x : EntriesOf(x)' = {}
    BY <2>2 DEF EntriesOf
  <2>4. EntryState'
    BY <2>1, <2>2, <2>3 DEF EntryState
  <2>5. \A p \in Proxy : ~Contains(imports', p)
    BY <2>2 DEF Contains
  <2> QED
    BY <2>1, <2>4, <2>5 DEF ImportsExact
<1>9. ASSUME UNCHANGED vars PROVE EntryState' /\ ImportsExact'
  BY <1>9, EntriesUnchanged DEF vars, userVars
<1> QED
  BY <1>2, <1>3, <1>4, <1>5, <1>6, <1>7, <1>8, <1>9 DEF Next, Step, StubEnds

\* As long as no proxy was made for a binder while another was dying, the import table
\* holds exactly the proxies that are not yet unregistered, one per binder.
THEOREM OneProxy == Spec => []ImportsExact
<1>1. Init => EntryState /\ ImportsExact
  <2> SUFFICES ASSUME Init PROVE EntryState /\ ImportsExact
    OBVIOUS
  <2>1. /\ Len(imports) = 0 /\ DOMAIN imports = {}
        /\ \A p \in Proxy : mBinder[p] = NoStub
    BY DEF Init
  <2> QED
    BY <2>1, MarshalAssumption DEF EntryState, EntriesOf, ImportsExact
<1>2. MarshalInv /\ EntryState /\ ImportsExact /\ [Next]_vars => EntryState' /\ ImportsExact'
  BY EntryStep
<1> QED
  BY <1>1, <1>2, MarshalInvariant, PTL DEF Spec
=============================================================================

------------------------- MODULE LocalModuleProofs --------------------------
(***************************************************************************)
(* For any finite number of threads, any modules and any number of         *)
(* objects: the counts are exact, nothing in use is unmapped, and          *)
(* FreeUnusedModules(FALSE) spares what was used lately.                   *)
(*                                                                         *)
(* The counts are only right together with the rule of who may use a       *)
(* module without a handle of its own: a user of objects or of a class     *)
(* object relies on an entry of the list (InUseListed), and only the       *)
(* holder of the list's lock, having found the module unused, takes an     *)
(* entry away (UnloadState).  A thread that loads relies on its own dlopen.*)
(***************************************************************************)
EXTENDS LocalModule, NumberFacts, SequenceTheorems

Entry == [module : Module, mAskCount : Nat]

\* What the proofs need of the types.
ModuleTypes ==
  /\ g_LocModList \in Seq(Entry)
  /\ handles \in [Module -> Nat] /\ g_dllLockCount \in [Module -> Nat]
  /\ objects \in [Module -> Nat] /\ idle \in [Module -> Nat]
  /\ pc \in [Thread -> {"idle", "dlopen", "get", "insert", "class", "release", "walk", "unload"}]
  /\ DOMAIN mod = Thread /\ DOMAIN op = Thread /\ cursor \in [Thread -> Nat]

\* Who deals with a module has one, who loads one does not load the runtime, and who
\* walks has the lock and a position.
ThreadState ==
  /\ \A t \in Thread : pc[t] \in {"dlopen", "get", "insert", "class", "release"} => mod[t] \in Module
  /\ \A t \in Thread : pc[t] \in {"dlopen", "get", "insert"} => mod[t] \notin Runtime
  /\ \A t \in Thread : pc[t] \in {"walk", "unload"} => g_LocModListLock = t /\ cursor[t] # 0
  /\ \A t \in Thread : pc[t] = "unload" => cursor[t] <= Len(g_LocModList)

\* The threads that have dlopened the module for themselves so far.
Loaders(m) == {t \in Thread : pc[t] \in {"get", "insert"} /\ mod[t] = m}

\* The module has objects, or class objects in the hands of threads that do not load it.
Used(m) == objects[m] # 0 \/ \E t \in Thread : mod[t] = m /\ pc[t] \in {"class", "release"}

\* A module in use has an entry, or is the runtime.
InUseListed == \A m \in Module : Used(m) => m \in Runtime \/ Listed(m) # {}

\* What is being unloaded is not in use.
UnloadState == \A t \in Thread : pc[t] = "unload" => ~Used(g_LocModList[cursor[t]].module)

ModuleInv == ModuleTypes /\ ThreadState /\ InUseListed /\ UnloadState /\ CountsExact

\* A module nobody loaded while it was loaded has one entry at most, and none while a
\* thread loads it.
OnceState ==
  \A m \in Module \ raced :
    /\ \A i, j \in Listed(m) : i = j
    /\ \A t \in Loaders(m) : Listed(m) = {} /\ Loaders(m) = {t}

\* mAskCount is no more than the asks since the module was last used, which are
\* counted up to 3; what FreeUnusedModules unloads was asked three times.
AskState ==
  /\ \A n \in 1 .. Len(g_LocModList) :
       g_LocModList[n].module \in Module \ raced =>
         \/ g_LocModList[n].mAskCount <= idle[g_LocModList[n].module]
         \/ idle[g_LocModList[n].module] >= 3
  /\ \A t \in Thread : pc[t] = "unload" /\ op[t] = "FreeUnusedModules" =>
       g_LocModList[cursor[t]].mAskCount >= 3

-----------------------------------------------------------------------------
\* The threads at a location of L that deal with module m, and how one thread's step
\* changes their number.
At(L, m) == {t \in Thread : pc[t] \in L /\ mod[t] = m}

\* Thread t goes to location l with module q; the others stay.
Moves(t, l, q) ==
  /\ pc'[t] = l /\ mod'[t] = q
  /\ \A u \in Thread : u # t => pc'[u] = pc[u] /\ mod'[u] = mod[u]

\* The threads are finitely many, so any of them can be counted.
LEMMA AtCount ==
  ASSUME NEW L, NEW m
  PROVE  IsFiniteSet(At(L, m)) /\ Cardinality(At(L, m)) \in Nat
         /\ (Cardinality(At(L, m)) = 0 <=> At(L, m) = {})
<1>1. At(L, m) \subseteq Thread
  BY DEF At
<1>2. IsFiniteSet(At(L, m))
  BY <1>1, FS_Subset, ModuleAssumption
<1> QED
  BY <1>2, FS_CardinalityType, FS_EmptySet

\* One thread's step changes a number of threads by that thread.
LEMMA AtMoves ==
  ASSUME NEW t \in Thread, NEW l, NEW q, Moves(t, l, q), NEW L, NEW m
  PROVE  Cardinality(At(L, m)') = Cardinality(At(L, m))
           + (IF l \in L /\ q = m THEN 1 ELSE 0) - (IF pc[t] \in L /\ mod[t] = m THEN 1 ELSE 0)
<1>1. CASE (l \in L /\ q = m) <=> (pc[t] \in L /\ mod[t] = m)
  <2>1. At(L, m)' = At(L, m)
    BY <1>1 DEF At, Moves
  <2> QED
    BY <1>1, <2>1, AtCount
<1>2. CASE (l \in L /\ q = m) /\ ~(pc[t] \in L /\ mod[t] = m)
  <2>1. At(L, m)' = At(L, m) \cup {t} /\ t \notin At(L, m)
    BY <1>2 DEF At, Moves
  <2>2. Cardinality(At(L, m)') = Cardinality(At(L, m)) + 1
    BY <2>1, AtCount, FS_AddElement
  <2> QED
    BY <1>2, <2>2, AtCount
<1>3. CASE ~(l \in L /\ q = m) /\ (pc[t] \in L /\ mod[t] = m)
  <2>1. At(L, m)' = At(L, m) \ {t} /\ t \in At(L, m)
    BY <1>3 DEF At, Moves
  <2>2. Cardinality(At(L, m)') = Cardinality(At(L, m)) - 1
    BY <2>1, AtCount, FS_RemoveElement
  <2> QED
    BY <1>3, <2>2, AtCount
<1> QED
  BY <1>1, <1>2, <1>3

\* The two kinds of threads the counts are about.
LEMMA Kinds ==
  ASSUME NEW m
  PROVE  /\ Loaders(m) = At({"get", "insert"}, m)
         /\ ClassHolders(m) = At({"insert", "class", "release"}, m)
  BY DEF Loaders, ClassHolders, At

-----------------------------------------------------------------------------
\* The entries of a module in a list.
EntriesOf(s, m) == {n \in 1 .. Len(s) : s[n].module = m}

\* The entries are finitely many.
LEMMA EntriesFinite ==
  ASSUME NEW s \in Seq(Entry), NEW m
  PROVE  /\ IsFiniteSet(EntriesOf(s, m)) /\ Cardinality(EntriesOf(s, m)) \in Nat
         /\ Cardinality(EntriesOf(s, m)) = 0 <=> EntriesOf(s, m) = {}
<1>1. EntriesOf(s, m) \subseteq 1 .. Len(s) /\ IsFiniteSet(1 .. Len(s))
  BY FS_Interval DEF EntriesOf
<1>2. IsFiniteSet(EntriesOf(s, m))
  BY <1>1, FS_Subset
<1> QED
  BY <1>2, FS_CardinalityType, FS_EmptySet

\* InsertFirst adds one entry, of its module.
LEMMA EntriesInserted ==
  ASSUME NEW s \in Seq(Entry), NEW e \in Entry, NEW m
  PROVE  /\ <<e>> \o s \in Seq(Entry)
         /\ Cardinality(EntriesOf(<<e>> \o s, m)) =
              Cardinality(EntriesOf(s, m)) + (IF e.module = m THEN 1 ELSE 0)
<1>1. PICK z : z = <<e>> \o s
  OBVIOUS
<1>2. /\ z \in Seq(Entry) /\ Len(z) = Len(s) + 1 /\ z[1] = e
      /\ \A n \in 1 .. Len(s) : z[n + 1] = s[n]
  BY <1>1
<1>3. PICK f : f = [n \in EntriesOf(s, m) |-> n + 1]
  OBVIOUS
<1>4. /\ f \in [EntriesOf(s, m) -> EntriesOf(z, m) \ {1}]
      /\ \A x, y \in EntriesOf(s, m) : f[x] = f[y] => x = y
  BY <1>2, <1>3 DEF EntriesOf
<1>5. ASSUME NEW y \in EntriesOf(z, m) \ {1} PROVE \E x \in EntriesOf(s, m) : f[x] = y
  <2>1. y \in 1 .. Len(s) + 1 /\ y # 1 /\ z[y].module = m
    BY <1>2, <1>5 DEF EntriesOf
  <2>2. y - 1 \in 1 .. Len(s) /\ (y - 1) + 1 = y
    BY <2>1
  <2>3. s[y - 1].module = m
    BY <1>2, <2>1, <2>2
  <2>4. y - 1 \in EntriesOf(s, m)
    BY <2>2, <2>3 DEF EntriesOf
  <2> QED
    BY <1>3, <2>2, <2>4
<1>6. Cardinality(EntriesOf(z, m) \ {1}) = Cardinality(EntriesOf(s, m))
  BY <1>4, <1>5, EntriesFinite, Renumbered
<1>7. 1 \in EntriesOf(z, m) <=> e.module = m
  BY <1>2 DEF EntriesOf
<1>8. /\ Cardinality(EntriesOf(z, m) \ {1}) =
           IF 1 \in EntriesOf(z, m) THEN Cardinality(EntriesOf(z, m)) - 1
           ELSE Cardinality(EntriesOf(z, m))
      /\ Cardinality(EntriesOf(z, m)) \in Nat
  BY <1>2, EntriesFinite, FS_RemoveElement
<1>9. Cardinality(EntriesOf(z, m)) = Cardinality(EntriesOf(s, m)) + (IF e.module = m THEN 1 ELSE 0)
  BY <1>6, <1>7, <1>8
<1> QED
  BY <1>1, <1>2, <1>9

\* RemoveAt, position by position.
LEMMA EntryRemoved ==
  ASSUME NEW s \in Seq(Entry), NEW k \in 1 .. Len(s)
  PROVE  /\ RemoveAt(s, k) \in Seq(Entry)
         /\ Len(RemoveAt(s, k)) = Len(s) - 1
         /\ \A n \in 1 .. Len(s) - 1 : RemoveAt(s, k)[n] = s[IF n < k THEN n ELSE n + 1]
<1>1. PICK a : a = SubSeq(s, 1, k - 1)
  OBVIOUS
<1>2. a \in Seq(Entry) /\ Len(a) = k - 1 /\ \A n \in 1 .. k - 1 : a[n] = s[n]
  BY <1>1
<1>3. PICK b : b = SubSeq(s, k + 1, Len(s))
  OBVIOUS
<1>4. /\ b \in Seq(Entry) /\ Len(b) = Len(s) - k
      /\ \A n \in 1 .. Len(s) - k : b[n] = s[n + k]
  BY <1>3
<1>5. RemoveAt(s, k) = a \o b
  BY <1>1, <1>3 DEF RemoveAt
<1>6. RemoveAt(s, k) \in Seq(Entry) /\ Len(RemoveAt(s, k)) = Len(s) - 1
  <2>1. a \o b \in Seq(Entry) /\ Len(a \o b) = Len(a) + Len(b)
    BY <1>2, <1>4, ConcatProperties
  <2>2. Len(a) + Len(b) = Len(s) - 1
    BY <1>2, <1>4
  <2> QED
    BY <1>5, <2>1, <2>2
<1>7. ASSUME NEW n \in 1 .. Len(s) - 1
      PROVE  RemoveAt(s, k)[n] = s[IF n < k THEN n ELSE n + 1]
  <2>1. n \in 1 .. Len(a) + Len(b) /\ Len(a) = k - 1 /\ (n <= Len(a) <=> n < k)
    BY <1>2, <1>4
  <2>2. (a \o b)[n] = IF n <= Len(a) THEN a[n] ELSE b[n - Len(a)]
    BY <1>2, <1>4, <2>1, ConcatProperties
  <2>3. CASE n < k
    BY <1>2, <1>5, <2>1, <2>2, <2>3
  <2>4. CASE ~(n < k)
    <3>1. n - (k - 1) \in 1 .. Len(s) - k /\ (n - (k - 1)) + k = n + 1
      BY <2>4
    <3> QED
      BY <1>4, <1>5, <2>1, <2>2, <2>4, <3>1
  <2> QED
    BY <2>3, <2>4
<1> QED
  BY <1>6, <1>7

\* Detach takes one entry away, of its module.
LEMMA EntriesRemoved ==
  ASSUME NEW s \in Seq(Entry), NEW k \in 1 .. Len(s), NEW m
  PROVE  Cardinality(EntriesOf(RemoveAt(s, k), m)) =
           Cardinality(EntriesOf(s, m)) - (IF s[k].module = m THEN 1 ELSE 0)
<1>1. PICK z : z = RemoveAt(s, k)
  OBVIOUS
<1>2. /\ z \in Seq(Entry) /\ Len(z) = Len(s) - 1
      /\ \A n \in 1 .. Len(s) - 1 : z[n] = s[IF n < k THEN n ELSE n + 1]
  BY <1>1, EntryRemoved
<1>3. PICK f : f = [n \in EntriesOf(z, m) |-> IF n < k THEN n ELSE n + 1]
  OBVIOUS
<1>4. f \in [EntriesOf(z, m) -> EntriesOf(s, m) \ {k}]
  BY <1>2, <1>3 DEF EntriesOf
<1>5. \A x, y \in EntriesOf(z, m) : f[x] = f[y] => x = y
  BY <1>2, <1>3 DEF EntriesOf
<1>6. ASSUME NEW y \in EntriesOf(s, m) \ {k} PROVE \E x \in EntriesOf(z, m) : f[x] = y
  <2>1. y \in 1 .. Len(s) /\ y # k /\ s[y].module = m
    BY <1>6 DEF EntriesOf
  <2>2. PICK x \in 1 .. Len(s) - 1 : (IF x < k THEN x ELSE x + 1) = y
    <3>1. CASE y < k
      BY <2>1, <3>1
    <3>2. CASE ~(y < k)
      <4>1. y - 1 \in 1 .. Len(s) - 1 /\ ~(y - 1 < k) /\ (y - 1) + 1 = y
        BY <2>1, <3>2
      <4> QED
        BY <4>1
    <3> QED
      BY <3>1, <3>2
  <2>3. x \in EntriesOf(z, m)
    BY <1>2, <2>1, <2>2 DEF EntriesOf
  <2> QED
    BY <1>3, <2>2, <2>3
<1>7. Cardinality(EntriesOf(s, m) \ {k}) = Cardinality(EntriesOf(z, m))
  BY <1>2, <1>4, <1>5, <1>6, EntriesFinite, Renumbered
<1>8. k \in EntriesOf(s, m) <=> s[k].module = m
  BY DEF EntriesOf
<1>9. /\ Cardinality(EntriesOf(s, m) \ {k}) =
           IF k \in EntriesOf(s, m) THEN Cardinality(EntriesOf(s, m)) - 1
           ELSE Cardinality(EntriesOf(s, m))
      /\ Cardinality(EntriesOf(s, m)) \in Nat
  BY EntriesFinite, FS_RemoveElement
<1> QED
  BY <1>1, <1>7, <1>8, <1>9

\* Entries are entries of a module by that alone: mAskCount does not matter.
LEMMA SameEntries ==
  ASSUME NEW s \in Seq(Entry), NEW z \in Seq(Entry), Len(z) = Len(s),
         \A n \in 1 .. Len(s) : z[n].module = s[n].module, NEW m
  PROVE  EntriesOf(z, m) = EntriesOf(s, m)
  BY DEF EntriesOf

\* Listed, in these terms.
LEMMA ListedEntries ==
  ASSUME NEW s \in Seq(Entry), NEW m
  PROVE  {n \in DOMAIN s : s[n].module = m} = EntriesOf(s, m)
  BY DEF EntriesOf

-----------------------------------------------------------------------------
\* Where a thread has a handle of its own, and where it holds a class object.
LoadAt == {"get", "insert"}
HoldAt == {"insert", "class", "release"}

\* Whether a thread at l with module q is one of those, as a number.
One(l, q, L, m) == IF l \in L /\ q = m THEN 1 ELSE 0

\* CountsExact, in the terms of the lemmas above.
LEMMA Counted ==
  ASSUME ModuleTypes, CountsExact, NEW m \in Module
  PROVE  /\ handles[m] = Cardinality(EntriesOf(g_LocModList, m)) + Cardinality(At(LoadAt, m))
         /\ g_dllLockCount[m] = objects[m] + Cardinality(At(HoldAt, m))
<1>1. Listed(m) = EntriesOf(g_LocModList, m)
  BY ListedEntries DEF ModuleTypes, Listed
<1>2. {t \in Thread : pc[t] \in {"get", "insert"} /\ mod[t] = m} = At(LoadAt, m)
  BY DEF At, LoadAt
<1>3. ClassHolders(m) = At(HoldAt, m)
  BY DEF At, HoldAt, ClassHolders
<1> QED
  BY <1>1, <1>2, <1>3 DEF CountsExact

\* The counts stay exact when each changes by what the step did to what it counts.
LEMMA CountsKept ==
  ASSUME ModuleTypes, ModuleTypes', CountsExact,
         NEW t \in Thread, NEW l, NEW q, Moves(t, l, q),
         \A m \in Module :
           /\ handles'[m] = handles[m]
                + (Cardinality(EntriesOf(g_LocModList, m)') - Cardinality(EntriesOf(g_LocModList, m)))
                + One(l, q, LoadAt, m) - One(pc[t], mod[t], LoadAt, m)
           /\ g_dllLockCount'[m] = g_dllLockCount[m] + (objects'[m] - objects[m])
                + One(l, q, HoldAt, m) - One(pc[t], mod[t], HoldAt, m)
  PROVE  CountsExact'
<1> SUFFICES ASSUME NEW m \in Module
             PROVE  (/\ handles[m] = Cardinality(Listed(m))
                          + Cardinality({u \in Thread : pc[u] \in {"get", "insert"} /\ mod[u] = m})
                     /\ g_dllLockCount[m] = objects[m] + Cardinality(ClassHolders(m)))'
  BY DEF CountsExact
<1>1. Listed(m)' = EntriesOf(g_LocModList, m)'
  BY ListedEntries DEF ModuleTypes, Listed
<1>2. {u \in Thread : pc[u] \in {"get", "insert"} /\ mod[u] = m}' = At(LoadAt, m)'
  BY DEF At, LoadAt
<1>3. ClassHolders(m)' = At(HoldAt, m)'
  BY DEF At, HoldAt, ClassHolders
<1>4. /\ Cardinality(At(LoadAt, m)') =
           Cardinality(At(LoadAt, m)) + One(l, q, LoadAt, m) - One(pc[t], mod[t], LoadAt, m)
      /\ Cardinality(At(HoldAt, m)') =
           Cardinality(At(HoldAt, m)) + One(l, q, HoldAt, m) - One(pc[t], mod[t], HoldAt, m)
  BY AtMoves DEF One
<1>5. /\ Cardinality(At(LoadAt, m)) \in Nat /\ Cardinality(At(HoldAt, m)) \in Nat
      /\ Cardinality(EntriesOf(g_LocModList, m)) \in Nat
      /\ Cardinality(EntriesOf(g_LocModList, m)') \in Nat
  <2>1. g_LocModList \in Seq(Entry) /\ g_LocModList' \in Seq(Entry)
    BY DEF ModuleTypes
  <2>2. Cardinality(EntriesOf(g_LocModList', m)) \in Nat
    BY <2>1, EntriesFinite
  <2> QED
    BY <2>1, <2>2, AtCount, EntriesFinite DEF EntriesOf
<1>6. One(l, q, LoadAt, m) \in Nat /\ One(pc[t], mod[t], LoadAt, m) \in Nat
      /\ One(l, q, HoldAt, m) \in Nat /\ One(pc[t], mod[t], HoldAt, m) \in Nat
      /\ objects[m] \in Nat /\ objects'[m] \in Nat
  BY DEF One, ModuleTypes
<1>7. /\ handles[m] = Cardinality(EntriesOf(g_LocModList, m)) + Cardinality(At(LoadAt, m))
      /\ g_dllLockCount[m] = objects[m] + Cardinality(At(HoldAt, m))
  BY Counted
<1>8. handles'[m] = Cardinality(EntriesOf(g_LocModList, m)') + Cardinality(At(LoadAt, m)')
  BY <1>4, <1>5, <1>6, <1>7
<1>9. g_dllLockCount'[m] = objects'[m] + Cardinality(At(HoldAt, m)')
  BY <1>4, <1>5, <1>6, <1>7
<1> QED
  BY <1>1, <1>2, <1>3, <1>8, <1>9

\* A thread's own handle and its own class object are in the counts.
LEMMA OwnCounted ==
  ASSUME ModuleTypes, CountsExact, NEW t \in Thread, mod[t] \in Module
  PROVE  /\ pc[t] \in LoadAt =>
              handles[mod[t]] >= 1 + Cardinality(EntriesOf(g_LocModList, mod[t]))
         /\ pc[t] \in HoldAt => g_dllLockCount[mod[t]] >= 1 + objects[mod[t]]
<1>1. /\ handles[mod[t]] = Cardinality(EntriesOf(g_LocModList, mod[t]))
                         + Cardinality(At(LoadAt, mod[t]))
      /\ g_dllLockCount[mod[t]] = objects[mod[t]] + Cardinality(At(HoldAt, mod[t]))
  BY Counted
<1>2. /\ Cardinality(EntriesOf(g_LocModList, mod[t])) \in Nat /\ objects[mod[t]] \in Nat
  BY EntriesFinite DEF ModuleTypes
<1>3. ASSUME NEW L, pc[t] \in L PROVE Cardinality(At(L, mod[t])) \in Nat \ {0}
  <2>1. t \in At(L, mod[t])
    BY <1>3 DEF At
  <2> QED
    BY <2>1, AtCount
<1>4. pc[t] \in LoadAt => Cardinality(At(LoadAt, mod[t])) \in Nat \ {0}
  BY <1>3
<1>5. pc[t] \in HoldAt => Cardinality(At(HoldAt, mod[t])) \in Nat \ {0}
  BY <1>3
<1> QED
  BY <1>1, <1>2, <1>4, <1>5

\* A module that is not mapped any more, and is not the runtime, is not in use.
LEMMA LastHandle ==
  ASSUME ModuleInv, NEW m \in Module \ Runtime, handles[m] = 1, At(LoadAt, m) # {}
  PROVE  ~Used(m) /\ Cardinality(EntriesOf(g_LocModList, m)) = 0
         /\ objects[m] = 0 /\ Cardinality(At(LoadAt, m)) = 1
<1>1. handles[m] = Cardinality(EntriesOf(g_LocModList, m)) + Cardinality(At(LoadAt, m))
  BY Counted DEF ModuleInv
<1>2. /\ Cardinality(EntriesOf(g_LocModList, m)) \in Nat
      /\ Cardinality(EntriesOf(g_LocModList, m)) = 0 <=> EntriesOf(g_LocModList, m) = {}
      /\ Cardinality(At(LoadAt, m)) \in Nat \ {0}
  BY AtCount, EntriesFinite DEF ModuleInv, ModuleTypes
<1>3. Cardinality(EntriesOf(g_LocModList, m)) = 0 /\ Cardinality(At(LoadAt, m)) = 1
  BY <1>1, <1>2
<1>4. Listed(m) = {}
  BY <1>2, <1>3, ListedEntries DEF ModuleInv, ModuleTypes, Listed
<1>5. ~Used(m)
  BY <1>4 DEF ModuleInv, InUseListed
<1> QED
  BY <1>3, <1>5 DEF Used

\* With the list and the walks as they were, no module coming into use is enough.
LEMMA UsesKept ==
  ASSUME ModuleInv, UNCHANGED g_LocModList, UNCHANGED cursor,
         \A m \in Module : Used(m)' => Used(m),
         \A t \in Thread : pc'[t] = "unload" => pc[t] = "unload"
  PROVE  InUseListed' /\ UnloadState'
<1>1. InUseListed'
  BY DEF ModuleInv, InUseListed, Listed
<1>2. ASSUME NEW t \in Thread, pc'[t] = "unload"
      PROVE  g_LocModList[cursor[t]].module \in Module
  <2>1. cursor[t] \in 1 .. Len(g_LocModList)
    BY <1>2 DEF ModuleInv, ModuleTypes, ThreadState
  <2>2. g_LocModList[cursor[t]] \in Entry
    BY <2>1 DEF ModuleInv, ModuleTypes
  <2> QED
    BY <2>2 DEF Entry
<1>3. UnloadState'
  BY <1>2 DEF ModuleInv, UnloadState
<1> QED
  BY <1>1, <1>3

-----------------------------------------------------------------------------
\* Dlopen takes a handle for the thread, or gives up.
LEMMA DlopenInv ==
  ASSUME ModuleInv, NEW t \in Thread, Dlopen(t)
  PROVE  ModuleInv'
<1>1. /\ ModuleTypes /\ ThreadState /\ CountsExact
      /\ pc[t] = "dlopen" /\ mod[t] \in Module
      /\ UNCHANGED <<g_LocModList, g_LocModListLock, g_dllLockCount, objects, mod, op, cursor, idle>>
  BY DEF ModuleInv, ThreadState, Dlopen, listVars
<1>2. /\ pc' = [pc EXCEPT ![t] = pc'[t]] /\ pc'[t] \in {"get", "idle"}
      /\ handles' = IF pc'[t] = "get" THEN [handles EXCEPT ![mod[t]] = @ + 1] ELSE handles
  BY <1>1 DEF Dlopen, Goto, ModuleTypes
<1>3. Moves(t, pc'[t], mod[t])
  BY <1>1, <1>2 DEF Moves, ModuleTypes
<1>4. ModuleTypes'
  <2>1. handles' \in [Module -> Nat]
    BY <1>1, <1>2 DEF ModuleTypes
  <2>2. pc' \in [Thread -> {"idle", "dlopen", "get", "insert", "class", "release", "walk", "unload"}]
    BY <1>1, <1>2 DEF ModuleTypes
  <2> QED
    BY <1>1, <2>1, <2>2 DEF ModuleTypes
<1>5. ThreadState'
  BY <1>1, <1>2 DEF ModuleTypes, ThreadState
<1>6. InUseListed' /\ UnloadState'
  <2>1. \A m \in Module : Used(m)' => Used(m)
    BY <1>1, <1>2, <1>3 DEF Used, Moves
  <2>2. \A u \in Thread : pc'[u] = "unload" => pc[u] = "unload"
    BY <1>2, <1>3 DEF Moves
  <2> QED
    BY <1>1, <2>1, <2>2, UsesKept
<1>7. CountsExact'
  <2>1. ASSUME NEW m \in Module
        PROVE  /\ handles'[m] = handles[m]
                    + (Cardinality(EntriesOf(g_LocModList, m)') - Cardinality(EntriesOf(g_LocModList, m)))
                    + One(pc'[t], mod[t], LoadAt, m) - One(pc[t], mod[t], LoadAt, m)
               /\ g_dllLockCount'[m] = g_dllLockCount[m] + (objects'[m] - objects[m])
                    + One(pc'[t], mod[t], HoldAt, m) - One(pc[t], mod[t], HoldAt, m)
    <3>1. EntriesOf(g_LocModList, m)' = EntriesOf(g_LocModList, m)
          /\ Cardinality(EntriesOf(g_LocModList, m)) \in Nat
      BY <1>1, EntriesFinite DEF EntriesOf, ModuleTypes
    <3> QED
      BY <1>1, <1>2, <3>1 DEF One, LoadAt, HoldAt, ModuleTypes
  <2> QED
    BY <1>1, <1>3, <1>4, <2>1, CountsKept
<1> QED
  BY <1>4, <1>5, <1>6, <1>7 DEF ModuleInv

\* GetClassObject takes a class object, or closes the thread's own handle.  If that was
\* the last one, the module had no entry, and so no use.
LEMMA GetClassObjectInv ==
  ASSUME ModuleInv, NEW t \in Thread, GetClassObject(t)
  PROVE  ModuleInv'
<1>1. /\ ModuleTypes /\ ThreadState /\ CountsExact
      /\ pc[t] = "get" /\ mod[t] \in Module /\ mod[t] \notin Runtime
      /\ UNCHANGED <<g_LocModList, g_LocModListLock, objects, mod, op, cursor, idle>>
  BY DEF ModuleInv, ThreadState, GetClassObject, listVars
<1>2. /\ pc' = [pc EXCEPT ![t] = pc'[t]] /\ pc'[t] \in {"insert", "idle"}
      /\ pc'[t] = "insert" =>
           /\ g_dllLockCount' = [g_dllLockCount EXCEPT ![mod[t]] = @ + 1]
           /\ UNCHANGED handles
      /\ pc'[t] = "idle" => Dlclose(mod[t])
  BY <1>1 DEF GetClassObject, Goto, ModuleTypes
<1>3. Moves(t, pc'[t], mod[t])
  BY <1>1, <1>2 DEF Moves, ModuleTypes
<1>4. handles[mod[t]] \in Nat /\ handles[mod[t]] >= 1
  <2>1. handles[mod[t]] >= 1 + Cardinality(EntriesOf(g_LocModList, mod[t]))
    BY <1>1, OwnCounted DEF LoadAt
  <2>2. Cardinality(EntriesOf(g_LocModList, mod[t])) \in Nat /\ handles[mod[t]] \in Nat
    BY <1>1, EntriesFinite DEF ModuleTypes
  <2> QED
    BY <2>1, <2>2
<1>5. pc'[t] = "idle" =>
        /\ handles' = [handles EXCEPT ![mod[t]] = @ - 1]
        /\ UNCHANGED g_dllLockCount
  <2>1. CASE handles[mod[t]] = 1
    <3>1. At(LoadAt, mod[t]) # {}
      BY <1>1 DEF At, LoadAt
    <3>2. ~Used(mod[t]) /\ objects[mod[t]] = 0 /\ Cardinality(At(LoadAt, mod[t])) = 1
      BY <1>1, <2>1, <3>1, LastHandle
    <3>3. At(LoadAt, mod[t]) = {t}
      <4>1. IsFiniteSet(At(LoadAt, mod[t])) /\ t \in At(LoadAt, mod[t])
        BY <1>1, AtCount DEF At, LoadAt
      <4>2. PICK u : At(LoadAt, mod[t]) = {u}
        BY <3>2, <4>1, FS_Singleton
      <4> QED
        BY <4>1, <4>2
    <3>4. At(HoldAt, mod[t]) = {}
      BY <1>1, <3>2, <3>3 DEF At, HoldAt, LoadAt, Used
    <3>5. Cardinality(At(HoldAt, mod[t])) = 0
      BY <3>4, AtCount
    <3>6. g_dllLockCount[mod[t]] = 0
      BY <1>1, <3>2, <3>5, Counted
    <3>7. [g_dllLockCount EXCEPT ![mod[t]] = 0] = g_dllLockCount
      BY <1>1, <3>6 DEF ModuleTypes
    <3> QED
      BY <1>2, <2>1, <3>7 DEF Dlclose
  <2>2. CASE handles[mod[t]] # 1
    <3>1. [g_dllLockCount EXCEPT ![mod[t]] = @] = g_dllLockCount
      BY <1>1 DEF ModuleTypes
    <3> QED
      BY <1>2, <2>2, <3>1 DEF Dlclose
  <2> QED
    BY <2>1, <2>2
<1>6. ModuleTypes'
  <2>1. handles' \in [Module -> Nat]
    <3>1. CASE pc'[t] = "insert"
      BY <1>1, <1>2, <3>1 DEF ModuleTypes
    <3>2. CASE pc'[t] = "idle"
      BY SMTT(30), <1>1, <1>4, <1>5, <3>2 DEF ModuleTypes
    <3> QED
      BY <1>2, <3>1, <3>2
  <2>2. g_dllLockCount' \in [Module -> Nat]
    <3>1. CASE pc'[t] = "insert"
      BY <1>1, <1>2, <3>1 DEF ModuleTypes
    <3>2. CASE pc'[t] = "idle"
      BY <1>1, <1>5, <3>2 DEF ModuleTypes
    <3> QED
      BY <1>2, <3>1, <3>2
  <2>3. UNCHANGED <<g_LocModList, objects, mod, op, cursor, idle>>
    BY <1>1
  <2>4. pc' \in [Thread -> {"idle", "dlopen", "get", "insert", "class", "release", "walk", "unload"}]
    BY <1>1, <1>2 DEF ModuleTypes
  <2> QED
    BY <1>1, <2>1, <2>2, <2>3, <2>4 DEF ModuleTypes
<1>7. ThreadState'
  BY <1>1, <1>2 DEF ModuleTypes, ThreadState
<1>8. InUseListed' /\ UnloadState'
  <2>1. \A m \in Module : Used(m)' => Used(m)
    BY <1>1, <1>2, <1>3 DEF Used, Moves
  <2>2. \A u \in Thread : pc'[u] = "unload" => pc[u] = "unload"
    BY <1>2, <1>3 DEF Moves
  <2> QED
    BY <1>1, <2>1, <2>2, UsesKept
<1>9. CountsExact'
  <2>1. ASSUME NEW m \in Module
        PROVE  /\ handles'[m] = handles[m]
                    + (Cardinality(EntriesOf(g_LocModList, m)') - Cardinality(EntriesOf(g_LocModList, m)))
                    + One(pc'[t], mod[t], LoadAt, m) - One(pc[t], mod[t], LoadAt, m)
               /\ g_dllLockCount'[m] = g_dllLockCount[m] + (objects'[m] - objects[m])
                    + One(pc'[t], mod[t], HoldAt, m) - One(pc[t], mod[t], HoldAt, m)
    <3>1. EntriesOf(g_LocModList, m)' = EntriesOf(g_LocModList, m)
          /\ Cardinality(EntriesOf(g_LocModList, m)) \in Nat
      BY <1>1, EntriesFinite DEF EntriesOf, ModuleTypes
    <3> QED
      BY SMTT(30), <1>1, <1>2, <1>4, <1>5, <3>1 DEF One, LoadAt, HoldAt, ModuleTypes
  <2> QED
    BY <1>1, <1>3, <1>6, <2>1, CountsKept
<1> QED
  BY <1>6, <1>7, <1>8, <1>9 DEF ModuleInv

\* CreateObject adds an object while the thread still holds the class object.
LEMMA CreateObjectInv ==
  ASSUME ModuleInv, NEW t \in Thread, CreateObject(t)
  PROVE  ModuleInv'
<1>1. /\ ModuleTypes /\ ThreadState /\ CountsExact
      /\ pc[t] = "class" /\ mod[t] \in Module /\ pc' = [pc EXCEPT ![t] = "release"]
      /\ UNCHANGED <<g_LocModList, g_LocModListLock, handles, mod, op, cursor, idle>>
  BY DEF ModuleInv, ThreadState, CreateObject, listVars, Goto
<1>2. \/ /\ objects' = [objects EXCEPT ![mod[t]] = @ + 1]
         /\ g_dllLockCount' = [g_dllLockCount EXCEPT ![mod[t]] = @ + 1]
      \/ UNCHANGED <<objects, g_dllLockCount>>
  BY DEF CreateObject
<1>3. Moves(t, "release", mod[t])
  BY <1>1 DEF Moves, ModuleTypes
<1>4. ModuleTypes'
  <2>1. objects' \in [Module -> Nat] /\ g_dllLockCount' \in [Module -> Nat]
    <3>1. CASE /\ objects' = [objects EXCEPT ![mod[t]] = @ + 1]
               /\ g_dllLockCount' = [g_dllLockCount EXCEPT ![mod[t]] = @ + 1]
      BY <1>1, <3>1 DEF ModuleTypes
    <3>2. CASE UNCHANGED <<objects, g_dllLockCount>>
      BY <1>1, <3>2 DEF ModuleTypes
    <3> QED
      BY <1>2, <3>1, <3>2
  <2> QED
    BY <1>1, <2>1 DEF ModuleTypes
<1>5. ThreadState'
  BY <1>1 DEF ModuleTypes, ThreadState
<1>6. InUseListed' /\ UnloadState'
  <2>1. ASSUME NEW m \in Module, Used(m)' PROVE Used(m)
    <3>1. CASE m = mod[t]
      BY <1>1, <3>1 DEF Used
    <3>2. CASE m # mod[t]
      <4>1. objects'[m] = objects[m]
        BY <1>1, <1>2, <3>2 DEF ModuleTypes
      <4> QED
        BY <1>1, <1>3, <2>1, <3>2, <4>1 DEF Used, Moves
    <3> QED
      BY <3>1, <3>2
  <2>2. \A u \in Thread : pc'[u] = "unload" => pc[u] = "unload"
    BY <1>3 DEF Moves
  <2> QED
    BY <1>1, <2>1, <2>2, UsesKept
<1>7. CountsExact'
  <2>1. ASSUME NEW m \in Module
        PROVE  /\ handles'[m] = handles[m]
                    + (Cardinality(EntriesOf(g_LocModList, m)') - Cardinality(EntriesOf(g_LocModList, m)))
                    + One("release", mod[t], LoadAt, m) - One(pc[t], mod[t], LoadAt, m)
               /\ g_dllLockCount'[m] = g_dllLockCount[m] + (objects'[m] - objects[m])
                    + One("release", mod[t], HoldAt, m) - One(pc[t], mod[t], HoldAt, m)
    <3>1. EntriesOf(g_LocModList, m)' = EntriesOf(g_LocModList, m)
          /\ Cardinality(EntriesOf(g_LocModList, m)) \in Nat
      BY <1>1, EntriesFinite DEF EntriesOf, ModuleTypes
    <3> QED
      <4>1. handles[m] \in Nat /\ g_dllLockCount[m] \in Nat /\ objects[m] \in Nat
        BY <1>1 DEF ModuleTypes
      <4>2. g_dllLockCount'[m] = g_dllLockCount[m] + (objects'[m] - objects[m])
        <5>1. CASE /\ objects' = [objects EXCEPT ![mod[t]] = @ + 1]
                   /\ g_dllLockCount' = [g_dllLockCount EXCEPT ![mod[t]] = @ + 1]
          BY <1>1, <4>1, <5>1 DEF ModuleTypes
        <5>2. CASE UNCHANGED <<objects, g_dllLockCount>>
          BY <4>1, <5>2
        <5> QED
          BY <1>2, <5>1, <5>2
      <4>3. objects'[m] \in Nat
        BY <1>4 DEF ModuleTypes
      <4> QED
        BY <1>1, <3>1, <4>1, <4>2, <4>3 DEF One, LoadAt, HoldAt
  <2> QED
    BY <1>1, <1>3, <1>4, <2>1, CountsKept
<1> QED
  BY <1>4, <1>5, <1>6, <1>7 DEF ModuleInv

\* StayResident(TRUE) adds to both counts while the thread holds the class object.
LEMMA StayResidentInv ==
  ASSUME ModuleInv, NEW t \in Thread, StayResident(t)
  PROVE  ModuleInv'
<1>1. /\ ModuleTypes /\ ThreadState /\ CountsExact
      /\ pc[t] = "class" /\ mod[t] \in Module
      /\ objects' = [objects EXCEPT ![mod[t]] = @ + 1]
      /\ g_dllLockCount' = [g_dllLockCount EXCEPT ![mod[t]] = @ + 1]
      /\ UNCHANGED <<g_LocModList, g_LocModListLock, handles, pc, mod, op, cursor, idle>>
  BY DEF ModuleInv, ThreadState, StayResident, listVars, threadVars
<1>2. Moves(t, "class", mod[t])
  BY <1>1 DEF Moves, ModuleTypes
<1>3. ModuleTypes' /\ ThreadState'
  BY <1>1 DEF ModuleTypes, ThreadState
<1>4. InUseListed' /\ UnloadState'
  <2>1. ASSUME NEW m \in Module, Used(m)' PROVE Used(m)
    <3>1. CASE m = mod[t]
      BY <1>1, <3>1 DEF Used
    <3>2. CASE m # mod[t]
      BY <1>1, <2>1, <3>2 DEF Used, ModuleTypes
    <3> QED
      BY <3>1, <3>2
  <2> QED
    BY <1>1, <2>1, UsesKept
<1>5. CountsExact'
  <2>1. ASSUME NEW m \in Module
        PROVE  /\ handles'[m] = handles[m]
                    + (Cardinality(EntriesOf(g_LocModList, m)') - Cardinality(EntriesOf(g_LocModList, m)))
                    + One("class", mod[t], LoadAt, m) - One(pc[t], mod[t], LoadAt, m)
               /\ g_dllLockCount'[m] = g_dllLockCount[m] + (objects'[m] - objects[m])
                    + One("class", mod[t], HoldAt, m) - One(pc[t], mod[t], HoldAt, m)
    <3>1. EntriesOf(g_LocModList, m)' = EntriesOf(g_LocModList, m)
          /\ Cardinality(EntriesOf(g_LocModList, m)) \in Nat
      BY <1>1, EntriesFinite DEF EntriesOf, ModuleTypes
    <3>2. handles[m] \in Nat /\ g_dllLockCount[m] \in Nat /\ objects[m] \in Nat
      BY <1>1 DEF ModuleTypes
    <3>3. objects'[m] \in Nat /\ g_dllLockCount'[m] = g_dllLockCount[m] + (objects'[m] - objects[m])
      BY <1>1, <3>2 DEF ModuleTypes
    <3> QED
      BY <1>1, <3>1, <3>2, <3>3 DEF One, LoadAt, HoldAt
  <2> QED
    BY <1>1, <1>2, <1>3, <2>1, CountsKept
<1> QED
  BY <1>3, <1>4, <1>5 DEF ModuleInv

\* ReleaseClassObject gives back what the thread has.
LEMMA ReleaseClassObjectInv ==
  ASSUME ModuleInv, NEW t \in Thread, ReleaseClassObject(t)
  PROVE  ModuleInv'
<1>1. /\ ModuleTypes /\ ThreadState /\ CountsExact
      /\ pc[t] = "release" /\ mod[t] \in Module /\ pc' = [pc EXCEPT ![t] = "idle"]
      /\ g_dllLockCount' = [g_dllLockCount EXCEPT ![mod[t]] = @ - 1]
      /\ UNCHANGED <<g_LocModList, g_LocModListLock, handles, objects, mod, op, cursor, idle>>
  BY DEF ModuleInv, ThreadState, ReleaseClassObject, listVars, Goto
<1>2. g_dllLockCount[mod[t]] \in Nat \ {0}
  <2>1. g_dllLockCount[mod[t]] >= 1 + objects[mod[t]]
    BY <1>1, OwnCounted DEF HoldAt
  <2> QED
    BY <1>1, <2>1 DEF ModuleTypes
<1>3. Moves(t, "idle", mod[t])
  BY <1>1 DEF Moves, ModuleTypes
<1>4. ModuleTypes'
  BY <1>1, <1>2 DEF ModuleTypes
<1>5. ThreadState'
  BY <1>1 DEF ModuleTypes, ThreadState
<1>6. InUseListed' /\ UnloadState'
  <2>1. \A m \in Module : Used(m)' => Used(m)
    BY <1>1, <1>3 DEF Used, Moves
  <2>2. \A u \in Thread : pc'[u] = "unload" => pc[u] = "unload"
    BY <1>3 DEF Moves
  <2> QED
    BY <1>1, <2>1, <2>2, UsesKept
<1>7. CountsExact'
  <2>1. ASSUME NEW m \in Module
        PROVE  /\ handles'[m] = handles[m]
                    + (Cardinality(EntriesOf(g_LocModList, m)') - Cardinality(EntriesOf(g_LocModList, m)))
                    + One("idle", mod[t], LoadAt, m) - One(pc[t], mod[t], LoadAt, m)
               /\ g_dllLockCount'[m] = g_dllLockCount[m] + (objects'[m] - objects[m])
                    + One("idle", mod[t], HoldAt, m) - One(pc[t], mod[t], HoldAt, m)
    <3>1. EntriesOf(g_LocModList, m)' = EntriesOf(g_LocModList, m)
          /\ Cardinality(EntriesOf(g_LocModList, m)) \in Nat
      BY <1>1, EntriesFinite DEF EntriesOf, ModuleTypes
    <3> QED
      BY <1>1, <1>2, <3>1 DEF One, LoadAt, HoldAt, ModuleTypes
  <2> QED
    BY <1>1, <1>3, <1>4, <2>1, CountsKept
<1> QED
  BY <1>4, <1>5, <1>6, <1>7 DEF ModuleInv

\* ReleaseObject takes one object off both counts.
LEMMA ReleaseObjectInv ==
  ASSUME ModuleInv, NEW m \in Module, ReleaseObject(m)
  PROVE  ModuleInv'
<1>1. /\ ModuleTypes /\ ThreadState /\ CountsExact /\ objects[m] > 0
      /\ objects' = [objects EXCEPT ![m] = @ - 1]
      /\ g_dllLockCount' = [g_dllLockCount EXCEPT ![m] = @ - 1]
      /\ UNCHANGED <<g_LocModList, g_LocModListLock, handles, pc, mod, op, cursor, idle>>
  BY DEF ModuleInv, ReleaseObject, listVars, threadVars
<1>2. ASSUME NEW k \in Module
      PROVE  g_dllLockCount[k] = objects[k] + Cardinality(ClassHolders(k))
             /\ Cardinality(ClassHolders(k)) \in Nat
  <2>1. g_dllLockCount[k] = objects[k] + Cardinality(ClassHolders(k))
    BY <1>1 DEF CountsExact
  <2>2. Cardinality(ClassHolders(k)) \in Nat
    BY AtCount, Kinds
  <2> QED
    BY <2>1, <2>2
<1>3. ModuleTypes'
  BY SMTT(30), <1>1, <1>2 DEF ModuleTypes
<1>4. ThreadState'
  BY <1>1 DEF ThreadState
<1>5. InUseListed' /\ UnloadState'
  <2>1. \A k \in Module : Used(k)' => Used(k)
    BY <1>1 DEF Used, ModuleTypes
  <2> QED
    BY <1>1, <2>1, UsesKept
<1>6. CountsExact'
  <2> SUFFICES ASSUME NEW k \in Module
               PROVE  (/\ handles[k] = Cardinality(Listed(k))
                            + Cardinality({u \in Thread : pc[u] \in {"get", "insert"} /\ mod[u] = k})
                       /\ g_dllLockCount[k] = objects[k] + Cardinality(ClassHolders(k)))'
    BY DEF CountsExact
  <2>1. handles[k] = Cardinality(Listed(k))
          + Cardinality({u \in Thread : pc[u] \in {"get", "insert"} /\ mod[u] = k})
    BY <1>1 DEF CountsExact
  <2>2. ClassHolders(k)' = ClassHolders(k) /\ Listed(k)' = Listed(k)
    BY <1>1 DEF ClassHolders, Listed
  <2>3. g_dllLockCount'[k] = objects'[k] + Cardinality(ClassHolders(k))
    BY <1>1, <1>2 DEF ModuleTypes
  <2> QED
    BY <1>1, <2>1, <2>2, <2>3
<1> QED
  BY <1>3, <1>4, <1>5, <1>6 DEF ModuleInv

-----------------------------------------------------------------------------
\* Numbers have a least, so the list has a first entry of a module it has entries of.
LEMMA FirstOf ==
  ASSUME NEW S \in SUBSET Nat, S # {}
  PROVE  First(S) \in S /\ \A k \in S : First(S) <= k
<1>1. \E n \in S : \A k \in S : n <= k
  BY Least
<1> QED
  BY <1>1 DEF First

\* To set the mAskCount of one entry.
WithAskCount(s, n, c) == [s EXCEPT ![n].mAskCount = c]

\* It changes that, and nothing else.
LEMMA AskCountSet ==
  ASSUME NEW s \in Seq(Entry), NEW n \in 1 .. Len(s), NEW c \in Nat
  PROVE  /\ WithAskCount(s, n, c) \in Seq(Entry) /\ Len(WithAskCount(s, n, c)) = Len(s)
         /\ \A k \in 1 .. Len(s) :
              /\ WithAskCount(s, n, c)[k].module = s[k].module
              /\ WithAskCount(s, n, c)[k].mAskCount = IF k = n THEN c ELSE s[k].mAskCount
<1> DEFINE z == WithAskCount(s, n, c)
<1>1. s[n] \in Entry
  OBVIOUS
<1>2. PICK e : e = [s[n] EXCEPT !.mAskCount = c]
  OBVIOUS
<1>3. e \in Entry /\ e.module = s[n].module /\ e.mAskCount = c
  BY <1>1, <1>2 DEF Entry
<1>4. z = [s EXCEPT ![n] = e]
  BY <1>2 DEF WithAskCount
<1>5. z \in Seq(Entry) /\ Len(z) = Len(s)
      /\ \A k \in 1 .. Len(s) : z[k] = IF k = n THEN e ELSE s[k]
  BY <1>3, <1>4
<1> QED
  BY <1>3, <1>5

\* Without the lock nobody walks.
LEMMA NobodyWalks ==
  ASSUME ThreadState, g_LocModListLock = NoThread
  PROVE  \A t \in Thread : pc[t] \notin {"walk", "unload"}
  BY ModuleAssumption DEF ThreadState

\* What FindModule does to the list is to reset one mAskCount.
LEMMA FindModuleList ==
  ASSUME ModuleTypes, NEW t \in Thread, NEW m \in Module, FindModule(t, m)
  PROVE  /\ g_LocModList' \in Seq(Entry) /\ Len(g_LocModList') = Len(g_LocModList)
         /\ \A k \in 1 .. Len(g_LocModList) :
              /\ g_LocModList'[k].module = g_LocModList[k].module
              /\ g_LocModList'[k].mAskCount =
                   IF Listed(m) # {} /\ k = First(Listed(m)) THEN 0 ELSE g_LocModList[k].mAskCount
<1>1. g_LocModList \in Seq(Entry)
  BY DEF ModuleTypes
<1>2. CASE Listed(m) # {}
  <2>1. Listed(m) \in SUBSET (1 .. Len(g_LocModList)) /\ 1 .. Len(g_LocModList) \in SUBSET Nat
    BY <1>1 DEF Listed
  <2>2. First(Listed(m)) \in Listed(m)
    <3>1. Listed(m) \in SUBSET Nat
      BY <2>1
    <3> QED
      BY <1>2, <3>1, FirstOf
  <2>3. First(Listed(m)) \in 1 .. Len(g_LocModList)
    BY <2>1, <2>2
  <2>4. g_LocModList' = [g_LocModList EXCEPT ![First(Listed(m))].mAskCount = 0]
    BY <1>2 DEF FindModule
  <2>5. PICK n \in 1 .. Len(g_LocModList) : n = First(Listed(m))
    BY <2>3
  <2>6. PICK z : z = g_LocModList'
    OBVIOUS
  <2>7. PICK c \in Nat : c = 0 /\ z = WithAskCount(g_LocModList, n, c)
    BY <2>4, <2>5, <2>6 DEF WithAskCount
  <2>8. /\ z \in Seq(Entry) /\ Len(z) = Len(g_LocModList)
        /\ \A k \in 1 .. Len(g_LocModList) :
             /\ z[k].module = g_LocModList[k].module
             /\ z[k].mAskCount = IF k = n THEN c ELSE g_LocModList[k].mAskCount
    BY <1>1, <2>5, <2>7, AskCountSet
  <2> QED
    BY <1>2, <2>5, <2>6, <2>7, <2>8
<1>3. CASE Listed(m) = {}
  <2>1. g_LocModList' = g_LocModList
    BY <1>3 DEF FindModule
  <2> QED
    BY <1>1, <1>3, <2>1
<1> QED
  BY <1>2, <1>3

\* FindModule gives a class object of a module that has an entry or is the runtime.
LEMMA FindModuleInv ==
  ASSUME ModuleInv, NEW t \in Thread, NEW m \in Module, FindModule(t, m)
  PROVE  ModuleInv'
<1>1. /\ ModuleTypes /\ ThreadState /\ CountsExact /\ InUseListed
      /\ pc[t] = "idle" /\ mod' = [mod EXCEPT ![t] = m]
      /\ \A u \in Thread : pc[u] \notin {"walk", "unload"}
      /\ UNCHANGED <<g_LocModListLock, handles, objects, op, cursor>>
  BY NobodyWalks DEF ModuleInv, FindModule
<1>2. /\ pc' = [pc EXCEPT ![t] = pc'[t]] /\ pc'[t] \in {"class", "idle", "dlopen"}
      /\ pc'[t] = "class" => Listed(m) # {} \/ m \in Runtime
      /\ pc'[t] = "dlopen" => m \notin Runtime
      /\ g_dllLockCount' =
           IF pc'[t] = "class" THEN [g_dllLockCount EXCEPT ![m] = @ + 1] ELSE g_dllLockCount
  BY <1>1 DEF FindModule, DllGetClassObject, Goto, ModuleTypes
<1>3. Moves(t, pc'[t], m)
  BY <1>1, <1>2 DEF Moves, ModuleTypes
<1>4. ModuleTypes'
  <2>1. g_LocModList' \in Seq(Entry)
    BY <1>1, FindModuleList
  <2>2. g_dllLockCount' \in [Module -> Nat]
    BY <1>1, <1>2 DEF ModuleTypes
  <2>3. idle' \in [Module -> Nat]
    BY <1>1 DEF ModuleTypes, FindModule
  <2>4. pc' \in [Thread -> {"idle", "dlopen", "get", "insert", "class", "release", "walk", "unload"}]
    BY <1>1, <1>2 DEF ModuleTypes
  <2> QED
    BY <1>1, <2>1, <2>2, <2>3, <2>4 DEF ModuleTypes
<1>5. ThreadState'
  BY <1>1, <1>2, <1>3 DEF ThreadState, Moves
<1>6. ASSUME NEW k \in Module
      PROVE  EntriesOf(g_LocModList, k)' = EntriesOf(g_LocModList, k) /\ Listed(k)' = Listed(k)
             /\ Cardinality(EntriesOf(g_LocModList, k)) \in Nat
  <2>1. PICK z : z = g_LocModList'
    OBVIOUS
  <2>2. /\ z \in Seq(Entry) /\ Len(z) = Len(g_LocModList) /\ g_LocModList \in Seq(Entry)
        /\ \A n \in 1 .. Len(g_LocModList) : z[n].module = g_LocModList[n].module
    BY <1>1, <2>1, FindModuleList DEF ModuleTypes
  <2>3. EntriesOf(z, k) = EntriesOf(g_LocModList, k)
    BY <2>2, SameEntries
  <2>4. {n \in DOMAIN z : z[n].module = k} = EntriesOf(z, k)
        /\ {n \in DOMAIN g_LocModList : g_LocModList[n].module = k} = EntriesOf(g_LocModList, k)
    BY <2>2, ListedEntries
  <2>5. Cardinality(EntriesOf(g_LocModList, k)) \in Nat
    BY <2>2, EntriesFinite
  <2> QED
    BY <2>1, <2>3, <2>4, <2>5 DEF EntriesOf, Listed
<1>7. InUseListed'
  <2> SUFFICES ASSUME NEW k \in Module, Used(k)' PROVE k \in Runtime \/ Listed(k)' # {}
    BY DEF InUseListed
  <2>1. Used(k) \/ (k = m /\ pc'[t] = "class")
    BY <1>1, <1>2, <1>3 DEF Used, Moves
  <2> QED
    BY <1>1, <1>2, <1>6, <2>1 DEF InUseListed
<1>8. UnloadState'
  BY <1>1, <1>2, <1>3 DEF UnloadState, Moves
<1>9. CountsExact'
  <2>1. ASSUME NEW k \in Module
        PROVE  /\ handles'[k] = handles[k]
                    + (Cardinality(EntriesOf(g_LocModList, k)') - Cardinality(EntriesOf(g_LocModList, k)))
                    + One(pc'[t], m, LoadAt, k) - One(pc[t], mod[t], LoadAt, k)
               /\ g_dllLockCount'[k] = g_dllLockCount[k] + (objects'[k] - objects[k])
                    + One(pc'[t], m, HoldAt, k) - One(pc[t], mod[t], HoldAt, k)
    BY <1>1, <1>2, <1>6 DEF One, LoadAt, HoldAt, ModuleTypes
  <2> QED
    BY <1>1, <1>3, <1>4, <2>1, CountsKept
<1> QED
  BY <1>4, <1>5, <1>7, <1>8, <1>9 DEF ModuleInv

\* InsertModule turns the thread's own handle into that of an entry.
LEMMA InsertModuleInv ==
  ASSUME ModuleInv, NEW t \in Thread, InsertModule(t)
  PROVE  ModuleInv'
<1>1. /\ ModuleTypes /\ ThreadState /\ CountsExact /\ InUseListed
      /\ pc[t] = "insert" /\ mod[t] \in Module /\ pc' = [pc EXCEPT ![t] = "class"]
      /\ \A u \in Thread : pc[u] \notin {"walk", "unload"}
      /\ idle' = [idle EXCEPT ![mod[t]] = 0]
      /\ UNCHANGED <<g_LocModListLock, handles, g_dllLockCount, objects, mod, op, cursor>>
  BY NobodyWalks DEF ModuleInv, ThreadState, InsertModule, Goto, moduleVars
<1>2. PICK e \in Entry : e = [module |-> mod[t], mAskCount |-> 0]
  BY <1>1 DEF Entry
<1>3. g_LocModList' = <<e>> \o g_LocModList /\ g_LocModList \in Seq(Entry)
  BY <1>1, <1>2 DEF InsertModule, ModuleTypes
<1>4. Moves(t, "class", mod[t])
  BY <1>1 DEF Moves, ModuleTypes
<1>5. ModuleTypes'
  <2>1. g_LocModList' \in Seq(Entry)
    BY <1>3, EntriesInserted
  <2> QED
    BY <1>1, <2>1 DEF ModuleTypes
<1>6. ThreadState'
  BY <1>1, <1>4 DEF ThreadState, Moves
<1>7. ASSUME NEW k \in Module
      PROVE  /\ Cardinality(EntriesOf(g_LocModList, k)') =
                  Cardinality(EntriesOf(g_LocModList, k)) + (IF mod[t] = k THEN 1 ELSE 0)
             /\ Cardinality(EntriesOf(g_LocModList, k)) \in Nat
             /\ Listed(k) # {} \/ mod[t] = k => Listed(k)' # {}
  <2>1. PICK z : z = g_LocModList'
    OBVIOUS
  <2>2. z = <<e>> \o g_LocModList /\ e.module = mod[t]
    BY <1>2, <1>3, <2>1
  <2>3. /\ z \in Seq(Entry)
        /\ Cardinality(EntriesOf(z, k)) =
             Cardinality(EntriesOf(g_LocModList, k)) + (IF e.module = k THEN 1 ELSE 0)
    BY <1>3, <2>2, EntriesInserted
  <2>4. /\ Cardinality(EntriesOf(g_LocModList, k)) \in Nat /\ Cardinality(EntriesOf(z, k)) \in Nat
        /\ Cardinality(EntriesOf(z, k)) = 0 <=> EntriesOf(z, k) = {}
        /\ Cardinality(EntriesOf(g_LocModList, k)) = 0 <=> EntriesOf(g_LocModList, k) = {}
    BY <1>3, <2>3, EntriesFinite
  <2>5. {n \in DOMAIN z : z[n].module = k} = EntriesOf(z, k)
        /\ {n \in DOMAIN g_LocModList : g_LocModList[n].module = k} = EntriesOf(g_LocModList, k)
    BY <1>3, <2>3, ListedEntries
  <2>6. EntriesOf(g_LocModList, k) # {} \/ mod[t] = k => EntriesOf(z, k) # {}
    BY <2>2, <2>3, <2>4
  <2>7. EntriesOf(g_LocModList, k)' = EntriesOf(z, k) /\ Listed(k)' = EntriesOf(z, k)
        /\ Listed(k) = EntriesOf(g_LocModList, k)
    BY <2>1, <2>5 DEF EntriesOf, Listed
  <2> QED
    BY <2>2, <2>3, <2>4, <2>6, <2>7
<1>8. InUseListed'
  <2> SUFFICES ASSUME NEW k \in Module, Used(k)' PROVE k \in Runtime \/ Listed(k)' # {}
    BY DEF InUseListed
  <2>1. Used(k) \/ k = mod[t]
    BY <1>1, <1>4 DEF Used, Moves
  <2> QED
    BY <1>1, <1>7, <2>1 DEF InUseListed
<1>9. UnloadState'
  BY <1>1, <1>4 DEF UnloadState, Moves
<1>10. CountsExact'
  <2>1. ASSUME NEW k \in Module
        PROVE  /\ handles'[k] = handles[k]
                    + (Cardinality(EntriesOf(g_LocModList, k)') - Cardinality(EntriesOf(g_LocModList, k)))
                    + One("class", mod[t], LoadAt, k) - One(pc[t], mod[t], LoadAt, k)
               /\ g_dllLockCount'[k] = g_dllLockCount[k] + (objects'[k] - objects[k])
                    + One("class", mod[t], HoldAt, k) - One(pc[t], mod[t], HoldAt, k)
    BY SMTT(30), <1>1, <1>7 DEF One, LoadAt, HoldAt, ModuleTypes
  <2> QED
    BY <1>1, <1>4, <1>5, <2>1, CountsKept
<1> QED
  BY <1>5, <1>6, <1>8, <1>9, <1>10 DEF ModuleInv

\* StartWalk takes the lock.
LEMMA StartWalkInv ==
  ASSUME ModuleInv, NEW t \in Thread, NEW w, NEW m, StartWalk(t, w, m)
  PROVE  ModuleInv'
<1>1. /\ ModuleTypes /\ ThreadState /\ CountsExact
      /\ pc[t] = "idle" /\ pc' = [pc EXCEPT ![t] = "walk"] /\ g_LocModListLock' = t
      /\ mod' = [mod EXCEPT ![t] = m] /\ cursor' = [cursor EXCEPT ![t] = 1]
      /\ op' = [op EXCEPT ![t] = w]
      /\ \A u \in Thread : pc[u] \notin {"walk", "unload"}
      /\ UNCHANGED <<g_LocModList, handles, g_dllLockCount, objects, idle>>
  BY NobodyWalks DEF ModuleInv, StartWalk, Goto, moduleVars
<1>2. Moves(t, "walk", m)
  BY <1>1 DEF Moves, ModuleTypes
<1>3. ModuleTypes'
  BY <1>1 DEF ModuleTypes
<1>4. ThreadState'
  BY <1>1, <1>2 DEF ThreadState, Moves, ModuleTypes
<1>5. \A k \in Module : Used(k)' => Used(k)
  BY <1>1, <1>2 DEF Used, Moves
<1>6. InUseListed'
  BY <1>1, <1>5 DEF ModuleInv, InUseListed, Listed
<1>7. UnloadState'
  BY <1>1, <1>2 DEF UnloadState, Moves
<1>8. CountsExact'
  <2>1. ASSUME NEW k \in Module
        PROVE  /\ handles'[k] = handles[k]
                    + (Cardinality(EntriesOf(g_LocModList, k)') - Cardinality(EntriesOf(g_LocModList, k)))
                    + One("walk", m, LoadAt, k) - One(pc[t], mod[t], LoadAt, k)
               /\ g_dllLockCount'[k] = g_dllLockCount[k] + (objects'[k] - objects[k])
                    + One("walk", m, HoldAt, k) - One(pc[t], mod[t], HoldAt, k)
    <3>1. EntriesOf(g_LocModList, k)' = EntriesOf(g_LocModList, k)
          /\ Cardinality(EntriesOf(g_LocModList, k)) \in Nat
      BY <1>1, EntriesFinite DEF EntriesOf, ModuleTypes
    <3> QED
      BY <1>1, <3>1 DEF One, LoadAt, HoldAt, ModuleTypes
  <2> QED
    BY <1>1, <1>2, <1>3, <2>1, CountsKept
<1> QED
  BY <1>3, <1>4, <1>6, <1>7, <1>8 DEF ModuleInv

-----------------------------------------------------------------------------
\* What is in the list is an entry.
LEMMA EntryAt ==
  ASSUME ModuleTypes, NEW n \in 1 .. Len(g_LocModList)
  PROVE  g_LocModList[n].module \in Module /\ g_LocModList[n].mAskCount \in Nat
<1>1. g_LocModList[n] \in Entry
  BY DEF ModuleTypes
<1> QED
  BY <1>1 DEF Entry

\* The ends an Ask can have: the walk is over, goes on, or unloads an entry that
\* was found unused, the third time if the walk waits for that.
AskEnd(t) ==
  /\ pc' = [pc EXCEPT ![t] = pc'[t]]
  /\ \/ /\ pc'[t] = "idle" /\ g_LocModListLock' = NoThread
        /\ cursor' = [cursor EXCEPT ![t] = 0] /\ op' = [op EXCEPT ![t] = "none"]
     \/ /\ pc'[t] = "walk" /\ cursor' = [cursor EXCEPT ![t] = @ + 1]
        /\ UNCHANGED <<g_LocModListLock, op>>
     \/ /\ pc'[t] = "unload" /\ cursor[t] <= Len(g_LocModList)
        /\ g_dllLockCount[g_LocModList[cursor[t]].module] = 0
        /\ op[t] = "FreeUnusedModules" =>
             /\ g_LocModList[cursor[t]].mAskCount >= 2
             /\ g_LocModList' = WithAskCount(g_LocModList, cursor[t],
                                             g_LocModList[cursor[t]].mAskCount + 1)
        /\ UNCHANGED <<g_LocModListLock, op, cursor>>

\* What an Ask does to the list: nothing, a reset, or one more ask.
AskList(t) ==
  \/ UNCHANGED <<g_LocModList, idle>>
  \/ /\ cursor[t] <= Len(g_LocModList)
     /\ g_LocModList' = WithAskCount(g_LocModList, cursor[t], 0)
     /\ idle' = [idle EXCEPT ![g_LocModList[cursor[t]].module] = 0]
  \/ /\ cursor[t] <= Len(g_LocModList)
     /\ g_LocModList' = WithAskCount(g_LocModList, cursor[t], g_LocModList[cursor[t]].mAskCount + 1)
     /\ idle' = [idle EXCEPT ![g_LocModList[cursor[t]].module] = IF @ < 3 THEN @ + 1 ELSE @]

\* Each of its cases is one of those.
LEMMA AskStep ==
  ASSUME ModuleTypes, ThreadState, NEW t \in Thread, Ask(t)
  PROVE  AskEnd(t) /\ AskList(t)
<1> DEFINE n == cursor[t]
<1>1. pc[t] = "walk" /\ pc \in [Thread -> {"idle", "dlopen", "get", "insert", "class", "release",
                                           "walk", "unload"}]
      /\ n \in Nat /\ Len(g_LocModList) \in Nat
  BY DEF Ask, ModuleTypes
<1>2. ASSUME EndWalk(t) PROVE AskEnd(t)
  BY <1>1, <1>2 DEF EndWalk, AskEnd, Goto
<1>3. ASSUME NextEntry(t) PROVE AskEnd(t)
  BY <1>1, <1>3 DEF NextEntry, AskEnd
<1>4. CASE n > Len(g_LocModList)
  BY <1>2, <1>4 DEF Ask, AskList
<1>5. CASE ~(n > Len(g_LocModList)) /\ op[t] = "FreeUnusedModule" /\ g_LocModList[n].module # mod[t]
  BY <1>3, <1>5 DEF Ask, AskList
<1>6. CASE /\ ~(n > Len(g_LocModList))
           /\ ~(op[t] = "FreeUnusedModule" /\ g_LocModList[n].module # mod[t])
           /\ g_LocModList[n].module \in Unasked
  BY <1>2, <1>3, <1>6 DEF Ask, AskList
<1>7. CASE /\ ~(n > Len(g_LocModList))
           /\ ~(op[t] = "FreeUnusedModule" /\ g_LocModList[n].module # mod[t])
           /\ g_LocModList[n].module \notin Unasked
  <2>1. n <= Len(g_LocModList)
    BY <1>1, <1>7
  <2>2. CASE g_dllLockCount[g_LocModList[n].module] = 0
    <3>1. NotInUse(t, n)
      BY <1>7, <2>2 DEF Ask
    <3>2. AskList(t)
      BY <2>1, <3>1 DEF NotInUse, SetAskCount, WithAskCount, AskList
    <3>3. CASE op[t] = "CanUnloadAllModules"
               \/ (op[t] = "FreeUnusedModules" /\ g_LocModList[n].mAskCount < 2)
      BY <1>3, <3>1, <3>2, <3>3 DEF NotInUse
    <3>4. CASE ~(op[t] = "CanUnloadAllModules"
               \/ (op[t] = "FreeUnusedModules" /\ g_LocModList[n].mAskCount < 2))
      <4>1. Goto(t, "unload") /\ UNCHANGED <<g_LocModListLock, op, cursor>>
        BY <3>1, <3>4 DEF NotInUse
      <4>2. ASSUME op[t] = "FreeUnusedModules"
            PROVE  /\ g_LocModList[n].mAskCount >= 2
                   /\ g_LocModList' = WithAskCount(g_LocModList, n, g_LocModList[n].mAskCount + 1)
        <5>1. n \in 1 .. Len(g_LocModList)
          BY <1>1, <2>1 DEF ThreadState
        <5>2. g_LocModList[n].mAskCount \in Nat
          BY <5>1, EntryAt
        <5> QED
          BY <3>1, <3>4, <4>2, <5>2 DEF NotInUse, SetAskCount, WithAskCount
      <4> QED
        BY <1>1, <2>1, <2>2, <3>2, <4>1, <4>2 DEF AskEnd, Goto
    <3> QED
      BY <3>3, <3>4
  <2>3. CASE g_dllLockCount[g_LocModList[n].module] # 0
    <3>1. InUse(t, n)
      BY <1>7, <2>3 DEF Ask
    <3>2. AskList(t)
      BY <2>1, <3>1 DEF InUse, SetAskCount, WithAskCount, AskList
    <3> QED
      BY <1>2, <1>3, <3>1, <3>2 DEF InUse
  <2> QED
    BY <2>2, <2>3
<1> QED
  BY <1>4, <1>5, <1>6, <1>7

\* An Ask leaves the entries where they are.
LEMMA AskEntries ==
  ASSUME ModuleTypes, ThreadState, NEW t \in Thread, Ask(t)
  PROVE  /\ g_LocModList' \in Seq(Entry) /\ Len(g_LocModList') = Len(g_LocModList)
         /\ \A k \in 1 .. Len(g_LocModList) : g_LocModList'[k].module = g_LocModList[k].module
         /\ idle' \in [Module -> Nat]
<1>1. /\ g_LocModList \in Seq(Entry) /\ idle \in [Module -> Nat]
      /\ cursor[t] \in Nat /\ cursor[t] # 0 /\ AskList(t)
  BY AskStep DEF ModuleTypes, ThreadState, Ask
<1>2. CASE UNCHANGED <<g_LocModList, idle>>
  BY <1>1, <1>2
<1>3. ASSUME NEW c \in Nat, cursor[t] <= Len(g_LocModList),
             g_LocModList' = WithAskCount(g_LocModList, cursor[t], c)
      PROVE  /\ g_LocModList' \in Seq(Entry) /\ Len(g_LocModList') = Len(g_LocModList)
             /\ \A k \in 1 .. Len(g_LocModList) : g_LocModList'[k].module = g_LocModList[k].module
  <2>1. PICK z : z = g_LocModList'
    OBVIOUS
  <2>2. PICK n \in 1 .. Len(g_LocModList) : n = cursor[t]
    BY <1>1, <1>3
  <2>3. z = WithAskCount(g_LocModList, n, c)
    BY <1>3, <2>1, <2>2
  <2>4. /\ z \in Seq(Entry) /\ Len(z) = Len(g_LocModList)
        /\ \A k \in 1 .. Len(g_LocModList) : z[k].module = g_LocModList[k].module
    BY <1>1, <2>3, AskCountSet
  <2> QED
    BY <2>1, <2>4
<1>4. CASE /\ cursor[t] <= Len(g_LocModList)
           /\ g_LocModList' = WithAskCount(g_LocModList, cursor[t], 0)
           /\ idle' = [idle EXCEPT ![g_LocModList[cursor[t]].module] = 0]
  <2>1. idle' \in [Module -> Nat]
    BY <1>1, <1>4
  <2> QED
    BY <1>3, <1>4, <2>1
<1>5. CASE /\ cursor[t] <= Len(g_LocModList)
           /\ g_LocModList' = WithAskCount(g_LocModList, cursor[t],
                                           g_LocModList[cursor[t]].mAskCount + 1)
           /\ idle' = [idle EXCEPT ![g_LocModList[cursor[t]].module] = IF @ < 3 THEN @ + 1 ELSE @]
  <2>1. g_LocModList[cursor[t]].module \in Module /\ g_LocModList[cursor[t]].mAskCount \in Nat
    BY <1>1, <1>5, EntryAt
  <2>2. idle' \in [Module -> Nat]
    BY <1>1, <1>5, <2>1
  <2>3. g_LocModList[cursor[t]].mAskCount + 1 \in Nat
    BY <2>1
  <2> QED
    BY <1>3, <1>5, <2>2, <2>3
<1> QED
  BY <1>1, <1>2, <1>4, <1>5 DEF AskList

\* What an Ask leaves to be unloaded was answered for by its count, which is exact.
LEMMA AskInv ==
  ASSUME ModuleInv, NEW t \in Thread, Ask(t)
  PROVE  ModuleInv'
<1>1. /\ ModuleTypes /\ ThreadState /\ CountsExact /\ InUseListed
      /\ pc[t] = "walk" /\ g_LocModListLock = t /\ cursor[t] # 0
      /\ UNCHANGED <<handles, g_dllLockCount, objects, mod>>
  BY DEF ModuleInv, ThreadState, Ask, moduleVars
<1>2. AskEnd(t)
  BY <1>1, AskStep
<1>3. /\ pc' = [pc EXCEPT ![t] = pc'[t]] /\ pc'[t] \in {"idle", "walk", "unload"}
      /\ pc'[t] # "idle" => g_LocModListLock' = t /\ cursor'[t] # 0
      /\ pc'[t] = "unload" => /\ cursor[t] <= Len(g_LocModList) /\ cursor'[t] = cursor[t]
                              /\ g_dllLockCount[g_LocModList[cursor[t]].module] = 0
  BY <1>1, <1>2 DEF AskEnd, ModuleTypes
<1>4. Moves(t, pc'[t], mod[t]) /\ \A u \in Thread : u # t => pc[u] \notin {"walk", "unload"}
  BY <1>1, <1>3 DEF Moves, ModuleTypes, ThreadState
<1>5. /\ g_LocModList' \in Seq(Entry) /\ Len(g_LocModList') = Len(g_LocModList)
      /\ \A k \in 1 .. Len(g_LocModList) : g_LocModList'[k].module = g_LocModList[k].module
      /\ idle' \in [Module -> Nat]
  BY <1>1, AskEntries
<1>6. ModuleTypes'
  <2>1. cursor' \in [Thread -> Nat] /\ DOMAIN op' = Thread
    <3>1. CASE cursor' = [cursor EXCEPT ![t] = 0] /\ op' = [op EXCEPT ![t] = "none"]
      BY <1>1, <3>1 DEF ModuleTypes
    <3>2. CASE cursor' = [cursor EXCEPT ![t] = @ + 1] /\ UNCHANGED op
      BY <1>1, <3>2 DEF ModuleTypes
    <3>3. CASE UNCHANGED <<cursor, op>>
      BY <1>1, <3>3 DEF ModuleTypes
    <3> QED
      BY <1>2, <3>1, <3>2, <3>3 DEF AskEnd
  <2>2. pc' \in [Thread -> {"idle", "dlopen", "get", "insert", "class", "release", "walk", "unload"}]
    BY <1>1, <1>3 DEF ModuleTypes
  <2> QED
    BY <1>1, <1>5, <2>1, <2>2 DEF ModuleTypes
<1>7. ThreadState'
  <2>1. ASSUME NEW u \in Thread, pc'[u] \in {"dlopen", "get", "insert", "class", "release"}
        PROVE  u # t /\ pc[u] = pc'[u] /\ mod'[u] = mod[u]
    BY <1>1, <1>3, <1>4, <2>1 DEF Moves
  <2>2. ASSUME NEW u \in Thread, pc'[u] \in {"walk", "unload"} PROVE u = t
    BY <1>4, <2>2 DEF Moves
  <2> QED
    BY <1>1, <1>3, <1>5, <2>1, <2>2 DEF ThreadState
<1>8. \A k \in Module : Used(k)' = Used(k)
  BY <1>1, <1>3, <1>4 DEF Used, Moves
<1>9. ASSUME NEW k \in Module
      PROVE  EntriesOf(g_LocModList, k)' = EntriesOf(g_LocModList, k) /\ Listed(k)' = Listed(k)
             /\ Cardinality(EntriesOf(g_LocModList, k)) \in Nat
  <2>1. PICK z : z = g_LocModList'
    OBVIOUS
  <2>2. /\ z \in Seq(Entry) /\ Len(z) = Len(g_LocModList) /\ g_LocModList \in Seq(Entry)
        /\ \A n \in 1 .. Len(g_LocModList) : z[n].module = g_LocModList[n].module
    BY <1>1, <1>5, <2>1 DEF ModuleTypes
  <2>3. EntriesOf(z, k) = EntriesOf(g_LocModList, k)
    BY <2>2, SameEntries
  <2>4. {n \in DOMAIN z : z[n].module = k} = EntriesOf(z, k)
        /\ {n \in DOMAIN g_LocModList : g_LocModList[n].module = k} = EntriesOf(g_LocModList, k)
    BY <2>2, ListedEntries
  <2>5. Cardinality(EntriesOf(g_LocModList, k)) \in Nat
    BY <2>2, EntriesFinite
  <2> QED
    BY <2>1, <2>3, <2>4, <2>5 DEF EntriesOf, Listed
<1>10. InUseListed'
  BY <1>1, <1>8, <1>9 DEF InUseListed
<1>11. UnloadState'
  <2> SUFFICES ASSUME NEW u \in Thread, pc'[u] = "unload"
               PROVE  ~Used(g_LocModList[cursor[u]].module)'
    BY DEF UnloadState
  <2>1. u = t
    BY <1>4 DEF Moves
  <2>2. PICK m : m = g_LocModList[cursor[t]].module
    OBVIOUS
  <2>3. cursor[t] \in 1 .. Len(g_LocModList)
    BY <1>1, <1>3, <2>1 DEF ModuleTypes
  <2>4. m \in Module /\ g_LocModList'[cursor'[t]].module = m
    BY <1>1, <1>3, <1>5, <2>1, <2>2, <2>3, EntryAt
  <2>5. g_dllLockCount[m] = 0
    BY <1>3, <2>1, <2>2
  <2>6. objects[m] = 0 /\ Cardinality(At(HoldAt, m)) = 0
    <3>1. g_dllLockCount[m] = objects[m] + Cardinality(At(HoldAt, m))
      BY <1>1, <2>4, Counted
    <3>2. objects[m] \in Nat /\ Cardinality(At(HoldAt, m)) \in Nat
      BY <1>1, <2>4, AtCount DEF ModuleTypes
    <3> QED
      BY <2>5, <3>1, <3>2
  <2>7. At(HoldAt, m) = {}
    BY <2>6, AtCount
  <2>8. ~Used(m)
    BY <2>6, <2>7 DEF Used, At, HoldAt
  <2>9. ~Used(m)'
    BY <1>8, <2>4, <2>8
  <2> QED
    BY <2>1, <2>4, <2>9 DEF Used
<1>12. CountsExact'
  <2>1. ASSUME NEW k \in Module
        PROVE  /\ handles'[k] = handles[k]
                    + (Cardinality(EntriesOf(g_LocModList, k)') - Cardinality(EntriesOf(g_LocModList, k)))
                    + One(pc'[t], mod[t], LoadAt, k) - One(pc[t], mod[t], LoadAt, k)
               /\ g_dllLockCount'[k] = g_dllLockCount[k] + (objects'[k] - objects[k])
                    + One(pc'[t], mod[t], HoldAt, k) - One(pc[t], mod[t], HoldAt, k)
    BY <1>1, <1>3, <1>9 DEF One, LoadAt, HoldAt, ModuleTypes
  <2> QED
    BY <1>1, <1>4, <1>6, <2>1, CountsKept
<1> QED
  BY <1>6, <1>7, <1>10, <1>11, <1>12 DEF ModuleInv

\* Unload closes the handle of an entry that goes.  If it was the last one, nothing is
\* lost: the count of the module was 0.
LEMMA UnloadInv ==
  ASSUME ModuleInv, NEW t \in Thread, Unload(t)
  PROVE  ModuleInv'
<1>1. PICK n : n = cursor[t]
  OBVIOUS
<1>2. PICK m : m = g_LocModList[n].module
  OBVIOUS
<1>3. /\ ModuleTypes /\ ThreadState /\ CountsExact /\ InUseListed
      /\ pc[t] = "unload" /\ g_LocModListLock = t /\ n # 0 /\ n \in 1 .. Len(g_LocModList)
      /\ g_LocModList \in Seq(Entry) /\ m \in Module /\ ~Used(m)
      /\ g_LocModList' = RemoveAt(g_LocModList, n) /\ Dlclose(m)
      /\ UNCHANGED <<objects, mod, idle>>
  <2>1. ModuleTypes /\ ThreadState /\ CountsExact /\ InUseListed /\ UnloadState
        /\ pc[t] = "unload" /\ g_LocModList' = RemoveAt(g_LocModList, n) /\ Dlclose(m)
        /\ UNCHANGED <<objects, mod, idle>>
    BY <1>1, <1>2 DEF ModuleInv, Unload
  <2>2. n \in 1 .. Len(g_LocModList) /\ g_LocModList \in Seq(Entry) /\ g_LocModListLock = t /\ n # 0
    BY <1>1, <2>1 DEF ThreadState, ModuleTypes
  <2>3. m \in Module /\ ~Used(m)
    BY <1>1, <1>2, <2>1, <2>2, EntryAt DEF UnloadState
  <2> QED
    BY <2>1, <2>2, <2>3
<1>4. /\ pc' = [pc EXCEPT ![t] = pc'[t]] /\ pc'[t] \in {"idle", "walk"}
      /\ pc'[t] = "walk" => g_LocModListLock' = t /\ cursor'[t] # 0
      /\ cursor' \in [Thread -> Nat] /\ DOMAIN op' = Thread
  <2>1. CASE op[t] = "FreeUnusedModule"
    BY <1>1, <1>3, <2>1 DEF Unload, EndWalk, Goto, ModuleTypes
  <2>2. CASE op[t] # "FreeUnusedModule"
    <3>1. /\ cursor' = [cursor EXCEPT ![t] = IF op[t] = "FreeCurProcComponents" THEN 1 ELSE @]
          /\ pc' = [pc EXCEPT ![t] = "walk"] /\ UNCHANGED <<g_LocModListLock, op>>
      BY <2>2 DEF Unload, Goto
    <3>2. cursor' \in [Thread -> Nat] /\ cursor'[t] # 0
      BY <1>1, <1>3, <3>1 DEF ModuleTypes
    <3> QED
      BY <1>3, <3>1, <3>2 DEF ModuleTypes
  <2> QED
    BY <2>1, <2>2
<1>5. Moves(t, pc'[t], mod[t]) /\ \A u \in Thread : u # t => pc[u] \notin {"walk", "unload"}
  BY <1>3, <1>4 DEF Moves, ModuleTypes, ThreadState
<1>6. ASSUME NEW k \in Module
      PROVE  /\ Cardinality(EntriesOf(g_LocModList, k)') =
                  Cardinality(EntriesOf(g_LocModList, k)) - (IF m = k THEN 1 ELSE 0)
             /\ Cardinality(EntriesOf(g_LocModList, k)) \in Nat
             /\ Cardinality(EntriesOf(g_LocModList, k)') \in Nat
             /\ Listed(k) # {} /\ m # k => Listed(k)' # {}
  <2>1. PICK z : z = g_LocModList'
    OBVIOUS
  <2>2. z = RemoveAt(g_LocModList, n)
    BY <1>3, <2>1
  <2>3. z \in Seq(Entry)
    BY <1>3, <2>2, EntryRemoved
  <2>4. Cardinality(EntriesOf(z, k)) =
             Cardinality(EntriesOf(g_LocModList, k)) - (IF g_LocModList[n].module = k THEN 1 ELSE 0)
    BY <1>3, <2>2, EntriesRemoved
  <2>5. /\ Cardinality(EntriesOf(g_LocModList, k)) \in Nat /\ Cardinality(EntriesOf(z, k)) \in Nat
        /\ Cardinality(EntriesOf(z, k)) = 0 <=> EntriesOf(z, k) = {}
        /\ Cardinality(EntriesOf(g_LocModList, k)) = 0 <=> EntriesOf(g_LocModList, k) = {}
    BY <1>3, <2>3, EntriesFinite
  <2>6. {i \in DOMAIN z : z[i].module = k} = EntriesOf(z, k)
        /\ {i \in DOMAIN g_LocModList : g_LocModList[i].module = k} = EntriesOf(g_LocModList, k)
    BY <1>3, <2>3, ListedEntries
  <2>7. EntriesOf(g_LocModList, k)' = EntriesOf(z, k) /\ Listed(k)' = EntriesOf(z, k)
        /\ Listed(k) = EntriesOf(g_LocModList, k)
    BY <2>1, <2>6 DEF EntriesOf, Listed
  <2> QED
    BY <1>2, <2>4, <2>5, <2>7
<1>7. /\ handles' = [handles EXCEPT ![m] = @ - 1] /\ handles[m] \in Nat \ {0}
      /\ UNCHANGED g_dllLockCount
  <2>1. /\ handles[m] = Cardinality(EntriesOf(g_LocModList, m)) + Cardinality(At(LoadAt, m))
        /\ g_dllLockCount[m] = objects[m] + Cardinality(At(HoldAt, m))
    BY <1>3, Counted
  <2>2. Cardinality(EntriesOf(g_LocModList, m)) \in Nat \ {0}
    <3>1. n \in EntriesOf(g_LocModList, m)
      BY <1>2, <1>3 DEF EntriesOf
    <3> QED
      BY <1>3, <3>1, EntriesFinite
  <2>3. Cardinality(At(LoadAt, m)) \in Nat
    BY AtCount
  <2>4. handles[m] \in Nat \ {0}
    BY <2>1, <2>2, <2>3
  <2>5. CASE handles[m] = 1
    <3>1. Cardinality(At(LoadAt, m)) = 0
      BY <2>1, <2>2, <2>3, <2>5
    <3>2. At(LoadAt, m) = {}
      BY <3>1, AtCount
    <3>3. At(HoldAt, m) = {} /\ objects[m] = 0
      BY <1>3, <3>2 DEF At, HoldAt, LoadAt, Used
    <3>4. Cardinality(At(HoldAt, m)) = 0
      BY <3>3, AtCount
    <3>5. g_dllLockCount[m] = 0
      BY <2>1, <3>3, <3>4
    <3>6. [g_dllLockCount EXCEPT ![m] = 0] = g_dllLockCount
      BY <1>3, <3>5 DEF ModuleTypes
    <3> QED
      BY <1>3, <2>4, <2>5, <3>6 DEF Dlclose
  <2>6. CASE handles[m] # 1
    <3>1. [g_dllLockCount EXCEPT ![m] = @] = g_dllLockCount
      BY <1>3 DEF ModuleTypes
    <3> QED
      BY <1>3, <2>4, <2>6, <3>1 DEF Dlclose
  <2> QED
    BY <2>5, <2>6
<1>8. ModuleTypes'
  <2>1. g_LocModList' \in Seq(Entry)
    BY <1>3, EntryRemoved
  <2>2. handles' \in [Module -> Nat]
    BY <1>3, <1>7 DEF ModuleTypes
  <2>3. pc' \in [Thread -> {"idle", "dlopen", "get", "insert", "class", "release", "walk", "unload"}]
    BY <1>3, <1>4 DEF ModuleTypes
  <2> QED
    BY <1>3, <1>4, <1>7, <2>1, <2>2, <2>3 DEF ModuleTypes
<1>9. ThreadState'
  <2>1. ASSUME NEW u \in Thread, pc'[u] \in {"dlopen", "get", "insert", "class", "release"}
        PROVE  u # t /\ pc[u] = pc'[u] /\ mod'[u] = mod[u]
    BY <1>4, <1>5, <2>1 DEF Moves
  <2>2. ASSUME NEW u \in Thread, pc'[u] \in {"walk", "unload"} PROVE u = t
    BY <1>5, <2>2 DEF Moves
  <2> QED
    BY <1>3, <1>4, <2>1, <2>2 DEF ThreadState
<1>10. \A k \in Module : Used(k)' = Used(k)
  BY <1>3, <1>4, <1>5 DEF Used, Moves
<1>11. InUseListed'
  BY <1>3, <1>6, <1>10 DEF InUseListed
<1>12. UnloadState'
  BY <1>4, <1>5 DEF UnloadState, Moves
<1>13. CountsExact'
  <2>1. ASSUME NEW k \in Module
        PROVE  /\ handles'[k] = handles[k]
                    + (Cardinality(EntriesOf(g_LocModList, k)') - Cardinality(EntriesOf(g_LocModList, k)))
                    + One(pc'[t], mod[t], LoadAt, k) - One(pc[t], mod[t], LoadAt, k)
               /\ g_dllLockCount'[k] = g_dllLockCount[k] + (objects'[k] - objects[k])
                    + One(pc'[t], mod[t], HoldAt, k) - One(pc[t], mod[t], HoldAt, k)
    <3>1. /\ One(pc'[t], mod[t], LoadAt, k) = 0 /\ One(pc[t], mod[t], LoadAt, k) = 0
          /\ One(pc'[t], mod[t], HoldAt, k) = 0 /\ One(pc[t], mod[t], HoldAt, k) = 0
      BY <1>3, <1>4 DEF One, LoadAt, HoldAt
    <3>2. handles'[k] = handles[k] - (IF m = k THEN 1 ELSE 0) /\ handles[k] \in Nat
          /\ g_dllLockCount[k] \in Nat /\ objects[k] \in Nat
      BY <1>3, <1>7 DEF ModuleTypes
    <3> QED
      BY <1>3, <1>6, <1>7, <3>1, <3>2
  <2> QED
    BY <1>3, <1>5, <1>8, <2>1, CountsKept
<1> QED
  BY <1>8, <1>9, <1>11, <1>12, <1>13 DEF ModuleInv

-----------------------------------------------------------------------------
\* A module in use has an entry in the list, or is the runtime, or is being loaded by
\* its user; what is being unloaded is not in use; and the counts are exact.
THEOREM ModuleInvariant == Spec => []ModuleInv
<1>1. Init => ModuleInv
  <2> SUFFICES ASSUME Init PROVE ModuleInv
    OBVIOUS
  <2>1. ModuleTypes /\ ThreadState
    BY DEF Init, ModuleTypes, ThreadState
  <2>2. InUseListed /\ UnloadState
    BY DEF Init, InUseListed, UnloadState, Used
  <2>3. CountsExact
    <3> SUFFICES ASSUME NEW m \in Module
                 PROVE  /\ handles[m] = Cardinality(Listed(m))
                             + Cardinality({t \in Thread : pc[t] \in {"get", "insert"} /\ mod[t] = m})
                        /\ g_dllLockCount[m] = objects[m] + Cardinality(ClassHolders(m))
      BY DEF CountsExact
    <3>1. Listed(m) = {} /\ ClassHolders(m) = {}
          /\ {t \in Thread : pc[t] \in {"get", "insert"} /\ mod[t] = m} = {}
      BY DEF Init, Listed, ClassHolders
    <3>2. Cardinality({}) = 0
      BY FS_EmptySet
    <3>3. handles[m] = 0 /\ g_dllLockCount[m] = 0 /\ objects[m] = 0
      BY DEF Init
    <3> QED
      BY <3>1, <3>2, <3>3
  <2> QED
    BY <2>1, <2>2, <2>3 DEF ModuleInv
<1>2. ModuleInv /\ [Next]_vars => ModuleInv'
  <2> SUFFICES ASSUME ModuleInv, [Next]_vars PROVE ModuleInv'
    OBVIOUS
  <2>1. ASSUME NEW t \in Thread, Work(t) PROVE ModuleInv'
    BY <2>1, DlopenInv, GetClassObjectInv, InsertModuleInv, CreateObjectInv, StayResidentInv,
       ReleaseClassObjectInv, AskInv, UnloadInv DEF Work
  <2>2. ASSUME NEW t \in Thread, NEW m \in Module, FindModule(t, m) PROVE ModuleInv'
    BY <2>2, FindModuleInv
  <2>3. ASSUME NEW t \in Thread, NEW w \in Walks, NEW m \in Module \cup {NoModule},
               StartWalk(t, w, m)
        PROVE  ModuleInv'
    BY <2>3, StartWalkInv
  <2>4. ASSUME NEW m \in Module, ReleaseObject(m) PROVE ModuleInv'
    BY <2>4, ReleaseObjectInv
  <2>5. CASE UNCHANGED vars
    <3>1. UNCHANGED <<g_LocModList, g_LocModListLock, handles, g_dllLockCount, objects, idle,
                      pc, mod, op, cursor>>
      BY <2>5 DEF vars, listVars, moduleVars, threadVars
    <3>2. ModuleTypes' /\ ThreadState'
      BY <3>1 DEF ModuleInv, ModuleTypes, ThreadState
    <3>3. InUseListed' /\ UnloadState'
      BY <3>1 DEF ModuleInv, InUseListed, UnloadState, Used, Listed
    <3>4. CountsExact'
      BY <3>1 DEF ModuleInv, CountsExact, Listed, ClassHolders
    <3> QED
      BY <3>2, <3>3, <3>4 DEF ModuleInv
  <2> QED
    BY <2>1, <2>2, <2>3, <2>4, <2>5 DEF Next
<1> QED
  BY <1>1, <1>2, PTL DEF Spec

\* However loads, unloads and loads again interleave, every dlopen is undone once and the
\* count a module answers DllCanUnloadNow from is that of its users.
THEOREM Counts == Spec => []CountsExact
<1>1. ModuleInv => CountsExact
  BY DEF ModuleInv
<1> QED
  BY <1>1, ModuleInvariant, PTL

\* No object, no class object and no load outlives the code of its module.
THEOREM NothingUsedGoes == Spec => []UsedIsMapped
<1>1. ModuleInv => UsedIsMapped
  <2> SUFFICES ASSUME ModuleInv PROVE UsedIsMapped
    OBVIOUS
  <2>1. ASSUME NEW t \in Thread, pc[t] \in LoadAt PROVE mod[t] \in Module /\ Mapped(mod[t])
    <3>1. mod[t] \in Module
      BY <2>1 DEF ModuleInv, ThreadState, LoadAt
    <3>2. handles[mod[t]] >= 1 + Cardinality(EntriesOf(g_LocModList, mod[t]))
      BY <2>1, <3>1, OwnCounted DEF ModuleInv
    <3>3. Cardinality(EntriesOf(g_LocModList, mod[t])) \in Nat /\ handles[mod[t]] \in Nat
      BY <3>1, EntriesFinite DEF ModuleInv, ModuleTypes
    <3> QED
      BY <3>1, <3>2, <3>3 DEF Mapped
  <2>2. ASSUME NEW m \in Module, Used(m) PROVE Mapped(m)
    <3>1. CASE m \in Runtime
      BY <3>1 DEF Mapped
    <3>2. CASE m \notin Runtime
      <4>1. Listed(m) # {}
        BY <2>2, <3>2 DEF ModuleInv, InUseListed
      <4>2. EntriesOf(g_LocModList, m) # {}
        BY <4>1, ListedEntries DEF ModuleInv, ModuleTypes, Listed
      <4>3. Cardinality(EntriesOf(g_LocModList, m)) \in Nat \ {0} /\ Cardinality(At(LoadAt, m)) \in Nat
        BY <4>2, EntriesFinite, AtCount DEF ModuleInv, ModuleTypes
      <4>4. handles[m] = Cardinality(EntriesOf(g_LocModList, m)) + Cardinality(At(LoadAt, m))
        BY Counted DEF ModuleInv
      <4> QED
        BY <4>3, <4>4 DEF Mapped
    <3> QED
      BY <3>1, <3>2
  <2>3. ASSUME NEW m \in Module, objects[m] > 0 \/ ClassHolders(m) # {} PROVE Mapped(m)
    <3>1. CASE \E t \in Thread : mod[t] = m /\ pc[t] = "insert"
      BY <2>1, <3>1 DEF LoadAt
    <3>2. CASE ~\E t \in Thread : mod[t] = m /\ pc[t] = "insert"
      <4>1. Used(m)
        BY <2>3, <3>2 DEF Used, ClassHolders
      <4> QED
        BY <2>2, <4>1
    <3> QED
      BY <3>1, <3>2
  <2>4. \A t \in Thread : pc[t] = "get" => Mapped(mod[t])
    BY <2>1 DEF LoadAt
  <2> QED
    BY <2>3, <2>4 DEF UsedIsMapped
<1> QED
  BY <1>1, ModuleInvariant, PTL

-----------------------------------------------------------------------------
\* The asks are kept by a step that leaves the list and its walks alone and takes no
\* handle for a thread.
LEMMA RecentKept ==
  ASSUME ModuleTypes, OnceState, AskState, UNCHANGED <<g_LocModList, raced, idle>>,
         \A m \in Module : Loaders(m)' \subseteq Loaders(m),
         \A t \in Thread : pc'[t] = "unload" =>
           pc[t] = "unload" /\ op'[t] = op[t] /\ cursor'[t] = cursor[t]
  PROVE  OnceState' /\ AskState'
<1>1. OnceState'
  <2> SUFFICES ASSUME NEW m \in Module \ raced
               PROVE  /\ \A i, j \in Listed(m)' : i = j
                      /\ \A t \in Loaders(m)' : Listed(m)' = {} /\ Loaders(m)' = {t}
    BY DEF OnceState
  <2>1. Listed(m)' = Listed(m) /\ Loaders(m)' \subseteq Loaders(m)
    BY DEF Listed
  <2>2. /\ \A i, j \in Listed(m) : i = j
        /\ \A t \in Loaders(m) : Listed(m) = {} /\ Loaders(m) = {t}
    BY DEF OnceState
  <2> QED
    BY <2>1, <2>2
<1>2. AskState'
  BY DEF AskState
<1> QED
  BY <1>1, <1>2

\* Dlopen of a module that is loaded or being loaded is what raced remembers.
LEMMA DlopenRecent ==
  ASSUME ModuleInv, OnceState, AskState, NEW t \in Thread, Dlopen(t)
  PROVE  OnceState' /\ AskState'
<1>1. /\ ModuleTypes /\ pc[t] = "dlopen" /\ mod[t] \in Module
      /\ UNCHANGED <<g_LocModList, mod, op, cursor, idle>>
  BY DEF ModuleInv, ThreadState, Dlopen, listVars
<1>2. CASE pc' = [pc EXCEPT ![t] = "idle"] /\ UNCHANGED raced
  <2>1. \A m \in Module : Loaders(m)' \subseteq Loaders(m)
    BY <1>1, <1>2 DEF Loaders, ModuleTypes
  <2>2. \A u \in Thread : pc'[u] = "unload" =>
          pc[u] = "unload" /\ op'[u] = op[u] /\ cursor'[u] = cursor[u]
    BY <1>1, <1>2 DEF ModuleTypes
  <2> QED
    BY <1>1, <1>2, <2>1, <2>2, RecentKept
<1>3. CASE /\ pc' = [pc EXCEPT ![t] = "get"]
           /\ raced' = IF Loading(mod[t]) \ {t} # {} \/ Listed(mod[t]) # {}
                       THEN raced \cup {mod[t]} ELSE raced
  <2>1. OnceState'
    <3> SUFFICES ASSUME NEW m \in Module \ raced'
                 PROVE  /\ \A i, j \in Listed(m)' : i = j
                        /\ \A u \in Loaders(m)' : Listed(m)' = {} /\ Loaders(m)' = {u}
      BY DEF OnceState
    <3>1. m \notin raced /\ Listed(m)' = Listed(m)
      BY <1>1, <1>3 DEF Listed
    <3>2. /\ \A i, j \in Listed(m) : i = j
          /\ \A u \in Loaders(m) : Listed(m) = {} /\ Loaders(m) = {u}
      BY <3>1 DEF OnceState
    <3>3. CASE m = mod[t]
      <4>1. Loading(m) \ {t} = {} /\ Listed(m) = {}
        BY <1>3, <3>3
      <4>2. Loaders(m)' = {t}
        BY <1>1, <1>3, <3>3, <4>1 DEF Loaders, Loading, ModuleTypes
      <4> QED
        BY <3>1, <4>1, <4>2
    <3>4. CASE m # mod[t]
      <4>1. Loaders(m)' = Loaders(m)
        BY <1>1, <1>3, <3>4 DEF Loaders, ModuleTypes
      <4> QED
        BY <3>1, <3>2, <4>1
    <3> QED
      BY <3>3, <3>4
  <2>2. AskState'
    <3>1. raced \subseteq raced'
      BY <1>3
    <3>2. \A u \in Thread : pc'[u] = "unload" => pc[u] = "unload"
      BY <1>1, <1>3 DEF ModuleTypes
    <3> QED
      BY <1>1, <3>1, <3>2 DEF AskState
  <2> QED
    BY <2>1, <2>2
<1> QED
  BY <1>2, <1>3 DEF Dlopen, Goto

\* FindModule resets the count of the first entry, which is the only one of a module
\* that was not loaded twice.
LEMMA FindModuleRecent ==
  ASSUME ModuleInv, OnceState, AskState, NEW t \in Thread, NEW m \in Module, FindModule(t, m)
  PROVE  OnceState' /\ AskState'
<1>1. /\ ModuleTypes /\ ModuleTypes' /\ pc[t] = "idle" /\ mod' = [mod EXCEPT ![t] = m]
      /\ \A u \in Thread : pc[u] \notin {"walk", "unload"}
      /\ UNCHANGED <<op, cursor, raced>>
  BY FindModuleInv, NobodyWalks DEF ModuleInv, FindModule
<1>2. pc' = [pc EXCEPT ![t] = pc'[t]] /\ pc'[t] \in {"class", "idle", "dlopen"}
  BY <1>1 DEF FindModule, DllGetClassObject, Goto, ModuleTypes
<1>3. /\ Len(g_LocModList') = Len(g_LocModList)
      /\ \A k \in 1 .. Len(g_LocModList) :
              /\ g_LocModList'[k].module = g_LocModList[k].module
              /\ g_LocModList'[k].mAskCount =
                   IF Listed(m) # {} /\ k = First(Listed(m)) THEN 0 ELSE g_LocModList[k].mAskCount
  BY <1>1, FindModuleList
<1>4. g_LocModList \in Seq(Entry) /\ g_LocModList' \in Seq(Entry)
  BY <1>1 DEF ModuleTypes
<1>5. \A k \in Module : Listed(k)' = Listed(k) /\ Loaders(k)' = Loaders(k)
  <2>1. \A k \in Module : Listed(k)' = Listed(k)
    <3>1. \A k \in Module : Listed(k) = EntriesOf(g_LocModList, k)
      BY <1>4, ListedEntries DEF Listed
    <3>2. \A k \in Module : Listed(k)' = EntriesOf(g_LocModList, k)'
      BY <1>4 DEF Listed, EntriesOf
    <3>3. \A k \in Module : EntriesOf(g_LocModList, k)' = EntriesOf(g_LocModList, k)
      BY <1>3 DEF EntriesOf
    <3> QED
      BY <3>1, <3>2, <3>3
  <2>2. \A k \in Module : Loaders(k)' = Loaders(k)
    BY <1>1, <1>2 DEF Loaders, ModuleTypes
  <2> QED
    BY <2>1, <2>2
<1>6. OnceState'
  <2> SUFFICES ASSUME NEW k \in Module \ raced
               PROVE  /\ \A i, j \in Listed(k)' : i = j
                      /\ \A u \in Loaders(k)' : Listed(k)' = {} /\ Loaders(k)' = {u}
    BY <1>1 DEF OnceState
  <2>1. /\ \A i, j \in Listed(k) : i = j
        /\ \A u \in Loaders(k) : Listed(k) = {} /\ Loaders(k) = {u}
    BY DEF OnceState
  <2> QED
    BY <1>5, <2>1
<1>7. AskState'
  <2>1. ASSUME NEW n \in 1 .. Len(g_LocModList), g_LocModList[n].module \in Module \ raced
        PROVE  \/ g_LocModList'[n].mAskCount <= idle'[g_LocModList[n].module]
               \/ idle'[g_LocModList[n].module] >= 3
    <3>1. g_LocModList[n].module \in Module /\ g_LocModList[n].mAskCount \in Nat
          /\ idle \in [Module -> Nat]
      BY <1>1, EntryAt DEF ModuleTypes
    <3>2. \/ g_LocModList[n].mAskCount <= idle[g_LocModList[n].module]
          \/ idle[g_LocModList[n].module] >= 3
      BY <2>1 DEF AskState
    <3>3. CASE g_LocModList[n].module = m
      <4>1. n \in Listed(m) /\ Listed(m) # {} /\ Listed(m) \in SUBSET Nat
        BY <1>4, <3>3 DEF Listed
      <4>2. First(Listed(m)) = n
        BY <2>1, <3>3, <4>1, FirstOf DEF OnceState
      <4>3. g_LocModList'[n].mAskCount = 0
        BY <1>3, <4>1, <4>2
      <4>4. idle'[m] = 0
        BY <3>1, <4>1 DEF FindModule
      <4> QED
        BY <3>3, <4>3, <4>4
    <3>4. CASE g_LocModList[n].module # m
      <4>1. g_LocModList'[n].mAskCount = g_LocModList[n].mAskCount
        <5>1. Listed(m) # {} => First(Listed(m)) \in Listed(m)
          <6>1. Listed(m) \in SUBSET Nat
            BY <1>4 DEF Listed
          <6> QED
            BY <6>1, FirstOf
        <5>2. Listed(m) # {} => n # First(Listed(m))
          BY <3>4, <5>1 DEF Listed
        <5> QED
          BY <1>3, <5>2
      <4>2. idle'[g_LocModList[n].module] = idle[g_LocModList[n].module]
        <5>1. idle' = idle \/ idle' = [idle EXCEPT ![m] = 0]
          BY DEF FindModule
        <5> QED
          BY <3>1, <3>4, <5>1
      <4> QED
        BY <3>2, <4>1, <4>2
    <3> QED
      BY <3>3, <3>4
  <2>2. \A u \in Thread : pc'[u] # "unload"
    BY <1>1, <1>2 DEF ModuleTypes
  <2> QED
    BY <1>1, <1>3, <2>1, <2>2 DEF AskState
<1> QED
  BY <1>6, <1>7

\* InsertModule puts a new entry, never asked, where there was none.
LEMMA InsertModuleRecent ==
  ASSUME ModuleInv, OnceState, AskState, NEW t \in Thread, InsertModule(t)
  PROVE  OnceState' /\ AskState'
<1>1. /\ ModuleTypes /\ ModuleTypes' /\ pc[t] = "insert" /\ mod[t] \in Module
      /\ pc' = [pc EXCEPT ![t] = "class"] /\ \A u \in Thread : pc[u] \notin {"walk", "unload"}
      /\ idle' = [idle EXCEPT ![mod[t]] = 0]
      /\ UNCHANGED <<mod, op, cursor, raced>>
  BY InsertModuleInv, NobodyWalks DEF ModuleInv, ThreadState, InsertModule, Goto
<1>2. PICK e \in Entry : e = [module |-> mod[t], mAskCount |-> 0]
  BY <1>1 DEF Entry
<1>3. PICK z : z = g_LocModList'
  OBVIOUS
<1>4. PICK s : s = g_LocModList
  OBVIOUS
<1>5. /\ z = <<e>> \o s /\ s \in Seq(Entry)
  BY <1>1, <1>2, <1>3, <1>4 DEF InsertModule, ModuleTypes
<1>6. /\ z \in Seq(Entry) /\ Len(z) = Len(s) + 1 /\ z[1] = e
      /\ \A n \in 2 .. Len(z) : n - 1 \in 1 .. Len(s) /\ z[n] = s[n - 1]
  BY <1>5
<1>7. e.module = mod[t] /\ e.mAskCount = 0
  BY <1>2
<1>8. /\ \A k : Listed(k)' = EntriesOf(z, k)
      /\ \A k : Listed(k) = EntriesOf(s, k)
  BY <1>3, <1>4, <1>5, <1>6 DEF Listed, EntriesOf
<1>9. t \in Loaders(mod[t])
  BY <1>1 DEF Loaders
<1>10. OnceState'
  <2> SUFFICES ASSUME NEW k \in Module \ raced
               PROVE  /\ \A i, j \in Listed(k)' : i = j
                      /\ \A u \in Loaders(k)' : Listed(k)' = {} /\ Loaders(k)' = {u}
    BY <1>1 DEF OnceState
  <2>1. /\ \A i, j \in EntriesOf(s, k) : i = j
        /\ \A u \in Loaders(k) : EntriesOf(s, k) = {} /\ Loaders(k) = {u}
    BY <1>8 DEF OnceState
  <2>2. CASE k = mod[t]
    <3>1. EntriesOf(s, k) = {} /\ Loaders(k) = {t}
      BY <1>9, <2>1, <2>2
    <3>2. \A i \in EntriesOf(z, k) : i = 1
      <4> SUFFICES ASSUME NEW i \in EntriesOf(z, k), i # 1 PROVE FALSE
        OBVIOUS
      <4>1. i \in 2 .. Len(z) /\ z[i].module = k
        BY <1>6 DEF EntriesOf
      <4>2. i - 1 \in EntriesOf(s, k)
        BY <1>6, <4>1 DEF EntriesOf
      <4> QED
        BY <3>1, <4>2
    <3>3. Loaders(k)' = {}
      BY <1>1, <2>2, <3>1 DEF Loaders, ModuleTypes
    <3> QED
      BY <1>8, <3>2, <3>3
  <2>3. CASE k # mod[t]
    <3>1. Loaders(k)' = Loaders(k)
      BY <1>1, <2>3 DEF Loaders, ModuleTypes
    <3>2. \A i \in EntriesOf(z, k) : i \in Int /\ i - 1 \in EntriesOf(s, k)
      <4> SUFFICES ASSUME NEW i \in EntriesOf(z, k) PROVE i \in Int /\ i - 1 \in EntriesOf(s, k)
        OBVIOUS
      <4>1. i \in 2 .. Len(z) /\ z[i].module = k
        BY <1>6, <1>7, <2>3 DEF EntriesOf
      <4> QED
        BY <1>6, <4>1 DEF EntriesOf
    <3>3. \A i, j \in EntriesOf(z, k) : i = j
      <4> SUFFICES ASSUME NEW i \in EntriesOf(z, k), NEW j \in EntriesOf(z, k) PROVE i = j
        OBVIOUS
      <4>1. i \in Int /\ j \in Int /\ i - 1 = j - 1
        BY <2>1, <3>2
      <4> QED
        BY <4>1
    <3> QED
      BY <1>8, <2>1, <3>1, <3>2, <3>3
  <2> QED
    BY <2>2, <2>3
<1>11. AskState'
  <2>1. ASSUME NEW n \in 1 .. Len(z), z[n].module \in Module \ raced
        PROVE  z[n].mAskCount <= idle'[z[n].module] \/ idle'[z[n].module] >= 3
    <3>1. CASE n = 1
      BY <1>1, <1>6, <1>7, <3>1 DEF ModuleTypes
    <3>2. CASE n # 1
      <4>1. n \in 2 .. Len(z) /\ n - 1 \in 1 .. Len(s) /\ z[n] = s[n - 1]
        BY <1>6, <3>2
      <4>2. s[n - 1].mAskCount <= idle[s[n - 1].module] \/ idle[s[n - 1].module] >= 3
        BY <1>4, <2>1, <4>1 DEF AskState
      <4>3. z[n].module # mod[t]
        <5>1. mod[t] \notin raced => EntriesOf(s, mod[t]) = {}
          BY <1>1, <1>8, <1>9 DEF OnceState
        <5> QED
          BY <2>1, <4>1, <5>1 DEF EntriesOf
      <4>4. idle'[z[n].module] = idle[z[n].module]
        BY <1>1, <2>1, <4>3 DEF ModuleTypes
      <4> QED
        BY <4>1, <4>2, <4>4
    <3> QED
      BY <3>1, <3>2
  <2>2. \A u \in Thread : pc'[u] # "unload"
    BY <1>1 DEF ModuleTypes
  <2> QED
    BY <1>1, <1>3, <2>1, <2>2 DEF AskState
<1> QED
  BY <1>10, <1>11

\* An Ask counts the idle module in both places, and what FreeUnusedModules leaves to
\* be unloaded it has asked three times.
LEMMA AskRecent ==
  ASSUME ModuleInv, OnceState, AskState, NEW t \in Thread, Ask(t)
  PROVE  OnceState' /\ AskState'
<1>1. /\ ModuleTypes /\ ThreadState /\ ModuleTypes' /\ pc[t] = "walk" /\ cursor[t] # 0
      /\ UNCHANGED <<mod, raced>>
  BY AskInv DEF ModuleInv, ThreadState, Ask
<1>2. AskEnd(t) /\ AskList(t)
  BY <1>1, AskStep
<1>3. /\ pc' = [pc EXCEPT ![t] = pc'[t]] /\ pc'[t] \in {"idle", "walk", "unload"}
      /\ \A u \in Thread : u # t => pc[u] \notin {"walk", "unload"}
  <2>1. pc' = [pc EXCEPT ![t] = pc'[t]] /\ pc'[t] \in {"idle", "walk", "unload"}
    BY <1>2 DEF AskEnd
  <2>2. \A u \in Thread : u # t => pc[u] \notin {"walk", "unload"}
    BY <1>1 DEF ThreadState
  <2> QED
    BY <2>1, <2>2
<1>4. PICK z : z = g_LocModList'
  OBVIOUS
<1>5. PICK s : s = g_LocModList
  OBVIOUS
<1>6. PICK n : n = cursor[t]
  OBVIOUS
<1>7. /\ s \in Seq(Entry) /\ z \in Seq(Entry) /\ Len(z) = Len(s)
      /\ \A k \in 1 .. Len(s) : z[k].module = s[k].module
      /\ n \in Nat \ {0}
  BY <1>1, <1>4, <1>5, <1>6, AskEntries DEF ModuleTypes
<1>8. \A k : Listed(k)' = Listed(k)
  <2>1. \A k : EntriesOf(z, k) = EntriesOf(s, k)
    BY <1>7, SameEntries
  <2>2. \A k : Listed(k)' = EntriesOf(z, k) /\ Listed(k) = EntriesOf(s, k)
    BY <1>4, <1>5, <1>7 DEF Listed, EntriesOf
  <2> QED
    BY <2>1, <2>2
<1>9. \A k : Loaders(k)' = Loaders(k)
  BY <1>1, <1>3 DEF Loaders, ModuleTypes
<1>10. OnceState'
  <2> SUFFICES ASSUME NEW k \in Module \ raced
               PROVE  /\ \A i, j \in Listed(k)' : i = j
                      /\ \A u \in Loaders(k)' : Listed(k)' = {} /\ Loaders(k)' = {u}
    BY <1>1 DEF OnceState
  <2>1. /\ \A i, j \in Listed(k) : i = j
        /\ \A u \in Loaders(k) : Listed(k) = {} /\ Loaders(k) = {u}
    BY DEF OnceState
  <2> QED
    BY <1>8, <1>9, <2>1
<1>11. ASSUME NEW k \in 1 .. Len(s), s[k].module \in Module \ raced
       PROVE  z[k].mAskCount <= idle'[s[k].module] \/ idle'[s[k].module] >= 3
  <2>1. /\ s[k].mAskCount \in Nat /\ s[k].module \in Module /\ idle \in [Module -> Nat]
        /\ s[k].mAskCount <= idle[s[k].module] \/ idle[s[k].module] >= 3
    BY <1>1, <1>5, <1>11, EntryAt DEF AskState, ModuleTypes
  <2>2. CASE UNCHANGED <<g_LocModList, idle>>
    BY <1>4, <1>5, <2>1, <2>2
  <2>3. CASE /\ n <= Len(s) /\ z = WithAskCount(s, n, 0) /\ idle' = [idle EXCEPT ![s[n].module] = 0]
    <3>1. n \in 1 .. Len(s)
      BY <1>7, <2>3
    <3>2. z[k].mAskCount = IF k = n THEN 0 ELSE s[k].mAskCount
      <4>1. s \in Seq(Entry) /\ 0 \in Nat
        BY <1>7
      <4>2. \A i \in 1 .. Len(s) :
              WithAskCount(s, n, 0)[i].mAskCount = IF i = n THEN 0 ELSE s[i].mAskCount
        BY ZenonT(30), <3>1, <4>1, AskCountSet
      <4> QED
        BY <2>3, <4>2
    <3>3. CASE k = n
      <4>1. idle'[s[k].module] = 0
        BY <2>1, <2>3, <3>3
      <4> QED
        BY <3>2, <3>3, <4>1
    <3>4. CASE k # n
      <4>1. s[k].module # s[n].module
        <5>1. s[k].module = s[n].module =>
                k \in Listed(s[k].module) /\ n \in Listed(s[k].module)
          BY <1>5, <1>7, <1>11, <3>1 DEF Listed
        <5>2. \A i, j \in Listed(s[k].module) : i = j
          BY <1>11 DEF OnceState
        <5> QED
          BY <3>4, <5>1, <5>2
      <4>2. idle'[s[k].module] = idle[s[k].module]
        BY <2>1, <2>3, <4>1
      <4> QED
        BY <2>1, <3>2, <3>4, <4>2
    <3> QED
      BY <3>3, <3>4
  <2>4. CASE /\ n <= Len(s) /\ z = WithAskCount(s, n, s[n].mAskCount + 1)
             /\ idle' = [idle EXCEPT ![s[n].module] = IF @ < 3 THEN @ + 1 ELSE @]
    <3>1. n \in 1 .. Len(s)
      BY <1>7, <2>4
    <3>2. s[n].mAskCount \in Nat /\ s[n].module \in Module
      BY <1>1, <1>5, <3>1, EntryAt
    <3>3. PICK c \in Nat : c = s[n].mAskCount + 1
      BY <3>2
    <3>4. z[k].mAskCount = IF k = n THEN c ELSE s[k].mAskCount
      BY <1>7, <2>4, <3>1, <3>3, AskCountSet
    <3>5. idle'[s[k].module] >= idle[s[k].module] /\ idle'[s[k].module] \in Nat
          /\ (k = n => idle'[s[k].module] = idle[s[k].module] + 1 \/ idle'[s[k].module] >= 3)
      BY <2>1, <2>4, <3>2
    <3> QED
      BY <2>1, <3>3, <3>4, <3>5
  <2> QED
    BY <1>2, <1>4, <1>5, <1>6, <2>2, <2>3, <2>4 DEF AskList
<1>12. ASSUME NEW u \in Thread, pc'[u] = "unload", op'[u] = "FreeUnusedModules"
       PROVE  z[cursor'[u]].mAskCount >= 3
  <2>1. u = t /\ pc'[t] = "unload"
    BY <1>1, <1>3, <1>12 DEF ModuleTypes
  <2>2. n <= Len(s) /\ cursor'[t] = n /\ op'[t] = op[t]
        /\ (op[t] = "FreeUnusedModules" =>
             s[n].mAskCount >= 2 /\ z = WithAskCount(s, n, s[n].mAskCount + 1))
    BY <1>2, <1>4, <1>5, <1>6, <2>1 DEF AskEnd
  <2>3. n \in 1 .. Len(s) /\ s[n].mAskCount >= 2 /\ z = WithAskCount(s, n, s[n].mAskCount + 1)
    BY <1>7, <1>12, <2>1, <2>2
  <2>4. s[n].mAskCount \in Nat
    BY <1>1, <1>5, <2>3, EntryAt
  <2>5. PICK c \in Nat : c = s[n].mAskCount + 1
    BY <2>4
  <2>6. z[n].mAskCount = c
    BY <1>7, <2>3, <2>5, AskCountSet
  <2> QED
    BY <2>1, <2>2, <2>3, <2>4, <2>5, <2>6
<1>13. AskState'
  BY <1>1, <1>4, <1>5, <1>7, <1>11, <1>12 DEF AskState
<1> QED
  BY <1>10, <1>13

\* Unload only takes an entry away.
LEMMA UnloadRecent ==
  ASSUME ModuleInv, OnceState, AskState, NEW t \in Thread, Unload(t)
  PROVE  OnceState' /\ AskState'
<1>1. PICK n : n = cursor[t]
  OBVIOUS
<1>2. PICK z : z = g_LocModList'
  OBVIOUS
<1>3. PICK s : s = g_LocModList
  OBVIOUS
<1>4. /\ ModuleTypes /\ ThreadState /\ pc[t] = "unload" /\ n \in 1 .. Len(s)
      /\ s \in Seq(Entry) /\ z = RemoveAt(s, n)
      /\ UNCHANGED <<mod, raced, idle>>
  BY <1>1, <1>2, <1>3 DEF ModuleInv, ThreadState, ModuleTypes, Unload
<1>5. /\ pc' = [pc EXCEPT ![t] = pc'[t]] /\ pc'[t] \in {"idle", "walk"}
  BY <1>4 DEF Unload, EndWalk, Goto, ModuleTypes
<1>6. \A u \in Thread : pc'[u] # "unload"
  BY <1>4, <1>5 DEF ModuleTypes, ThreadState
<1>7. \A k : Loaders(k)' = Loaders(k)
  BY <1>4, <1>5 DEF Loaders, ModuleTypes
<1>8. /\ z \in Seq(Entry) /\ Len(z) = Len(s) - 1
      /\ \A i \in 1 .. Len(s) - 1 : z[i] = s[IF i < n THEN i ELSE i + 1]
  BY <1>4, EntryRemoved
<1>9. \A i \in 1 .. Len(z) : (IF i < n THEN i ELSE i + 1) \in 1 .. Len(s)
                             /\ z[i] = s[IF i < n THEN i ELSE i + 1]
  BY <1>4, <1>8
<1>10. \A k : Listed(k)' = EntriesOf(z, k) /\ Listed(k) = EntriesOf(s, k)
  BY <1>2, <1>3, <1>4, <1>8 DEF Listed, EntriesOf
<1>11. ASSUME NEW k, NEW i \in EntriesOf(z, k)
       PROVE  (IF i < n THEN i ELSE i + 1) \in EntriesOf(s, k)
  BY <1>9, <1>11 DEF EntriesOf
<1>12. OnceState'
  <2> SUFFICES ASSUME NEW k \in Module \ raced
               PROVE  /\ \A i, j \in Listed(k)' : i = j
                      /\ \A u \in Loaders(k)' : Listed(k)' = {} /\ Loaders(k)' = {u}
    BY <1>4 DEF OnceState
  <2>1. /\ \A i, j \in EntriesOf(s, k) : i = j
        /\ \A u \in Loaders(k) : EntriesOf(s, k) = {} /\ Loaders(k) = {u}
    BY <1>10 DEF OnceState
  <2>2. ASSUME NEW i \in EntriesOf(z, k), NEW j \in EntriesOf(z, k) PROVE i = j
    <3>1. (IF i < n THEN i ELSE i + 1) = (IF j < n THEN j ELSE j + 1)
      BY <1>11, <2>1
    <3>2. i \in Nat /\ j \in Nat /\ n \in Nat
      BY <1>4 DEF EntriesOf
    <3> QED
      BY <3>1, <3>2
  <2>3. EntriesOf(s, k) = {} => EntriesOf(z, k) = {}
    BY <1>11
  <2> QED
    BY <1>7, <1>10, <2>1, <2>2, <2>3
<1>13. AskState'
  <2>1. ASSUME NEW i \in 1 .. Len(z), z[i].module \in Module \ raced
        PROVE  z[i].mAskCount <= idle[z[i].module] \/ idle[z[i].module] >= 3
    BY <1>3, <1>9, <2>1 DEF AskState
  <2> QED
    BY <1>2, <1>4, <1>6, <2>1 DEF AskState
<1> QED
  BY <1>12, <1>13

\* FreeUnusedModules(FALSE) unmaps a module only after it was found idle three times in
\* succession since a class was last asked of it, unless two threads loaded it at once.
THEOREM ThreeStrikes == Spec => RecentlyUsedStays
<1>1. Init => OnceState /\ AskState
  BY DEF Init, OnceState, AskState, Listed, Loaders
<1>2. ModuleInv /\ OnceState /\ AskState /\ [Next]_vars => OnceState' /\ AskState'
  <2> SUFFICES ASSUME ModuleInv, OnceState, AskState, [Next]_vars PROVE OnceState' /\ AskState'
    OBVIOUS
  <2>1. ModuleTypes
    BY DEF ModuleInv
  <2>2. ASSUME NEW t \in Thread, Work(t) PROVE OnceState' /\ AskState'
    <3>1. CASE GetClassObject(t)
      <4>1. /\ pc[t] = "get" /\ pc' = [pc EXCEPT ![t] = pc'[t]] /\ pc'[t] \in {"insert", "idle"}
            /\ UNCHANGED <<g_LocModList, mod, op, cursor, raced, idle>>
        BY <2>1, <3>1 DEF GetClassObject, Goto, ModuleTypes, listVars
      <4>2. \A m \in Module : Loaders(m)' \subseteq Loaders(m)
        BY <2>1, <4>1 DEF Loaders, ModuleTypes
      <4>3. \A u \in Thread : pc'[u] = "unload" =>
              pc[u] = "unload" /\ op'[u] = op[u] /\ cursor'[u] = cursor[u]
        BY <2>1, <4>1 DEF ModuleTypes
      <4> QED
        BY <2>1, <4>1, <4>2, <4>3, RecentKept
    <3>2. CASE CreateObject(t) \/ ReleaseClassObject(t)
      <4>1. /\ pc' = [pc EXCEPT ![t] = pc'[t]] /\ pc'[t] \in {"release", "idle"}
            /\ UNCHANGED <<g_LocModList, mod, op, cursor, raced, idle>>
        BY <2>1, <3>2 DEF CreateObject, ReleaseClassObject, Goto, ModuleTypes, listVars
      <4>2. \A m \in Module : Loaders(m)' \subseteq Loaders(m)
        BY <2>1, <4>1 DEF Loaders, ModuleTypes
      <4>3. \A u \in Thread : pc'[u] = "unload" =>
              pc[u] = "unload" /\ op'[u] = op[u] /\ cursor'[u] = cursor[u]
        BY <2>1, <4>1 DEF ModuleTypes
      <4> QED
        BY <2>1, <4>1, <4>2, <4>3, RecentKept
    <3>3. CASE StayResident(t)
      <4>1. UNCHANGED <<g_LocModList, pc, mod, op, cursor, raced, idle>>
        BY <3>3 DEF StayResident, listVars, threadVars
      <4>2. \A k \in Module : Loaders(k)' \subseteq Loaders(k)
        BY <4>1 DEF Loaders
      <4> QED
        BY <2>1, <4>1, <4>2, RecentKept
    <3> QED
      BY <2>2, <3>1, <3>2, <3>3, DlopenRecent, InsertModuleRecent, AskRecent, UnloadRecent DEF Work
  <2>3. ASSUME NEW t \in Thread, NEW m \in Module, FindModule(t, m) PROVE OnceState' /\ AskState'
    BY <2>3, FindModuleRecent
  <2>4. ASSUME NEW t \in Thread, NEW w \in Walks, NEW m \in Module \cup {NoModule},
               StartWalk(t, w, m)
        PROVE  OnceState' /\ AskState'
    <3>1. /\ pc[t] = "idle" /\ pc' = [pc EXCEPT ![t] = "walk"] /\ mod' = [mod EXCEPT ![t] = m]
          /\ \A u \in Thread : pc[u] # "unload"
          /\ UNCHANGED <<g_LocModList, raced, idle>>
      BY <2>4, NobodyWalks DEF ModuleInv, StartWalk, Goto
    <3>2. \A k \in Module : Loaders(k)' \subseteq Loaders(k)
      BY <2>1, <3>1 DEF Loaders, ModuleTypes
    <3>3. \A u \in Thread : pc'[u] # "unload"
      BY <2>1, <3>1 DEF ModuleTypes
    <3> QED
      BY <2>1, <3>1, <3>2, <3>3, RecentKept
  <2>5. ASSUME NEW m \in Module, ReleaseObject(m) PROVE OnceState' /\ AskState'
    <3>1. UNCHANGED <<g_LocModList, pc, mod, op, cursor, raced, idle>>
      BY <2>5 DEF ReleaseObject, listVars, threadVars
    <3>2. \A k \in Module : Loaders(k)' \subseteq Loaders(k)
      BY <3>1 DEF Loaders
    <3> QED
      BY <2>1, <3>1, <3>2, RecentKept
  <2>6. CASE UNCHANGED vars
    <3>1. UNCHANGED <<g_LocModList, pc, mod, op, cursor, raced, idle>>
      BY <2>6 DEF vars, listVars, threadVars
    <3>2. \A k \in Module : Loaders(k)' \subseteq Loaders(k)
      BY <3>1 DEF Loaders
    <3> QED
      BY <2>1, <3>1, <3>2, RecentKept
  <2> QED
    BY <2>2, <2>3, <2>4, <2>5, <2>6 DEF Next
<1>3. ModuleInv /\ AskState =>
        \A t \in Thread : pc[t] = "unload" /\ op[t] = "FreeUnusedModules" /\ Unload(t) =>
          LET m == g_LocModList[cursor[t]].module IN
          handles'[m] = 0 /\ m \notin raced => idle[m] >= 3
  <2> SUFFICES ASSUME ModuleInv, AskState, NEW t \in Thread, pc[t] = "unload",
                      op[t] = "FreeUnusedModules", g_LocModList[cursor[t]].module \notin raced
               PROVE  idle[g_LocModList[cursor[t]].module] >= 3
    OBVIOUS
  <2>1. PICK n : n = cursor[t]
    OBVIOUS
  <2>2. ModuleTypes /\ n \in 1 .. Len(g_LocModList)
    BY <2>1 DEF ModuleInv, ThreadState, ModuleTypes
  <2>3. g_LocModList[n].module \in Module /\ g_LocModList[n].mAskCount \in Nat
        /\ idle[g_LocModList[n].module] \in Nat
    BY <2>2, EntryAt DEF ModuleTypes
  <2>4. g_LocModList[n].mAskCount >= 3
        /\ \/ g_LocModList[n].mAskCount <= idle[g_LocModList[n].module]
           \/ idle[g_LocModList[n].module] >= 3
    BY <2>1, <2>2, <2>3 DEF AskState
  <2> QED
    BY <2>1, <2>3, <2>4
<1> QED
  BY <1>1, <1>2, <1>3, ModuleInvariant, PTL DEF Spec, RecentlyUsedStays
=============================================================================

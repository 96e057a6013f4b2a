------------------------------ MODULE ElRefBase ------------------------------
(***************************************************************************)
(* One ElRefBase object and its WeakRefImpl, and the references ("handles")*)
(* that the threads of a process take on it and drop.  A handle is one     *)
(* AutoPtr or one WeakReferenceImpl; the operation in progress on a handle *)
(* is its pc, and every access to a shared counter is a step of its own,   *)
(* so that operations on different handles interleave as threads do.       *)
(*                                                                         *)
(* While an operation copies a handle, the copied handle (src) stays held: *)
(* that is the C++ discipline every caller of AddRef follows.              *)
(***************************************************************************)
EXTENDS Integers, FiniteSets

CONSTANTS
  Ref,                   \* the handles threads may hold at the same time
  NoRef,                 \* "no handle"
  INITIAL_STRONG_VALUE,  \* the strong count of an object never strongly held
  AtomicAdd,             \* TRUE: _android build. FALSE: atomic_add and
                         \* atomic_or of elaatomics.cpp do nothing
  WeakFromRaw            \* may the creator hand out a weak handle before the
                         \* first strong one?

ASSUME RefAssumption ==
  /\ IsFiniteSet(Ref)
  /\ NoRef \notin Ref
  /\ INITIAL_STRONG_VALUE \in Nat
  /\ INITIAL_STRONG_VALUE > Cardinality(Ref)
  /\ AtomicAdd \in BOOLEAN
  /\ WeakFromRaw \in BOOLEAN

OBJECT_LIFETIME_STRONG == 0
OBJECT_LIFETIME_WEAK   == 1

VARIABLES
  mStrong, mWeak, mFlags,  \* WeakRefImpl's fields
  base,                    \* the object itself: "live" or "deleted"
  refs,                    \* the WeakRefImpl: "live" or "deleted"
  raw,                     \* the creator's bare pointer: "unused" or "used"
  pc,                      \* the operation in progress on each handle
  src,                     \* the handle an operation copies, kept held
  cur,                     \* curCount of AttemptIncStrong / AttemptIncWeak
  firstCalls, lastCalls    \* calls of OnFirstRef, OnLastStrongRef: 0, 1, 2+

vars == <<mStrong, mWeak, mFlags, base, refs, raw, pc, src, cur,
          firstCalls, lastCalls>>

Labels == {"none", "strong", "weak",             \* at rest
           "incStrong", "forceIncStrong",        \* mWeak counted, mStrong not
           "firstAdd", "onFirstRef",             \* it took the first strong
           "onLastStrongRef", "decWeak", "onLastWeakRef",
           "readStrong", "cmpxchgStrong", "ask", "attemptInc",
           "cmpxchgWeak"}

Held(h)   == pc[h] \in {"strong", "weak"}
Source(h) == \E g \in Ref : src[g] = h

\* The call counters are history: they tell none, one and several apart.
OneMore(n) == IF n < 2 THEN n + 1 ELSE n

(***************************************************************************)
(* Steps of the operations.  Goto moves handle h on; Return also gives up  *)
(* the handle it was copied from.                                          *)
(***************************************************************************)
Goto(h, label) == pc' = [pc EXCEPT ![h] = label] /\ UNCHANGED src

Return(h, label) ==
  /\ pc' = [pc EXCEPT ![h] = label]
  /\ src' = [src EXCEPT ![h] = NoRef]

\* The handle a new one is copied from: a held one whose kind is allowed, or
\* the creator's bare pointer, which is good for one use.
CopyFrom(h, kinds, rawAllowed, label) ==
  /\ pc[h] = "none"
  /\ pc' = [pc EXCEPT ![h] = label]
  /\ \/ \E s \in Ref : /\ pc[s] \in kinds
                       /\ src' = [src EXCEPT ![h] = s]
                       /\ UNCHANGED raw
     \/ raw = "unused" /\ rawAllowed /\ raw' = "used" /\ UNCHANGED src

\* IncStrong: IncWeak, then the strong count, then what a first strong
\* reference owes.
IncStrong(h) ==
  /\ CopyFrom(h, {"strong"}, TRUE, "incStrong")
  /\ mWeak' = mWeak + 1
  /\ UNCHANGED <<mStrong, mFlags, base, refs, cur, firstCalls, lastCalls>>

IncStrongCount(h) ==
  /\ pc[h] = "incStrong"
  /\ mStrong' = mStrong + 1
  /\ IF mStrong = INITIAL_STRONG_VALUE THEN Goto(h, "firstAdd") ELSE Return(h, "strong")
  /\ UNCHANGED <<mWeak, mFlags, base, refs, raw, cur, firstCalls, lastCalls>>

\* ForceIncStrong also takes an object whose strong count fell to 0.
ForceIncStrong(h) ==
  /\ CopyFrom(h, {"strong"} \cup (IF mFlags = OBJECT_LIFETIME_WEAK THEN {"weak"} ELSE {}),
              TRUE, "forceIncStrong")
  /\ mWeak' = mWeak + 1
  /\ UNCHANGED <<mStrong, mFlags, base, refs, cur, firstCalls, lastCalls>>

ForceIncStrongCount(h) ==
  /\ pc[h] = "forceIncStrong"
  /\ mStrong' = mStrong + 1
  /\ CASE mStrong = INITIAL_STRONG_VALUE -> Goto(h, "firstAdd")
       [] mStrong = 0                    -> Goto(h, "onFirstRef")
       [] OTHER                          -> Return(h, "strong")
  /\ UNCHANGED <<mWeak, mFlags, base, refs, raw, cur, firstCalls, lastCalls>>

\* Mutant: OnFirstRef is forgotten.
FirstAddNoHook(h) ==
  /\ pc[h] = "firstAdd"
  /\ mStrong' = IF AtomicAdd THEN mStrong - INITIAL_STRONG_VALUE ELSE mStrong
  /\ Return(h, "strong")
  /\ UNCHANGED <<mWeak, mFlags, base, refs, raw, cur, firstCalls, lastCalls>>

\* atomic_add(-INITIAL_STRONG_VALUE, &mStrong) as this build defines it.
FirstAdd(h) ==
  /\ pc[h] = "firstAdd"
  /\ mStrong' = IF AtomicAdd THEN mStrong - INITIAL_STRONG_VALUE ELSE mStrong
  /\ Goto(h, "onFirstRef")
  /\ UNCHANGED <<mWeak, mFlags, base, refs, raw, cur, firstCalls, lastCalls>>

OnFirstRef(h) ==
  /\ pc[h] = "onFirstRef"
  /\ firstCalls' = OneMore(firstCalls)
  /\ Return(h, "strong")
  /\ UNCHANGED <<mStrong, mWeak, mFlags, base, refs, raw, cur, lastCalls>>

\* The destructor frees the WeakRefImpl only if the object was never strongly
\* held or has the longer lifetime.
DeleteBase ==
  /\ base' = "deleted"
  /\ refs' = IF \/ mStrong = INITIAL_STRONG_VALUE
                \/ mFlags # OBJECT_LIFETIME_STRONG /\ mWeak = 0
             THEN "deleted" ELSE refs

\* Mutant: the count before the decrement is taken for the one after it.
DecStrongOldCount(h) ==
  /\ pc[h] = "strong" /\ ~Source(h)
  /\ mStrong' = mStrong - 1
  /\ Goto(h, IF mStrong = 0 THEN "onLastStrongRef" ELSE "decWeak")
  /\ UNCHANGED <<mWeak, mFlags, base, refs, raw, cur, firstCalls, lastCalls>>

DecStrong(h) ==
  /\ pc[h] = "strong" /\ ~Source(h)
  /\ mStrong' = mStrong - 1
  /\ Goto(h, IF mStrong = 1 THEN "onLastStrongRef" ELSE "decWeak")
  /\ UNCHANGED <<mWeak, mFlags, base, refs, raw, cur, firstCalls, lastCalls>>

\* Mutant: the object is deleted without its hook.
OnLastStrongRefSkipped(h) ==
  /\ pc[h] = "onLastStrongRef"
  /\ IF mFlags = OBJECT_LIFETIME_STRONG THEN DeleteBase ELSE UNCHANGED <<base, refs>>
  /\ Goto(h, "decWeak")
  /\ UNCHANGED <<mStrong, mWeak, mFlags, raw, cur, firstCalls, lastCalls>>

OnLastStrongRef(h) ==
  /\ pc[h] = "onLastStrongRef"
  /\ lastCalls' = OneMore(lastCalls)
  /\ IF mFlags = OBJECT_LIFETIME_STRONG THEN DeleteBase ELSE UNCHANGED <<base, refs>>
  /\ Goto(h, "decWeak")
  /\ UNCHANGED <<mStrong, mWeak, mFlags, raw, cur, firstCalls>>

\* Mutants: the last weak reference is taken to be the one before it, or missed.
DecWeakEarly(h) ==
  /\ \/ pc[h] = "decWeak"
     \/ pc[h] = "weak" /\ ~Source(h)
  /\ mWeak' = mWeak - 1
  /\ Return(h, IF mWeak = 2 THEN "onLastWeakRef" ELSE "none")
  /\ UNCHANGED <<mStrong, mFlags, base, refs, raw, cur, firstCalls, lastCalls>>

DecWeakOldCount(h) ==
  /\ \/ pc[h] = "decWeak"
     \/ pc[h] = "weak" /\ ~Source(h)
  /\ mWeak' = mWeak - 1
  /\ Return(h, IF mWeak = 0 THEN "onLastWeakRef" ELSE "none")
  /\ UNCHANGED <<mStrong, mFlags, base, refs, raw, cur, firstCalls, lastCalls>>

\* Dropping a weak handle, or the weak count every strong handle carries.
DecWeak(h) ==
  /\ \/ pc[h] = "decWeak"
     \/ pc[h] = "weak" /\ ~Source(h)
  /\ mWeak' = mWeak - 1
  /\ Return(h, IF mWeak = 1 THEN "onLastWeakRef" ELSE "none")
  /\ UNCHANGED <<mStrong, mFlags, base, refs, raw, cur, firstCalls, lastCalls>>

\* Mutant: the last weak reference leaves the WeakRefImpl to the destructor.
OnLastWeakRefLeaks(h) ==
  /\ pc[h] = "onLastWeakRef"
  /\ IF mFlags = OBJECT_LIFETIME_STRONG /\ mStrong # INITIAL_STRONG_VALUE
     THEN UNCHANGED <<base, refs>> ELSE DeleteBase
  /\ Goto(h, "none")
  /\ UNCHANGED <<mStrong, mWeak, mFlags, raw, cur, firstCalls, lastCalls>>

OnLastWeakRef(h) ==
  /\ pc[h] = "onLastWeakRef"
  /\ IF mFlags = OBJECT_LIFETIME_STRONG /\ mStrong # INITIAL_STRONG_VALUE
     THEN refs' = "deleted" /\ UNCHANGED base
     ELSE DeleteBase
  /\ Goto(h, "none")
  /\ UNCHANGED <<mStrong, mWeak, mFlags, raw, cur, firstCalls, lastCalls>>

CreateWeak(h) ==
  /\ pc[h] = "none"
  /\ \/ (\E s \in Ref : Held(s)) /\ UNCHANGED raw
     \/ raw = "unused" /\ WeakFromRaw /\ raw' = "used"
  /\ mWeak' = mWeak + 1
  /\ Goto(h, "weak")
  /\ UNCHANGED <<mStrong, mFlags, base, refs, cur, firstCalls, lastCalls>>

\* AttemptIncStrong, WeakReferenceImpl::Resolve's way from a weak handle to a
\* strong one.
AttemptIncStrong(h) ==
  /\ CopyFrom(h, {"weak"}, FALSE, "readStrong")
  /\ mWeak' = mWeak + 1
  /\ UNCHANGED <<mStrong, mFlags, base, refs, cur, firstCalls, lastCalls>>

\* Mutant: a count of 0 is incremented like any other.
ReadStrongZero(h) ==
  /\ pc[h] = "readStrong"
  /\ cur' = [cur EXCEPT ![h] = mStrong]
  /\ Goto(h, IF mStrong >= 0 /\ mStrong # INITIAL_STRONG_VALUE THEN "cmpxchgStrong" ELSE "ask")
  /\ UNCHANGED <<mStrong, mWeak, mFlags, base, refs, raw, firstCalls, lastCalls>>

ReadStrong(h) ==
  /\ pc[h] = "readStrong"
  /\ cur' = [cur EXCEPT ![h] = mStrong]
  /\ Goto(h, IF mStrong > 0 /\ mStrong # INITIAL_STRONG_VALUE THEN "cmpxchgStrong" ELSE "ask")
  /\ UNCHANGED <<mStrong, mWeak, mFlags, base, refs, raw, firstCalls, lastCalls>>

\* Mutant: a plain store instead of the compare-and-exchange.
StoreStrong(h) ==
  /\ pc[h] = "cmpxchgStrong"
  /\ mStrong' = cur[h] + 1
  /\ Return(h, "strong")
  /\ UNCHANGED <<mWeak, mFlags, base, refs, raw, cur, firstCalls, lastCalls>>

CmpxchgStrong(h) ==
  /\ pc[h] = "cmpxchgStrong"
  /\ IF mStrong = cur[h]
     THEN mStrong' = mStrong + 1 /\ Return(h, "strong")
     ELSE UNCHANGED mStrong /\ Goto(h, "readStrong")
  /\ UNCHANGED <<mWeak, mFlags, base, refs, raw, cur, firstCalls, lastCalls>>

\* Mutant: the lifetime is not consulted.
AskAlwaysAllows(h) ==
  /\ pc[h] = "ask"
  /\ Goto(h, "attemptInc")
  /\ UNCHANGED <<mStrong, mWeak, mFlags, base, refs, raw, cur, firstCalls, lastCalls>>

\* Is a first strong reference, or a revival, allowed?  OnIncStrongAttempted
\* says yes to FIRST_INC_STRONG, the only flag it is asked about.
Ask(h) ==
  LET allow == (cur[h] = INITIAL_STRONG_VALUE) \/ (mFlags = OBJECT_LIFETIME_WEAK)
  IN  /\ pc[h] = "ask"
      /\ Goto(h, IF allow THEN "attemptInc" ELSE "decWeak")
      /\ UNCHANGED <<mStrong, mWeak, mFlags, base, refs, raw, cur, firstCalls, lastCalls>>

AttemptInc(h) ==
  /\ pc[h] = "attemptInc"
  /\ mStrong' = mStrong + 1
  /\ lastCalls' = IF 0 < mStrong /\ mStrong < INITIAL_STRONG_VALUE
                  THEN OneMore(lastCalls) ELSE lastCalls
  /\ IF mStrong = INITIAL_STRONG_VALUE THEN Goto(h, "firstAdd") ELSE Return(h, "strong")
  /\ UNCHANGED <<mWeak, mFlags, base, refs, raw, cur, firstCalls>>

AttemptIncWeak(h) ==
  /\ CopyFrom(h, {"strong", "weak"}, FALSE, "cmpxchgWeak")
  /\ cur' = [cur EXCEPT ![h] = mWeak]
  /\ UNCHANGED <<mStrong, mWeak, mFlags, base, refs, firstCalls, lastCalls>>

CmpxchgWeak(h) ==
  /\ pc[h] = "cmpxchgWeak"
  /\ IF cur[h] <= 0 THEN Return(h, "none") /\ UNCHANGED <<mWeak, cur>>
     ELSE IF mWeak = cur[h] THEN Return(h, "weak") /\ mWeak' = mWeak + 1 /\ UNCHANGED cur
     ELSE Goto(h, "cmpxchgWeak") /\ cur' = [cur EXCEPT ![h] = mWeak] /\ UNCHANGED mWeak
  /\ UNCHANGED <<mStrong, mFlags, base, refs, raw, firstCalls, lastCalls>>

\* Only the creator extends the lifetime, before it publishes the object.
ExtendObjectLifetime ==
  /\ raw = "unused"
  /\ mFlags' = IF AtomicAdd THEN OBJECT_LIFETIME_WEAK ELSE mFlags
  /\ UNCHANGED <<mStrong, mWeak, base, refs, raw, pc, src, cur, firstCalls, lastCalls>>

Init ==
  /\ mStrong = INITIAL_STRONG_VALUE
  /\ mWeak = 0
  /\ mFlags = OBJECT_LIFETIME_STRONG
  /\ base = "live" /\ refs = "live"
  /\ raw = "unused"
  /\ pc = [h \in Ref |-> "none"]
  /\ src = [h \in Ref |-> NoRef]
  /\ cur = [h \in Ref |-> 0]
  /\ firstCalls = 0 /\ lastCalls = 0

\* One step of the operation in progress on h.
Continue(h) ==
  \/ IncStrongCount(h) \/ ForceIncStrongCount(h) \/ FirstAdd(h) \/ OnFirstRef(h)
  \/ OnLastStrongRef(h) \/ OnLastWeakRef(h)
  \/ ReadStrong(h) \/ CmpxchgStrong(h) \/ Ask(h) \/ AttemptInc(h) \/ CmpxchgWeak(h)

Next ==
  \/ ExtendObjectLifetime
  \/ \E h \in Ref :
       \/ IncStrong(h) \/ ForceIncStrong(h) \/ CreateWeak(h)
       \/ AttemptIncStrong(h) \/ AttemptIncWeak(h)
       \/ DecStrong(h) \/ DecWeak(h)
       \/ Continue(h)

Spec == Init /\ [][Next]_vars

-----------------------------------------------------------------------------
\* Type correctness of the counters, the flags and the operations in progress.
TypeOK ==
  /\ mStrong \in Int /\ mWeak \in Int
  /\ mFlags \in {OBJECT_LIFETIME_STRONG, OBJECT_LIFETIME_WEAK}
  /\ base \in {"live", "deleted"} /\ refs \in {"live", "deleted"}
  /\ raw \in {"unused", "used"}
  /\ pc \in [Ref -> Labels]
  /\ src \in [Ref -> Ref \cup {NoRef}]
  /\ cur \in [Ref -> Int]
  /\ firstCalls \in 0..2 /\ lastCalls \in 0..2

\* The handles whose next step, or whose holder, dereferences the object.
UsesBase(h) ==
  \/ pc[h] \in {"strong", "incStrong", "forceIncStrong", "firstAdd", "onFirstRef",
                "onLastStrongRef"}
  \/ pc[h] \in {"ask", "attemptInc"} /\ mFlags = OBJECT_LIFETIME_WEAK
  \/ pc[h] = "onLastWeakRef" /\ (mFlags = OBJECT_LIFETIME_WEAK
                                \/ mStrong = INITIAL_STRONG_VALUE)

\* No step and no holder of a strong handle reaches a deleted object, and no
\* step and no holder of any handle reaches a deleted WeakRefImpl, whatever
\* the interleaving of AddRef, Release, Resolve and weak copies.  A second
\* delete is a use as well.
NoUseAfterFree ==
  \A h \in Ref : /\ pc[h] # "none" => refs = "live"
                 /\ UsesBase(h)    => base = "live"

\* When the last handle of either kind is gone, both the object and its
\* WeakRefImpl have been freed.
NoLeak ==
  (raw = "used" /\ \A h \in Ref : pc[h] = "none") => base = "deleted" /\ refs = "deleted"

\* An object of regular lifetime sees OnFirstRef once and OnLastStrongRef
\* once, the latter before it is deleted: the proxies send RELEASE to their
\* stub from OnLastStrongRef.
HooksOnce ==
  mFlags = OBJECT_LIFETIME_STRONG =>
    /\ firstCalls <= 1 /\ lastCalls <= firstCalls
    /\ base = "deleted" => lastCalls = 1

\* "The object is destroyed when the last strong reference goes away": an
\* object of regular lifetime with no strong handle left, and none being
\* taken or dropped, is deleted, even if weak handles remain.
DestroyedWithLastStrong ==
  (/\ mFlags = OBJECT_LIFETIME_STRONG /\ raw = "used"
   /\ \A h \in Ref : pc[h] \in {"none", "weak", "readStrong", "cmpxchgStrong", "ask",
                               "cmpxchgWeak"})
    => base = "deleted"

\* A revival is "allowed if the object DOES have a longer lifetime": with the
\* regular lifetime a strong count that fell to 0 never rises again.
NoRevival ==
  [][mFlags = OBJECT_LIFETIME_STRONG /\ mStrong = 0 => mStrong' <= 0]_vars

-----------------------------------------------------------------------------
\* ElRefBase implements ObjectLifetime: a handle is a holder once the AddRef or
\* Resolve that made it has returned.
Lifetime == INSTANCE ObjectLifetime WITH
  holders   <- {h \in Ref : pc[h] = "strong"},
  phase     <- IF base = "deleted" THEN "gone" ELSE IF firstCalls = 0 THEN "new" ELSE "live",
  revivable <- (mFlags = OBJECT_LIFETIME_WEAK)

\* Every behaviour of the counters is one of ObjectLifetime: strong holders
\* never see the object go, and Resolve never brings a dead object back.
ImplementsLifetime == Lifetime!LSpec

-----------------------------------------------------------------------------
(***************************************************************************)
(* The inductive invariant.                                                *)
(***************************************************************************)
\* The handles counted in mWeak and in mStrong.
WeakCounted   == {h \in Ref : pc[h] \notin {"none", "onLastWeakRef", "cmpxchgWeak"}}
StrongCounted == {h \in Ref : pc[h] \in {"strong", "firstAdd", "onFirstRef"}}

\* INITIAL_STRONG_VALUE has not been subtracted.
Unsubtracted == mStrong >= INITIAL_STRONG_VALUE

\* mWeak counts the handles, mStrong the strong ones.
CountsExact ==
  /\ mWeak = Cardinality(WeakCounted)
  /\ mStrong = Cardinality(StrongCounted) + (IF Unsubtracted THEN INITIAL_STRONG_VALUE ELSE 0)

\* h is taking its strong reference from the creator's bare pointer.
Starting(h) ==
  \/ pc[h] \in {"incStrong", "forceIncStrong"} /\ src[h] = NoRef
  \/ pc[h] = "firstAdd"

Alone(h) == \A g \in Ref \ {h} : pc[g] = "none"

\* What an operation copies from is held, and of the kind it needs.
SourcesHeld ==
  \A h \in Ref :
    /\ src[h] # NoRef => Held(src[h])
    /\ pc[h] \in {"none", "strong", "weak", "onLastStrongRef", "onLastWeakRef"} => src[h] = NoRef
    /\ pc[h] \in {"readStrong", "cmpxchgStrong", "ask", "attemptInc", "cmpxchgWeak"}
         => src[h] # NoRef
    /\ pc[h] = "incStrong" /\ src[h] # NoRef => pc[src[h]] = "strong"
    /\ pc[h] = "forceIncStrong" /\ src[h] # NoRef /\ mFlags = OBJECT_LIFETIME_STRONG
         => pc[src[h]] = "strong"

\* cmpxchg is only tried from a positive count.
CurPositive == \A h \in Ref : pc[h] = "cmpxchgStrong" => cur[h] > 0

\* The WeakRefImpl lives until the last handle of either kind is dropped, and
\* only the operation that dropped it is left to free it.
RefsFreedLast ==
  /\ raw = "unused" => refs = "live" /\ base = "live" /\ mStrong = INITIAL_STRONG_VALUE
            /\ \A h \in Ref : pc[h] = "none"
  /\ refs = "deleted" => base = "deleted" /\ \A h \in Ref : pc[h] = "none"
  /\ \A h \in Ref : pc[h] = "onLastWeakRef" => Alone(h)
  /\ refs = "live" => raw = "unused" \/ \E h \in Ref : pc[h] # "none"

\* _android builds, weak handles only made from strong ones: the creator's
\* first AddRef is alone until it has subtracted INITIAL_STRONG_VALUE; from then
\* on the object of regular lifetime exists exactly while the strong count is
\* positive or the operation that brought it to 0 has yet to delete it.
AndroidInv ==
  /\ raw = "used" /\ Unsubtracted => \E h \in Ref : Starting(h) /\ Alone(h)
  /\ \A h \in Ref :
       /\ Starting(h) => Unsubtracted
       /\ pc[h] = "ask" => cur[h] # INITIAL_STRONG_VALUE
  /\ mFlags = OBJECT_LIFETIME_WEAK => base = refs
  /\ mFlags = OBJECT_LIFETIME_STRONG =>
       /\ \A h \in Ref : /\ pc[h] # "attemptInc"
                         /\ pc[h] = "onLastStrongRef" => mStrong = 0 /\ base = "live"
       /\ \A g, h \in Ref : pc[g] = "onLastStrongRef" /\ pc[h] = "onLastStrongRef" => g = h
       /\ base = "deleted" => mStrong = 0
       /\ base = "live" => mStrong > 0 \/ \E h \in Ref : pc[h] = "onLastStrongRef"

\* Other builds: INITIAL_STRONG_VALUE is never subtracted, so no release is a
\* last one and the object goes with its WeakRefImpl.
PortableInv ==
  /\ Unsubtracted
  /\ mFlags = OBJECT_LIFETIME_STRONG
  /\ base = refs
  /\ \A h \in Ref : pc[h] # "onLastStrongRef"

\* The invariant the theorems rest on: the counters are exact at every step of
\* every operation, the copied handle stays held, and the object's existence
\* follows the counts the way the build's atomic_add makes it.
RefInv ==
  /\ CountsExact
  /\ SourcesHeld
  /\ CurPositive
  /\ RefsFreedLast
  /\ IF AtomicAdd THEN AndroidInv ELSE PortableInv

\* The hooks of an object of regular lifetime in an _android build: OnFirstRef
\* has run once the creator's AddRef returned, OnLastStrongRef once the object
\* is deleted.
HooksInv ==
  mFlags = OBJECT_LIFETIME_STRONG =>
    /\ \A h \in Ref : pc[h] = "onFirstRef" => Alone(h)
    /\ lastCalls = (IF base = "deleted" THEN 1 ELSE 0)
    /\ firstCalls = (IF raw = "unused" \/ Unsubtracted \/ (\E h \in Ref : pc[h] = "onFirstRef")
                     THEN 0 ELSE 1)
=============================================================================

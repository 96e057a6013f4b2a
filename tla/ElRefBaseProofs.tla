--------------------------- MODULE ElRefBaseProofs ---------------------------
EXTENDS ElRefBase, FiniteSetTheorems, TLAPS

\* The counters, flags and operations in progress keep their types.
THEOREM TypeCorrect == Spec => []TypeOK
<1>1. Init => TypeOK
  BY RefAssumption DEF Init, TypeOK, Labels, OBJECT_LIFETIME_STRONG, OBJECT_LIFETIME_WEAK
<1>2. TypeOK /\ [Next]_vars => TypeOK'
  <2> SUFFICES ASSUME TypeOK, [Next]_vars PROVE TypeOK'
    OBVIOUS
  <2> USE RefAssumption DEF TypeOK, Labels, OBJECT_LIFETIME_STRONG, OBJECT_LIFETIME_WEAK,
                            Goto, Return, CopyFrom, OneMore, DeleteBase
  <2>1. CASE ExtendObjectLifetime
    BY <2>1 DEF ExtendObjectLifetime
  <2>2. ASSUME NEW h \in Ref, IncStrong(h) PROVE TypeOK'
    BY <2>2 DEF IncStrong
  <2>3. ASSUME NEW h \in Ref, ForceIncStrong(h) PROVE TypeOK'
    BY <2>3 DEF ForceIncStrong
  <2>4. ASSUME NEW h \in Ref, CreateWeak(h) PROVE TypeOK'
    BY <2>4 DEF CreateWeak
  <2>5. ASSUME NEW h \in Ref, AttemptIncStrong(h) PROVE TypeOK'
    BY <2>5 DEF AttemptIncStrong
  <2>6. ASSUME NEW h \in Ref, AttemptIncWeak(h) PROVE TypeOK'
    BY <2>6 DEF AttemptIncWeak
  <2>7. ASSUME NEW h \in Ref, DecStrong(h) PROVE TypeOK'
    BY <2>7 DEF DecStrong
  <2>8. ASSUME NEW h \in Ref, DecWeak(h) PROVE TypeOK'
    BY <2>8 DEF DecWeak
  <2>9. ASSUME NEW h \in Ref, Continue(h) PROVE TypeOK'
    <3>1. CASE IncStrongCount(h)
      BY <3>1 DEF IncStrongCount
    <3>2. CASE ForceIncStrongCount(h)
      BY <3>2 DEF ForceIncStrongCount
    <3>3. CASE FirstAdd(h)
      BY <3>3 DEF FirstAdd
    <3>4. CASE OnFirstRef(h)
      BY <3>4 DEF OnFirstRef
    <3>5. CASE OnLastStrongRef(h)
      BY <3>5 DEF OnLastStrongRef
    <3>6. CASE OnLastWeakRef(h)
      BY <3>6 DEF OnLastWeakRef
    <3>7. CASE ReadStrong(h)
      BY <3>7 DEF ReadStrong
    <3>8. CASE CmpxchgStrong(h)
      BY <3>8 DEF CmpxchgStrong
    <3>9. CASE Ask(h)
      BY <3>9 DEF Ask
    <3>10. CASE AttemptInc(h)
      BY <3>10 DEF AttemptInc
    <3>11. CASE CmpxchgWeak(h)
      BY <3>11 DEF CmpxchgWeak
    <3> QED
      BY <2>9, <3>1, <3>2, <3>3, <3>4, <3>5, <3>6, <3>7, <3>8, <3>9, <3>10, <3>11 DEF Continue
  <2>10. CASE UNCHANGED vars
    BY <2>10 DEF vars
  <2> QED
    BY <2>1, <2>2, <2>3, <2>4, <2>5, <2>6, <2>7, <2>8, <2>9, <2>10 DEF Next
<1>3. QED
  BY <1>1, <1>2, PTL DEF Spec


\* -- counting --------------------------------------------------------------
\* A set of handles is finite and its cardinality is 0 only if it is empty, 1
\* only if it is a singleton, and at most that of Ref.
LEMMA Handles ==
  ASSUME NEW S \in SUBSET Ref
  PROVE  /\ IsFiniteSet(S)
         /\ Cardinality(S) \in Nat
         /\ Cardinality(S) < INITIAL_STRONG_VALUE
         /\ \A x \in S : Cardinality(S) >= 1
         /\ \A x \in S : Cardinality(S) = 1 => S = {x}
         /\ Cardinality(S) # 0 => \E x \in S : TRUE
<1>1. IsFiniteSet(S) /\ Cardinality(S) \in Nat /\ Cardinality(S) <= Cardinality(Ref)
  BY RefAssumption, FS_Subset, FS_CardinalityType
<1>2. Cardinality(Ref) \in Nat
  BY RefAssumption, FS_CardinalityType
<1>3. ASSUME NEW x \in S PROVE /\ IsFiniteSet(S \ {x})
                               /\ Cardinality(S \ {x}) = Cardinality(S) - 1
                               /\ Cardinality(S \ {x}) \in Nat
  BY <1>1, FS_RemoveElement, FS_CardinalityType
<1>4. ASSUME NEW x \in S, Cardinality(S) = 1 PROVE S = {x}
  <2>1. Cardinality(S \ {x}) = 0
    BY <1>1, <1>3, <1>4
  <2>2. S \ {x} = {}
    BY <1>3, <2>1, FS_EmptySet
  <2> QED
    BY <2>2
<1>5. Cardinality(S) # 0 => \E x \in S : TRUE
  BY <1>1, FS_EmptySet
<1>6. ASSUME NEW x \in S PROVE Cardinality(S) >= 1
  <2>1. Cardinality(S \ {x}) = Cardinality(S) - 1 /\ Cardinality(S \ {x}) \in Nat
    BY <1>3
  <2> QED
    BY <1>1, <2>1
<1>7. Cardinality(S) < INITIAL_STRONG_VALUE
  BY <1>1, <1>2, RefAssumption
<1> QED
  BY <1>1, <1>4, <1>5, <1>6, <1>7

\* What a step of the operation on handle h does to a set of handles that is
\* defined by the pc.
LEMMA Recount ==
  ASSUME NEW S \in SUBSET Ref, NEW T \in SUBSET Ref, NEW h \in Ref,
         \A g \in Ref \ {h} : g \in S <=> g \in T
  PROVE  /\ h \in S /\ h \in T => Cardinality(T) = Cardinality(S)
         /\ h \notin S /\ h \notin T => Cardinality(T) = Cardinality(S)
         /\ h \notin S /\ h \in T => Cardinality(T) = Cardinality(S) + 1
         /\ h \in S /\ h \notin T => Cardinality(T) = Cardinality(S) - 1
<1>1. h \in S /\ h \in T => T = S
  OBVIOUS
<1>2. h \notin S /\ h \notin T => T = S
  OBVIOUS
<1>3. h \notin S /\ h \in T => T = S \cup {h}
  OBVIOUS
<1>4. h \in S /\ h \notin T => T = S \ {h}
  OBVIOUS
<1>5. IsFiniteSet(S)
  BY Handles
<1>6. h \notin S => Cardinality(S \cup {h}) = Cardinality(S) + 1
  BY <1>5, FS_AddElement
<1>7. h \in S => Cardinality(S \ {h}) = Cardinality(S) - 1
  BY <1>5, FS_RemoveElement
<1> QED
  BY <1>1, <1>2, <1>3, <1>4, <1>6, <1>7

\* The counts before and after a step that moves handle h to label l.
LEMMA StepCounts ==
  ASSUME TypeOK, NEW h \in Ref, NEW l \in Labels, pc' = [pc EXCEPT ![h] = l]
  PROVE  LET Uncounted == {"none", "onLastWeakRef", "cmpxchgWeak"}
             Strong    == {"strong", "firstAdd", "onFirstRef"}
         IN  /\ Cardinality(WeakCounted) \in Nat /\ Cardinality(WeakCounted') \in Nat
             /\ Cardinality(StrongCounted) \in Nat /\ Cardinality(StrongCounted') \in Nat
             /\ Cardinality(StrongCounted) < INITIAL_STRONG_VALUE
             /\ Cardinality(StrongCounted') < INITIAL_STRONG_VALUE
             /\ pc[h] \in Uncounted /\ l \in Uncounted
                  => Cardinality(WeakCounted') = Cardinality(WeakCounted)
             /\ pc[h] \notin Uncounted /\ l \notin Uncounted
                  => Cardinality(WeakCounted') = Cardinality(WeakCounted)
             /\ pc[h] \in Uncounted /\ l \notin Uncounted
                  => Cardinality(WeakCounted') = Cardinality(WeakCounted) + 1
             /\ pc[h] \notin Uncounted /\ l \in Uncounted
                  => Cardinality(WeakCounted') = Cardinality(WeakCounted) - 1
             /\ pc[h] \in Strong /\ l \in Strong
                  => Cardinality(StrongCounted') = Cardinality(StrongCounted)
             /\ pc[h] \notin Strong /\ l \notin Strong
                  => Cardinality(StrongCounted') = Cardinality(StrongCounted)
             /\ pc[h] \notin Strong /\ l \in Strong
                  => Cardinality(StrongCounted') = Cardinality(StrongCounted) + 1
             /\ pc[h] \in Strong /\ l \notin Strong
                  => Cardinality(StrongCounted') = Cardinality(StrongCounted) - 1
<1> DEFINE Uncounted == {"none", "onLastWeakRef", "cmpxchgWeak"}
           Strong    == {"strong", "firstAdd", "onFirstRef"}
<1>1. /\ WeakCounted \in SUBSET Ref /\ WeakCounted' \in SUBSET Ref
      /\ StrongCounted \in SUBSET Ref /\ StrongCounted' \in SUBSET Ref
  BY DEF WeakCounted, StrongCounted
<1>2. pc'[h] = l /\ \A g \in Ref \ {h} : pc'[g] = pc[g]
  BY DEF TypeOK
<1>3. /\ \A g \in Ref \ {h} : g \in WeakCounted <=> g \in WeakCounted'
      /\ h \in WeakCounted <=> pc[h] \notin Uncounted
      /\ h \in WeakCounted' <=> l \notin Uncounted
  BY <1>2 DEF WeakCounted
<1>4. /\ \A g \in Ref \ {h} : g \in StrongCounted <=> g \in StrongCounted'
      /\ h \in StrongCounted <=> pc[h] \in Strong
      /\ h \in StrongCounted' <=> l \in Strong
  BY <1>2 DEF StrongCounted
<1>5. /\ Cardinality(WeakCounted) \in Nat /\ Cardinality(WeakCounted') \in Nat
      /\ Cardinality(StrongCounted) \in Nat /\ Cardinality(StrongCounted') \in Nat
      /\ Cardinality(StrongCounted) < INITIAL_STRONG_VALUE
      /\ Cardinality(StrongCounted') < INITIAL_STRONG_VALUE
  BY <1>1, Handles
<1> HIDE DEF Uncounted, Strong
<1>6. /\ pc[h] \in Uncounted /\ l \in Uncounted
           => Cardinality(WeakCounted') = Cardinality(WeakCounted)
      /\ pc[h] \notin Uncounted /\ l \notin Uncounted
           => Cardinality(WeakCounted') = Cardinality(WeakCounted)
      /\ pc[h] \in Uncounted /\ l \notin Uncounted
           => Cardinality(WeakCounted') = Cardinality(WeakCounted) + 1
      /\ pc[h] \notin Uncounted /\ l \in Uncounted
           => Cardinality(WeakCounted') = Cardinality(WeakCounted) - 1
  BY <1>1, <1>3, Recount
<1>7. /\ pc[h] \in Strong /\ l \in Strong
           => Cardinality(StrongCounted') = Cardinality(StrongCounted)
      /\ pc[h] \notin Strong /\ l \notin Strong
           => Cardinality(StrongCounted') = Cardinality(StrongCounted)
      /\ pc[h] \notin Strong /\ l \in Strong
           => Cardinality(StrongCounted') = Cardinality(StrongCounted) + 1
      /\ pc[h] \in Strong /\ l \notin Strong
           => Cardinality(StrongCounted') = Cardinality(StrongCounted) - 1
  BY <1>1, <1>4, Recount
<1> QED
  BY <1>5, <1>6, <1>7 DEF Uncounted, Strong

\* What the exact counters tell about the handles.
LEMMA Positive ==
  ASSUME TypeOK, CountsExact
  PROVE  LET Uncounted == {"none", "onLastWeakRef", "cmpxchgWeak"}
             Strong    == {"strong", "firstAdd", "onFirstRef"}
         IN  /\ mWeak \in Nat /\ mStrong \in Nat /\ INITIAL_STRONG_VALUE > 0
             /\ mWeak # 0 => \E h \in Ref : pc[h] \notin Uncounted
             /\ \A h \in Ref : pc[h] \notin Uncounted =>
                  /\ mWeak >= 1
                  /\ mWeak = 1 <=> \A g \in Ref \ {h} : pc[g] \in Uncounted
             /\ \A h \in Ref : pc[h] \in Strong =>
                  /\ mStrong >= 1 /\ mStrong # INITIAL_STRONG_VALUE
                  /\ mStrong \in {1, INITIAL_STRONG_VALUE + 1}
                       => \A g \in Ref \ {h} : pc[g] \notin Strong
             /\ mStrong \notin {0, INITIAL_STRONG_VALUE} => \E h \in Ref : pc[h] \in Strong
<1>1. WeakCounted \in SUBSET Ref /\ StrongCounted \in SUBSET Ref
  BY DEF WeakCounted, StrongCounted
<1>2. /\ Cardinality(WeakCounted) \in Nat /\ Cardinality(StrongCounted) \in Nat
      /\ Cardinality(StrongCounted) < INITIAL_STRONG_VALUE
      /\ \A x \in WeakCounted : Cardinality(WeakCounted) >= 1
      /\ \A x \in WeakCounted : Cardinality(WeakCounted) = 1 => WeakCounted = {x}
      /\ Cardinality(WeakCounted) # 0 => \E x \in WeakCounted : TRUE
      /\ \A x \in StrongCounted : Cardinality(StrongCounted) >= 1
      /\ \A x \in StrongCounted : Cardinality(StrongCounted) = 1 => StrongCounted = {x}
      /\ Cardinality(StrongCounted) # 0 => \E x \in StrongCounted : TRUE
  BY <1>1, Handles
<1>3. /\ mWeak = Cardinality(WeakCounted)
      /\ \/ mStrong = Cardinality(StrongCounted)
         \/ mStrong = Cardinality(StrongCounted) + INITIAL_STRONG_VALUE
  BY <1>2 DEF CountsExact
<1>4. INITIAL_STRONG_VALUE \in Nat
  BY RefAssumption
<1>5. mWeak \in Nat /\ mStrong \in Nat /\ INITIAL_STRONG_VALUE > 0
  BY <1>2, <1>3, <1>4
<1>6. ASSUME NEW h \in Ref, pc[h] \notin {"none", "onLastWeakRef", "cmpxchgWeak"}
      PROVE  /\ mWeak >= 1
             /\ mWeak = 1 <=> \A g \in Ref \ {h} :
                  pc[g] \in {"none", "onLastWeakRef", "cmpxchgWeak"}
  <2>1. h \in WeakCounted
    BY <1>6 DEF WeakCounted
  <2>2. WeakCounted = {h} <=> \A g \in Ref \ {h} :
          pc[g] \in {"none", "onLastWeakRef", "cmpxchgWeak"}
    BY <2>1 DEF WeakCounted
  <2>3. WeakCounted = {h} => Cardinality(WeakCounted) = 1
    BY FS_Singleton
  <2> QED
    BY <1>2, <1>3, <2>1, <2>2, <2>3
<1>7. ASSUME NEW h \in Ref, pc[h] \in {"strong", "firstAdd", "onFirstRef"}
      PROVE  /\ mStrong >= 1 /\ mStrong # INITIAL_STRONG_VALUE
             /\ mStrong \in {1, INITIAL_STRONG_VALUE + 1}
                  => \A g \in Ref \ {h} : pc[g] \notin {"strong", "firstAdd", "onFirstRef"}
  <2>1. h \in StrongCounted
    BY <1>7 DEF StrongCounted
  <2>2. StrongCounted = {h} => \A g \in Ref \ {h} :
          pc[g] \notin {"strong", "firstAdd", "onFirstRef"}
    BY DEF StrongCounted
  <2>3. mStrong \in {1, INITIAL_STRONG_VALUE + 1} => Cardinality(StrongCounted) = 1
    BY <1>2, <1>3, <1>4, <2>1
  <2>4. mStrong >= 1 /\ mStrong # INITIAL_STRONG_VALUE
    BY <1>2, <1>3, <1>4, <2>1
  <2>5. Cardinality(StrongCounted) = 1 => StrongCounted = {h}
    BY <1>2, <2>1
  <2> QED
    BY <2>2, <2>3, <2>4, <2>5
<1>8. mStrong \notin {0, INITIAL_STRONG_VALUE}
        => \E h \in Ref : pc[h] \in {"strong", "firstAdd", "onFirstRef"}
  <2>1. mStrong \notin {0, INITIAL_STRONG_VALUE} => Cardinality(StrongCounted) # 0
    BY <1>2, <1>3, <1>4
  <2> QED
    BY <1>2, <2>1 DEF StrongCounted
<1>9. \A h \in Ref : pc[h] \notin {"none", "onLastWeakRef", "cmpxchgWeak"} =>
        /\ mWeak >= 1
        /\ mWeak = 1 <=> \A g \in Ref \ {h} :
             pc[g] \in {"none", "onLastWeakRef", "cmpxchgWeak"}
  BY <1>6
<1>10. \A h \in Ref : pc[h] \in {"strong", "firstAdd", "onFirstRef"} =>
         /\ mStrong >= 1 /\ mStrong # INITIAL_STRONG_VALUE
         /\ mStrong \in {1, INITIAL_STRONG_VALUE + 1}
              => \A g \in Ref \ {h} : pc[g] \notin {"strong", "firstAdd", "onFirstRef"}
  BY <1>7
<1>11. mWeak # 0 => \E h \in Ref : pc[h] \notin {"none", "onLastWeakRef", "cmpxchgWeak"}
  BY <1>2, <1>3 DEF WeakCounted
<1> QED
  BY <1>5, <1>8, <1>9, <1>10, <1>11

\* In an _android build, an operation other than the creator's first AddRef
\* finds INITIAL_STRONG_VALUE already subtracted, and the first AddRef is alone.
LEMMA Subtracted ==
  ASSUME TypeOK, RefInv, AtomicAdd, NEW h \in Ref, pc[h] # "none"
  PROVE  /\ raw = "used"
         /\ ~Starting(h) => ~Unsubtracted
         /\ Starting(h) => Unsubtracted /\ Alone(h)
         /\ Starting(h) /\ pc[h] # "firstAdd" => mStrong = INITIAL_STRONG_VALUE
<1>1. raw = "used"
  BY DEF RefInv, RefsFreedLast, TypeOK
<1>2. Unsubtracted => \E k \in Ref : Starting(k) /\ Alone(k)
  BY <1>1 DEF RefInv, AndroidInv
<1>3. ASSUME NEW k \in Ref, Alone(k) PROVE k = h
  BY <1>3 DEF Alone
<1>4. /\ ~Starting(h) => ~Unsubtracted
      /\ Starting(h) => Unsubtracted /\ Alone(h)
  BY <1>2, <1>3 DEF RefInv, AndroidInv
<1>5. ASSUME Starting(h), pc[h] # "firstAdd" PROVE mStrong = INITIAL_STRONG_VALUE
  <2>1. \A g \in Ref : pc[g] \notin {"strong", "firstAdd", "onFirstRef"}
    BY <1>4, <1>5 DEF Alone, Starting
  <2>2. mStrong \in {0, INITIAL_STRONG_VALUE} /\ INITIAL_STRONG_VALUE > 0
    BY <2>1, Positive DEF RefInv
  <2> QED
    BY <1>4, <1>5, <2>2, RefAssumption DEF Unsubtracted
<1> QED
  BY <1>1, <1>4, <1>5

\* Every step preserves the inductive invariant, in every build, provided that
\* an _android build hands out weak handles only once there is a strong one.
LEMMA RefInvStep ==
  ASSUME TypeOK, RefInv, [Next]_vars, AtomicAdd => ~WeakFromRaw
  PROVE  RefInv'
<1> USE RefAssumption DEF TypeOK, Labels, OBJECT_LIFETIME_STRONG, OBJECT_LIFETIME_WEAK, Goto,
                          Return, CopyFrom
<1>1. ASSUME NEW h \in Ref, IncStrong(h) PROVE RefInv'
  <2>1. CountsExact'
    BY <1>1, StepCounts DEF IncStrong, RefInv, CountsExact, Unsubtracted
  <2>2. SourcesHeld'
    BY <1>1 DEF IncStrong, RefInv, SourcesHeld, Held, Source
  <2>3. CurPositive'
    BY <1>1 DEF IncStrong, RefInv, CurPositive
  <2>4. RefsFreedLast'
    BY <1>1, Positive DEF IncStrong, RefInv, SourcesHeld, Held, Source, RefsFreedLast,
       Alone
  <2>5. AtomicAdd => AndroidInv'
    BY <1>1, Positive DEF IncStrong, RefInv, SourcesHeld, Held, Source, RefsFreedLast,
       Alone, AndroidInv, Starting, Unsubtracted
  <2>6. ~AtomicAdd => PortableInv'
    BY <1>1, Positive DEF IncStrong, RefInv, PortableInv, RefsFreedLast,
       Unsubtracted
  <2> QED
    BY <2>1, <2>2, <2>3, <2>4, <2>5, <2>6 DEF RefInv
<1>2. ASSUME NEW h \in Ref, ForceIncStrong(h) PROVE RefInv'
  <2>1. CountsExact'
    BY <1>2, StepCounts DEF ForceIncStrong, RefInv, CountsExact, Unsubtracted
  <2>2. SourcesHeld'
    BY <1>2 DEF ForceIncStrong, RefInv, SourcesHeld, Held, Source
  <2>3. CurPositive'
    BY <1>2 DEF ForceIncStrong, RefInv, CurPositive
  <2>4. RefsFreedLast'
    BY <1>2, Positive DEF ForceIncStrong, RefInv, SourcesHeld, Held, Source, RefsFreedLast,
       Alone
  <2>5. AtomicAdd => AndroidInv'
    BY <1>2, Positive DEF ForceIncStrong, RefInv, SourcesHeld, Held, Source, RefsFreedLast,
       Alone, AndroidInv, Starting, Unsubtracted
  <2>6. ~AtomicAdd => PortableInv'
    BY <1>2, Positive DEF ForceIncStrong, RefInv, PortableInv, RefsFreedLast,
       Unsubtracted
  <2> QED
    BY <2>1, <2>2, <2>3, <2>4, <2>5, <2>6 DEF RefInv
<1>3. ASSUME NEW h \in Ref, CreateWeak(h) PROVE RefInv'
  <2>1. CountsExact'
    BY <1>3, StepCounts DEF CreateWeak, RefInv, CountsExact, Unsubtracted
  <2>2. SourcesHeld'
    BY <1>3 DEF CreateWeak, RefInv, SourcesHeld, Held, Source
  <2>3. CurPositive'
    BY <1>3 DEF CreateWeak, RefInv, CurPositive
  <2>4. RefsFreedLast'
    BY <1>3, Positive DEF CreateWeak, RefInv, SourcesHeld, Held, Source, RefsFreedLast,
       Alone
  <2>5. AtomicAdd => AndroidInv'
    BY <1>3, Positive DEF CreateWeak, RefInv, SourcesHeld, Held, Source, RefsFreedLast,
       Alone, AndroidInv, Starting, Unsubtracted
  <2>6. ~AtomicAdd => PortableInv'
    BY <1>3, Positive DEF CreateWeak, RefInv, PortableInv, RefsFreedLast,
       Unsubtracted
  <2> QED
    BY <2>1, <2>2, <2>3, <2>4, <2>5, <2>6 DEF RefInv
<1>4. ASSUME NEW h \in Ref, AttemptIncStrong(h) PROVE RefInv'
  <2>1. CountsExact'
    BY <1>4, StepCounts DEF AttemptIncStrong, RefInv, CountsExact, Unsubtracted
  <2>2. SourcesHeld'
    BY <1>4 DEF AttemptIncStrong, RefInv, SourcesHeld, Held, Source
  <2>3. CurPositive'
    BY <1>4 DEF AttemptIncStrong, RefInv, CurPositive
  <2>4. RefsFreedLast'
    BY <1>4, Positive DEF AttemptIncStrong, RefInv, SourcesHeld, Held, Source, RefsFreedLast,
       Alone
  <2>5. AtomicAdd => AndroidInv'
    BY <1>4, Positive DEF AttemptIncStrong, RefInv, SourcesHeld, Held, Source, RefsFreedLast,
       Alone, AndroidInv, Starting, Unsubtracted
  <2>6. ~AtomicAdd => PortableInv'
    BY <1>4, Positive DEF AttemptIncStrong, RefInv, PortableInv, RefsFreedLast,
       Unsubtracted
  <2> QED
    BY <2>1, <2>2, <2>3, <2>4, <2>5, <2>6 DEF RefInv
<1>5. ASSUME NEW h \in Ref, AttemptIncWeak(h) PROVE RefInv'
  <2>1. CountsExact'
    BY <1>5, StepCounts DEF AttemptIncWeak, RefInv, CountsExact, Unsubtracted
  <2>2. SourcesHeld'
    BY <1>5 DEF AttemptIncWeak, RefInv, SourcesHeld, Held, Source
  <2>3. CurPositive'
    BY <1>5 DEF AttemptIncWeak, RefInv, CurPositive
  <2>4. RefsFreedLast'
    BY <1>5, Positive DEF AttemptIncWeak, RefInv, SourcesHeld, Held, Source, RefsFreedLast,
       Alone
  <2>5. AtomicAdd => AndroidInv'
    BY <1>5, Positive DEF AttemptIncWeak, RefInv, SourcesHeld, Held, Source, RefsFreedLast,
       Alone, AndroidInv, Starting, Unsubtracted
  <2>6. ~AtomicAdd => PortableInv'
    BY <1>5, Positive DEF AttemptIncWeak, RefInv, PortableInv, RefsFreedLast,
       Unsubtracted
  <2> QED
    BY <2>1, <2>2, <2>3, <2>4, <2>5, <2>6 DEF RefInv
<1>6. ASSUME NEW h \in Ref, DecStrong(h) PROVE RefInv'
  <2>1. CountsExact'
    <3>1. PICK l \in {"onLastStrongRef", "decWeak"} : pc' = [pc EXCEPT ![h] = l]
      BY <1>6 DEF DecStrong
    <3>2. /\ Cardinality(WeakCounted') = Cardinality(WeakCounted)
          /\ Cardinality(StrongCounted') = Cardinality(StrongCounted) - 1
          /\ Cardinality(StrongCounted) \in Nat /\ Cardinality(StrongCounted') \in Nat
          /\ Cardinality(StrongCounted) < INITIAL_STRONG_VALUE
      BY <1>6, <3>1, StepCounts DEF DecStrong
    <3>3. mStrong' = mStrong - 1 /\ mWeak' = mWeak
      BY <1>6 DEF DecStrong
    <3> QED
      BY <3>2, <3>3 DEF RefInv, CountsExact, Unsubtracted
  <2>2. SourcesHeld'
    BY <1>6 DEF DecStrong, RefInv, SourcesHeld, Held, Source
  <2>3. CurPositive'
    BY <1>6 DEF DecStrong, RefInv, CurPositive
  <2>4. RefsFreedLast'
    BY <1>6, Positive DEF DecStrong, RefInv, SourcesHeld, Held, Source, RefsFreedLast,
       Alone
  <2>5. AtomicAdd => AndroidInv'
    BY <1>6, Positive DEF DecStrong, RefInv, SourcesHeld, Held, Source, RefsFreedLast,
       Alone, AndroidInv, Starting, Unsubtracted
  <2>6. ~AtomicAdd => PortableInv'
    BY <1>6, Positive DEF DecStrong, RefInv, PortableInv, RefsFreedLast,
       Unsubtracted
  <2> QED
    BY <2>1, <2>2, <2>3, <2>4, <2>5, <2>6 DEF RefInv
<1>7. ASSUME NEW h \in Ref, DecWeak(h) PROVE RefInv'
  <2>1. CountsExact'
    BY <1>7, StepCounts DEF DecWeak, RefInv, CountsExact, Unsubtracted
  <2>2. SourcesHeld'
    BY <1>7 DEF DecWeak, RefInv, SourcesHeld, Held, Source
  <2>3. CurPositive'
    BY <1>7 DEF DecWeak, RefInv, CurPositive
  <2>4. RefsFreedLast'
    BY <1>7, Positive DEF DecWeak, RefInv, SourcesHeld, Held, Source, RefsFreedLast,
       Alone
  <2>5. AtomicAdd => AndroidInv'
    BY <1>7, Positive DEF DecWeak, RefInv, SourcesHeld, Held, Source, RefsFreedLast,
       Alone, AndroidInv, Starting, Unsubtracted
  <2>6. ~AtomicAdd => PortableInv'
    BY <1>7, Positive DEF DecWeak, RefInv, PortableInv, RefsFreedLast,
       Unsubtracted
  <2> QED
    BY <2>1, <2>2, <2>3, <2>4, <2>5, <2>6 DEF RefInv
<1>8. ASSUME NEW h \in Ref, IncStrongCount(h) PROVE RefInv'
  <2>1. CountsExact'
    BY <1>8, StepCounts DEF IncStrongCount, RefInv, CountsExact, Unsubtracted
  <2>2. SourcesHeld'
    BY <1>8 DEF IncStrongCount, RefInv, SourcesHeld, Held, Source
  <2>3. CurPositive'
    BY <1>8 DEF IncStrongCount, RefInv, CurPositive
  <2>4. RefsFreedLast'
    BY <1>8, Positive DEF IncStrongCount, RefInv, SourcesHeld, Held, Source, RefsFreedLast,
       Alone
  <2>5. AtomicAdd => AndroidInv'
    <3> SUFFICES ASSUME AtomicAdd PROVE AndroidInv'
      OBVIOUS
    <3>1. CASE Starting(h)
      <4>1. Alone(h) /\ raw = "used" /\ mStrong = INITIAL_STRONG_VALUE
        BY <1>8, <3>1, Subtracted DEF IncStrongCount
      <4> QED
        BY <1>8, <3>1, <4>1, Positive DEF IncStrongCount, RefInv, AndroidInv, Alone, Starting, Unsubtracted,
           RefsFreedLast
    <3>2. CASE ~Starting(h)
      <4>1. ~Unsubtracted /\ raw = "used"
        BY <1>8, <3>2, Subtracted DEF IncStrongCount
      <4>2. ~Unsubtracted'
        BY <1>8, <4>1, StepCounts DEF IncStrongCount, RefInv, CountsExact, Unsubtracted
      <4>3. mStrong \in Nat
        BY Positive DEF RefInv
      <4> QED
        BY <1>8, <3>2, <4>1, <4>2, <4>3, Positive DEF IncStrongCount, RefInv, AndroidInv, Alone, Starting, Unsubtracted,
           RefsFreedLast, SourcesHeld, Held
    <3> QED
      BY <3>1, <3>2
  <2>6. ~AtomicAdd => PortableInv'
    BY <1>8, Positive DEF IncStrongCount, RefInv, PortableInv, RefsFreedLast,
       Unsubtracted
  <2> QED
    BY <2>1, <2>2, <2>3, <2>4, <2>5, <2>6 DEF RefInv
<1>9. ASSUME NEW h \in Ref, ForceIncStrongCount(h) PROVE RefInv'
  <2>1. CountsExact'
    BY <1>9, StepCounts DEF ForceIncStrongCount, RefInv, CountsExact, Unsubtracted
  <2>2. SourcesHeld'
    BY <1>9 DEF ForceIncStrongCount, RefInv, SourcesHeld, Held, Source
  <2>3. CurPositive'
    BY <1>9 DEF ForceIncStrongCount, RefInv, CurPositive
  <2>4. RefsFreedLast'
    BY <1>9, Positive DEF ForceIncStrongCount, RefInv, SourcesHeld, Held, Source, RefsFreedLast,
       Alone
  <2>5. AtomicAdd => AndroidInv'
    <3> SUFFICES ASSUME AtomicAdd PROVE AndroidInv'
      OBVIOUS
    <3>1. CASE Starting(h)
      <4>1. Alone(h) /\ raw = "used" /\ mStrong = INITIAL_STRONG_VALUE
        BY <1>9, <3>1, Subtracted DEF ForceIncStrongCount
      <4> QED
        BY <1>9, <3>1, <4>1, Positive DEF ForceIncStrongCount, RefInv, AndroidInv, Alone, Starting, Unsubtracted,
           RefsFreedLast
    <3>2. CASE ~Starting(h)
      <4>1. ~Unsubtracted /\ raw = "used"
        BY <1>9, <3>2, Subtracted DEF ForceIncStrongCount
      <4>2. ~Unsubtracted'
        BY <1>9, <4>1, StepCounts DEF ForceIncStrongCount, RefInv, CountsExact, Unsubtracted
      <4>3. mStrong \in Nat
        BY Positive DEF RefInv
      <4> QED
        BY <1>9, <3>2, <4>1, <4>2, <4>3, Positive DEF ForceIncStrongCount, RefInv, AndroidInv, Alone, Starting, Unsubtracted,
           RefsFreedLast, SourcesHeld, Held
    <3> QED
      BY <3>1, <3>2
  <2>6. ~AtomicAdd => PortableInv'
    BY <1>9, Positive DEF ForceIncStrongCount, RefInv, PortableInv, RefsFreedLast,
       Unsubtracted
  <2> QED
    BY <2>1, <2>2, <2>3, <2>4, <2>5, <2>6 DEF RefInv
<1>10. ASSUME NEW h \in Ref, FirstAdd(h) PROVE RefInv'
  <2>1. CountsExact'
    <3>1. /\ Cardinality(WeakCounted') = Cardinality(WeakCounted)
          /\ Cardinality(StrongCounted') = Cardinality(StrongCounted)
          /\ Cardinality(StrongCounted) \in Nat
          /\ Cardinality(StrongCounted) < INITIAL_STRONG_VALUE
      BY <1>10, StepCounts DEF FirstAdd
    <3>2. CASE AtomicAdd
      <4>1. Unsubtracted
        BY <1>10, <3>2 DEF RefInv, AndroidInv, Starting, FirstAdd
      <4> QED
        BY <1>10, <3>1, <3>2, <4>1 DEF FirstAdd, RefInv, CountsExact, Unsubtracted
    <3>3. CASE ~AtomicAdd
      BY <1>10, <3>1, <3>3 DEF FirstAdd, RefInv, CountsExact, Unsubtracted
    <3> QED
      BY <3>2, <3>3
  <2>2. SourcesHeld'
    BY <1>10 DEF FirstAdd, RefInv, SourcesHeld, Held, Source
  <2>3. CurPositive'
    BY <1>10 DEF FirstAdd, RefInv, CurPositive
  <2>4. RefsFreedLast'
    BY <1>10, Positive DEF FirstAdd, RefInv, SourcesHeld, Held, Source, RefsFreedLast,
       Alone
  <2>5. AtomicAdd => AndroidInv'
    <3> SUFFICES ASSUME AtomicAdd PROVE AndroidInv'
      OBVIOUS
    <3>1. Unsubtracted /\ Alone(h) /\ raw = "used"
      BY <1>10, Subtracted DEF FirstAdd, Starting
    <3>2. mStrong' > 0
      BY <1>10, <3>1, Positive DEF FirstAdd, RefInv, Unsubtracted
    <3>3. Cardinality(StrongCounted) \in Nat /\ Cardinality(StrongCounted) < INITIAL_STRONG_VALUE
      BY <1>10, StepCounts DEF FirstAdd
    <3>4. mStrong = Cardinality(StrongCounted) + INITIAL_STRONG_VALUE
      BY <3>1 DEF RefInv, CountsExact
    <3>5. ~Unsubtracted'
      BY <1>10, <3>3, <3>4 DEF FirstAdd, Unsubtracted
    <3> QED
      BY <1>10, <3>1, <3>2, <3>5 DEF FirstAdd, RefInv, AndroidInv, Alone, Starting, RefsFreedLast
  <2>6. ~AtomicAdd => PortableInv'
    BY <1>10, Positive DEF FirstAdd, RefInv, PortableInv, RefsFreedLast,
       Unsubtracted
  <2> QED
    BY <2>1, <2>2, <2>3, <2>4, <2>5, <2>6 DEF RefInv
<1>11. ASSUME NEW h \in Ref, OnFirstRef(h) PROVE RefInv'
  <2>1. CountsExact'
    BY <1>11, StepCounts DEF OnFirstRef, RefInv, CountsExact, Unsubtracted
  <2>2. SourcesHeld'
    BY <1>11 DEF OnFirstRef, RefInv, SourcesHeld, Held, Source
  <2>3. CurPositive'
    BY <1>11 DEF OnFirstRef, RefInv, CurPositive
  <2>4. RefsFreedLast'
    BY <1>11, Positive DEF OnFirstRef, RefInv, SourcesHeld, Held, Source, RefsFreedLast,
       Alone
  <2>5. AtomicAdd => AndroidInv'
    BY <1>11, Positive DEF OnFirstRef, RefInv, SourcesHeld, Held, Source, RefsFreedLast,
       Alone, AndroidInv, Starting, Unsubtracted
  <2>6. ~AtomicAdd => PortableInv'
    BY <1>11, Positive DEF OnFirstRef, RefInv, PortableInv, RefsFreedLast,
       Unsubtracted
  <2> QED
    BY <2>1, <2>2, <2>3, <2>4, <2>5, <2>6 DEF RefInv
<1>12. ASSUME NEW h \in Ref, OnLastStrongRef(h) PROVE RefInv'
  <2>1. CountsExact'
    BY <1>12, StepCounts DEF OnLastStrongRef, DeleteBase, RefInv, CountsExact, Unsubtracted
  <2>2. SourcesHeld'
    BY <1>12 DEF OnLastStrongRef, DeleteBase, RefInv, SourcesHeld, Held, Source
  <2>3. CurPositive'
    BY <1>12 DEF OnLastStrongRef, DeleteBase, RefInv, CurPositive
  <2>4. RefsFreedLast'
    BY <1>12, Positive DEF OnLastStrongRef, DeleteBase, RefInv, RefsFreedLast, Alone, AndroidInv,
       PortableInv
  <2>5. AtomicAdd => AndroidInv'
    BY <1>12, Positive DEF OnLastStrongRef, DeleteBase, RefInv, SourcesHeld, Held, Source, RefsFreedLast,
       Alone, AndroidInv, Starting, Unsubtracted
  <2>6. ~AtomicAdd => PortableInv'
    BY <1>12, Positive DEF OnLastStrongRef, DeleteBase, RefInv, PortableInv, RefsFreedLast,
       Unsubtracted
  <2> QED
    BY <2>1, <2>2, <2>3, <2>4, <2>5, <2>6 DEF RefInv
<1>13. ASSUME NEW h \in Ref, OnLastWeakRef(h) PROVE RefInv'
  <2>1. CountsExact'
    BY <1>13, StepCounts DEF OnLastWeakRef, DeleteBase, RefInv, CountsExact, Unsubtracted
  <2>2. SourcesHeld'
    BY <1>13 DEF OnLastWeakRef, DeleteBase, RefInv, SourcesHeld, Held, Source
  <2>3. CurPositive'
    BY <1>13 DEF OnLastWeakRef, DeleteBase, RefInv, CurPositive
  <2>4. RefsFreedLast'
    <3>1. Alone(h)
      BY <1>13 DEF OnLastWeakRef, RefInv, RefsFreedLast
    <3>2. mWeak = 0 /\ mStrong \in {0, INITIAL_STRONG_VALUE} /\ INITIAL_STRONG_VALUE > 0
      BY <1>13, <3>1, Positive DEF OnLastWeakRef, Alone, RefInv
    <3>3. refs' = "deleted"
      BY <1>13, <3>2 DEF OnLastWeakRef, DeleteBase
    <3>4. base' = "deleted"
      BY <1>13, <3>1, <3>2 DEF OnLastWeakRef, DeleteBase, RefInv, AndroidInv, PortableInv, Alone,
         Unsubtracted
    <3> QED
      BY <1>13, <3>1, <3>3, <3>4 DEF OnLastWeakRef, RefInv, RefsFreedLast, Alone
  <2>5. AtomicAdd => AndroidInv'
    BY <1>13, Positive DEF OnLastWeakRef, DeleteBase, RefInv, SourcesHeld, Held, Source, RefsFreedLast,
       Alone, AndroidInv, Starting, Unsubtracted
  <2>6. ~AtomicAdd => PortableInv'
    BY <1>13, <2>4 DEF OnLastWeakRef, DeleteBase, RefInv, PortableInv, RefsFreedLast, Unsubtracted
  <2> QED
    BY <2>1, <2>2, <2>3, <2>4, <2>5, <2>6 DEF RefInv
<1>14. ASSUME NEW h \in Ref, ReadStrong(h) PROVE RefInv'
  <2>1. CountsExact'
    BY <1>14, StepCounts DEF ReadStrong, RefInv, CountsExact, Unsubtracted
  <2>2. SourcesHeld'
    BY <1>14 DEF ReadStrong, RefInv, SourcesHeld, Held, Source
  <2>3. CurPositive'
    BY <1>14 DEF ReadStrong, RefInv, CurPositive
  <2>4. RefsFreedLast'
    BY <1>14, Positive DEF ReadStrong, RefInv, SourcesHeld, Held, Source, RefsFreedLast,
       Alone
  <2>5. AtomicAdd => AndroidInv'
    BY <1>14, Positive DEF ReadStrong, RefInv, SourcesHeld, Held, Source, RefsFreedLast,
       Alone, AndroidInv, Starting, Unsubtracted
  <2>6. ~AtomicAdd => PortableInv'
    BY <1>14, Positive DEF ReadStrong, RefInv, PortableInv, RefsFreedLast,
       Unsubtracted
  <2> QED
    BY <2>1, <2>2, <2>3, <2>4, <2>5, <2>6 DEF RefInv
<1>15. ASSUME NEW h \in Ref, CmpxchgStrong(h) PROVE RefInv'
  <2>1. CountsExact'
    BY <1>15, StepCounts DEF CmpxchgStrong, RefInv, CountsExact, Unsubtracted
  <2>2. SourcesHeld'
    BY <1>15 DEF CmpxchgStrong, RefInv, SourcesHeld, Held, Source
  <2>3. CurPositive'
    BY <1>15 DEF CmpxchgStrong, RefInv, CurPositive
  <2>4. RefsFreedLast'
    BY <1>15, Positive DEF CmpxchgStrong, RefInv, SourcesHeld, Held, Source, RefsFreedLast,
       Alone
  <2>5. AtomicAdd => AndroidInv'
    <3> SUFFICES ASSUME AtomicAdd PROVE AndroidInv'
      OBVIOUS
    <3>1. ~Unsubtracted /\ raw = "used"
      BY <1>15, Subtracted DEF CmpxchgStrong, Starting
    <3>2. ~Unsubtracted'
      BY <1>15, <3>1, StepCounts DEF CmpxchgStrong, RefInv, CountsExact, Unsubtracted
    <3>3. mStrong \in Nat
      BY Positive DEF RefInv
    <3> QED
      BY <1>15, <3>1, <3>2, <3>3 DEF CmpxchgStrong, RefInv, AndroidInv, CurPositive, Alone, Starting, Unsubtracted,
         RefsFreedLast, SourcesHeld
  <2>6. ~AtomicAdd => PortableInv'
    BY <1>15, Positive DEF CmpxchgStrong, RefInv, PortableInv, RefsFreedLast,
       Unsubtracted
  <2> QED
    BY <2>1, <2>2, <2>3, <2>4, <2>5, <2>6 DEF RefInv
<1>16. ASSUME NEW h \in Ref, Ask(h) PROVE RefInv'
  <2>1. CountsExact'
    BY <1>16, StepCounts DEF Ask, RefInv, CountsExact, Unsubtracted
  <2>2. SourcesHeld'
    BY <1>16 DEF Ask, RefInv, SourcesHeld, Held, Source
  <2>3. CurPositive'
    BY <1>16 DEF Ask, RefInv, CurPositive
  <2>4. RefsFreedLast'
    BY <1>16, Positive DEF Ask, RefInv, SourcesHeld, Held, Source, RefsFreedLast,
       Alone
  <2>5. AtomicAdd => AndroidInv'
    BY <1>16, Positive DEF Ask, RefInv, SourcesHeld, Held, Source, RefsFreedLast,
       Alone, AndroidInv, Starting, Unsubtracted
  <2>6. ~AtomicAdd => PortableInv'
    BY <1>16, Positive DEF Ask, RefInv, PortableInv, RefsFreedLast,
       Unsubtracted
  <2> QED
    BY <2>1, <2>2, <2>3, <2>4, <2>5, <2>6 DEF RefInv
<1>17. ASSUME NEW h \in Ref, AttemptInc(h) PROVE RefInv'
  <2>1. CountsExact'
    BY <1>17, StepCounts DEF AttemptInc, RefInv, CountsExact, Unsubtracted
  <2>2. SourcesHeld'
    BY <1>17 DEF AttemptInc, RefInv, SourcesHeld, Held, Source
  <2>3. CurPositive'
    BY <1>17 DEF AttemptInc, RefInv, CurPositive
  <2>4. RefsFreedLast'
    BY <1>17, Positive DEF AttemptInc, RefInv, SourcesHeld, Held, Source, RefsFreedLast,
       Alone
  <2>5. AtomicAdd => AndroidInv'
    <3> SUFFICES ASSUME AtomicAdd PROVE AndroidInv'
      OBVIOUS
    <3>1. ~Unsubtracted /\ raw = "used"
      BY <1>17, Subtracted DEF AttemptInc, Starting
    <3>2. ~Unsubtracted'
      BY <1>17, <3>1, StepCounts DEF AttemptInc, RefInv, CountsExact, Unsubtracted
    <3>3. mStrong \in Nat
      BY Positive DEF RefInv
    <3> QED
      BY <1>17, <3>1, <3>2, <3>3 DEF AttemptInc, RefInv, AndroidInv, CurPositive, Alone, Starting, Unsubtracted,
         RefsFreedLast, SourcesHeld
  <2>6. ~AtomicAdd => PortableInv'
    BY <1>17, Positive DEF AttemptInc, RefInv, PortableInv, RefsFreedLast,
       Unsubtracted
  <2> QED
    BY <2>1, <2>2, <2>3, <2>4, <2>5, <2>6 DEF RefInv
<1>18. ASSUME NEW h \in Ref, CmpxchgWeak(h) PROVE RefInv'
  <2>1. CountsExact'
    BY <1>18, StepCounts DEF CmpxchgWeak, RefInv, CountsExact, Unsubtracted
  <2>2. SourcesHeld'
    BY <1>18 DEF CmpxchgWeak, RefInv, SourcesHeld, Held, Source
  <2>3. CurPositive'
    BY <1>18 DEF CmpxchgWeak, RefInv, CurPositive
  <2>4. RefsFreedLast'
    BY <1>18, Positive DEF CmpxchgWeak, RefInv, SourcesHeld, Held, Source, RefsFreedLast,
       Alone
  <2>5. AtomicAdd => AndroidInv'
    BY <1>18, Positive DEF CmpxchgWeak, RefInv, SourcesHeld, Held, Source, RefsFreedLast,
       Alone, AndroidInv, Starting, Unsubtracted
  <2>6. ~AtomicAdd => PortableInv'
    BY <1>18, Positive DEF CmpxchgWeak, RefInv, PortableInv, RefsFreedLast,
       Unsubtracted
  <2> QED
    BY <2>1, <2>2, <2>3, <2>4, <2>5, <2>6 DEF RefInv
<1>19. CASE ExtendObjectLifetime
  BY <1>19 DEF ExtendObjectLifetime, RefInv, CountsExact, WeakCounted, StrongCounted,
     Unsubtracted, SourcesHeld, Held, CurPositive, RefsFreedLast, Alone, AndroidInv, Starting,
     PortableInv
<1>20. CASE UNCHANGED vars
  BY <1>20 DEF vars, RefInv, CountsExact, WeakCounted, StrongCounted,
     Unsubtracted, SourcesHeld, Held, CurPositive, RefsFreedLast, Alone, AndroidInv, Starting,
     PortableInv
<1> QED
  BY <1>1, <1>2, <1>3, <1>4, <1>5, <1>6, <1>7, <1>8, <1>9, <1>10,
     <1>11, <1>12, <1>13, <1>14, <1>15, <1>16, <1>17, <1>18, <1>19, <1>20 DEF Next, Continue

\* The inductive invariant holds in every build, provided that an _android build
\* hands out weak handles only once there is a strong one.
THEOREM RefInvariant ==
  ASSUME AtomicAdd => ~WeakFromRaw
  PROVE  Spec => []RefInv
<1>1. Init => RefInv
  <2> SUFFICES ASSUME Init PROVE RefInv
    OBVIOUS
  <2>1. WeakCounted = {} /\ StrongCounted = {}
    BY DEF Init, WeakCounted, StrongCounted
  <2>2. Cardinality(WeakCounted) = 0 /\ Cardinality(StrongCounted) = 0
    BY <2>1, FS_EmptySet
  <2>3. INITIAL_STRONG_VALUE \in Nat /\ INITIAL_STRONG_VALUE > 0
    BY RefAssumption, FS_CardinalityType
  <2>4. CountsExact
    BY <2>2, <2>3 DEF Init, CountsExact, Unsubtracted
  <2>5. SourcesHeld /\ CurPositive /\ RefsFreedLast
    BY RefAssumption DEF Init, SourcesHeld, Held, CurPositive, RefsFreedLast
  <2>6. AndroidInv /\ PortableInv
    BY <2>3 DEF Init, AndroidInv, PortableInv, Starting, Unsubtracted, OBJECT_LIFETIME_STRONG,
       OBJECT_LIFETIME_WEAK
  <2> QED
    BY <2>4, <2>5, <2>6 DEF RefInv
<1>2. TypeOK /\ RefInv /\ [Next]_vars => RefInv'
  BY RefInvStep
<1>3. QED
  BY <1>1, <1>2, TypeCorrect, PTL DEF Spec

\* What is used is there: an operation's own handle is counted, or the handle it
\* copies is.
LEMMA LiveInUse ==
  ASSUME TypeOK, RefInv
  PROVE  NoUseAfterFree
<1> SUFFICES ASSUME NEW h \in Ref
             PROVE  /\ pc[h] # "none" => refs = "live"
                    /\ UsesBase(h)    => base = "live"
  BY DEF NoUseAfterFree
<1> USE DEF TypeOK, OBJECT_LIFETIME_STRONG, OBJECT_LIFETIME_WEAK
<1>1. pc[h] # "none" => refs = "live"
  BY DEF RefInv, RefsFreedLast
<1>2. UsesBase(h) => pc[h] # "none"
  BY DEF UsesBase
<1>3. CASE ~AtomicAdd
  BY <1>1, <1>2, <1>3 DEF RefInv, PortableInv
<1>4. CASE AtomicAdd /\ mFlags = OBJECT_LIFETIME_WEAK
  BY <1>1, <1>2, <1>4 DEF RefInv, AndroidInv
<1>5. CASE AtomicAdd /\ mFlags = OBJECT_LIFETIME_STRONG
  <2> SUFFICES ASSUME UsesBase(h) PROVE base = "live"
    BY <1>1
  <2>1. CASE pc[h] \in {"strong", "firstAdd", "onFirstRef"}
    <3>1. mStrong >= 1 /\ mStrong \in Nat
      BY <2>1, Positive DEF RefInv
    <3> QED
      BY <1>5, <3>1 DEF RefInv, AndroidInv
  <2>2. CASE pc[h] \in {"incStrong", "forceIncStrong"}
    <3>1. CASE Starting(h)
      <4>1. Unsubtracted
        BY <1>5, <3>1 DEF RefInv, AndroidInv
      <4>2. mStrong \in Nat /\ INITIAL_STRONG_VALUE > 0
        BY Positive DEF RefInv
      <4>3. mStrong # 0
        BY <4>1, <4>2, RefAssumption DEF Unsubtracted
      <4> QED
        BY <1>5, <4>3 DEF RefInv, AndroidInv
    <3>2. CASE ~Starting(h)
      <4>1. src[h] \in Ref /\ pc[src[h]] = "strong"
        BY <1>5, <2>2, <3>2 DEF Starting, RefInv, SourcesHeld
      <4>2. mStrong >= 1 /\ mStrong \in Nat
        BY <4>1, Positive DEF RefInv
      <4> QED
        BY <1>5, <4>2 DEF RefInv, AndroidInv
    <3> QED
      BY <3>1, <3>2
  <2>3. CASE pc[h] = "onLastStrongRef"
    BY <1>5, <2>3 DEF RefInv, AndroidInv
  <2>4. CASE pc[h] = "onLastWeakRef" /\ mStrong = INITIAL_STRONG_VALUE
    <3>1. mStrong # 0
      BY <2>4, Positive DEF RefInv
    <3> QED
      BY <1>5, <3>1 DEF RefInv, AndroidInv
  <2> QED
    BY <1>5, <2>1, <2>2, <2>3, <2>4 DEF UsesBase
<1> QED
  BY <1>1, <1>3, <1>4, <1>5

\* No operation and no holder ever reaches a freed object or a freed WeakRefImpl.
THEOREM UseAfterFreeFree ==
  ASSUME AtomicAdd => ~WeakFromRaw
  PROVE  Spec => []NoUseAfterFree
  BY LiveInUse, TypeCorrect, RefInvariant, PTL

\* Once every handle is dropped, the object and its WeakRefImpl have been freed.
THEOREM LeakFree ==
  ASSUME AtomicAdd => ~WeakFromRaw
  PROVE  Spec => []NoLeak
<1>1. ASSUME TypeOK, RefInv PROVE NoLeak
  BY <1>1 DEF TypeOK, RefInv, RefsFreedLast, NoLeak
<1>2. QED
  BY <1>1, TypeCorrect, RefInvariant, PTL

\* In an _android build the object of regular lifetime goes with its last strong
\* reference, whatever weak ones remain.
THEOREM DestroyedWithLast ==
  ASSUME AtomicAdd, ~WeakFromRaw
  PROVE  Spec => []DestroyedWithLastStrong
<1>1. ASSUME TypeOK, RefInv PROVE DestroyedWithLastStrong
  <2> SUFFICES ASSUME mFlags = OBJECT_LIFETIME_STRONG, raw = "used",
                      \A h \in Ref : pc[h] \in {"none", "weak", "readStrong", "cmpxchgStrong",
                                               "ask", "cmpxchgWeak"},
                      base = "live"
               PROVE  FALSE
    BY <1>1 DEF DestroyedWithLastStrong, TypeOK
  <2>1. ~Unsubtracted
    BY <1>1 DEF RefInv, AndroidInv, Starting
  <2>2. mStrong \in {0, INITIAL_STRONG_VALUE} /\ INITIAL_STRONG_VALUE > 0
    BY <1>1, Positive DEF RefInv
  <2>3. mStrong = 0
    BY <2>1, <2>2, RefAssumption DEF Unsubtracted
  <2> QED
    BY <1>1, <2>3 DEF RefInv, AndroidInv
<1>2. QED
  BY <1>1, TypeCorrect, RefInvariant, PTL

\* In an _android build no interleaving of Resolve, AddRef and Release brings the
\* strong count of an object of regular lifetime back from 0.
THEOREM RevivalFree ==
  ASSUME AtomicAdd, ~WeakFromRaw
  PROVE  Spec => NoRevival
<1>1. ASSUME TypeOK, RefInv, [Next]_vars
      PROVE  [mFlags = OBJECT_LIFETIME_STRONG /\ mStrong = 0 => mStrong' <= 0]_vars
  <2> SUFFICES ASSUME mFlags = OBJECT_LIFETIME_STRONG, mStrong = 0 PROVE mStrong' <= 0
    OBVIOUS
  <2>1. \A h \in Ref : pc[h] \notin {"strong", "firstAdd", "onFirstRef"}
    BY <1>1, Positive DEF RefInv
  <2>2. INITIAL_STRONG_VALUE > 0
    BY <1>1, Positive DEF RefInv
  <2>3. ~Unsubtracted
    BY <2>2, RefAssumption DEF Unsubtracted
  <2>4. \A h \in Ref : pc[h] \notin {"incStrong", "forceIncStrong"}
    BY <1>1, <2>1, <2>3 DEF RefInv, SourcesHeld, AndroidInv, Starting, TypeOK
  <2>5. \A h \in Ref : pc[h] # "attemptInc"
    BY <1>1 DEF RefInv, AndroidInv
  <2>6. \A h \in Ref : pc[h] = "cmpxchgStrong" => cur[h] # mStrong
    BY <1>1 DEF RefInv, CurPositive
  <2>7. UNCHANGED mStrong
    BY <1>1, <2>1, <2>4, <2>5, <2>6
       DEF Next, Continue, ExtendObjectLifetime, IncStrong, ForceIncStrong, CreateWeak,
           AttemptIncStrong, AttemptIncWeak, DecStrong, DecWeak, IncStrongCount,
           ForceIncStrongCount, FirstAdd, OnFirstRef, OnLastStrongRef, OnLastWeakRef, ReadStrong,
           CmpxchgStrong, Ask, AttemptInc, CmpxchgWeak, vars
  <2> QED
    BY <2>7
<1>2. QED
  BY <1>1, TypeCorrect, RefInvariant, PTL DEF Spec, NoRevival

\* Every step of an _android build preserves HooksInv: only the creator's AddRef
\* reaches OnFirstRef, and the one that brings the strong count to 0 deletes.
LEMMA HooksInvStep ==
  ASSUME TypeOK, RefInv, HooksInv, [Next]_vars, AtomicAdd, ~WeakFromRaw
  PROVE  HooksInv'
<1> USE RefAssumption DEF TypeOK, Labels, OBJECT_LIFETIME_STRONG, OBJECT_LIFETIME_WEAK, Goto,
                          Return, CopyFrom
<1> SUFFICES ASSUME mFlags' = OBJECT_LIFETIME_STRONG PROVE HooksInv'
  BY DEF HooksInv
<1>0. mFlags = OBJECT_LIFETIME_STRONG
  BY DEF Next, Continue, ExtendObjectLifetime, IncStrong, ForceIncStrong, CreateWeak,
         AttemptIncStrong, AttemptIncWeak, DecStrong, DecWeak, IncStrongCount,
         ForceIncStrongCount, FirstAdd, OnFirstRef, OnLastStrongRef, OnLastWeakRef, ReadStrong,
         CmpxchgStrong, Ask, AttemptInc, CmpxchgWeak, vars
<1>1. ASSUME NEW h \in Ref, IncStrong(h) PROVE HooksInv'
  BY <1>0, <1>1, Positive DEF IncStrong, HooksInv, RefInv, RefsFreedLast, AndroidInv, SourcesHeld, Alone,
     Starting, Unsubtracted
<1>2. ASSUME NEW h \in Ref, ForceIncStrong(h) PROVE HooksInv'
  BY <1>0, <1>2, Positive DEF ForceIncStrong, HooksInv, RefInv, RefsFreedLast, AndroidInv, SourcesHeld, Alone,
     Starting, Unsubtracted
<1>3. ASSUME NEW h \in Ref, CreateWeak(h) PROVE HooksInv'
  BY <1>0, <1>3 DEF CreateWeak, HooksInv, RefInv, RefsFreedLast, Held, Alone, Unsubtracted
<1>4. ASSUME NEW h \in Ref, AttemptIncStrong(h) PROVE HooksInv'
  BY <1>0, <1>4, Positive DEF AttemptIncStrong, HooksInv, RefInv, RefsFreedLast, AndroidInv, SourcesHeld, Alone,
     Starting, Unsubtracted
<1>5. ASSUME NEW h \in Ref, AttemptIncWeak(h) PROVE HooksInv'
  BY <1>0, <1>5, Positive DEF AttemptIncWeak, HooksInv, RefInv, RefsFreedLast, AndroidInv, SourcesHeld, Alone,
     Starting, Unsubtracted
<1>6. ASSUME NEW h \in Ref, DecStrong(h) PROVE HooksInv'
  BY <1>0, <1>6, Positive DEF DecStrong, HooksInv, RefInv, RefsFreedLast, AndroidInv, SourcesHeld, Alone,
     Starting, Unsubtracted
<1>7. ASSUME NEW h \in Ref, DecWeak(h) PROVE HooksInv'
  BY <1>0, <1>7, Positive DEF DecWeak, HooksInv, RefInv, RefsFreedLast, AndroidInv, SourcesHeld, Alone,
     Starting, Unsubtracted
<1>8. ASSUME NEW h \in Ref, IncStrongCount(h) PROVE HooksInv'
  <2>1. mStrong \in Nat
    BY Positive DEF RefInv
  <2>2. CASE Starting(h)
    <3>1. Alone(h) /\ raw = "used" /\ mStrong = INITIAL_STRONG_VALUE /\ Unsubtracted
      BY <1>8, <2>2, Subtracted DEF IncStrongCount
    <3> QED
      BY <1>0, <1>8, <2>1, <2>2, <3>1 DEF IncStrongCount, HooksInv, Alone, Unsubtracted
  <2>3. CASE ~Starting(h)
    <3>1. ~Unsubtracted /\ raw = "used"
      BY <1>8, <2>3, Subtracted DEF IncStrongCount
    <3>2. ~Unsubtracted'
      BY <1>8, <3>1, StepCounts DEF IncStrongCount, RefInv, CountsExact, Unsubtracted
    <3>3. src[h] \in Ref /\ pc[src[h]] = "strong"
      BY <1>0, <1>8, <2>3 DEF IncStrongCount, Starting, RefInv, SourcesHeld
    <3>4. mStrong # 0 /\ mStrong # INITIAL_STRONG_VALUE
      BY <2>1, <3>3, Positive DEF RefInv
    <3> QED
      BY <1>0, <1>8, <3>1, <3>2, <3>3, <3>4 DEF IncStrongCount, HooksInv, Alone
  <2> QED
    BY <2>2, <2>3
<1>9. ASSUME NEW h \in Ref, ForceIncStrongCount(h) PROVE HooksInv'
  <2>1. mStrong \in Nat
    BY Positive DEF RefInv
  <2>2. CASE Starting(h)
    <3>1. Alone(h) /\ raw = "used" /\ mStrong = INITIAL_STRONG_VALUE /\ Unsubtracted
      BY <1>9, <2>2, Subtracted DEF ForceIncStrongCount
    <3> QED
      BY <1>0, <1>9, <2>1, <2>2, <3>1 DEF ForceIncStrongCount, HooksInv, Alone, Unsubtracted
  <2>3. CASE ~Starting(h)
    <3>1. ~Unsubtracted /\ raw = "used"
      BY <1>9, <2>3, Subtracted DEF ForceIncStrongCount
    <3>2. ~Unsubtracted'
      BY <1>9, <3>1, StepCounts DEF ForceIncStrongCount, RefInv, CountsExact, Unsubtracted
    <3>3. src[h] \in Ref /\ pc[src[h]] = "strong"
      BY <1>0, <1>9, <2>3 DEF ForceIncStrongCount, Starting, RefInv, SourcesHeld
    <3>4. mStrong # 0 /\ mStrong # INITIAL_STRONG_VALUE
      BY <2>1, <3>3, Positive DEF RefInv
    <3> QED
      BY <1>0, <1>9, <3>1, <3>2, <3>3, <3>4 DEF ForceIncStrongCount, HooksInv, Alone
  <2> QED
    BY <2>2, <2>3
<1>10. ASSUME NEW h \in Ref, FirstAdd(h) PROVE HooksInv'
  BY <1>0, <1>10, Positive DEF FirstAdd, HooksInv, RefInv, RefsFreedLast, AndroidInv, SourcesHeld, Alone,
     Starting, Unsubtracted
<1>11. ASSUME NEW h \in Ref, OnFirstRef(h) PROVE HooksInv'
  BY <1>0, <1>11, Positive DEF OnFirstRef, OneMore, HooksInv, RefInv, RefsFreedLast, AndroidInv, SourcesHeld, Alone,
     Starting, Unsubtracted
<1>12. ASSUME NEW h \in Ref, OnLastStrongRef(h) PROVE HooksInv'
  BY <1>0, <1>12, Positive DEF OnLastStrongRef, DeleteBase, OneMore, HooksInv, RefInv, RefsFreedLast, AndroidInv, SourcesHeld, Alone,
     Starting, Unsubtracted
<1>13. ASSUME NEW h \in Ref, OnLastWeakRef(h) PROVE HooksInv'
  BY <1>0, <1>13, Positive DEF OnLastWeakRef, DeleteBase, HooksInv, RefInv, RefsFreedLast, AndroidInv, SourcesHeld, Alone,
     Starting, Unsubtracted
<1>14. ASSUME NEW h \in Ref, ReadStrong(h) PROVE HooksInv'
  BY <1>0, <1>14, Positive DEF ReadStrong, HooksInv, RefInv, RefsFreedLast, AndroidInv, SourcesHeld, Alone,
     Starting, Unsubtracted
<1>15. ASSUME NEW h \in Ref, CmpxchgStrong(h) PROVE HooksInv'
  <2>1. ~Unsubtracted /\ raw = "used"
    BY <1>15, Subtracted DEF CmpxchgStrong, Starting
  <2>2. ~Unsubtracted'
    BY <1>15, <2>1, StepCounts DEF CmpxchgStrong, RefInv, CountsExact, Unsubtracted
  <2> QED
    BY <1>0, <1>15, <2>1, <2>2 DEF CmpxchgStrong, HooksInv, Alone
<1>16. ASSUME NEW h \in Ref, Ask(h) PROVE HooksInv'
  BY <1>0, <1>16, Positive DEF Ask, HooksInv, RefInv, RefsFreedLast, AndroidInv, SourcesHeld, Alone,
     Starting, Unsubtracted
<1>17. ASSUME NEW h \in Ref, AttemptInc(h) PROVE HooksInv'
  BY <1>0, <1>17, Positive DEF AttemptInc, OneMore, HooksInv, RefInv, RefsFreedLast, AndroidInv, SourcesHeld, Alone,
     Starting, Unsubtracted
<1>18. ASSUME NEW h \in Ref, CmpxchgWeak(h) PROVE HooksInv'
  BY <1>0, <1>18, Positive DEF CmpxchgWeak, HooksInv, RefInv, RefsFreedLast, AndroidInv, SourcesHeld, Alone,
     Starting, Unsubtracted
<1>19. CASE ExtendObjectLifetime
  BY <1>0, <1>19 DEF ExtendObjectLifetime, HooksInv, Alone, Unsubtracted
<1>20. CASE UNCHANGED vars
  BY <1>20 DEF vars, HooksInv, Alone, Unsubtracted
<1> QED
  BY <1>1, <1>2, <1>3, <1>4, <1>5, <1>6, <1>7, <1>8, <1>9, <1>10,
     <1>11, <1>12, <1>13, <1>14, <1>15, <1>16, <1>17, <1>18, <1>19, <1>20 DEF Next, Continue

\* HooksInv is an invariant of the _android build.
THEOREM HooksInvariant ==
  ASSUME AtomicAdd, ~WeakFromRaw
  PROVE  Spec => []HooksInv
<1>1. Init => HooksInv
  BY DEF Init, HooksInv
<1>2. TypeOK /\ RefInv /\ HooksInv /\ [Next]_vars => HooksInv'
  BY HooksInvStep
<1>3. QED
  BY <1>1, <1>2, TypeCorrect, RefInvariant, PTL DEF Spec

\* In an _android build an object of regular lifetime gets OnFirstRef once and,
\* before it is deleted, OnLastStrongRef once.
THEOREM HooksCalledOnce ==
  ASSUME AtomicAdd, ~WeakFromRaw
  PROVE  Spec => []HooksOnce
<1>1. ASSUME TypeOK, RefInv, HooksInv PROVE HooksOnce
  <2> SUFFICES ASSUME mFlags = OBJECT_LIFETIME_STRONG
               PROVE  /\ firstCalls <= 1 /\ lastCalls <= firstCalls
                      /\ base = "deleted" => lastCalls = 1
    BY DEF HooksOnce
  <2>1. firstCalls \in {0, 1} /\ lastCalls \in {0, 1}
    BY <1>1 DEF HooksInv
  <2>2. base = "deleted" <=> lastCalls = 1
    BY <1>1 DEF HooksInv
  <2>3. ASSUME base = "deleted" PROVE firstCalls = 1
    <3>1. mStrong = 0
      BY <1>1, <2>3 DEF RefInv, AndroidInv
    <3>2. INITIAL_STRONG_VALUE > 0
      BY <1>1, Positive DEF RefInv
    <3>3. ~Unsubtracted
      BY <3>1, <3>2, RefAssumption DEF Unsubtracted
    <3>4. \A h \in Ref : pc[h] # "onFirstRef"
      BY <1>1, <3>1, Positive DEF RefInv
    <3>5. raw = "used"
      BY <1>1, <2>3 DEF RefInv, RefsFreedLast, TypeOK
    <3> QED
      BY <1>1, <3>3, <3>4, <3>5 DEF HooksInv
  <2> QED
    BY <1>1, <2>1, <2>2, <2>3 DEF TypeOK
<1>2. QED
  BY <1>1, TypeCorrect, RefInvariant, HooksInvariant, PTL

\* -- ObjectLifetime ----------------------------------------------------------
\* Until OnFirstRef was called there is nobody but the creator, who is on the way to it.
FirstInv ==
  /\ raw = "unused" => firstCalls = 0
  /\ raw = "used" /\ firstCalls = 0 =>
       \E h \in Ref : Alone(h) /\ (Starting(h) \/ pc[h] = "onFirstRef")

\* Before the first OnFirstRef, an operation in progress is the creator's.
LEMMA Creator ==
  ASSUME TypeOK, RefInv, FirstInv, NEW h \in Ref, pc[h] # "none", firstCalls = 0
  PROVE  Alone(h) /\ (Starting(h) \/ pc[h] = "onFirstRef")
<1>1. raw = "used"
  BY DEF RefInv, RefsFreedLast, TypeOK
<1>2. PICK k \in Ref : Alone(k) /\ (Starting(k) \/ pc[k] = "onFirstRef")
  BY <1>1 DEF FirstInv
<1>3. k = h
  BY <1>2 DEF Alone
<1> QED
  BY <1>2, <1>3

\* A step on a handle that is on its way to the first OnFirstRef, or taken after it.
LEMMA FirstKept ==
  ASSUME TypeOK, RefInv, FirstInv, NEW h \in Ref, pc[h] # "none", NEW l \in Labels,
         pc' = [pc EXCEPT ![h] = l], UNCHANGED <<raw, firstCalls>>,
         firstCalls = 0 => Starting(h)' \/ l = "onFirstRef"
  PROVE  FirstInv'
<1>1. raw = "used"
  BY DEF RefInv, RefsFreedLast, TypeOK
<1>2. CASE firstCalls # 0
  BY <1>1, <1>2 DEF FirstInv
<1>3. CASE firstCalls = 0
  <2>1. Alone(h)
    BY <1>3, Creator
  <2>2. Alone(h)' /\ pc'[h] = l
    BY <2>1 DEF Alone, TypeOK
  <2> QED
    BY <1>1, <1>3, <2>2 DEF FirstInv
<1> QED
  BY <1>2, <1>3

\* Every step of an _android build preserves FirstInv.
LEMMA FirstInvStep ==
  ASSUME TypeOK, RefInv, FirstInv, [Next]_vars, AtomicAdd, ~WeakFromRaw
  PROVE  FirstInv'
<1> USE RefAssumption DEF TypeOK, Labels, OBJECT_LIFETIME_STRONG, OBJECT_LIFETIME_WEAK, Goto,
                          Return, CopyFrom
<1>1. ASSUME NEW h \in Ref, NEW kinds \in SUBSET {"strong", "weak"}, NEW rawOk \in BOOLEAN,
             NEW l \in Labels, CopyFrom(h, kinds, rawOk, l), UNCHANGED firstCalls,
             rawOk => l \in {"incStrong", "forceIncStrong"}
      PROVE  FirstInv'
  <2>1. CASE \E s \in Ref : pc[s] \in kinds /\ UNCHANGED raw
    <3>1. PICK s \in Ref : pc[s] \in {"strong", "weak"} /\ UNCHANGED raw
      BY <2>1
    <3>2. firstCalls # 0
      BY <3>1, Creator DEF Starting
    <3>3. raw = "used"
      BY <3>1 DEF RefInv, RefsFreedLast
    <3> QED
      BY <1>1, <3>1, <3>2, <3>3 DEF FirstInv
  <2>2. CASE raw = "unused" /\ rawOk /\ raw' = "used" /\ UNCHANGED src
    <3>1. \A g \in Ref : pc[g] = "none" /\ src[g] = NoRef
      BY <2>2 DEF RefInv, RefsFreedLast, SourcesHeld
    <3>2. pc'[h] = l /\ src'[h] = NoRef /\ \A g \in Ref \ {h} : pc'[g] = "none"
      BY <1>1, <2>2, <3>1
    <3>3. Alone(h)' /\ Starting(h)'
      BY <1>1, <2>2, <3>2 DEF Alone, Starting
    <3> QED
      BY <2>2, <3>3 DEF FirstInv
  <2> QED
    BY <1>1, <2>1, <2>2
<1>2. ASSUME NEW h \in Ref, IncStrong(h) PROVE FirstInv'
  BY <1>1, <1>2 DEF IncStrong
<1>3. ASSUME NEW h \in Ref, ForceIncStrong(h) PROVE FirstInv'
  <2>1. {"strong"} \cup (IF mFlags = OBJECT_LIFETIME_WEAK THEN {"weak"} ELSE {})
          \in SUBSET {"strong", "weak"}
    OBVIOUS
  <2> QED
    BY <1>1, <1>3, <2>1 DEF ForceIncStrong
<1>4. ASSUME NEW h \in Ref, AttemptIncStrong(h) PROVE FirstInv'
  BY <1>1, <1>4 DEF AttemptIncStrong
<1>5. ASSUME NEW h \in Ref, AttemptIncWeak(h) PROVE FirstInv'
  BY <1>1, <1>5 DEF AttemptIncWeak
<1>6. ASSUME NEW h \in Ref, CreateWeak(h) PROVE FirstInv'
  <2>1. PICK s \in Ref : Held(s) /\ UNCHANGED raw
    BY <1>6 DEF CreateWeak
  <2>2. firstCalls # 0
    BY <2>1, Creator DEF Held, Starting
  <2>3. raw = "used"
    BY <2>1 DEF RefInv, RefsFreedLast, Held
  <2> QED
    BY <1>6, <2>1, <2>2, <2>3 DEF CreateWeak, FirstInv
<1>7. ASSUME NEW h \in Ref, pc[h] \notin {"none", "incStrong", "forceIncStrong", "firstAdd",
                                         "onFirstRef"},
             NEW l \in Labels, pc' = [pc EXCEPT ![h] = l], UNCHANGED <<raw, firstCalls>>
      PROVE  FirstInv'
  <2>1. firstCalls # 0
    BY <1>7, Creator DEF Starting
  <2> QED
    BY <1>7, <2>1, FirstKept
<1>8. ASSUME NEW h \in Ref, DecStrong(h) PROVE FirstInv'
  BY <1>7, <1>8 DEF DecStrong
<1>9. ASSUME NEW h \in Ref, DecWeak(h) PROVE FirstInv'
  BY <1>7, <1>9 DEF DecWeak
<1>10. ASSUME NEW h \in Ref, IncStrongCount(h) PROVE FirstInv'
  <2>1. ASSUME firstCalls = 0 PROVE Starting(h) /\ mStrong = INITIAL_STRONG_VALUE
    <3>1. Starting(h)
      BY <1>10, <2>1, Creator DEF IncStrongCount
    <3> QED
      BY <1>10, <3>1, Subtracted DEF IncStrongCount
  <2>2. CASE mStrong = INITIAL_STRONG_VALUE
    <3>1. pc' = [pc EXCEPT ![h] = "firstAdd"] /\ Starting(h)' /\ pc[h] # "none"
      BY <1>10, <2>2 DEF IncStrongCount, Starting
    <3> QED
      BY <1>10, <3>1, FirstKept DEF IncStrongCount
  <2>3. CASE mStrong # INITIAL_STRONG_VALUE
    BY <1>10, <2>1, <2>3, FirstKept DEF IncStrongCount
  <2> QED
    BY <2>2, <2>3
<1>11. ASSUME NEW h \in Ref, ForceIncStrongCount(h) PROVE FirstInv'
  <2>1. ASSUME firstCalls = 0 PROVE Starting(h) /\ mStrong = INITIAL_STRONG_VALUE
    <3>1. Starting(h)
      BY <1>11, <2>1, Creator DEF ForceIncStrongCount
    <3> QED
      BY <1>11, <3>1, Subtracted DEF ForceIncStrongCount
  <2>2. INITIAL_STRONG_VALUE > 0
    BY Positive DEF RefInv
  <2>3. CASE mStrong = INITIAL_STRONG_VALUE
    <3>1. pc' = [pc EXCEPT ![h] = "firstAdd"] /\ Starting(h)' /\ pc[h] # "none"
      BY <1>11, <2>2, <2>3 DEF ForceIncStrongCount, Starting
    <3> QED
      BY <1>11, <3>1, FirstKept DEF ForceIncStrongCount
  <2>4. CASE mStrong # INITIAL_STRONG_VALUE
    BY <1>11, <2>1, <2>4, FirstKept DEF ForceIncStrongCount
  <2> QED
    BY <2>3, <2>4
<1>12. ASSUME NEW h \in Ref, FirstAdd(h) PROVE FirstInv'
  BY <1>12, FirstKept DEF FirstAdd
<1>13. ASSUME NEW h \in Ref, OnFirstRef(h) PROVE FirstInv'
  <2>1. raw = "used"
    BY <1>13 DEF OnFirstRef, RefInv, RefsFreedLast
  <2>2. firstCalls' # 0
    BY <1>13 DEF OnFirstRef, OneMore
  <2> QED
    BY <1>13, <2>1, <2>2 DEF OnFirstRef, FirstInv
<1>14. ASSUME NEW h \in Ref, OnLastStrongRef(h) PROVE FirstInv'
  BY <1>7, <1>14 DEF OnLastStrongRef
<1>15. ASSUME NEW h \in Ref, OnLastWeakRef(h) PROVE FirstInv'
  BY <1>7, <1>15 DEF OnLastWeakRef
<1>16. ASSUME NEW h \in Ref, ReadStrong(h) PROVE FirstInv'
  BY <1>7, <1>16 DEF ReadStrong
<1>17. ASSUME NEW h \in Ref, CmpxchgStrong(h) PROVE FirstInv'
  BY <1>7, <1>17 DEF CmpxchgStrong
<1>18. ASSUME NEW h \in Ref, Ask(h) PROVE FirstInv'
  BY <1>7, <1>18 DEF Ask
<1>19. ASSUME NEW h \in Ref, AttemptInc(h) PROVE FirstInv'
  BY <1>7, <1>19 DEF AttemptInc
<1>20. ASSUME NEW h \in Ref, CmpxchgWeak(h) PROVE FirstInv'
  BY <1>7, <1>20 DEF CmpxchgWeak
<1>21. CASE ExtendObjectLifetime
  BY <1>21 DEF ExtendObjectLifetime, FirstInv
<1>22. CASE UNCHANGED vars
  BY <1>22 DEF vars, FirstInv, Alone, Starting
<1> QED
  BY <1>2, <1>3, <1>4, <1>5, <1>6, <1>8, <1>9, <1>10, <1>11, <1>12, <1>13,
     <1>14, <1>15, <1>16, <1>17, <1>18, <1>19, <1>20, <1>21, <1>22 DEF Next, Continue

\* FirstInv is an invariant of the _android build.
THEOREM FirstInvariant ==
  ASSUME AtomicAdd, ~WeakFromRaw
  PROVE  Spec => []FirstInv
<1>1. Init => FirstInv
  BY DEF Init, FirstInv
<1>2. TypeOK /\ RefInv /\ FirstInv /\ [Next]_vars => FirstInv'
  BY FirstInvStep
<1>3. QED
  BY <1>1, <1>2, TypeCorrect, RefInvariant, PTL DEF Spec

\* A step that neither makes nor drops a holder is no step of ObjectLifetime.
LEMMA Stutters ==
  ASSUME TypeOK, NEW h \in Ref, NEW l \in Labels, pc[h] # "strong", l # "strong",
         pc' = [pc EXCEPT ![h] = l], UNCHANGED <<base, firstCalls, mFlags>>
  PROVE  UNCHANGED Lifetime!lifetimeVars
<1>1. {g \in Ref : pc[g] = "strong"} = {g \in Ref : pc'[g] = "strong"}
  BY DEF TypeOK
<1> QED
  BY <1>1 DEF Lifetime!lifetimeVars

\* A handle that becomes strong is an Acquire.
LEMMA Acquires ==
  ASSUME TypeOK, NEW h \in Ref, pc[h] # "strong", pc' = [pc EXCEPT ![h] = "strong"],
         base = "live", UNCHANGED <<base, mFlags>>, firstCalls' # 0,
         \/ firstCalls = 0
         \/ \E g \in Ref : pc[g] = "strong"
         \/ mFlags = OBJECT_LIFETIME_WEAK
  PROVE  Lifetime!Acquire(h)
<1>1. {g \in Ref : pc'[g] = "strong"} = {g \in Ref : pc[g] = "strong"} \cup {h}
  BY DEF TypeOK
<1>2. h \notin {g \in Ref : pc[g] = "strong"}
  OBVIOUS
<1>3. (\E g \in Ref : pc[g] = "strong") => {g \in Ref : pc[g] = "strong"} # {}
  OBVIOUS
<1> QED
  BY <1>1, <1>2, <1>3 DEF Lifetime!Acquire

\* A strong handle that is given up is a Drop.
LEMMA Drops ==
  ASSUME TypeOK, NEW h \in Ref, NEW l \in Labels, pc[h] = "strong", l # "strong",
         pc' = [pc EXCEPT ![h] = l], UNCHANGED <<base, firstCalls, mFlags>>
  PROVE  Lifetime!Drop(h)
<1>1. {g \in Ref : pc'[g] = "strong"} = {g \in Ref : pc[g] = "strong"} \ {h}
  BY DEF TypeOK
<1> QED
  BY <1>1 DEF Lifetime!Drop

\* The delete of the object nobody holds is a Destroy.
LEMMA Destroys ==
  ASSUME TypeOK, NEW h \in Ref, NEW l \in Labels, \A g \in Ref : pc[g] # "strong",
         l # "strong", pc' = [pc EXCEPT ![h] = l], UNCHANGED <<firstCalls, mFlags>>,
         base = "live", base' = "deleted", firstCalls # 0
  PROVE  Lifetime!Destroy
<1>1. /\ {g \in Ref : pc[g] = "strong"} = {}
      /\ {g \in Ref : pc'[g] = "strong"} = {}
  BY DEF TypeOK
<1> QED
  BY <1>1 DEF Lifetime!Destroy

\* Every step of an _android build is a step of ObjectLifetime, or changes nothing there.
LEMMA LifetimeStep ==
  ASSUME TypeOK, RefInv, HooksInv, FirstInv, [Next]_vars, AtomicAdd, ~WeakFromRaw
  PROVE  [Lifetime!LNext]_(Lifetime!lifetimeVars)
<1> USE RefAssumption DEF TypeOK, Labels, OBJECT_LIFETIME_STRONG, OBJECT_LIFETIME_WEAK, Goto,
                          Return, CopyFrom
<1> DEFINE Simulated == Lifetime!LNext \/ UNCHANGED Lifetime!lifetimeVars
<1>a. ASSUME NEW h \in Ref, Lifetime!Acquire(h) \/ Lifetime!Drop(h) PROVE Simulated
  BY <1>a DEF Lifetime!LNext
<1>b. ASSUME Lifetime!Destroy PROVE Simulated
  BY <1>b DEF Lifetime!LNext
<1>c. ASSUME NEW h \in Ref, UsesBase(h) PROVE base = "live"
  BY <1>c, LiveInUse DEF NoUseAfterFree
<1>d. ASSUME NEW h \in Ref, pc[h] \notin {"none", "incStrong", "forceIncStrong", "firstAdd",
                                         "onFirstRef"}
      PROVE  firstCalls # 0
  BY <1>d, Creator DEF Starting
<1>1. ASSUME NEW h \in Ref, NEW l \in Labels, pc[h] # "strong", l # "strong",
             pc' = [pc EXCEPT ![h] = l], UNCHANGED <<base, firstCalls, mFlags>>
      PROVE  Simulated
  BY <1>1, Stutters
<1> HIDE DEF Simulated
<1>2. ASSUME NEW h \in Ref, IncStrong(h) PROVE Simulated
  BY <1>1, <1>2 DEF IncStrong
<1>3. ASSUME NEW h \in Ref, ForceIncStrong(h) PROVE Simulated
  BY <1>1, <1>3 DEF ForceIncStrong
<1>4. ASSUME NEW h \in Ref, CreateWeak(h) PROVE Simulated
  BY <1>1, <1>4 DEF CreateWeak
<1>5. ASSUME NEW h \in Ref, AttemptIncStrong(h) PROVE Simulated
  BY <1>1, <1>5 DEF AttemptIncStrong
<1>6. ASSUME NEW h \in Ref, AttemptIncWeak(h) PROVE Simulated
  BY <1>1, <1>6 DEF AttemptIncWeak
<1>7. ASSUME NEW h \in Ref, DecStrong(h) PROVE Simulated
  <2>1. Lifetime!Drop(h)
    BY <1>7, Drops DEF DecStrong
  <2> QED
    BY <1>a, <2>1
<1>8. ASSUME NEW h \in Ref, DecWeak(h) PROVE Simulated
  BY <1>1, <1>8 DEF DecWeak
<1>9. ASSUME NEW h \in Ref, IncStrongCount(h) PROVE Simulated
  <2>1. CASE mStrong = INITIAL_STRONG_VALUE
    BY <1>1, <1>9, <2>1 DEF IncStrongCount
  <2>2. CASE mStrong # INITIAL_STRONG_VALUE
    <3>1. ~Starting(h)
      BY <1>9, <2>2, Subtracted DEF IncStrongCount
    <3>2. src[h] \in Ref /\ pc[src[h]] = "strong"
      BY <1>9, <3>1 DEF IncStrongCount, Starting, RefInv, SourcesHeld
    <3>3. firstCalls # 0
      BY <1>d, <3>2
    <3>4. base = "live"
      BY <1>9, <1>c DEF IncStrongCount, UsesBase
    <3>5. Lifetime!Acquire(h)
      BY <1>9, <2>2, <3>2, <3>3, <3>4, Acquires DEF IncStrongCount
    <3> QED
      BY <1>a, <3>5
  <2> QED
    BY <2>1, <2>2
<1>10. ASSUME NEW h \in Ref, ForceIncStrongCount(h) PROVE Simulated
  <2>1. CASE mStrong = INITIAL_STRONG_VALUE \/ mStrong = 0
    <3>1. PICK l \in {"firstAdd", "onFirstRef"} : pc' = [pc EXCEPT ![h] = l]
      BY <1>10, <2>1 DEF ForceIncStrongCount
    <3> QED
      BY <1>1, <1>10, <3>1 DEF ForceIncStrongCount
  <2>2. CASE mStrong # INITIAL_STRONG_VALUE /\ mStrong # 0
    <3>1. ~Starting(h)
      BY <1>10, <2>2, Subtracted DEF ForceIncStrongCount
    <3>2. firstCalls # 0
      BY <1>10, <3>1, Creator DEF ForceIncStrongCount
    <3>3. base = "live"
      BY <1>10, <1>c DEF ForceIncStrongCount, UsesBase
    <3>4. mFlags = OBJECT_LIFETIME_WEAK \/ \E g \in Ref : pc[g] = "strong"
      BY <1>10, <3>1 DEF ForceIncStrongCount, Starting, RefInv, SourcesHeld
    <3>5. pc' = [pc EXCEPT ![h] = "strong"] /\ pc[h] # "strong"
          /\ UNCHANGED <<base, mFlags, firstCalls>>
      BY <1>10, <2>2 DEF ForceIncStrongCount
    <3>6. Lifetime!Acquire(h)
      BY <3>2, <3>3, <3>4, <3>5, Acquires
    <3> QED
      BY <1>a, <3>6
  <2> QED
    BY <2>1, <2>2
<1>11. ASSUME NEW h \in Ref, FirstAdd(h) PROVE Simulated
  BY <1>1, <1>11 DEF FirstAdd
<1>12. ASSUME NEW h \in Ref, OnFirstRef(h) PROVE Simulated
  <2>1. base = "live"
    BY <1>12, <1>c DEF OnFirstRef, UsesBase
  <2>2. firstCalls' # 0
    BY <1>12 DEF OnFirstRef, OneMore
  <2>3. firstCalls = 0 \/ mFlags = OBJECT_LIFETIME_WEAK
    BY <1>12 DEF OnFirstRef, HooksInv
  <2>4. Lifetime!Acquire(h)
    BY <1>12, <2>1, <2>2, <2>3, Acquires DEF OnFirstRef
  <2> QED
    BY <1>a, <2>4
<1>13. ASSUME NEW h \in Ref, OnLastStrongRef(h) PROVE Simulated
  <2>1. CASE mFlags = OBJECT_LIFETIME_STRONG
    <3>1. mStrong = 0 /\ base = "live"
      BY <1>13, <2>1 DEF OnLastStrongRef, RefInv, AndroidInv
    <3>2. \A g \in Ref : pc[g] # "strong"
      BY <3>1, Positive DEF RefInv
    <3>3. firstCalls # 0
      BY <1>13, <1>d DEF OnLastStrongRef
    <3>4. base' = "deleted" /\ pc' = [pc EXCEPT ![h] = "decWeak"]
          /\ UNCHANGED <<firstCalls, mFlags>>
      BY <1>13, <2>1 DEF OnLastStrongRef, DeleteBase
    <3>5. Lifetime!Destroy
      BY <3>1, <3>2, <3>3, <3>4, Destroys
    <3> QED
      BY <1>b, <3>5
  <2>2. CASE mFlags # OBJECT_LIFETIME_STRONG
    BY <1>1, <1>13, <2>2 DEF OnLastStrongRef
  <2> QED
    BY <2>1, <2>2
<1>14. ASSUME NEW h \in Ref, OnLastWeakRef(h) PROVE Simulated
  <2>1. CASE mFlags = OBJECT_LIFETIME_STRONG /\ mStrong # INITIAL_STRONG_VALUE
    BY <1>1, <1>14, <2>1 DEF OnLastWeakRef
  <2>2. CASE ~(mFlags = OBJECT_LIFETIME_STRONG /\ mStrong # INITIAL_STRONG_VALUE)
    <3>1. base = "live"
      BY <1>14, <1>c, <2>2 DEF OnLastWeakRef, UsesBase
    <3>2. \A g \in Ref : pc[g] # "strong"
      BY <1>14 DEF OnLastWeakRef, RefInv, RefsFreedLast, Alone
    <3>3. firstCalls # 0
      BY <1>14, <1>d DEF OnLastWeakRef
    <3>4. base' = "deleted" /\ pc' = [pc EXCEPT ![h] = "none"]
          /\ UNCHANGED <<firstCalls, mFlags>>
      BY <1>14, <2>2 DEF OnLastWeakRef, DeleteBase
    <3>5. Lifetime!Destroy
      BY <3>1, <3>2, <3>3, <3>4, Destroys
    <3> QED
      BY <1>b, <3>5
  <2> QED
    BY <2>1, <2>2
<1>15. ASSUME NEW h \in Ref, ReadStrong(h) PROVE Simulated
  BY <1>1, <1>15 DEF ReadStrong
<1>16. ASSUME NEW h \in Ref, CmpxchgStrong(h) PROVE Simulated
  <2>1. CASE mStrong # cur[h]
    BY <1>1, <1>16, <2>1 DEF CmpxchgStrong
  <2>2. CASE mStrong = cur[h]
    <3>1. pc[h] = "cmpxchgStrong" /\ mStrong > 0
      BY <1>16, <2>2 DEF CmpxchgStrong, RefInv, CurPositive
    <3>2. ~Unsubtracted
      BY <3>1, Subtracted DEF Starting
    <3>3. mStrong # INITIAL_STRONG_VALUE /\ mStrong # 0
      BY <3>1, <3>2 DEF Unsubtracted
    <3>4. PICK g \in Ref : pc[g] \in {"strong", "firstAdd", "onFirstRef"}
      BY <3>3, Positive DEF RefInv
    <3>5. pc[g] # "firstAdd"
      BY <3>2, <3>4, Subtracted DEF Starting
    <3>6. pc[g] = "strong" \/ mFlags = OBJECT_LIFETIME_WEAK
      BY <3>1, <3>4, <3>5 DEF HooksInv, Alone
    <3>7. base = "live"
      BY <3>4, <1>c DEF UsesBase
    <3>8. firstCalls # 0
      BY <3>1, <1>d
    <3>9. Lifetime!Acquire(h)
      BY <1>16, <2>2, <3>1, <3>6, <3>7, <3>8, Acquires DEF CmpxchgStrong
    <3> QED
      BY <1>a, <3>9
  <2> QED
    BY <2>1, <2>2
<1>17. ASSUME NEW h \in Ref, Ask(h) PROVE Simulated
  BY <1>1, <1>17 DEF Ask
<1>18. ASSUME NEW h \in Ref, AttemptInc(h) PROVE Simulated
  <2>1. CASE mStrong = INITIAL_STRONG_VALUE
    BY <1>1, <1>18, <2>1 DEF AttemptInc
  <2>2. CASE mStrong # INITIAL_STRONG_VALUE
    <3>1. mFlags = OBJECT_LIFETIME_WEAK
      BY <1>18 DEF AttemptInc, RefInv, AndroidInv
    <3>2. base = "live"
      BY <1>18, <1>c, <3>1 DEF AttemptInc, UsesBase
    <3>3. firstCalls # 0
      BY <1>18, <1>d DEF AttemptInc
    <3>4. Lifetime!Acquire(h)
      BY <1>18, <2>2, <3>1, <3>2, <3>3, Acquires DEF AttemptInc
    <3> QED
      BY <1>a, <3>4
  <2> QED
    BY <2>1, <2>2
<1>19. ASSUME NEW h \in Ref, CmpxchgWeak(h) PROVE Simulated
  BY <1>1, <1>19 DEF CmpxchgWeak
<1>20. CASE ExtendObjectLifetime
  <2>1. base = "live" /\ firstCalls = 0
    BY <1>20 DEF ExtendObjectLifetime, RefInv, RefsFreedLast, FirstInv
  <2>2. Lifetime!Extend
    BY <1>20, <2>1 DEF ExtendObjectLifetime, Lifetime!Extend
  <2> QED
    BY <2>2 DEF Simulated, Lifetime!LNext
<1>21. CASE UNCHANGED vars
  BY <1>21 DEF vars, Simulated, Lifetime!lifetimeVars
<1> QED
  BY <1>2, <1>3, <1>4, <1>5, <1>6, <1>7, <1>8, <1>9, <1>10, <1>11, <1>12, <1>13,
     <1>14, <1>15, <1>16, <1>17, <1>18, <1>19, <1>20, <1>21 DEF Next, Continue, Simulated

\* The counters of an _android build implement ObjectLifetime: strong holders never see
\* the object go, it is destroyed once, and nobody gets hold of it again unless its
\* creator extended its lifetime.
THEOREM LifetimeImplemented ==
  ASSUME AtomicAdd, ~WeakFromRaw
  PROVE  Spec => ImplementsLifetime
<1>1. Init => Lifetime!LInit
  BY DEF Init, Lifetime!LInit, OBJECT_LIFETIME_STRONG, OBJECT_LIFETIME_WEAK
<1>2. TypeOK /\ RefInv /\ HooksInv /\ FirstInv /\ [Next]_vars
        => [Lifetime!LNext]_(Lifetime!lifetimeVars)
  BY LifetimeStep
<1>3. QED
  BY <1>1, <1>2, TypeCorrect, RefInvariant, HooksInvariant, FirstInvariant, PTL
     DEF Spec, ImplementsLifetime, Lifetime!LSpec
=============================================================================

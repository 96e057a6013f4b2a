------------------------ MODULE CallbackContextProofs ------------------------
(***************************************************************************)
(* For any events, any priorities and any finite number of clients: the    *)
(* queue is counted and ordered, every reference is accounted for, what a  *)
(* send reports is what happened, what was given up or cancelled does not  *)
(* run, and a nice finish leaves nothing behind.                           *)
(*                                                                         *)
(* The reports rest on one fact about the unlocked steps: as long as the   *)
(* callback of a send may still come and its client has not turned away,   *)
(* nobody has posted its mSyncEvent or marked it cancelled (SendState).    *)
(***************************************************************************)
EXTENDS CallbackContext, NumberFacts, SequenceTheorems

\* Queues, apart from the context they are in: their entries and events, the entries
\* that come no later than others, and what makes a queue distinct and ordered.
QEntry == [event : Event, pri : Nat, when : 0..MaxTime]
EventsOf(q) == {q[i].event : i \in 1 .. Len(q)}
Distinct(q) == \A i, j \in 1 .. Len(q) : q[i].event = q[j].event => i = j
NoLater(a, b) == a.pri < b.pri \/ (a.pri = b.pri /\ a.when <= b.when)
Ordered(q) == \A i, j \in 1 .. Len(q) : i < j => NoLater(q[i], q[j])

\* The handler has an event in its hands.
Busy == {"check", "setRunning", "invoke", "complete", "unlockWorking", "pop"}

\* An event is in one place at most, and is there only once it was posted; a list
\* without its head holds nothing.
QueueState ==
  /\ Distinct(mEventQueue) /\ Ordered(mEventQueue)
  /\ list # "sound" => mEventQueue = <<>>
  /\ mCurrentEvent \notin Queued
  /\ mCurrentEvent # NoEvent <=> handler \in Busy
  /\ \A e \in Event : e \in Queued \/ e = mCurrentEvent => client[e] # "idle"

\* mEventsCount, as long as the list has its head.
CountState == list = "sound" => mEventsCount = Len(mEventQueue)

\* Every reference, those of the events still to be posted included.
RefState ==
  list = "sound" =>
    \A e \in Event : ref[e] = (IF e \in Queued \/ e = mCurrentEvent THEN 1 ELSE 0)
                            + (IF e \in Sync /\ client[e] # "returned" THEN 1 ELSE 0)

\* The client of a send has not turned away from it yet.
Early(e) == client[e] \notin {"releasing", "returned"}

\* The callback of the event may still be invoked.
Coming(e) == e \in Queued \/ (e = mCurrentEvent /\ handler \in {"check", "setRunning", "invoke"})

\* Only sends wait; an event that was not posted has no history.
ClientState ==
  \A e \in Event :
    /\ client[e] \in {"waiting", "awake", "gaveUp", "marking", "releasing"} => e \in Sync
    /\ client[e] = "idle" =>
         /\ syncEvent[e] = 0 /\ status[e] = "Created" /\ ret[e] = "none"
         /\ e \notin ran /\ e \notin void /\ e \notin safe /\ e \notin victims

\* One send: it is not posted or marked while its callback may come.
SendOf(e) ==
  /\ (Coming(e) \/ (e = mCurrentEvent /\ handler = "complete")) /\ Early(e) =>
       syncEvent[e] = 0 /\ client[e] # "awake"
  /\ Early(e) /\ status[e] = "Cancelled" =>
       e \notin ran /\ e \notin Queued /\ e # mCurrentEvent
  /\ (client[e] \in {"notify", "waiting"} /\ syncEvent[e] > 0) \/ client[e] = "awake" =>
       status[e] = "Cancelled" \/ e \in ran

\* The handler's way with sends.
SendState ==
  /\ handler \in {"setRunning", "complete"} => mCurrentEvent \in Sync
  /\ handler = "complete" => mCurrentEvent \in ran
  /\ \A e \in Event : Coming(e) => e \notin ran
  /\ \A e \in Sync : SendOf(e)

\* What was given up while it was queued stays marked, and the handler passes it by.
VoidState ==
  \A e \in void :
    /\ e \in Sync /\ e \notin ran /\ status[e] = "Cancelled" /\ ~Early(e)
    /\ ~(e = mCurrentEvent /\ handler \in {"setRunning", "invoke", "complete"})

\* What a cancel removed, or found in the handler's hands, is not in the queue again.
SafeState ==
  /\ \A e \in safe \cup victims : client[e] # "idle" /\ e \notin Queued
  /\ \A e \in safe : ~(e = mCurrentEvent /\ Working)

\* Nobody has asked for the end at once.
OnlyNice == "ASAP" \in Finish => finisher["ASAP"] = "idle"

\* Then whoever asks the handler to leave has first told it to empty the queue.
FinishState ==
  OnlyNice =>
    /\ mExitRequested => mRequestToQuit
    /\ \A f \in Finish : finisher[f] # "idle" => mRequestToQuit
    /\ handler \in {"exiting", "exited"} => mRequestToQuit /\ mEventQueue = <<>>

CallbackInv ==
  /\ TypeOK /\ QueueState /\ CountState /\ RefState /\ ClientState /\ SendState
  /\ ReportsTruth /\ VoidState /\ SafeState /\ FinishState

-----------------------------------------------------------------------------
\* A queue z that has some of the entries of q, each once and in their order.
Thinned(z, q, f) ==
  /\ z \in Seq(QEntry) /\ f \in [1 .. Len(z) -> 1 .. Len(q)]
  /\ \A i, j \in 1 .. Len(z) : i < j => f[i] < f[j]
  /\ \A i \in 1 .. Len(z) : z[i] = q[f[i]]

\* Such a queue is as distinct and as ordered as the other.
LEMMA ThinnedKeeps ==
  ASSUME NEW q \in Seq(QEntry), NEW z, NEW f, Thinned(z, q, f)
  PROVE  (Distinct(q) => Distinct(z)) /\ (Ordered(q) => Ordered(z))
<1>1. ASSUME Distinct(q) PROVE Distinct(z)
  <2> SUFFICES ASSUME NEW i \in 1 .. Len(z), NEW j \in 1 .. Len(z), z[i].event = z[j].event
               PROVE  i = j
    BY DEF Distinct
  <2>1. f[i] \in 1 .. Len(q) /\ f[j] \in 1 .. Len(q) /\ q[f[i]].event = q[f[j]].event
    BY DEF Thinned
  <2>2. f[i] = f[j] /\ f[i] \in Int
    BY <1>1, <2>1 DEF Distinct
  <2>3. (i < j => f[i] < f[j]) /\ (j < i => f[j] < f[i])
    BY DEF Thinned
  <2>4. i \in Int /\ j \in Int
    OBVIOUS
  <2> QED
    BY <2>2, <2>3, <2>4
<1>2. ASSUME Ordered(q) PROVE Ordered(z)
  <2> SUFFICES ASSUME NEW i \in 1 .. Len(z), NEW j \in 1 .. Len(z), i < j
               PROVE  NoLater(z[i], z[j])
    BY DEF Ordered
  <2>1. f[i] \in 1 .. Len(q) /\ f[j] \in 1 .. Len(q) /\ f[i] < f[j] /\ z[i] = q[f[i]] /\ z[j] = q[f[j]]
    BY DEF Thinned
  <2> QED
    BY <1>2, <2>1 DEF Ordered
<1> QED
  BY <1>1, <1>2

\* Without is such a queue, and has all entries that are kept.
LEMMA WithoutThins ==
  ASSUME mEventQueue \in Seq(QEntry), NEW S
  PROVE  /\ Kept(S) \in SUBSET (1 .. Len(mEventQueue))
         /\ Len(Without(S)) = Cardinality(Kept(S))
         /\ \E f : /\ Thinned(Without(S), mEventQueue, f)
                   /\ \A i \in 1 .. Len(Without(S)) : f[i] \in Kept(S)
                   /\ \A k \in Kept(S) : \E i \in 1 .. Len(Without(S)) : f[i] = k
<1>1. PICK q \in Seq(QEntry) : q = mEventQueue
  OBVIOUS
<1>2. PICK K : K = Kept(S)
  OBVIOUS
<1>3. PICK N : N = Cardinality(K)
  OBVIOUS
<1>4. PICK z : z = Without(S)
  OBVIOUS
<1>5. /\ K \in SUBSET (1 .. Len(q)) /\ Len(q) \in Nat
      /\ \A k \in K : k \in 1 .. Len(q) /\ k \in Int
  BY <1>1, <1>2 DEF Kept
<1>6. /\ N \in Nat
      /\ \A i \in K : Place(K, i) \in 1 .. N
      /\ \A i, j \in K : i < j => Place(K, i) < Place(K, j)
  BY <1>3, <1>5, Places
<1>7. PICK f : f = [p \in 1 .. N |-> CHOOSE i \in K : Place(K, i) = p]
  OBVIOUS
<1>8. ASSUME NEW p \in 1 .. N PROVE f[p] \in K /\ Place(K, f[p]) = p
  <2>1. \E i \in K : Place(K, i) = p
    BY <1>3, <1>5, <1>8, PlaceTaken
  <2> QED
    BY <1>7, <2>1
<1>9. z = [p \in 1 .. N |-> q[f[p]]]
  BY <1>1, <1>2, <1>3, <1>4, <1>7 DEF Without, Place
<1>10. z \in Seq(QEntry) /\ Len(z) = N /\ \A p \in 1 .. N : z[p] = q[f[p]]
  <2>1. ASSUME NEW p \in 1 .. N PROVE q[f[p]] \in QEntry
    <3>1. f[p] \in 1 .. Len(q)
      BY <1>5, <1>8
    <3> QED
      BY <3>1
  <2> QED
    BY <1>6, <1>9, <2>1
<1>11. ASSUME NEW i \in 1 .. N, NEW j \in 1 .. N, i < j PROVE f[i] < f[j]
  <2>1. f[i] \in K /\ f[j] \in K /\ Place(K, f[i]) = i /\ Place(K, f[j]) = j
    BY <1>8
  <2>2. f[i] \in Int /\ f[j] \in Int
    BY <1>5, <2>1
  <2>3. ~(f[j] < f[i])
    <3>1. f[j] < f[i] => j < i
      BY <1>6, <2>1
    <3> QED
      BY <1>11, <3>1
  <2>4. f[i] # f[j]
    BY <1>11, <2>1
  <2> QED
    BY <2>2, <2>3, <2>4
<1>12. ASSUME NEW k \in K PROVE \E i \in 1 .. N : f[i] = k
  <2>1. PICK p \in 1 .. N : p = Place(K, k)
    BY <1>6
  <2>2. f[p] \in K /\ Place(K, f[p]) = Place(K, k)
    BY <1>8, <2>1
  <2>3. Place(K, k) \in Int /\ f[p] \in Int /\ k \in Int
    <3>1. f[p] \in Int /\ k \in Int
      BY <1>5, <2>2
    <3> QED
      BY <2>1, <3>1
  <2>4. ~(f[p] < k) /\ ~(k < f[p])
    <3>1. (f[p] < k => Place(K, f[p]) < Place(K, k)) /\ (k < f[p] => Place(K, k) < Place(K, f[p]))
      BY <1>6, <2>2
    <3> QED
      BY <2>2, <2>3, <3>1
  <2> QED
    BY <2>3, <2>4
<1>13. Thinned(z, q, f)
  <2>1. f \in [1 .. Len(z) -> 1 .. Len(q)]
    BY <1>5, <1>7, <1>8, <1>10
  <2> QED
    BY <1>10, <1>11, <2>1 DEF Thinned
<1>14. /\ \A i \in 1 .. Len(z) : f[i] \in K
       /\ \A k \in K : \E i \in 1 .. Len(z) : f[i] = k
  BY <1>8, <1>10, <1>12
<1> QED
  BY <1>1, <1>2, <1>3, <1>4, <1>5, <1>10, <1>13, <1>14

\* The events of a queue without duplicates are as many as its entries.
LEMMA EventsCounted ==
  ASSUME NEW q \in Seq(QEntry), Distinct(q)
  PROVE  IsFiniteSet(EventsOf(q)) /\ Cardinality(EventsOf(q)) = Len(q)
<1>1. PICK f : f = [i \in 1 .. Len(q) |-> q[i].event]
  OBVIOUS
<1>2. /\ f \in [1 .. Len(q) -> EventsOf(q)]
      /\ \A i, j \in 1 .. Len(q) : f[i] = f[j] => i = j
      /\ \A e \in EventsOf(q) : \E i \in 1 .. Len(q) : f[i] = e
  BY <1>1 DEF EventsOf, Distinct
<1>3. IsFiniteSet(1 .. Len(q)) /\ Cardinality(1 .. Len(q)) = Len(q)
  <2>1. Len(q) \in Nat /\ 1 \in Int
    OBVIOUS
  <2> QED
    BY SMTT(30), <2>1, FS_Interval
<1>4. Cardinality(EventsOf(q)) = Len(q)
  BY <1>2, <1>3, Renumbered
<1>5. f \in Surjection(1 .. Len(q), EventsOf(q))
  BY <1>2 DEF Surjection
<1> QED
  BY <1>3, <1>4, <1>5, FS_Surjection

\* Queued, in these terms.
LEMMA QueuedEvents ==
  ASSUME NEW q \in Seq(QEntry)
  PROVE  {q[i].event : i \in DOMAIN q} = EventsOf(q)
  BY DEF EventsOf

\* Only events are queued.
LEMMA QueuedTypes ==
  ASSUME TypeOK
  PROVE  /\ mEventQueue \in Seq(QEntry) /\ Queued = EventsOf(mEventQueue)
         /\ \A e \in Queued : e \in Event
<1>1. PICK q \in Seq(QEntry) : q = mEventQueue
  BY DEF TypeOK, QEntry
<1>2. Queued = EventsOf(q)
  BY <1>1, QueuedEvents DEF Queued
<1>3. ASSUME NEW e \in EventsOf(q) PROVE e \in Event
  <2>1. PICK i \in 1 .. Len(q) : e = q[i].event
    BY DEF EventsOf
  <2>2. q[i] \in QEntry
    BY <1>1
  <2> QED
    BY <2>1, <2>2 DEF QEntry
<1> QED
  BY <1>1, <1>2, <1>3

\* What Without leaves: the other events, as distinct and as ordered as before.
LEMMA WithoutFacts ==
  ASSUME mEventQueue \in Seq(QEntry), Distinct(mEventQueue), NEW S \in SUBSET Queued
  PROVE  /\ Without(S) \in Seq(QEntry) /\ Distinct(Without(S))
         /\ EventsOf(Without(S)) = Queued \ S
         /\ Cardinality(S) \in Nat /\ Len(Without(S)) = Len(mEventQueue) - Cardinality(S)
         /\ Ordered(mEventQueue) => Ordered(Without(S))
<1>1. PICK q \in Seq(QEntry) : q = mEventQueue
  OBVIOUS
<1>2. PICK z : z = Without(S)
  OBVIOUS
<1>3. PICK K : K = Kept(S)
  OBVIOUS
<1>4. PICK f : /\ Thinned(z, q, f)
               /\ \A i \in 1 .. Len(z) : f[i] \in K
               /\ \A k \in K : \E i \in 1 .. Len(z) : f[i] = k
  BY <1>1, <1>2, <1>3, WithoutThins
<1>5. z \in Seq(QEntry) /\ Distinct(z) /\ (Ordered(q) => Ordered(z))
  BY <1>1, <1>4, ThinnedKeeps DEF Thinned
<1>6. Queued = EventsOf(q)
  BY <1>1, QueuedEvents DEF Queued
<1>7. \A k : k \in K <=> k \in 1 .. Len(q) /\ q[k].event \notin S
  BY <1>1, <1>3 DEF Kept
<1>8. EventsOf(z) = EventsOf(q) \ S
  <2>1. ASSUME NEW e \in EventsOf(z) PROVE e \in EventsOf(q) \ S
    <3>1. PICK i \in 1 .. Len(z) : e = z[i].event
      BY DEF EventsOf
    <3>2. z[i] = q[f[i]] /\ f[i] \in K
      BY <1>4 DEF Thinned
    <3> QED
      BY <1>7, <3>1, <3>2 DEF EventsOf
  <2>2. ASSUME NEW e \in EventsOf(q) \ S PROVE e \in EventsOf(z)
    <3>1. PICK k \in 1 .. Len(q) : e = q[k].event
      BY DEF EventsOf
    <3>2. PICK i \in 1 .. Len(z) : f[i] = k
      BY <1>4, <1>7, <2>2, <3>1
    <3>3. z[i] = q[k]
      BY <1>4, <3>2 DEF Thinned
    <3> QED
      BY <3>1, <3>3 DEF EventsOf
  <2> QED
    BY <2>1, <2>2
<1>9. /\ IsFiniteSet(EventsOf(q)) /\ Cardinality(EventsOf(q)) = Len(q)
      /\ Cardinality(EventsOf(z)) = Len(z)
  BY <1>1, <1>5, EventsCounted
<1>10. IsFiniteSet(S) /\ Cardinality(S) \in Nat
  BY <1>6, <1>9, FS_Subset, FS_CardinalityType
<1>11. Cardinality(EventsOf(q) \ S) = Cardinality(EventsOf(q)) - Cardinality(EventsOf(q) \cap S)
  BY <1>9, FS_Difference
<1>12. EventsOf(q) \cap S = S
  BY <1>6
<1> QED
  BY <1>1, <1>2, <1>5, <1>6, <1>8, <1>9, <1>10, <1>11, <1>12

\* InsertAt, position by position.
LEMMA InsertedAt ==
  ASSUME NEW q \in Seq(QEntry), NEW x \in QEntry, NEW p \in 1 .. Len(q) + 1
  PROVE  /\ InsertAt(q, p, x) \in Seq(QEntry) /\ Len(InsertAt(q, p, x)) = Len(q) + 1
         /\ InsertAt(q, p, x)[p] = x
         /\ \A i \in 1 .. Len(q) : InsertAt(q, p, x)[IF i < p THEN i ELSE i + 1] = q[i]
<1>1. PICK a : a = SubSeq(q, 1, p - 1)
  OBVIOUS
<1>2. a \in Seq(QEntry) /\ Len(a) = p - 1 /\ \A i \in 1 .. p - 1 : a[i] = q[i]
  BY <1>1
<1>3. PICK b : b = SubSeq(q, p, Len(q))
  OBVIOUS
<1>4. /\ b \in Seq(QEntry) /\ Len(b) = Len(q) - p + 1
      /\ \A i \in 1 .. Len(q) - p + 1 : b[i] = q[i + p - 1]
  BY <1>3
<1>5. PICK c : c = a \o <<x>>
  OBVIOUS
<1>6. /\ c \in Seq(QEntry) /\ Len(c) = p /\ c[p] = x
      /\ \A i \in 1 .. p - 1 : c[i] = q[i]
  BY <1>2, <1>5
<1>7. PICK z : z = c \o b
  OBVIOUS
<1>8. /\ z \in Seq(QEntry) /\ Len(z) = Len(c) + Len(b)
      /\ \A i \in 1 .. Len(c) + Len(b) : z[i] = IF i <= Len(c) THEN c[i] ELSE b[i - Len(c)]
  BY <1>4, <1>6, <1>7, ConcatProperties
<1>9. Len(z) = Len(q) + 1
  BY <1>4, <1>6, <1>8
<1>10. z[p] = x
  BY <1>4, <1>6, <1>8
<1>11. ASSUME NEW i \in 1 .. Len(q) PROVE z[IF i < p THEN i ELSE i + 1] = q[i]
  <2>1. CASE i < p
    <3>1. i \in 1 .. Len(c) + Len(b) /\ i <= Len(c) /\ i \in 1 .. p - 1
      BY <1>4, <1>6, <2>1
    <3>2. z[i] = c[i] /\ c[i] = q[i]
      BY <1>6, <1>8, <3>1
    <3> QED
      BY <2>1, <3>2
  <2>2. CASE ~(i < p)
    <3>1. i + 1 \in 1 .. Len(c) + Len(b) /\ ~(i + 1 <= Len(c)) /\ (i + 1) - Len(c) = i - p + 1
      BY <1>4, <1>6, <2>2
    <3>2. i - p + 1 \in 1 .. Len(q) - p + 1 /\ (i - p + 1) + p - 1 = i
      BY <2>2
    <3>3. z[i + 1] = b[i - p + 1]
      BY <1>8, <3>1
    <3>4. b[i - p + 1] = q[i]
      BY <1>4, <3>2
    <3> QED
      BY <2>2, <3>3, <3>4
  <2> QED
    BY <2>1, <2>2
<1>12. InsertAt(q, p, x) = z
  BY <1>1, <1>3, <1>5, <1>7 DEF InsertAt
<1> QED
  BY <1>8, <1>9, <1>10, <1>11, <1>12

\* Order of entries is total and transitive.
LEMMA NoLaterOrder ==
  ASSUME NEW a \in QEntry, NEW b \in QEntry, NEW c \in QEntry
  PROVE  /\ NoLater(a, b) \/ NoLater(b, a)
         /\ NoLater(a, b) /\ NoLater(b, c) => NoLater(a, c)
<1>1. /\ a.pri \in Nat /\ b.pri \in Nat /\ c.pri \in Nat
      /\ a.when \in Int /\ b.when \in Int /\ c.when \in Int
  BY EventAssumption DEF QEntry
<1> QED
  BY <1>1 DEF NoLater

\* InsertByPriority adds the entry behind the last that is no later, which keeps the order.
LEMMA InsertFacts ==
  ASSUME NEW q \in Seq(QEntry), NEW x \in QEntry, x.event \notin EventsOf(q)
  PROVE  /\ InsertByPriority(q, x) \in Seq(QEntry) /\ Len(InsertByPriority(q, x)) = Len(q) + 1
         /\ EventsOf(InsertByPriority(q, x)) = EventsOf(q) \cup {x.event}
         /\ Distinct(q) => Distinct(InsertByPriority(q, x))
         /\ Ordered(q) => Ordered(InsertByPriority(q, x))
<1>1. PICK B : B = {i \in DOMAIN q : q[i].pri < x.pri \/ (q[i].pri = x.pri /\ q[i].when <= x.when)}
  OBVIOUS
<1>2. \A i : i \in B <=> i \in 1 .. Len(q) /\ NoLater(q[i], x)
  BY <1>1 DEF NoLater
<1>3. PICK m : m = Max(B \cup {0})
  OBVIOUS
<1>4. m \in B \cup {0} /\ \A i \in B : m >= i
  <2>1. B \cup {0} \in SUBSET (0 .. Len(q)) /\ B \cup {0} # {} /\ Len(q) \in Nat
    BY <1>2
  <2>2. \E n \in B \cup {0} : \A y \in B \cup {0} : n >= y
    BY <2>1, Greatest
  <2> QED
    BY <1>3, <2>2 DEF Max
<1>5. m \in 0 .. Len(q) /\ \A i \in 1 .. Len(q) : i > m => ~NoLater(q[i], x)
  <2>1. m \in 0 .. Len(q)
    BY <1>2, <1>4
  <2>2. ASSUME NEW i \in 1 .. Len(q), i > m PROVE ~NoLater(q[i], x)
    <3>1. ~(m >= i)
      BY <2>1, <2>2
    <3> QED
      BY <1>2, <1>4, <3>1
  <2> QED
    BY <2>1, <2>2
<1>6. PICK p : p = 1 + m
  OBVIOUS
<1>7. p \in 1 .. Len(q) + 1 /\ p = m + 1
  BY <1>5, <1>6
<1>8. PICK z : z = InsertAt(q, p, x)
  OBVIOUS
<1>9. /\ z \in Seq(QEntry) /\ Len(z) = Len(q) + 1 /\ z[p] = x
      /\ \A i \in 1 .. Len(q) : z[IF i < p THEN i ELSE i + 1] = q[i]
  BY <1>7, <1>8, InsertedAt
<1>10. z = InsertByPriority(q, x)
  BY <1>1, <1>3, <1>6, <1>8 DEF InsertByPriority
<1>11. ASSUME NEW j \in 1 .. Len(z), j # p
       PROVE  \E i \in 1 .. Len(q) : j = (IF i < p THEN i ELSE i + 1) /\ z[j] = q[i]
  <2>1. CASE j < p
    <3>1. j \in 1 .. Len(q) /\ j = (IF j < p THEN j ELSE j + 1)
      BY <1>7, <2>1
    <3> QED
      BY <1>9, <3>1
  <2>2. CASE ~(j < p)
    <3>1. PICK i : i = j - 1
      OBVIOUS
    <3>2. i \in 1 .. Len(q) /\ ~(i < p) /\ j = i + 1
      BY <1>7, <1>9, <1>11, <2>2, <3>1
    <3> QED
      BY <1>9, <3>2
  <2> QED
    BY <2>1, <2>2
<1>12. EventsOf(z) = EventsOf(q) \cup {x.event}
  <2>1. ASSUME NEW e \in EventsOf(z) PROVE e \in EventsOf(q) \cup {x.event}
    <3>1. PICK j \in 1 .. Len(z) : e = z[j].event
      BY DEF EventsOf
    <3> QED
      BY <1>9, <1>11, <3>1 DEF EventsOf
  <2>2. x.event \in EventsOf(z)
    BY <1>7, <1>9 DEF EventsOf
  <2>3. ASSUME NEW e \in EventsOf(q) PROVE e \in EventsOf(z)
    <3>1. PICK i \in 1 .. Len(q) : e = q[i].event
      BY DEF EventsOf
    <3>2. (IF i < p THEN i ELSE i + 1) \in 1 .. Len(z)
      BY <1>7, <1>9
    <3> QED
      BY <1>9, <3>1, <3>2 DEF EventsOf
  <2> QED
    BY <2>1, <2>2, <2>3
<1>13. ASSUME Distinct(q) PROVE Distinct(z)
  <2> SUFFICES ASSUME NEW i \in 1 .. Len(z), NEW j \in 1 .. Len(z), z[i].event = z[j].event
               PROVE  i = j
    BY DEF Distinct
  <2>1. ASSUME NEW k \in 1 .. Len(z), k # p PROVE z[k].event \in EventsOf(q)
    BY <1>11, <2>1 DEF EventsOf
  <2>2. CASE i = p \/ j = p
    BY <1>9, <2>1, <2>2
  <2>3. CASE i # p /\ j # p
    <3>1. PICK a \in 1 .. Len(q) : i = (IF a < p THEN a ELSE a + 1) /\ z[i] = q[a]
      BY <1>11, <2>3
    <3>2. PICK b \in 1 .. Len(q) : j = (IF b < p THEN b ELSE b + 1) /\ z[j] = q[b]
      BY <1>11, <2>3
    <3>3. a = b
      BY <1>13, <3>1, <3>2 DEF Distinct
    <3> QED
      BY <3>1, <3>2, <3>3
  <2> QED
    BY <2>2, <2>3
<1>14. ASSUME Ordered(q) PROVE Ordered(z)
  <2> SUFFICES ASSUME NEW i \in 1 .. Len(z), NEW j \in 1 .. Len(z), i < j
               PROVE  NoLater(z[i], z[j])
    BY DEF Ordered
  <2>1. CASE i = p
    <3>1. PICK b \in 1 .. Len(q) : j = (IF b < p THEN b ELSE b + 1) /\ z[j] = q[b]
      BY <1>7, <1>11, <2>1
    <3>2. b > m
      BY <1>5, <1>7, <2>1, <3>1
    <3>3. ~NoLater(q[b], x) /\ q[b] \in QEntry
      BY <1>5, <3>2
    <3> QED
      BY <1>9, <2>1, <3>1, <3>3, NoLaterOrder
  <2>2. CASE j = p
    <3>1. PICK a \in 1 .. Len(q) : i = (IF a < p THEN a ELSE a + 1) /\ z[i] = q[a]
      BY <1>7, <1>11, <2>2
    <3>2. a <= m /\ m # 0 /\ m \in 1 .. Len(q)
      BY <1>5, <1>7, <2>2, <3>1
    <3>3. NoLater(q[m], x) /\ q[m] \in QEntry /\ q[a] \in QEntry
      BY <1>2, <1>4, <3>2
    <3>4. CASE a = m
      BY <1>9, <2>2, <3>1, <3>3, <3>4
    <3>5. CASE a # m
      <4>1. NoLater(q[a], q[m])
        BY <1>14, <3>2, <3>5 DEF Ordered
      <4> QED
        BY <1>9, <2>2, <3>1, <3>3, <4>1, NoLaterOrder
    <3> QED
      BY <3>4, <3>5
  <2>3. CASE i # p /\ j # p
    <3>1. PICK a \in 1 .. Len(q) : i = (IF a < p THEN a ELSE a + 1) /\ z[i] = q[a]
      BY <1>11, <2>3
    <3>2. PICK b \in 1 .. Len(q) : j = (IF b < p THEN b ELSE b + 1) /\ z[j] = q[b]
      BY <1>11, <2>3
    <3>3. a < b
      BY <1>7, <3>1, <3>2
    <3> QED
      BY <1>14, <3>1, <3>2, <3>3 DEF Ordered
  <2> QED
    BY <2>1, <2>2, <2>3
<1> QED
  BY <1>9, <1>10, <1>12, <1>13, <1>14

\* GetEvent takes the first entry.
LEMMA TailFacts ==
  ASSUME NEW q \in Seq(QEntry), q # <<>>, Distinct(q)
  PROVE  /\ Head(q) \in QEntry /\ Head(q).event \in EventsOf(q)
         /\ Tail(q) \in Seq(QEntry) /\ Len(Tail(q)) = Len(q) - 1
         /\ EventsOf(Tail(q)) = EventsOf(q) \ {Head(q).event}
         /\ Distinct(Tail(q)) /\ (Ordered(q) => Ordered(Tail(q)))
<1>1. PICK z : z = Tail(q)
  OBVIOUS
<1>2. /\ z \in Seq(QEntry) /\ Len(z) = Len(q) - 1 /\ Len(q) \in Nat \ {0}
      /\ \A i \in 1 .. Len(z) : i + 1 \in 1 .. Len(q) /\ z[i] = q[i + 1]
  BY <1>1
<1>3. Head(q) = q[1] /\ q[1] \in QEntry /\ 1 \in 1 .. Len(q)
  BY <1>2
<1>4. PICK f : f = [i \in 1 .. Len(z) |-> i + 1]
  OBVIOUS
<1>5. Thinned(z, q, f)
  BY <1>2, <1>4 DEF Thinned
<1>6. Distinct(z) /\ (Ordered(q) => Ordered(z))
  BY <1>5, ThinnedKeeps
<1>7. EventsOf(z) = EventsOf(q) \ {q[1].event}
  <2>1. ASSUME NEW e \in EventsOf(z) PROVE e \in EventsOf(q) \ {q[1].event}
    <3>1. PICK i \in 1 .. Len(z) : e = z[i].event
      BY DEF EventsOf
    <3>2. i + 1 \in 1 .. Len(q) /\ e = q[i + 1].event /\ i + 1 # 1
      BY <1>2, <3>1
    <3> QED
      BY <1>3, <3>2 DEF EventsOf, Distinct
  <2>2. ASSUME NEW e \in EventsOf(q), e # q[1].event PROVE e \in EventsOf(z)
    <3>1. PICK k \in 1 .. Len(q) : e = q[k].event
      BY DEF EventsOf
    <3>2. PICK i : i = k - 1
      OBVIOUS
    <3>3. i \in 1 .. Len(z) /\ i + 1 = k
      BY <1>2, <2>2, <3>1, <3>2
    <3>4. e = z[i].event
      BY <1>2, <3>1, <3>3
    <3> QED
      BY <3>3, <3>4 DEF EventsOf
  <2> QED
    BY <2>1, <2>2
<1>8. q[1].event \in EventsOf(q)
  BY <1>3 DEF EventsOf
<1> QED
  BY <1>1, <1>2, <1>3, <1>6, <1>7, <1>8

-----------------------------------------------------------------------------
\* The steps of the clients, which leave the queue and the handler alone.
ClientFrame ==
  UNCHANGED <<mEventQueue, list, mCurrentEvent, mEventsCount, mStatus, mExitRequested,
              mRequestToQuit, finisher, now, handler, peeked, until, canceller, victims, safe>>

\* What that leaves alone.
LEMMA ClientKeeps ==
  ASSUME CallbackInv, ClientFrame, \A x \in Event : client'[x] = "idle" => client[x] = "idle"
  PROVE  Queued' = Queued /\ QueueState' /\ CountState' /\ SafeState' /\ FinishState'
<1>1. TypeOK /\ QueueState /\ CountState /\ SafeState /\ FinishState
  BY DEF CallbackInv
<1>2. Queued' = Queued
  BY DEF Queued, ClientFrame
<1>3. QueueState' /\ CountState'
  BY <1>1, <1>2 DEF QueueState, CountState, ClientFrame
<1>4. SafeState'
  BY <1>1, <1>2 DEF SafeState, Working, ClientFrame, TypeOK
<1>5. FinishState'
  BY <1>1 DEF FinishState, OnlyNice, ClientFrame
<1> QED
  BY <1>2, <1>3, <1>4, <1>5

\* RejectEvent marks an event that was never queued, and posts its semaphore.
LEMMA RejectEventInv ==
  ASSUME CallbackInv, NEW e \in Event, RejectEvent(e)
  PROVE  CallbackInv'
<1>1. /\ TypeOK /\ RefState /\ ClientState /\ SendState /\ VoidState /\ QueueState
      /\ ReportsTruth
  BY DEF CallbackInv
<1>2. /\ client[e] = "idle" /\ status' = [status EXCEPT ![e] = "Cancelled"]
      /\ syncEvent' = [syncEvent EXCEPT ![e] = @ + 1]
      /\ client' = [client EXCEPT ![e] = IF e \in Sync THEN "waiting" ELSE "returned"]
      /\ ClientFrame /\ UNCHANGED <<mThreadEvent, ref, ret, ran, silent, void>>
  BY DEF RejectEvent, AfterPost, ClientFrame, contextVars, finishVars, eventVars, handlerVars,
         cancelVars, history
<1>3. Queued' = Queued /\ QueueState' /\ CountState' /\ SafeState' /\ FinishState'
  <2>1. \A x \in Event : client'[x] = "idle" => client[x] = "idle"
    BY <1>1, <1>2 DEF TypeOK
  <2> QED
    BY <1>2, <2>1, ClientKeeps
<1>4. TypeOK'
  BY <1>1, <1>2 DEF TypeOK, ClientFrame
<1>5. RefState'
  BY <1>1, <1>2, <1>3 DEF RefState, ClientFrame, TypeOK
<1>6. ClientState'
  BY <1>1, <1>2 DEF ClientState, ClientFrame, TypeOK
<1>7. SendState'
  <2>1. \A x \in Event : Coming(x)' = Coming(x)
    BY <1>2, <1>3 DEF Coming, ClientFrame
  <2>2. ASSUME NEW x \in Sync, x # e PROVE SendOf(x)'
    <3>1. SendOf(x) /\ x \in Event
      BY <1>1, EventAssumption DEF SendState
    <3> QED
      BY <1>1, <1>2, <1>3, <2>1, <2>2, <3>1 DEF SendOf, Early, ClientFrame, TypeOK
  <2>3. ASSUME e \in Sync PROVE SendOf(e)'
    <3>1. SendOf(e)
      BY <1>1, <2>3 DEF SendState
    <3> QED
      BY <1>1, <1>2, <1>3, <2>1, <3>1
      DEF SendOf, Coming, Early, ClientFrame, TypeOK, QueueState, ClientState
  <2> QED
    BY <1>1, <1>2, <2>1, <2>2, <2>3 DEF SendState, ClientFrame
<1>8. VoidState'
  BY <1>1, <1>2, <1>3 DEF VoidState, Early, ClientFrame, TypeOK
<1>9. ReportsTruth'
  BY <1>1, <1>2, <1>3, EventAssumption DEF ReportsTruth, ClientFrame, TypeOK
<1> QED
  BY <1>3, <1>4, <1>5, <1>6, <1>7, <1>8, <1>9 DEF CallbackInv

\* NotifyThread posts the semaphore the handler waits for.
LEMMA NotifyThreadInv ==
  ASSUME CallbackInv, NEW e \in Event, NotifyThread(e)
  PROVE  CallbackInv'
<1>1. /\ TypeOK /\ RefState /\ ClientState /\ SendState /\ VoidState /\ QueueState
      /\ ReportsTruth
  BY DEF CallbackInv
<1>2. /\ client[e] = "notify" /\ mThreadEvent' = mThreadEvent + 1
      /\ client' = [client EXCEPT ![e] = IF e \in Sync THEN "waiting" ELSE "returned"]
      /\ ClientFrame /\ UNCHANGED <<status, ref, syncEvent, ret, ran, silent, void>>
  BY DEF NotifyThread, AfterPost, ClientFrame, contextVars, finishVars, eventVars, handlerVars,
         cancelVars, history
<1>3. Queued' = Queued /\ QueueState' /\ CountState' /\ SafeState' /\ FinishState'
  <2>1. \A x \in Event : client'[x] = "idle" => client[x] = "idle"
    BY <1>1, <1>2 DEF TypeOK
  <2> QED
    BY <1>2, <2>1, ClientKeeps
<1>4. TypeOK'
  BY <1>1, <1>2 DEF TypeOK, ClientFrame
<1>5. RefState'
  BY <1>1, <1>2, <1>3 DEF RefState, ClientFrame, TypeOK
<1>6. ClientState'
  BY <1>1, <1>2 DEF ClientState, ClientFrame, TypeOK
<1>7. SendState'
  <2>1. \A x \in Event : Coming(x)' = Coming(x)
    BY <1>2, <1>3 DEF Coming, ClientFrame
  <2>2. ASSUME NEW x \in Sync, x # e PROVE SendOf(x)'
    <3>1. SendOf(x) /\ x \in Event
      BY <1>1, EventAssumption DEF SendState
    <3> QED
      BY <1>1, <1>2, <1>3, <2>1, <2>2, <3>1 DEF SendOf, Early, ClientFrame, TypeOK
  <2>3. ASSUME e \in Sync PROVE SendOf(e)'
    <3>1. SendOf(e)
      BY <1>1, <2>3 DEF SendState
    <3> QED
      BY <1>1, <1>2, <1>3, <2>1, <3>1
      DEF SendOf, Coming, Early, ClientFrame, TypeOK, QueueState, ClientState
  <2> QED
    BY <1>1, <1>2, <2>1, <2>2, <2>3 DEF SendState, ClientFrame
<1>8. VoidState'
  BY <1>1, <1>2, <1>3 DEF VoidState, Early, ClientFrame, TypeOK
<1>9. ReportsTruth'
  BY <1>1, <1>2, <1>3, EventAssumption DEF ReportsTruth, ClientFrame, TypeOK
<1> QED
  BY <1>3, <1>4, <1>5, <1>6, <1>7, <1>8, <1>9 DEF CallbackInv

\* A wait ends with the semaphore, which was only posted once the send was decided, or it
\* times out.
LEMMA WaitSyncEventInv ==
  ASSUME CallbackInv, NEW e \in Event, WaitSyncEvent(e)
  PROVE  CallbackInv'
<1>1. /\ TypeOK /\ RefState /\ ClientState /\ SendState /\ VoidState /\ QueueState
      /\ ReportsTruth
  BY DEF CallbackInv
<1>2. /\ client[e] = "waiting"
      /\ \/ /\ syncEvent[e] > 0 /\ syncEvent' = [syncEvent EXCEPT ![e] = @ - 1]
            /\ client' = [client EXCEPT ![e] = "awake"]
         \/ UNCHANGED syncEvent /\ client' = [client EXCEPT ![e] = "gaveUp"]
      /\ ClientFrame /\ UNCHANGED <<mThreadEvent, status, ref, ret, ran, silent, void>>
  BY DEF WaitSyncEvent, AfterPost, ClientFrame, contextVars, finishVars, eventVars, handlerVars,
         cancelVars, history
<1>3. Queued' = Queued /\ QueueState' /\ CountState' /\ SafeState' /\ FinishState'
  <2>1. \A x \in Event : client'[x] = "idle" => client[x] = "idle"
    BY <1>1, <1>2 DEF TypeOK
  <2> QED
    BY <1>2, <2>1, ClientKeeps
<1>4. TypeOK'
  <2>1. syncEvent' \in [Event -> Nat]
    <3>1. CASE UNCHANGED syncEvent
      BY <1>1, <3>1 DEF TypeOK
    <3>2. CASE syncEvent[e] > 0 /\ syncEvent' = [syncEvent EXCEPT ![e] = @ - 1]
      BY <1>1, <3>2 DEF TypeOK
    <3> QED
      BY <1>2, <3>1, <3>2
  <2>2. PICK c \in {"awake", "gaveUp"} : client' = [client EXCEPT ![e] = c]
    BY <1>2
  <2> QED
    BY <1>1, <1>2, <2>1, <2>2 DEF TypeOK, ClientFrame
<1>5. RefState'
  BY SMTT(30), <1>1, <1>2, <1>3 DEF RefState, ClientFrame, TypeOK
<1>6. ClientState'
  BY <1>1, <1>2 DEF ClientState, ClientFrame, TypeOK
<1>7. SendState'
  <2>1. \A x \in Event : Coming(x)' = Coming(x)
    BY <1>2, <1>3 DEF Coming, ClientFrame
  <2>2. ASSUME NEW x \in Sync, x # e PROVE SendOf(x)'
    <3>1. SendOf(x) /\ x \in Event
      BY <1>1, EventAssumption DEF SendState
    <3> QED
      BY <1>1, <1>2, <1>3, <2>1, <2>2, <3>1 DEF SendOf, Early, ClientFrame, TypeOK
  <2>3. ASSUME e \in Sync PROVE SendOf(e)'
    <3>1. SendOf(e)
      BY <1>1, <2>3 DEF SendState
    <3> QED
      BY <1>1, <1>2, <1>3, <2>1, <3>1
      DEF SendOf, Coming, Early, ClientFrame, TypeOK, QueueState, ClientState
  <2> QED
    BY <1>1, <1>2, <2>1, <2>2, <2>3 DEF SendState, ClientFrame
<1>8. VoidState'
  BY <1>1, <1>2, <1>3 DEF VoidState, Early, ClientFrame, TypeOK
<1>9. ReportsTruth'
  BY <1>1, <1>2, <1>3, EventAssumption DEF ReportsTruth, ClientFrame, TypeOK
<1> QED
  BY <1>3, <1>4, <1>5, <1>6, <1>7, <1>8, <1>9 DEF CallbackInv

\* What ReadStatus reports, it reports before it turns away.
LEMMA ReadStatusInv ==
  ASSUME CallbackInv, NEW e \in Event, ReadStatus(e)
  PROVE  CallbackInv'
<1>1. /\ TypeOK /\ RefState /\ ClientState /\ SendState /\ VoidState /\ QueueState
      /\ ReportsTruth
  BY DEF CallbackInv
<1>2. /\ client[e] \in {"awake", "gaveUp"}
      /\ ret' = [ret EXCEPT ![e] = IF status[e] = "Cancelled" THEN "E_CALLBACK_CANCELED"
                                   ELSE IF client[e] = "awake" THEN "NOERROR" ELSE "E_TIMED_OUT"]
      /\ client' = [client EXCEPT ![e] = IF client[e] = "gaveUp" THEN "marking" ELSE "releasing"]
      /\ ClientFrame /\ UNCHANGED <<mThreadEvent, status, ref, syncEvent, ran, silent, void>>
  BY DEF ReadStatus, ClientFrame, contextVars, finishVars, eventVars, handlerVars, cancelVars,
         history
<1>3. Queued' = Queued /\ QueueState' /\ CountState' /\ SafeState' /\ FinishState'
  <2>1. \A x \in Event : client'[x] = "idle" => client[x] = "idle"
    BY <1>1, <1>2 DEF TypeOK
  <2> QED
    BY <1>2, <2>1, ClientKeeps
<1>4. TypeOK'
  BY <1>1, <1>2 DEF TypeOK, ClientFrame
<1>5. RefState'
  BY <1>1, <1>2, <1>3 DEF RefState, ClientFrame, TypeOK
<1>6. ClientState'
  BY <1>1, <1>2 DEF ClientState, ClientFrame, TypeOK
<1>7. SendState'
  <2>1. \A x \in Event : Coming(x)' = Coming(x)
    BY <1>2, <1>3 DEF Coming, ClientFrame
  <2>2. ASSUME NEW x \in Sync, x # e PROVE SendOf(x)'
    <3>1. SendOf(x) /\ x \in Event
      BY <1>1, EventAssumption DEF SendState
    <3> QED
      BY <1>1, <1>2, <1>3, <2>1, <2>2, <3>1 DEF SendOf, Early, ClientFrame, TypeOK
  <2>3. ASSUME e \in Sync PROVE SendOf(e)'
    <3>1. SendOf(e)
      BY <1>1, <2>3 DEF SendState
    <3> QED
      BY <1>1, <1>2, <1>3, <2>1, <3>1
      DEF SendOf, Coming, Early, ClientFrame, TypeOK, QueueState, ClientState
  <2> QED
    BY <1>1, <1>2, <2>1, <2>2, <2>3 DEF SendState, ClientFrame
<1>8. VoidState'
  BY <1>1, <1>2, <1>3 DEF VoidState, Early, ClientFrame, TypeOK
<1>9. ReportsTruth'
  <2>1. /\ status[e] = "Cancelled" => e \notin ran /\ e \notin Queued /\ e # mCurrentEvent
        /\ status[e] # "Cancelled" /\ client[e] = "awake" => e \in ran
    BY <1>1, <1>2 DEF ClientState, SendState, SendOf, Early
  <2>2. \A x \in Event : x # e => ret'[x] = ret[x]
    BY <1>1, <1>2 DEF TypeOK
  <2>3. /\ ret'[e] = "NOERROR" => e \in ran
        /\ ret'[e] = "E_CALLBACK_CANCELED" =>
             e \notin ran /\ e \notin Queued /\ e # mCurrentEvent
    BY <1>1, <1>2, <2>1 DEF TypeOK
  <2> QED
    BY <1>1, <1>2, <1>3, <2>2, <2>3, EventAssumption DEF ReportsTruth, ClientFrame
<1> QED
  BY <1>3, <1>4, <1>5, <1>6, <1>7, <1>8, <1>9 DEF CallbackInv

\* MarkCancelled is what turns away from a queued event.
LEMMA MarkCancelledInv ==
  ASSUME CallbackInv, NEW e \in Event, MarkCancelled(e)
  PROVE  CallbackInv'
<1>1. /\ TypeOK /\ RefState /\ ClientState /\ SendState /\ VoidState /\ QueueState
      /\ ReportsTruth
  BY DEF CallbackInv
<1>2. /\ client[e] = "marking" /\ status' = [status EXCEPT ![e] = "Cancelled"]
      /\ void' = (IF e \in Queued THEN void \cup {e} ELSE void)
      /\ client' = [client EXCEPT ![e] = "releasing"]
      /\ ClientFrame /\ UNCHANGED <<mThreadEvent, ref, syncEvent, ret, ran, silent>>
  BY DEF MarkCancelled, AfterPost, ClientFrame, contextVars, finishVars, eventVars, handlerVars,
         cancelVars, history
<1>3. Queued' = Queued /\ QueueState' /\ CountState' /\ SafeState' /\ FinishState'
  <2>1. \A x \in Event : client'[x] = "idle" => client[x] = "idle"
    BY <1>1, <1>2 DEF TypeOK
  <2> QED
    BY <1>2, <2>1, ClientKeeps
<1>4. TypeOK'
  <2>1. void' \subseteq Event
    BY <1>1, <1>2 DEF TypeOK
  <2> QED
    BY <1>1, <1>2, <2>1 DEF TypeOK, ClientFrame
<1>5. RefState'
  BY <1>1, <1>2, <1>3 DEF RefState, ClientFrame, TypeOK
<1>6. ClientState'
  BY <1>1, <1>2 DEF ClientState, ClientFrame, TypeOK
<1>7. SendState'
  <2>1. \A x \in Event : Coming(x)' = Coming(x)
    BY <1>2, <1>3 DEF Coming, ClientFrame
  <2>2. ASSUME NEW x \in Sync, x # e PROVE SendOf(x)'
    <3>1. SendOf(x) /\ x \in Event
      BY <1>1, EventAssumption DEF SendState
    <3> QED
      BY <1>1, <1>2, <1>3, <2>1, <2>2, <3>1 DEF SendOf, Early, ClientFrame, TypeOK
  <2>3. ASSUME e \in Sync PROVE SendOf(e)'
    <3>1. SendOf(e)
      BY <1>1, <2>3 DEF SendState
    <3> QED
      BY <1>1, <1>2, <1>3, <2>1, <3>1
      DEF SendOf, Coming, Early, ClientFrame, TypeOK, QueueState, ClientState
  <2> QED
    BY <1>1, <1>2, <2>1, <2>2, <2>3 DEF SendState, ClientFrame
<1>8. VoidState'
  <2>1. status'[e] = "Cancelled" /\ client'[e] = "releasing" /\ e \in Sync
    BY <1>1, <1>2 DEF ClientState, TypeOK
  <2>2. \A x \in Event : x # e => status'[x] = status[x] /\ client'[x] = client[x]
    BY <1>1, <1>2 DEF TypeOK
  <2>3. ASSUME e \in Queued PROVE e \notin ran /\ e # mCurrentEvent
    BY <1>1, <2>3 DEF SendState, Coming, QueueState
  <2>4. \A x \in void' : x \in Event /\ (x \in void \/ (x = e /\ e \in Queued))
    BY <1>1, <1>2 DEF TypeOK
  <2> QED
    BY <1>1, <1>2, <2>1, <2>2, <2>3, <2>4 DEF VoidState, Early, ClientFrame
<1>9. ReportsTruth'
  BY <1>1, <1>2, <1>3, EventAssumption DEF ReportsTruth, ClientFrame, TypeOK
<1> QED
  BY <1>3, <1>4, <1>5, <1>6, <1>7, <1>8, <1>9 DEF CallbackInv

\* ReleaseEvent gives back the reference of the send.
LEMMA ReleaseEventInv ==
  ASSUME CallbackInv, NEW e \in Event, ReleaseEvent(e)
  PROVE  CallbackInv'
<1>1. /\ TypeOK /\ RefState /\ ClientState /\ SendState /\ VoidState /\ QueueState
      /\ ReportsTruth
  BY DEF CallbackInv
<1>2. /\ client[e] = "releasing" /\ ref' = [ref EXCEPT ![e] = @ - 1]
      /\ client' = [client EXCEPT ![e] = "returned"]
      /\ ClientFrame /\ UNCHANGED <<mThreadEvent, status, syncEvent, ret, ran, silent, void>>
  BY DEF ReleaseEvent, AfterPost, ClientFrame, contextVars, finishVars, eventVars, handlerVars,
         cancelVars, history
<1>3. Queued' = Queued /\ QueueState' /\ CountState' /\ SafeState' /\ FinishState'
  <2>1. \A x \in Event : client'[x] = "idle" => client[x] = "idle"
    BY <1>1, <1>2 DEF TypeOK
  <2> QED
    BY <1>2, <2>1, ClientKeeps
<1>4. TypeOK'
  BY <1>1, <1>2 DEF TypeOK, ClientFrame
<1>5. RefState'
  <2>1. e \in Sync /\ ref'[e] = ref[e] - 1 /\ client'[e] = "returned"
    BY <1>1, <1>2 DEF ClientState, TypeOK
  <2>2. \A x \in Event : x # e => ref'[x] = ref[x] /\ client'[x] = client[x]
    BY <1>1, <1>2 DEF TypeOK
  <2> QED
    BY <1>1, <1>2, <1>3, <2>1, <2>2 DEF RefState, ClientFrame
<1>6. ClientState'
  BY <1>1, <1>2 DEF ClientState, ClientFrame, TypeOK
<1>7. SendState'
  <2>1. \A x \in Event : Coming(x)' = Coming(x)
    BY <1>2, <1>3 DEF Coming, ClientFrame
  <2>2. ASSUME NEW x \in Sync, x # e PROVE SendOf(x)'
    <3>1. SendOf(x) /\ x \in Event
      BY <1>1, EventAssumption DEF SendState
    <3> QED
      BY <1>1, <1>2, <1>3, <2>1, <2>2, <3>1 DEF SendOf, Early, ClientFrame, TypeOK
  <2>3. ASSUME e \in Sync PROVE SendOf(e)'
    <3>1. SendOf(e)
      BY <1>1, <2>3 DEF SendState
    <3> QED
      BY <1>1, <1>2, <1>3, <2>1, <3>1
      DEF SendOf, Coming, Early, ClientFrame, TypeOK, QueueState, ClientState
  <2> QED
    BY <1>1, <1>2, <2>1, <2>2, <2>3 DEF SendState, ClientFrame
<1>8. VoidState'
  BY <1>1, <1>2, <1>3 DEF VoidState, Early, ClientFrame, TypeOK
<1>9. ReportsTruth'
  BY <1>1, <1>2, <1>3, EventAssumption DEF ReportsTruth, ClientFrame, TypeOK
<1> QED
  BY <1>3, <1>4, <1>5, <1>6, <1>7, <1>8, <1>9 DEF CallbackInv

-----------------------------------------------------------------------------
\* Steps that move no event: they change where the handler is, perhaps lose the head of an
\* empty list, and leave the events, the clients and the finishers as they are.
EventFrame ==
  UNCHANGED <<mEventQueue, mCurrentEvent, mExitRequested, mRequestToQuit, finisher, status, ref,
              syncEvent, client, ret, victims, safe, ran, void>>

\* A handler that takes up no event and leaves only when it may.
HandlerMove ==
  /\ \/ handler' = handler
     \/ handler \notin Busy /\ handler' \notin Busy
     \/ handler \in Busy /\ handler' = "pop"
     \/ handler \in Busy \ {"pop"} /\ handler' = "unlockWorking"
  /\ handler' \in {"exiting", "exited"} =>
       handler \in {"exiting", "exited"} \/ (OnlyNice => mRequestToQuit /\ mEventQueue = <<>>)

\* Such a step keeps everything.
LEMMA MoveInv ==
  ASSUME CallbackInv, TypeOK', EventFrame, HandlerMove,
         list' = "sound" => list = "sound" /\ mEventsCount' = mEventsCount,
         list' # "sound" => mEventQueue = <<>>
  PROVE  CallbackInv'
<1>1. /\ TypeOK /\ QueueState /\ CountState /\ RefState /\ ClientState /\ SendState
      /\ ReportsTruth /\ VoidState /\ SafeState /\ FinishState
  BY DEF CallbackInv
<1>2. Queued' = Queued
  BY DEF Queued, EventFrame
<1>3. /\ handler' \in Busy <=> handler \in Busy
      /\ handler' \in {"check", "setRunning", "invoke", "complete"} => handler' = handler
      /\ Working' => Working
  BY DEF HandlerMove, Busy, Working
<1>4. QueueState' /\ CountState' /\ RefState'
  <2>1. QueueState'
    BY <1>1, <1>2, <1>3 DEF QueueState, EventFrame
  <2>2. CountState'
    BY <1>1 DEF CountState, EventFrame
  <2>3. RefState'
    BY <1>1, <1>2 DEF RefState, EventFrame
  <2> QED
    BY <2>1, <2>2, <2>3
<1>5. ClientState' /\ ReportsTruth'
  BY <1>1, <1>2 DEF ClientState, ReportsTruth, EventFrame
<1>6. SendState'
  <2>1. \A e \in Event : Coming(e)' => Coming(e)
    BY <1>2, <1>3 DEF Coming, EventFrame
  <2>2. ASSUME NEW e \in Sync PROVE SendOf(e)'
    <3>1. SendOf(e) /\ e \in Event
      BY <1>1, EventAssumption DEF SendState
    <3> QED
      BY <1>2, <1>3, <2>1, <3>1 DEF SendOf, Early, EventFrame
  <2> QED
    BY <1>1, <1>3, <2>1, <2>2 DEF SendState, EventFrame
<1>7. VoidState'
  BY <1>1, <1>3 DEF VoidState, Early, EventFrame
<1>8. SafeState'
  BY <1>1, <1>2, <1>3 DEF SafeState, EventFrame
<1>9. FinishState'
  BY <1>1 DEF FinishState, OnlyNice, EventFrame, HandlerMove
<1> QED
  BY <1>4, <1>5, <1>6, <1>7, <1>8, <1>9 DEF CallbackInv

\* CheckExit: under a nice finish the flags never tell the handler to leave at once.
LEMMA CheckExitInv ==
  ASSUME CallbackInv, CheckExit
  PROVE  CallbackInv'
<1>1. TypeOK /\ QueueState /\ FinishState
  BY DEF CallbackInv
<1>2. /\ handler = "loop" /\ peeked' = NoEvent /\ until' = 0
      /\ handler' = IF mExitRequested /\ ~mRequestToQuit THEN "exiting" ELSE "look"
      /\ UNCHANGED <<contextVars, finishVars, now, eventVars, clientVars, cancelVars, history>>
  BY DEF CheckExit, HandlerGoto
<1>3. TypeOK'
  <2>1. handler' \in {"look", "exiting"} /\ 0 \in 0 .. MaxTime
    BY <1>2, EventAssumption
  <2> QED
    BY <1>1, <1>2, <2>1 DEF TypeOK, contextVars, finishVars, eventVars, clientVars, cancelVars,
                            history
<1>4. EventFrame
  BY <1>2 DEF EventFrame, contextVars, finishVars, eventVars, clientVars, cancelVars, history
<1>5. HandlerMove
  BY <1>1, <1>2 DEF HandlerMove, Busy, FinishState
<1> QED
  BY <1>1, <1>2, <1>3, <1>4, <1>5, MoveInv DEF contextVars, QueueState

\* The steps around the sleep and the wait, and the end of a dispatch.
LEMMA FlowInv ==
  ASSUME CallbackInv,
         ReadWhen \/ WaitThreadEvent \/ ReceiverDying \/ UnlockWorking \/ FinishHandling
  PROVE  CallbackInv'
<1>1. TypeOK /\ QueueState /\ FinishState
  BY DEF CallbackInv
<1>2. CASE ReadWhen
  <2>1. until' \in 0 .. MaxTime
    BY <1>1, <1>2, EventAssumption DEF ReadWhen, TypeOK
  <2>2. TypeOK'
    BY <1>1, <1>2, <2>1 DEF ReadWhen, TypeOK, contextVars, finishVars, eventVars, clientVars,
                            cancelVars, history
  <2>3. EventFrame /\ HandlerMove
    BY <1>2 DEF ReadWhen, EventFrame, HandlerMove, Busy, contextVars, finishVars, eventVars,
                clientVars, cancelVars, history
  <2> QED
    BY <1>1, <1>2, <2>2, <2>3, MoveInv DEF ReadWhen, contextVars, QueueState
<1>3. CASE WaitThreadEvent
  <2>1. TypeOK'
    BY <1>1, <1>3, EventAssumption
    DEF WaitThreadEvent, HandlerGoto, TypeOK, contextVars, finishVars, eventVars, clientVars,
        cancelVars, history
  <2>2. EventFrame /\ HandlerMove
    BY <1>3 DEF WaitThreadEvent, HandlerGoto, EventFrame, HandlerMove, Busy, contextVars,
                finishVars, eventVars, clientVars, cancelVars, history
  <2> QED
    BY <1>1, <1>3, <2>1, <2>2, MoveInv DEF WaitThreadEvent, QueueState
<1>4. CASE ReceiverDying
  <2>1. TypeOK'
    BY <1>1, <1>4, EventAssumption
    DEF ReceiverDying, HandlerGoto, TypeOK, contextVars, finishVars, eventVars, clientVars,
        cancelVars
  <2>2. EventFrame /\ HandlerMove
    BY <1>4 DEF ReceiverDying, HandlerGoto, EventFrame, HandlerMove, Busy, contextVars,
                finishVars, eventVars, clientVars, cancelVars
  <2> QED
    BY <1>1, <1>4, <2>1, <2>2, MoveInv DEF ReceiverDying, contextVars, QueueState
<1>5. CASE UnlockWorking
  <2>1. TypeOK'
    BY <1>1, <1>5, EventAssumption
    DEF UnlockWorking, HandlerGoto, TypeOK, contextVars, finishVars, eventVars, clientVars,
        cancelVars, history
  <2>2. EventFrame /\ HandlerMove
    BY <1>5 DEF UnlockWorking, HandlerGoto, EventFrame, HandlerMove, Busy, contextVars,
                finishVars, eventVars, clientVars, cancelVars, history
  <2> QED
    BY <1>1, <1>5, <2>1, <2>2, MoveInv DEF UnlockWorking, contextVars, QueueState
<1>6. CASE FinishHandling
  <2>1. TypeOK'
    BY <1>1, <1>6, EventAssumption
    DEF FinishHandling, HandlerGoto, TypeOK, contextVars, finishVars, eventVars, clientVars,
        cancelVars, history
  <2>2. EventFrame /\ HandlerMove
    BY <1>6 DEF FinishHandling, HandlerGoto, EventFrame, HandlerMove, Busy, contextVars,
                finishVars, eventVars, clientVars, cancelVars, history
  <2> QED
    BY <1>1, <1>6, <2>1, <2>2, MoveInv DEF FinishHandling, QueueState
<1> QED
  BY <1>2, <1>3, <1>4, <1>5, <1>6

\* The clock, and a walk along a list without its head.
LEMMA OutsideInv ==
  ASSUME CallbackInv, Tick \/ CancelHeadless
  PROVE  CallbackInv'
<1>1. TypeOK /\ QueueState
  BY DEF CallbackInv
<1>2. CASE Tick
  <2>1. now' \in 0 .. MaxTime
    BY <1>1, <1>2, EventAssumption DEF Tick, TypeOK
  <2>2. TypeOK'
    BY <1>1, <1>2, <2>1 DEF Tick, TypeOK, contextVars, finishVars, eventVars, clientVars,
                            handlerVars, cancelVars, history
  <2>3. EventFrame /\ HandlerMove
    BY <1>2 DEF Tick, EventFrame, HandlerMove, contextVars, finishVars, eventVars, clientVars,
                handlerVars, cancelVars, history
  <2> QED
    BY <1>1, <1>2, <2>2, <2>3, MoveInv DEF Tick, contextVars, QueueState
<1>3. CASE CancelHeadless
  <2>1. TypeOK'
    BY <1>1, <1>3 DEF CancelHeadless, TypeOK, finishVars, eventVars, clientVars, handlerVars,
                      cancelVars, history
  <2>2. EventFrame /\ HandlerMove
    BY <1>3 DEF CancelHeadless, EventFrame, HandlerMove, finishVars, eventVars, clientVars,
                handlerVars, cancelVars, history
  <2> QED
    BY <1>1, <1>3, <2>1, <2>2, MoveInv DEF CancelHeadless, QueueState
<1> QED
  BY <1>2, <1>3

-----------------------------------------------------------------------------
\* TakeFirst moves one event from the queue into the handler's hands.
LEMMA TakeFirstInv ==
  ASSUME CallbackInv, handler \notin Busy, mEventQueue # <<>>, TakeFirst,
         UNCHANGED <<mThreadEvent, finishVars, now, eventVars, clientVars, cancelVars, history>>
  PROVE  CallbackInv'
<1>1. /\ TypeOK /\ QueueState /\ CountState /\ RefState /\ ClientState /\ SendState
      /\ ReportsTruth /\ VoidState /\ SafeState /\ FinishState
  BY DEF CallbackInv
<1>2. PICK q \in Seq(QEntry) : q = mEventQueue
  BY <1>1 DEF TypeOK, QEntry
<1>3. PICK h : h = Head(q).event
  OBVIOUS
<1>4. PICK z : z = Tail(q)
  OBVIOUS
<1>5. /\ Head(q) \in QEntry /\ h \in EventsOf(q) /\ z \in Seq(QEntry) /\ Len(z) = Len(q) - 1
      /\ EventsOf(z) = EventsOf(q) \ {h} /\ Distinct(z) /\ Ordered(z)
  <2>1. q # <<>> /\ Distinct(q) /\ Ordered(q)
    BY <1>1, <1>2 DEF QueueState
  <2> QED
    BY <1>3, <1>4, <2>1, TailFacts
<1>6. /\ mEventQueue' = z /\ mCurrentEvent' = h /\ mStatus' = "Working" /\ handler' = "check"
      /\ peeked' = NoEvent /\ until' = 0 /\ list' = list /\ mEventsCount' = mEventsCount - 1
      /\ list = "sound" /\ mCurrentEvent = NoEvent
      /\ UNCHANGED <<mThreadEvent, mExitRequested, mRequestToQuit, finisher, now, status, ref,
                     syncEvent, client, ret, canceller, victims, safe, ran, silent, void>>
  BY <1>1, <1>2, <1>3, <1>4
  DEF TakeFirst, HandlerGoto, OneEventLess, QueueState, finishVars, eventVars, clientVars,
      cancelVars, history
<1>7. /\ Queued = EventsOf(q) /\ Queued' = Queued \ {h} /\ h \in Queued /\ h \in Event
      /\ \A e \in Event : e # NoEvent
  <2>1. Queued = EventsOf(q)
    BY <1>2, QueuedEvents DEF Queued
  <2>2. Queued' = EventsOf(z)
    BY <1>5, <1>6, QueuedEvents DEF Queued
  <2>3. h \in Event
    BY <1>3, <1>5 DEF QEntry
  <2> QED
    BY <1>5, <2>1, <2>2, <2>3, EventAssumption
<1>8. TypeOK'
  <2>1. mEventQueue' \in Seq([event : Event, pri : Nat, when : 0 .. MaxTime])
    BY <1>5, <1>6 DEF QEntry
  <2>2. mEventsCount' \in Int /\ 0 \in 0 .. MaxTime
    BY <1>1, <1>6, EventAssumption DEF TypeOK
  <2> QED
    BY <1>1, <1>6, <1>7, <2>1, <2>2 DEF TypeOK
<1>9. QueueState'
  BY <1>1, <1>5, <1>6, <1>7 DEF QueueState, Busy
<1>10. CountState'
  BY <1>1, <1>2, <1>5, <1>6 DEF CountState
<1>11. RefState'
  BY <1>1, <1>6, <1>7 DEF RefState
<1>12. ClientState' /\ ReportsTruth'
  BY <1>1, <1>6, <1>7 DEF ClientState, ReportsTruth
<1>13. SendState'
  <2>1. \A e \in Event : Coming(e)' <=> Coming(e)
    BY <1>6, <1>7 DEF Coming
  <2>2. ASSUME NEW e \in Sync PROVE SendOf(e)'
    <3>1. SendOf(e) /\ e \in Event
      BY <1>1, EventAssumption DEF SendState
    <3> QED
      BY <1>6, <1>7, <2>1, <3>1 DEF SendOf, Early
  <2> QED
    BY <1>1, <1>6, <2>1, <2>2 DEF SendState
<1>14. VoidState'
  BY <1>1, <1>6 DEF VoidState, Early
<1>15. SafeState'
  BY <1>1, <1>6, <1>7 DEF SafeState
<1>16. FinishState'
  BY <1>1, <1>6 DEF FinishState, OnlyNice
<1> QED
  BY <1>8, <1>9, <1>10, <1>11, <1>12, <1>13, <1>14, <1>15, <1>16 DEF CallbackInv

\* GetEvent takes the first event, or sleeps until it is due.
LEMMA GetEventInv ==
  ASSUME CallbackInv, handler \notin Busy, mEventQueue # <<>>, GetEvent,
         UNCHANGED <<mThreadEvent, finishVars, now, eventVars, clientVars, cancelVars, history>>
  PROVE  CallbackInv'
<1>1. TypeOK /\ QueueState
  BY DEF CallbackInv
<1>2. CASE SleepForFirst
  <2>1. Head(mEventQueue) \in QEntry
    <3>1. PICK q \in Seq(QEntry) : q = mEventQueue
      BY <1>1 DEF TypeOK, QEntry
    <3>2. Head(q) \in QEntry
      BY <1>1, <3>1, TailFacts DEF QueueState
    <3> QED
      BY <3>1, <3>2
  <2>2. peeked' \in Event /\ until' \in 0 .. MaxTime
    BY <1>2, <2>1 DEF SleepForFirst, QEntry
  <2>3. TypeOK'
    BY <1>1, <1>2, <2>2 DEF SleepForFirst, TypeOK, finishVars, eventVars, clientVars,
                            cancelVars, history
  <2>4. EventFrame /\ HandlerMove
    BY <1>2 DEF SleepForFirst, EventFrame, HandlerMove, Busy, finishVars, eventVars,
                clientVars, cancelVars, history
  <2> QED
    BY <1>1, <1>2, <2>3, <2>4, MoveInv DEF SleepForFirst, QueueState
<1>3. CASE TakeFirst
  BY <1>3, TakeFirstInv
<1> QED
  BY <1>2, <1>3 DEF GetEvent

\* The count stays a number, also below zero.
LEMMA OneLessInt ==
  ASSUME TypeOK
  PROVE  OneEventLess \in Int
<1>1. PICK n \in Int : n = mEventsCount - 1
  BY DEF TypeOK
<1>2. Max({n, CountFloor}) \in {n, CountFloor}
  <2>1. \E m \in {n, CountFloor} : \A y \in {n, CountFloor} : m >= y
    BY DEF CountFloor
  <2> QED
    BY <2>1 DEF Max
<1>3. Max({mEventsCount - 1, CountFloor}) \in Int
  BY <1>1, <1>2 DEF CountFloor
<1> QED
  BY <1>1, <1>3 DEF OneEventLess

\* LookAtQueue leaves for good only when the queue is empty.
LEMMA LookAtQueueInv ==
  ASSUME CallbackInv, LookAtQueue
  PROVE  CallbackInv'
<1>1. TypeOK /\ QueueState /\ FinishState
  BY DEF CallbackInv
<1>2. /\ handler = "look" /\ handler \notin Busy
      /\ UNCHANGED <<mThreadEvent, finishVars, now, eventVars, clientVars, cancelVars, history>>
  BY DEF LookAtQueue, Busy
<1>3. CASE list = "headTaken"
  <2>1. /\ mEventsCount' = OneEventLess /\ mStatus' = "Working" /\ handler' = "loop"
        /\ peeked' = NoEvent /\ until' = 0 /\ UNCHANGED <<mEventQueue, list, mCurrentEvent>>
    BY <1>3 DEF LookAtQueue, HandlerGoto
  <2>2. OneEventLess \in Int
    BY <1>1, OneLessInt
  <2>3. TypeOK'
    BY <1>1, <1>2, <2>1, <2>2, EventAssumption
    DEF TypeOK, finishVars, eventVars, clientVars, cancelVars, history
  <2>4. EventFrame /\ HandlerMove
    BY <1>2, <2>1 DEF EventFrame, HandlerMove, Busy, finishVars, eventVars, clientVars,
                      cancelVars, history
  <2> QED
    BY <1>1, <1>3, <2>1, <2>3, <2>4, MoveInv DEF QueueState
<1>4. CASE list = "sound" /\ mEventQueue # <<>>
  <2>1. GetEvent
    BY <1>4 DEF LookAtQueue
  <2> QED
    BY <1>2, <1>4, <2>1, GetEventInv
<1>5. CASE list # "headTaken" /\ ~(list = "sound" /\ mEventQueue # <<>>)
  <2>1. /\ handler' = IF mRequestToQuit THEN "exiting" ELSE "idling"
        /\ mStatus' = IF mRequestToQuit THEN mStatus ELSE "Idling"
        /\ peeked' = NoEvent /\ until' = 0
        /\ UNCHANGED <<mEventQueue, list, mCurrentEvent, mEventsCount>>
    BY <1>5 DEF LookAtQueue, HandlerGoto
  <2>2. mEventQueue = <<>>
    BY <1>1, <1>5 DEF QueueState
  <2>3. handler' \in {"exiting", "idling"} /\ mStatus' \in {mStatus, "Idling"}
    BY <2>1
  <2>4. TypeOK'
    BY <1>1, <1>2, <2>1, <2>3, EventAssumption
    DEF TypeOK, finishVars, eventVars, clientVars, cancelVars, history
  <2>5. EventFrame
    BY <1>2, <2>1 DEF EventFrame, finishVars, eventVars, clientVars, cancelVars, history
  <2>6. HandlerMove
    BY <1>2, <2>1, <2>2 DEF HandlerMove, Busy
  <2> QED
    BY <1>1, <2>1, <2>4, <2>5, <2>6, MoveInv DEF QueueState
<1> QED
  BY <1>3, <1>4, <1>5

\* WakeUp takes the list's head when the queue was emptied in the meantime.
LEMMA WakeUpInv ==
  ASSUME CallbackInv, WakeUp
  PROVE  CallbackInv'
<1>1. TypeOK /\ QueueState /\ FinishState
  BY DEF CallbackInv
<1>2. /\ handler = "sleeping" /\ handler \notin Busy
      /\ UNCHANGED <<mThreadEvent, finishVars, now, eventVars, clientVars, cancelVars, history>>
  BY DEF WakeUp, Busy
<1>3. CASE mEventQueue # <<>>
  <2>1. GetEvent
    BY <1>3 DEF WakeUp
  <2> QED
    BY <1>2, <1>3, <2>1, GetEventInv
<1>4. CASE mEventQueue = <<>>
  <2>1. /\ mEventsCount' = OneEventLess /\ mStatus' = "Working" /\ handler' = "loop"
        /\ peeked' = NoEvent /\ until' = 0 /\ list' = "headTaken"
        /\ UNCHANGED <<mEventQueue, mCurrentEvent>>
    BY <1>4 DEF WakeUp, HandlerGoto
  <2>2. OneEventLess \in Int
    BY <1>1, OneLessInt
  <2>3. TypeOK'
    BY <1>1, <1>2, <2>1, <2>2, EventAssumption
    DEF TypeOK, finishVars, eventVars, clientVars, cancelVars, history
  <2>4. EventFrame /\ HandlerMove
    BY <1>2, <2>1 DEF EventFrame, HandlerMove, Busy, finishVars, eventVars, clientVars,
                      cancelVars, history
  <2> QED
    BY <1>4, <2>1, <2>3, <2>4, MoveInv
<1> QED
  BY <1>3, <1>4

-----------------------------------------------------------------------------
\* The steps of a dispatch, which leave the queue and the clients alone.
DispatchFrame ==
  /\ peeked' = NoEvent /\ until' = 0
  /\ UNCHANGED <<mEventQueue, list, mEventsCount, mStatus, mThreadEvent, mExitRequested,
                 mRequestToQuit, finisher, now, client, ret, canceller, victims, safe, silent,
                 void>>

\* What they leave alone, and what is known of the event in the handler's hands.
LEMMA DispatchKeeps ==
  ASSUME CallbackInv, DispatchFrame, mCurrentEvent' = mCurrentEvent,
         handler \in Busy \ {"pop"}, handler' \in Busy \ {"pop"}
  PROVE  /\ Queued' = Queued /\ QueueState' /\ CountState' /\ SafeState' /\ FinishState'
         /\ mCurrentEvent \in Event /\ mCurrentEvent \notin Queued
         /\ client[mCurrentEvent] # "idle"
<1>1. TypeOK /\ QueueState /\ CountState /\ SafeState /\ FinishState
  BY DEF CallbackInv
<1>2. Queued' = Queued
  BY DEF Queued, DispatchFrame
<1>3. QueueState' /\ CountState'
  BY <1>1, <1>2 DEF QueueState, CountState, DispatchFrame
<1>4. SafeState'
  BY <1>1, <1>2 DEF SafeState, Working, Busy, DispatchFrame
<1>5. FinishState'
  BY <1>1 DEF FinishState, OnlyNice, DispatchFrame, Busy
<1>6. mCurrentEvent \in Event /\ mCurrentEvent \notin Queued /\ client[mCurrentEvent] # "idle"
  BY <1>1 DEF QueueState, TypeOK
<1> QED
  BY <1>2, <1>3, <1>4, <1>5, <1>6

\* CheckStatus posts the semaphore of a send only when its client has turned away.
LEMMA CheckStatusInv ==
  ASSUME CallbackInv, CheckStatus
  PROVE  CallbackInv'
<1>1. /\ TypeOK /\ QueueState /\ RefState /\ ClientState /\ SendState /\ VoidState
      /\ ReportsTruth
  BY DEF CallbackInv
<1>2. PICK givenUp : givenUp = (mCurrentEvent \in Sync /\ status[mCurrentEvent] = "Cancelled")
  OBVIOUS
<1>3. /\ handler = "check" /\ DispatchFrame /\ UNCHANGED <<mCurrentEvent, status, ref, ran>>
      /\ syncEvent' = IF givenUp THEN [syncEvent EXCEPT ![mCurrentEvent] = @ + 1] ELSE syncEvent
      /\ handler' = IF givenUp THEN "unlockWorking"
                    ELSE IF mCurrentEvent \in Sync THEN "setRunning" ELSE "invoke"
  BY <1>2 DEF CheckStatus, HandlerGoto, DispatchFrame, contextVars, finishVars, clientVars,
              cancelVars, history
<1>4. handler' \in {"unlockWorking", "setRunning", "invoke"}
  BY <1>3
<1>5. /\ Queued' = Queued /\ QueueState' /\ CountState' /\ SafeState' /\ FinishState'
      /\ mCurrentEvent \in Event /\ mCurrentEvent \notin Queued
      /\ client[mCurrentEvent] # "idle"
  <2>1. handler \in Busy \ {"pop"} /\ handler' \in Busy \ {"pop"}
    BY <1>3, <1>4 DEF Busy
  <2> QED
    BY <1>3, <2>1, DispatchKeeps
<1>6. /\ syncEvent' \in [Event -> Nat]
      /\ \A e \in Event : e # mCurrentEvent => syncEvent'[e] = syncEvent[e]
      /\ ~givenUp => syncEvent' = syncEvent
  <2>1. CASE givenUp
    BY <1>1, <1>3, <1>5, <2>1 DEF TypeOK
  <2>2. CASE ~givenUp
    BY <1>1, <1>3, <2>2 DEF TypeOK
  <2> QED
    BY <2>1, <2>2
<1>7. TypeOK'
  BY <1>1, <1>3, <1>4, <1>6, EventAssumption DEF TypeOK, DispatchFrame
<1>8. RefState' /\ ClientState' /\ ReportsTruth'
  <2>1. RefState' /\ ReportsTruth'
    BY <1>1, <1>3, <1>5 DEF RefState, ReportsTruth, DispatchFrame
  <2>2. ClientState'
    BY <1>1, <1>3, <1>5, <1>6 DEF ClientState, DispatchFrame
  <2> QED
    BY <2>1, <2>2
<1>9. SendState'
  <2>1. \A e \in Event : Coming(e)' => Coming(e)
    BY <1>3, <1>5 DEF Coming
  <2>2. givenUp => ~Early(mCurrentEvent)
    BY <1>1, <1>2 DEF SendState, SendOf
  <2>3. ASSUME NEW e \in Sync PROVE SendOf(e)'
    <3>1. SendOf(e) /\ e \in Event
      BY <1>1, EventAssumption DEF SendState
    <3>2. CASE e = mCurrentEvent /\ givenUp
      BY <1>3, <1>4, <2>2, <3>1, <3>2 DEF SendOf, Early, DispatchFrame
    <3>3. CASE ~(e = mCurrentEvent /\ givenUp)
      <4>1. syncEvent'[e] = syncEvent[e]
        BY <1>6, <3>1, <3>3
      <4> QED
        BY <1>3, <1>4, <1>5, <2>1, <3>1, <4>1 DEF SendOf, Early, DispatchFrame
    <3> QED
      BY <3>2, <3>3
  <2>4. handler' \in {"setRunning", "complete"} => mCurrentEvent' \in Sync
    BY <1>3
  <2> QED
    BY <1>1, <1>3, <1>4, <2>1, <2>3, <2>4 DEF SendState, DispatchFrame
<1>10. VoidState'
  BY <1>1, <1>2, <1>3, <1>4 DEF VoidState, Early, DispatchFrame
<1> QED
  BY <1>5, <1>7, <1>8, <1>9, <1>10 DEF CallbackInv

\* SetRunning overwrites no verdict: nobody has woken the sender yet.
LEMMA SetRunningInv ==
  ASSUME CallbackInv, SetRunning
  PROVE  CallbackInv'
<1>1. /\ TypeOK /\ QueueState /\ RefState /\ ClientState /\ SendState /\ VoidState
      /\ ReportsTruth
  BY DEF CallbackInv
<1>2. /\ handler = "setRunning" /\ handler' = "invoke" /\ DispatchFrame
      /\ UNCHANGED <<mCurrentEvent, syncEvent, ref, ran>>
      /\ status' = [status EXCEPT ![mCurrentEvent] = "Running"]
  BY DEF SetRunning, HandlerGoto, DispatchFrame, contextVars, finishVars, clientVars,
         cancelVars, history
<1>3. /\ Queued' = Queued /\ QueueState' /\ CountState' /\ SafeState' /\ FinishState'
      /\ mCurrentEvent \in Event /\ mCurrentEvent \notin Queued
      /\ client[mCurrentEvent] # "idle"
  <2>1. handler \in Busy \ {"pop"} /\ handler' \in Busy \ {"pop"}
    BY <1>2 DEF Busy
  <2> QED
    BY <1>2, <2>1, DispatchKeeps
<1>4. /\ status' \in [Event -> {"Created", "Running", "Completed", "Cancelled"}]
      /\ status'[mCurrentEvent] = "Running"
      /\ \A e \in Event : e # mCurrentEvent => status'[e] = status[e]
  BY <1>1, <1>2, <1>3 DEF TypeOK
<1>5. TypeOK'
  BY <1>1, <1>2, <1>4, EventAssumption DEF TypeOK, DispatchFrame
<1>6. RefState' /\ ReportsTruth'
  BY <1>1, <1>2, <1>3 DEF RefState, ReportsTruth, DispatchFrame
<1>7. ClientState'
  BY <1>1, <1>2, <1>3, <1>4 DEF ClientState, DispatchFrame
<1>8. SendState'
  <2>1. \A e \in Event : Coming(e)' <=> Coming(e)
    BY <1>2, <1>3 DEF Coming
  <2>2. Coming(mCurrentEvent)
    BY <1>2 DEF Coming
  <2>3. ASSUME NEW e \in Sync PROVE SendOf(e)'
    <3>1. SendOf(e) /\ e \in Event
      BY <1>1, EventAssumption DEF SendState
    <3>2. CASE e = mCurrentEvent
      BY <1>1, <1>2, <1>3, <1>4, <2>2, <3>1, <3>2 DEF SendOf, Early, DispatchFrame, TypeOK
    <3>3. CASE e # mCurrentEvent
      BY <1>2, <1>3, <1>4, <2>1, <3>1, <3>3 DEF SendOf, Early, DispatchFrame
    <3> QED
      BY <3>2, <3>3
  <2> QED
    BY <1>1, <1>2, <2>1, <2>3 DEF SendState, DispatchFrame
<1>9. VoidState'
  BY <1>1, <1>2, <1>4 DEF VoidState, Early, DispatchFrame, TypeOK
<1> QED
  BY <1>3, <1>5, <1>6, <1>7, <1>8, <1>9 DEF CallbackInv

\* InvokeCallback runs an event that was not given up and that nobody reported cancelled.
LEMMA InvokeCallbackInv ==
  ASSUME CallbackInv, InvokeCallback
  PROVE  CallbackInv'
<1>1. /\ TypeOK /\ QueueState /\ RefState /\ ClientState /\ SendState /\ VoidState
      /\ ReportsTruth
  BY DEF CallbackInv
<1>2. /\ handler = "invoke" /\ DispatchFrame /\ UNCHANGED <<mCurrentEvent, status, syncEvent, ref>>
      /\ handler' = IF mCurrentEvent \in Sync THEN "complete" ELSE "unlockWorking"
      /\ ran' = ran \cup {mCurrentEvent}
  BY DEF InvokeCallback, HandlerGoto, DispatchFrame, contextVars, finishVars, eventVars,
         clientVars, cancelVars
<1>3. handler' \in {"complete", "unlockWorking"}
  BY <1>2
<1>4. /\ Queued' = Queued /\ QueueState' /\ CountState' /\ SafeState' /\ FinishState'
      /\ mCurrentEvent \in Event /\ mCurrentEvent \notin Queued
      /\ client[mCurrentEvent] # "idle"
  <2>1. handler \in Busy \ {"pop"} /\ handler' \in Busy \ {"pop"}
    BY <1>2, <1>3 DEF Busy
  <2> QED
    BY <1>2, <2>1, DispatchKeeps
<1>5. TypeOK'
  BY SMTT(30), <1>1, <1>2, <1>3, <1>4, EventAssumption DEF TypeOK, DispatchFrame
<1>6. RefState' /\ ReportsTruth' /\ ClientState'
  <2>1. RefState'
    BY <1>1, <1>2, <1>4 DEF RefState, DispatchFrame
  <2>2. ReportsTruth'
    BY <1>1, <1>2, <1>4 DEF ReportsTruth, DispatchFrame
  <2>3. ClientState'
    BY <1>1, <1>2, <1>4 DEF ClientState, DispatchFrame
  <2> QED
    BY <2>1, <2>2, <2>3
<1>7. SendState'
  <2>1. \A e \in Event : Coming(e)' => Coming(e) /\ e # mCurrentEvent
    BY <1>2, <1>3, <1>4 DEF Coming
  <2>2. Coming(mCurrentEvent)
    BY <1>2 DEF Coming
  <2>3. ASSUME NEW e \in Sync PROVE SendOf(e)'
    <3>1. SendOf(e) /\ e \in Event
      BY <1>1, EventAssumption DEF SendState
    <3>2. CASE e = mCurrentEvent
      BY <1>2, <1>4, <2>2, <3>1, <3>2 DEF SendOf, Early, DispatchFrame
    <3>3. CASE e # mCurrentEvent
      BY <1>2, <1>4, <2>1, <3>1, <3>3 DEF SendOf, Early, DispatchFrame
    <3> QED
      BY <3>2, <3>3
  <2>4. handler' \in {"setRunning", "complete"} => mCurrentEvent' \in Sync
    BY <1>2
  <2> QED
    BY <1>1, <1>2, <1>3, <2>1, <2>3, <2>4 DEF SendState, DispatchFrame
<1>8. VoidState'
  BY <1>1, <1>2, <1>3 DEF VoidState, Early, DispatchFrame
<1> QED
  BY <1>4, <1>5, <1>6, <1>7, <1>8 DEF CallbackInv

\* Complete wakes a sender whose callback has run.
LEMMA CompleteInv ==
  ASSUME CallbackInv, Complete
  PROVE  CallbackInv'
<1>1. /\ TypeOK /\ QueueState /\ RefState /\ ClientState /\ SendState /\ VoidState
      /\ ReportsTruth
  BY DEF CallbackInv
<1>2. /\ handler = "complete" /\ handler' = "unlockWorking" /\ DispatchFrame
      /\ UNCHANGED <<mCurrentEvent, ref, ran>>
      /\ status' = [status EXCEPT ![mCurrentEvent] = "Completed"]
      /\ syncEvent' = [syncEvent EXCEPT ![mCurrentEvent] = @ + 1]
  BY DEF Complete, HandlerGoto, DispatchFrame, contextVars, finishVars, clientVars,
         cancelVars, history
<1>3. /\ Queued' = Queued /\ QueueState' /\ CountState' /\ SafeState' /\ FinishState'
      /\ mCurrentEvent \in Event /\ mCurrentEvent \notin Queued
      /\ client[mCurrentEvent] # "idle"
  <2>1. handler \in Busy \ {"pop"} /\ handler' \in Busy \ {"pop"}
    BY <1>2 DEF Busy
  <2> QED
    BY <1>2, <2>1, DispatchKeeps
<1>4. /\ status' \in [Event -> {"Created", "Running", "Completed", "Cancelled"}]
      /\ syncEvent' \in [Event -> Nat] /\ status'[mCurrentEvent] = "Completed"
      /\ \A e \in Event : e # mCurrentEvent =>
           status'[e] = status[e] /\ syncEvent'[e] = syncEvent[e]
  BY <1>1, <1>2, <1>3 DEF TypeOK
<1>5. TypeOK'
  BY <1>1, <1>2, <1>4, EventAssumption DEF TypeOK, DispatchFrame
<1>6. RefState' /\ ReportsTruth'
  BY <1>1, <1>2, <1>3 DEF RefState, ReportsTruth, DispatchFrame
<1>7. ClientState'
  BY <1>1, <1>2, <1>3, <1>4 DEF ClientState, DispatchFrame
<1>8. SendState'
  <2>1. \A e \in Event : Coming(e)' => Coming(e)
    BY <1>2, <1>3 DEF Coming
  <2>2. mCurrentEvent \in ran
    BY <1>1, <1>2 DEF SendState
  <2>3. ASSUME NEW e \in Sync PROVE SendOf(e)'
    <3>1. SendOf(e) /\ e \in Event
      BY <1>1, EventAssumption DEF SendState
    <3>2. CASE e = mCurrentEvent
      BY <1>2, <1>3, <1>4, <2>2, <3>2 DEF SendOf, Coming, DispatchFrame
    <3>3. CASE e # mCurrentEvent
      BY <1>2, <1>3, <1>4, <2>1, <3>1, <3>3 DEF SendOf, Early, DispatchFrame
    <3> QED
      BY <3>2, <3>3
  <2> QED
    BY <1>1, <1>2, <2>1, <2>3 DEF SendState, DispatchFrame
<1>9. VoidState'
  BY <1>1, <1>2, <1>4 DEF VoidState, Early, DispatchFrame, TypeOK
<1> QED
  BY <1>3, <1>5, <1>6, <1>7, <1>8, <1>9 DEF CallbackInv

\* PopEvent gives back the reference of the queue.
LEMMA PopEventInv ==
  ASSUME CallbackInv, PopEvent
  PROVE  CallbackInv'
<1>1. /\ TypeOK /\ QueueState /\ CountState /\ RefState /\ ClientState /\ SendState
      /\ ReportsTruth /\ VoidState /\ SafeState /\ FinishState
  BY DEF CallbackInv
<1>2. /\ handler = "pop" /\ handler' = "loop" /\ DispatchFrame
      /\ mCurrentEvent' = NoEvent /\ ref' = [ref EXCEPT ![mCurrentEvent] = @ - 1]
      /\ UNCHANGED <<status, syncEvent, ran>>
  BY DEF PopEvent, HandlerGoto, DispatchFrame, finishVars, clientVars, cancelVars, history
<1>3. /\ Queued' = Queued /\ mCurrentEvent \in Event /\ mCurrentEvent \notin Queued
      /\ \A e \in Event : e # NoEvent
  <2>1. Queued' = Queued
    BY <1>2 DEF Queued, DispatchFrame
  <2> QED
    BY <1>1, <1>2, <2>1, EventAssumption DEF QueueState, TypeOK, Busy
<1>4. NoEvent \notin Queued
  BY <1>1, QueuedTypes, EventAssumption
<1>5. TypeOK'
  BY <1>1, <1>2, <1>3, EventAssumption DEF TypeOK, DispatchFrame
<1>6. QueueState'
  BY <1>1, <1>2, <1>3, <1>4 DEF QueueState, Busy, DispatchFrame
<1>7. CountState' /\ ClientState' /\ ReportsTruth'
  <2>1. CountState' /\ ClientState'
    BY <1>1, <1>2 DEF CountState, ClientState, DispatchFrame
  <2>2. ReportsTruth'
    BY <1>1, <1>2, <1>3, EventAssumption DEF ReportsTruth, DispatchFrame
  <2> QED
    BY <2>1, <2>2
<1>8. RefState'
  <2>1. /\ ref'[mCurrentEvent] = ref[mCurrentEvent] - 1
        /\ \A e \in Event : e # mCurrentEvent => ref'[e] = ref[e]
    BY <1>1, <1>2, <1>3 DEF TypeOK
  <2> QED
    BY <1>1, <1>2, <1>3, <2>1 DEF RefState, DispatchFrame
<1>9. SendState'
  <2>1. \A e \in Event : Coming(e)' => Coming(e)
    BY <1>2, <1>3 DEF Coming
  <2>2. ASSUME NEW e \in Sync PROVE SendOf(e)'
    <3>1. SendOf(e) /\ e \in Event
      BY <1>1, EventAssumption DEF SendState
    <3> QED
      BY <1>2, <1>3, <2>1, <3>1 DEF SendOf, Early, DispatchFrame
  <2> QED
    BY <1>1, <1>2, <2>1, <2>2 DEF SendState, DispatchFrame
<1>10. VoidState'
  BY <1>1, <1>2 DEF VoidState, Early, DispatchFrame
<1>11. SafeState'
  BY <1>1, <1>2, <1>3 DEF SafeState, Working, DispatchFrame
<1>12. FinishState'
  BY <1>1, <1>2 DEF FinishState, OnlyNice, DispatchFrame
<1> QED
  BY <1>5, <1>6, <1>7, <1>8, <1>9, <1>10, <1>11, <1>12 DEF CallbackInv

-----------------------------------------------------------------------------
\* RequestToFinish sets mRequestToQuit before mExitRequested, and a nice one leaves it set.
LEMMA RequestToFinishInv ==
  ASSUME CallbackInv, NEW f \in Finish, RequestToFinish(f)
  PROVE  CallbackInv'
<1>1. /\ TypeOK /\ QueueState /\ CountState /\ RefState /\ ClientState /\ SendState
      /\ ReportsTruth /\ VoidState /\ SafeState /\ FinishState
  BY DEF CallbackInv
<1>2. /\ finisher[f] # "returned"
      /\ mRequestToQuit' = IF finisher[f] = "idle" THEN f = "Nice" ELSE mRequestToQuit
      /\ mExitRequested' = (mExitRequested \/ finisher[f] = "exitRequested")
      /\ mThreadEvent' = IF finisher[f] = "notify" THEN mThreadEvent + 1 ELSE mThreadEvent
      /\ UNCHANGED <<mEventQueue, list, mCurrentEvent, mEventsCount, mStatus, now, status, ref,
                     syncEvent, client, ret, handler, peeked, until, canceller, victims, safe,
                     ran, silent, void>>
  BY DEF RequestToFinish, eventVars, clientVars, handlerVars, cancelVars, history
<1>3. PICK s \in {"exitRequested", "notify", "returned"} :
        finisher' = [finisher EXCEPT ![f] = s]
  <2>1. finisher[f] \in {"idle", "exitRequested", "notify"}
    BY <1>1, <1>2 DEF TypeOK
  <2>2. CASE finisher[f] = "idle"
    BY <2>2 DEF RequestToFinish
  <2>3. CASE finisher[f] = "exitRequested"
    BY <2>3 DEF RequestToFinish
  <2>4. CASE finisher[f] = "notify"
    BY <2>4 DEF RequestToFinish
  <2> QED
    BY <2>1, <2>2, <2>3, <2>4
<1>4. TypeOK'
  <2>1. mThreadEvent' \in Nat
    BY <1>1, <1>2 DEF TypeOK
  <2>2. mRequestToQuit' \in BOOLEAN /\ mExitRequested' \in BOOLEAN
    BY <1>1, <1>2, Zenon DEF TypeOK
  <2>3. finisher' \in [Finish -> {"idle", "exitRequested", "notify", "returned"}]
    BY <1>1, <1>3 DEF TypeOK
  <2> QED
    BY <1>1, <1>2, <2>1, <2>2, <2>3 DEF TypeOK
<1>5. Queued' = Queued
  BY <1>2 DEF Queued
<1>6. QueueState' /\ CountState' /\ RefState' /\ ClientState' /\ ReportsTruth'
  BY <1>1, <1>2, <1>5 DEF QueueState, CountState, RefState, ClientState, ReportsTruth
<1>7. SendState'
  <2>1. \A e \in Event : Coming(e)' <=> Coming(e)
    BY <1>2, <1>5 DEF Coming
  <2>2. ASSUME NEW e \in Sync PROVE SendOf(e)'
    <3>1. SendOf(e) /\ e \in Event
      BY <1>1, EventAssumption DEF SendState
    <3> QED
      BY <1>2, <1>5, <2>1, <3>1 DEF SendOf, Early
  <2> QED
    BY <1>1, <1>2, <2>1, <2>2 DEF SendState
<1>8. VoidState' /\ SafeState'
  BY <1>1, <1>2, <1>5 DEF VoidState, Early, SafeState, Working
<1>9. FinishState'
  <2> SUFFICES ASSUME OnlyNice'
               PROVE  /\ mExitRequested' => mRequestToQuit'
                      /\ \A g \in Finish : finisher'[g] # "idle" => mRequestToQuit'
                      /\ handler' \in {"exiting", "exited"} =>
                           mRequestToQuit' /\ mEventQueue' = <<>>
    BY DEF FinishState
  <2>1. f = "Nice"
    BY <1>1, <1>3, EventAssumption DEF OnlyNice, TypeOK
  <2>2. OnlyNice
    BY <1>1, <1>3, <2>1 DEF OnlyNice, TypeOK
  <2>3. mRequestToQuit'
    BY <1>1, <1>2, <2>1, <2>2 DEF FinishState
  <2> QED
    BY <1>1, <1>2, <2>2, <2>3 DEF FinishState
<1> QED
  BY <1>4, <1>6, <1>7, <1>8, <1>9 DEF CallbackInv

\* TryWorkingLock vouches for the victims only when the handler is not at work.
LEMMA TryWorkingLockInv ==
  ASSUME CallbackInv, TryWorkingLock
  PROVE  CallbackInv'
<1>1. /\ TypeOK /\ QueueState /\ CountState /\ RefState /\ ClientState /\ SendState
      /\ ReportsTruth /\ VoidState /\ SafeState /\ FinishState
  BY DEF CallbackInv
<1>2. /\ canceller' = "idle" /\ victims' = {}
      /\ safe' = IF Working THEN safe ELSE safe \cup victims
      /\ UNCHANGED <<mEventQueue, list, mCurrentEvent, mEventsCount, mStatus, mThreadEvent,
                     mExitRequested, mRequestToQuit, finisher, now, status, ref, syncEvent,
                     client, ret, handler, peeked, until, ran, silent, void>>
  BY DEF TryWorkingLock, contextVars, finishVars, eventVars, clientVars, handlerVars, history
<1>3. /\ \A e \in safe' : e \in safe \cup victims
      /\ \A e \in safe' : e \in safe \/ ~Working
  BY <1>2
<1>4. TypeOK'
  <2>1. safe' \subseteq Event /\ victims' \subseteq Event /\ canceller' \in {"idle", "trylock"}
    BY <1>1, <1>2, <1>3 DEF TypeOK
  <2>2. UNCHANGED <<mEventQueue, list, mCurrentEvent, mEventsCount, mStatus, mThreadEvent,
                    mExitRequested, mRequestToQuit, finisher, now, status, ref, syncEvent,
                    client, ret, handler, peeked, until, ran, silent, void>>
    BY <1>2
  <2> QED
    BY ONLY <1>1, <2>1, <2>2 DEF TypeOK
<1>5. Queued' = Queued
  BY <1>2 DEF Queued
<1>6. QueueState' /\ CountState' /\ RefState' /\ ReportsTruth' /\ FinishState'
  BY <1>1, <1>2, <1>5 DEF QueueState, CountState, RefState, ReportsTruth, FinishState, OnlyNice
<1>7. ClientState'
  BY <1>1, <1>2, <1>3 DEF ClientState
<1>8. SendState'
  <2>1. \A e \in Event : Coming(e)' <=> Coming(e)
    BY <1>2, <1>5 DEF Coming
  <2>2. ASSUME NEW e \in Sync PROVE SendOf(e)'
    <3>1. SendOf(e) /\ e \in Event
      BY <1>1, EventAssumption DEF SendState
    <3> QED
      BY <1>2, <1>5, <2>1, <3>1 DEF SendOf, Early
  <2> QED
    BY <1>1, <1>2, <2>1, <2>2 DEF SendState
<1>9. VoidState'
  BY <1>1, <1>2 DEF VoidState, Early
<1>10. SafeState'
  <2>1. Working' = Working
    BY <1>2 DEF Working
  <2> QED
    BY <1>1, <1>2, <1>3, <1>5, <2>1 DEF SafeState
<1> QED
  BY <1>4, <1>6, <1>7, <1>8, <1>9, <1>10 DEF CallbackInv

\* Cancelling queued events: each is marked, posted, released and counted, so its sender
\* finds it cancelled and its callback never runs.
LEMMA CancelEventsInv ==
  ASSUME CallbackInv, NEW S \in SUBSET Queued, CancelEvents(S), list = "sound", list' = list,
         canceller' \in {"idle", "trylock"},
         \A e \in safe' : e \in Event /\ (e \in safe \/ e \in S),
         \A e \in victims' : e \in Event /\ (e \in victims \/ e \in S \/ e = mCurrentEvent)
  PROVE  CallbackInv'
<1>1. /\ TypeOK /\ QueueState /\ CountState /\ RefState /\ ClientState /\ SendState
      /\ ReportsTruth /\ VoidState /\ SafeState /\ FinishState
  BY DEF CallbackInv
<1>2. /\ mEventQueue' = Without(S) /\ mEventsCount' = mEventsCount - Cardinality(S)
      /\ status' = [x \in Event |-> IF x \in S THEN "Cancelled" ELSE status[x]]
      /\ syncEvent' = [x \in Event |-> IF x \in S THEN syncEvent[x] + 1 ELSE syncEvent[x]]
      /\ ref' = [x \in Event |-> IF x \in S THEN ref[x] - 1 ELSE ref[x]]
      /\ UNCHANGED <<mCurrentEvent, mStatus, mThreadEvent, mExitRequested, mRequestToQuit,
                     finisher, now, client, ret, handler, peeked, until, ran, silent, void>>
  BY DEF CancelEvents, finishVars, clientVars, handlerVars, history
<1>3. PICK z : z = Without(S)
  OBVIOUS
<1>4. /\ mEventQueue \in Seq(QEntry) /\ Queued = EventsOf(mEventQueue)
      /\ \A e \in Queued : e \in Event
  BY <1>1, QueuedTypes
<1>5. /\ z \in Seq(QEntry) /\ Distinct(z) /\ Ordered(z) /\ EventsOf(z) = Queued \ S
      /\ Cardinality(S) \in Nat /\ Len(z) = Len(mEventQueue) - Cardinality(S)
  BY <1>1, <1>3, <1>4, WithoutFacts DEF QueueState
<1>6. Queued' = Queued \ S
  <2>1. {z[i].event : i \in DOMAIN z} = EventsOf(z)
    BY <1>5, QueuedEvents
  <2> QED
    BY <1>2, <1>3, <1>5, <2>1 DEF Queued
<1>7. /\ \A e \in S : status'[e] = "Cancelled" /\ ref'[e] = ref[e] - 1
      /\ \A e \in Event : e \notin S =>
           status'[e] = status[e] /\ ref'[e] = ref[e] /\ syncEvent'[e] = syncEvent[e]
  BY <1>2, <1>4
<1>8. \A e \in S : e \in Event /\ client[e] # "idle" /\ e # mCurrentEvent
  BY <1>1, <1>4 DEF QueueState
<1>9. TypeOK'
  <2>1. mEventQueue' \in Seq([event : Event, pri : Nat, when : 0 .. MaxTime])
    BY <1>2, <1>3, <1>5 DEF QEntry
  <2>2. mEventsCount' \in Int
    BY <1>1, <1>2, <1>5 DEF TypeOK
  <2>3. status' \in [Event -> {"Created", "Running", "Completed", "Cancelled"}]
    BY <1>1, <1>2 DEF TypeOK
  <2>4. syncEvent' \in [Event -> Nat]
    BY <1>1, <1>2 DEF TypeOK
  <2>5. ref' \in [Event -> Int]
    BY <1>1, <1>2 DEF TypeOK
  <2>6. safe' \subseteq Event /\ victims' \subseteq Event
    OBVIOUS
  <2> QED
    BY <1>1, <1>2, <2>1, <2>2, <2>3, <2>4, <2>5, <2>6 DEF TypeOK
<1>10. QueueState'
  BY <1>1, <1>2, <1>3, <1>5, <1>6 DEF QueueState
<1>11. CountState'
  BY <1>1, <1>2, <1>3, <1>5 DEF CountState, TypeOK
<1>12. RefState'
  <2> SUFFICES ASSUME NEW e \in Event
               PROVE  ref'[e] = (IF e \in Queued' \/ e = mCurrentEvent' THEN 1 ELSE 0)
                              + (IF e \in Sync /\ client'[e] # "returned" THEN 1 ELSE 0)
    BY DEF RefState
  <2>1. ref[e] = (IF e \in Queued \/ e = mCurrentEvent THEN 1 ELSE 0)
               + (IF e \in Sync /\ client[e] # "returned" THEN 1 ELSE 0)
    BY <1>1 DEF RefState
  <2>2. CASE e \in S
    BY <1>2, <1>6, <1>7, <1>8, <2>1, <2>2
  <2>3. CASE e \notin S
    BY <1>2, <1>6, <1>7, <2>1, <2>3
  <2> QED
    BY <2>2, <2>3
<1>13. ClientState'
  <2>1. \A e \in safe' \cup victims' : client[e] # "idle"
    BY <1>1, <1>8 DEF SafeState, QueueState
  <2> QED
    BY <1>1, <1>2, <1>7, <1>8, <2>1 DEF ClientState
<1>14. SendState'
  <2>1. \A e \in Event : Coming(e)' => Coming(e) /\ e \notin S
    BY <1>2, <1>6, <1>8 DEF Coming
  <2>2. ASSUME NEW e \in Sync PROVE SendOf(e)'
    <3>1. SendOf(e) /\ e \in Event
      BY <1>1, EventAssumption DEF SendState
    <3>2. CASE e \in S
      <4>1. e \notin ran
        BY <1>1, <3>1, <3>2 DEF SendState, Coming
      <4> QED
        BY <1>2, <1>6, <1>7, <1>8, <2>1, <3>1, <3>2, <4>1 DEF SendOf
    <3>3. CASE e \notin S
      BY <1>2, <1>6, <1>7, <2>1, <3>1, <3>3 DEF SendOf, Early
    <3> QED
      BY <3>2, <3>3
  <2> QED
    BY <1>1, <1>2, <2>1, <2>2 DEF SendState
<1>15. ReportsTruth'
  BY <1>1, <1>2, <1>6 DEF ReportsTruth
<1>16. VoidState'
  <2>1. \A e \in void : e \in Event
    BY <1>1 DEF TypeOK
  <2> QED
    BY <1>1, <1>2, <1>7, <2>1 DEF VoidState, Early
<1>17. SafeState'
  <2>1. Working' = Working
    BY <1>2 DEF Working
  <2>2. mCurrentEvent \notin Queued /\ \A e \in Event : e = mCurrentEvent => client[e] # "idle"
    BY <1>1 DEF QueueState
  <2> QED
    BY <1>1, <1>2, <1>6, <1>8, <2>1, <2>2 DEF SafeState
<1>18. FinishState'
  <2>1. mEventQueue = <<>> => mEventQueue' = <<>>
    <3>1. ASSUME mEventQueue = <<>> PROVE z = <<>>
      <4>1. Len(z) = 0
        BY <1>5, <3>1
      <4> QED
        BY <1>5, <4>1
    <3> QED
      BY <1>2, <1>3, <3>1
  <2> QED
    BY <1>1, <1>2, <2>1 DEF FinishState, OnlyNice
<1> QED
  BY <1>9, <1>10, <1>11, <1>12, <1>13, <1>14, <1>15, <1>16, <1>17, <1>18 DEF CallbackInv

\* The cancelling methods.
LEMMA CancelInv ==
  ASSUME CallbackInv, NEW e \in Event, Cancel(e)
  PROVE  CallbackInv'
<1>1. TypeOK
  BY DEF CallbackInv
<1>2. \A x \in Queued : x \in Event
  BY <1>1, QueuedTypes
<1>3. ASSUME NEW op \in CancelOps, CancelPending(op, e) PROVE CallbackInv'
  <2>1. PICK S \in SUBSET Queued : S = Queued \cap Targets(op, e)
    OBVIOUS
  <2>2. CancelEvents(S) /\ list = "sound" /\ list' = list /\ UNCHANGED <<canceller, victims, safe>>
    BY <1>3, <2>1 DEF CancelPending, cancelVars
  <2>3. /\ canceller' \in {"idle", "trylock"}
        /\ \A x \in safe' : x \in Event /\ x \in safe
        /\ \A x \in victims' : x \in Event /\ x \in victims
    BY <1>1, <2>2 DEF TypeOK
  <2> QED
    BY <2>2, <2>3, CancelEventsInv
<1>4. ASSUME CancelCallbackEvents(e) PROVE CallbackInv'
  <2>1. PICK T : T = Targets("CancelCallbackEvents", e)
    OBVIOUS
  <2>2. PICK S \in SUBSET Queued : S = Queued \cap T
    OBVIOUS
  <2>3. CancelEvents(S) /\ list = "sound" /\ list' = list
    BY <1>4, <2>1, <2>2 DEF CancelCallbackEvents
  <2>4. CASE mCurrentEvent \in T
    <3>1. canceller' = "trylock" /\ victims' = T \cap (Queued \cup {mCurrentEvent}) /\ safe' = safe
      BY <1>4, <2>1, <2>4 DEF CancelCallbackEvents
    <3>2. \A x \in T : x \in Event
      BY <2>1 DEF Targets
    <3>3. /\ \A x \in safe' : x \in Event /\ x \in safe
          /\ \A x \in victims' : x \in Event /\ (x \in S \/ x = mCurrentEvent)
      BY <1>1, <2>2, <3>1, <3>2 DEF TypeOK
    <3> QED
      BY <2>3, <3>1, <3>3, CancelEventsInv
  <2>5. CASE mCurrentEvent \notin T
    <3>1. canceller' = canceller /\ victims' = victims /\ safe' = safe \cup S
      BY <1>4, <2>1, <2>2, <2>5 DEF CancelCallbackEvents
    <3>2. /\ canceller' \in {"idle", "trylock"}
          /\ \A x \in safe' : x \in Event /\ (x \in safe \/ x \in S)
          /\ \A x \in victims' : x \in Event /\ x \in victims
      BY <1>1, <1>2, <3>1 DEF TypeOK
    <3> QED
      BY <2>3, <3>2, CancelEventsInv
  <2> QED
    BY <2>4, <2>5
<1> QED
  BY <1>3, <1>4 DEF Cancel

\* ~CCallbackContext cancels what is left.
LEMMA DestroyContextInv ==
  ASSUME CallbackInv, DestroyContext
  PROVE  CallbackInv'
<1>1. TypeOK
  BY DEF CallbackInv
<1>2. PICK S \in SUBSET Queued : S = Queued
  OBVIOUS
<1>3. CancelEvents(S) /\ list = "sound" /\ list' = list /\ UNCHANGED <<canceller, victims, safe>>
  BY <1>2 DEF DestroyContext, cancelVars
<1>4. /\ canceller' \in {"idle", "trylock"}
      /\ \A x \in safe' : x \in Event /\ x \in safe
      /\ \A x \in victims' : x \in Event /\ x \in victims
  BY <1>1, <1>3 DEF TypeOK
<1> QED
  BY <1>3, <1>4, CancelEventsInv

-----------------------------------------------------------------------------
\* The priority a superseding event takes is one.
LEMMA RaisedTypes ==
  ASSUME TypeOK, NEW e \in Event, NEW S \in SUBSET Queued
  PROVE  RaisedPriority(e, S) \in Nat
<1>1. Priority[e] \in Nat
  BY EventAssumption
<1>2. CASE S = {}
  BY <1>1, <1>2 DEF RaisedPriority
<1>3. CASE S # {}
  <2>1. PICK q \in Seq(QEntry) : q = mEventQueue
    BY QueuedTypes
  <2>2. PICK I : I = {i \in DOMAIN q : q[i].event \in S}
    OBVIOUS
  <2>3. I # {} /\ \A i \in I : i \in 1 .. Len(q) /\ i \in Nat
    <3>1. Queued = EventsOf(q)
      BY <2>1, QueuedTypes
    <3>2. PICK x \in S : x \in EventsOf(q)
      BY <1>3, <3>1
    <3> QED
      BY <2>2, <3>2 DEF EventsOf
  <2>4. PICK f : f = Min(I)
    OBVIOUS
  <2>5. f \in I
    <3>1. \E m \in I : \A y \in I : m <= y
      BY <2>3, Least
    <3> QED
      BY <2>4, <3>1 DEF Min
  <2>6. q[f].pri \in Nat
    <3>1. q[f] \in QEntry
      BY <2>3, <2>5
    <3> QED
      BY <3>1 DEF QEntry
  <2>7. Min({Priority[e], q[f].pri}) \in {Priority[e], q[f].pri}
    <3>1. \E m \in {Priority[e], q[f].pri} : \A y \in {Priority[e], q[f].pri} : m <= y
      BY <1>1, <2>6
    <3> QED
      BY <3>1 DEF Min
  <2>8. RaisedPriority(e, S) = Min({Priority[e], q[f].pri})
    BY <1>3, <2>1, <2>2, <2>4 DEF RaisedPriority
  <2> QED
    BY <1>1, <2>6, <2>7, <2>8
<1> QED
  BY <1>2, <1>3

\* A post that is not refused: the events of S leave the queue without a word, and the new
\* one comes into it, or is dropped with them.
LEMMA PostedInv ==
  ASSUME CallbackInv, NEW e \in Event, NEW S \in SUBSET Queued, NEW added \in BOOLEAN,
         client[e] = "idle", ~Rejecting, list = "sound",
         NEW z \in Seq(QEntry), Distinct(z), Ordered(z), mEventQueue' = z,
         EventsOf(z) = (Queued \ S) \cup (IF added THEN {e} ELSE {}),
         mEventsCount' = Len(z),
         ref' = [x \in Event |-> IF x = e THEN (IF added THEN ref[x] + 1 ELSE ref[x])
                                 ELSE IF x \in S THEN ref[x] - 1 ELSE ref[x]],
         NEW c \in {"notify", "waiting", "returned"}, client' = [client EXCEPT ![e] = c],
         c = "waiting" => e \in Sync, c = "returned" => e \notin Sync,
         silent' \subseteq Event,
         UNCHANGED <<list, mCurrentEvent, mStatus, mThreadEvent, finishVars, now, status,
                     syncEvent, ret, handlerVars, cancelVars, ran, void>>
  PROVE  CallbackInv'
<1>1. /\ TypeOK /\ QueueState /\ CountState /\ RefState /\ ClientState /\ SendState
      /\ ReportsTruth /\ VoidState /\ SafeState /\ FinishState
  BY DEF CallbackInv
<1>2. UNCHANGED <<list, mCurrentEvent, mStatus, mThreadEvent, mExitRequested, mRequestToQuit,
                  finisher, now, status, syncEvent, ret, handler, peeked, until, canceller,
                  victims, safe, ran, void>>
  BY DEF finishVars, handlerVars, cancelVars
<1>3. /\ e \notin Queued /\ e # mCurrentEvent /\ e \notin S
      /\ syncEvent[e] = 0 /\ status[e] = "Created" /\ ret[e] = "none"
      /\ e \notin ran /\ e \notin void /\ e \notin safe /\ e \notin victims
  BY <1>1 DEF QueueState, ClientState
<1>4. /\ Queued' = EventsOf(z) /\ \A x \in Queued' : x \in Queued \/ (x = e /\ added)
      /\ \A x : x # e => (x \in Queued' <=> x \in Queued /\ x \notin S)
      /\ e \in Queued' <=> added
  <2>1. {z[i].event : i \in DOMAIN z} = EventsOf(z)
    BY QueuedEvents
  <2>2. Queued' = EventsOf(z)
    BY <2>1 DEF Queued
  <2> QED
    BY <1>3, <2>2
<1>5. /\ client'[e] = c /\ \A x \in Event : x # e => client'[x] = client[x]
      /\ client' \in [Event -> {"idle", "notify", "waiting", "awake", "gaveUp", "marking",
                                "releasing", "returned"}]
  BY <1>1 DEF TypeOK
<1>6. TypeOK'
  <2>1. mEventQueue' \in Seq([event : Event, pri : Nat, when : 0 .. MaxTime])
    BY DEF QEntry
  <2>2. mEventsCount' \in Int
    OBVIOUS
  <2>3. ref' \in [Event -> Int]
    BY <1>1 DEF TypeOK
  <2> QED
    BY <1>1, <1>2, <1>5, <2>1, <2>2, <2>3 DEF TypeOK
<1>7. QueueState'
  <2>1. mCurrentEvent \notin Queued'
    BY <1>1, <1>3, <1>4 DEF QueueState
  <2>2. ASSUME NEW x \in Event, x \in Queued' \/ x = mCurrentEvent PROVE client'[x] # "idle"
    <3>1. CASE x = e
      BY <1>5, <3>1
    <3>2. CASE x # e
      BY <1>1, <1>4, <1>5, <2>2, <3>2 DEF QueueState
    <3> QED
      BY <3>1, <3>2
  <2> QED
    BY <1>1, <1>2, <2>1, <2>2 DEF QueueState
<1>8. CountState'
  BY DEF CountState
<1>9. RefState'
  <2> SUFFICES ASSUME NEW x \in Event
               PROVE  ref'[x] = (IF x \in Queued' \/ x = mCurrentEvent' THEN 1 ELSE 0)
                              + (IF x \in Sync /\ client'[x] # "returned" THEN 1 ELSE 0)
    BY DEF RefState
  <2>1. ref[x] = (IF x \in Queued \/ x = mCurrentEvent THEN 1 ELSE 0)
               + (IF x \in Sync /\ client[x] # "returned" THEN 1 ELSE 0)
    BY <1>1 DEF RefState
  <2>2. CASE x = e
    <3>1. ref'[e] = IF added THEN ref[e] + 1 ELSE ref[e]
      OBVIOUS
    <3> QED
      BY <1>2, <1>3, <1>4, <1>5, <2>1, <2>2, <3>1
  <2>3. CASE x # e /\ x \in S
    <3>1. x \in Queued /\ x # mCurrentEvent /\ x \notin Queued' /\ ref'[x] = ref[x] - 1
      BY <1>1, <1>4, <2>3 DEF QueueState
    <3> QED
      BY <1>2, <1>5, <2>1, <2>3, <3>1
  <2>4. CASE x # e /\ x \notin S
    BY <1>2, <1>4, <1>5, <2>1, <2>4
  <2> QED
    BY <2>2, <2>3, <2>4
<1>10. ClientState'
  <2> SUFFICES ASSUME NEW x \in Event
               PROVE  /\ client'[x] \in {"waiting", "awake", "gaveUp", "marking", "releasing"} =>
                           x \in Sync
                      /\ client'[x] = "idle" =>
                           /\ syncEvent'[x] = 0 /\ status'[x] = "Created" /\ ret'[x] = "none"
                           /\ x \notin ran' /\ x \notin void' /\ x \notin safe'
                           /\ x \notin victims'
    BY DEF ClientState
  <2>1. CASE x = e
    BY <1>5, <2>1
  <2>2. CASE x # e
    BY <1>1, <1>2, <1>5, <2>2 DEF ClientState
  <2> QED
    BY <2>1, <2>2
<1>11. SendState'
  <2>1. \A x \in Event : Coming(x)' => Coming(x) \/ x = e
    BY <1>2, <1>4 DEF Coming
  <2>2. ASSUME NEW x \in Sync PROVE SendOf(x)'
    <3>1. SendOf(x) /\ x \in Event
      BY <1>1, EventAssumption DEF SendState
    <3>2. CASE x = e
      BY <1>2, <1>3, <1>5, <3>2 DEF SendOf
    <3>3. CASE x # e
      BY <1>2, <1>4, <1>5, <2>1, <3>1, <3>3 DEF SendOf, Early
    <3> QED
      BY <3>2, <3>3
  <2> QED
    BY <1>1, <1>2, <1>3, <2>1, <2>2 DEF SendState
<1>12. ReportsTruth'
  BY <1>1, <1>2, <1>3, <1>4 DEF ReportsTruth
<1>13. VoidState'
  <2>1. \A x \in void : x \in Event /\ x # e
    BY <1>1, <1>3 DEF TypeOK
  <2> QED
    BY <1>1, <1>2, <1>5, <2>1 DEF VoidState, Early
<1>14. SafeState'
  <2>1. \A x \in safe \cup victims : x \in Event /\ x # e
    BY <1>1, <1>3 DEF TypeOK
  <2> QED
    BY <1>1, <1>2, <1>4, <1>5, <2>1 DEF SafeState, Working
<1>15. FinishState'
  BY <1>1, <1>2 DEF FinishState, OnlyNice, Rejecting
<1> QED
  BY <1>6, <1>7, <1>8, <1>9, <1>10, <1>11, <1>12, <1>13, <1>14, <1>15 DEF CallbackInv

\* PostCallbackEvent, with what it supersedes and with both outcomes of coalescing.
LEMMA PostCallbackEventInv ==
  ASSUME CallbackInv, NEW e \in Event, PostCallbackEvent(e)
  PROVE  CallbackInv'
<1>1. /\ TypeOK /\ QueueState /\ CountState /\ client[e] = "idle" /\ ~Rejecting
      /\ list = "sound"
  BY DEF CallbackInv, PostCallbackEvent
<1>2. UNCHANGED <<list, mCurrentEvent, mStatus, mThreadEvent, finishVars, now, status, syncEvent,
                  ret, handlerVars, cancelVars, ran, void>>
  BY DEF PostCallbackEvent
<1>3. PICK w \in When(e), S \in Superseded(e) :
        \/ /\ mEventQueue' = InsertByPriority(Without(S),
                               [event |-> e, pri |-> RaisedPriority(e, S), when |-> w])
           /\ mEventsCount' = mEventsCount - Cardinality(S) + 1
           /\ ref' = [x \in Event |-> IF x = e THEN ref[x] + 1
                                      ELSE IF x \in S THEN ref[x] - 1 ELSE ref[x]]
           /\ silent' = silent \cup S
           /\ client' = [client EXCEPT ![e] = AfterPost(e, mEventQueue = <<>>)]
        \/ /\ mEventQueue' = Without(S)
           /\ mEventsCount' = mEventsCount - Cardinality(S)
           /\ ref' = [x \in Event |-> IF x \in S THEN ref[x] - 1 ELSE ref[x]]
           /\ silent' = silent \cup S \cup {e}
           /\ client' = [client EXCEPT ![e] = AfterPost(e, FALSE)]
  BY DEF PostCallbackEvent
<1>4. /\ mEventQueue \in Seq(QEntry) /\ Queued = EventsOf(mEventQueue)
      /\ \A x \in Queued : x \in Event
  BY <1>1, QueuedTypes
<1>5. S \in SUBSET Queued /\ w \in 0 .. MaxTime /\ e \notin Queued /\ e \notin S
  <2>1. S \in SUBSET Queued
    BY <1>3 DEF Superseded
  <2>2. w \in 0 .. MaxTime
    BY <1>3 DEF When
  <2> QED
    BY <1>1, <2>1, <2>2 DEF QueueState
<1>6. PICK q : q = Without(S)
  OBVIOUS
<1>7. /\ q \in Seq(QEntry) /\ Distinct(q) /\ Ordered(q) /\ EventsOf(q) = Queued \ S
      /\ Cardinality(S) \in Nat /\ Len(q) = Len(mEventQueue) - Cardinality(S)
  BY <1>1, <1>4, <1>5, <1>6, WithoutFacts DEF QueueState
<1>8. mEventsCount = Len(mEventQueue) /\ Len(mEventQueue) \in Nat
  BY <1>1, <1>4 DEF CountState
<1>9. \A b \in BOOLEAN : /\ AfterPost(e, b) \in {"notify", "waiting", "returned"}
                         /\ AfterPost(e, b) = "waiting" => e \in Sync
                         /\ AfterPost(e, b) = "returned" => e \notin Sync
  BY DEF AfterPost
<1>10. CASE /\ mEventQueue' = InsertByPriority(Without(S),
                                [event |-> e, pri |-> RaisedPriority(e, S), when |-> w])
            /\ mEventsCount' = mEventsCount - Cardinality(S) + 1
            /\ ref' = [x \in Event |-> IF x = e THEN ref[x] + 1
                                       ELSE IF x \in S THEN ref[x] - 1 ELSE ref[x]]
            /\ silent' = silent \cup S
            /\ client' = [client EXCEPT ![e] = AfterPost(e, mEventQueue = <<>>)]
  <2>1. PICK new : new = [event |-> e, pri |-> RaisedPriority(e, S), when |-> w]
    OBVIOUS
  <2>2. new \in QEntry /\ new.event = e
    <3>1. RaisedPriority(e, S) \in Nat
      BY <1>1, <1>5, RaisedTypes
    <3> QED
      BY <1>5, <2>1, <3>1 DEF QEntry
  <2>3. PICK z : z = InsertByPriority(q, new)
    OBVIOUS
  <2>4. /\ z \in Seq(QEntry) /\ Len(z) = Len(q) + 1 /\ EventsOf(z) = EventsOf(q) \cup {e}
        /\ Distinct(z) /\ Ordered(z)
    BY <1>5, <1>7, <2>2, <2>3, InsertFacts
  <2>5. mEventQueue' = z /\ mEventsCount' = Len(z)
    BY <1>6, <1>7, <1>8, <1>10, <2>1, <2>3, <2>4
  <2>6. PICK added \in BOOLEAN : added
    OBVIOUS
  <2>7. /\ EventsOf(z) = (Queued \ S) \cup (IF added THEN {e} ELSE {})
        /\ ref' = [x \in Event |-> IF x = e THEN (IF added THEN ref[x] + 1 ELSE ref[x])
                                   ELSE IF x \in S THEN ref[x] - 1 ELSE ref[x]]
    BY <1>7, <1>10, <2>4, <2>6
  <2>8. PICK c \in {"notify", "waiting", "returned"} :
          /\ client' = [client EXCEPT ![e] = c]
          /\ c = "waiting" => e \in Sync
          /\ c = "returned" => e \notin Sync
    BY <1>9, <1>10
  <2>9. silent' \subseteq Event
    BY <1>1, <1>4, <1>5, <1>10 DEF TypeOK
  <2> QED
    BY ZenonT(30), <1>1, <1>2, <1>5, <2>4, <2>5, <2>7, <2>8, <2>9, PostedInv
<1>11. CASE /\ mEventQueue' = Without(S)
            /\ mEventsCount' = mEventsCount - Cardinality(S)
            /\ ref' = [x \in Event |-> IF x \in S THEN ref[x] - 1 ELSE ref[x]]
            /\ silent' = silent \cup S \cup {e}
            /\ client' = [client EXCEPT ![e] = AfterPost(e, FALSE)]
  <2>1. mEventQueue' = q /\ mEventsCount' = Len(q)
    BY <1>6, <1>7, <1>8, <1>11
  <2>2. PICK added \in BOOLEAN : ~added
    OBVIOUS
  <2>3. /\ EventsOf(q) = (Queued \ S) \cup (IF added THEN {e} ELSE {})
        /\ ref' = [x \in Event |-> IF x = e THEN (IF added THEN ref[x] + 1 ELSE ref[x])
                                   ELSE IF x \in S THEN ref[x] - 1 ELSE ref[x]]
    BY <1>5, <1>7, <1>11, <2>2
  <2>4. PICK c \in {"notify", "waiting", "returned"} :
          /\ client' = [client EXCEPT ![e] = c]
          /\ c = "waiting" => e \in Sync
          /\ c = "returned" => e \notin Sync
    BY <1>9, <1>11
  <2>5. silent' \subseteq Event
    BY <1>1, <1>4, <1>5, <1>11 DEF TypeOK
  <2> QED
    BY ZenonT(30), <1>1, <1>2, <1>5, <1>7, <2>1, <2>3, <2>4, <2>5, PostedInv
<1> QED
  BY <1>3, <1>10, <1>11

\* A superseding event's search for its like takes the queue's lock for good.
LEMMA SearchHeadlessInv ==
  ASSUME CallbackInv, NEW e \in Event, PostIntoHeadless(e), e \in Duplicated
  PROVE  CallbackInv'
<1>1. TypeOK /\ QueueState
  BY DEF CallbackInv
<1>2. /\ list = "headTaken" /\ list' = "hung"
      /\ UNCHANGED <<mEventsCount, ref, silent, client, mEventQueue, mCurrentEvent, mStatus,
                     mThreadEvent, finishVars, now, status, syncEvent, ret, handlerVars,
                     cancelVars, ran, void>>
  BY DEF PostIntoHeadless
<1>3. TypeOK'
  BY <1>1, <1>2 DEF TypeOK, finishVars, handlerVars, cancelVars
<1>4. EventFrame /\ HandlerMove
  BY <1>2 DEF EventFrame, HandlerMove, finishVars, handlerVars, cancelVars
<1> QED
  BY <1>1, <1>2, <1>3, <1>4, MoveInv DEF QueueState

\* An event posted into a list without its head is lost, but lies about nothing.
LEMMA PostIntoHeadlessInv ==
  ASSUME CallbackInv, NEW e \in Event, PostIntoHeadless(e), e \notin Duplicated
  PROVE  CallbackInv'
<1>1. /\ TypeOK /\ QueueState /\ CountState /\ RefState /\ ClientState /\ SendState
      /\ ReportsTruth /\ VoidState /\ SafeState /\ FinishState
  BY DEF CallbackInv
<1>2. /\ client[e] = "idle" /\ list = "headTaken" /\ mEventsCount' = mEventsCount + 1
      /\ ref' = [ref EXCEPT ![e] = @ + 1] /\ silent' = silent \cup {e}
      /\ client' = [client EXCEPT ![e] = IF e \in Sync THEN "waiting" ELSE "returned"]
      /\ UNCHANGED <<mEventQueue, list, mCurrentEvent, mStatus, mThreadEvent, mExitRequested,
                     mRequestToQuit, finisher, now, status, syncEvent, ret, handler, peeked,
                     until, canceller, victims, safe, ran, void>>
  BY DEF PostIntoHeadless, AfterPost, finishVars, handlerVars, cancelVars
<1>3. /\ client'[e] \in {"waiting", "returned"} /\ client'[e] = "waiting" => e \in Sync
      /\ \A x \in Event : x # e => client'[x] = client[x]
  BY <1>1, <1>2 DEF TypeOK
<1>4. /\ e \notin Queued /\ e # mCurrentEvent
      /\ syncEvent[e] = 0 /\ status[e] = "Created" /\ ret[e] = "none"
      /\ e \notin ran /\ e \notin void /\ e \notin safe /\ e \notin victims
  BY <1>1, <1>2 DEF QueueState, ClientState
<1>5. Queued' = Queued
  BY <1>2 DEF Queued
<1>6. TypeOK'
  BY SMTT(30), <1>1, <1>2 DEF TypeOK
<1>7. QueueState' /\ CountState' /\ RefState' /\ ReportsTruth' /\ FinishState'
  <2>1. QueueState'
    BY <1>1, <1>2, <1>3, <1>4, <1>5 DEF QueueState
  <2>2. CountState' /\ RefState'
    BY <1>2 DEF CountState, RefState
  <2>3. ReportsTruth' /\ FinishState'
    BY <1>1, <1>2, <1>5 DEF ReportsTruth, FinishState, OnlyNice
  <2> QED
    BY <2>1, <2>2, <2>3
<1>8. ClientState'
  BY <1>1, <1>2, <1>3 DEF ClientState
<1>9. SendState'
  <2>1. \A x \in Event : Coming(x)' <=> Coming(x)
    BY <1>2, <1>5 DEF Coming
  <2>2. ASSUME NEW x \in Sync PROVE SendOf(x)'
    <3>1. SendOf(x) /\ x \in Event
      BY <1>1, EventAssumption DEF SendState
    <3>2. CASE x = e
      BY <1>2, <1>3, <1>4, <1>5, <3>2 DEF SendOf
    <3>3. CASE x # e
      BY <1>2, <1>3, <1>5, <2>1, <3>1, <3>3 DEF SendOf, Early
    <3> QED
      BY <3>2, <3>3
  <2> QED
    BY <1>1, <1>2, <2>1, <2>2 DEF SendState
<1>10. VoidState'
  <2>1. \A x \in void : x \in Event /\ x # e
    BY <1>1, <1>4 DEF TypeOK
  <2> QED
    BY <1>1, <1>2, <1>3, <2>1 DEF VoidState, Early
<1>11. SafeState'
  <2>1. \A x \in safe \cup victims : x \in Event /\ x # e
    BY <1>1, <1>4 DEF TypeOK
  <2> QED
    BY <1>1, <1>2, <1>3, <1>5, <2>1 DEF SafeState, Working
<1> QED
  BY <1>6, <1>7, <1>8, <1>9, <1>10, <1>11 DEF CallbackInv

-----------------------------------------------------------------------------
\* A fresh context.
LEMMA InitInv ==
  ASSUME Init
  PROVE  CallbackInv
<1>1. PICK q : q = mEventQueue
  OBVIOUS
<1>2. q = <<>> /\ q \in Seq(QEntry) /\ Len(q) = 0 /\ Queued = {}
  <2>1. q = <<>>
    BY <1>1 DEF Init
  <2>2. DOMAIN q = {}
    BY <2>1
  <2> QED
    BY <1>1, <2>1, <2>2 DEF Queued
<1>3. TypeOK
  <2>1. mEventQueue \in Seq([event : Event, pri : Nat, when : 0 .. MaxTime])
    BY <1>1, <1>2 DEF QEntry
  <2>2. ref \in [Event -> Int]
    BY DEF Init
  <2>3. /\ status \in [Event -> {"Created", "Running", "Completed", "Cancelled"}]
        /\ syncEvent \in [Event -> Nat]
    BY DEF Init
  <2>4. client \in [Event -> {"idle", "notify", "waiting", "awake", "gaveUp", "marking",
                             "releasing", "returned"}]
    BY DEF Init
  <2>5. /\ ret \in [Event -> {"none", "NOERROR", "E_CALLBACK_CANCELED", "E_TIMED_OUT"}]
        /\ finisher \in [Finish -> {"idle", "exitRequested", "notify", "returned"}]
    BY DEF Init
  <2>6. 0 \in 0 .. MaxTime
    BY EventAssumption
  <2>7. /\ list \in {"sound", "headTaken", "hung"} /\ mCurrentEvent \in Event \cup {NoEvent}
        /\ mEventsCount \in Int /\ mThreadEvent \in Nat
        /\ mStatus \in {"Created", "Idling", "Working", "Finishing"}
    BY DEF Init
  <2>8. mExitRequested \in BOOLEAN /\ mRequestToQuit \in BOOLEAN
    BY DEF Init
  <2>9. /\ now \in 0 .. MaxTime /\ until \in 0 .. MaxTime /\ peeked \in Event \cup {NoEvent}
        /\ handler \in {"loop", "look", "idling", "unlocked", "sleeping", "check", "setRunning",
                        "invoke", "complete", "unlockWorking", "pop", "exiting", "exited"}
    BY <2>6 DEF Init
  <2>10. /\ canceller \in {"idle", "trylock"} /\ victims \subseteq Event /\ safe \subseteq Event
         /\ ran \subseteq Event /\ silent \subseteq Event /\ void \subseteq Event
    BY DEF Init
  <2> QED
    BY <2>1, <2>2, <2>3, <2>4, <2>5, <2>7, <2>8, <2>9, <2>10 DEF TypeOK
<1>4. QueueState
  BY <1>1, <1>2, EventAssumption DEF Init, QueueState, Distinct, Ordered, Busy
<1>5. CountState
  BY <1>1, <1>2 DEF Init, CountState
<1>6. RefState
  BY <1>2, EventAssumption DEF Init, RefState
<1>7. ClientState /\ ReportsTruth
  BY EventAssumption DEF Init, ClientState, ReportsTruth
<1>8. SendState
  BY <1>2, EventAssumption DEF Init, SendState, SendOf, Coming
<1>9. VoidState /\ SafeState /\ FinishState
  BY DEF Init, VoidState, SafeState, FinishState
<1> QED
  BY <1>3, <1>4, <1>5, <1>6, <1>7, <1>8, <1>9 DEF CallbackInv

\* Every step keeps the invariant.
LEMMA NextInv ==
  ASSUME CallbackInv, [Next]_vars
  PROVE  CallbackInv'
<1>1. ASSUME NEW e \in Event, Send(e) PROVE CallbackInv'
  BY <1>1, NotifyThreadInv, WaitSyncEventInv, ReadStatusInv, MarkCancelledInv, ReleaseEventInv
  DEF Send
<1>2. ASSUME NEW e \in Event,
             \/ RejectEvent(e) \/ PostCallbackEvent(e) \/ PostIntoHeadless(e)
             \/ Send(e) \/ Cancel(e)
      PROVE  CallbackInv'
  BY <1>1, <1>2, RejectEventInv, PostCallbackEventInv, SearchHeadlessInv, PostIntoHeadlessInv,
     CancelInv
<1>3. ASSUME Handle PROVE CallbackInv'
  BY <1>3, CheckExitInv, LookAtQueueInv, FlowInv, WakeUpInv, CheckStatusInv, SetRunningInv,
     InvokeCallbackInv, CompleteInv, PopEventInv
  DEF Handle
<1>4. ASSUME NEW f \in Finish, RequestToFinish(f) PROVE CallbackInv'
  BY <1>4, RequestToFinishInv
<1>5. ASSUME TryWorkingLock \/ CancelHeadless \/ DestroyContext \/ Tick PROVE CallbackInv'
  BY <1>5, TryWorkingLockInv, OutsideInv, DestroyContextInv
<1>6. ASSUME UNCHANGED vars PROVE CallbackInv'
  <2>1. TypeOK /\ QueueState
    BY DEF CallbackInv
  <2>2. EventFrame /\ UNCHANGED <<handler, list, mEventsCount>>
    BY <1>6 DEF vars, EventFrame, contextVars, finishVars, eventVars, clientVars,
                handlerVars, cancelVars, history
  <2>3. TypeOK'
    BY <1>6, <2>1 DEF TypeOK, vars, contextVars, finishVars, eventVars, clientVars, handlerVars,
                      cancelVars, history
  <2>4. HandlerMove
    BY <2>2 DEF HandlerMove
  <2> QED
    BY <2>1, <2>2, <2>3, <2>4, MoveInv DEF QueueState
<1> QED
  BY <1>2, <1>3, <1>4, <1>5, <1>6 DEF Next

\* The invariant the rest follows from.
THEOREM CallbackInvariant == Spec => []CallbackInv
<1>1. Init => CallbackInv
  BY InitInv
<1>2. CallbackInv /\ [Next]_vars => CallbackInv'
  BY NextInv
<1> QED
  BY <1>1, <1>2, PTL DEF Spec

\* The queue, the handler and a waiting sender never hold a freed event, and no event leaks,
\* as long as the list has its head.
THEOREM References == Spec => []RefsExact
<1>1. CallbackInv => RefsExact
  BY DEF CallbackInv, RefState, RefsExact
<1> QED
  BY <1>1, CallbackInvariant, PTL

\* mEventsCount is the length of the queue, and no event is in two places.
THEOREM CountOfQueue == Spec => []CountMatchesQueue
<1>1. CallbackInv => CountMatchesQueue
  <2> SUFFICES ASSUME CallbackInv PROVE CountMatchesQueue
    OBVIOUS
  <2>1. TypeOK /\ QueueState /\ CountState
    BY DEF CallbackInv
  <2>2. mEventQueue \in Seq(QEntry) /\ Queued = EventsOf(mEventQueue)
    BY <2>1, QueuedTypes
  <2>3. Cardinality(Queued) = Len(mEventQueue)
    BY <2>1, <2>2, EventsCounted DEF QueueState
  <2> QED
    BY <2>1, <2>3 DEF CountMatchesQueue, QueueState, CountState
<1> QED
  BY <1>1, CallbackInvariant, PTL

\* The queue is ordered by priority and then by due time.
THEOREM InOrder == Spec => []QueueOrdered
<1>1. CallbackInv => QueueOrdered
  <2> SUFFICES ASSUME CallbackInv PROVE QueueOrdered
    OBVIOUS
  <2>1. TypeOK /\ QueueState
    BY DEF CallbackInv
  <2>2. PICK q \in Seq(QEntry) : q = mEventQueue
    BY <2>1, QueuedTypes
  <2>3. Ordered(q) /\ DOMAIN q = 1 .. Len(q)
    BY <2>1, <2>2 DEF QueueState
  <2> QED
    BY <2>2, <2>3 DEF QueueOrdered, Ordered, NoLater
<1> QED
  BY <1>1, CallbackInvariant, PTL

\* What SendCallbackEvent reports is what happened.
THEOREM Truthful == Spec => []ReportsTruth
<1>1. CallbackInv => ReportsTruth
  BY DEF CallbackInv
<1> QED
  BY <1>1, CallbackInvariant, PTL

\* A send given up while its event was queued is never carried out.
THEOREM GivenUp == Spec => []GivenUpNeverRuns
<1>1. CallbackInv => GivenUpNeverRuns
  BY DEF CallbackInv, VoidState, GivenUpNeverRuns
<1> QED
  BY <1>1, CallbackInvariant, PTL

\* After CancelCallbackEvents returned NOERROR no callback it was called for runs or will.
THEOREM CancelHolds == Spec => []CancelledIsOver
<1>1. CallbackInv => CancelledIsOver
  BY DEF CallbackInv, SafeState, CancelledIsOver
<1> QED
  BY <1>1, CallbackInvariant, PTL

\* A context that was only asked to finish nicely leaves an empty queue behind.
THEOREM Drained == Spec => []NiceDrains
<1>1. CallbackInv => NiceDrains
  <2> SUFFICES ASSUME CallbackInv PROVE NiceDrains
    OBVIOUS
  <2>1. FinishState /\ DOMAIN finisher = Finish
    BY DEF CallbackInv, TypeOK
  <2> QED
    BY <2>1 DEF NiceDrains, FinishState, OnlyNice
<1> QED
  BY <1>1, CallbackInvariant, PTL
=============================================================================

--------------------------- MODULE CallbackContext ---------------------------
(***************************************************************************)
(* One CCallbackContext: the event queue that every thread may post to and *)
(* cancel from, and the one thread that runs TryToHandleEvents on it.      *)
(*                                                                         *)
(* Each event has one client, the thread that posts or sends it.  What a   *)
(* method does under mQueueLock is one step; everything it does after the  *)
(* unlock, or without the lock, is a step of its own.  mCompleted is left  *)
(* out: it is set wherever mSyncEvent is posted, and only a nested wait    *)
(* (which no code of the repository starts) reads it.                      *)
(***************************************************************************)
EXTENDS Integers, Sequences, FiniteSets, SequencesExt

CONSTANTS
  Event, NoEvent,
  Sync,          \* the events sent with SendCallbackEvent; the rest are posted
  Timed,         \* the sends whose wait may time out or be interrupted
  Delayed,       \* the events posted with PostCallbackEventAtTime
  Duplicated,    \* the events that carry CallbackEventFlag_Duplicated
  Coalescing,    \* the ones of them with a coalesce function
  Dying,         \* the events whose receiver may be gone when they come up
  Priority,      \* the priority bits of mFlags, a function on Event
  Sender, Id, Handler,  \* what cancels and coalescing match, functions on Event
  CancelOps,     \* the cancelling methods that clients call
  Finish,        \* the flags RequestToFinish is called with
  MaxTime        \* the clock stops here

Cancels == {"CancelAllPendingCallbacks", "CancelPendingCallback", "CancelCallbackEvents",
            "CancelAllCallbackEvents"}

ASSUME EventAssumption ==
  /\ IsFiniteSet(Event) /\ NoEvent \notin Event
  /\ Sync \subseteq Event /\ Timed \subseteq Sync /\ Delayed \subseteq Event
  /\ Duplicated \subseteq Event /\ Coalescing \subseteq Duplicated /\ Dying \subseteq Event
  /\ Priority \in [Event -> Nat]
  /\ CancelOps \subseteq Cancels
  /\ Finish \subseteq {"Nice", "ASAP"}
  /\ MaxTime \in Nat

VARIABLES
  mEventQueue,     \* the events from first to last, with the priority bits and the
                   \* mWhen they have while they are queued
  list,            \* "sound"; "headTaken": GetEvent detached the list's head;
                   \* "hung": somebody walks the headless list, holding mQueueLock
  mCurrentEvent,   \* the event in mCurrentEvents
  mEventsCount, mStatus, mThreadEvent, mExitRequested, mRequestToQuit,
  now,             \* gettimeofday, in milliseconds
  status, ref, syncEvent,   \* the events' other fields
  client,          \* where each event's client is
  ret,             \* what SendCallbackEvent returned
  handler,         \* where the handler thread is
  peeked, until,   \* GetEvent's callbackEvent and wake-up time while it sleeps
  finisher,        \* where the RequestToFinish of each flag is
  canceller, victims,  \* CancelCallbackEvents between unlock and trylock
  \* history
  ran,             \* the events whose callback was invoked
  silent,          \* the events dropped without a word to their client
  void,            \* the sends given up while still queued
  safe             \* the events a CancelCallbackEvents vouched for: NOERROR

contextVars == <<mEventQueue, list, mCurrentEvent, mEventsCount, mStatus, mThreadEvent>>
finishVars  == <<mExitRequested, mRequestToQuit, finisher>>
eventVars   == <<status, ref, syncEvent>>
clientVars  == <<client, ret>>
handlerVars == <<handler, peeked, until>>
cancelVars  == <<canceller, victims, safe>>
history     == <<ran, silent, void>>
vars == <<contextVars, finishVars, now, eventVars, clientVars, handlerVars, cancelVars, history>>

Queued == {mEventQueue[i].event : i \in DOMAIN mEventQueue}

\* mQueueLock is free: the handler keeps it between reading the flags and the queue.
QueueUnlocked == handler # "look" /\ list # "hung"

\* The queue without the events of S: position n has the n-th event that is kept.
Kept(S) == {i \in DOMAIN mEventQueue : mEventQueue[i].event \notin S}
Without(S) ==
  [n \in 1 .. Cardinality(Kept(S)) |->
     mEventQueue[CHOOSE i \in Kept(S) : Cardinality({k \in Kept(S) : k <= i}) = n]]

\* Nobody can reach an event whose count is back to 0.
Freed(e) == client[e] # "idle" /\ ref[e] = 0

-----------------------------------------------------------------------------
(***************************************************************************)
(* Posting.                                                                *)
(***************************************************************************)
\* PostCallbackEvent reads the clock before it takes the lock, and rounds to the
\* nearest millisecond.
When(e) == IF e \in Delayed THEN 0..MaxTime ELSE (0 .. now + 1) \cap (0..MaxTime)

\* Mutant: the handler is never notified.
AfterPostSilent(e, notify) == IF e \in Sync THEN "waiting" ELSE "returned"

AfterPost(e, notify) ==
  IF notify THEN "notify" ELSE IF e \in Sync THEN "waiting" ELSE "returned"

Matches(e, q) == Sender[q] = Sender[e] /\ Id[q] = Id[e] /\ Handler[q] = Handler[e]

\* The queued events a duplicated event supersedes: all that match, or the ones
\* its coalesce function accepts.
Superseded(e) ==
  LET same == {q \in Queued : e \in Duplicated /\ Matches(e, q)}
  IN  IF e \in Coalescing THEN SUBSET same ELSE {same}

\* The new event takes the priority of the first event it supersedes, if that
\* one was more urgent.
RaisedPriority(e, S) ==
  IF S = {} THEN Priority[e]
  ELSE LET first == Min({i \in DOMAIN mEventQueue : mEventQueue[i].event \in S})
       IN  Min({Priority[e], mEventQueue[first].pri})

\* Mutant: the due time is not looked at.
InsertLastOfPriority(q, x) ==
  InsertAt(q, 1 + Max({i \in DOMAIN q : q[i].pri <= x.pri} \cup {0}), x)

\* After the last event that is at least as urgent and due no later.
InsertByPriority(q, x) ==
  LET before == {i \in DOMAIN q : q[i].pri < x.pri \/ (q[i].pri = x.pri /\ q[i].when <= x.when)}
  IN  InsertAt(q, 1 + Max(before \cup {0}), x)

\* Mutant: a nice finish does not stop the posts.
RejectingExit == mExitRequested \/ mStatus = "Finishing"

Rejecting == mExitRequested \/ mRequestToQuit \/ mStatus = "Finishing"

\* Mutants: a rejected send is not marked; or its sender is not woken.
RejectEventMutant(e, marked, woken) ==
  /\ client[e] = "idle" /\ QueueUnlocked
  /\ Rejecting
  /\ status' = IF marked THEN [status EXCEPT ![e] = "Cancelled"] ELSE status
  /\ syncEvent' = IF woken THEN [syncEvent EXCEPT ![e] = @ + 1] ELSE syncEvent
  /\ client' = [client EXCEPT ![e] = AfterPost(e, FALSE)]
  /\ UNCHANGED <<contextVars, finishVars, now, ref, ret, handlerVars, cancelVars,
                 history>>

RejectEventUnmarked(e) == RejectEventMutant(e, FALSE, TRUE)
RejectEventUnwoken(e)  == RejectEventMutant(e, TRUE, FALSE)

RejectEvent(e) ==
  /\ client[e] = "idle" /\ QueueUnlocked
  /\ Rejecting
  /\ status' = [status EXCEPT ![e] = "Cancelled"]
  /\ syncEvent' = [syncEvent EXCEPT ![e] = @ + 1]
  /\ client' = [client EXCEPT ![e] = AfterPost(e, FALSE)]
  /\ UNCHANGED <<contextVars, finishVars, now, ref, ret, handlerVars, cancelVars,
                 history>>

PostCallbackEvent(e) ==
  /\ client[e] = "idle" /\ QueueUnlocked
  /\ ~Rejecting /\ list = "sound"
  /\ \E w \in When(e), S \in Superseded(e) :
       LET new == [event |-> e, pri |-> RaisedPriority(e, S), when |-> w]
           q   == Without(S)
       IN  \/ /\ mEventQueue' = InsertByPriority(q, new)
              /\ mEventsCount' = mEventsCount - Cardinality(S) + 1
              /\ ref' = [x \in Event |-> IF x = e THEN ref[x] + 1
                                         ELSE IF x \in S THEN ref[x] - 1 ELSE ref[x]]
              /\ silent' = silent \cup S
              /\ client' = [client EXCEPT ![e] = AfterPost(e, mEventQueue = <<>>)]
           \/ \* the coalesce function returned E_CANCLE_BOTH_EVENTS
              /\ e \in Coalescing /\ S # {}
              /\ mEventQueue' = q
              /\ mEventsCount' = mEventsCount - Cardinality(S)
              /\ ref' = [x \in Event |-> IF x \in S THEN ref[x] - 1 ELSE ref[x]]
              /\ silent' = silent \cup S \cup {e}
              /\ client' = [client EXCEPT ![e] = AfterPost(e, FALSE)]
  /\ UNCHANGED <<list, mCurrentEvent, mStatus, mThreadEvent, finishVars, now, status, syncEvent,
                 ret, handlerVars, cancelVars, ran, void>>

\* Into a list without its head: the search for events to supersede never meets
\* the head; without that search the event hangs off mCurrentEvents, where nothing
\* looks for it.
PostIntoHeadless(e) ==
  /\ client[e] = "idle" /\ QueueUnlocked
  /\ ~Rejecting /\ list = "headTaken"
  /\ \/ /\ e \in Duplicated
        /\ list' = "hung"
        /\ UNCHANGED <<mEventsCount, ref, silent, client>>
     \/ /\ e \notin Duplicated
        /\ mEventsCount' = mEventsCount + 1
        /\ ref' = [ref EXCEPT ![e] = @ + 1]
        /\ silent' = silent \cup {e}
        /\ client' = [client EXCEPT ![e] = AfterPost(e, FALSE)]
        /\ UNCHANGED list
  /\ UNCHANGED <<mEventQueue, mCurrentEvent, mStatus, mThreadEvent, finishVars, now, status,
                 syncEvent, ret, handlerVars, cancelVars, ran, void>>

NotifyThread(e) ==
  /\ client[e] = "notify"
  /\ mThreadEvent' = mThreadEvent + 1
  /\ client' = [client EXCEPT ![e] = AfterPost(e, FALSE)]
  /\ UNCHANGED <<mEventQueue, list, mCurrentEvent, mEventsCount, mStatus, finishVars, now,
                 eventVars, ret, handlerVars, cancelVars, history>>

(***************************************************************************)
(* SendCallbackEvent after the post: wait for mSyncEvent, look at the      *)
(* status, give the event up if the wait failed, and release it.           *)
(***************************************************************************)
WaitSyncEvent(e) ==
  /\ client[e] = "waiting"
  /\ \/ /\ syncEvent[e] > 0
        /\ syncEvent' = [syncEvent EXCEPT ![e] = @ - 1]
        /\ client' = [client EXCEPT ![e] = "awake"]
     \/ /\ e \in Timed
        /\ client' = [client EXCEPT ![e] = "gaveUp"]
        /\ UNCHANGED syncEvent
  /\ UNCHANGED <<contextVars, finishVars, now, status, ref, ret, handlerVars,
                 cancelVars, history>>

ReadStatus(e) ==
  /\ client[e] \in {"awake", "gaveUp"}
  /\ ret' = [ret EXCEPT ![e] = IF status[e] = "Cancelled" THEN "E_CALLBACK_CANCELED"
                               ELSE IF client[e] = "awake" THEN "NOERROR" ELSE "E_TIMED_OUT"]
  /\ client' = [client EXCEPT ![e] = IF client[e] = "gaveUp" THEN "marking" ELSE "releasing"]
  /\ UNCHANGED <<contextVars, finishVars, now, eventVars, handlerVars, cancelVars, history>>

MarkCancelled(e) ==
  /\ client[e] = "marking"
  /\ status' = [status EXCEPT ![e] = "Cancelled"]
  /\ void' = IF e \in Queued THEN void \cup {e} ELSE void
  /\ client' = [client EXCEPT ![e] = "releasing"]
  /\ UNCHANGED <<contextVars, finishVars, now, ref, syncEvent, ret, handlerVars,
                 cancelVars, ran, silent>>

ReleaseEvent(e) ==
  /\ client[e] = "releasing"
  /\ ref' = [ref EXCEPT ![e] = @ - 1]
  /\ client' = [client EXCEPT ![e] = "returned"]
  /\ UNCHANGED <<contextVars, finishVars, now, status, syncEvent, ret, handlerVars,
                 cancelVars, history>>

-----------------------------------------------------------------------------
(***************************************************************************)
(* Cancelling.                                                             *)
(***************************************************************************)
\* Mutants: a cancelled event is not released; not marked; or not counted.
CancelEventsMutant(S, marked, released, counted) ==
  /\ mEventQueue' = Without(S)
  /\ mEventsCount' = IF counted THEN mEventsCount - Cardinality(S) ELSE mEventsCount
  /\ status' = [x \in Event |-> IF x \in S /\ marked THEN "Cancelled" ELSE status[x]]
  /\ syncEvent' = [x \in Event |-> IF x \in S THEN syncEvent[x] + 1 ELSE syncEvent[x]]
  /\ ref' = [x \in Event |-> IF x \in S /\ released THEN ref[x] - 1 ELSE ref[x]]
  /\ UNCHANGED <<mCurrentEvent, mStatus, mThreadEvent, finishVars, now, clientVars,
                 handlerVars, history>>

CancelEventsUnmarked(S)   == CancelEventsMutant(S, FALSE, TRUE, TRUE)
CancelEventsUnreleased(S) == CancelEventsMutant(S, TRUE, FALSE, TRUE)
CancelEventsUncounted(S)  == CancelEventsMutant(S, TRUE, TRUE, FALSE)

CancelEvents(S) ==
  /\ mEventQueue' = Without(S)
  /\ mEventsCount' = mEventsCount - Cardinality(S)
  /\ status' = [x \in Event |-> IF x \in S THEN "Cancelled" ELSE status[x]]
  /\ syncEvent' = [x \in Event |-> IF x \in S THEN syncEvent[x] + 1 ELSE syncEvent[x]]
  /\ ref' = [x \in Event |-> IF x \in S THEN ref[x] - 1 ELSE ref[x]]
  /\ UNCHANGED <<mCurrentEvent, mStatus, mThreadEvent, finishVars, now, clientVars,
                 handlerVars, history>>

\* What each method cancels when its arguments are those of event e.
Targets(op, e) ==
  {q \in Event :
     CASE op = "CancelAllPendingCallbacks" -> Sender[q] = Sender[e]
       [] op = "CancelPendingCallback"     -> Sender[q] = Sender[e] /\ Id[q] = Id[e]
       [] op = "CancelCallbackEvents"      -> Matches(e, q)
       [] op = "CancelAllCallbackEvents"   -> TRUE}

CancelPending(op, e) ==
  /\ op # "CancelCallbackEvents"
  /\ QueueUnlocked /\ list = "sound"
  /\ Queued \cap Targets(op, e) # {}
  /\ CancelEvents(Queued \cap Targets(op, e))
  /\ UNCHANGED <<list, cancelVars>>

\* Mutant: the current event is not looked for.
CancelQueuedEvents(e) ==
  LET T == Targets("CancelCallbackEvents", e)
  IN  /\ QueueUnlocked /\ list = "sound"
      /\ CancelEvents(Queued \cap T)
      /\ safe' = safe \cup (T \cap (Queued \cup {mCurrentEvent}))
      /\ UNCHANGED <<list, canceller, victims>>

\* Called from a thread other than the handler's: IsExistEvent, still under the
\* lock, decides whether mWorkingLock has to be tried.
CancelCallbackEvents(e) ==
  LET T == Targets("CancelCallbackEvents", e)
  IN  /\ canceller = "idle"
      /\ QueueUnlocked /\ list = "sound"
      /\ CancelEvents(Queued \cap T)
      /\ IF mCurrentEvent \in T
         THEN /\ canceller' = "trylock" /\ victims' = T \cap (Queued \cup {mCurrentEvent})
              /\ UNCHANGED safe
         ELSE /\ safe' = safe \cup (Queued \cap T)
              /\ UNCHANGED <<canceller, victims>>
      /\ UNCHANGED list

\* From PushEvent to the unlock after the callback the handler holds mWorkingLock.
Working == handler \in {"check", "setRunning", "invoke", "complete", "unlockWorking"}

TryWorkingLock ==
  /\ canceller = "trylock"
  /\ canceller' = "idle" /\ victims' = {}
  /\ safe' = IF Working THEN safe ELSE safe \cup victims  \* E_CALLBACK_IS_BUSY, NOERROR
  /\ UNCHANGED <<contextVars, finishVars, now, eventVars, clientVars, handlerVars, history>>

\* ForEachDLinkNode never meets the head of a list that has none.
CancelHeadless ==
  /\ CancelOps # {} /\ QueueUnlocked /\ list = "headTaken"
  /\ list' = "hung"
  /\ UNCHANGED <<mEventQueue, mCurrentEvent, mEventsCount, mStatus, mThreadEvent, finishVars, now,
                 eventVars, clientVars, handlerVars, cancelVars, history>>

\* ~CCallbackContext: whatever is left is cancelled.  Who calls a method of the
\* context has a reference to it (for senders, that of their CallbackContextNode), so
\* the handler has left and nobody is in a call, a send that waits included.
DestroyContext ==
  /\ handler = "exited" /\ list = "sound" /\ mEventQueue # <<>>
  /\ \A e \in Event : client[e] \in {"idle", "returned"}
  /\ canceller = "idle" /\ \A f \in Finish : finisher[f] \in {"idle", "returned"}
  /\ CancelEvents(Queued)
  /\ UNCHANGED <<list, cancelVars>>

-----------------------------------------------------------------------------
(***************************************************************************)
(* RequestToFinish writes the flags without the lock, one after the other. *)
(***************************************************************************)
\* Mutant: the handler is not notified.
RequestToFinishSilent(f) ==
  /\ finisher[f] # "returned"
  /\ finisher' = [finisher EXCEPT ![f] = IF @ = "idle" THEN "exitRequested" ELSE "returned"]
  /\ mRequestToQuit' = IF finisher[f] = "idle" THEN f = "Nice" ELSE mRequestToQuit
  /\ mExitRequested' = (mExitRequested \/ finisher[f] = "exitRequested")
  /\ UNCHANGED <<contextVars, now, eventVars, clientVars, handlerVars, cancelVars, history>>

RequestToFinish(f) ==
  /\ finisher[f] # "returned"
  /\ finisher' = [finisher EXCEPT ![f] = CASE @ = "idle" -> "exitRequested"
                                           [] @ = "exitRequested" -> "notify"
                                           [] @ = "notify" -> "returned"]
  /\ mRequestToQuit' = IF finisher[f] = "idle" THEN f = "Nice" ELSE mRequestToQuit
  /\ mExitRequested' = (mExitRequested \/ finisher[f] = "exitRequested")
  /\ mThreadEvent' = IF finisher[f] = "notify" THEN mThreadEvent + 1 ELSE mThreadEvent
  /\ UNCHANGED <<mEventQueue, list, mCurrentEvent, mEventsCount, mStatus, now, eventVars,
                 clientVars, handlerVars, cancelVars, history>>

Tick ==
  /\ now < MaxTime
  /\ now' = now + 1
  /\ UNCHANGED <<contextVars, finishVars, eventVars, clientVars, handlerVars, cancelVars, history>>

-----------------------------------------------------------------------------
(***************************************************************************)
(* HandleCallbackEvents(INFINITE, NULL, NULL, 0), as TryToHandleEvents     *)
(* calls it.                                                               *)
(***************************************************************************)
HandlerGoto(label) == handler' = label /\ peeked' = NoEvent /\ until' = 0

\* The handler spins on a headless list; its count is not followed below this.
CountFloor == -1
OneEventLess == IF list = "sound" THEN mEventsCount - 1 ELSE Max({mEventsCount - 1, CountFloor})

CheckExit ==
  /\ handler = "loop" /\ QueueUnlocked
  /\ HandlerGoto(IF mExitRequested /\ ~mRequestToQuit THEN "exiting" ELSE "look")
  /\ UNCHANGED <<contextVars, finishVars, now, eventVars, clientVars, cancelVars, history>>

\* The first event is due: detach it, make it current, take mWorkingLock.
TakeFirst ==
  /\ mEventQueue' = Tail(mEventQueue)
  /\ mEventsCount' = OneEventLess
  /\ mCurrentEvent' = Head(mEventQueue).event
  /\ mStatus' = "Working"
  /\ HandlerGoto("check")
  /\ UNCHANGED list

\* The first event is not due: unlock and sleep.
SleepForFirst ==
  /\ handler' = "unlocked" /\ peeked' = Head(mEventQueue).event
  /\ until' = Head(mEventQueue).when
  /\ UNCHANGED <<mEventQueue, list, mCurrentEvent, mEventsCount, mStatus>>

GetEvent ==
  IF now < Head(mEventQueue).when THEN SleepForFirst ELSE TakeFirst

LookAtQueue ==
  /\ handler = "look"
  /\ CASE list = "headTaken" ->
            \* First() keeps returning list heads, which have no handler
            /\ mEventsCount' = OneEventLess /\ mStatus' = "Working" /\ HandlerGoto("loop")
            /\ UNCHANGED <<mEventQueue, list, mCurrentEvent>>
       [] list = "sound" /\ mEventQueue # <<>> -> GetEvent
       [] OTHER ->
            /\ HandlerGoto(IF mRequestToQuit THEN "exiting" ELSE "idling")
            /\ mStatus' = IF mRequestToQuit THEN mStatus ELSE "Idling"
            /\ UNCHANGED <<mEventQueue, list, mCurrentEvent, mEventsCount>>
  /\ UNCHANGED <<mThreadEvent, finishVars, now, eventVars, clientVars, cancelVars, history>>

\* usleep's argument reads mWhen of an event that may have been freed by now.
ReadWhen ==
  /\ handler = "unlocked"
  /\ handler' = "sleeping"
  /\ until' \in IF Freed(peeked) THEN now..MaxTime ELSE {until}
  /\ UNCHANGED <<contextVars, finishVars, now, eventVars, clientVars, peeked, cancelVars, history>>

\* goto again: First() of a queue that others emptied is the head itself.
WakeUp ==
  /\ handler = "sleeping" /\ now >= until /\ QueueUnlocked
  /\ IF mEventQueue # <<>> THEN GetEvent
     ELSE /\ list' = "headTaken" /\ mEventsCount' = OneEventLess /\ mStatus' = "Working"
          /\ HandlerGoto("loop")
          /\ UNCHANGED <<mEventQueue, mCurrentEvent>>
  /\ UNCHANGED <<mThreadEvent, finishVars, now, eventVars, clientVars, cancelVars, history>>

WaitThreadEvent ==
  /\ handler = "idling" /\ mThreadEvent > 0
  /\ mThreadEvent' = mThreadEvent - 1
  /\ HandlerGoto("loop")
  /\ UNCHANGED <<mEventQueue, list, mCurrentEvent, mEventsCount, mStatus, finishVars, now,
                 eventVars, clientVars, cancelVars, history>>

\* A receiver whose count was 0 is left alone, and so is the event's sender.
ReceiverDying ==
  /\ handler = "check" /\ mCurrentEvent \in Dying
  /\ silent' = silent \cup {mCurrentEvent}
  /\ HandlerGoto("unlockWorking")
  /\ UNCHANGED <<contextVars, finishVars, now, eventVars, clientVars, cancelVars, ran, void>>

\* Mutant: the status of a sent event is not looked at.
IgnoreStatus ==
  /\ handler = "check"
  /\ HandlerGoto(IF mCurrentEvent \in Sync THEN "setRunning" ELSE "invoke")
  /\ UNCHANGED <<contextVars, finishVars, now, eventVars, clientVars, cancelVars, history>>

CheckStatus ==
  LET givenUp == mCurrentEvent \in Sync /\ status[mCurrentEvent] = "Cancelled"
  IN  /\ handler = "check"
      /\ syncEvent' = IF givenUp THEN [syncEvent EXCEPT ![mCurrentEvent] = @ + 1] ELSE syncEvent
      /\ HandlerGoto(IF givenUp THEN "unlockWorking"
                     ELSE IF mCurrentEvent \in Sync THEN "setRunning" ELSE "invoke")
      /\ UNCHANGED <<contextVars, finishVars, now, status, ref, clientVars, cancelVars,
                     history>>

SetRunning ==
  /\ handler = "setRunning"
  /\ status' = [status EXCEPT ![mCurrentEvent] = "Running"]
  /\ HandlerGoto("invoke")
  /\ UNCHANGED <<contextVars, finishVars, now, ref, syncEvent, clientVars, cancelVars,
                 history>>

InvokeCallback ==
  /\ handler = "invoke"
  /\ ran' = ran \cup {mCurrentEvent}
  /\ HandlerGoto(IF mCurrentEvent \in Sync THEN "complete" ELSE "unlockWorking")
  /\ UNCHANGED <<contextVars, finishVars, now, eventVars, clientVars, cancelVars, silent, void>>

Complete ==
  /\ handler = "complete"
  /\ status' = [status EXCEPT ![mCurrentEvent] = "Completed"]
  /\ syncEvent' = [syncEvent EXCEPT ![mCurrentEvent] = @ + 1]
  /\ HandlerGoto("unlockWorking")
  /\ UNCHANGED <<contextVars, finishVars, now, ref, clientVars, cancelVars, history>>

UnlockWorking ==
  /\ handler = "unlockWorking"
  /\ HandlerGoto("pop")
  /\ UNCHANGED <<contextVars, finishVars, now, eventVars, clientVars, cancelVars, history>>

\* Mutant: the handler keeps its reference.
PopEventUnreleased ==
  /\ handler = "pop" /\ QueueUnlocked
  /\ mCurrentEvent' = NoEvent
  /\ HandlerGoto("loop")
  /\ UNCHANGED <<mEventQueue, list, mEventsCount, mStatus, mThreadEvent, finishVars, now,
                 eventVars, clientVars, cancelVars, history>>

PopEvent ==
  /\ handler = "pop" /\ QueueUnlocked
  /\ ref' = [ref EXCEPT ![mCurrentEvent] = @ - 1]
  /\ mCurrentEvent' = NoEvent
  /\ HandlerGoto("loop")
  /\ UNCHANGED <<mEventQueue, list, mEventsCount, mStatus, mThreadEvent, finishVars, now, status,
                 syncEvent, clientVars, cancelVars, history>>

FinishHandling ==
  /\ handler = "exiting"
  /\ mStatus' = "Finishing"
  /\ HandlerGoto("exited")
  /\ UNCHANGED <<mEventQueue, list, mCurrentEvent, mEventsCount, mThreadEvent, finishVars, now,
                 eventVars, clientVars, cancelVars, history>>

-----------------------------------------------------------------------------
Init ==
  /\ mEventQueue = <<>> /\ list = "sound" /\ mCurrentEvent = NoEvent
  /\ mEventsCount = 0 /\ mStatus = "Created" /\ mThreadEvent = 0
  /\ mExitRequested = FALSE /\ mRequestToQuit = FALSE
  /\ now = 0
  /\ status = [e \in Event |-> "Created"]
  /\ ref = [e \in Event |-> IF e \in Sync THEN 1 ELSE 0]  \* the sender's own
  /\ syncEvent = [e \in Event |-> 0]
  /\ client = [e \in Event |-> "idle"]
  /\ ret = [e \in Event |-> "none"]
  /\ handler = "loop" /\ peeked = NoEvent /\ until = 0
  /\ finisher = [f \in Finish |-> "idle"]
  /\ canceller = "idle" /\ victims = {}
  /\ ran = {} /\ silent = {} /\ void = {} /\ safe = {}

Handle ==
  \/ CheckExit \/ LookAtQueue \/ ReadWhen \/ WakeUp \/ WaitThreadEvent
  \/ ReceiverDying \/ CheckStatus \/ SetRunning \/ InvokeCallback \/ Complete
  \/ UnlockWorking \/ PopEvent \/ FinishHandling

Send(e) == NotifyThread(e) \/ WaitSyncEvent(e) \/ ReadStatus(e) \/ MarkCancelled(e) \/ ReleaseEvent(e)

Cancel(e) ==
  \/ \E op \in CancelOps : CancelPending(op, e)
  \/ "CancelCallbackEvents" \in CancelOps /\ CancelCallbackEvents(e)

Next ==
  \/ \E e \in Event :
       \/ RejectEvent(e) \/ PostCallbackEvent(e) \/ PostIntoHeadless(e)
       \/ Send(e) \/ Cancel(e)
  \/ \E f \in Finish : RequestToFinish(f)
  \/ TryWorkingLock \/ CancelHeadless \/ DestroyContext \/ Tick \/ Handle

Spec == Init /\ [][Next]_vars

\* The threads are scheduled, the clock advances, and a method that was called goes
\* on.  Nobody has to give up the context.
Fairness ==
  /\ WF_vars(Handle) /\ WF_vars(Tick)
  /\ \A e \in Event : WF_vars(Send(e))
  /\ \A f \in Finish : WF_vars(finisher[f] # "idle" /\ RequestToFinish(f))

FairSpec == Spec /\ Fairness

-----------------------------------------------------------------------------
\* Type correctness of the context, its events and its threads.
TypeOK ==
  /\ mEventQueue \in Seq([event : Event, pri : Nat, when : 0..MaxTime])
  /\ list \in {"sound", "headTaken", "hung"}
  /\ mCurrentEvent \in Event \cup {NoEvent}
  /\ mEventsCount \in Int /\ mThreadEvent \in Nat
  /\ mStatus \in {"Created", "Idling", "Working", "Finishing"}
  /\ mExitRequested \in BOOLEAN /\ mRequestToQuit \in BOOLEAN
  /\ now \in 0..MaxTime
  /\ status \in [Event -> {"Created", "Running", "Completed", "Cancelled"}]
  /\ ref \in [Event -> Int] /\ syncEvent \in [Event -> Nat]
  /\ client \in [Event -> {"idle", "notify", "waiting", "awake", "gaveUp", "marking",
                           "releasing", "returned"}]
  /\ ret \in [Event -> {"none", "NOERROR", "E_CALLBACK_CANCELED", "E_TIMED_OUT"}]
  /\ handler \in {"loop", "look", "idling", "unlocked", "sleeping", "check", "setRunning",
                  "invoke", "complete", "unlockWorking", "pop", "exiting", "exited"}
  /\ peeked \in Event \cup {NoEvent} /\ until \in 0..MaxTime
  /\ finisher \in [Finish -> {"idle", "exitRequested", "notify", "returned"}]
  /\ canceller \in {"idle", "trylock"} /\ victims \subseteq Event
  /\ ran \subseteq Event /\ silent \subseteq Event /\ void \subseteq Event
  /\ safe \subseteq Event

\* Every reference is accounted for: one for the queue or mCurrentEvents, one for
\* a send that has not returned.  So the queue, the handler and a waiting sender
\* never hold a freed event, and no event leaks.
RefsExact ==
  list = "sound" =>
    \A e \in Event : client[e] # "idle" =>
      ref[e] = (IF e \in Queued \/ e = mCurrentEvent THEN 1 ELSE 0)
             + (IF e \in Sync /\ client[e] # "returned" THEN 1 ELSE 0)

\* mEventsCount is the length of the queue, through posts, supersedings, cancels
\* and dispatches; no event is queued twice or both queued and current.
CountMatchesQueue ==
  list = "sound" =>
    /\ mEventsCount = Len(mEventQueue)
    /\ Cardinality(Queued) = Len(mEventQueue)
    /\ mCurrentEvent \notin Queued

\* The queue is ordered by priority and then by due time, also after a
\* superseding event inherited a priority.
QueueOrdered ==
  \A i, j \in DOMAIN mEventQueue : i < j =>
    LET a == mEventQueue[i]
        b == mEventQueue[j]
    IN  a.pri < b.pri \/ (a.pri = b.pri /\ a.when <= b.when)

\* What SendCallbackEvent reports is what happened: NOERROR only for a callback
\* that ran, E_CALLBACK_CANCELED only for one that never will.
ReportsTruth ==
  \A e \in Sync : /\ ret[e] = "NOERROR" => e \in ran
                  /\ ret[e] = "E_CALLBACK_CANCELED" => e \notin ran /\ e \notin Queued
                                                         /\ e # mCurrentEvent

\* A send given up while its event was still queued is never carried out.
GivenUpNeverRuns == void \cap ran = {}

\* A context asked to finish nicely carries out or cancels all it accepted: its
\* handler leaves an empty queue behind, and nothing slips in afterwards.
NiceDrains ==
  (/\ handler \in {"exiting", "exited"} /\ list = "sound"
   /\ "ASAP" \in DOMAIN finisher => finisher["ASAP"] = "idle")
    => mEventQueue = <<>>

\* Once CancelCallbackEvents returned NOERROR, no callback it was called for is
\* running or about to: the caller may free what the callback uses.
CancelledIsOver ==
  \A e \in safe : e \notin Queued /\ ~(e = mCurrentEvent /\ Working)

\* What GetEvent hands to the handler is an event, as the assert(callbackEvent) that
\* follows means to say; the list's head, which is not NULL, passes it.
GetEventReturnsEvent == list = "sound"

\* The handler gets to every event in the queue before it leaves: no wake-up is lost
\* between the unlocked sem_posts and the handler's going idle.
QueueServed == \A e \in Event : (e \in Queued) ~> (e \notin Queued \/ handler = "exited")

\* Every send returns, whether it was carried out, cancelled or rejected, unless its
\* event was superseded, its receiver is gone, or the handler left with the event
\* still queued (which by NiceDrains takes an ASAP finish).
SendReturns ==
  \A e \in Sync :
    (client[e] = "waiting") ~>
      (client[e] = "returned" \/ e \in silent \/ (e \in Queued /\ handler = "exited"))

\* A handler that is asked to finish finishes.
FinishTakesEffect == mExitRequested ~> (handler = "exited")
=============================================================================

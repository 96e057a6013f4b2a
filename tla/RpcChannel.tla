----------------------------- MODULE RpcChannel -----------------------------
(***************************************************************************)
(* Calls through one CObjectProxy over a socket (linux_rpc): the threads   *)
(* that call, the connection they share, the tasks that ping the server,   *)
(* the server's looper and workers, and the recipients that are to be told *)
(* when the stub dies.                                                     *)
(*                                                                         *)
(* TCP is external: it keeps the order of what is sent, and a connection   *)
(* breaks only with the server's process.  A message is read whole or not  *)
(* at all.  SIGPIPE is taken to be ignored by the process, and ProxyDied   *)
(* not to come back into the proxy.  The application links and unlinks     *)
(* from one thread, as LinkToDeath has no lock.                            *)
(***************************************************************************)
EXTENDS Naturals, Sequences, SequencesExt

CONSTANTS
  Thread,        \* the threads that call through the proxy
  Recipient,     \* the death recipients of the application
  None,
  MaxCalls,      \* calls of all threads
  MaxLinks,      \* calls of LinkToDeath
  MaxTimeouts    \* receives given up while the server is up

ASSUME RpcAssumption ==
  /\ None \notin Thread /\ None \notin Recipient
  /\ \A t \in Thread : None \notin {<<t, "call">>, <<t, "ping">>}
  /\ MaxCalls \in Nat \ {0} /\ MaxLinks \in Nat /\ MaxTimeouts \in Nat

\* A thread makes at most one connection and starts at most one ping task: both
\* are named by it.
Caller == {<<t, "call">> : t \in Thread}
Pinger == {<<t, "ping">> : t \in Thread}
Client == Caller \cup Pinger

VARIABLES
  mSocketfd,     \* the connection of the proxy, None for -1
  mPingTask,     \* whether the proxy has one
  mLock,         \* the client that holds the proxy's lock
  pc,            \* per client
  calls,         \* per thread: calls begun
  sentOn,        \* per client: the connection its request went to
  recvOn,        \* per client: the connection on which its recv waits
  mOrgue,        \* whether the recipient list exists
  mDeathRecipients, listLock,
  origCDR,       \* the recipient UnlinkToDeath has found and is to remove
  telling,       \* per client: the recipient whose ProxyDied it is in
  serverUp, clientUp,
  requests, work, replies,  \* per connection: sent, with a worker, answered
  late,          \* history: connections on which a request was given up
  timeouts,      \* history: receives given up while the server is up
  expects,       \* history: recipients linked, not unlinked, not told
  links          \* history: calls of LinkToDeath

proxyVars  == <<mSocketfd, mPingTask, mLock, pc, calls, sentOn, recvOn, late, timeouts>>
deathVars  == <<mOrgue, mDeathRecipients, listLock, origCDR, telling, expects, links>>
serverVars == <<serverUp, requests, work, replies>>
vars == <<proxyVars, deathVars, serverVars, clientUp>>

Goto(c, l) == pc' = [pc EXCEPT ![c] = l]

\* What a client sends: a call is known by its number, a PING has number 0.
Message(c) == <<c[1], IF c \in Pinger THEN 0 ELSE calls[c[1]]>>

-----------------------------------------------------------------------------
\* The calling threads: ProxyEntry_RPC up to the lock.

\* The method is called; whether there is a connection is asked without a lock.
BeginCall(t) ==
  /\ pc[<<t, "call">>] = "idle" /\ FoldFunction(+, 0, calls) < MaxCalls
  /\ calls' = [calls EXCEPT ![t] = @ + 1]
  /\ Goto(<<t, "call">>, IF mSocketfd = None THEN "connect" ELSE "ready")
  /\ UNCHANGED <<mSocketfd, mPingTask, mLock, sentOn, recvOn, late, timeouts, deathVars, serverVars, clientUp>>

\* socket, connect, setsockopt: any of them may fail, connect does when the server is
\* down.  The new connection becomes the proxy's, also if another thread was quicker.
Connect(t) ==
  /\ pc[<<t, "call">>] = "connect"
  /\ \/ /\ serverUp
        /\ mSocketfd' = t
        /\ Goto(<<t, "call">>, "connected")
     \/ Goto(<<t, "call">>, "idle") /\ UNCHANGED mSocketfd
  /\ UNCHANGED <<mPingTask, mLock, calls, sentOn, recvOn, late, timeouts, deathVars, serverVars, clientUp>>

\* Has the proxy a ping task?
TestPingTask(t) ==
  /\ pc[<<t, "call">>] = "connected"
  /\ Goto(<<t, "call">>, IF mPingTask THEN "ready" ELSE "startPing")
  /\ UNCHANGED <<mSocketfd, mPingTask, mLock, calls, sentOn, recvOn, late, timeouts, deathVars, serverVars, clientUp>>

\* RunTask may fail to start a thread, which nobody notices.
StartPing(t) ==
  /\ pc[<<t, "call">>] = "startPing"
  /\ mPingTask' = TRUE
  /\ \/ pc' = [pc EXCEPT ![<<t, "call">>] = "ready", ![<<t, "ping">>] = "ready"]
     \/ Goto(<<t, "call">>, "ready")
  /\ UNCHANGED <<mSocketfd, mLock, calls, sentOn, recvOn, late, timeouts, deathVars, serverVars, clientUp>>

-----------------------------------------------------------------------------
\* Sending and receiving, of the calls and of PingRunnable::Run.

\* Mutant: the lock is not held from the send to the receive.
SendUnlocked(c) ==
  /\ pc[c] = "ready" /\ mLock = None
  /\ Goto(c, "sent")
  /\ sentOn' = [sentOn EXCEPT ![c] = mSocketfd]
  /\ requests' = IF serverUp THEN [requests EXCEPT ![mSocketfd] = Append(@, Message(c))]
                 ELSE requests
  /\ UNCHANGED <<mSocketfd, mPingTask, mLock, calls, recvOn, late, timeouts, deathVars, serverUp, work, replies, clientUp>>

\* The lock is taken and the request sent.  To a server that is down, send still
\* succeeds or fails; the ping does not mind (the first send after a close succeeds).
Send(c) ==
  /\ pc[c] = "ready" /\ mLock = None
  /\ mLock' = c
  /\ Goto(c, "sent")
  /\ sentOn' = [sentOn EXCEPT ![c] = mSocketfd]
  /\ requests' = IF serverUp THEN [requests EXCEPT ![mSocketfd] = Append(@, Message(c))]
                 ELSE requests
  /\ UNCHANGED <<mSocketfd, mPingTask, calls, recvOn, late, timeouts, deathVars, serverUp, work, replies, clientUp>>

\* A call whose send fails returns at once, and nobody is told.
SendFails(t) ==
  /\ pc[<<t, "call">>] = "ready" /\ mLock = None /\ ~serverUp
  /\ Goto(<<t, "call">>, "idle")
  /\ UNCHANGED <<mSocketfd, mPingTask, mLock, calls, sentOn, recvOn, late, timeouts, deathVars, serverVars, clientUp>>

\* recv is called on the connection the proxy has now, which may not be the one sent on.
CallRecv(c) ==
  /\ pc[c] = "sent"
  /\ recvOn' = [recvOn EXCEPT ![c] = mSocketfd]
  /\ Goto(c, "recv")
  /\ UNCHANGED <<mSocketfd, mPingTask, mLock, calls, sentOn, late, timeouts, deathVars, serverVars, clientUp>>

\* It returns the reply that has arrived there.
Receive(c) ==
  /\ pc[c] = "recv" /\ replies[recvOn[c]] # <<>>
  /\ replies' = [replies EXCEPT ![recvOn[c]] = Tail(@)]
  /\ sentOn' = [sentOn EXCEPT ![c] = None]
  /\ recvOn' = [recvOn EXCEPT ![c] = None]
  /\ Goto(c, IF c \in Caller THEN "idle" ELSE "ready")
  /\ mLock' = None
  /\ UNCHANGED <<mSocketfd, mPingTask, calls, late, timeouts, deathVars, serverUp, requests, work, clientUp>>

\* Mutant: a ping that is not answered is tried again.
ReceiveFailsUnnoticed(c) ==
  /\ pc[c] = "recv" /\ replies[recvOn[c]] = <<>>
  /\ Goto(c, IF c \in Caller THEN "died" ELSE "ready")
  /\ mLock' = IF c \in Pinger THEN None ELSE mLock
  /\ IF serverUp
       THEN /\ timeouts < MaxTimeouts /\ timeouts' = timeouts + 1
            /\ late' = late \cup {sentOn[c]}
       ELSE UNCHANGED <<timeouts, late>>
  /\ sentOn' = [sentOn EXCEPT ![c] = None]
  /\ recvOn' = [recvOn EXCEPT ![c] = None]
  /\ UNCHANGED <<mSocketfd, mPingTask, calls, deathVars, serverVars, clientUp>>

\* The receive meets the end of the connection, or a minute passes.  The ping
\* gives up the lock as it leaves its loop, a call keeps it.
ReceiveFails(c) ==
  /\ pc[c] = "recv" /\ replies[recvOn[c]] = <<>>
  /\ Goto(c, "died")
  /\ mLock' = IF c \in Pinger THEN None ELSE mLock
  /\ IF serverUp
       THEN /\ timeouts < MaxTimeouts /\ timeouts' = timeouts + 1
            /\ late' = late \cup {sentOn[c]}
       ELSE UNCHANGED <<timeouts, late>>
  /\ sentOn' = [sentOn EXCEPT ![c] = None]
  /\ recvOn' = [recvOn EXCEPT ![c] = None]
  /\ UNCHANGED <<mSocketfd, mPingTask, calls, deathVars, serverVars, clientUp>>

-----------------------------------------------------------------------------
\* The recipients.

\* Mutant: NotifyAll does not lock the list.
StubDiedUnlocked(c) ==
  /\ pc[c] = "died"
  /\ IF mOrgue THEN Goto(c, "telling") /\ UNCHANGED clientUp
     ELSE clientUp' = FALSE /\ UNCHANGED pc
  /\ UNCHANGED <<mSocketfd, mPingTask, mLock, calls, sentOn, recvOn, late, timeouts, deathVars, serverVars>>

\* StubDied, NotifyAll locks the list; nobody ever having linked, there is none
\* and the process crashes.
StubDied(c) ==
  /\ pc[c] = "died"
  /\ IF mOrgue
       THEN listLock = None /\ listLock' = c /\ Goto(c, "telling") /\ UNCHANGED clientUp
       ELSE clientUp' = FALSE /\ UNCHANGED <<listLock, pc>>
  /\ UNCHANGED <<mSocketfd, mPingTask, mLock, calls, sentOn, recvOn, late, timeouts, serverVars,
                 mOrgue, mDeathRecipients, origCDR, telling, expects, links>>

\* ProxyDied of the first recipient is called ...
Tell(c) ==
  /\ pc[c] = "telling" /\ telling[c] = None /\ mDeathRecipients # <<>>
  /\ telling' = [telling EXCEPT ![c] = Head(mDeathRecipients)]
  /\ UNCHANGED <<proxyVars, serverVars, clientUp,
                 mOrgue, mDeathRecipients, listLock, origCDR, expects, links>>

\* ... and when it returns the entry, still the first, is erased.
Erase(c) ==
  /\ telling[c] # None
  /\ mDeathRecipients' = Tail(mDeathRecipients)
  /\ expects' = expects \ {telling[c]}
  /\ telling' = [telling EXCEPT ![c] = None]
  /\ UNCHANGED <<proxyVars, serverVars, clientUp, mOrgue, listLock, origCDR, links>>

\* The list is at its end: a call returns E_FAIL, the ping task is over.
Told(c) ==
  /\ pc[c] = "telling" /\ telling[c] = None /\ mDeathRecipients = <<>>
  /\ listLock' = None
  /\ mLock' = IF c \in Caller THEN None ELSE mLock
  /\ Goto(c, IF c \in Caller THEN "idle" ELSE "over")
  /\ UNCHANGED <<mSocketfd, mPingTask, calls, sentOn, recvOn, late, timeouts, serverVars, clientUp,
                 mOrgue, mDeathRecipients, origCDR, telling, expects, links>>

\* The first LinkToDeath creates the list ...
CreateOrgue ==
  /\ ~mOrgue /\ links < MaxLinks
  /\ mOrgue' = TRUE
  /\ UNCHANGED <<proxyVars, serverVars, clientUp,
                 mDeathRecipients, listLock, origCDR, telling, expects, links>>

\* ... before it adds the recipient, as the others do.  mStubDied, which would refuse the
\* link, is never set.
LinkToDeath(r) ==
  /\ mOrgue /\ origCDR = None /\ r \notin expects /\ links < MaxLinks
  /\ listLock = None
  /\ mDeathRecipients' = Append(mDeathRecipients, r)
  /\ expects' = expects \cup {r}
  /\ links' = links + 1
  /\ UNCHANGED <<proxyVars, serverVars, clientUp, mOrgue, listLock, origCDR, telling>>

\* UnlinkToDeath finds the recipient under the list's lock ...
FindRecipient(r) ==
  /\ origCDR = None /\ r \in expects
  /\ listLock = None
  /\ origCDR' = r
  /\ UNCHANGED <<proxyVars, serverVars, clientUp,
                 mOrgue, mDeathRecipients, listLock, telling, expects, links>>

\* ... and removes its first entry under it once more, if there still is one, and returns.
RemoveRecipient ==
  /\ origCDR # None
  /\ listLock = None
  /\ \/ \E n \in 1 .. Len(mDeathRecipients) :
          /\ mDeathRecipients[n] = origCDR
          /\ \A m \in 1 .. n - 1 : mDeathRecipients[m] # origCDR
          /\ mDeathRecipients' = RemoveAt(mDeathRecipients, n)
     \/ /\ \A n \in 1 .. Len(mDeathRecipients) : mDeathRecipients[n] # origCDR
        /\ UNCHANGED mDeathRecipients
  /\ expects' = expects \ {origCDR}
  /\ origCDR' = None
  /\ UNCHANGED <<proxyVars, serverVars, clientUp, mOrgue, listLock, telling, links>>

-----------------------------------------------------------------------------
\* The server.

\* AcceptCallback reads what has arrived.  The first request goes to a worker; what
\* was read behind it is taken for a part of it, and lost.
Accept(conn) ==
  /\ serverUp /\ requests[conn] # <<>>
  /\ work' = [work EXCEPT ![conn] = @ \cup {Head(requests[conn])}]
  /\ \E n \in 1 .. Len(requests[conn]) :
       requests' = [requests EXCEPT ![conn] = SubSeq(@, n + 1, Len(@))]
  /\ UNCHANGED <<proxyVars, deathVars, clientUp, serverUp, replies>>

\* TransactRunnable::Run: the workers of a connection answer in any order.
Transact(conn) ==
  /\ serverUp
  /\ \E m \in work[conn] :
       /\ work' = [work EXCEPT ![conn] = @ \ {m}]
       /\ replies' = [replies EXCEPT ![conn] = Append(@, m)]
  /\ UNCHANGED <<proxyVars, deathVars, clientUp, serverUp, requests>>

\* The server's process dies.  Replies that have reached the client may still be
\* read, or a reset discards them.
ServerDies ==
  /\ serverUp
  /\ serverUp' = FALSE
  /\ requests' = [conn \in Thread |-> <<>>]
  /\ work' = [conn \in Thread |-> {}]
  /\ \E reset \in SUBSET Thread :
       replies' = [conn \in Thread |-> IF conn \in reset THEN <<>> ELSE replies[conn]]
  /\ UNCHANGED <<proxyVars, deathVars, clientUp>>

-----------------------------------------------------------------------------
Init ==
  /\ mSocketfd = None /\ mPingTask = FALSE /\ mLock = None
  /\ pc = [c \in Client |-> IF c \in Caller THEN "idle" ELSE "none"]
  /\ calls = [t \in Thread |-> 0]
  /\ sentOn = [c \in Client |-> None] /\ recvOn = [c \in Client |-> None] /\ late = {} /\ timeouts = 0
  /\ mOrgue = FALSE /\ mDeathRecipients = <<>> /\ listLock = None
  /\ origCDR = None /\ telling = [c \in Client |-> None]
  /\ expects = {} /\ links = 0
  /\ serverUp = TRUE /\ clientUp = TRUE
  /\ requests = [t \in Thread |-> <<>>] /\ replies = [t \in Thread |-> <<>>]
  /\ work = [t \in Thread |-> {}]

Call(t) == BeginCall(t) \/ Connect(t) \/ TestPingTask(t) \/ StartPing(t) \/ SendFails(t)

Exchange(c) ==
  \/ Send(c) \/ CallRecv(c) \/ Receive(c) \/ ReceiveFails(c)
  \/ StubDied(c) \/ Tell(c) \/ Erase(c) \/ Told(c)

Application == \/ CreateOrgue
               \/ \E r \in Recipient : LinkToDeath(r) \/ FindRecipient(r)
               \/ RemoveRecipient

Server == \/ \E conn \in Thread : Accept(conn) \/ Transact(conn)
          \/ ServerDies

\* We follow the server no further than the client's process lives.
Next ==
  /\ clientUp
  /\ \/ \E t \in Thread : Call(t)
     \/ \E c \in Client : Exchange(c)
     \/ Application
     \/ Server

Spec == Init /\ [][Next]_vars

\* A client that can go on again and again does: a receive that meets the end of the
\* connection returns, a waiter gets its lock.  The server owes nothing, and nobody is
\* obliged to call, link or unlink.
FairSpec == Spec /\ \A c \in Client : SF_vars(clientUp /\ Exchange(c))

-----------------------------------------------------------------------------
\* Type correctness of the proxy, the list, the connections and the clients.
TypeOK ==
  /\ mSocketfd \in Thread \cup {None} /\ mPingTask \in BOOLEAN
  /\ mLock \in Client \cup {None} /\ listLock \in Client \cup {None}
  /\ pc \in [Client -> {"none", "idle", "connect", "connected", "startPing", "ready", "sent", "recv",
                        "died", "telling", "over"}]
  /\ calls \in [Thread -> 0 .. MaxCalls]
  /\ sentOn \in [Client -> Thread \cup {None}] /\ recvOn \in [Client -> Thread \cup {None}]
  /\ late \subseteq Thread /\ timeouts \in 0 .. MaxTimeouts
  /\ mOrgue \in BOOLEAN /\ mDeathRecipients \in Seq(Recipient)
  /\ origCDR \in Recipient \cup {None} /\ expects \subseteq Recipient
  /\ telling \in [Client -> Recipient \cup {None}] /\ links \in 0 .. MaxLinks
  /\ serverUp \in BOOLEAN /\ clientUp \in BOOLEAN

\* A call takes the answer to its own request, whatever the other calls, the pings and
\* a second connection do, unless a request was given up on this connection before:
\* replies carry nothing by which ProxyEntry_RPC could tell whose they are.
AnswersMatch ==
  [][\A c \in Caller :
       pc[c] = "recv" /\ pc'[c] = "idle" /\ sentOn[c] \notin late
         => Head(replies[recvOn[c]]) = Message(c)]_vars

\* ProxyDied is called once for a link, and never after UnlinkToDeath has returned,
\* though a call and pings may find the stub dead at the same time and an unlink comes
\* between.
ToldOnce ==
  /\ \A c \in Client : telling[c] # None => telling[c] \in expects
  /\ \A c, d \in Client : telling[c] # None /\ telling[c] = telling[d] => c = d

\* While a ping task runs, the death of the server is made known to every recipient
\* that is linked: PingRunnable leaves its loop and tells them, if no call did before.
DeathMadeKnown ==
  \A r \in Recipient :
    (/\ r \in expects /\ ~serverUp
     /\ \E c \in Pinger : pc[c] \in {"ready", "sent", "recv"}) ~> r \notin expects
=============================================================================

-------------------------- MODULE RpcChannelProofs --------------------------
(***************************************************************************)
(* For any set of threads and recipients and any number of calls, links    *)
(* and timeouts: a call takes its own answer, and a recipient is told once.*)
(*                                                                         *)
(* The proxy's lock is held from the send to the receive, but by itself    *)
(* that says little: the connection may be replaced in between, a recv may *)
(* wait on one that was replaced, and a request that was given up leaves a *)
(* reply behind.  What carries the proof is that a connection in use, the  *)
(* proxy's or the one a recv waits on, never has anything on it but the    *)
(* request of the lock's holder, and nothing at all if the holder sent on  *)
(* another one, because a connection is new when it becomes the proxy's.   *)
(***************************************************************************)
EXTENDS RpcChannel, SequenceTheorems, TLAPS

\* A connection with nothing on it, and one with message m in one of its three places.
Empty(x) == requests[x] = <<>> /\ work[x] = {} /\ replies[x] = <<>>
OneOut(x, m) ==
  \/ requests[x] = <<m>> /\ work[x] = {} /\ replies[x] = <<>>
  \/ requests[x] = <<>> /\ work[x] = {m} /\ replies[x] = <<>>
  \/ requests[x] = <<>> /\ work[x] = {} /\ replies[x] = <<m>>

\* Between the send and the return of recv.
Waiting == {"sent", "recv"}

\* A connection in use: the proxy's, or one on which a recv waits.
Live(x) == x = mSocketfd \/ \E c \in Client : pc[c] = "recv" /\ recvOn[c] = x

\* Nothing is on a connection but the request of the lock's holder.
Alone(x) ==
  \/ Empty(x)
  \/ \E c \in Client : /\ mLock = c /\ pc[c] \in Waiting /\ sentOn[c] = x
                       /\ OneOut(x, Message(c))

\* What the proofs need of the types.
ProxyTypes ==
  /\ mSocketfd \in Thread \cup {None}
  /\ pc \in [Client -> {"none", "idle", "connect", "connected", "startPing", "ready", "sent",
                        "recv", "died", "telling", "over"}]
  /\ DOMAIN calls = Thread /\ DOMAIN sentOn = Client /\ DOMAIN recvOn = Client
  /\ DOMAIN telling = Client
  /\ DOMAIN requests = Thread /\ DOMAIN work = Thread /\ DOMAIN replies = Thread

\* A thread connects once, before it has a ping task.
ConnectState ==
  /\ mSocketfd = None => \A t \in Thread : /\ pc[<<t, "call">>] \in {"idle", "connect"}
                                           /\ pc[<<t, "ping">>] = "none"
                                           /\ Empty(t)
  /\ \A t \in Thread : pc[<<t, "call">>] = "connect" => mSocketfd # t /\ Empty(t)
  /\ \A t \in Thread, c \in Client :
       pc[<<t, "call">>] = "connect" /\ pc[c] \in Waiting => sentOn[c] # t
  /\ \A t \in Thread : pc[<<t, "call">>] \in {"connect", "connected", "startPing"} =>
       pc[<<t, "ping">>] = "none"

\* Who waits for an answer holds the lock; a call keeps it while the recipients are told.
HoldsLock ==
  /\ \A c \in Client : pc[c] \in Waiting => mLock = c
  /\ \A c \in Caller : pc[c] \in {"died", "telling"} => mLock = c

\* What is on the connections in use; a recv that waits on a connection replaced since
\* did not send on its successor.
WireState ==
  /\ \A x \in Thread \ late : Live(x) => Alone(x)
  /\ \A x \in Thread, c \in Client :
       Live(x) /\ pc[c] \in Waiting /\ sentOn[c] # x => Empty(x)
  /\ \A c \in Client : pc[c] = "recv" =>
       recvOn[c] \in Thread /\ (recvOn[c] # mSocketfd => sentOn[c] # mSocketfd)
  /\ ~serverUp => \A x \in Thread : requests[x] = <<>> /\ work[x] = {}

ChannelInv == ProxyTypes /\ ConnectState /\ HoldsLock /\ WireState

\* Who tells the recipients has the list's lock and is in the ProxyDied of the first
\* entry; the entries are distinct recipients that expect to be told.
ListState ==
  /\ mDeathRecipients \in Seq(Recipient) /\ expects \subseteq Recipient
  /\ \A n \in 1 .. Len(mDeathRecipients) : mDeathRecipients[n] \in expects
  /\ \A m, n \in 1 .. Len(mDeathRecipients) : mDeathRecipients[m] = mDeathRecipients[n] => m = n
  /\ \A c \in Client : pc[c] = "telling" => listLock = c
  /\ \A c \in Client : telling[c] # None =>
       /\ pc[c] = "telling" /\ mDeathRecipients # <<>> /\ telling[c] = Head(mDeathRecipients)

-----------------------------------------------------------------------------
\* The clients' names: a caller and a ping task per thread, and None is no client.
LEMMA ClientNames ==
  /\ Client = Caller \cup Pinger /\ None \notin Client
  /\ \A c \in Caller : c \notin Pinger /\ \E t \in Thread : c = <<t, "call">>
  /\ \A c \in Pinger : c \notin Caller /\ \E t \in Thread : c = <<t, "ping">>
  /\ \A t \in Thread : <<t, "call">> \in Caller /\ <<t, "ping">> \in Pinger
  /\ \A t, u \in Thread : <<t, "call">> # <<u, "ping">>
  /\ \A t, u \in Thread : <<t, "call">> = <<u, "call">> => t = u
  /\ \A t, u \in Thread : <<t, "ping">> = <<u, "ping">> => t = u
<1>1. \A t, u \in Thread : <<t, "call">> # <<u, "ping">>
  OBVIOUS
<1>2. /\ \A t, u \in Thread : <<t, "call">> = <<u, "call">> => t = u
      /\ \A t, u \in Thread : <<t, "ping">> = <<u, "ping">> => t = u
  OBVIOUS
<1>3. None \notin Client
  BY RpcAssumption, Zenon DEF Client, Caller, Pinger
<1> QED
  BY <1>1, <1>2, <1>3, Zenon DEF Client, Caller, Pinger

\* Steps that leave the connections, and every exchange under way, as they are.
LEMMA WireUntouched ==
  ASSUME WireState,
         UNCHANGED <<mSocketfd, sentOn, recvOn, late, serverUp, requests, work, replies>>,
         \A c \in Client : pc'[c] \in Waiting \/ pc[c] \in Waiting => pc'[c] = pc[c],
         \A c \in Client : pc[c] \in Waiting => mLock' = mLock /\ Message(c)' = Message(c)
  PROVE  WireState'
<1>1. \A x : Empty(x)' <=> Empty(x)
  BY DEF Empty
<1>2. \A x : Live(x)' => Live(x)
  BY DEF Live, Waiting
<1>3. ASSUME NEW x \in Thread, Alone(x) PROVE Alone(x)'
  <2>1. CASE Empty(x)
    BY <1>1, <2>1 DEF Alone
  <2>2. CASE ~Empty(x)
    <3>1. PICK c \in Client : /\ mLock = c /\ pc[c] \in Waiting /\ sentOn[c] = x
                              /\ OneOut(x, Message(c))
      BY <1>3, <2>2 DEF Alone
    <3>2. OneOut(x, Message(c))'
      BY <3>1 DEF OneOut
    <3>3. mLock' = c /\ pc'[c] \in Waiting /\ sentOn'[c] = x
      BY <3>1
    <3> QED
      BY <3>2, <3>3 DEF Alone
  <2> QED
    BY <2>1, <2>2
<1>4. \A x \in Thread \ late' : Live(x)' => Alone(x)'
  BY <1>2, <1>3 DEF WireState
<1>5. \A x \in Thread, c \in Client :
        Live(x)' /\ pc'[c] \in Waiting /\ sentOn'[c] # x => Empty(x)'
  BY <1>1, <1>2 DEF WireState
<1>6. \A c \in Client : pc'[c] = "recv" =>
        recvOn'[c] \in Thread /\ (recvOn'[c] # mSocketfd' => sentOn'[c] # mSocketfd')
  BY DEF WireState, Waiting
<1>7. ~serverUp' => \A x \in Thread : requests'[x] = <<>> /\ work'[x] = {}
  BY DEF WireState
<1> QED
  BY <1>4, <1>5, <1>6, <1>7 DEF WireState

\* What the recipients' list and the application do is nothing to the connections.
LEMMA OthersKeepChannel ==
  ASSUME ChannelInv, UNCHANGED <<proxyVars, serverVars>>, DOMAIN telling' = Client
  PROVE  ChannelInv'
<1>0. UNCHANGED <<mSocketfd, mLock, pc, calls, sentOn, recvOn, late, serverUp, requests, work, replies>>
  BY DEF proxyVars, serverVars
<1>1. ProxyTypes' /\ ConnectState' /\ HoldsLock'
  BY <1>0 DEF ChannelInv, ProxyTypes, ConnectState, HoldsLock, Empty
<1>2. WireState'
  BY <1>0, WireUntouched DEF ChannelInv, Message
<1> QED
  BY <1>1, <1>2 DEF ChannelInv

\* The method is called.
LEMMA BeginCallKeeps ==
  ASSUME ChannelInv, NEW t \in Thread, BeginCall(t)
  PROVE  ChannelInv'
<1>0. /\ pc[<<t, "call">>] = "idle"
      /\ calls' = [calls EXCEPT ![t] = @ + 1]
      /\ pc' = [pc EXCEPT ![<<t, "call">>] = IF mSocketfd = None THEN "connect" ELSE "ready"]
      /\ UNCHANGED <<mSocketfd, mLock, sentOn, recvOn, late, telling, serverUp, requests, work, replies>>
  BY DEF BeginCall, Goto, deathVars, serverVars
<1>1. <<t, "call">> \in Client
  BY ClientNames
<1>2. ProxyTypes'
  BY <1>0, <1>1 DEF ChannelInv, ProxyTypes
<1>3. /\ pc'[<<t, "call">>] = IF mSocketfd = None THEN "connect" ELSE "ready"
      /\ \A c \in Client : c # <<t, "call">> => pc'[c] = pc[c]
  BY <1>0, <1>1 DEF ChannelInv, ProxyTypes
<1>4. /\ \A u \in Thread : u # t => pc'[<<u, "call">>] = pc[<<u, "call">>]
      /\ \A u \in Thread : pc'[<<u, "ping">>] = pc[<<u, "ping">>]
  BY <1>3, ClientNames
<1>5. ConnectState'
  <2>1. \A x : Empty(x)' <=> Empty(x)
    BY <1>0 DEF Empty
  <2>2. mSocketfd' = None =>
          \A u \in Thread : /\ pc'[<<u, "call">>] \in {"idle", "connect"}
                            /\ pc'[<<u, "ping">>] = "none" /\ Empty(u)'
    BY <1>0, <1>3, <1>4, <2>1 DEF ChannelInv, ConnectState
  <2>3. \A u \in Thread : pc'[<<u, "call">>] = "connect" =>
          \/ pc[<<u, "call">>] = "connect"
          \/ mSocketfd = None
    BY <1>3, <1>4
  <2>4. \A u \in Thread : pc'[<<u, "call">>] = "connect" => mSocketfd' # u /\ Empty(u)'
    <3>1. None \notin Thread
      BY RpcAssumption
    <3>2. \A u \in Thread : mSocketfd = None => Empty(u) /\ mSocketfd # u
      BY <3>1 DEF ChannelInv, ConnectState
    <3>3. \A u \in Thread : pc[<<u, "call">>] = "connect" => Empty(u) /\ mSocketfd # u
      BY DEF ChannelInv, ConnectState
    <3> QED
      BY <1>0, <2>1, <2>3, <3>2, <3>3
  <2>5. \A u \in Thread, c \in Client :
          pc'[<<u, "call">>] = "connect" /\ pc'[c] \in Waiting => sentOn'[c] # u
    <3>1. \A c \in Client : pc'[c] \in Waiting => pc[c] \in Waiting
      BY <1>3 DEF Waiting
    <3>2. \A c \in Client : mSocketfd = None => pc[c] \notin Waiting
      BY ClientNames DEF ChannelInv, ConnectState, Waiting
    <3> QED
      BY <1>0, <2>3, <3>1, <3>2 DEF ChannelInv, ConnectState
  <2>6. \A u \in Thread : pc'[<<u, "call">>] \in {"connect", "connected", "startPing"} =>
          pc'[<<u, "ping">>] = "none"
    BY <1>0, <1>3, <1>4 DEF ChannelInv, ConnectState
  <2> QED
    BY <2>2, <2>4, <2>5, <2>6 DEF ConnectState
<1>6. HoldsLock'
  BY <1>0, <1>3, ClientNames DEF ChannelInv, HoldsLock, Waiting
<1>7. \A c \in Client : pc[c] \in Waiting => Message(c)' = Message(c)
  <2> SUFFICES ASSUME NEW c \in Client, pc[c] \in Waiting PROVE Message(c)' = Message(c)
    OBVIOUS
  <2>1. CASE c \in Pinger
    BY <2>1 DEF Message
  <2>2. CASE c \in Caller
    <3>1. PICK u \in Thread : c = <<u, "call">> /\ u # t
      BY <1>0, <2>2, ClientNames DEF Waiting
    <3>2. c[1] = u /\ calls'[u] = calls[u]
      BY <1>0, <3>1 DEF ChannelInv, ProxyTypes
    <3> QED
      BY <2>2, <3>2, ClientNames DEF Message
  <2> QED
    BY <2>1, <2>2, ClientNames
<1>8. \A c \in Client : pc'[c] \in Waiting \/ pc[c] \in Waiting => pc'[c] = pc[c]
  BY <1>0, <1>3 DEF Waiting
<1>9. WireState'
  BY <1>0, <1>7, <1>8, WireUntouched DEF ChannelInv
<1> QED
  BY <1>2, <1>5, <1>6, <1>9 DEF ChannelInv

\* The new connection that becomes the proxy's has nothing on it yet.
LEMMA ConnectKeeps ==
  ASSUME ChannelInv, NEW t \in Thread, Connect(t)
  PROVE  ChannelInv'
<1>0. /\ pc[<<t, "call">>] = "connect"
      /\ UNCHANGED <<mLock, calls, sentOn, recvOn, late, telling, serverUp, requests, work, replies>>
  BY DEF Connect, deathVars, serverVars
<1>1. PICK l \in {"connected", "idle"} : pc' = [pc EXCEPT ![<<t, "call">>] = l]
  BY DEF Connect, Goto
<1>2. <<t, "call">> \in Client
  BY ClientNames
<1>3. pc'[<<t, "call">>] = l /\ \A c \in Client : c # <<t, "call">> => pc'[c] = pc[c]
  BY <1>1, <1>2 DEF ChannelInv, ProxyTypes
<1>4. /\ \A u \in Thread : u # t => pc'[<<u, "call">>] = pc[<<u, "call">>]
      /\ \A u \in Thread : pc'[<<u, "ping">>] = pc[<<u, "ping">>]
  BY <1>3, ClientNames
<1>5. mSocketfd' \in {mSocketfd, t} /\ (mSocketfd' # t => l = "idle")
  BY <1>1, <1>2, <1>3 DEF Connect, Goto, ChannelInv, ProxyTypes
<1>6. ProxyTypes'
  BY <1>0, <1>1, <1>2, <1>5 DEF ChannelInv, ProxyTypes
<1>7. \A c \in Client : pc'[c] \in Waiting \/ pc[c] \in Waiting => pc'[c] = pc[c]
  BY <1>0, <1>3 DEF Waiting
<1>8. HoldsLock'
  BY <1>0, <1>3, <1>7, ClientNames DEF ChannelInv, HoldsLock
<1>9. Empty(t) /\ \A x : Empty(x)' <=> Empty(x)
  BY <1>0 DEF ChannelInv, ConnectState, Empty
<1>10. ConnectState'
  <2>2. mSocketfd' = None =>
          \A u \in Thread : /\ pc'[<<u, "call">>] \in {"idle", "connect"}
                            /\ pc'[<<u, "ping">>] = "none" /\ Empty(u)'
    BY <1>3, <1>4, <1>5, <1>9, RpcAssumption DEF ChannelInv, ConnectState
  <2>3. \A u \in Thread : pc'[<<u, "call">>] = "connect" => mSocketfd' # u /\ Empty(u)'
    BY <1>3, <1>4, <1>5, <1>9 DEF ChannelInv, ConnectState
  <2>4. \A u \in Thread, c \in Client :
          pc'[<<u, "call">>] = "connect" /\ pc'[c] \in Waiting => sentOn'[c] # u
    BY <1>0, <1>3, <1>4, <1>7 DEF ChannelInv, ConnectState
  <2>5. \A u \in Thread : pc'[<<u, "call">>] \in {"connect", "connected", "startPing"} =>
          pc'[<<u, "ping">>] = "none"
    BY <1>0, <1>3, <1>4 DEF ChannelInv, ConnectState
  <2> QED
    BY <2>2, <2>3, <2>4, <2>5 DEF ConnectState
<1>11. WireState'
  <2>1. CASE mSocketfd' = mSocketfd
    BY <1>0, <1>7, <2>1, WireUntouched DEF ChannelInv, Message
  <2>2. CASE mSocketfd' = t
    <3>1. Empty(t)'
      BY <1>9
    <3>2. \A x : Live(x)' /\ x # t => Live(x)
      BY <1>0, <1>7, <2>2 DEF Live, Waiting
    <3>3. \A x \in Thread : Alone(x) => Alone(x)'
      <4> SUFFICES ASSUME NEW x \in Thread, Alone(x), ~Empty(x) PROVE Alone(x)'
        BY <1>9 DEF Alone
      <4>1. PICK c \in Client : /\ mLock = c /\ pc[c] \in Waiting /\ sentOn[c] = x
                                /\ OneOut(x, Message(c))
        BY DEF Alone
      <4>2. OneOut(x, Message(c))'
        BY <1>0, <4>1 DEF OneOut, Message
      <4>3. mLock' = c /\ pc'[c] \in Waiting /\ sentOn'[c] = x
        BY <1>0, <1>7, <4>1
      <4> QED
        BY <4>2, <4>3 DEF Alone
    <3>4. \A x \in Thread \ late' : Live(x)' => Alone(x)'
      BY <1>0, <3>1, <3>2, <3>3 DEF ChannelInv, WireState, Alone
    <3>5. \A x \in Thread, c \in Client :
            Live(x)' /\ pc'[c] \in Waiting /\ sentOn'[c] # x => Empty(x)'
      BY <1>0, <1>7, <1>9, <3>1, <3>2 DEF ChannelInv, WireState
    <3>6. \A c \in Client : pc'[c] = "recv" =>
            recvOn'[c] \in Thread /\ (recvOn'[c] # mSocketfd' => sentOn'[c] # mSocketfd')
      BY <1>0, <1>7, <2>2 DEF ChannelInv, WireState, ConnectState, Waiting
    <3> QED
      BY <1>0, <3>4, <3>5, <3>6 DEF ChannelInv, WireState
  <2> QED
    BY <1>5, <2>1, <2>2
<1> QED
  BY <1>6, <1>8, <1>10, <1>11 DEF ChannelInv

\* A thread that has connected goes on, with or without a ping task.
LEMMA ConnectedKeeps ==
  ASSUME ChannelInv, NEW t \in Thread, TestPingTask(t) \/ StartPing(t)
  PROVE  ChannelInv'
<1>0. /\ pc[<<t, "call">>] \in {"connected", "startPing"} /\ pc[<<t, "ping">>] = "none"
      /\ UNCHANGED <<mSocketfd, mLock, calls, sentOn, recvOn, late, telling, serverUp, requests, work, replies>>
  BY DEF TestPingTask, StartPing, deathVars, serverVars, ChannelInv, ConnectState
<1>1. <<t, "call">> \in Client /\ <<t, "ping">> \in Client /\ <<t, "call">> # <<t, "ping">>
  BY ClientNames
<1>2. /\ pc'[<<t, "call">>] \in {"ready", "startPing"}
      /\ pc'[<<t, "ping">>] \in {"none", "ready"}
      /\ pc'[<<t, "call">>] = "startPing" => pc'[<<t, "ping">>] = "none"
      /\ \A c \in Client : c # <<t, "call">> /\ c # <<t, "ping">> => pc'[c] = pc[c]
      /\ pc' \in [Client -> {"none", "idle", "connect", "connected", "startPing", "ready",
                             "sent", "recv", "died", "telling", "over"}]
  <2>1. CASE TestPingTask(t)
    <3>1. PICK l \in {"ready", "startPing"} : pc' = [pc EXCEPT ![<<t, "call">>] = l]
      BY <2>1 DEF TestPingTask, Goto
    <3> QED
      BY <1>0, <1>1, <3>1 DEF ChannelInv, ProxyTypes
  <2>2. CASE StartPing(t)
    <3>1. CASE pc' = [pc EXCEPT ![<<t, "call">>] = "ready", ![<<t, "ping">>] = "ready"]
      BY <1>0, <1>1, <3>1 DEF ChannelInv, ProxyTypes
    <3>2. CASE Goto(<<t, "call">>, "ready")
      BY <1>0, <1>1, <3>2 DEF Goto, ChannelInv, ProxyTypes
    <3> QED
      BY <2>2, <3>1, <3>2 DEF StartPing
  <2> QED
    BY <2>1, <2>2
<1>3. \A u \in Thread : u # t => /\ pc'[<<u, "call">>] = pc[<<u, "call">>]
                                 /\ pc'[<<u, "ping">>] = pc[<<u, "ping">>]
  BY <1>2, ClientNames
<1>4. ProxyTypes'
  BY <1>0, <1>2 DEF ChannelInv, ProxyTypes
<1>5. \A c \in Client : pc'[c] \in Waiting \/ pc[c] \in Waiting => pc'[c] = pc[c]
  BY <1>0, <1>2 DEF Waiting
<1>6. HoldsLock'
  <2>1. \A c \in Caller : pc'[c] \in {"died", "telling"} => pc[c] = pc'[c]
    BY <1>2, ClientNames
  <2> QED
    BY <1>0, <1>5, <2>1 DEF ChannelInv, HoldsLock
<1>7. ConnectState'
  <2>1. mSocketfd # None
    BY <1>0 DEF ChannelInv, ConnectState
  <2>2. \A u \in Thread : pc'[<<u, "call">>] = "connect" => pc[<<u, "call">>] = "connect"
    BY <1>2, <1>3
  <2>3. \A x : Empty(x)' <=> Empty(x)
    BY <1>0 DEF Empty
  <2>4. \A u \in Thread : pc'[<<u, "call">>] \in {"connect", "connected", "startPing"} =>
          pc'[<<u, "ping">>] = "none"
    BY <1>2, <1>3 DEF ChannelInv, ConnectState
  <2> QED
    BY <1>0, <1>5, <2>1, <2>2, <2>3, <2>4 DEF ChannelInv, ConnectState
<1>8. WireState'
  BY <1>0, <1>5, WireUntouched DEF ChannelInv, Message
<1> QED
  BY <1>4, <1>6, <1>7, <1>8 DEF ChannelInv

\* A client beyond its connecting moves: there is a connection, and the threads that
\* still connect are not concerned.
LEMMA ClientMoves ==
  ASSUME ChannelInv, NEW c \in Client, pc[c] \in {"ready", "sent", "recv", "died", "telling"},
         NEW l \in {"idle", "ready", "sent", "recv", "died", "telling", "over"}, Goto(c, l),
         mSocketfd' = mSocketfd, DOMAIN calls' = Thread, DOMAIN sentOn' = Client,
         DOMAIN recvOn' = Client, DOMAIN telling' = Client, DOMAIN requests' = Thread,
         DOMAIN work' = Thread, DOMAIN replies' = Thread,
         \A u \in Thread : u # mSocketfd /\ Empty(u) => Empty(u)',
         \A d \in Client : pc'[d] \in Waiting =>
           sentOn'[d] = mSocketfd \/ (pc[d] \in Waiting /\ sentOn'[d] = sentOn[d])
  PROVE  /\ ProxyTypes' /\ ConnectState' /\ mSocketfd \in Thread /\ mSocketfd # None
         /\ pc'[c] = l /\ \A d \in Client : d # c => pc'[d] = pc[d]
<1>1. pc'[c] = l /\ \A d \in Client : d # c => pc'[d] = pc[d]
  BY DEF Goto, ChannelInv, ProxyTypes
<1>2. mSocketfd \in Thread /\ mSocketfd # None
  <2>1. mSocketfd # None
    <3> SUFFICES ASSUME mSocketfd = None PROVE FALSE
      OBVIOUS
    <3>1. \A t \in Thread : pc[<<t, "call">>] \in {"idle", "connect"} /\ pc[<<t, "ping">>] = "none"
      BY DEF ChannelInv, ConnectState
    <3>2. \E t \in Thread : c = <<t, "call">> \/ c = <<t, "ping">>
      BY ClientNames
    <3> QED
      BY <3>1, <3>2
  <2> QED
    BY <2>1 DEF ChannelInv, ProxyTypes
<1>3. ProxyTypes'
  BY DEF Goto, ChannelInv, ProxyTypes
<1>4. \A u \in Thread : pc'[<<u, "call">>] \in {"connect", "connected", "startPing"} =>
        pc'[<<u, "call">>] = pc[<<u, "call">>]
  BY <1>1, ClientNames
<1>5. \A u \in Thread : pc[<<u, "ping">>] = "none" => pc'[<<u, "ping">>] = "none"
  BY <1>1, ClientNames
<1>6. \A u \in Thread : pc'[<<u, "call">>] = "connect" => mSocketfd' # u /\ Empty(u)'
  BY <1>4 DEF ChannelInv, ConnectState
<1>7. \A u \in Thread, d \in Client :
        pc'[<<u, "call">>] = "connect" /\ pc'[d] \in Waiting => sentOn'[d] # u
  BY <1>4 DEF ChannelInv, ConnectState
<1>8. \A u \in Thread : pc'[<<u, "call">>] \in {"connect", "connected", "startPing"} =>
        pc'[<<u, "ping">>] = "none"
  BY <1>4, <1>5 DEF ChannelInv, ConnectState
<1>9. ConnectState'
  BY <1>2, <1>6, <1>7, <1>8 DEF ConnectState
<1> QED
  BY <1>1, <1>2, <1>3, <1>9

\* Under a free lock nothing is on the proxy's connection, unless a request was given up
\* on it: the request sent is alone.
LEMMA SendKeeps ==
  ASSUME ChannelInv, NEW c \in Client, Send(c)
  PROVE  ChannelInv'
<1>0. /\ pc[c] = "ready" /\ mLock = None /\ mLock' = c /\ Goto(c, "sent")
      /\ sentOn' = [sentOn EXCEPT ![c] = mSocketfd]
      /\ requests' = IF serverUp THEN [requests EXCEPT ![mSocketfd] = Append(@, Message(c))]
                     ELSE requests
      /\ UNCHANGED <<mSocketfd, calls, recvOn, late, telling, serverUp, work, replies>>
  BY DEF Send, deathVars
<1>1. \A u \in Thread : u # mSocketfd /\ Empty(u) => Empty(u)'
  BY <1>0 DEF Empty, ChannelInv, ProxyTypes
<1>2. DOMAIN sentOn' = Client /\ DOMAIN requests' = Thread
  BY <1>0 DEF ChannelInv, ProxyTypes
<1>3. sentOn'[c] = mSocketfd /\ \A d \in Client : d # c => sentOn'[d] = sentOn[d]
  BY <1>0 DEF ChannelInv, ProxyTypes
<1>4. \A d \in Client : d # c => pc'[d] = pc[d]
  BY <1>0 DEF Goto, ChannelInv, ProxyTypes
<1>5. /\ ProxyTypes' /\ ConnectState' /\ mSocketfd \in Thread /\ pc'[c] = "sent"
  BY <1>0, <1>1, <1>2, <1>3, <1>4, ClientMoves DEF ChannelInv, ProxyTypes
<1>6. \A d \in Client : pc[d] \notin Waiting /\ (d \in Caller => pc[d] \notin {"died", "telling"})
  BY <1>0, ClientNames DEF ChannelInv, HoldsLock
<1>7. HoldsLock'
  BY <1>0, <1>4, <1>5, <1>6, ClientNames DEF HoldsLock
<1>8. WireState'
  <2>1. ASSUME mSocketfd \in Thread \ late PROVE Alone(mSocketfd)'
    <3>1. Live(mSocketfd) /\ Empty(mSocketfd)
      BY <1>6, <2>1 DEF ChannelInv, WireState, Live, Alone
    <3>2. Message(c)' = Message(c)
      BY <1>0 DEF Message
    <3>3. requests'[mSocketfd] \in {<<>>, <<Message(c)>>}
      BY <1>0, <1>5, <3>1 DEF Empty, ChannelInv, ProxyTypes
    <3>4. Empty(mSocketfd)' \/ OneOut(mSocketfd, Message(c))'
      BY <1>0, <3>1, <3>2, <3>3 DEF Empty, OneOut
    <3> QED
      BY <1>0, <1>3, <1>5, <3>4 DEF Alone, Waiting
  <2>2. \A x : Live(x)' => x = mSocketfd
    BY <1>0, <1>4, <1>5, <1>6 DEF Live, Waiting
  <2>3. \A x \in Thread \ late' : Live(x)' => Alone(x)'
    <3> SUFFICES ASSUME NEW x \in Thread \ late, x = mSocketfd PROVE Alone(x)'
      BY <1>0, <2>2
    <3>1. Alone(mSocketfd)'
      BY <2>1
    <3> QED
      BY <1>0, <3>1 DEF Alone, Empty, OneOut
  <2>4. \A d \in Client : pc'[d] \in Waiting => d = c
    BY <1>4, <1>6
  <2>5. \A x \in Thread, d \in Client :
          Live(x)' /\ pc'[d] \in Waiting /\ sentOn'[d] # x => Empty(x)'
    BY <1>3, <2>2, <2>4
  <2>6. \A d \in Client : pc'[d] # "recv"
    BY <1>4, <1>5, <1>6 DEF Waiting
  <2>7. ~serverUp' => \A x \in Thread : requests'[x] = <<>> /\ work'[x] = {}
    BY <1>0 DEF ChannelInv, WireState
  <2> QED
    BY <2>3, <2>5, <2>6, <2>7 DEF WireState
<1> QED
  BY <1>5, <1>7, <1>8 DEF ChannelInv

\* recv is called on the proxy's connection, which was in use already.
LEMMA CallRecvKeeps ==
  ASSUME ChannelInv, NEW c \in Client, CallRecv(c)
  PROVE  ChannelInv'
<1>0. /\ pc[c] = "sent" /\ Goto(c, "recv") /\ recvOn' = [recvOn EXCEPT ![c] = mSocketfd]
      /\ UNCHANGED <<mSocketfd, mLock, calls, sentOn, late, telling, serverUp, requests, work, replies>>
  BY DEF CallRecv, deathVars, serverVars
<1>1. \A u : Empty(u)' <=> Empty(u)
  BY <1>0 DEF Empty
<1>2. DOMAIN recvOn' = Client /\ recvOn'[c] = mSocketfd
  BY <1>0 DEF ChannelInv, ProxyTypes
<1>3. pc'[c] = "recv" /\ \A d \in Client : d # c => pc'[d] = pc[d]
  BY <1>0 DEF Goto, ChannelInv, ProxyTypes
<1>4. \A d \in Client : pc'[d] \in Waiting <=> pc[d] \in Waiting
  BY <1>0, <1>3 DEF Waiting
<1>5. ProxyTypes' /\ ConnectState' /\ mSocketfd \in Thread
  <2>1. /\ mSocketfd' = mSocketfd /\ DOMAIN calls' = Thread /\ DOMAIN sentOn' = Client
        /\ DOMAIN telling' = Client /\ DOMAIN requests' = Thread /\ DOMAIN work' = Thread
        /\ DOMAIN replies' = Thread
    BY <1>0 DEF ChannelInv, ProxyTypes
  <2>2. \A d \in Client : pc'[d] \in Waiting => pc[d] \in Waiting /\ sentOn'[d] = sentOn[d]
    BY <1>0, <1>4
  <2> QED
    BY <1>0, <1>1, <1>2, <2>1, <2>2, ClientMoves
<1>6. HoldsLock'
  BY <1>0, <1>3, <1>4, ClientNames DEF ChannelInv, HoldsLock
<1>7. \A d \in Client : pc'[d] = "recv" => d = c
  BY <1>0, <1>3 DEF ChannelInv, HoldsLock, Waiting
<1>8. \A x : Live(x)' => x = mSocketfd /\ Live(x)
  BY <1>0, <1>2, <1>7 DEF Live
<1>9. \A x : Alone(x) => Alone(x)'
  <2> SUFFICES ASSUME NEW x, Alone(x), ~Empty(x) PROVE Alone(x)'
    BY <1>1 DEF Alone
  <2>1. PICK d \in Client : /\ mLock = d /\ pc[d] \in Waiting /\ sentOn[d] = x
                            /\ OneOut(x, Message(d))
    BY DEF Alone
  <2>2. OneOut(x, Message(d))'
    BY <1>0, <2>1 DEF OneOut, Message
  <2> QED
    BY <1>0, <1>4, <2>1, <2>2 DEF Alone
<1>10. WireState'
  <2>1. \A x \in Thread \ late' : Live(x)' => Alone(x)'
    BY <1>0, <1>8, <1>9 DEF ChannelInv, WireState
  <2>2. \A x \in Thread, d \in Client :
          Live(x)' /\ pc'[d] \in Waiting /\ sentOn'[d] # x => Empty(x)'
    BY <1>0, <1>1, <1>4, <1>8 DEF ChannelInv, WireState
  <2>3. \A d \in Client : pc'[d] = "recv" => recvOn'[d] = mSocketfd'
    BY <1>0, <1>2, <1>7
  <2> QED
    BY <1>0, <1>5, <2>1, <2>2, <2>3 DEF ChannelInv, WireState
<1> QED
  BY <1>5, <1>6, <1>10 DEF ChannelInv

\* A send that fails leaves everything to the others.
LEMMA SendFailsKeeps ==
  ASSUME ChannelInv, NEW t \in Thread, SendFails(t)
  PROVE  ChannelInv'
<1>0. /\ pc[<<t, "call">>] = "ready" /\ Goto(<<t, "call">>, "idle") /\ <<t, "call">> \in Client
      /\ UNCHANGED <<mSocketfd, mLock, calls, sentOn, recvOn, late, telling, serverUp, requests, work, replies>>
  BY ClientNames DEF SendFails, deathVars, serverVars
<1>1. \A u : Empty(u) => Empty(u)'
  BY <1>0 DEF Empty
<1>2. pc'[<<t, "call">>] = "idle" /\ \A d \in Client : d # <<t, "call">> => pc'[d] = pc[d]
  BY <1>0 DEF Goto, ChannelInv, ProxyTypes
<1>3. \A d \in Client : pc'[d] \in Waiting \/ pc[d] \in Waiting => pc'[d] = pc[d]
  BY <1>0, <1>2 DEF Waiting
<1>4. ProxyTypes' /\ ConnectState'
  BY <1>0, <1>1, <1>3, ClientMoves DEF ChannelInv, ProxyTypes
<1>5. HoldsLock'
  BY <1>0, <1>2, <1>3, ClientNames DEF ChannelInv, HoldsLock
<1>6. WireState'
  BY <1>0, <1>3, WireUntouched DEF ChannelInv, Message
<1> QED
  BY <1>4, <1>5, <1>6 DEF ChannelInv

\* What a receive finds on its connection is its own: it sent there, and its reply is alone
\* unless a request was given up.
LEMMA ReceiveFinds ==
  ASSUME ChannelInv, NEW c \in Client, Receive(c)
  PROVE  /\ recvOn[c] \in Thread /\ sentOn[c] = recvOn[c]
         /\ recvOn[c] \notin late => /\ requests[recvOn[c]] = <<>> /\ work[recvOn[c]] = {}
                                     /\ replies[recvOn[c]] = <<Message(c)>>
<1>0. pc[c] = "recv" /\ pc[c] \in Waiting /\ mLock = c /\ replies[recvOn[c]] # <<>>
  BY DEF Receive, ChannelInv, HoldsLock, Waiting
<1>1. recvOn[c] \in Thread /\ Live(recvOn[c])
  BY <1>0 DEF ChannelInv, WireState, Live
<1>2. sentOn[c] = recvOn[c]
  BY <1>0, <1>1 DEF ChannelInv, WireState, Empty
<1>3. ASSUME recvOn[c] \notin late PROVE OneOut(recvOn[c], Message(c))
  BY <1>0, <1>1, <1>3 DEF ChannelInv, WireState, Alone, Empty
<1> QED
  BY <1>0, <1>1, <1>2, <1>3 DEF OneOut

\* The answer is taken, and leaves the connection empty.
LEMMA ReceiveKeeps ==
  ASSUME ChannelInv, NEW c \in Client, Receive(c)
  PROVE  ChannelInv'
<1>0. /\ pc[c] = "recv" /\ replies[recvOn[c]] # <<>> /\ mLock' = None
      /\ replies' = [replies EXCEPT ![recvOn[c]] = Tail(@)]
      /\ sentOn' = [sentOn EXCEPT ![c] = None]
      /\ recvOn' = [recvOn EXCEPT ![c] = None]
      /\ Goto(c, IF c \in Caller THEN "idle" ELSE "ready")
      /\ UNCHANGED <<mSocketfd, calls, late, telling, serverUp, requests, work>>
  BY DEF Receive, deathVars
<1>1. PICK l \in {"idle", "ready"} : Goto(c, l)
  BY <1>0
<1>2. \A u \in Thread : Empty(u) => Empty(u)'
  BY <1>0 DEF Empty, ChannelInv, ProxyTypes
<1>3. pc'[c] = l /\ \A d \in Client : d # c => pc'[d] = pc[d]
  BY <1>1 DEF Goto, ChannelInv, ProxyTypes
<1>4. /\ mLock = c
      /\ \A d \in Client : pc[d] \in Waiting => d = c
      /\ \A d \in Caller : pc[d] \in {"died", "telling"} => d = c
  BY <1>0, ClientNames DEF ChannelInv, HoldsLock, Waiting
<1>5. \A d \in Client : pc'[d] \notin Waiting
  BY <1>3, <1>4 DEF Waiting
<1>6. ProxyTypes' /\ ConnectState' /\ mSocketfd \in Thread
  <2>1. DOMAIN sentOn' = Client /\ DOMAIN recvOn' = Client /\ DOMAIN replies' = Thread
    BY <1>0 DEF ChannelInv, ProxyTypes
  <2> QED
    BY <1>0, <1>1, <1>2, <1>5, <2>1, ClientMoves DEF ChannelInv, ProxyTypes
<1>7. HoldsLock'
  BY <1>0, <1>3, <1>4, <1>5, ClientNames DEF HoldsLock
<1>8. ASSUME mSocketfd \notin late PROVE Empty(mSocketfd)'
  <2>1. CASE recvOn[c] = mSocketfd
    <3>1. /\ requests[mSocketfd] = <<>> /\ work[mSocketfd] = {}
          /\ replies[mSocketfd] = <<Message(c)>>
      BY <1>8, <2>1, ReceiveFinds
    <3>2. replies'[mSocketfd] = <<>>
      BY <1>0, <1>6, <2>1, <3>1 DEF ChannelInv, ProxyTypes
    <3> QED
      BY <1>0, <3>1, <3>2 DEF Empty
  <2>2. CASE recvOn[c] # mSocketfd
    <3>1. sentOn[c] # mSocketfd /\ Live(mSocketfd)
      BY <2>2, ReceiveFinds DEF Live
    <3>2. Empty(mSocketfd)
      BY <1>0, <1>6, <3>1 DEF ChannelInv, WireState, Waiting
    <3>3. replies'[mSocketfd] = replies[mSocketfd]
      BY <1>0, <2>2
    <3> QED
      BY <1>0, <3>2, <3>3 DEF Empty
  <2> QED
    BY <2>1, <2>2
<1>9. WireState'
  <2>1. \A x : Live(x)' => x = mSocketfd
    BY <1>0, <1>5 DEF Live, Waiting
  <2>2. \A x \in Thread \ late' : Live(x)' => Alone(x)'
    <3> SUFFICES ASSUME NEW x \in Thread \ late, x = mSocketfd PROVE Empty(x)'
      BY <1>0, <2>1 DEF Alone
    <3> QED
      BY <1>0, <1>8 DEF Empty
  <2> QED
    BY <1>0, <1>5, <2>2 DEF ChannelInv, WireState, Waiting
<1> QED
  BY <1>6, <1>7, <1>9 DEF ChannelInv

\* A receive that is given up: the connection sent on is late, or the server is down and
\* nothing is left to come.
LEMMA ReceiveFailsKeeps ==
  ASSUME ChannelInv, NEW c \in Client, ReceiveFails(c)
  PROVE  ChannelInv'
<1>0. /\ pc[c] = "recv" /\ replies[recvOn[c]] = <<>> /\ Goto(c, "died")
      /\ mLock' = IF c \in Pinger THEN None ELSE mLock
      /\ sentOn' = [sentOn EXCEPT ![c] = None]
      /\ recvOn' = [recvOn EXCEPT ![c] = None]
      /\ late' = IF serverUp THEN late \cup {sentOn[c]} ELSE late
      /\ UNCHANGED <<mSocketfd, calls, telling, serverUp, requests, work, replies>>
  BY DEF ReceiveFails, deathVars, serverVars
<1>1. \A u : Empty(u) <=> Empty(u)'
  BY <1>0 DEF Empty
<1>2. DOMAIN sentOn' = Client /\ DOMAIN recvOn' = Client
  BY <1>0 DEF ChannelInv, ProxyTypes
<1>3. pc'[c] = "died" /\ \A d \in Client : d # c => pc'[d] = pc[d]
  BY <1>0 DEF Goto, ChannelInv, ProxyTypes
<1>4. /\ mLock = c
      /\ \A d \in Client : pc[d] \in Waiting => d = c
      /\ \A d \in Caller : pc[d] \in {"died", "telling"} => d = c
  BY <1>0, ClientNames DEF ChannelInv, HoldsLock, Waiting
<1>5. \A d \in Client : pc'[d] \notin Waiting
  BY <1>3, <1>4 DEF Waiting
<1>6. ProxyTypes' /\ ConnectState' /\ mSocketfd \in Thread
  BY <1>0, <1>1, <1>2, <1>5, ClientMoves DEF ChannelInv, ProxyTypes
<1>7. HoldsLock'
  BY <1>0, <1>3, <1>4, <1>5, ClientNames DEF HoldsLock
<1>8. ASSUME mSocketfd \notin late' PROVE Empty(mSocketfd)
  <2>1. CASE sentOn[c] = mSocketfd
    <3>1. ~serverUp /\ recvOn[c] = mSocketfd
      BY <1>0, <1>8, <2>1 DEF ChannelInv, WireState
    <3> QED
      BY <1>0, <1>6, <3>1 DEF ChannelInv, WireState, Empty
  <2>2. CASE sentOn[c] # mSocketfd
    <3>1. Live(mSocketfd) /\ pc[c] \in Waiting
      BY <1>0 DEF Live, Waiting
    <3> QED
      BY <1>6, <2>2, <3>1 DEF ChannelInv, WireState
  <2> QED
    BY <2>1, <2>2
<1>9. WireState'
  <2>1. \A x : Live(x)' => x = mSocketfd
    BY <1>0, <1>5 DEF Live, Waiting
  <2>2. \A x \in Thread \ late' : Live(x)' => Alone(x)'
    <3> SUFFICES ASSUME NEW x \in Thread \ late', x = mSocketfd PROVE Empty(x)'
      BY <2>1 DEF Alone
    <3> QED
      BY <1>1, <1>8
  <2>3. ~serverUp' => \A x \in Thread : requests'[x] = <<>> /\ work'[x] = {}
    BY <1>0 DEF ChannelInv, WireState
  <2> QED
    BY <1>5, <2>2, <2>3 DEF WireState, Waiting
<1> QED
  BY <1>6, <1>7, <1>9 DEF ChannelInv

\* StubDied and the end of NotifyAll.
LEMMA DeathKeepsChannel ==
  ASSUME ChannelInv, NEW c \in Client, StubDied(c) \/ Told(c)
  PROVE  ChannelInv'
<1>0. UNCHANGED <<mSocketfd, calls, sentOn, recvOn, late, telling, serverUp, requests, work, replies>>
  BY DEF StubDied, Told, deathVars, serverVars
<1>1. CASE StubDied(c) /\ ~mOrgue
  BY <1>0, <1>1, OthersKeepChannel
     DEF StubDied, proxyVars, serverVars, ChannelInv, ProxyTypes
<1>2. CASE ~(StubDied(c) /\ ~mOrgue)
  <2>1. PICK l \in {"telling", "idle", "over"} : Goto(c, l)
    BY <1>2 DEF StubDied, Told
  <2>2. pc[c] \in {"died", "telling"}
    BY DEF StubDied, Told
  <2>3. \A u : Empty(u) <=> Empty(u)'
    BY <1>0 DEF Empty
  <2>4. pc'[c] = l /\ \A d \in Client : d # c => pc'[d] = pc[d]
    BY <2>1 DEF Goto, ChannelInv, ProxyTypes
  <2>5. \A d \in Client : pc'[d] \in Waiting \/ pc[d] \in Waiting => pc'[d] = pc[d]
    BY <2>2, <2>4 DEF Waiting
  <2>6. ProxyTypes' /\ ConnectState'
    BY <1>0, <2>1, <2>2, <2>3, <2>5, ClientMoves DEF ChannelInv, ProxyTypes
  <2>7. c \in Caller => mLock = c
    BY <2>2 DEF ChannelInv, HoldsLock
  <2>8. /\ mLock' \in {mLock, None}
        /\ mLock' # mLock => mLock = c /\ l = "idle"
        /\ c \in Caller /\ l # "idle" => mLock' = mLock
    <3>1. CASE StubDied(c)
      BY <3>1 DEF StubDied
    <3>2. CASE Told(c)
      BY <2>1, <2>4, <2>7, <3>2 DEF Told, Goto, ChannelInv, ProxyTypes
    <3> QED
      BY <3>1, <3>2
  <2>9. \A d \in Client : pc[d] \in Waiting => mLock' = mLock
    BY <2>2, <2>8 DEF ChannelInv, HoldsLock, Waiting
  <2>10. HoldsLock'
    BY <2>2, <2>4, <2>5, <2>7, <2>8, <2>9, ClientNames DEF ChannelInv, HoldsLock
  <2>11. WireState'
    BY <1>0, <2>5, <2>9, WireUntouched DEF ChannelInv, Message
  <2> QED
    BY <2>6, <2>10, <2>11 DEF ChannelInv
<1> QED
  BY <1>1, <1>2

-----------------------------------------------------------------------------
\* The server moves a message along its connection, or drops what is there.
LEMMA ServerMoves ==
  ASSUME ChannelInv, UNCHANGED <<proxyVars, deathVars>>,
         DOMAIN requests' = Thread, DOMAIN work' = Thread, DOMAIN replies' = Thread,
         \A x \in Thread : Empty(x) => Empty(x)',
         \A x \in Thread : \A m : OneOut(x, m) => OneOut(x, m)' \/ Empty(x)',
         ~serverUp' => \A x \in Thread : requests'[x] = <<>> /\ work'[x] = {}
  PROVE  ChannelInv'
<1>0. UNCHANGED <<mSocketfd, mLock, pc, calls, sentOn, recvOn, late, telling>>
  BY DEF proxyVars, deathVars
<1>1. ProxyTypes' /\ HoldsLock'
  BY <1>0 DEF ChannelInv, ProxyTypes, HoldsLock
<1>2. ConnectState'
  BY <1>0 DEF ChannelInv, ConnectState
<1>3. \A x : Live(x)' <=> Live(x)
  BY <1>0 DEF Live
<1>4. ASSUME NEW x \in Thread, Alone(x) PROVE Alone(x)'
  <2>1. CASE Empty(x)
    BY <2>1 DEF Alone
  <2>2. CASE ~Empty(x)
    <3>1. PICK c \in Client : /\ mLock = c /\ pc[c] \in Waiting /\ sentOn[c] = x
                              /\ OneOut(x, Message(c))
      BY <1>4, <2>2 DEF Alone
    <3>2. PICK m : m = Message(c)
      OBVIOUS
    <3>3. OneOut(x, m)' \/ Empty(x)'
      BY <3>1, <3>2
    <3>4. Message(c)' = m
      BY <1>0, <3>2 DEF Message
    <3>5. OneOut(x, m)' => OneOut(x, Message(c))'
      BY <3>4 DEF OneOut
    <3> QED
      BY <1>0, <3>1, <3>3, <3>5 DEF Alone
  <2> QED
    BY <2>1, <2>2
<1>5. WireState'
  <2>1. \A x \in Thread \ late' : Live(x)' => Alone(x)'
    BY <1>0, <1>3, <1>4 DEF ChannelInv, WireState
  <2>2. \A x \in Thread, c \in Client :
          Live(x)' /\ pc'[c] \in Waiting /\ sentOn'[c] # x => Empty(x)'
    BY <1>0, <1>3 DEF ChannelInv, WireState
  <2>3. \A c \in Client : pc'[c] = "recv" =>
          recvOn'[c] \in Thread /\ (recvOn'[c] # mSocketfd' => sentOn'[c] # mSocketfd')
    BY <1>0 DEF ChannelInv, WireState
  <2> QED
    BY <2>1, <2>2, <2>3 DEF WireState
<1> QED
  BY <1>1, <1>2, <1>5 DEF ChannelInv

\* AcceptCallback, TransactRunnable::Run, the death of the process.
LEMMA ServerKeeps ==
  ASSUME ChannelInv, Server
  PROVE  ChannelInv'
<1>1. ASSUME NEW conn \in Thread, Accept(conn) PROVE ChannelInv'
  <2>1. /\ requests[conn] # <<>> /\ serverUp /\ serverUp' = serverUp /\ replies' = replies
        /\ work' = [work EXCEPT ![conn] = @ \cup {Head(requests[conn])}]
    BY <1>1 DEF Accept
  <2>2. PICK n \in 1 .. Len(requests[conn]) :
          requests' = [requests EXCEPT ![conn] = SubSeq(@, n + 1, Len(@))]
    BY <1>1 DEF Accept
  <2>3. /\ \A x \in Thread : x # conn => requests'[x] = requests[x] /\ work'[x] = work[x]
        /\ requests'[conn] = SubSeq(requests[conn], n + 1, Len(requests[conn]))
        /\ work'[conn] = work[conn] \cup {Head(requests[conn])}
        /\ DOMAIN requests' = Thread /\ DOMAIN work' = Thread /\ DOMAIN replies' = Thread
    BY <2>1, <2>2 DEF ChannelInv, ProxyTypes
  <2>4. \A x \in Thread : Empty(x) => Empty(x)'
    BY <2>1, <2>3 DEF Empty
  <2>5. ASSUME NEW m, OneOut(conn, m) PROVE OneOut(conn, m)'
    <3>1. requests[conn] = <<m>> /\ work[conn] = {} /\ replies[conn] = <<>>
      BY <2>1, <2>5 DEF OneOut
    <3>2. n = 1 /\ requests'[conn] = <<>>
      BY <2>2, <2>3, <3>1
    <3>3. work'[conn] = {m}
      BY <2>3, <3>1
    <3> QED
      BY <2>1, <3>1, <3>2, <3>3 DEF OneOut
  <2>6. \A x \in Thread : \A m : OneOut(x, m) => OneOut(x, m)'
    <3> SUFFICES ASSUME NEW x \in Thread, NEW m, OneOut(x, m) PROVE OneOut(x, m)'
      OBVIOUS
    <3>1. CASE x = conn
      BY <2>5, <3>1
    <3>2. CASE x # conn
      BY <2>1, <2>3, <3>2 DEF OneOut
    <3> QED
      BY <3>1, <3>2
  <2>7. UNCHANGED <<proxyVars, deathVars>>
    BY <1>1 DEF Accept
  <2> QED
    BY <2>1, <2>3, <2>4, <2>6, <2>7, ServerMoves
<1>2. ASSUME NEW conn \in Thread, Transact(conn) PROVE ChannelInv'
  <2>1. PICK w \in work[conn] : /\ work' = [work EXCEPT ![conn] = @ \ {w}]
                                /\ replies' = [replies EXCEPT ![conn] = Append(@, w)]
    BY <1>2 DEF Transact
  <2>2. serverUp /\ serverUp' = serverUp /\ requests' = requests
    BY <1>2 DEF Transact
  <2>3. /\ \A x \in Thread : x # conn => replies'[x] = replies[x] /\ work'[x] = work[x]
        /\ work'[conn] = work[conn] \ {w} /\ replies'[conn] = Append(replies[conn], w)
        /\ DOMAIN requests' = Thread /\ DOMAIN work' = Thread /\ DOMAIN replies' = Thread
    BY <2>1, <2>2 DEF ChannelInv, ProxyTypes
  <2>4. \A x \in Thread : Empty(x) => Empty(x)'
    BY <2>1, <2>2, <2>3 DEF Empty
  <2>5. ASSUME NEW m, OneOut(conn, m) PROVE OneOut(conn, m)'
    <3>1. requests[conn] = <<>> /\ work[conn] = {m} /\ replies[conn] = <<>> /\ w = m
      BY <2>1, <2>5 DEF OneOut
    <3>2. work'[conn] = {} /\ replies'[conn] = <<m>>
      BY <2>3, <3>1
    <3> QED
      BY <2>2, <3>1, <3>2 DEF OneOut
  <2>6. \A x \in Thread : \A m : OneOut(x, m) => OneOut(x, m)'
    <3> SUFFICES ASSUME NEW x \in Thread, NEW m, OneOut(x, m) PROVE OneOut(x, m)'
      OBVIOUS
    <3>1. CASE x = conn
      BY <2>5, <3>1
    <3>2. CASE x # conn
      BY <2>2, <2>3, <3>2 DEF OneOut
    <3> QED
      BY <3>1, <3>2
  <2>7. UNCHANGED <<proxyVars, deathVars>>
    BY <1>2 DEF Transact
  <2> QED
    BY <2>2, <2>3, <2>4, <2>6, <2>7, ServerMoves
<1>3. CASE ServerDies
  <2>1. PICK reset \in SUBSET Thread :
          replies' = [conn \in Thread |-> IF conn \in reset THEN <<>> ELSE replies[conn]]
    BY <1>3 DEF ServerDies
  <2>2. /\ requests' = [conn \in Thread |-> <<>>] /\ work' = [conn \in Thread |-> {}]
        /\ UNCHANGED <<proxyVars, deathVars>>
    BY <1>3 DEF ServerDies
  <2>3. /\ \A x \in Thread : requests'[x] = <<>> /\ work'[x] = {}
        /\ \A x \in Thread : replies'[x] \in {<<>>, replies[x]}
    BY <2>1, <2>2
  <2>4. \A x \in Thread : Empty(x) => Empty(x)'
    BY <2>3 DEF Empty
  <2>5. \A x \in Thread : \A m : OneOut(x, m) => OneOut(x, m)' \/ Empty(x)'
    BY <2>3 DEF Empty, OneOut
  <2> QED
    BY <2>1, <2>2, <2>3, <2>4, <2>5, ServerMoves
<1> QED
  BY <1>1, <1>2, <1>3 DEF Server

\* ChannelInv is an invariant of every interleaving of callers, ping tasks, workers and
\* the death of the server.
THEOREM ChannelInvariant == Spec => []ChannelInv
<1>1. Init => ChannelInv
  <2> SUFFICES ASSUME Init PROVE ChannelInv
    OBVIOUS
  <2>1. \A c \in Client : pc[c] = (IF c \in Caller THEN "idle" ELSE "none")
    BY DEF Init
  <2>2. \A t \in Thread : pc[<<t, "call">>] = "idle" /\ pc[<<t, "ping">>] = "none"
    BY <2>1, ClientNames
  <2>3. \A x \in Thread : Empty(x)
    BY DEF Init, Empty
  <2>4. ProxyTypes
    BY DEF Init, ProxyTypes
  <2>5. ConnectState /\ HoldsLock
    BY <2>1, <2>2, <2>3, ClientNames DEF ConnectState, HoldsLock, Waiting
  <2>6. WireState
    BY <2>1, <2>3 DEF Init, WireState, Alone, Empty, Waiting
  <2> QED
    BY <2>4, <2>5, <2>6 DEF ChannelInv
<1>2. ChannelInv /\ [Next]_vars => ChannelInv'
  <2> SUFFICES ASSUME ChannelInv, [Next]_vars PROVE ChannelInv'
    OBVIOUS
  <2>1. ASSUME NEW t \in Thread, Call(t) PROVE ChannelInv'
    BY <2>1, BeginCallKeeps, ConnectKeeps, ConnectedKeeps, SendFailsKeeps DEF Call
  <2>2. ASSUME NEW c \in Client, Exchange(c) PROVE ChannelInv'
    <3>1. CASE Send(c)
      BY <3>1, SendKeeps
    <3>2. CASE Receive(c)
      BY <3>2, ReceiveKeeps
    <3>3. CASE ReceiveFails(c)
      BY <3>3, ReceiveFailsKeeps
    <3>4. CASE StubDied(c) \/ Told(c)
      BY <3>4, DeathKeepsChannel
    <3>5. CASE Tell(c) \/ Erase(c)
      BY <3>5, OthersKeepChannel DEF Tell, Erase, ChannelInv, ProxyTypes
    <3>6. CASE CallRecv(c)
      BY <3>6, CallRecvKeeps
    <3> QED
      BY <2>2, <3>1, <3>2, <3>3, <3>4, <3>5, <3>6 DEF Exchange
  <2>3. CASE Application
    BY <2>3, OthersKeepChannel
       DEF Application, CreateOrgue, LinkToDeath, FindRecipient, RemoveRecipient, ChannelInv,
           ProxyTypes
  <2>4. CASE Server
    BY <2>4, ServerKeeps
  <2>5. CASE UNCHANGED vars
    BY <2>5, OthersKeepChannel DEF vars, deathVars, ChannelInv, ProxyTypes
  <2> QED
    BY <2>1, <2>2, <2>3, <2>4, <2>5 DEF Next
<1> QED
  BY <1>1, <1>2, PTL DEF Spec

\* A call takes the answer to its own request, unless one was given up on the same
\* connection before (ProxyEntry_RPC, PingRunnable::Run and mLock).
THEOREM OwnAnswers == Spec => AnswersMatch
<1>1. ChannelInv /\ [Next]_vars =>
        [\A c \in Caller :
           pc[c] = "recv" /\ pc'[c] = "idle" /\ sentOn[c] \notin late
             => Head(replies[recvOn[c]]) = Message(c)]_vars
  <2> SUFFICES ASSUME ChannelInv, Next, NEW c \in Caller,
                      pc[c] = "recv", pc'[c] = "idle", sentOn[c] \notin late
               PROVE  Head(replies[recvOn[c]]) = Message(c)
    BY Zenon
  <2>0. c \in Client /\ pc'[c] # pc[c]
    BY ClientNames
  <2>1. ASSUME NEW t \in Thread, Call(t) PROVE FALSE
    <3>1. PICK l : \/ Goto(<<t, "call">>, l) /\ pc[<<t, "call">>] # "recv"
                   \/ StartPing(t)
      BY <2>1 DEF Call, BeginCall, Connect, TestPingTask, SendFails
    <3>2. StartPing(t) => pc[<<t, "call">>] = "startPing" /\ pc[<<t, "ping">>] = "none"
      BY DEF StartPing, ChannelInv, ConnectState
    <3> QED
      BY <2>0, <3>1, <3>2 DEF Goto, StartPing, ChannelInv, ProxyTypes
  <2>2. ASSUME NEW d \in Client, Exchange(d) PROVE Receive(c)
    <3>1. pc' = pc \/ \E l : Goto(d, l)
      BY <2>2 DEF Exchange, Send, CallRecv, Receive, ReceiveFails, StubDied, Tell, Erase, Told,
                  proxyVars
    <3>2. d = c
      BY <2>0, <3>1 DEF Goto, ChannelInv, ProxyTypes
    <3> QED
      BY <2>0, <2>2, <3>2
         DEF Exchange, Send, CallRecv, ReceiveFails, StubDied, Tell, Erase, Told, proxyVars, Goto,
             ChannelInv, ProxyTypes
  <2>3. Application \/ Server => pc' = pc
    BY DEF Application, CreateOrgue, LinkToDeath, FindRecipient, RemoveRecipient, Server, Accept,
           Transact, ServerDies, proxyVars
  <2>4. Receive(c)
    BY <2>0, <2>1, <2>2, <2>3 DEF Next
  <2>5. replies[recvOn[c]] = <<Message(c)>>
    BY <2>0, <2>4, ReceiveFinds
  <2> QED
    BY <2>5
<1> QED
  BY <1>1, ChannelInvariant, PTL DEF Spec, AnswersMatch

-----------------------------------------------------------------------------
\* Add: a new entry behind distinct ones.
LEMMA AddEntry ==
  ASSUME NEW s \in Seq(Recipient), NEW r \in Recipient,
         \A m, n \in 1 .. Len(s) : s[m] = s[n] => m = n,
         \A n \in 1 .. Len(s) : s[n] # r
  PROVE  /\ Append(s, r) \in Seq(Recipient)
         /\ \A n \in 1 .. Len(Append(s, r)) :
              Append(s, r)[n] = r \/ \E m \in 1 .. Len(s) : Append(s, r)[n] = s[m]
         /\ \A m, n \in 1 .. Len(Append(s, r)) :
              Append(s, r)[m] = Append(s, r)[n] => m = n
  OBVIOUS

\* erase(iter): the other entries of a list of distinct ones stay, and no other.
LEMMA EraseEntry ==
  ASSUME NEW s \in Seq(Recipient), NEW k \in 1 .. Len(s),
         \A m, n \in 1 .. Len(s) : s[m] = s[n] => m = n
  PROVE  /\ RemoveAt(s, k) \in Seq(Recipient)
         /\ \A n \in 1 .. Len(RemoveAt(s, k)) :
              \E m \in 1 .. Len(s) : RemoveAt(s, k)[n] = s[m] /\ s[m] # s[k]
         /\ \A m, n \in 1 .. Len(RemoveAt(s, k)) :
              RemoveAt(s, k)[m] = RemoveAt(s, k)[n] => m = n
<1>1. /\ RemoveAt(s, k) \in Seq(Recipient)
      /\ Len(RemoveAt(s, k)) = Len(s) - 1
      /\ \A n \in 1 .. Len(s) - 1 : RemoveAt(s, k)[n] = s[IF n < k THEN n ELSE n + 1]
  <2>1. PICK a : a = SubSeq(s, 1, k - 1)
    OBVIOUS
  <2>2. a \in Seq(Recipient) /\ Len(a) = k - 1 /\ \A n \in 1 .. k - 1 : a[n] = s[n]
    BY <2>1
  <2>3. PICK b : b = SubSeq(s, k + 1, Len(s))
    OBVIOUS
  <2>4. /\ b \in Seq(Recipient) /\ Len(b) = Len(s) - k
        /\ \A n \in 1 .. Len(s) - k : b[n] = s[n + k]
    BY <2>3
  <2>5. RemoveAt(s, k) = a \o b
    BY <2>1, <2>3 DEF RemoveAt
  <2>6. RemoveAt(s, k) \in Seq(Recipient) /\ Len(RemoveAt(s, k)) = Len(s) - 1
    <3>1. a \o b \in Seq(Recipient) /\ Len(a \o b) = Len(a) + Len(b)
      BY ZenonT(30), <2>2, <2>4, ConcatProperties
    <3>2. Len(a) + Len(b) = Len(s) - 1
      BY <2>2, <2>4
    <3> QED
      BY <2>5, <3>1, <3>2
  <2>7. ASSUME NEW n \in 1 .. Len(s) - 1
        PROVE  RemoveAt(s, k)[n] = IF n < k THEN a[n] ELSE b[n - (k - 1)]
    <3>1. n \in 1 .. Len(a) + Len(b) /\ Len(a) = k - 1 /\ (n <= Len(a) <=> n < k)
      BY <2>2, <2>4
    <3>2. (a \o b)[n] = IF n <= Len(a) THEN a[n] ELSE b[n - Len(a)]
      BY <2>2, <2>4, <3>1, ConcatProperties
    <3> QED
      BY <2>5, <3>1, <3>2
  <2>8. ASSUME NEW n \in 1 .. Len(s) - 1
        PROVE  RemoveAt(s, k)[n] = s[IF n < k THEN n ELSE n + 1]
    <3>1. CASE n < k
      BY <2>2, <2>7, <3>1
    <3>2. CASE ~(n < k)
      <4>1. n - (k - 1) \in 1 .. Len(s) - k /\ (n - (k - 1)) + k = n + 1
        BY <3>2
      <4> QED
        BY <2>4, <2>7, <3>2, <4>1
    <3> QED
      BY <3>1, <3>2
  <2> QED
    BY <2>6, <2>8
<1>2. \A n \in 1 .. Len(s) - 1 :
        /\ (IF n < k THEN n ELSE n + 1) \in 1 .. Len(s)
        /\ (IF n < k THEN n ELSE n + 1) # k
  OBVIOUS
<1>3. \A n \in 1 .. Len(RemoveAt(s, k)) :
        \E m \in 1 .. Len(s) : RemoveAt(s, k)[n] = s[m] /\ s[m] # s[k]
  BY <1>1, <1>2
<1>4. ASSUME NEW m \in 1 .. Len(s) - 1, NEW n \in 1 .. Len(s) - 1,
             RemoveAt(s, k)[m] = RemoveAt(s, k)[n]
      PROVE  m = n
  <2>1. (IF m < k THEN m ELSE m + 1) = (IF n < k THEN n ELSE n + 1)
    BY <1>1, <1>2, <1>4
  <2> QED
    BY <2>1
<1> QED
  BY <1>1, <1>3, <1>4

\* Steps that leave the list alone and let nobody begin or cease to tell.
LEMMA ListUntouched ==
  ASSUME ListState,
         UNCHANGED <<mDeathRecipients, expects, telling>>,
         \A c \in Client : pc'[c] = "telling" <=> pc[c] = "telling",
         \A c \in Client : pc[c] = "telling" => listLock' = listLock
  PROVE  ListState'
  BY DEF ListState

\* LinkToDeath adds a recipient that is not in the list, while nobody is telling.
LEMMA LinkKeepsList ==
  ASSUME ListState, NEW r \in Recipient, LinkToDeath(r)
  PROVE  ListState'
<1>0. /\ r \notin expects /\ listLock = None
      /\ mDeathRecipients' = Append(mDeathRecipients, r) /\ expects' = expects \cup {r}
      /\ UNCHANGED <<pc, listLock, telling>>
  BY DEF LinkToDeath, proxyVars
<1>1. \A c \in Client : pc[c] # "telling" /\ telling[c] = None
  BY <1>0, ClientNames DEF ListState
<1>2. /\ mDeathRecipients' \in Seq(Recipient)
      /\ \A n \in 1 .. Len(mDeathRecipients') :
           \/ mDeathRecipients'[n] = r
           \/ \E m \in 1 .. Len(mDeathRecipients) : mDeathRecipients'[n] = mDeathRecipients[m]
      /\ \A m, n \in 1 .. Len(mDeathRecipients') :
           mDeathRecipients'[m] = mDeathRecipients'[n] => m = n
  BY <1>0, AddEntry DEF ListState
<1> QED
  BY <1>0, <1>1, <1>2 DEF ListState

\* UnlinkToDeath takes its recipient from the list, while nobody is telling.
LEMMA UnlinkKeepsList ==
  ASSUME ListState, RemoveRecipient
  PROVE  ListState'
<1>0. listLock = None /\ expects' = expects \ {origCDR} /\ UNCHANGED <<pc, listLock, telling>>
  BY DEF RemoveRecipient, proxyVars
<1>1. \A c \in Client : pc[c] # "telling" /\ telling[c] = None
  BY <1>0, ClientNames DEF ListState
<1>2. CASE \E n \in 1 .. Len(mDeathRecipients) :
             /\ mDeathRecipients[n] = origCDR
             /\ mDeathRecipients' = RemoveAt(mDeathRecipients, n)
  <2>1. PICK k \in 1 .. Len(mDeathRecipients) :
          /\ mDeathRecipients[k] = origCDR
          /\ mDeathRecipients' = RemoveAt(mDeathRecipients, k)
    BY <1>2
  <2>2. /\ mDeathRecipients' \in Seq(Recipient)
        /\ \A n \in 1 .. Len(mDeathRecipients') :
             \E m \in 1 .. Len(mDeathRecipients) :
               mDeathRecipients'[n] = mDeathRecipients[m] /\ mDeathRecipients[m] # origCDR
        /\ \A m, n \in 1 .. Len(mDeathRecipients') :
             mDeathRecipients'[m] = mDeathRecipients'[n] => m = n
    <3>1. /\ mDeathRecipients \in Seq(Recipient)
          /\ \A m, n \in 1 .. Len(mDeathRecipients) :
               mDeathRecipients[m] = mDeathRecipients[n] => m = n
      BY DEF ListState
    <3>2. PICK s \in Seq(Recipient) : s = mDeathRecipients
      BY <3>1
    <3>3. /\ RemoveAt(s, k) \in Seq(Recipient)
          /\ \A n \in 1 .. Len(RemoveAt(s, k)) :
               \E m \in 1 .. Len(s) : RemoveAt(s, k)[n] = s[m] /\ s[m] # s[k]
          /\ \A m, n \in 1 .. Len(RemoveAt(s, k)) :
               RemoveAt(s, k)[m] = RemoveAt(s, k)[n] => m = n
      BY <3>1, <3>2, EraseEntry
    <3> QED
      BY <2>1, <3>2, <3>3
  <2> QED
    BY <1>0, <1>1, <2>2 DEF ListState
<1>3. CASE /\ \A n \in 1 .. Len(mDeathRecipients) : mDeathRecipients[n] # origCDR
           /\ UNCHANGED mDeathRecipients
  BY <1>0, <1>1, <1>3 DEF ListState
<1> QED
  BY <1>2, <1>3 DEF RemoveRecipient

\* NotifyAll: the first entry is told and erased by the one that holds the list's lock.
LEMMA NotifyKeepsList ==
  ASSUME ListState, DOMAIN telling = Client, NEW c \in Client, Tell(c) \/ Erase(c)
  PROVE  ListState'
<1>0. UNCHANGED <<pc, listLock>>
  BY DEF Tell, Erase, proxyVars
<1>1. CASE Tell(c)
  <2>1. /\ pc[c] = "telling" /\ mDeathRecipients # <<>>
        /\ telling' = [telling EXCEPT ![c] = Head(mDeathRecipients)]
        /\ UNCHANGED <<mDeathRecipients, expects>>
    BY <1>1 DEF Tell
  <2>2. /\ telling'[c] = Head(mDeathRecipients)
        /\ \A d \in Client : d # c => telling'[d] = telling[d]
    BY <2>1
  <2> QED
    BY <1>0, <2>1, <2>2 DEF ListState
<1>2. CASE Erase(c)
  <2>1. /\ mDeathRecipients' = Tail(mDeathRecipients)
        /\ expects' = expects \ {telling[c]} /\ telling' = [telling EXCEPT ![c] = None]
        /\ pc[c] = "telling" /\ mDeathRecipients # <<>> /\ telling[c] = Head(mDeathRecipients)
    BY <1>2 DEF Erase, ListState
  <2>2. \A d \in Client : telling'[d] = None
    BY <2>1 DEF ListState
  <2>3. /\ mDeathRecipients' \in Seq(Recipient)
        /\ Len(mDeathRecipients') = Len(mDeathRecipients) - 1
        /\ \A n \in 1 .. Len(mDeathRecipients') : mDeathRecipients'[n] = mDeathRecipients[n + 1]
        /\ telling[c] = mDeathRecipients[1]
        /\ Len(mDeathRecipients) \in Nat /\ Len(mDeathRecipients) # 0
    BY <2>1 DEF ListState
  <2>4. \A n \in 1 .. Len(mDeathRecipients') : mDeathRecipients'[n] \in expects'
    BY <2>1, <2>3 DEF ListState
  <2>5. \A m, n \in 1 .. Len(mDeathRecipients') :
          mDeathRecipients'[m] = mDeathRecipients'[n] => m = n
    <3> SUFFICES ASSUME NEW m \in 1 .. Len(mDeathRecipients'), NEW n \in 1 .. Len(mDeathRecipients'),
                        mDeathRecipients[m + 1] = mDeathRecipients[n + 1]
                 PROVE  m = n
      BY <2>3
    <3>1. m + 1 \in 1 .. Len(mDeathRecipients) /\ n + 1 \in 1 .. Len(mDeathRecipients)
      BY <2>3
    <3>2. m + 1 = n + 1
      BY <3>1 DEF ListState
    <3> QED
      BY <3>2
  <2> QED
    BY <1>0, <2>1, <2>2, <2>3, <2>4, <2>5 DEF ListState
<1> QED
  BY <1>1, <1>2

\* StubDied takes the free lock, Told gives it up with nobody left in a ProxyDied.
LEMMA DeathKeepsList ==
  ASSUME ListState, ProxyTypes, NEW c \in Client, StubDied(c) \/ Told(c)
  PROVE  ListState'
<1>0. UNCHANGED <<mDeathRecipients, expects, telling>>
  BY DEF StubDied, Told
<1>1. CASE StubDied(c) /\ ~mOrgue
  BY <1>0, <1>1 DEF StubDied, ListState
<1>2. CASE StubDied(c) /\ mOrgue
  <2>1. pc[c] = "died" /\ listLock = None /\ listLock' = c /\ Goto(c, "telling")
    BY <1>2 DEF StubDied
  <2>2. \A d \in Client : pc[d] # "telling"
    BY <2>1, ClientNames DEF ListState
  <2>3. pc'[c] = "telling" /\ \A d \in Client : d # c => pc'[d] = pc[d]
    BY <2>1 DEF Goto, ProxyTypes
  <2> QED
    BY <1>0, <2>1, <2>2, <2>3 DEF ListState
<1>3. CASE Told(c)
  <2>1. pc[c] = "telling" /\ telling[c] = None
    BY <1>3 DEF Told
  <2>2. PICK l \in {"idle", "over"} : Goto(c, l)
    BY <1>3 DEF Told
  <2>3. pc'[c] = l /\ \A d \in Client : d # c => pc'[d] = pc[d]
    BY <2>2 DEF Goto, ProxyTypes
  <2>4. \A d \in Client : pc'[d] # "telling" /\ telling[d] = None
    BY <2>1, <2>2, <2>3 DEF ListState
  <2> QED
    BY <1>0, <2>4 DEF ListState
<1> QED
  BY <1>1, <1>2, <1>3

\* The callers, sending and receiving: nobody that tells the recipients is concerned.
LEMMA ExchangeKeepsList ==
  ASSUME ListState, ChannelInv,
         \/ \E t \in Thread : Call(t)
         \/ \E c \in Client : Send(c) \/ CallRecv(c) \/ Receive(c) \/ ReceiveFails(c)
  PROVE  ListState'
<1>1. UNCHANGED <<mDeathRecipients, expects, telling, listLock>>
  BY DEF Call, BeginCall, Connect, TestPingTask, StartPing, SendFails, Send, CallRecv, Receive,
         ReceiveFails, deathVars
<1>2. CASE \E t \in Thread : StartPing(t)
  <2>1. PICK t \in Thread : StartPing(t)
    BY <1>2
  <2>2. pc[<<t, "call">>] = "startPing" /\ pc[<<t, "ping">>] = "none"
    BY <2>1 DEF StartPing, ChannelInv, ConnectState
  <2>3. \/ pc' = [pc EXCEPT ![<<t, "call">>] = "ready", ![<<t, "ping">>] = "ready"]
        \/ pc' = [pc EXCEPT ![<<t, "call">>] = "ready"]
    BY <2>1 DEF StartPing, Goto
  <2>4. \A d \in Client : pc'[d] = "telling" <=> pc[d] = "telling"
    BY <2>2, <2>3 DEF ChannelInv, ProxyTypes
  <2> QED
    BY <1>1, <2>4, ListUntouched
<1>3. CASE ~\E t \in Thread : StartPing(t)
  <2>1. PICK c \in Client, l \in {"idle", "connect", "connected", "startPing", "ready", "sent",
                                  "recv", "died"} :
          Goto(c, l) /\ pc[c] # "telling"
    BY <1>3, ClientNames
       DEF Call, BeginCall, Connect, TestPingTask, SendFails, Send, CallRecv, Receive, ReceiveFails
  <2>2. \A d \in Client : pc'[d] = "telling" <=> pc[d] = "telling"
    BY <2>1 DEF Goto, ChannelInv, ProxyTypes
  <2> QED
    BY <1>1, <2>2, ListUntouched
<1> QED
  BY <1>2, <1>3

\* A recipient is told once for a link and never after UnlinkToDeath has returned
\* (DeathRecipientList::NotifyAll, Add, Find and Remove).
THEOREM ToldOnceOnly == Spec => []ToldOnce
<1>1. Init => ListState
  BY DEF Init, ListState
<1>2. ChannelInv /\ ListState /\ [Next]_vars => ListState'
  <2> SUFFICES ASSUME ChannelInv, ListState, [Next]_vars PROVE ListState'
    OBVIOUS
  <2>1. ASSUME NEW t \in Thread, Call(t) PROVE ListState'
    BY <2>1, ExchangeKeepsList
  <2>2. ASSUME NEW c \in Client, Exchange(c) PROVE ListState'
    <3>1. CASE Send(c) \/ CallRecv(c) \/ Receive(c) \/ ReceiveFails(c)
      BY <3>1, ExchangeKeepsList
    <3>2. CASE StubDied(c) \/ Told(c)
      BY <3>2, DeathKeepsList DEF ChannelInv
    <3>3. CASE Tell(c) \/ Erase(c)
      BY <3>3, NotifyKeepsList DEF ChannelInv, ProxyTypes
    <3> QED
      BY <2>2, <3>1, <3>2, <3>3 DEF Exchange
  <2>3. ASSUME NEW r \in Recipient, LinkToDeath(r) PROVE ListState'
    BY <2>3, LinkKeepsList
  <2>4. ASSUME NEW r \in Recipient, FindRecipient(r) PROVE ListState'
    BY <2>4, ListUntouched DEF FindRecipient, proxyVars
  <2>5. CASE RemoveRecipient
    BY <2>5, UnlinkKeepsList
  <2>6. CASE Server
    BY <2>6, ListUntouched DEF Server, Accept, Transact, ServerDies, proxyVars, deathVars
  <2>7. CASE UNCHANGED vars
    BY <2>7, ListUntouched DEF vars, proxyVars, deathVars
  <2>8. CASE CreateOrgue
    BY <2>8, ListUntouched DEF CreateOrgue, proxyVars
  <2> QED
    BY <2>1, <2>2, <2>3, <2>4, <2>5, <2>6, <2>7, <2>8 DEF Next, Application
<1>3. ListState => ToldOnce
  <2> SUFFICES ASSUME ListState PROVE ToldOnce
    OBVIOUS
  <2>1. \A c \in Client : telling[c] # None => telling[c] = mDeathRecipients[1]
                                               /\ 1 \in 1 .. Len(mDeathRecipients)
    BY DEF ListState
  <2>2. \A c \in Client : telling[c] # None => listLock = c
    BY DEF ListState
  <2> QED
    BY <2>1, <2>2 DEF ListState, ToldOnce
<1> QED
  BY <1>1, <1>2, <1>3, ChannelInvariant, PTL DEF Spec
=============================================================================

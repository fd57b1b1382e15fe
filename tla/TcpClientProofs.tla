-------------------------- MODULE TcpClientProofs --------------------------
(***************************************************************************)
(* A TcpClient loses no socket, and with one connect() no assertion of its *)
(* Connector fails unless restart() overruled a stop(), however many calls *)
(* of stop() and disconnect(), retries and functors there are.             *)
(***************************************************************************)
EXTENDS TcpClient, TLAPS

-----------------------------------------------------------------------------
(***************************************************************************)
(* The functors that wait in the loop                                      *)
(***************************************************************************)
Functors == {"startInLoop", "stopInLoop", "resetChannel"}

\* x waits in q; x waits in q at most once; x is among the first n of q.
Waits(q, x) == \E i \in 1..Len(q) : q[i] = x
Once(q, x) == \A i, j \in 1..Len(q) : q[i] = x /\ q[j] = x => i = j
Within(q, x, n) == \A i \in 1..Len(q) : q[i] = x => i <= n

\* What queueInLoop does to the functors that wait (Connector.cc:22, 44, 142).
LEMMA AppendFacts ==
  ASSUME NEW q \in Seq(Functors), NEW w \in Functors
  PROVE  /\ Append(q, w) \in Seq(Functors)
         /\ Len(Append(q, w)) = Len(q) + 1
         /\ Append(q, w) # <<>>
         /\ \A x : Waits(Append(q, w), x) <=> Waits(q, x) \/ x = w
         /\ \A x : Once(q, x) /\ (x = w => ~Waits(q, x)) => Once(Append(q, w), x)
         /\ \A x, n : Within(q, x, n) /\ x # w => Within(Append(q, w), x, n)
         /\ \A x, n : Within(Append(q, w), x, n) => Within(q, x, n)
<1>1. /\ Append(q, w) \in Seq(Functors) /\ Len(Append(q, w)) = Len(q) + 1 /\ Len(q) \in Nat
      /\ \A i \in 1..Len(q) : Append(q, w)[i] = q[i]
      /\ Append(q, w)[Len(q) + 1] = w
  OBVIOUS
<1>2. \A i \in 1..Len(Append(q, w)) : i \in 1..Len(q) \/ i = Len(q) + 1
  BY <1>1
<1>3. \A i \in 1..Len(q) : i \in 1..Len(Append(q, w))
  BY <1>1
<1>4. \A x : Waits(Append(q, w), x) <=> Waits(q, x) \/ x = w
  BY <1>1, <1>2, <1>3 DEF Waits
<1>5. \A x : Once(q, x) /\ (x = w => ~Waits(q, x)) => Once(Append(q, w), x)
  BY <1>1, <1>2 DEF Once, Waits
<1>6. \A x, n : Within(q, x, n) /\ x # w => Within(Append(q, w), x, n)
  BY <1>1, <1>2 DEF Within
<1>7. \A x, n : Within(Append(q, w), x, n) => Within(q, x, n)
  BY <1>1, <1>3 DEF Within
<1>8. Append(q, w) # <<>>
  BY <1>1
<1>. QED BY <1>1, <1>4, <1>5, <1>6, <1>7, <1>8

\* What taking the first of them does (EventLoop.cc:209).
LEMMA TailFacts ==
  ASSUME NEW q \in Seq(Functors), q # <<>>
  PROVE  /\ Tail(q) \in Seq(Functors) /\ Len(Tail(q)) = Len(q) - 1
         /\ Head(q) \in Functors /\ Waits(q, Head(q))
         /\ \A x : x # Head(q) => (Waits(Tail(q), x) <=> Waits(q, x))
         /\ \A x : Once(q, x) => Once(Tail(q), x)
         /\ \A x : Once(q, x) /\ x = Head(q) => ~Waits(Tail(q), x)
         /\ \A x : \A n \in Nat : Within(q, x, n) => Within(Tail(q), x, n - 1)
<1>1. /\ Tail(q) \in Seq(Functors) /\ Len(Tail(q)) = Len(q) - 1
      /\ Len(q) \in Nat \ {0} /\ Head(q) = q[1] /\ Head(q) \in Functors
      /\ \A i \in 1..Len(Tail(q)) : Tail(q)[i] = q[i + 1]
  OBVIOUS
<1>2. \A i \in 1..Len(Tail(q)) : i + 1 \in 1..Len(q) /\ i + 1 # 1
  BY <1>1
<1>3. \A i \in 1..Len(q) : i # 1 => i - 1 \in 1..Len(Tail(q)) /\ (i - 1) + 1 = i
  BY <1>1
<1>4. Waits(q, Head(q))
  BY <1>1 DEF Waits
<1>5. \A x : x # Head(q) => (Waits(Tail(q), x) <=> Waits(q, x))
  <2>. SUFFICES ASSUME NEW x, x # Head(q) PROVE Waits(Tail(q), x) <=> Waits(q, x)
    OBVIOUS
  <2>1. ASSUME Waits(Tail(q), x) PROVE Waits(q, x)
    BY <2>1, <1>1, <1>2 DEF Waits
  <2>2. ASSUME Waits(q, x) PROVE Waits(Tail(q), x)
    <3>1. PICK i \in 1..Len(q) : q[i] = x
      BY <2>2 DEF Waits
    <3>2. i # 1
      BY <3>1, <1>1
    <3>3. Tail(q)[i - 1] = q[(i - 1) + 1] /\ i - 1 \in 1..Len(Tail(q))
      BY <3>2, <1>1, <1>3
    <3>. QED BY <3>1, <3>2, <3>3, <1>3 DEF Waits
  <2>. QED BY <2>1, <2>2
<1>6. \A x : Once(q, x) => Once(Tail(q), x)
  <2>. SUFFICES ASSUME NEW x, Once(q, x),
                       NEW i \in 1..Len(Tail(q)), NEW j \in 1..Len(Tail(q)),
                       Tail(q)[i] = x, Tail(q)[j] = x
                PROVE  i = j
    BY DEF Once
  <2>1. q[i + 1] = x /\ q[j + 1] = x
    BY <1>1
  <2>2. i + 1 = j + 1
    BY <2>1, <1>2 DEF Once
  <2>. QED BY <2>2
<1>7. \A x : Once(q, x) /\ x = Head(q) => ~Waits(Tail(q), x)
  BY <1>1, <1>2 DEF Once, Waits
<1>8. \A x : \A n \in Nat : Within(q, x, n) => Within(Tail(q), x, n - 1)
  BY <1>1, <1>2 DEF Within
<1>. QED BY <1>1, <1>4, <1>5, <1>6, <1>7, <1>8

\* Nothing waits in an empty queue, and all that waits is within the queue.
LEMMA QueueFacts ==
  /\ <<>> \in Seq(Functors) /\ Len(<<>>) = 0
  /\ \A x : ~Waits(<<>>, x) /\ Once(<<>>, x)
  /\ \A q \in Seq(Functors) : \A x : Within(q, x, Len(q))
  /\ \A q \in Seq(Functors) : \A x : Within(q, x, 0) => ~Waits(q, x)
  /\ \A q : \A x, n : ~Waits(q, x) => Within(q, x, n)
<1>1. <<>> \in Seq(Functors) /\ Len(<<>>) = 0
  OBVIOUS
<1>2. \A x : ~Waits(<<>>, x) /\ Once(<<>>, x)
  BY <1>1 DEF Waits, Once
<1>3. \A q \in Seq(Functors) : \A x : Within(q, x, Len(q))
  BY DEF Within
<1>4. \A q \in Seq(Functors) : \A x : Within(q, x, 0) => ~Waits(q, x)
  BY DEF Within, Waits
<1>5. \A q : \A x, n : ~Waits(q, x) => Within(q, x, n)
  BY DEF Within, Waits
<1>. QED BY <1>1, <1>2, <1>3, <1>4, <1>5
-----------------------------------------------------------------------------
(***************************************************************************)
(* The invariant                                                           *)
(***************************************************************************)
\* What remains of a call of connect(), and of one of stop() that has cleared wanted.
Starting == {<<"want", "connect", "startInLoop">>, <<"connect", "startInLoop">>,
             <<"startInLoop">>}
Stopping == {<<"disconnect", "stopInLoop">>, <<"stopInLoop">>}

TypeOK ==
  /\ wanted \in BOOLEAN /\ retry_ \in BOOLEAN /\ connection_ \in BOOLEAN
  /\ connect_ \in BOOLEAN /\ stopped \in BOOLEAN /\ overruled \in BOOLEAN /\ aborted \in BOOLEAN
  /\ state_ \in {"kDisconnected", "kConnecting", "kConnected"}
  /\ channel_ \in {"none", "added", "removed"}
  /\ timers \in Nat /\ connects \in Nat /\ batch \in Nat
  /\ phase \in {"poll", "event", "restart", "timer", "functors"}
  /\ revents \in {{}, {"out"}, {"err", "out"}}
  /\ toRun \in Seq(Functors)
  /\ todo \in Starting \cup Stopping
              \cup {<<>>, <<"unwant", "disconnect", "stopInLoop">>, <<"unwant">>}

\* A socket is being connected while its channel is in the poller, and belongs to the connection
\* after it; a channel that left the poller waits for one resetChannel.
SocketInv ==
  /\ state_ = "kConnecting" <=> channel_ = "added"
  /\ connection_ => state_ = "kConnected"
  /\ phase = "restart" => state_ = "kConnected" /\ ~connection_
  /\ revents # {} => phase = "event" /\ state_ # "kConnected"
  /\ channel_ = "removed" <=> Waits(toRun, "resetChannel")
  /\ Once(toRun, "resetChannel")
  /\ phase = "functors" => batch <= Len(toRun)
  /\ NoSocketLeaks

\* What may lead to a socket: a call of connect() that is not through, startInLoop in the loop, a
\* retry that waits or runs, a socket, a connection that may be lost, a restart.
One(p) == IF p THEN 1 ELSE 0
Attempts ==
  One(todo \in Starting) + One(Waits(toRun, "startInLoop")) + timers + One(phase = "timer")
  + One(state_ = "kConnecting") + One(connection_) + One(phase = "restart")

\* resetChannel runs before the loop can run a timer or lose a connection.
ResetFirst == phase = "event" \/ (phase = "functors" /\ Within(toRun, "resetChannel", batch))

\* One call of connect() makes one attempt at a time, each begun in the state kDisconnected; the
\* channel of the one before is gone by then, or stop() was overruled.
OneAttempt ==
  /\ Attempts <= connects /\ Once(toRun, "startInLoop")
  /\ connects = 0 => /\ state_ = "kDisconnected" /\ channel_ = "none"
                     /\ toRun = <<>> /\ todo = <<>>
  /\ todo \in Starting => state_ = "kDisconnected" /\ channel_ = "none" /\ toRun = <<>>
  /\ Waits(toRun, "startInLoop") => state_ = "kDisconnected" /\ channel_ = "none"
  /\ timers > 0 \/ phase = "timer" => state_ = "kDisconnected"
  /\ channel_ = "removed" /\ ~ResetFirst /\ ~overruled => Attempts = 0
\* stop() clears both flags before it queues stopInLoop, and only restart() sets one again.
StopHolds ==
  /\ (todo = <<"stopInLoop">> \/ Waits(toRun, "stopInLoop")) /\ connect_ => overruled
  /\ overruled => ~wanted /\ phase # "restart" /\ connects = 1 /\ todo \notin Starting
  /\ connects = 1 /\ ~connect_ /\ todo \notin Starting => ~wanted
  /\ todo \in Stopping => ~wanted
  /\ todo = <<"startInLoop">> => connect_
SafeInv ==
  connects <= 1 => (aborted => overruled) /\ (~aborted => OneAttempt /\ StopHolds)

ClientInv == TypeOK /\ SocketInv /\ SafeInv
-----------------------------------------------------------------------------
\* What is left of a call after its first step (TcpClient.cc:79, Connector.cc:20).
LEMMA CallFacts ==
  /\ Head(<<"want", "connect", "startInLoop">>) = "want"
  /\ Tail(<<"want", "connect", "startInLoop">>) = <<"connect", "startInLoop">>
  /\ Head(<<"connect", "startInLoop">>) = "connect"
  /\ Tail(<<"connect", "startInLoop">>) = <<"startInLoop">>
  /\ Head(<<"startInLoop">>) = "startInLoop" /\ Tail(<<"startInLoop">>) = <<>>
  /\ Head(<<"unwant", "disconnect", "stopInLoop">>) = "unwant"
  /\ Tail(<<"unwant", "disconnect", "stopInLoop">>) = <<"disconnect", "stopInLoop">>
  /\ Head(<<"disconnect", "stopInLoop">>) = "disconnect"
  /\ Tail(<<"disconnect", "stopInLoop">>) = <<"stopInLoop">>
  /\ Head(<<"stopInLoop">>) = "stopInLoop" /\ Tail(<<"stopInLoop">>) = <<>>
  /\ Head(<<"unwant">>) = "unwant" /\ Tail(<<"unwant">>) = <<>>
  OBVIOUS

\* The remainders of different calls differ.
LEMMA CallsDiffer ==
  /\ <<>> \notin Starting \cup Stopping
  /\ <<"unwant">> \notin Starting \cup Stopping
  /\ <<"unwant", "disconnect", "stopInLoop">> \notin Starting \cup Stopping
  /\ Starting \cap Stopping = {}
  /\ <<"disconnect", "stopInLoop">> # <<"stopInLoop">>
  /\ <<"unwant", "disconnect", "stopInLoop">> # <<"stopInLoop">>
  /\ <<"unwant">> # <<"stopInLoop">> /\ <<"unwant">> # <<>>
  BY DEF Starting, Stopping

\* The first state.
LEMMA InitClient == ClientInit => ClientInv
<1>. SUFFICES ASSUME ClientInit PROVE ClientInv
  OBVIOUS
<1>1. /\ ~Waits(toRun, "startInLoop") /\ ~Waits(toRun, "stopInLoop")
      /\ ~Waits(toRun, "resetChannel")
      /\ Once(toRun, "startInLoop") /\ Once(toRun, "resetChannel")
      /\ toRun \in Seq(Functors)
  BY QueueFacts DEF ClientInit
<1>2. TypeOK
  BY <1>1, ZenonT(30) DEF ClientInit, TypeOK
<1>3. SocketInv
  BY <1>1 DEF ClientInit, SocketInv, NoSocketLeaks
<1>4. todo \notin Starting /\ todo \notin Stopping /\ todo # <<"stopInLoop">>
  BY CallsDiffer DEF ClientInit, Stopping
<1>5. Attempts = 0
  BY <1>1, <1>4 DEF ClientInit, Attempts, One
<1>6. OneAttempt /\ StopHolds
  BY <1>1, <1>4, <1>5 DEF ClientInit, OneAttempt, StopHolds
<1>. QED BY <1>2, <1>3, <1>6 DEF ClientInv, SafeInv, ClientInit
-----------------------------------------------------------------------------
(***************************************************************************)
(* The steps of the loop                                                   *)
(***************************************************************************)
\* An event of the socket that is being connected (EventLoop.cc:92).
LEMMA PollStep == ClientInv /\ pollChannel => ClientInv'
<1>. SUFFICES ASSUME ClientInv, pollChannel PROVE ClientInv'
  OBVIOUS
<1>. USE DEF pollChannel, Loop, callerVars, connectorVars
<1>1. TypeOK'
  BY DEF ClientInv, TypeOK
<1>2. SocketInv'
  BY DEF ClientInv, TypeOK, SocketInv, NoSocketLeaks
<1>3. SafeInv'
  BY DEF ClientInv, TypeOK, SocketInv, SafeInv, OneAttempt, StopHolds, Attempts, One, ResetFirst
<1>. QED BY <1>1, <1>2, <1>3 DEF ClientInv

\* The callbacks of that event (Connector.cc:108, 148).
LEMMA EventStep == ClientInv /\ handleChannel => ClientInv'
<1>. SUFFICES ASSUME ClientInv, handleChannel PROVE ClientInv'
  OBVIOUS
<1>. USE DEF handleChannel, Loop, callerVars
<1>1. /\ toRun \in Seq(Functors) /\ "resetChannel" \in Functors
      /\ phase = "event" /\ phase' = "event" /\ revents # {} /\ state_ # "kConnected"
      /\ state_ \in {"kDisconnected", "kConnecting"}
  BY ZenonT(30) DEF ClientInv, TypeOK, SocketInv, Functors
<1>2. CASE state_ = "kDisconnected"
  <2>1. UNCHANGED <<toRun, channel_, state_, timers, sockets, connection_, aborted>>
    BY <1>1, <1>2 DEF handleError, handleWrite, ClientInv, TypeOK
  <2>2. revents' \in {{}, {"out"}}
    BY DEF ClientInv, TypeOK
  <2>3. TypeOK'
    BY <2>1, <2>2, <1>1 DEF ClientInv, TypeOK
  <2>4. SocketInv'
    BY <2>1, <1>1, <1>2 DEF ClientInv, TypeOK, SocketInv, NoSocketLeaks
  <2>5. SafeInv'
    BY <2>1, <1>1 DEF ClientInv, TypeOK, SafeInv, OneAttempt, StopHolds, Attempts, One, ResetFirst
  <2>. QED BY <2>3, <2>4, <2>5 DEF ClientInv
<1>3. CASE state_ = "kConnecting"
  <2>1. /\ toRun' = Append(toRun, "resetChannel") /\ channel_' = "removed"
        /\ channel_ = "added" /\ UNCHANGED aborted /\ revents' \in {{}, {"out"}}
    BY <1>1, <1>3 DEF handleError, handleWrite, removeAndResetChannel, ClientInv, TypeOK, SocketInv
  <2>2. \/ /\ state_' = "kDisconnected" /\ sockets' = sockets - 1 /\ UNCHANGED connection_
           /\ timers' = IF connect_ THEN timers + 1 ELSE timers
        \/ /\ state_' = "kConnected" /\ revents' = {} /\ UNCHANGED timers
           /\ IF connect_ THEN connection_' = TRUE /\ UNCHANGED sockets
                          ELSE sockets' = sockets - 1 /\ UNCHANGED connection_
    BY <1>1, <1>3 DEF handleError, handleWrite, retry
  <2>3. /\ toRun' \in Seq(Functors) /\ ~Waits(toRun, "resetChannel")
        /\ Waits(toRun', "resetChannel") /\ Once(toRun', "resetChannel")
        /\ \A x : x # "resetChannel" => (Waits(toRun', x) <=> Waits(toRun, x))
        /\ Once(toRun, "startInLoop") => Once(toRun', "startInLoop")
    BY <1>1, <2>1, AppendFacts DEF ClientInv, SocketInv
  <2>4. TypeOK'
    <3>1. timers' \in Nat
      BY <2>2 DEF ClientInv, TypeOK
    <3>2. state_' \in {"kDisconnected", "kConnected"}
      BY <2>2
    <3>3. connection_' \in {TRUE, connection_}
      BY <2>2, Zenon
    <3>. QED BY <3>1, <3>2, <3>3, <2>1, <2>3, <1>1, ZenonT(30) DEF ClientInv, TypeOK
  <2>5. SocketInv'
    BY <2>1, <2>2, <2>3, <1>1, <1>3 DEF ClientInv, TypeOK, SocketInv, NoSocketLeaks
  <2>6. ASSUME connects <= 1 PROVE OneAttempt' /\ StopHolds'
    <3>1. OneAttempt /\ StopHolds
      BY <2>6 DEF ClientInv, SafeInv
    <3>2. Attempts' <= connects
      BY <3>1, <2>1, <2>2, <2>3, <1>1, <1>3 DEF OneAttempt, Attempts, One, ClientInv, TypeOK, SocketInv
    <3>3. todo \notin Starting /\ ~Waits(toRun, "startInLoop") /\ connects # 0
      BY <3>1, <1>3 DEF OneAttempt
    <3>4. timers = 0
      BY <3>1, <1>3, <2>6 DEF OneAttempt, ClientInv, TypeOK
    <3>5. OneAttempt'
      BY <3>1, <3>2, <3>3, <3>4, <2>1, <2>2, <2>3, <1>1 DEF OneAttempt, ResetFirst, ClientInv, TypeOK
    <3>6. StopHolds'
      BY <3>1, <2>1, <2>3, <1>1 DEF StopHolds
    <3>. QED BY <3>5, <3>6
  <2>. QED BY <2>1, <2>4, <2>5, <2>6 DEF ClientInv, SafeInv
<1>. QED BY <1>1, <1>2, <1>3

\* The connection is lost (TcpClient.cc:121).
LEMMA LostStep == ClientInv /\ removeConnection => ClientInv'
<1>. SUFFICES ASSUME ClientInv, removeConnection PROVE ClientInv'
  OBVIOUS
<1>. USE DEF removeConnection, Loop, callerVars
<1>1. TypeOK'
  <2>1. connection_' \in BOOLEAN /\ phase' \in {"poll", "event", "restart", "timer", "functors"}
    BY Zenon
  <2>2. UNCHANGED <<wanted, retry_, connect_, stopped, overruled, aborted, state_, channel_, timers,
                    connects, batch, revents, toRun, todo>>
    BY Zenon
  <2>3. TypeOK
    BY Zenon DEF ClientInv
  <2>. HIDE DEF removeConnection, Loop, callerVars
  <2>. QED BY <2>1, <2>2, <2>3, SMTT(30) DEF TypeOK
<1>2. SocketInv'
  BY DEF ClientInv, TypeOK, SocketInv, NoSocketLeaks
<1>3. ASSUME connects <= 1 PROVE OneAttempt' /\ StopHolds'
  <2>1. OneAttempt /\ StopHolds
    BY <1>3 DEF ClientInv, SafeInv
  <2>2. Attempts' <= connects
    BY <2>1 DEF OneAttempt, Attempts, One, ClientInv, TypeOK
  <2>3. todo \notin Starting /\ ~Waits(toRun, "startInLoop") /\ connects # 0
        /\ timers = 0
    BY <2>1, <1>3 DEF OneAttempt, ClientInv, SocketInv, TypeOK
  <2>4. channel_ = "removed" => overruled
    BY <2>1 DEF OneAttempt, ResetFirst, Attempts, One, ClientInv, TypeOK
  <2>5. OneAttempt'
    BY <2>1, <2>2, <2>3, <2>4 DEF OneAttempt, ClientInv, TypeOK
  <2>6. StopHolds'
    BY <2>1 DEF StopHolds
  <2>. QED BY <2>5, <2>6
<1>. QED BY <1>1, <1>2, <1>3 DEF ClientInv, SafeInv

\* The ways startInLoop ends: an assertion fails, nothing happens, the attempt fails at once and
\* is tried again later, or a socket is being connected (Connector.cc:38, 52).
Stays == UNCHANGED <<state_, channel_, timers, sockets, aborted>>
TriesAgain ==
  /\ state_' = "kDisconnected" /\ timers' = timers + 1
  /\ UNCHANGED <<channel_, sockets, aborted>>
Connects ==
  /\ channel_ = "none" /\ channel_' = "added" /\ state_' = "kConnecting"
  /\ sockets' = sockets + 1 /\ UNCHANGED <<timers, aborted>>
LEMMA StartFacts ==
  ASSUME NEW state, NEW wants \in BOOLEAN, startInLoop(state, wants), sockets \in Nat
  PROVE  \/ Abort /\ (state # "kDisconnected" \/ channel_ # "none")
         \/ /\ state = "kDisconnected"
            /\ \/ state_' = "kDisconnected" /\ UNCHANGED <<channel_, timers, sockets, aborted>>
               \/ TriesAgain \/ Connects
  BY DEF startInLoop, connecting, retry, TriesAgain, Connects

\* After startInLoop there is a timer or a socket, and not both.
LEMMA OneOfTwo ==
  ASSUME NEW n \in {0, 1}, NEW s \in {"kDisconnected", "kConnecting"}, n = 1 => s = "kDisconnected"
  PROVE  n + One(s = "kConnecting") <= 1
<1>1. CASE n = 0 /\ s = "kDisconnected"
  BY <1>1 DEF One
<1>2. CASE n = 0 /\ s = "kConnecting"
  BY <1>2 DEF One
<1>3. CASE n = 1 /\ s = "kDisconnected"
  BY <1>3 DEF One
<1>. QED BY <1>1, <1>2, <1>3, Zenon

\* restart() (Connector.cc:28).
LEMMA RestartStep == ClientInv /\ restart => ClientInv'
<1>. SUFFICES ASSUME ClientInv, restart PROVE ClientInv'
  OBVIOUS
<1>. USE DEF restart, Loop, callerVars
<1>1. /\ state_ = "kConnected" /\ ~connection_ /\ channel_ # "added" /\ sockets = 0
      /\ revents = {}
  BY DEF ClientInv, SocketInv, NoSocketLeaks
<1>2. \/ Abort /\ channel_ # "none"
      \/ state_' = "kDisconnected" /\ UNCHANGED <<channel_, timers, sockets, aborted>>
      \/ TriesAgain \/ Connects
  BY <1>1, StartFacts, ZenonT(30)
<1>3. TypeOK'
  <2>1. /\ timers' \in Nat /\ state_' \in {"kDisconnected", "kConnecting", "kConnected"}
        /\ channel_' \in {"none", "added", "removed"}
    BY <1>2 DEF ClientInv, TypeOK, Abort, TriesAgain, Connects
  <2>2. aborted' \in {TRUE, aborted}
    BY <1>2, Zenon DEF Abort, TriesAgain, Connects
  <2>3. overruled' \in BOOLEAN /\ connect_' \in BOOLEAN
    BY DEF ClientInv, TypeOK
  <2>. QED BY <2>1, <2>2, <2>3, ZenonT(30) DEF ClientInv, TypeOK
<1>4. SocketInv'
  BY <1>1, <1>2 DEF ClientInv, TypeOK, SocketInv, NoSocketLeaks, Abort, TriesAgain, Connects
<1>5. ASSUME connects <= 1 PROVE ~aborted' /\ OneAttempt' /\ StopHolds'
  <2>1. OneAttempt /\ StopHolds
    BY <1>5 DEF ClientInv, SafeInv
  <2>2. connects = 1 /\ ~overruled
    BY <2>1, <1>5 DEF OneAttempt, StopHolds, Attempts, One, ClientInv, TypeOK
  <2>3. todo \notin Starting /\ ~Waits(toRun, "startInLoop") /\ timers = 0
    BY <2>1, <1>1, <1>5 DEF OneAttempt, ClientInv, TypeOK
  <2>4. channel_ = "none"
    BY <2>1, <2>2, <1>1 DEF OneAttempt, ResetFirst, Attempts, One, ClientInv, TypeOK
  <2>5. ~aborted' /\ state_' \in {"kDisconnected", "kConnecting"} /\ timers' \in {0, 1}
        /\ (timers' = 1 => state_' = "kDisconnected") /\ channel_' \in {"none", "added"}
    BY <2>3, <2>4, <1>2 DEF TriesAgain, Connects
  <2>6. Attempts' <= connects
    <3>1. /\ todo' \notin Starting /\ ~Waits(toRun', "startInLoop") /\ ~connection_'
          /\ phase' = "event"
      BY <2>3, <1>1
    <3>2. Attempts' = timers' + One(state_' = "kConnecting")
      BY <3>1, <2>5 DEF Attempts, One
    <3>3. timers' + One(state_' = "kConnecting") <= 1
      BY <2>5, OneOfTwo
    <3>. QED BY <3>2, <3>3, <2>2
  <2>7. OneAttempt'
    BY <2>1, <2>2, <2>3, <2>5, <2>6 DEF OneAttempt
  <2>8. StopHolds'
    BY <2>1, <2>2, <2>3, ZenonT(30) DEF StopHolds, ClientInv, TypeOK
  <2>. QED BY <2>5, <2>7, <2>8
<1>. QED BY <1>3, <1>4, <1>5 DEF ClientInv, SafeInv

\* The loop takes a timer of retry() (Connector.cc:176).
LEMMA RunTimerStep == ClientInv /\ RunRetry => ClientInv'
<1>. SUFFICES ASSUME ClientInv, RunRetry PROVE ClientInv'
  OBVIOUS
<1>. USE DEF RunRetry, Loop, callerVars
<1>1. TypeOK'
  BY DEF ClientInv, TypeOK
<1>2. SocketInv'
  BY DEF ClientInv, TypeOK, SocketInv, NoSocketLeaks
<1>3. ASSUME connects <= 1 PROVE OneAttempt' /\ StopHolds'
  <2>1. OneAttempt /\ StopHolds
    BY <1>3 DEF ClientInv, SafeInv
  <2>2. Attempts' <= connects
    BY <2>1 DEF OneAttempt, Attempts, One, ClientInv, TypeOK
  <2>3. channel_ = "removed" => overruled
    BY <2>1 DEF OneAttempt, ResetFirst, Attempts, One, ClientInv, TypeOK
  <2>4. OneAttempt'
    BY <2>1, <2>2, <2>3 DEF OneAttempt, ClientInv, TypeOK
  <2>5. StopHolds'
    BY <2>1 DEF StopHolds
  <2>. QED BY <2>4, <2>5
<1>. QED BY <1>1, <1>2, <1>3 DEF ClientInv, SafeInv

\* The timer runs startInLoop (Connector.cc:38).
LEMMA TimerStartsStep == ClientInv /\ TimerStarts => ClientInv'
<1>. SUFFICES ASSUME ClientInv, TimerStarts PROVE ClientInv'
  OBVIOUS
<1>. USE DEF TimerStarts, Loop, callerVars
<1>1. sockets \in Nat /\ revents = {}
  BY DEF ClientInv, SocketInv, NoSocketLeaks
<1>2. \/ Abort /\ (state_ # "kDisconnected" \/ channel_ # "none")
      \/ /\ state_ = "kDisconnected"
         /\ Stays \/ TriesAgain \/ Connects
  BY <1>1, StartFacts DEF ClientInv, TypeOK, Stays
<1>3. TypeOK'
  <2>1. /\ timers' \in Nat /\ state_' \in {"kDisconnected", "kConnecting", "kConnected"}
        /\ channel_' \in {"none", "added", "removed"}
    BY <1>2 DEF ClientInv, TypeOK, Abort, Stays, TriesAgain, Connects
  <2>2. aborted' \in {TRUE, aborted}
    BY <1>2, Zenon DEF Abort, Stays, TriesAgain, Connects
  <2>. QED BY <2>1, <2>2, ZenonT(30) DEF ClientInv, TypeOK
<1>4. SocketInv'
  BY <1>1, <1>2 DEF ClientInv, TypeOK, SocketInv, NoSocketLeaks, Abort, Stays, TriesAgain, Connects
<1>5. ASSUME connects <= 1 PROVE (aborted' => overruled') /\ (~aborted' => OneAttempt' /\ StopHolds')
  <2>1. OneAttempt /\ StopHolds
    BY <1>5 DEF ClientInv, SafeInv
  <2>2. connects = 1 /\ state_ = "kDisconnected" /\ timers = 0 /\ ~connection_
    BY <2>1, <1>5 DEF OneAttempt, Attempts, One, ClientInv, TypeOK
  <2>3. todo \notin Starting /\ ~Waits(toRun, "startInLoop")
    BY <2>1, <1>5 DEF OneAttempt, Attempts, One, ClientInv, TypeOK
  <2>4. channel_ # "none" => overruled
    BY <2>1, <2>2 DEF OneAttempt, ResetFirst, Attempts, One, ClientInv, TypeOK, SocketInv
  <2>5. aborted' => overruled'
    BY <2>2, <2>4, <1>2, ZenonT(30) DEF Abort, Stays, TriesAgain, Connects
  <2>6. ASSUME ~aborted'
        PROVE  /\ state_' \in {"kDisconnected", "kConnecting"} /\ timers' \in {0, 1}
               /\ (timers' = 1 => state_' = "kDisconnected")
    BY <2>2, <2>6, <1>2 DEF Abort, Stays, TriesAgain, Connects
  <2>7. ASSUME ~aborted' PROVE Attempts' <= connects
    BY <2>2, <2>3, <2>6, <2>7 DEF Attempts, One
  <2>8. ASSUME ~aborted' PROVE OneAttempt'
    BY <2>1, <2>2, <2>3, <2>6, <2>7, <2>8 DEF OneAttempt, ResetFirst
  <2>9. StopHolds'
    BY <2>1 DEF StopHolds
  <2>. QED BY <2>5, <2>8, <2>9
<1>. QED BY <1>3, <1>4, <1>5 DEF ClientInv, SafeInv
-----------------------------------------------------------------------------
(***************************************************************************)
(* The functors                                                            *)
(***************************************************************************)
\* The loop takes the functors that wait (EventLoop.cc:209).
LEMMA TakeStep == ClientInv /\ TakeFunctors => ClientInv'
<1>. SUFFICES ASSUME ClientInv, TakeFunctors PROVE ClientInv'
  OBVIOUS
<1>. USE DEF TakeFunctors, Loop, callerVars, connectorVars
<1>1. /\ toRun \in Seq(Functors) /\ Len(toRun) \in Nat /\ revents = {}
      /\ phase \in {"event", "poll"} /\ phase' = "functors"
      /\ Within(toRun, "resetChannel", Len(toRun))
  BY QueueFacts DEF ClientInv, TypeOK, SocketInv
<1>2. TypeOK'
  BY <1>1 DEF ClientInv, TypeOK
<1>3. SocketInv'
  BY <1>1 DEF ClientInv, TypeOK, SocketInv, NoSocketLeaks
<1>4. ASSUME connects <= 1 PROVE OneAttempt' /\ StopHolds'
  <2>1. OneAttempt /\ StopHolds
    BY <1>4 DEF ClientInv, SafeInv
  <2>2. Attempts' = Attempts
    BY <1>1 DEF Attempts, One
  <2>3. ResetFirst'
    BY <1>1 DEF ResetFirst
  <2>4. OneAttempt'
    BY <2>1, <2>2, <2>3, <1>1 DEF OneAttempt
  <2>5. StopHolds'
    BY <2>1, <1>1 DEF StopHolds
  <2>. QED BY <2>4, <2>5
<1>. QED BY <1>2, <1>3, <1>4 DEF ClientInv, SafeInv

\* The loop is through with them (EventLoop.cc:218).
LEMMA DoneStep == ClientInv /\ QueuedDone => ClientInv'
<1>. SUFFICES ASSUME ClientInv, QueuedDone PROVE ClientInv'
  OBVIOUS
<1>. USE DEF QueuedDone, Loop, callerVars, connectorVars
<1>1. TypeOK'
  BY DEF ClientInv, TypeOK
<1>2. SocketInv'
  BY DEF ClientInv, TypeOK, SocketInv, NoSocketLeaks
<1>3. ASSUME connects <= 1 PROVE OneAttempt' /\ StopHolds'
  <2>1. OneAttempt /\ StopHolds
    BY <1>3 DEF ClientInv, SafeInv
  <2>2. Attempts' = Attempts
    BY DEF Attempts, One
  <2>3. channel_ = "removed" => ~ResetFirst
    BY QueueFacts DEF ResetFirst, ClientInv, TypeOK, SocketInv
  <2>4. OneAttempt'
    BY <2>1, <2>2, <2>3 DEF OneAttempt
  <2>5. StopHolds'
    BY <2>1 DEF StopHolds
  <2>. QED BY <2>4, <2>5
<1>. QED BY <1>1, <1>2, <1>3 DEF ClientInv, SafeInv

\* The first functor runs (Connector.cc:38, 49, 145).
LEMMA FunctorStep == ClientInv /\ RunQueued => ClientInv'
<1>. SUFFICES ASSUME ClientInv, RunQueued PROVE ClientInv'
  OBVIOUS
<1>. DEFINE q == Tail(toRun)
<1>1. /\ phase = "functors" /\ ~aborted /\ batch > 0 /\ batch' = batch - 1
      /\ UNCHANGED <<retry_, todo, connects, stopped, wanted, connection_, connect_, phase, revents,
                     overruled>>
  BY DEF RunQueued, Loop, callerVars
<1>2. /\ toRun \in Seq(Functors) /\ toRun # <<>> /\ batch \in Nat /\ revents = {}
      /\ batch <= Len(toRun) /\ sockets \in Nat
  BY <1>1 DEF ClientInv, TypeOK, SocketInv, NoSocketLeaks
<1>3. /\ q \in Seq(Functors) /\ Len(q) = Len(toRun) - 1 /\ Len(toRun) \in Nat
      /\ Waits(toRun, Head(toRun))
      /\ \A x : x # Head(toRun) => (Waits(q, x) <=> Waits(toRun, x))
      /\ \A x : Once(toRun, x) => Once(q, x)
      /\ \A x : Once(toRun, x) /\ x = Head(toRun) => ~Waits(q, x)
      /\ \A x : Within(toRun, x, batch) => Within(q, x, batch - 1)
  BY <1>2, TailFacts
<1>4. connects <= 1 => OneAttempt /\ StopHolds
  BY <1>1 DEF ClientInv, SafeInv
<1>5. CASE Head(toRun) = "startInLoop" /\ startInLoop(state_, connect_) /\ toRun' = q
  <2>1. \/ Abort /\ (state_ # "kDisconnected" \/ channel_ # "none")
        \/ state_ = "kDisconnected" /\ (Stays \/ TriesAgain \/ Connects)
    BY <1>2, <1>5, StartFacts DEF ClientInv, TypeOK, Stays
  <2>2. /\ Waits(q, "resetChannel") <=> Waits(toRun, "resetChannel")
        /\ Waits(q, "stopInLoop") <=> Waits(toRun, "stopInLoop")
        /\ Waits(toRun, "startInLoop")
    BY <1>3, <1>5
  <2>3. TypeOK'
    <3>1. /\ timers' \in Nat /\ state_' \in {"kDisconnected", "kConnecting", "kConnected"}
          /\ channel_' \in {"none", "added", "removed"} /\ batch' \in Nat
      BY <1>1, <1>2, <2>1 DEF ClientInv, TypeOK, Abort, Stays, TriesAgain, Connects
    <3>2. aborted' \in {TRUE, aborted}
      BY <2>1, Zenon DEF Abort, Stays, TriesAgain, Connects
    <3>. QED BY <3>1, <3>2, <1>1, <1>3, <1>5, ZenonT(30) DEF ClientInv, TypeOK
  <2>4. SocketInv'
    BY <1>1, <1>2, <1>3, <1>5, <2>1, <2>2
       DEF ClientInv, TypeOK, SocketInv, NoSocketLeaks, Abort, Stays, TriesAgain, Connects
  <2>5. ASSUME connects <= 1 PROVE ~aborted' /\ OneAttempt' /\ StopHolds'
    <3>1. state_ = "kDisconnected" /\ channel_ = "none" /\ connects = 1
      BY <1>4, <2>2, <2>5 DEF OneAttempt, Attempts, One, ClientInv, TypeOK
    <3>2. todo \notin Starting /\ timers = 0 /\ ~connection_ /\ ~Waits(q, "startInLoop")
      BY <1>1, <1>3, <1>4, <1>5, <2>2, <2>5 DEF OneAttempt, Attempts, One, ClientInv, TypeOK
    <3>3. /\ ~aborted' /\ state_' \in {"kDisconnected", "kConnecting"} /\ timers' \in {0, 1}
          /\ (timers' = 1 => state_' = "kDisconnected") /\ channel_' # "removed"
      BY <1>1, <2>1, <3>1, <3>2 DEF Stays, TriesAgain, Connects
    <3>4. Attempts' <= connects
      <4>1. Attempts' = timers' + One(state_' = "kConnecting")
        BY <1>1, <1>5, <3>1, <3>2, <3>3 DEF Attempts, One
      <4>. QED BY <3>1, <3>3, <4>1, OneOfTwo
    <3>5. OneAttempt'
      BY <1>1, <1>3, <1>4, <1>5, <2>5, <3>1, <3>2, <3>3, <3>4 DEF OneAttempt
    <3>6. StopHolds'
      BY <1>1, <1>4, <1>5, <2>2, <2>5 DEF StopHolds
    <3>. QED BY <3>3, <3>5, <3>6
  <2>. QED BY <1>1, <2>3, <2>4, <2>5 DEF ClientInv, SafeInv
<1>6. CASE Head(toRun) = "resetChannel" /\ channel_' = "none" /\ toRun' = q
           /\ UNCHANGED <<state_, timers, sockets, aborted>>
  <2>1. /\ channel_ = "removed" /\ ~Waits(q, "resetChannel")
        /\ Waits(q, "startInLoop") <=> Waits(toRun, "startInLoop")
        /\ Waits(q, "stopInLoop") <=> Waits(toRun, "stopInLoop")
    BY <1>3, <1>6 DEF ClientInv, SocketInv
  <2>2. TypeOK'
    BY <1>1, <1>2, <1>3, <1>6 DEF ClientInv, TypeOK
  <2>3. SocketInv'
    BY <1>1, <1>2, <1>3, <1>6, <2>1 DEF ClientInv, TypeOK, SocketInv, NoSocketLeaks
  <2>4. ASSUME connects <= 1 PROVE OneAttempt' /\ StopHolds'
    <3>1. Attempts' = Attempts
      BY <1>1, <1>6, <2>1 DEF Attempts, One
    <3>2. OneAttempt'
      BY <1>1, <1>3, <1>4, <1>6, <2>1, <2>4, <3>1 DEF OneAttempt
    <3>3. StopHolds'
      BY <1>1, <1>4, <1>6, <2>1, <2>4 DEF StopHolds
    <3>. QED BY <3>2, <3>3
  <2>. QED BY <1>1, <1>6, <2>2, <2>3, <2>4 DEF ClientInv, SafeInv
<1>7. CASE Head(toRun) = "stopInLoop" /\ stopInLoop(q) /\ UNCHANGED aborted
  <2>1. /\ Waits(q, "resetChannel") <=> Waits(toRun, "resetChannel")
        /\ Waits(q, "startInLoop") <=> Waits(toRun, "startInLoop")
        /\ Waits(toRun, "stopInLoop") /\ \A x : Once(toRun, x) => Once(q, x)
        /\ Waits(q, "stopInLoop") \in BOOLEAN
    BY <1>3, <1>7, ZenonT(30) DEF Waits
  <2>2. CASE state_ # "kConnecting"
    <3>1. toRun' = q /\ UNCHANGED <<channel_, state_, timers, sockets>>
      BY <1>7, <2>2 DEF stopInLoop
    <3>2. TypeOK'
      BY <1>1, <1>2, <1>3, <1>7, <3>1 DEF ClientInv, TypeOK
    <3>3. SocketInv'
      BY <1>1, <1>2, <1>3, <2>1, <2>2, <3>1 DEF ClientInv, TypeOK, SocketInv, NoSocketLeaks
    <3>4. ASSUME connects <= 1 PROVE OneAttempt' /\ StopHolds'
      <4>1. Attempts' = Attempts
        BY <1>1, <2>1, <3>1 DEF Attempts, One
      <4>2. ResetFirst => ResetFirst'
        BY <1>1, <1>3, <3>1 DEF ResetFirst
      <4>3. OneAttempt'
        BY <1>1, <1>2, <1>4, <2>1, <3>1, <3>4, <4>1, <4>2 DEF OneAttempt
      <4>4. StopHolds'
        BY <1>1, <1>4, <2>1, <3>1, <3>4 DEF StopHolds
      <4>. QED BY <4>3, <4>4
    <3>. QED BY <1>1, <1>7, <3>2, <3>3, <3>4 DEF ClientInv, SafeInv
  <2>3. CASE state_ = "kConnecting"
    <3>1. /\ toRun' = Append(q, "resetChannel") /\ channel_' = "removed"
          /\ sockets' = sockets - 1 /\ state_' = "kDisconnected"
          /\ timers' = IF connect_ THEN timers + 1 ELSE timers
      BY <1>7, <2>3 DEF stopInLoop, removeAndResetChannel, retry
    <3>2. channel_ = "added" /\ ~connection_ /\ ~Waits(q, "resetChannel")
      BY <2>1, <2>3 DEF ClientInv, SocketInv
    <3>3. /\ toRun' \in Seq(Functors) /\ Len(toRun') = Len(q) + 1
          /\ Waits(toRun', "resetChannel") /\ Once(toRun', "resetChannel")
          /\ Waits(toRun', "startInLoop") <=> Waits(toRun, "startInLoop")
          /\ Waits(toRun', "stopInLoop") <=> Waits(q, "stopInLoop")
          /\ Once(toRun, "startInLoop") => Once(toRun', "startInLoop")
      <4>1. "resetChannel" \in Functors /\ Once(q, "resetChannel")
        BY <2>1 DEF Functors, ClientInv, SocketInv
      <4>2. /\ toRun' \in Seq(Functors) /\ Len(toRun') = Len(q) + 1
            /\ \A x : Waits(toRun', x) <=> Waits(q, x) \/ x = "resetChannel"
            /\ \A x : Once(q, x) /\ (x = "resetChannel" => ~Waits(q, x)) => Once(toRun', x)
        BY <1>3, <3>1, <4>1, AppendFacts, ZenonT(30)
      <4>. QED BY <2>1, <3>2, <4>1, <4>2
    <3>4. TypeOK'
      <4>1. timers' \in Nat /\ batch' \in Nat
        BY <1>1, <1>2, <3>1 DEF ClientInv, TypeOK
      <4>. QED BY <1>1, <1>2, <1>7, <3>1, <3>3, <4>1 DEF ClientInv, TypeOK
    <3>5. SocketInv'
      BY <1>1, <1>2, <1>3, <2>3, <3>1, <3>2, <3>3
         DEF ClientInv, TypeOK, SocketInv, NoSocketLeaks
    <3>6. ASSUME connects <= 1 PROVE OneAttempt' /\ StopHolds'
      <4>1. /\ todo \notin Starting /\ timers = 0 /\ connects = 1
            /\ ~Waits(toRun, "startInLoop")
        BY <1>4, <2>3, <3>6 DEF OneAttempt, ClientInv, TypeOK
      <4>2. connect_ => overruled
        BY <1>4, <2>1, <3>6 DEF StopHolds
      <4>3. Attempts' = timers'
        BY <1>1, <3>1, <3>2, <3>3, <4>1 DEF Attempts, One, ClientInv, TypeOK
      <4>4. timers' \in {0, 1} /\ (~overruled => timers' = 0)
        BY <3>1, <4>1, <4>2 DEF ClientInv, TypeOK
      <4>5. OneAttempt'
        BY <1>1, <1>4, <3>1, <3>3, <3>6, <4>1, <4>3, <4>4 DEF OneAttempt
      <4>6. StopHolds'
        BY <1>1, <1>4, <2>1, <3>6, <4>2 DEF StopHolds
      <4>. QED BY <4>5, <4>6
    <3>. QED BY <1>1, <1>7, <3>4, <3>5, <3>6 DEF ClientInv, SafeInv
  <2>. QED BY <2>2, <2>3
<1>. QED BY <1>5, <1>6, <1>7 DEF RunQueued
-----------------------------------------------------------------------------
(***************************************************************************)
(* The calls of the other thread                                           *)
(***************************************************************************)
\* connect() begins (TcpClient.cc:73).
LEMMA ConnectStep == ClientInv /\ connect => ClientInv'
<1>. SUFFICES ASSUME ClientInv, connect PROVE ClientInv'
  OBVIOUS
<1>1. /\ ~aborted /\ todo = <<>> /\ connects' = connects + 1 /\ stopped' = FALSE
      /\ todo' = <<"want", "connect", "startInLoop">>
      /\ UNCHANGED <<ownVars, connectorVars, loopVars, overruled, aborted>>
  BY DEF connect, Call
<1>. USE DEF ownVars, connectorVars, loopVars
<1>2. todo' \in Starting /\ todo' \notin Stopping /\ todo \notin Starting
      /\ todo' # <<"stopInLoop">>
  BY <1>1, CallsDiffer DEF Starting, Stopping
<1>3. TypeOK'
  <2>1. connects' \in Nat
    BY <1>1 DEF ClientInv, TypeOK
  <2>2. stopped' \in BOOLEAN
    BY <1>1, Zenon
  <2>. QED BY <1>1, <1>2, <2>1, <2>2 DEF ClientInv, TypeOK
<1>4. SocketInv'
  BY <1>1 DEF ClientInv, TypeOK, SocketInv, NoSocketLeaks
<1>5. ASSUME connects' <= 1 PROVE OneAttempt' /\ StopHolds'
  <2>1. connects = 0 /\ OneAttempt /\ StopHolds
    BY <1>1, <1>5 DEF ClientInv, TypeOK, SafeInv
  <2>2. Attempts' = Attempts + 1
    BY <1>1, <1>2 DEF Attempts, One, ClientInv, TypeOK
  <2>3. Attempts <= 0 /\ Attempts \in Nat
    BY <2>1 DEF OneAttempt, Attempts, One, ClientInv, TypeOK
  <2>4. OneAttempt'
    BY <1>1, <1>2, <2>1, <2>2, <2>3 DEF OneAttempt
  <2>5. StopHolds'
    BY <1>1, <1>2, <2>1 DEF StopHolds
  <2>. QED BY <2>4, <2>5
<1>. QED BY <1>1, <1>3, <1>4, <1>5 DEF ClientInv, SafeInv

\* stop() or disconnect() begins (TcpClient.cc:79, 90).
LEMMA StopStep == ClientInv /\ (stop \/ disconnect) => ClientInv'
<1>. SUFFICES ASSUME ClientInv, stop \/ disconnect PROVE ClientInv'
  OBVIOUS
<1>1. /\ ~aborted /\ todo = <<>> /\ connects > 0 /\ stopped' = FALSE
      /\ todo' \in {<<"unwant", "disconnect", "stopInLoop">>, <<"unwant">>}
      /\ UNCHANGED <<connects, ownVars, connectorVars, loopVars, overruled, aborted>>
  BY DEF stop, disconnect, Call
<1>. USE DEF ownVars, connectorVars, loopVars
<1>2. todo' \notin Starting \cup Stopping /\ todo \notin Starting /\ todo' # <<"stopInLoop">>
  BY <1>1, CallsDiffer
<1>3. TypeOK'
  <2>1. stopped' \in BOOLEAN
    BY <1>1, ZenonT(30)
  <2>. QED BY <1>1, <2>1 DEF ClientInv, TypeOK
<1>4. SocketInv'
  BY <1>1 DEF ClientInv, TypeOK, SocketInv, NoSocketLeaks
<1>5. ASSUME connects <= 1 PROVE OneAttempt' /\ StopHolds'
  <2>1. OneAttempt /\ StopHolds
    BY <1>1, <1>5 DEF ClientInv, SafeInv
  <2>2. Attempts' = Attempts
    BY <1>1, <1>2 DEF Attempts, One
  <2>3. ResetFirst' = ResetFirst
    BY <1>1 DEF ResetFirst
  <2>4. OneAttempt'
    BY <1>1, <1>2, <2>1, <2>2, <2>3 DEF OneAttempt, ClientInv, TypeOK
  <2>5. StopHolds'
    BY <1>1, <1>2, <2>1 DEF StopHolds
  <2>. QED BY <2>4, <2>5
<1>. QED BY <1>1, <1>3, <1>4, <1>5 DEF ClientInv, SafeInv

\* A call writes a flag (TcpClient.cc:75, 82, 92; Connector.cc:21, 43).
LEMMA FlagStep ==
  ASSUME ClientInv, CallGoesOn, Head(todo) \notin Functors
  PROVE  ClientInv'
<1>1. /\ ~aborted /\ todo # <<>> /\ todo' = Tail(todo) /\ WriteFlag(Head(todo))
      /\ stopped' = (Head(todo) = "stopInLoop")
      /\ UNCHANGED <<toRun, retry_, connection_, state_, channel_, timers, phase, revents, batch,
                     sockets, connects, overruled, aborted>>
  BY DEF CallGoesOn, Functors
<1>2. todo \in {<<"want", "connect", "startInLoop">>, <<"connect", "startInLoop">>,
                <<"unwant", "disconnect", "stopInLoop">>, <<"disconnect", "stopInLoop">>,
                <<"unwant">>}
  BY <1>1, CallFacts DEF ClientInv, TypeOK, Starting, Stopping, Functors
<1>3. /\ todo' \in Starting \cup Stopping \cup {<<>>}
      /\ todo' \in Starting <=> todo \in Starting
      /\ wanted' \in BOOLEAN /\ connect_' \in BOOLEAN /\ stopped' \in BOOLEAN
  <2>1. todo' \in {<<"connect", "startInLoop">>, <<"startInLoop">>, <<"stopInLoop">>,
                   <<"disconnect", "stopInLoop">>, <<>>}
    BY <1>1, <1>2, CallFacts, ZenonT(30)
  <2>2. todo' \in Starting <=> todo \in Starting
    BY <1>1, <1>2, CallFacts, CallsDiffer, ZenonT(30) DEF Starting, Stopping
  <2>3. wanted' \in BOOLEAN /\ connect_' \in BOOLEAN /\ stopped' \in BOOLEAN
    BY <1>1, ZenonT(30) DEF WriteFlag, ClientInv, TypeOK
  <2>. QED BY <2>1, <2>2, <2>3 DEF Starting, Stopping
<1>4. TypeOK'
  BY <1>1, <1>3 DEF ClientInv, TypeOK
<1>5. SocketInv'
  BY <1>1 DEF ClientInv, TypeOK, SocketInv, NoSocketLeaks
<1>6. ASSUME connects <= 1 PROVE OneAttempt' /\ StopHolds'
  <2>1. OneAttempt /\ StopHolds
    BY <1>1, <1>6 DEF ClientInv, SafeInv
  <2>2. Attempts' = Attempts
    BY <1>1, <1>3 DEF Attempts, One
  <2>3. ResetFirst' = ResetFirst
    BY <1>1 DEF ResetFirst
  <2>4. OneAttempt'
    BY <1>1, <1>3, <2>1, <2>2, <2>3 DEF OneAttempt, ClientInv, TypeOK
  <2>5. StopHolds'
    <3>1. CASE todo \in {<<"want", "connect", "startInLoop">>, <<"connect", "startInLoop">>}
      <4>1. todo \in Starting /\ todo' \in Starting /\ toRun = <<>> /\ ~overruled
        BY <1>3, <2>1, <3>1 DEF Starting, OneAttempt, StopHolds
      <4>2. todo' \notin Stopping /\ todo' # <<"stopInLoop">>
        BY <4>1, CallsDiffer DEF Stopping
      <4>3. ~Waits(toRun', "stopInLoop")
        BY <1>1, <4>1, QueueFacts
      <4>4. todo' = <<"startInLoop">> => connect_'
        <5>1. CASE todo = <<"want", "connect", "startInLoop">>
          BY <1>1, <5>1, CallFacts
        <5>2. CASE todo = <<"connect", "startInLoop">>
          BY <1>1, <5>2, CallFacts DEF WriteFlag
        <5>. QED BY <3>1, <5>1, <5>2
      <4>. QED BY <1>1, <4>1, <4>2, <4>3, <4>4 DEF StopHolds
    <3>2. CASE todo \in {<<"unwant", "disconnect", "stopInLoop">>, <<"unwant">>}
      <4>1. wanted' = FALSE /\ connect_' = connect_
        BY <1>1, <3>2, CallFacts, ZenonT(30) DEF WriteFlag
      <4>2. todo' # <<"stopInLoop">> /\ todo' \notin Starting
        <5>1. todo' \in {<<"disconnect", "stopInLoop">>, <<>>}
          BY <1>1, <3>2, CallFacts, ZenonT(30)
        <5>2. todo' # <<"stopInLoop">>
          BY <5>1
        <5>3. todo \notin Starting
          BY <3>2, CallsDiffer
        <5>. QED BY <1>3, <5>2, <5>3
      <4>3. todo' # <<"startInLoop">>
        BY <4>2 DEF Starting
      <4>. QED BY <1>1, <2>1, <4>1, <4>2, <4>3 DEF StopHolds
    <3>3. CASE todo = <<"disconnect", "stopInLoop">>
      <4>1. wanted' = wanted /\ connect_' = FALSE /\ todo \in Stopping
        BY <1>1, <3>3, CallFacts DEF WriteFlag, Stopping
      <4>2. ~wanted /\ todo' \notin Starting
        BY <1>3, <2>1, <4>1, CallsDiffer DEF StopHolds
      <4>3. todo' # <<"startInLoop">>
        BY <4>2 DEF Starting
      <4>. QED BY <1>1, <2>1, <4>1, <4>2, <4>3 DEF StopHolds
    <3>. QED BY <1>2, <3>1, <3>2, <3>3
  <2>. QED BY <2>4, <2>5
<1>. QED BY <1>1, <1>4, <1>5, <1>6 DEF ClientInv, SafeInv

\* A call queues its functor (Connector.cc:22, 44).
LEMMA QueueStep ==
  ASSUME ClientInv, CallGoesOn, Head(todo) \in Functors
  PROVE  ClientInv'
<1>1. PICK w : w = Head(todo)
  OBVIOUS
<1>2. /\ ~aborted /\ todo # <<>> /\ todo' = Tail(todo) /\ WriteFlag(w)
      /\ stopped' = (w = "stopInLoop")
      /\ UNCHANGED <<retry_, connection_, state_, channel_, timers, phase, revents, batch,
                     sockets, connects, overruled, aborted>>
  BY <1>1 DEF CallGoesOn
<1>3. /\ \/ todo = <<"startInLoop">> /\ w = "startInLoop"
         \/ todo = <<"stopInLoop">> /\ w = "stopInLoop"
      /\ todo' = <<>>
  BY <1>1, <1>2, CallFacts, ZenonT(30) DEF ClientInv, TypeOK, Starting, Stopping, Functors
<1>4. UNCHANGED <<wanted, connect_>> /\ toRun' = Append(toRun, w)
  BY <1>1, <1>2, <1>3, ZenonT(30) DEF WriteFlag, CallGoesOn
<1>5. /\ toRun' \in Seq(Functors) /\ Len(toRun') = Len(toRun) + 1
      /\ Len(toRun) \in Nat
      /\ \A x : Waits(toRun', x) <=> Waits(toRun, x) \/ x = w
      /\ \A x : Once(toRun, x) /\ (x = w => ~Waits(toRun, x)) => Once(toRun', x)
      /\ \A x, n : Within(toRun, x, n) /\ x # w => Within(toRun', x, n)
      /\ \A x, n : Within(toRun', x, n) => Within(toRun, x, n)
  BY <1>1, <1>4, AppendFacts DEF ClientInv, TypeOK
<1>6. /\ todo' \notin Starting /\ todo' \notin Stopping /\ todo' # <<"stopInLoop">>
      /\ (w = "startInLoop" <=> todo \in Starting)
  BY <1>3, CallsDiffer DEF Starting, Stopping
<1>7. TypeOK'
  BY <1>2, <1>3, <1>4, <1>5 DEF ClientInv, TypeOK
<1>8. SocketInv'
  BY <1>2, <1>3, <1>5 DEF ClientInv, TypeOK, SocketInv, NoSocketLeaks
<1>9. ASSUME connects <= 1 PROVE OneAttempt' /\ StopHolds'
  <2>1. OneAttempt /\ StopHolds
    BY <1>2, <1>9 DEF ClientInv, SafeInv
  <2>2. todo \in Starting => ~Waits(toRun, "startInLoop") /\ ~Waits(toRun, "stopInLoop")
    BY <2>1, QueueFacts DEF OneAttempt
  <2>3. Attempts' = Attempts
    BY <1>2, <1>5, <1>6, <2>2 DEF Attempts, One, ClientInv, TypeOK
  <2>4. ResetFirst' <=> ResetFirst
    BY <1>2, <1>3, <1>5 DEF ResetFirst
  <2>5. OneAttempt'
    BY <1>2, <1>3, <1>5, <1>6, <2>1, <2>2, <2>3, <2>4 DEF OneAttempt
  <2>6. StopHolds'
    <3>1. CASE w = "startInLoop"
      <4>1. todo = <<"startInLoop">> /\ connect_ /\ ~overruled
        BY <1>3, <1>6, <2>1, <3>1 DEF StopHolds
      <4>2. ~Waits(toRun', "stopInLoop") /\ todo' # <<"startInLoop">>
        BY <1>3, <1>5, <1>6, <2>2, <3>1
      <4>. QED BY <1>2, <1>4, <1>6, <4>1, <4>2 DEF StopHolds
    <3>2. CASE w = "stopInLoop"
      <4>1. todo \in Stopping /\ todo \notin Starting /\ todo = <<"stopInLoop">>
        BY <1>3, <1>6, <3>2 DEF Stopping
      <4>. QED BY <1>2, <1>4, <1>5, <1>6, <2>1, <3>2, <4>1 DEF StopHolds
    <3>. QED BY <1>3, <3>1, <3>2
  <2>. QED BY <2>5, <2>6
<1>. QED BY <1>2, <1>7, <1>8, <1>9 DEF ClientInv, SafeInv
-----------------------------------------------------------------------------
\* ClientInv is inductive.
LEMMA ClientStep == ClientInv /\ [ClientNext]_clientVars => ClientInv'
<1>. SUFFICES ASSUME ClientInv, [ClientNext]_clientVars PROVE ClientInv'
  OBVIOUS
<1>1. CASE ClientLoop
  BY <1>1, PollStep, EventStep, RestartStep, RunTimerStep, TimerStartsStep, TakeStep, FunctorStep,
     DoneStep DEF ClientLoop
<1>2. CASE removeConnection
  BY <1>2, LostStep
<1>3. CASE connect \/ stop \/ disconnect
  BY <1>3, ConnectStep, StopStep
<1>4. CASE CallGoesOn
  BY <1>4, FlagStep, QueueStep, SMTT(30)
<1>5. CASE UNCHANGED clientVars
  BY <1>5 DEF clientVars, ClientInv, TypeOK, SocketInv, NoSocketLeaks, SafeInv, OneAttempt, StopHolds,
             Attempts, One, ResetFirst
<1>. QED BY <1>1, <1>2, <1>3, <1>4, <1>5 DEF ClientNext

\* TcpClient and Connector keep ClientInv in every behaviour.
THEOREM ClientInductive == ClientSpec => []ClientInv
<1>1. ClientInit => ClientInv
  BY InitClient
<1>2. ClientInv /\ [ClientNext]_clientVars => ClientInv'
  BY ClientStep
<1>. QED BY <1>1, <1>2, PTL DEF ClientSpec

\* With one connect() no assertion of the Connector fails unless restart() overruled a stop(),
\* however many calls of stop() and disconnect() there are (Connector.cc:40, 114, 157), and no
\* socket is lost, however many calls of connect() there are (Connector.cc:93, 153, 173).
THEOREM ClientIsSafe == ClientSpec => []OneConnectIsSafe
<1>1. ClientInv => AssertionsHold
  BY DEF ClientInv, TypeOK, SafeInv, AssertionsHold
<1>2. ClientInv => NoSocketLeaks
  BY DEF ClientInv, SocketInv
<1>3. ClientInv => OneConnectIsSafe
  BY <1>1, <1>2 DEF OneConnectIsSafe
<1>. QED BY <1>3, ClientInductive, PTL
=============================================================================

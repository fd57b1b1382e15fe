----------------------------- MODULE TcpClient -----------------------------
(***************************************************************************)
(* A TcpClient and its Connector (src/JKYi/reactor/TcpClient.cc and        *)
(* Connector.cc): the loop thread, which connects, retries and reconnects, *)
(* and another thread that calls connect(), disconnect() and stop().  A    *)
(* call writes the flags in the thread that makes it and queues the rest   *)
(* in the loop, so every access to a flag is a step of its own.  A failed  *)
(* JKYI_ASSERT ends the process.                                           *)
(***************************************************************************)
EXTENDS Naturals, Sequences

CONSTANTS MaxConnects,  \* calls of connect()
          MaxQueued     \* bound: functors that wait when a call begins

VARIABLES
  wanted,           \* TcpClient::connect_
  retry_,           \* enableRetry() was called
  connection_,      \* the client has a connection
  connect_, state_, \* of the Connector
  channel_,         \* "none", "added" to the poller, or "removed" from it and not reset yet
  timers,           \* runs of startInLoop that retry() has scheduled
  phase, revents,      \* where the loop is; what it has still to handle of an event
  toRun, batch,  \* queued in the loop; how many of them the loop took
  sockets,          \* open descriptors
  todo,             \* the other thread: what remains of the call it is in
  connects,         \* calls of connect()
  stopped,          \* stop() was the last call, and has returned
  overruled,        \* restart() set connect_ after stop() had cleared it
  aborted
connectorVars == <<connect_, state_, channel_, timers, sockets>>
ownVars == <<wanted, retry_, connection_>>
callerVars == <<todo, connects, stopped>>
loopVars == <<phase, revents, toRun, batch>>
clientVars == <<wanted, retry_, connection_, connect_, state_, channel_, timers, phase, revents,
                toRun, batch, sockets, todo, connects, stopped, overruled, aborted>>

ClientInit ==
    /\ wanted = TRUE /\ retry_ \in BOOLEAN /\ connection_ = FALSE
    /\ connect_ = FALSE /\ state_ = "kDisconnected" /\ channel_ = "none" /\ timers = 0
    /\ phase = "poll" /\ revents = {} /\ toRun = <<>> /\ batch = 0
    /\ sockets = 0 /\ todo = <<>> /\ connects = 0
    /\ stopped = FALSE /\ overruled = FALSE /\ aborted = FALSE

Abort == aborted' = TRUE /\ UNCHANGED <<state_, channel_, timers, sockets>>
-----------------------------------------------------------------------------
(***************************************************************************)
(* The Connector, in the loop thread                                       *)
(***************************************************************************)
\* Mutant: the state is left as it was.
retryKeepsState(n, wants) ==
    /\ sockets' = n - 1 /\ UNCHANGED state_
    /\ timers' = IF wants THEN timers + 1 ELSE timers
\* retry(): the socket, one of n, is closed; another try follows if the client still wants one.
retry(n, wants) ==
    /\ sockets' = n - 1 /\ state_' = "kDisconnected"
    /\ timers' = IF wants THEN timers + 1 ELSE timers

connecting ==
    \/ channel_ # "none" /\ Abort
    \/ /\ channel_ = "none"
       /\ state_' = "kConnecting" /\ channel_' = "added" /\ sockets' = sockets + 1
       /\ UNCHANGED <<timers, aborted>>

\* startInLoop() and connect(); wants is connect_.
startInLoop(state, wants) ==
    \/ state # "kDisconnected" /\ Abort
    \/ /\ state = "kDisconnected" /\ ~wants
       /\ state_' = state /\ UNCHANGED <<channel_, timers, sockets, aborted>>
    \/ /\ state = "kDisconnected" /\ wants
       /\ \/ retry(sockets + 1, wants) /\ UNCHANGED <<channel_, aborted>>
          \/ state_' = state /\ UNCHANGED <<channel_, timers, sockets, aborted>>  \* closed at once
          \/ connecting

\* removeAndResetChannel(): the channel itself goes when the loop runs resetChannel.
removeAndResetChannel(q) ==
    /\ channel_' = "removed"
    /\ toRun' = Append(q, "resetChannel")

stopInLoop(q) ==
    IF state_ = "kConnecting"
    THEN removeAndResetChannel(q) /\ retry(sockets, connect_)
    ELSE toRun' = q /\ UNCHANGED <<channel_, state_, timers, sockets>>

handleError ==
    IF state_ = "kConnecting"
    THEN removeAndResetChannel(toRun) /\ retry(sockets, connect_)
    ELSE UNCHANGED <<toRun, channel_, state_, timers, sockets>>

\* newConnection() makes the connection from the socket.
handleWrite ==
    IF state_ = "kConnecting"
    THEN /\ removeAndResetChannel(toRun) /\ UNCHANGED aborted
         /\ \/ retry(sockets, connect_) /\ UNCHANGED connection_    \* SO_ERROR, or a self connect
            \/ /\ state_' = "kConnected" /\ UNCHANGED timers
               /\ IF connect_ THEN connection_' = TRUE /\ UNCHANGED sockets
                              ELSE sockets' = sockets - 1 /\ UNCHANGED connection_
    ELSE /\ aborted' = (state_ # "kDisconnected")
         /\ UNCHANGED <<toRun, channel_, state_, timers, sockets, connection_>>
-----------------------------------------------------------------------------
(***************************************************************************)
(* The loop                                                                *)
(***************************************************************************)
Loop(at) == phase = at /\ ~aborted /\ UNCHANGED <<retry_, callerVars>>

\* The socket that is being connected is writable, or has failed.
pollChannel ==
    /\ Loop("poll") /\ channel_ = "added"
    /\ phase' = "event" /\ revents' \in {{"out"}, {"err", "out"}}
    /\ UNCHANGED <<wanted, connection_, connectorVars, toRun, batch, overruled, aborted>>

handleChannel ==
    /\ Loop("event")
    /\ \/ /\ "err" \in revents /\ revents' = revents \ {"err"} /\ handleError
          /\ UNCHANGED <<connection_, aborted>>
       \/ revents = {"out"} /\ revents' = {} /\ handleWrite
    /\ UNCHANGED <<wanted, connect_, phase, batch, overruled>>

\* The connection ends, and TcpClient::removeConnection looks whether to connect again.
removeConnection ==
    /\ Loop("poll") /\ connection_
    /\ connection_' = FALSE /\ sockets' = sockets - 1
    /\ phase' = IF retry_ /\ wanted THEN "restart" ELSE "event"
    /\ UNCHANGED <<wanted, connect_, state_, channel_, timers, revents, toRun, batch,
                   overruled, aborted>>

\* Connector::restart()
restart ==
    /\ Loop("restart") /\ phase' = "event"
    /\ connect_' = TRUE /\ overruled' = ~connect_
    /\ startInLoop("kDisconnected", TRUE)
    /\ UNCHANGED <<wanted, connection_, revents, toRun, batch>>

RunRetry ==
    /\ Loop("poll") /\ timers > 0 /\ phase' = "timer"
    /\ timers' = timers - 1
    /\ UNCHANGED <<wanted, connection_, connect_, state_, channel_, sockets, revents,
                   toRun, batch, overruled, aborted>>
TimerStarts ==
    /\ Loop("timer") /\ phase' = "event"
    /\ startInLoop(state_, connect_)
    /\ UNCHANGED <<wanted, connection_, connect_, revents, toRun, batch, overruled>>

TakeFunctors ==
    /\ \/ Loop("event") /\ revents = {}
       \/ Loop("poll") /\ toRun # <<>>
    /\ phase' = "functors" /\ batch' = Len(toRun)
    /\ UNCHANGED <<wanted, connection_, connectorVars, revents, toRun, overruled, aborted>>

RunQueued ==
    /\ Loop("functors") /\ batch > 0 /\ batch' = batch - 1
    /\ \/ /\ Head(toRun) = "startInLoop" /\ startInLoop(state_, connect_)
          /\ toRun' = Tail(toRun)
       \/ /\ Head(toRun) = "stopInLoop" /\ stopInLoop(Tail(toRun))
          /\ UNCHANGED aborted
       \/ /\ Head(toRun) = "resetChannel" /\ channel_' = "none"
          /\ toRun' = Tail(toRun) /\ UNCHANGED <<state_, timers, sockets, aborted>>
    /\ UNCHANGED <<wanted, connection_, connect_, phase, revents, overruled>>

QueuedDone ==
    /\ Loop("functors") /\ batch = 0 /\ phase' = "poll"
    /\ UNCHANGED <<wanted, connection_, connectorVars, revents, toRun, batch, overruled,
                   aborted>>

ClientLoop ==
    \/ pollChannel \/ handleChannel \/ restart \/ RunRetry \/ TimerStarts \/ TakeFunctors
    \/ RunQueued \/ QueuedDone
-----------------------------------------------------------------------------
(***************************************************************************)
(* Another thread                                                          *)
(***************************************************************************)
Call(steps) ==
    /\ ~aborted /\ todo = <<>> /\ Len(toRun) <= MaxQueued
    /\ todo' = steps /\ stopped' = FALSE
    /\ UNCHANGED <<ownVars, connectorVars, loopVars, overruled, aborted>>

connect ==
    /\ connects < MaxConnects /\ connects' = connects + 1
    /\ Call(<<"want", "connect", "startInLoop">>)
stop == connects > 0 /\ Call(<<"unwant", "disconnect", "stopInLoop">>) /\ UNCHANGED connects
\* disconnect(): what shutdown() does to a connection leads to removeConnection.
disconnect == connects > 0 /\ Call(<<"unwant">>) /\ UNCHANGED connects

\* Mutant: stop() leaves the connector's flag.
WriteFlagClientOnly(f) ==
    /\ wanted' = IF f = "want" THEN TRUE ELSE IF f = "unwant" THEN FALSE ELSE wanted
    /\ connect_' = IF f = "connect" THEN TRUE ELSE connect_
WriteFlag(f) ==
    /\ wanted' = IF f = "want" THEN TRUE ELSE IF f = "unwant" THEN FALSE ELSE wanted
    /\ connect_' = IF f = "connect" THEN TRUE ELSE IF f = "disconnect" THEN FALSE ELSE connect_

CallGoesOn ==
    /\ ~aborted /\ todo # <<>> /\ todo' = Tail(todo)
    /\ WriteFlag(Head(todo))
    /\ toRun' = IF Head(todo) \in {"startInLoop", "stopInLoop"}
                   THEN Append(toRun, Head(todo)) ELSE toRun
    /\ stopped' = (Head(todo) = "stopInLoop")
    /\ UNCHANGED <<retry_, connection_, state_, channel_, timers, phase, revents, batch, sockets,
                   connects, overruled, aborted>>

ClientNext ==
    \/ ClientLoop \/ removeConnection
    \/ connect \/ stop \/ disconnect \/ CallGoesOn
ClientSpec == ClientInit /\ [][ClientNext]_clientVars
\* The threads run, and an attempt to connect is answered or times out.
ClientFairSpec == ClientSpec /\ WF_clientVars(ClientLoop) /\ WF_clientVars(CallGoesOn)
-----------------------------------------------------------------------------
\* No assertion of the Connector fails (Connector.cc:40, 114, 157) while there was one connect(),
\* unless restart() overruled a stop().
AssertionsHold == aborted => connects > 1 \/ overruled

\* Every socket that was made is being connected, belongs to the connection, or was closed
\* (Connector.cc:93, 153, 173).
NoSocketLeaks ==
    sockets = (IF channel_ = "added" THEN 1 ELSE 0) + (IF connection_ THEN 1 ELSE 0)

\* With one connect() the Connector's assertions hold, whatever stop(), disconnect(), refused
\* attempts, lost connections and retries come together, and no socket is ever lost.
OneConnectIsSafe == AssertionsHold /\ NoSocketLeaks

\* After stop() the client ends up making no more attempts (Connector.cc:49), unless the loop was
\* about to restart the connector when stop() cleared its flag, or the process ended.
StopSettles ==
    stopped ~> \/ ~stopped \/ overruled \/ aborted
               \/ [](stopped => state_ # "kConnecting" /\ timers = 0)
=============================================================================

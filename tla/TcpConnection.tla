--------------------------- MODULE TcpConnection ---------------------------
(***************************************************************************)
(* One connection of a TcpServer (src/JKYi/reactor/TcpConnection.cc and    *)
(* TcpServer.cc) from its acceptance to its destruction: the object and    *)
(* its Channel, the loop it lives in, the loop of the server that keeps    *)
(* it in connections_, another thread that holds a pointer to it and calls *)
(* it, and the peer.  A public method reads or writes state_ in the thread *)
(* that calls it and hands the rest to the loop as a functor, so each      *)
(* access to state_ is a step of its own.  A failed JKYI_ASSERT ends the   *)
(* process.  No writeCompleteCallback_ and no high-water mark are set.     *)
(***************************************************************************)
EXTENDS Naturals, Sequences, Functions

CONSTANTS Messages,     \* what is sent, each once
          MessageSize,  \* bytes of a message
          MaxCalls      \* bound: calls of the other thread

\* What a loop runs, but for the functor that sends m, which is m.
LoopFunctors == {"connectEstablished", "shutdownInLoop", "forceCloseInLoop", "startReadInLoop",
                 "stopReadInLoop", "connectDestroyed"}
ASSUME ConnectionAssumption ==
    MessageSize \in Nat \ {0} /\ Messages \cap (LoopFunctors \cup {"kDisconnecting"}) = {}

VARIABLES
  conn,           \* the TcpConnection, its Channel and its socket
  connections_,   \* the server's map has the connection
  shared,         \* the server has no other loop: conn lives in the loop of the server
  where, received,\* where the loop of conn is; what it has still to handle of an event
  pending, taken, \* functors queued in the loop of conn; how many of them the loop took
  baseFunctors,   \* queued in the loop of the server
  held, callSteps,\* the other thread: it has a pointer; what remains of the call it is in
  calls,          \* its calls, counted for the bound
  sent,           \* the bytes that sendInLoop took
  freed, crashed, \* conn is destroyed; an assertion failed
  late, parked    \* a call reached conn after it was closed; a closed fd was put back into epoll
connVars == <<conn, connections_, shared, where, received, pending, taken, baseFunctors, held,
              callSteps, calls, sent, freed, crashed, late, parked>>
serverVars == <<connections_, shared, baseFunctors>>
otherVars == <<held, callSteps, calls>>

ConnInit ==
    /\ conn = [state_ |-> "kConnecting", reading_ |-> TRUE, events_ |-> {}, index_ |-> "kNew",
               outputBuffer_ |-> <<>>, wire |-> <<>>, fin |-> FALSE,
               peer |-> "open", unread |-> FALSE]
    /\ connections_ = TRUE /\ shared \in BOOLEAN
    /\ where = "poll" /\ received = {} /\ pending = <<"connectEstablished">> /\ taken = 0
    /\ baseFunctors = <<>> /\ held = TRUE /\ callSteps = <<>> /\ calls = 0 /\ sent = <<>>
    /\ freed = FALSE /\ crashed = FALSE /\ late = FALSE /\ parked = FALSE

Bytes(m) == [i \in 1..MessageSize |-> <<m, i>>]
Unsent == {m \in Messages : <<m, 1>> \notin Range(sent)
                            /\ m \notin Range(pending) \cup Range(callSteps)}
\* The message that is sent next; messages differ in nothing else.
NextMessage == IF Unsent = {} THEN {} ELSE {CHOOSE m \in Unsent : TRUE}
-----------------------------------------------------------------------------
(***************************************************************************)
(* Channel and EpollPoller                                                 *)
(***************************************************************************)
isWriting(c) == "out" \in c.events_
isReading(c) == "in" \in c.events_

\* update() after events_ was set: a channel without events leaves epoll, but one that had left is
\* put back whatever its events are.
update(c, events) ==
    [c EXCEPT !.events_ = events,
              !.index_ = IF @ = "kAdded" /\ events = {} THEN "kDeleted" ELSE "kAdded"]

\* What epoll_wait reports of a channel that is in epoll; epoll adds HUP and ERR to any events.
Reported(c, writable) ==
    {e \in {"in", "out"} : e \in c.events_ /\ (e = "in" => c.unread \/ c.peer # "open")
                                            /\ (e = "out" => writable \/ c.peer = "reset")}
    \cup (IF c.peer \in {"reset", "eof"} \/ (c.peer = "fin" /\ c.fin) THEN {"hup"} ELSE {})
    \cup (IF c.peer = "reset" THEN {"err"} ELSE {})
-----------------------------------------------------------------------------
(***************************************************************************)
(* The handlers of the connection, in its loop                             *)
(***************************************************************************)
ConnAbort ==
    /\ crashed' = TRUE
    /\ UNCHANGED <<conn, connections_, pending, baseFunctors, sent, parked>>

shutdownInLoop(c) == IF isWriting(c) THEN c ELSE [c EXCEPT !.fin = TRUE]

\* What write() leaves of c when it takes n bytes of data; the rest is kept for handleWrite.
Broken(c) == c.fin \/ c.peer \in {"reset", "eof"}
Wrote(c, data, n) ==
    [c EXCEPT !.wire = @ \o SubSeq(data, 1, n),
              !.outputBuffer_ = SubSeq(data, n + 1, Len(data))]

\* Mutant: what does not fit is written before what waits.
sendInLoopOvertakes(c, m) ==
    IF c.state_ = "kDisconnected" THEN {c}
    ELSE IF isWriting(c) \/ c.outputBuffer_ # <<>>
    THEN {[c EXCEPT !.outputBuffer_ = Bytes(m) \o @]}
    ELSE {IF n = MessageSize THEN Wrote(c, Bytes(m), n)
          ELSE update(Wrote(c, Bytes(m), n), c.events_ \cup {"out"}) : n \in 0..MessageSize}
\* The connections that sendInLoop may leave: it writes at once if nothing waits, and keeps the
\* rest.  EPIPE and ECONNRESET drop the message.
sendInLoop(c, m) ==
    IF c.state_ = "kDisconnected" THEN {c}
    ELSE IF isWriting(c) \/ c.outputBuffer_ # <<>>
    THEN {update([c EXCEPT !.outputBuffer_ = @ \o Bytes(m)], c.events_ \cup {"out"})}
    ELSE IF Broken(c) THEN {[c EXCEPT !.peer = IF @ = "reset" THEN "eof" ELSE @]}
    ELSE {IF n = MessageSize THEN Wrote(c, Bytes(m), n)
          ELSE update(Wrote(c, Bytes(m), n), c.events_ \cup {"out"}) : n \in 0..MessageSize}
Took(c, m) == c.state_ # "kDisconnected" /\ (isWriting(c) \/ c.outputBuffer_ # <<>> \/ ~Broken(c))

Send(c, m) ==
    /\ conn' \in sendInLoop(c, m)
    /\ sent' = IF Took(c, m) THEN sent \o Bytes(m) ELSE sent

\* The user's callbacks use the connection in its own loop.
UserCallback(c, q) ==
    \/ conn' = c /\ pending' = q /\ UNCHANGED sent
    \/ c.state_ = "kConnected" /\ pending' = q /\ \E m \in NextMessage : Send(c, m)
    \/ /\ c.state_ = "kConnected" /\ pending' = q
       /\ conn' = shutdownInLoop([c EXCEPT !.state_ = "kDisconnecting"])
       /\ UNCHANGED sent
    \/ /\ c.state_ \in {"kConnected", "kDisconnecting"}
       /\ conn' = [c EXCEPT !.state_ = "kDisconnecting"]
       /\ pending' = Append(q, "forceCloseInLoop") /\ UNCHANGED sent

\* TcpServer::removeConnectionInLoop
Erase(q) ==
    /\ connections_' = FALSE
    /\ pending' = Append(q, "connectDestroyed")

\* handleClose runs the close callback, TcpServer::removeConnection.
handleClose(q) ==
    IF conn.state_ \notin {"kConnected", "kDisconnecting"} \/ (shared /\ ~connections_)
    THEN ConnAbort
    ELSE /\ conn' = [update(conn, {}) EXCEPT !.state_ = "kDisconnected"]
         /\ parked' = (parked \/ conn'.index_ = "kAdded")
         /\ IF shared THEN Erase(q) /\ UNCHANGED baseFunctors
            ELSE /\ baseFunctors' = Append(baseFunctors, "removeConnectionInLoop")
                 /\ pending' = q /\ UNCHANGED connections_
         /\ UNCHANGED <<sent, crashed>>

handleConnRead ==
    \/ /\ conn.unread /\ UserCallback([conn EXCEPT !.unread = FALSE], pending)
       /\ UNCHANGED <<connections_, baseFunctors, parked, crashed>>
    \/ ~conn.unread /\ conn.peer \in {"fin", "eof"} /\ handleClose(pending)
    \/ /\ ~conn.unread /\ conn.peer \in {"open", "reset"}   \* EAGAIN or ECONNRESET
       /\ conn' = [conn EXCEPT !.peer = IF @ = "reset" THEN "eof" ELSE @]
       /\ UNCHANGED <<connections_, pending, baseFunctors, sent, parked, crashed>>

\* Mutant: the end of the buffer is not the end of the connection.
DrainedOnly(c) == update(c, c.events_ \ {"out"})
\* All is written: the write event goes, and a shutdown that waited is done.
Drained(c) ==
    LET d == update(c, c.events_ \ {"out"}) IN
    IF c.state_ = "kDisconnecting" THEN shutdownInLoop(d) ELSE d
handleConnWrite ==
    /\ conn' \in IF ~isWriting(conn) THEN {conn}
                 ELSE IF Broken(conn) THEN {[conn EXCEPT !.peer = IF @ = "reset" THEN "eof" ELSE @]}
                 ELSE {LET w == Wrote(conn, conn.outputBuffer_, n) IN
                       IF w.outputBuffer_ = <<>> THEN Drained(w) ELSE w :
                          n \in 1..Len(conn.outputBuffer_)}
    /\ UNCHANGED <<connections_, pending, baseFunctors, sent, parked, crashed>>

\* handleError reads SO_ERROR, which clears it.
handleConnError ==
    /\ conn' = [conn EXCEPT !.peer = IF @ = "reset" THEN "eof" ELSE @]
    /\ UNCHANGED <<connections_, pending, baseFunctors, sent, parked, crashed>>
-----------------------------------------------------------------------------
(***************************************************************************)
(* The loop of the connection                                              *)
(***************************************************************************)
ConnLoop(at) == where = at /\ ~crashed /\ UNCHANGED <<shared, otherVars>>

pollConn(writable) ==
    /\ ConnLoop("poll") /\ conn.index_ = "kAdded" /\ Reported(conn, writable) # {}
    /\ where' = "event" /\ received' = Reported(conn, writable)
    /\ UNCHANGED <<conn, connections_, pending, taken, baseFunctors, sent, freed, crashed, late,
                   parked>>

\* Channel::handleEventWithGuard, one callback at a time.
handleEventWithGuard ==
    /\ ConnLoop("event") /\ received # {}
    /\ \/ "hup" \in received /\ "in" \notin received /\ handleClose(pending)
          /\ received' = received \ {"hup"}
       \/ "hup" \in received /\ "in" \in received /\ received' = received \ {"hup"}
          /\ UNCHANGED <<conn, connections_, pending, baseFunctors, sent, parked, crashed>>
       \/ "hup" \notin received /\ "err" \in received /\ handleConnError
          /\ received' = received \ {"err"}
       \/ received \cap {"hup", "err"} = {} /\ "in" \in received /\ handleConnRead
          /\ received' = received \ {"in"}
       \/ received = {"out"} /\ handleConnWrite /\ received' = {}
    /\ UNCHANGED <<where, taken, freed, late>>

\* doPendingFunctors takes what is queued.
TakePending ==
    /\ \/ ConnLoop("event") /\ received = {}
       \/ ConnLoop("poll") /\ pending # <<>>
    /\ where' = (IF pending = <<>> THEN "poll" ELSE "functors") /\ taken' = Len(pending)
    /\ UNCHANGED <<conn, connections_, received, pending, baseFunctors, sent, freed, crashed, late,
                   parked>>

Start(f) ==
    /\ ConnLoop("functors") /\ taken > 0 /\ pending # <<>> /\ Head(pending) = f
    /\ taken' = taken - 1 /\ where' = IF taken = 1 THEN "poll" ELSE "functors"
    /\ UNCHANGED <<received, freed>>
Rest == Tail(pending)
Used == UNCHANGED <<connections_, baseFunctors, parked>>
\* A functor that is bound to this, and not to a shared pointer, may find the object gone.
Gone == freed /\ ConnAbort /\ UNCHANGED late

connectEstablished ==
    /\ Start("connectEstablished")
    /\ UserCallback(update([conn EXCEPT !.state_ = "kConnected"], {"in"}), Rest)
    /\ Used /\ UNCHANGED <<crashed, late>>

runSendInLoop(m) ==
    /\ Start(m)
    /\ \/ Gone
       \/ ~freed /\ Send(conn, m) /\ pending' = Rest /\ Used /\ UNCHANGED <<crashed, late>>

runShutdownInLoop ==
    /\ Start("shutdownInLoop")
    /\ \/ Gone
       \/ ~freed /\ conn' = shutdownInLoop(conn) /\ pending' = Rest /\ Used
          /\ UNCHANGED <<sent, crashed, late>>

\* Mutant: the state is not tested again.
forceCloseInLoopAlways ==
    Start("forceCloseInLoop") /\ UNCHANGED late /\ handleClose(Rest)
forceCloseInLoop ==
    /\ Start("forceCloseInLoop") /\ UNCHANGED late
    /\ IF conn.state_ \in {"kConnected", "kDisconnecting"} THEN handleClose(Rest)
       ELSE pending' = Rest /\ Used /\ UNCHANGED <<conn, sent, crashed>>

\* startReadInLoop and stopReadInLoop do not look at state_.
Reading(f, on) ==
    /\ Start(f)
    /\ \/ Gone
       \/ /\ ~freed /\ pending' = Rest
          /\ conn' = IF (IF on THEN ~conn.reading_ \/ ~isReading(conn)
                         ELSE conn.reading_ \/ isReading(conn))
                     THEN update([conn EXCEPT !.reading_ = on],
                                 IF on THEN conn.events_ \cup {"in"} ELSE conn.events_ \ {"in"})
                     ELSE conn
          /\ late' = (late \/ conn.state_ = "kDisconnected")
          /\ Used /\ UNCHANGED <<sent, crashed>>
startReadInLoop == Reading("startReadInLoop", TRUE)
stopReadInLoop == Reading("stopReadInLoop", FALSE)

connectDestroyed ==
    /\ Start("connectDestroyed") /\ UNCHANGED late
    /\ LET c == IF conn.state_ = "kConnected"
                THEN update([conn EXCEPT !.state_ = "kDisconnected"], {}) ELSE conn IN
       IF c.events_ # {} \/ c.index_ = "kNew" THEN ConnAbort
       ELSE conn' = [c EXCEPT !.index_ = "kNew"] /\ pending' = Rest /\ Used
            /\ UNCHANGED <<sent, crashed>>

IoLoop ==
    \/ (\E writable \in BOOLEAN : pollConn(writable)) \/ handleEventWithGuard \/ TakePending
    \/ connectEstablished \/ (\E m \in Messages : runSendInLoop(m)) \/ runShutdownInLoop
    \/ forceCloseInLoop \/ startReadInLoop \/ stopReadInLoop \/ connectDestroyed
-----------------------------------------------------------------------------
(***************************************************************************)
(* The loop of the server, another thread, and the peer                    *)
(***************************************************************************)
removeConnectionInLoop ==
    /\ ~crashed /\ baseFunctors # <<>> /\ baseFunctors' = Tail(baseFunctors)
    /\ IF connections_ THEN Erase(pending) /\ UNCHANGED crashed
       ELSE crashed' = TRUE /\ UNCHANGED <<pending, connections_>>
    /\ UNCHANGED <<conn, shared, where, received, taken, otherVars, sent, freed, late, parked>>

Closed == conn.state_ = "kDisconnected"

\* A call that tests state_ goes on only if the test holds.
ConnCall(states, steps) ==
    /\ ~crashed /\ held /\ callSteps = <<>> /\ conn.state_ \in states
    /\ calls < MaxCalls /\ calls' = calls + 1 /\ callSteps' = steps
    /\ UNCHANGED <<conn, serverVars, where, received, pending, taken, held, sent, freed, crashed,
                   late, parked>>
send(m) == m \in NextMessage /\ ConnCall({"kConnected"}, <<m>>)
shutdown == ConnCall({"kConnected"}, <<"kDisconnecting", "shutdownInLoop">>)
forceClose == ConnCall({"kConnected", "kDisconnecting"}, <<"kDisconnecting", "forceCloseInLoop">>)
\* They test nothing; the connection is known since connectEstablished.
startRead == ConnCall({"kConnected", "kDisconnecting", "kDisconnected"}, <<"startReadInLoop">>)
stopRead == ConnCall({"kConnected", "kDisconnecting", "kDisconnected"}, <<"stopReadInLoop">>)

\* The next step of the call: setState(kDisconnecting), or the functor is queued.
ConnCallGoesOn ==
    /\ ~crashed /\ callSteps # <<>> /\ callSteps' = Tail(callSteps)
    /\ late' = (late \/ Closed)
    /\ IF Head(callSteps) = "kDisconnecting"
       THEN conn' = [conn EXCEPT !.state_ = "kDisconnecting"] /\ UNCHANGED pending
       ELSE pending' = Append(pending, Head(callSteps)) /\ UNCHANGED conn
    /\ UNCHANGED <<serverVars, where, received, taken, held, calls, sent, freed, crashed, parked>>

Drop ==
    /\ ~crashed /\ held /\ callSteps = <<>> /\ held' = FALSE
    /\ UNCHANGED <<conn, serverVars, where, received, pending, taken, callSteps, calls, sent, freed,
                   crashed, late, parked>>

\* The last pointer is gone; the loop keeps the functors of a batch until it is through.
Owning == {"connectEstablished", "connectDestroyed", "forceCloseInLoop"}
Destroy ==
    /\ ~crashed /\ ~freed /\ ~held /\ ~connections_ /\ baseFunctors = <<>>
    /\ where = "poll" /\ Range(pending) \cap Owning = {}
    /\ freed' = TRUE
    /\ crashed' = (conn.state_ # "kDisconnected" \/ conn.index_ # "kNew")
    /\ UNCHANGED <<conn, serverVars, where, received, pending, taken, otherVars, sent, late,
                   parked>>

Peer ==
    /\ ~crashed /\ ~freed
    /\ \/ conn.peer = "open" /\ conn' = [conn EXCEPT !.unread = TRUE]
       \/ conn.peer = "open" /\ conn' = [conn EXCEPT !.peer = "fin"]
       \/ conn.peer \in {"open", "fin"} /\ conn' = [conn EXCEPT !.peer = "reset", !.unread = FALSE]
    /\ UNCHANGED <<serverVars, where, received, pending, taken, otherVars, sent, freed, crashed,
                   late, parked>>

ConnNext ==
    \/ IoLoop \/ removeConnectionInLoop
    \/ (\E m \in Messages : send(m)) \/ shutdown \/ forceClose \/ startRead \/ stopRead
    \/ ConnCallGoesOn \/ Drop \/ Destroy \/ Peer
ConnSpec == ConnInit /\ [][ConnNext]_connVars
\* The threads run, and a peer that stays connected reads what it is sent.
ConnFairness ==
    /\ WF_connVars(IoLoop) /\ WF_connVars(removeConnectionInLoop) /\ WF_connVars(ConnCallGoesOn)
    /\ SF_connVars(pollConn(TRUE) /\ "out" \in received')
ConnFairSpec == ConnSpec /\ ConnFairness
-----------------------------------------------------------------------------
\* No assertion of TcpConnection, TcpServer or Channel fails and no functor finds the connection
\* gone, whatever closes the connection, the peer, the loop or another thread
\* (TcpConnection.cc:55, 297; TcpServer.cc:106; channel.cc:33, 48), unless a call of the other
\* thread overlapped or followed the close, or the closed channel was put back into epoll because
\* it had no events before (epollPoller.cc:89).
ClosesOnce == crashed => late \/ parked

\* The peer gets the messages whole and in the order sendInLoop took them, and the end of the
\* stream only after them as long as the connection is not closed, however the kernel cuts the
\* writes (TcpConnection.cc:116, 145, 280).
InOrderThenFin ==
    /\ conn.wire \o conn.outputBuffer_ = sent
    /\ conn.fin => conn.outputBuffer_ = <<>> \/ Closed \/ late

\* A shutdown() of a live connection is finished: the peer gets the end of the stream, or the
\* connection is closed (TcpConnection.cc:152, 280).
ShutdownSendsFin ==
    conn.state_ = "kDisconnecting" ~> conn.fin \/ conn.state_ = "kDisconnected" \/ crashed
=============================================================================

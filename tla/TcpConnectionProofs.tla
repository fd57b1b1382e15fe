------------------------- MODULE TcpConnectionProofs ------------------------
(***************************************************************************)
(* A connection closes once and sends in order (TcpConnection.cc,          *)
(* TcpServer.cc).  ConnInv follows the connection through its life: it is  *)
(* new, up, closing (the loop of the server has not dropped it yet),       *)
(* erased (connectDestroyed is the last functor of its loop) or destroyed. *)
(* Each phase says what the two loops have queued, what the Channel and    *)
(* epoll know of each other and who may still use the object.  Nothing is  *)
(* said of the phase once a call reached a closed connection (late) or a   *)
(* closed channel went back into epoll (parked); the order of the bytes    *)
(* holds even then.                                                        *)
(***************************************************************************)
EXTENDS TcpConnection, SequenceTheorems, TLAPS

\* Most steps need no arithmetic: Zenon is tried before SMT.
USE ZenonT(10), SMTT(15)

Byte == Messages \X (1..MessageSize)
ConnFunctor == LoopFunctors \cup Messages
\* What a call of the other thread consists of.
CallStep == {"kDisconnecting", "shutdownInLoop", "forceCloseInLoop", "startReadInLoop",
             "stopReadInLoop"} \cup Messages
Connection ==
    [state_ : {"kConnecting", "kConnected", "kDisconnecting", "kDisconnected"},
     reading_ : BOOLEAN, events_ : SUBSET {"in", "out"}, index_ : {"kNew", "kAdded", "kDeleted"},
     outputBuffer_ : Seq(Byte), wire : Seq(Byte), fin : BOOLEAN,
     peer : {"open", "fin", "reset", "eof"}, unread : BOOLEAN]

ConnTypeOK ==
    /\ conn \in Connection /\ connections_ \in BOOLEAN /\ shared \in BOOLEAN
    /\ where \in {"poll", "event", "functors"} /\ received \in SUBSET {"in", "out", "hup", "err"}
    /\ pending \in Seq(ConnFunctor) /\ taken \in Nat /\ callSteps \in Seq(CallStep)
    /\ sent \in Seq(Byte) /\ late \in BOOLEAN /\ parked \in BOOLEAN
    /\ where # "event" => received = {}

\* What is queued: connectEstablished as long as the connection is new, and never again; and
\* connectDestroyed last.
NoNew(q) == \A i \in DOMAIN q : q[i] # "connectEstablished"
NoEnds(q) == \A i \in DOMAIN q : q[i] \notin {"connectEstablished", "connectDestroyed"}
Ending(q) == \E p \in Seq(ConnFunctor) : q = Append(p, "connectDestroyed") /\ NoEnds(p)
Established ==
    /\ conn.state_ = "kConnecting" =>
          /\ pending = <<"connectEstablished">> /\ callSteps = <<>> /\ received = {}
          /\ conn.events_ = {} /\ conn.index_ = "kNew" /\ conn.outputBuffer_ = <<>> /\ ~conn.fin
          /\ connections_ /\ baseFunctors = <<>> /\ ~freed /\ ~crashed
    /\ conn.state_ # "kConnecting" => NoNew(pending)

\* What waits has its write event, and a connection that has sent its end waits for none.
Flushing(c) == (c.outputBuffer_ # <<>> => isWriting(c)) /\ (c.fin => ~isWriting(c))
Flushed == late \/ Closed \/ Flushing(conn)

\* A channel that epoll knows.
Polled(c) == c.index_ # "kNew" /\ (c.index_ = "kDeleted" => c.events_ = {})
\* The life of a connection that no late call and no parked channel disturbs.
Up ==
    /\ conn.state_ \in {"kConnected", "kDisconnecting"}
    /\ Polled(conn) /\ connections_ /\ baseFunctors = <<>> /\ ~freed /\ NoEnds(pending)
Shut == conn.state_ = "kDisconnected" /\ conn.events_ = {} /\ received \cap {"in", "hup"} = {}
Closing ==
    /\ Shut /\ conn.index_ = "kDeleted" /\ connections_ /\ ~shared /\ ~freed
    /\ baseFunctors = <<"removeConnectionInLoop">> /\ NoEnds(pending)
Erased ==
    /\ Shut /\ conn.index_ = "kDeleted" /\ ~connections_ /\ ~freed /\ baseFunctors = <<>>
    /\ Ending(pending)
Destroyed ==
    Shut /\ conn.index_ = "kNew" /\ ~connections_ /\ baseFunctors = <<>> /\ pending = <<>>
Life == ~crashed /\ (conn.state_ = "kConnecting" \/ Up \/ Closing \/ Erased \/ Destroyed)

ConnInv ==
    /\ ConnTypeOK /\ Established /\ Flushed
    /\ conn.wire \o conn.outputBuffer_ = sent
    /\ late \/ parked \/ Life
-----------------------------------------------------------------------------
(***************************************************************************)
(* The operators on connections                                            *)
(***************************************************************************)
\* What a step on the connection leaves: the state, and what the invariant says of the rest.
Keeps(c, d) ==
    /\ d \in Connection /\ d.state_ = c.state_
    /\ (Flushing(c) => Flushing(d)) /\ (Polled(c) => Polled(d))
\* Nothing changes but what the peer did.
SameEnd(c, d) ==
    /\ d \in Connection /\ d.state_ = c.state_ /\ d.events_ = c.events_ /\ d.index_ = c.index_
    /\ d.outputBuffer_ = c.outputBuffer_ /\ d.wire = c.wire /\ d.fin = c.fin

\* What the peer does disturbs nothing of the connection.
LEMMA SameEndKeeps ==
    ASSUME NEW c, NEW d, SameEnd(c, d)
    PROVE  Keeps(c, d) /\ d.wire \o d.outputBuffer_ = c.wire \o c.outputBuffer_
BY DEF SameEnd, Keeps, Flushing, Polled, isWriting

\* The fields after update().
LEMMA UpdateFields ==
    ASSUME NEW c \in Connection, NEW ev \in SUBSET {"in", "out"}
    PROVE  /\ update(c, ev) \in Connection
           /\ update(c, ev).events_ = ev
           /\ update(c, ev).index_
                = (IF c.index_ = "kAdded" /\ ev = {} THEN "kDeleted" ELSE "kAdded")
           /\ update(c, ev).state_ = c.state_ /\ update(c, ev).outputBuffer_ = c.outputBuffer_
           /\ update(c, ev).wire = c.wire /\ update(c, ev).fin = c.fin
           /\ update(c, ev).peer = c.peer /\ update(c, ev).unread = c.unread
BY DEF update, Connection

\* A channel that was updated is known to epoll (epollPoller.cc:83).
LEMMA PolledAfterUpdate ==
    ASSUME NEW c \in Connection, NEW ev \in SUBSET {"in", "out"}
    PROVE  Polled(update(c, ev))
BY UpdateFields DEF Polled

\* Bytes are concatenated in any order of the operations.
LEMMA BytesConcat == \A s, t, u \in Seq(Byte) : (s \o t) \o u = s \o (t \o u)
BY ConcatAssociative, SMTT(30)

\* What write() does with data, when it is all that waits or nothing does.
LEMMA WroteFields ==
    ASSUME NEW c \in Connection, NEW data \in Seq(Byte), NEW n \in 0..Len(data)
    PROVE  /\ Wrote(c, data, n) \in Connection
           /\ Wrote(c, data, n).wire \o Wrote(c, data, n).outputBuffer_ = c.wire \o data
           /\ Wrote(c, data, n).outputBuffer_ = SubSeq(data, n + 1, Len(data))
           /\ n = Len(data) => Wrote(c, data, n).outputBuffer_ = <<>>
           /\ Wrote(c, data, n).state_ = c.state_ /\ Wrote(c, data, n).fin = c.fin
           /\ Wrote(c, data, n).events_ = c.events_ /\ Wrote(c, data, n).index_ = c.index_
<1> DEFINE a == SubSeq(data, 1, n)
           b == SubSeq(data, n + 1, Len(data))
<1>0. Len(data) \in Nat /\ n \in Nat /\ n <= Len(data) /\ DOMAIN data = 1..Len(data)
  BY LenProperties, SMTT(15)
<1>1. a \in Seq(Byte) /\ b \in Seq(Byte)
  <2>1. \A i \in 1..n : data[i] \in Byte
    BY <1>0, ElementOfSeq
  <2>2. \A i \in n + 1..Len(data) : data[i] \in Byte
    BY <1>0, ElementOfSeq
  <2> QED
    BY <1>0, <2>1, <2>2, SubSeqProperties, SMTT(15)
<1>2. a \o b = data
  <2>1. a \o b = SubSeq(data, 1, Len(data))
    <3>1. 1 \in 1..Len(data) + 1 /\ n \in 1 - 1..Len(data) /\ Len(data) \in n..Len(data)
      BY <1>0
    <3> QED
      BY <3>1, ConcatAdjacentSubSeq
  <2> QED
    BY <2>1, SubSeqFull
<1>3. n = Len(data) => b = <<>>
  BY <1>0, SubSeqEmpty
<1> HIDE DEF a, b
<1>4. Wrote(c, data, n) = [c EXCEPT !.wire = @ \o a, !.outputBuffer_ = b]
  BY DEF Wrote, a, b
<1>5. c.wire \in Seq(Byte) /\ c.wire \o a \in Seq(Byte)
  BY <1>1, ConcatProperties DEF Connection
<1>6. /\ Wrote(c, data, n) \in Connection
      /\ Wrote(c, data, n).wire = c.wire \o a /\ Wrote(c, data, n).outputBuffer_ = b
      /\ Wrote(c, data, n).state_ = c.state_ /\ Wrote(c, data, n).fin = c.fin
      /\ Wrote(c, data, n).events_ = c.events_ /\ Wrote(c, data, n).index_ = c.index_
  BY <1>1, <1>4, <1>5 DEF Connection
<1>7. (c.wire \o a) \o b = c.wire \o data
  <2>1. (c.wire \o a) \o b = c.wire \o (a \o b)
    BY <1>1, <1>5, BytesConcat, ZenonT(30)
  <2> QED
    BY <1>2, <2>1
<1> QED
  BY <1>3, <1>6, <1>7 DEF b

\* The bytes of a message.
LEMMA BytesType ==
    ASSUME NEW m \in Messages
    PROVE  Bytes(m) \in Seq(Byte) /\ Len(Bytes(m)) = MessageSize
<1>1. MessageSize \in Nat
  BY ConnectionAssumption
<1>2. \A i \in 1..MessageSize : <<m, i>> \in Byte
  BY DEF Byte
<1> QED
  BY <1>1, <1>2 DEF Bytes

\* sendInLoop keeps the connection sound, and the message whole behind the ones before.
LEMMA SendKeeps ==
    ASSUME NEW c \in Connection, NEW m \in Messages, NEW d \in sendInLoop(c, m)
    PROVE  /\ Keeps(c, d)
           /\ d.wire \o d.outputBuffer_ = IF Took(c, m) THEN (c.wire \o c.outputBuffer_) \o Bytes(m)
                                          ELSE c.wire \o c.outputBuffer_
           /\ c.state_ = "kDisconnected" => d = c
<1>0. /\ Bytes(m) \in Seq(Byte) /\ Len(Bytes(m)) = MessageSize /\ MessageSize \in Nat
      /\ c.outputBuffer_ \in Seq(Byte) /\ c.wire \in Seq(Byte) /\ c.events_ \in SUBSET {"in", "out"}
      /\ c.events_ \cup {"out"} \in SUBSET {"in", "out"}
  BY BytesType, ConnectionAssumption DEF Connection
<1>1. CASE c.state_ = "kDisconnected"
  <2>1. d = c /\ ~Took(c, m)
    BY <1>1 DEF sendInLoop, Took
  <2> QED
    BY <2>1 DEF Keeps
<1>2. CASE c.state_ # "kDisconnected" /\ (isWriting(c) \/ c.outputBuffer_ # <<>>)
  <2> DEFINE e == [c EXCEPT !.outputBuffer_ = @ \o Bytes(m)]
  <2>1. d = update(e, c.events_ \cup {"out"}) /\ Took(c, m)
    BY <1>2 DEF sendInLoop, Took
  <2>2. c.outputBuffer_ \o Bytes(m) \in Seq(Byte)
    BY <1>0, ConcatProperties
  <2>3. /\ e \in Connection /\ e.outputBuffer_ = c.outputBuffer_ \o Bytes(m) /\ e.wire = c.wire
        /\ e.state_ = c.state_ /\ e.fin = c.fin
    BY <2>2 DEF Connection
  <2> HIDE DEF e
  <2>4. /\ d \in Connection /\ d.state_ = c.state_ /\ d.events_ = c.events_ \cup {"out"}
        /\ d.outputBuffer_ = c.outputBuffer_ \o Bytes(m) /\ d.wire = c.wire /\ d.fin = c.fin
        /\ Polled(d)
    <3> DEFINE ev == c.events_ \cup {"out"}
    <3>1. ev \in SUBSET {"in", "out"}
      BY <1>0
    <3> HIDE DEF ev
    <3>2. d = update(e, ev)
      BY <2>1 DEF ev
    <3>3. /\ d \in Connection /\ d.state_ = e.state_ /\ d.events_ = ev
          /\ d.outputBuffer_ = e.outputBuffer_ /\ d.wire = e.wire /\ d.fin = e.fin
      BY <2>3, <3>1, <3>2, UpdateFields, SMTT(15)
    <3>4. Polled(d)
      BY <2>3, <3>1, <3>2, PolledAfterUpdate
    <3> QED
      BY <2>3, <3>3, <3>4 DEF ev
  <2>5. isWriting(d) /\ (Flushing(c) => ~c.fin)
    BY <1>2, <2>4 DEF isWriting, Flushing
  <2>6. Keeps(c, d)
    BY <2>4, <2>5 DEF Keeps, Flushing
  <2>7. d.wire \o d.outputBuffer_ = (c.wire \o c.outputBuffer_) \o Bytes(m)
    <3>1. (c.wire \o c.outputBuffer_) \o Bytes(m) = c.wire \o (c.outputBuffer_ \o Bytes(m))
      BY <1>0, BytesConcat
    <3> QED
      BY <2>4, <3>1
  <2> QED
    BY <1>2, <2>1, <2>6, <2>7
<1>3. CASE c.state_ # "kDisconnected" /\ ~(isWriting(c) \/ c.outputBuffer_ # <<>>) /\ Broken(c)
  <2>1. d = [c EXCEPT !.peer = IF @ = "reset" THEN "eof" ELSE @] /\ ~Took(c, m)
    BY <1>3 DEF sendInLoop, Took
  <2>2. SameEnd(c, d)
    BY <2>1 DEF SameEnd, Connection
  <2> QED
    BY <1>3, <2>1, <2>2, SameEndKeeps
<1>4. CASE c.state_ # "kDisconnected" /\ ~(isWriting(c) \/ c.outputBuffer_ # <<>>) /\ ~Broken(c)
  <2>0. Took(c, m) /\ c.outputBuffer_ = <<>> /\ ~isWriting(c) /\ ~c.fin
    BY <1>4 DEF Took, Broken
  <2>1. PICK n \in 0..MessageSize :
           d = IF n = MessageSize THEN Wrote(c, Bytes(m), n)
               ELSE update(Wrote(c, Bytes(m), n), c.events_ \cup {"out"})
    BY <1>4 DEF sendInLoop
  <2> DEFINE w == Wrote(c, Bytes(m), n)
  <2>2. /\ w \in Connection /\ w.wire \o w.outputBuffer_ = c.wire \o Bytes(m)
        /\ n = MessageSize => w.outputBuffer_ = <<>>
        /\ w.state_ = c.state_ /\ w.fin = c.fin /\ w.events_ = c.events_ /\ w.index_ = c.index_
    BY <1>0, <2>1, WroteFields
  <2>3. c.wire \o Bytes(m) = (c.wire \o c.outputBuffer_) \o Bytes(m)
    BY <1>0, <2>0, ConcatEmptySeq
  <2> HIDE DEF w
  <2>4. CASE n = MessageSize
    <3>1. d = w
      BY <2>1, <2>4 DEF w
    <3>2. Keeps(c, d)
      BY <2>0, <2>2, <2>4, <3>1 DEF Keeps, Flushing, Polled, isWriting
    <3> QED
      BY <1>4, <2>0, <2>2, <2>3, <3>1, <3>2
  <2>5. CASE n # MessageSize
    <3>1. d = update(w, c.events_ \cup {"out"})
      BY <2>1, <2>5 DEF w
    <3>2. /\ d \in Connection /\ d.state_ = c.state_ /\ d.events_ = c.events_ \cup {"out"}
          /\ d.outputBuffer_ = w.outputBuffer_ /\ d.wire = w.wire /\ d.fin = c.fin
          /\ Polled(d)
      BY <1>0, <2>2, <3>1, UpdateFields, PolledAfterUpdate, SMTT(15)
    <3>3. Keeps(c, d)
      BY <2>0, <3>2 DEF Keeps, Flushing, isWriting
    <3> QED
      BY <1>4, <2>0, <2>2, <2>3, <3>2, <3>3
  <2> QED
    BY <2>4, <2>5
<1> QED
  BY <1>1, <1>2, <1>3, <1>4

\* The end of the stream.
LEMMA ShutdownFields ==
    ASSUME NEW c \in Connection
    PROVE  /\ shutdownInLoop(c) \in Connection
           /\ shutdownInLoop(c).state_ = c.state_ /\ shutdownInLoop(c).events_ = c.events_
           /\ shutdownInLoop(c).index_ = c.index_ /\ shutdownInLoop(c).wire = c.wire
           /\ shutdownInLoop(c).outputBuffer_ = c.outputBuffer_
           /\ Keeps(c, shutdownInLoop(c))
<1>1. CASE isWriting(c)
  BY <1>1 DEF shutdownInLoop, Keeps
<1>2. CASE ~isWriting(c)
  <2> DEFINE d == [c EXCEPT !.fin = TRUE]
  <2>1. shutdownInLoop(c) = d
    BY <1>2 DEF shutdownInLoop
  <2>2. /\ d \in Connection /\ d.state_ = c.state_ /\ d.events_ = c.events_ /\ d.index_ = c.index_
        /\ d.wire = c.wire /\ d.outputBuffer_ = c.outputBuffer_
    BY DEF Connection
  <2> HIDE DEF d
  <2>3. Keeps(c, d)
    BY <1>2, <2>2 DEF Keeps, Flushing, Polled, isWriting
  <2> QED
    BY <2>1, <2>2, <2>3
<1> QED
  BY <1>1, <1>2

\* The callbacks of the user.
LEMMA CallbackKeeps ==
    ASSUME NEW c \in Connection, NEW q, UserCallback(c, q),
           c.wire \o c.outputBuffer_ = sent, sent \in Seq(Byte)
    PROVE  /\ conn' \in Connection /\ sent' \in Seq(Byte)
           /\ conn'.wire \o conn'.outputBuffer_ = sent'
           /\ (Flushing(c) => Flushing(conn')) /\ (Polled(c) => Polled(conn'))
           /\ c.state_ \in {"kConnected", "kDisconnecting"} =>
                 /\ conn'.state_ \in {"kConnected", "kDisconnecting"}
                 /\ pending' = q \/ pending' = Append(q, "forceCloseInLoop")
           /\ c.state_ \notin {"kConnected", "kDisconnecting"} => conn' = c /\ pending' = q
<1> DEFINE e == [c EXCEPT !.state_ = "kDisconnecting"]
<1>0. /\ e \in Connection /\ e.state_ = "kDisconnecting" /\ e.events_ = c.events_
      /\ e.index_ = c.index_ /\ e.outputBuffer_ = c.outputBuffer_ /\ e.wire = c.wire
      /\ e.fin = c.fin
  BY DEF Connection
<1>00. (Flushing(c) => Flushing(e)) /\ (Polled(c) => Polled(e))
  <2> HIDE DEF e
  <2> QED
    BY <1>0 DEF Flushing, Polled, isWriting
<1>1. CASE conn' = c /\ pending' = q /\ UNCHANGED sent
  BY <1>1
<1>2. CASE c.state_ = "kConnected" /\ pending' = q /\ \E m \in NextMessage : Send(c, m)
  <2>1. PICK m \in NextMessage : Send(c, m)
    BY <1>2
  <2>2. m \in Messages
    BY DEF NextMessage, Unsent
  <2>3. conn' \in sendInLoop(c, m) /\ sent' = IF Took(c, m) THEN sent \o Bytes(m) ELSE sent
    BY <2>1 DEF Send
  <2>4. Keeps(c, conn') /\ conn'.wire \o conn'.outputBuffer_ = sent'
    BY <2>2, <2>3, SendKeeps
  <2>5. sent' \in Seq(Byte)
    BY <2>2, <2>3, BytesType, ConcatProperties
  <2> QED
    BY <1>2, <2>4, <2>5 DEF Keeps
<1>3. CASE /\ c.state_ = "kConnected" /\ pending' = q /\ conn' = shutdownInLoop(e)
           /\ UNCHANGED sent
  <2> HIDE DEF e
  <2>1. /\ conn' \in Connection /\ conn'.state_ = e.state_ /\ conn'.wire = e.wire
        /\ conn'.outputBuffer_ = e.outputBuffer_ /\ Keeps(e, conn')
    BY <1>0, <1>3, ShutdownFields
  <2> QED
    BY <1>0, <1>00, <1>3, <2>1 DEF Keeps
<1>4. CASE /\ c.state_ \in {"kConnected", "kDisconnecting"} /\ conn' = e
           /\ pending' = Append(q, "forceCloseInLoop") /\ UNCHANGED sent
  <2> HIDE DEF e
  <2> QED
    BY <1>0, <1>00, <1>4
<1> QED
  BY <1>1, <1>2, <1>3, <1>4 DEF UserCallback

-----------------------------------------------------------------------------
(***************************************************************************)
(* The queue of the loop                                                   *)
(***************************************************************************)
\* A message is a functor, and is not connectEstablished or connectDestroyed.
LEMMA FunctorNames ==
    /\ LoopFunctors \subseteq ConnFunctor
    /\ \A m \in Messages : /\ m \in ConnFunctor
                           /\ m \notin {"connectEstablished", "connectDestroyed"}
BY ConnectionAssumption DEF ConnFunctor, LoopFunctors

\* Taking the head of a queue leaves what is said of all its functors.
LEMMA TailKeeps ==
    ASSUME NEW q \in Seq(ConnFunctor), q # <<>>
    PROVE  /\ Tail(q) \in Seq(ConnFunctor)
           /\ NoEnds(q) => NoEnds(Tail(q))
           /\ NoNew(q) => NoNew(Tail(q))
<1>1. /\ Tail(q) \in Seq(ConnFunctor) /\ Len(Tail(q)) = Len(q) - 1 /\ Len(q) \in Nat
      /\ DOMAIN q = 1..Len(q) /\ DOMAIN Tail(q) = 1..Len(Tail(q))
      /\ \A i \in 1..Len(Tail(q)) : Tail(q)[i] = q[i + 1]
  BY HeadTailProperties, LenProperties
<1>2. \A i \in DOMAIN Tail(q) : i + 1 \in DOMAIN q /\ Tail(q)[i] = q[i + 1]
  BY <1>1
<1> QED
  BY <1>1, <1>2 DEF NoEnds, NoNew

\* The functor that is run next is the first one of the queue.
LEMMA HeadIsFirst ==
    ASSUME NEW q \in Seq(ConnFunctor), q # <<>>
    PROVE  1 \in DOMAIN q /\ Head(q) = q[1]
<1>1. Len(q) \in Nat /\ Len(q) # 0 /\ DOMAIN q = 1..Len(q)
  BY EmptySeq, LenProperties
<1>2. 1 \in DOMAIN q
  BY <1>1
<1>3. Head(q) = q[1]
  BY SMT
<1> QED
  BY <1>2, <1>3

\* Queueing a functor that is not one of the ends leaves what is said of the others.
LEMMA AppendKeeps ==
    ASSUME NEW q \in Seq(ConnFunctor), NEW f \in ConnFunctor
    PROVE  /\ Append(q, f) \in Seq(ConnFunctor)
           /\ NoEnds(q) /\ f \notin {"connectEstablished", "connectDestroyed"} =>
                 NoEnds(Append(q, f))
           /\ NoNew(q) /\ f # "connectEstablished" => NoNew(Append(q, f))
<1>1. /\ Append(q, f) \in Seq(ConnFunctor) /\ Len(Append(q, f)) = Len(q) + 1 /\ Len(q) \in Nat
      /\ DOMAIN q = 1..Len(q) /\ DOMAIN Append(q, f) = 1..Len(Append(q, f))
      /\ \A i \in 1..Len(q) : Append(q, f)[i] = q[i]
      /\ Append(q, f)[Len(q) + 1] = f
  BY AppendProperties, LenProperties, SMTT(15)
<1>2. \A i \in DOMAIN Append(q, f) : \/ i \in DOMAIN q /\ Append(q, f)[i] = q[i]
                                     \/ Append(q, f)[i] = f
  BY <1>1
<1> QED
  BY <1>1, <1>2 DEF NoEnds, NoNew

\* What a queue that ends with connectDestroyed is without its head.
LEMMA EndingTail ==
    ASSUME NEW q, Ending(q)
    PROVE  /\ q # <<>> /\ q \in Seq(ConnFunctor)
           /\ Head(q) # "connectDestroyed" => Ending(Tail(q))
           /\ Head(q) = "connectDestroyed" => Tail(q) = <<>>
           /\ "connectDestroyed" \in Range(q)
<1>1. PICK p \in Seq(ConnFunctor) : q = Append(p, "connectDestroyed") /\ NoEnds(p)
  BY DEF Ending
<1>2. "connectDestroyed" \in ConnFunctor
  BY DEF ConnFunctor, LoopFunctors
<1>3. /\ q \in Seq(ConnFunctor) /\ q # <<>>
      /\ Len(p) \in Nat /\ DOMAIN q = 1..Len(q) /\ Len(q) = Len(p) + 1
      /\ q[Len(p) + 1] = "connectDestroyed"
  BY <1>1, <1>2, AppendProperties, LenProperties, SMTT(15)
<1>4. /\ Head(q) = IF p = <<>> THEN "connectDestroyed" ELSE Head(p)
      /\ Tail(q) = IF p = <<>> THEN <<>> ELSE Append(Tail(p), "connectDestroyed")
  BY <1>1, <1>2, HeadTailAppend
<1>5. "connectDestroyed" \in Range(q)
  <2>1. Len(p) + 1 \in DOMAIN q
    BY <1>3
  <2> QED
    BY <1>3, <2>1 DEF Range
<1>6. CASE p = <<>>
  BY <1>3, <1>4, <1>5, <1>6
<1>7. CASE p # <<>>
  <2>1. Head(q) # "connectDestroyed"
    BY <1>1, <1>4, <1>7, HeadIsFirst DEF NoEnds
  <2>2. Ending(Tail(q))
    BY <1>1, <1>4, <1>7, TailKeeps DEF Ending
  <2> QED
    BY <1>3, <1>5, <2>1, <2>2
<1> QED
  BY <1>6, <1>7

-----------------------------------------------------------------------------
(***************************************************************************)
(* The steps                                                               *)
(***************************************************************************)
\* A new connection has connectEstablished queued and nothing else (TcpServer.cc:60).
LEMMA InitConn == ConnInit => ConnInv
<1> SUFFICES ASSUME ConnInit PROVE ConnInv
  OBVIOUS
<1>1. conn \in Connection
  BY DEF ConnInit, Connection
<1>2. pending \in Seq(ConnFunctor)
  BY DEF ConnInit, ConnFunctor, LoopFunctors
<1>3. ConnTypeOK
  <2>1. callSteps \in Seq(CallStep) /\ sent \in Seq(Byte) /\ taken \in Nat
    BY DEF ConnInit
  <2>2. /\ connections_ \in BOOLEAN /\ shared \in BOOLEAN /\ late \in BOOLEAN /\ parked \in BOOLEAN
        /\ where = "poll" /\ received = {}
    BY DEF ConnInit
  <2> QED
    BY <1>1, <1>2, <2>1, <2>2 DEF ConnTypeOK
<1>4. /\ conn.state_ = "kConnecting" /\ conn.events_ = {} /\ conn.index_ = "kNew"
      /\ conn.outputBuffer_ = <<>> /\ conn.wire = <<>> /\ conn.fin = FALSE
  BY DEF ConnInit
<1>5. Established
  BY <1>4 DEF ConnInit, Established
<1>6. Flushed
  BY <1>4 DEF Flushed, Flushing
<1>7. conn.wire \o conn.outputBuffer_ = sent
  BY <1>4, ConcatEmptySeq, SMTT(15) DEF ConnInit
<1>8. Life
  BY <1>4 DEF ConnInit, Life
<1> QED
  BY <1>3, <1>5, <1>6, <1>7, <1>8 DEF ConnInv

\* A step that leaves the connection as it is, but for what the peer did, and its queue too.
Quiet ==
    /\ SameEnd(conn, conn')
    /\ UNCHANGED <<connections_, shared, pending, baseFunctors, sent, freed, crashed, late, parked>>
    /\ conn.state_ = "kConnecting" => UNCHANGED <<callSteps, received>>
    /\ Shut => received' \cap {"in", "hup"} = {}

\* Such a step keeps the invariant.
LEMMA QuietKeeps ==
    ASSUME ConnInv, ConnTypeOK', Quiet
    PROVE  ConnInv'
<1>1. /\ conn'.state_ = conn.state_ /\ conn'.events_ = conn.events_ /\ conn'.index_ = conn.index_
      /\ conn'.outputBuffer_ = conn.outputBuffer_ /\ conn'.wire = conn.wire
      /\ conn'.fin = conn.fin
  BY DEF Quiet, SameEnd
<1>2. /\ connections_' = connections_ /\ shared' = shared /\ pending' = pending
      /\ baseFunctors' = baseFunctors /\ sent' = sent /\ freed' = freed /\ crashed' = crashed
      /\ late' = late /\ parked' = parked
  BY DEF Quiet
<1>3. Established'
  BY <1>1, <1>2 DEF ConnInv, Established, Quiet
<1>4. Flushed'
  BY <1>1, <1>2 DEF ConnInv, Flushed, Flushing, isWriting, Closed
<1>5. (conn.wire \o conn.outputBuffer_ = sent)'
  BY <1>1, <1>2 DEF ConnInv
<1>6. ASSUME Life PROVE Life'
  <2>1. CASE conn.state_ = "kConnecting"
    BY <1>1, <1>2, <1>6, <2>1 DEF Life
  <2>2. CASE Up
    <3>1. Up'
      BY <1>1, <1>2, <2>2 DEF Up, Polled
    <3> QED
      BY <1>2, <1>6, <3>1 DEF Life
  <2>3. CASE Shut /\ (Closing \/ Erased \/ Destroyed)
    <3>1. Shut'
      BY <1>1, <2>3 DEF Shut, Quiet
    <3>2. Closing' \/ Erased' \/ Destroyed'
      BY <1>1, <1>2, <2>3, <3>1 DEF Closing, Erased, Destroyed
    <3> QED
      BY <1>2, <1>6, <3>2 DEF Life
  <2> QED
    BY <1>6, <2>1, <2>2, <2>3 DEF Life, Closing, Erased, Destroyed
<1>7. (late \/ parked \/ Life)'
  BY <1>2, <1>6 DEF ConnInv
<1> QED
  BY <1>3, <1>4, <1>5, <1>7 DEF ConnInv

\* A step that changes an established connection, or its queue.
QueueMoves ==
    \/ pending' = pending
    \/ pending # <<>> /\ Head(pending) # "connectDestroyed" /\ pending' = Tail(pending)
    \/ /\ late' \/ ~Closed
       /\ \E f \in ConnFunctor : /\ f \notin {"connectEstablished", "connectDestroyed"}
                                 /\ pending' = Append(pending, f)
Moves ==
    /\ conn.state_ # "kConnecting" /\ (late => late') /\ late' \in BOOLEAN
    /\ conn' \in Connection /\ sent' \in Seq(Byte)
    /\ conn'.wire \o conn'.outputBuffer_ = sent'
    /\ QueueMoves
    /\ Closed => late' \/ Closed'
    /\ ~Closed => /\ conn'.state_ \in {"kConnected", "kDisconnecting"}
                  /\ (Flushing(conn) => Flushing(conn')) /\ (Polled(conn) => Polled(conn'))
    /\ Shut => \/ late'
               \/ conn'.events_ = {} /\ conn'.index_ = conn.index_
    /\ Closed /\ late' => conn'.state_ # "kConnecting"
    /\ UNCHANGED <<connections_, shared, baseFunctors, freed, crashed, parked>>
    /\ where' \in {"poll", "event", "functors"} /\ taken' \in Nat /\ callSteps' \in Seq(CallStep)
    /\ received' \subseteq received /\ (where' # "event" => received' = {})

\* What such a step leaves of the queue.
LEMMA MovesQueue ==
    ASSUME pending \in Seq(ConnFunctor), QueueMoves
    PROVE  /\ pending' \in Seq(ConnFunctor)
           /\ NoEnds(pending) => NoEnds(pending')
           /\ NoNew(pending) => NoNew(pending')
           /\ Closed /\ ~late' =>
                 /\ Ending(pending) => Ending(pending')
                 /\ pending = <<>> => pending' = <<>>
<1>1. CASE pending' = pending
  BY <1>1
<1>2. CASE pending # <<>> /\ Head(pending) # "connectDestroyed" /\ pending' = Tail(pending)
  BY <1>2, TailKeeps, EndingTail
<1>3. CASE /\ late' \/ ~Closed
           /\ \E f \in ConnFunctor : /\ f \notin {"connectEstablished", "connectDestroyed"}
                                     /\ pending' = Append(pending, f)
  BY <1>3, AppendKeeps
<1> QED
  BY <1>1, <1>2, <1>3 DEF QueueMoves

\* Such a step keeps the invariant.
LEMMA MoveKeeps ==
    ASSUME ConnInv, Moves
    PROVE  ConnInv'
<1>0. pending \in Seq(ConnFunctor) /\ conn \in Connection
  BY DEF ConnInv, ConnTypeOK
<1>1. /\ pending' \in Seq(ConnFunctor)
      /\ NoEnds(pending) => NoEnds(pending')
      /\ NoNew(pending) => NoNew(pending')
      /\ Closed /\ ~late' => /\ Ending(pending) => Ending(pending')
                             /\ pending = <<>> => pending' = <<>>
  BY <1>0, MovesQueue DEF Moves
<1>2. /\ connections_' = connections_ /\ shared' = shared /\ baseFunctors' = baseFunctors
      /\ freed' = freed /\ crashed' = crashed /\ parked' = parked
  BY DEF Moves
<1>3. ConnTypeOK'
  <2>1. late' \in BOOLEAN
    BY DEF Moves
  <2> QED
    BY <1>1, <1>2, <2>1 DEF ConnInv, ConnTypeOK, Moves
<1>4. conn'.state_ # "kConnecting"
  BY DEF Moves, Closed
<1>5. Established'
  BY <1>1, <1>4 DEF ConnInv, Established, Moves
<1>6. Flushed'
  BY DEF ConnInv, Flushed, Moves
<1>7. ASSUME ~late', ~parked' PROVE Life'
  <2>0. Life /\ crashed' = FALSE
    BY <1>2, <1>7, SMTT(15) DEF ConnInv, Life, Moves
  <2>1. CASE Up
    <3>1. ~Closed
      BY <2>1 DEF Up, Closed
    <3>2. Up'
      BY <1>1, <1>2, <2>1, <3>1 DEF Up, Moves
    <3> QED
      BY <2>0, <3>2 DEF Life
  <2>2. CASE Shut /\ (Closing \/ Erased \/ Destroyed)
    <3>1. Closed
      BY <2>2 DEF Shut, Closed
    <3>2. Shut' /\ conn'.index_ = conn.index_
      BY <1>7, <2>2, <3>1 DEF Shut, Moves, Closed
    <3>3. Closing' \/ Erased' \/ Destroyed'
      BY <1>1, <1>2, <1>7, <2>2, <3>1, <3>2 DEF Closing, Erased, Destroyed
    <3> QED
      BY <2>0, <3>3 DEF Life
  <2> QED
    BY <2>0, <2>1, <2>2 DEF Life, Closing, Erased, Destroyed, Moves
<1> QED
  BY <1>3, <1>5, <1>6, <1>7 DEF ConnInv, Moves

\* A step that finds the connection gone, or an assertion false.
LEMMA AbortKeeps ==
    ASSUME ConnInv, ConnAbort, late \/ parked, UNCHANGED late, UNCHANGED shared,
           conn.state_ # "kConnecting",
           where' \in {"poll", "event", "functors"}, taken' \in Nat, callSteps' \in Seq(CallStep),
           received' \subseteq received, where' # "event" => received' = {}
    PROVE  ConnInv'
<1>1. /\ conn' = conn /\ connections_' = connections_ /\ pending' = pending
      /\ baseFunctors' = baseFunctors /\ sent' = sent /\ parked' = parked
  BY DEF ConnAbort
<1>2. ConnTypeOK'
  BY <1>1 DEF ConnInv, ConnTypeOK
<1>3. Established' /\ Flushed'
  BY <1>1 DEF ConnInv, Established, Flushed, Closed
<1> QED
  BY <1>1, <1>2, <1>3 DEF ConnInv

\* The fields of a connection that is closed.
LEMMA ClosedFields ==
    ASSUME NEW c \in Connection, NEW d, d = [update(c, {}) EXCEPT !.state_ = "kDisconnected"]
    PROVE  /\ d \in Connection /\ d.state_ = "kDisconnected" /\ d.events_ = {}
           /\ d.index_ \in {"kAdded", "kDeleted"}
           /\ d.wire = c.wire /\ d.outputBuffer_ = c.outputBuffer_
<1> DEFINE e == update(c, {})
<1>1. /\ e \in Connection /\ e.events_ = {} /\ e.index_ \in {"kAdded", "kDeleted"}
      /\ e.wire = c.wire /\ e.outputBuffer_ = c.outputBuffer_
  <2>1. {} \in SUBSET {"in", "out"}
    OBVIOUS
  <2> QED
    BY <2>1, UpdateFields
<1>2. d = [e EXCEPT !.state_ = "kDisconnected"]
  OBVIOUS
<1> HIDE DEF e
<1> QED
  BY <1>1, <1>2 DEF Connection

\* handleClose: a connection that is up is closed, and its removal is queued.
LEMMA CloseKeeps ==
    ASSUME ConnInv, NEW q \in Seq(ConnFunctor), handleClose(q),
           conn.state_ # "kConnecting", UNCHANGED <<shared, freed, late>>,
           NoEnds(pending) => NoEnds(q), NoNew(q),
           where' \in {"poll", "event", "functors"}, taken' \in Nat, callSteps' \in Seq(CallStep),
           received' \subseteq received, where' # "event" => received' = {},
           received' \cap {"in", "hup"} = {},
           late \/ parked \/ conn.state_ \in {"kConnected", "kDisconnecting"}
    PROVE  ConnInv'
<1>0. conn \in Connection /\ pending \in Seq(ConnFunctor) /\ "connectDestroyed" \in ConnFunctor
  BY DEF ConnInv, ConnTypeOK, ConnFunctor, LoopFunctors
<1>1. CASE conn.state_ \notin {"kConnected", "kDisconnecting"} \/ (shared /\ ~connections_)
  <2>1. ConnAbort
    BY <1>1 DEF handleClose
  <2>2. late \/ parked
    BY <1>1 DEF ConnInv, Life, Up, Closing, Erased, Destroyed, Shut
  <2> QED
    BY <2>1, <2>2, AbortKeeps
<1>2. CASE ~(conn.state_ \notin {"kConnected", "kDisconnecting"} \/ (shared /\ ~connections_))
  <2>1. /\ conn' = [update(conn, {}) EXCEPT !.state_ = "kDisconnected"]
        /\ parked' = (parked \/ conn'.index_ = "kAdded")
        /\ IF shared THEN Erase(q) /\ UNCHANGED baseFunctors
           ELSE /\ baseFunctors' = Append(baseFunctors, "removeConnectionInLoop")
                /\ pending' = q /\ UNCHANGED connections_
        /\ UNCHANGED <<sent, crashed>>
    BY <1>2 DEF handleClose
  <2>2. /\ conn' \in Connection /\ conn'.state_ = "kDisconnected" /\ conn'.events_ = {}
        /\ conn'.index_ \in {"kAdded", "kDeleted"}
        /\ conn'.wire = conn.wire /\ conn'.outputBuffer_ = conn.outputBuffer_
    BY <1>0, <2>1, ClosedFields
  <2>3. /\ connections_' \in BOOLEAN /\ pending' \in Seq(ConnFunctor) /\ NoNew(pending')
    <3>1. CASE shared
      BY <1>0, <2>1, <3>1, AppendKeeps DEF Erase
    <3>2. CASE ~shared
      BY <2>1, <3>2 DEF ConnInv, ConnTypeOK
    <3> QED
      BY <3>1, <3>2
  <2>4. ConnTypeOK'
    <3>1. parked' \in BOOLEAN /\ sent' \in Seq(Byte)
      BY <2>1 DEF ConnInv, ConnTypeOK
    <3> QED
      BY <2>2, <2>3, <3>1 DEF ConnInv, ConnTypeOK
  <2>5. Established' /\ Flushed'
    BY <2>2, <2>3 DEF Established, Flushed, Closed
  <2>6. (conn.wire \o conn.outputBuffer_ = sent)'
    BY <2>1, <2>2 DEF ConnInv
  <2>7. ASSUME ~late', ~parked' PROVE Life'
    <3>1. Up /\ ~crashed
      BY <1>2, <2>1, <2>7 DEF ConnInv, Life, Closing, Erased, Destroyed, Shut
    <3>2. Shut' /\ conn'.index_ = "kDeleted" /\ ~crashed' /\ ~freed'
      BY <2>1, <2>2, <2>7, <3>1 DEF Shut, Up
    <3>3. NoEnds(q)
      BY <3>1 DEF Up
    <3>4. CASE shared
      <4>1. Ending(pending') /\ connections_' = FALSE
        BY <2>1, <3>3, <3>4 DEF Ending, Erase
      <4>2. baseFunctors' = <<>>
        BY <2>1, <3>1, <3>4 DEF Up
      <4> QED
        BY <3>2, <4>1, <4>2 DEF Life, Erased
    <3>5. CASE ~shared
      <4>1. baseFunctors' = <<"removeConnectionInLoop">>
        <5>1. baseFunctors' = Append(<<>>, "removeConnectionInLoop")
          BY <2>1, <3>1, <3>5 DEF Up
        <5> QED
          BY <5>1, SMT
      <4>2. pending' = q /\ connections_' = TRUE
        BY <2>1, <3>1, <3>5 DEF Up, ConnInv, ConnTypeOK
      <4> QED
        BY <3>2, <3>3, <3>5, <4>1, <4>2 DEF Life, Closing
    <3> QED
      BY <3>4, <3>5
  <2> QED
    BY <2>4, <2>5, <2>6, <2>7 DEF ConnInv
<1> QED
  BY <1>1, <1>2

\* removeConnectionInLoop: the server drops the connection that asked for it.
LEMMA RemoveKeeps ==
    ASSUME ConnInv, removeConnectionInLoop
    PROVE  ConnInv'
<1>0. pending \in Seq(ConnFunctor) /\ "connectDestroyed" \in ConnFunctor
  BY DEF ConnInv, ConnTypeOK, ConnFunctor, LoopFunctors
<1>1. /\ conn' = conn /\ shared' = shared /\ where' = where /\ received' = received
      /\ taken' = taken /\ callSteps' = callSteps /\ sent' = sent /\ freed' = freed
      /\ late' = late /\ parked' = parked
  BY DEF removeConnectionInLoop, otherVars
<1>2. ~crashed /\ baseFunctors # <<>> /\ baseFunctors' = Tail(baseFunctors)
  BY DEF removeConnectionInLoop
<1>3. conn.state_ # "kConnecting" /\ NoNew(pending)
  BY <1>2 DEF ConnInv, Established
<1>4. /\ connections_' \in BOOLEAN /\ pending' \in Seq(ConnFunctor) /\ NoNew(pending')
  <2>1. CASE connections_
    BY <1>0, <1>3, <2>1, AppendKeeps DEF removeConnectionInLoop, Erase
  <2>2. CASE ~connections_
    BY <1>0, <1>3, <2>2 DEF removeConnectionInLoop, ConnInv, ConnTypeOK
  <2> QED
    BY <2>1, <2>2
<1>5. ConnTypeOK'
  BY <1>1, <1>4 DEF ConnInv, ConnTypeOK
<1>6. Established' /\ Flushed'
  BY <1>1, <1>3, <1>4 DEF Established, ConnInv, Flushed, Closed
<1>7. (conn.wire \o conn.outputBuffer_ = sent)'
  BY <1>1 DEF ConnInv
<1>8. ASSUME ~late', ~parked' PROVE Life'
  <2>1. Closing
    BY <1>1, <1>2, <1>3, <1>8 DEF ConnInv, Life, Up, Erased, Destroyed
  <2>2. connections_' = FALSE /\ pending' = Append(pending, "connectDestroyed") /\ crashed' = FALSE
    BY <1>2, <2>1 DEF removeConnectionInLoop, Closing, Erase
  <2>3. Ending(pending')
    BY <1>0, <2>1, <2>2 DEF Ending, Closing
  <2>4. baseFunctors' = <<>>
    <3>1. baseFunctors' = Tail(<<"removeConnectionInLoop">>)
      BY <1>2, <2>1 DEF Closing
    <3> QED
      BY <3>1, SMT
  <2>5. Erased'
    BY <1>1, <2>1, <2>2, <2>3, <2>4 DEF Erased, Closing, Shut
  <2> QED
    BY <2>2, <2>5 DEF Life
<1> QED
  BY <1>5, <1>6, <1>7, <1>8 DEF ConnInv

\* The connection is destroyed after connectDestroyed only.
LEMMA DestroyKeeps ==
    ASSUME ConnInv, Destroy
    PROVE  ConnInv'
<1>1. /\ conn' = conn /\ shared' = shared /\ where' = where /\ received' = received
      /\ taken' = taken /\ callSteps' = callSteps /\ sent' = sent /\ late' = late
      /\ parked' = parked /\ connections_' = connections_ /\ pending' = pending
      /\ baseFunctors' = baseFunctors
  BY DEF Destroy, otherVars, serverVars
<1>2. ~connections_ /\ Range(pending) \cap Owning = {} /\ ~crashed
      /\ crashed' = (conn.state_ # "kDisconnected" \/ conn.index_ # "kNew")
  BY DEF Destroy
<1>3. conn.state_ # "kConnecting"
  BY <1>2 DEF ConnInv, Established
<1>4. ConnTypeOK'
  BY <1>1 DEF ConnInv, ConnTypeOK
<1>5. Established' /\ Flushed'
  BY <1>1, <1>3 DEF ConnInv, Established, Flushed, Closed
<1>6. ASSUME ~late', ~parked' PROVE Life'
  <2>1. Destroyed
    <3>1. ~Erased
      BY <1>2, EndingTail DEF Erased, Owning
    <3> QED
      BY <1>1, <1>2, <1>3, <1>6, <3>1 DEF ConnInv, Life, Up, Closing
  <2>2. Destroyed' /\ ~crashed'
    BY <1>1, <1>2, <2>1 DEF Destroyed, Shut
  <2> QED
    BY <2>2 DEF Life
<1> QED
  BY <1>1, <1>4, <1>5, <1>6 DEF ConnInv

\* What the loop knows when it runs the functor f.
LEMMA StartFacts ==
    ASSUME ConnInv, NEW f, Start(f)
    PROVE  /\ pending \in Seq(ConnFunctor) /\ pending # <<>> /\ Head(pending) = f
           /\ Rest \in Seq(ConnFunctor) /\ (NoEnds(pending) => NoEnds(Rest))
           /\ (NoNew(pending) => NoNew(Rest)) /\ (NoEnds(pending) => f # "connectDestroyed")
           /\ where' \in {"poll", "event", "functors"} /\ where' # "event" /\ taken' \in Nat
           /\ received = {} /\ received' = {} /\ callSteps' = callSteps
           /\ callSteps' \in Seq(CallStep) /\ shared' = shared /\ freed' = freed /\ ~crashed
           /\ f # "connectEstablished" => conn.state_ # "kConnecting" /\ NoNew(pending)
           /\ f = "connectEstablished" => conn.state_ = "kConnecting"
           /\ freed => late \/ parked
<1>1. /\ where = "functors" /\ ~crashed /\ shared' = shared /\ callSteps' = callSteps
      /\ taken > 0 /\ pending # <<>> /\ Head(pending) = f /\ taken' = taken - 1
      /\ where' = (IF taken = 1 THEN "poll" ELSE "functors")
      /\ received' = received /\ freed' = freed
  BY DEF Start, ConnLoop, otherVars
<1>2. /\ pending \in Seq(ConnFunctor) /\ taken \in Nat /\ callSteps \in Seq(CallStep)
      /\ received = {}
  BY <1>1 DEF ConnInv, ConnTypeOK
<1>3. taken' \in Nat
  BY <1>1, <1>2
<1>4. /\ Rest \in Seq(ConnFunctor) /\ (NoEnds(pending) => NoEnds(Rest))
      /\ (NoNew(pending) => NoNew(Rest))
  BY <1>1, <1>2, TailKeeps DEF Rest
<1>5. 1 \in DOMAIN pending /\ pending[1] = f
  BY <1>1, <1>2, HeadIsFirst
<1>6. NoEnds(pending) => f # "connectDestroyed"
  BY <1>5 DEF NoEnds
<1>7. f # "connectEstablished" => conn.state_ # "kConnecting" /\ NoNew(pending)
  <2>1. conn.state_ = "kConnecting" => pending[1] = "connectEstablished"
    <3>1. conn.state_ = "kConnecting" => pending = <<"connectEstablished">>
      BY DEF ConnInv, Established
    <3>2. <<"connectEstablished">>[1] = "connectEstablished"
      OBVIOUS
    <3> QED
      BY <3>1, <3>2
  <2> QED
    BY <1>5, <2>1 DEF ConnInv, Established
<1>8. f = "connectEstablished" => conn.state_ = "kConnecting"
  BY <1>5 DEF ConnInv, Established, NoNew
<1>9. freed => late \/ parked
  BY <1>1 DEF ConnInv, Established, Life, Up, Closing, Erased, Destroyed
<1> QED
  BY <1>1, <1>2, <1>3, <1>4, <1>6, <1>7, <1>8, <1>9

\* A functor that finds the connection gone.
LEMMA GoneKeeps ==
    ASSUME ConnInv, NEW f, Start(f), f # "connectEstablished", Gone
    PROVE  ConnInv'
<1>1. ConnAbort /\ UNCHANGED late /\ (late \/ parked)
  BY StartFacts DEF Gone
<1>2. /\ conn.state_ # "kConnecting" /\ where' \in {"poll", "event", "functors"}
      /\ taken' \in Nat /\ callSteps' \in Seq(CallStep) /\ shared' = shared
      /\ received' \subseteq received /\ (where' # "event" => received' = {})
  BY StartFacts
<1> QED
  BY <1>1, <1>2, AbortKeeps

\* A functor that uses the connection.
FunctorMoves ==
    /\ pending' = Rest /\ Used /\ UNCHANGED crashed
    /\ late' \in BOOLEAN /\ (late => late')
    /\ conn' \in Connection /\ sent' \in Seq(Byte) /\ conn'.wire \o conn'.outputBuffer_ = sent'
    /\ conn'.state_ = conn.state_
    /\ ~Closed => (Flushing(conn) => Flushing(conn')) /\ (Polled(conn) => Polled(conn'))
    /\ Shut => late' \/ (conn'.events_ = {} /\ conn'.index_ = conn.index_)

\* Such a functor keeps the invariant.
LEMMA FunctorKeeps ==
    ASSUME ConnInv, NEW f, Start(f), f \notin {"connectEstablished", "connectDestroyed"},
           FunctorMoves
    PROVE  ConnInv'
<1>1. QueueMoves
  BY StartFacts DEF QueueMoves, FunctorMoves, Rest
<1>2. /\ conn.state_ # "kConnecting" /\ where' \in {"poll", "event", "functors"}
      /\ taken' \in Nat /\ callSteps' \in Seq(CallStep) /\ shared' = shared /\ freed' = freed
      /\ received' \subseteq received /\ (where' # "event" => received' = {})
  BY StartFacts
<1>3. late' \in BOOLEAN /\ (late => late')
  BY DEF FunctorMoves
<1>4. /\ Closed => Closed'
      /\ ~Closed => conn'.state_ \in {"kConnected", "kDisconnecting"}
  <2>1. conn.state_ \in {"kConnecting", "kConnected", "kDisconnecting", "kDisconnected"}
    BY DEF ConnInv, ConnTypeOK, Connection
  <2> QED
    BY <1>2, <2>1 DEF FunctorMoves, Closed
<1>5. UNCHANGED <<connections_, shared, baseFunctors, freed, crashed, parked>>
  BY <1>2 DEF FunctorMoves, Used
<1>6. Moves
  BY <1>1, <1>2, <1>3, <1>4, <1>5 DEF Moves, FunctorMoves
<1> QED
  BY <1>6, MoveKeeps

\* The functor of send() (TcpConnection.cc:116).
LEMMA SendStep ==
    ASSUME ConnInv, NEW m \in Messages, runSendInLoop(m)
    PROVE  ConnInv'
<1>1. Start(m) /\ m \notin {"connectEstablished", "connectDestroyed"}
  BY FunctorNames DEF runSendInLoop
<1>2. CASE Gone
  BY <1>1, <1>2, GoneKeeps
<1>3. CASE /\ ~freed /\ Send(conn, m) /\ pending' = Rest /\ Used /\ UNCHANGED <<crashed, late>>
  <2>1. conn' \in sendInLoop(conn, m) /\ sent' = IF Took(conn, m) THEN sent \o Bytes(m) ELSE sent
    BY <1>3 DEF Send
  <2>2. /\ conn \in Connection /\ sent \in Seq(Byte) /\ conn.wire \o conn.outputBuffer_ = sent
        /\ late \in BOOLEAN
    BY DEF ConnInv, ConnTypeOK
  <2>3. /\ Keeps(conn, conn') /\ conn'.wire \o conn'.outputBuffer_ = sent'
        /\ conn.state_ = "kDisconnected" => conn' = conn
    BY <2>1, <2>2, SendKeeps
  <2>4. sent' \in Seq(Byte)
    BY <2>1, <2>2, BytesType, ConcatProperties
  <2>5. FunctorMoves
    BY <1>3, <2>2, <2>3, <2>4 DEF FunctorMoves, Keeps, Shut
  <2> QED
    BY <1>1, <2>5, FunctorKeeps
<1> QED
  BY <1>2, <1>3 DEF runSendInLoop

\* The functor of shutdown() (TcpConnection.cc:160).
LEMMA ShutdownStep ==
    ASSUME ConnInv, runShutdownInLoop
    PROVE  ConnInv'
<1>1. /\ Start("shutdownInLoop")
      /\ "shutdownInLoop" \notin {"connectEstablished", "connectDestroyed"}
      /\ "shutdownInLoop" # "connectEstablished"
  BY DEF runShutdownInLoop
<1>2. CASE Gone
  BY <1>1, <1>2, GoneKeeps
<1>3. CASE /\ ~freed /\ conn' = shutdownInLoop(conn) /\ pending' = Rest /\ Used
           /\ UNCHANGED <<sent, crashed, late>>
  <2>2. /\ conn \in Connection /\ sent \in Seq(Byte) /\ conn.wire \o conn.outputBuffer_ = sent
        /\ late \in BOOLEAN
    BY DEF ConnInv, ConnTypeOK
  <2>3. /\ Keeps(conn, conn') /\ conn'.wire \o conn'.outputBuffer_ = sent'
        /\ conn'.events_ = conn.events_ /\ conn'.index_ = conn.index_
    BY <1>3, <2>2, ShutdownFields
  <2>5. FunctorMoves
    BY <1>3, <2>2, <2>3 DEF FunctorMoves, Keeps, Shut
  <2> QED
    BY <1>1, <2>5, FunctorKeeps
<1> QED
  BY <1>2, <1>3 DEF runShutdownInLoop

\* startReadInLoop and stopReadInLoop leave the write event.
LEMMA ReadingStep ==
    ASSUME ConnInv, NEW f \in {"startReadInLoop", "stopReadInLoop"}, NEW on \in BOOLEAN,
           Reading(f, on)
    PROVE  ConnInv'
<1>1. Start(f) /\ f \notin {"connectEstablished", "connectDestroyed"}
  BY DEF Reading
<1>2. CASE Gone
  BY <1>1, <1>2, GoneKeeps
<1>3. CASE ~Gone
  <2> DEFINE ev == IF on THEN conn.events_ \cup {"in"} ELSE conn.events_ \ {"in"}
             e == [conn EXCEPT !.reading_ = on]
  <2>1. /\ conn' = conn \/ conn' = update(e, ev)
        /\ late' = (late \/ conn.state_ = "kDisconnected")
        /\ pending' = Rest /\ Used /\ sent' = sent /\ crashed' = crashed
    BY <1>3 DEF Reading
  <2>2. /\ conn \in Connection /\ sent \in Seq(Byte) /\ conn.wire \o conn.outputBuffer_ = sent
        /\ late \in BOOLEAN
    BY DEF ConnInv, ConnTypeOK
  <2>3. /\ e \in Connection /\ e.state_ = conn.state_ /\ e.outputBuffer_ = conn.outputBuffer_
        /\ e.wire = conn.wire /\ e.fin = conn.fin
    BY <2>2 DEF Connection
  <2>4. ev \in SUBSET {"in", "out"} /\ ("out" \in ev <=> isWriting(conn))
    BY <2>2 DEF Connection, isWriting
  <2> HIDE DEF e, ev
  <2>5. Keeps(conn, conn') /\ conn'.wire \o conn'.outputBuffer_ = sent
    <3>1. CASE conn' = conn
      BY <2>2, <3>1 DEF Keeps
    <3>2. CASE conn' = update(e, ev)
      <4>1. /\ conn' \in Connection /\ conn'.events_ = ev /\ conn'.state_ = conn.state_
            /\ conn'.outputBuffer_ = conn.outputBuffer_ /\ conn'.wire = conn.wire
            /\ conn'.fin = conn.fin /\ Polled(conn')
        BY <2>3, <2>4, <3>2, UpdateFields, PolledAfterUpdate, SMTT(15)
      <4>2. isWriting(conn') <=> isWriting(conn)
        BY <2>4, <4>1 DEF isWriting
      <4> QED
        BY <2>2, <4>1, <4>2 DEF Keeps, Flushing
    <3> QED
      BY <2>1, <3>1, <3>2
  <2>6. (Shut => late') /\ late' \in BOOLEAN /\ (late => late')
    BY <2>1, <2>2 DEF Shut
  <2>7. FunctorMoves
    BY <2>1, <2>2, <2>5, <2>6 DEF FunctorMoves, Keeps
  <2> QED
    BY <1>1, <2>7, FunctorKeeps
<1> QED
  BY <1>2, <1>3

\* forceCloseInLoop tests the state again.
LEMMA ForceCloseStep ==
    ASSUME ConnInv, forceCloseInLoop
    PROVE  ConnInv'
<1>1. /\ Start("forceCloseInLoop") /\ late' = late
      /\ "forceCloseInLoop" \notin {"connectEstablished", "connectDestroyed"}
      /\ "forceCloseInLoop" # "connectEstablished"
  BY DEF forceCloseInLoop
<1>2. CASE conn.state_ \in {"kConnected", "kDisconnecting"}
  <2>1. handleClose(Rest)
    BY <1>2 DEF forceCloseInLoop
  <2>2. /\ Rest \in Seq(ConnFunctor) /\ conn.state_ # "kConnecting"
        /\ (NoEnds(pending) => NoEnds(Rest)) /\ NoNew(Rest)
        /\ where' \in {"poll", "event", "functors"} /\ taken' \in Nat
        /\ callSteps' \in Seq(CallStep) /\ received' \subseteq received
        /\ (where' # "event" => received' = {}) /\ received' \cap {"in", "hup"} = {}
        /\ UNCHANGED <<shared, freed, late>>
    BY <1>1, StartFacts
  <2> QED
    BY <1>2, <2>1, <2>2, CloseKeeps
<1>3. CASE conn.state_ \notin {"kConnected", "kDisconnecting"}
  <2>1. pending' = Rest /\ Used /\ UNCHANGED <<conn, sent, crashed>>
    BY <1>3 DEF forceCloseInLoop
  <2>2. FunctorMoves
    BY <1>1, <2>1 DEF FunctorMoves, ConnInv, ConnTypeOK, Shut
  <2> QED
    BY <1>1, <2>2, FunctorKeeps
<1> QED
  BY <1>2, <1>3

\* connectEstablished: the connection is up.
LEMMA EstablishedStep ==
    ASSUME ConnInv, connectEstablished
    PROVE  ConnInv'
<1> DEFINE e == [conn EXCEPT !.state_ = "kConnected"]
           c == update(e, {"in"})
<1>1. /\ Start("connectEstablished") /\ UserCallback(c, Rest)
      /\ connections_' = connections_ /\ baseFunctors' = baseFunctors /\ parked' = parked
      /\ crashed' = crashed /\ late' = late
  BY DEF connectEstablished, Used
<1>2. /\ conn.state_ = "kConnecting" /\ shared' = shared /\ freed' = freed /\ received' = {}
      /\ where' \in {"poll", "event", "functors"} /\ taken' \in Nat /\ callSteps' \in Seq(CallStep)
  BY <1>1, StartFacts
<1>3. /\ pending = <<"connectEstablished">> /\ conn.outputBuffer_ = <<>> /\ ~conn.fin
      /\ connections_ /\ baseFunctors = <<>> /\ ~freed /\ ~crashed
  BY <1>2 DEF ConnInv, Established
<1>4. /\ conn \in Connection /\ sent \in Seq(Byte) /\ conn.wire \o conn.outputBuffer_ = sent
      /\ connections_ \in BOOLEAN /\ shared \in BOOLEAN /\ late \in BOOLEAN /\ parked \in BOOLEAN
  BY DEF ConnInv, ConnTypeOK
<1>5. /\ e \in Connection /\ e.state_ = "kConnected" /\ e.outputBuffer_ = conn.outputBuffer_
      /\ e.wire = conn.wire /\ e.fin = conn.fin
  BY <1>4 DEF Connection
<1>6. /\ c \in Connection /\ c.state_ = "kConnected" /\ c.events_ = {"in"}
      /\ c.outputBuffer_ = <<>> /\ c.wire = conn.wire /\ ~c.fin /\ Polled(c)
  <2> HIDE DEF e
  <2>1. {"in"} \in SUBSET {"in", "out"}
    OBVIOUS
  <2> QED
    BY <1>3, <1>5, <2>1, UpdateFields, PolledAfterUpdate, ZenonT(20)
<1> HIDE DEF e, c
<1>7. Flushing(c) /\ c.wire \o c.outputBuffer_ = sent
  BY <1>3, <1>4, <1>6 DEF Flushing
<1>8. /\ conn' \in Connection /\ sent' \in Seq(Byte) /\ conn'.wire \o conn'.outputBuffer_ = sent'
      /\ Flushing(conn') /\ Polled(conn') /\ conn'.state_ \in {"kConnected", "kDisconnecting"}
      /\ pending' = Rest \/ pending' = Append(Rest, "forceCloseInLoop")
  BY <1>1, <1>4, <1>6, <1>7, CallbackKeeps
<1>9. pending' \in Seq(ConnFunctor) /\ NoEnds(pending') /\ NoNew(pending')
  <2>1. Rest = <<>>
    BY <1>3, SMT DEF Rest
  <2>2. Rest \in Seq(ConnFunctor) /\ NoEnds(Rest) /\ NoNew(Rest)
    BY <2>1 DEF NoEnds, NoNew
  <2>3. "forceCloseInLoop" \in ConnFunctor
    BY DEF ConnFunctor, LoopFunctors
  <2>4. /\ "forceCloseInLoop" \notin {"connectEstablished", "connectDestroyed"}
        /\ "forceCloseInLoop" # "connectEstablished"
    OBVIOUS
  <2> QED
    BY <1>8, <2>2, <2>3, <2>4, AppendKeeps
<1>10. ConnTypeOK'
  BY <1>1, <1>2, <1>4, <1>8, <1>9 DEF ConnTypeOK
<1>11. Established' /\ Flushed'
  BY <1>8, <1>9 DEF Established, Flushed
<1>12. Life'
  <2>1. Up'
    BY <1>1, <1>2, <1>3, <1>8, <1>9 DEF Up
  <2> QED
    BY <1>1, <1>3, <2>1 DEF Life
<1> QED
  BY <1>8, <1>10, <1>11, <1>12 DEF ConnInv

\* connectDestroyed: the channel leaves the loop.
LEMMA DestroyedStep ==
    ASSUME ConnInv, connectDestroyed
    PROVE  ConnInv'
<1> DEFINE e == [conn EXCEPT !.state_ = "kDisconnected"]
           c == IF conn.state_ = "kConnected" THEN update(e, {}) ELSE conn
<1>1. /\ Start("connectDestroyed") /\ late' = late
      /\ IF c.events_ # {} \/ c.index_ = "kNew" THEN ConnAbort
         ELSE conn' = [c EXCEPT !.index_ = "kNew"] /\ pending' = Rest /\ Used
              /\ UNCHANGED <<sent, crashed>>
  BY DEF connectDestroyed
<1>2. /\ conn.state_ # "kConnecting" /\ shared' = shared /\ freed' = freed
      /\ where' \in {"poll", "event", "functors"} /\ taken' \in Nat /\ callSteps' \in Seq(CallStep)
      /\ received = {} /\ received' = {} /\ Rest \in Seq(ConnFunctor) /\ NoNew(Rest) /\ ~crashed
      /\ ~NoEnds(pending) /\ pending # <<>> /\ Head(pending) = "connectDestroyed"
  <2>1. "connectDestroyed" # "connectEstablished"
    OBVIOUS
  <2> QED
    BY <1>1, <2>1, StartFacts, SMTT(15)
<1>3. /\ conn \in Connection /\ sent \in Seq(Byte) /\ conn.wire \o conn.outputBuffer_ = sent
      /\ connections_ \in BOOLEAN /\ shared \in BOOLEAN /\ late \in BOOLEAN /\ parked \in BOOLEAN
  BY DEF ConnInv, ConnTypeOK
<1>4. ~late /\ ~parked => Erased
  BY <1>2 DEF ConnInv, Life, Up, Closing, Destroyed
<1>5. /\ e \in Connection /\ e.state_ = "kDisconnected" /\ e.outputBuffer_ = conn.outputBuffer_
      /\ e.wire = conn.wire /\ e.fin = conn.fin
  BY <1>3 DEF Connection
<1>6. /\ c \in Connection /\ c.wire = conn.wire /\ c.outputBuffer_ = conn.outputBuffer_
      /\ c.state_ \in {"kDisconnecting", "kDisconnected"}
      /\ c = conn \/ c.state_ = "kDisconnected"
  <2>1. CASE conn.state_ = "kConnected"
    <3>1. c = update(e, {}) /\ {} \in SUBSET {"in", "out"}
      BY <2>1
    <3> HIDE DEF c, e
    <3> QED
      BY <1>5, <3>1, UpdateFields
  <2>2. CASE conn.state_ # "kConnected"
    <3>1. c = conn
      BY <2>2
    <3>2. conn.state_ \in {"kDisconnecting", "kDisconnected"}
      BY <1>2, <1>3, <2>2 DEF Connection
    <3> QED
      BY <1>3, <3>1, <3>2
  <2> QED
    BY <2>1, <2>2
<1>7. Erased => c = conn /\ c.events_ = {} /\ c.index_ = "kDeleted"
  BY DEF Erased, Shut
<1> HIDE DEF c, e
<1>8. CASE c.events_ # {} \/ c.index_ = "kNew"
  <2>1. ConnAbort
    BY <1>1, <1>8
  <2>2. late \/ parked
    BY <1>4, <1>7, <1>8
  <2> QED
    BY <1>1, <1>2, <2>1, <2>2, AbortKeeps
<1>9. CASE ~(c.events_ # {} \/ c.index_ = "kNew")
  <2>1. /\ conn' = [c EXCEPT !.index_ = "kNew"] /\ pending' = Rest
        /\ connections_' = connections_ /\ baseFunctors' = baseFunctors /\ parked' = parked
        /\ sent' = sent /\ crashed' = crashed
    BY <1>1, <1>9 DEF Used
  <2>2. /\ conn' \in Connection /\ conn'.state_ = c.state_ /\ conn'.events_ = c.events_
        /\ conn'.index_ = "kNew" /\ conn'.wire = c.wire /\ conn'.outputBuffer_ = c.outputBuffer_
        /\ conn'.fin = c.fin
    BY <1>6, <2>1 DEF Connection
  <2>3. ConnTypeOK'
    BY <1>1, <1>2, <1>3, <2>1, <2>2 DEF ConnTypeOK
  <2>4. Established'
    BY <1>2, <1>6, <2>1, <2>2 DEF Established
  <2>5. Flushed'
    BY <1>1, <1>6, <2>2 DEF ConnInv, Flushed, Flushing, isWriting, Closed
  <2>6. conn'.wire \o conn'.outputBuffer_ = sent'
    BY <1>3, <1>6, <2>1, <2>2
  <2>7. ASSUME ~late', ~parked' PROVE Life'
    <3>1. Erased
      BY <1>1, <1>4, <2>1, <2>7
    <3>2. pending' = <<>>
      BY <1>2, <2>1, <3>1, EndingTail DEF Erased, Rest
    <3>3. Shut'
      BY <1>2, <1>7, <2>2, <3>1 DEF Erased, Shut
    <3>4. Destroyed'
      BY <2>1, <2>2, <3>1, <3>2, <3>3 DEF Destroyed, Erased
    <3> QED
      BY <1>2, <2>1, <3>4 DEF Life
  <2> QED
    BY <2>3, <2>4, <2>5, <2>6, <2>7 DEF ConnInv
<1> QED
  BY <1>8, <1>9

\* What a reset leaves once it has been read.
LEMMA PeerFields ==
    ASSUME NEW c \in Connection, NEW p \in {"open", "fin", "reset", "eof"}, NEW u \in BOOLEAN
    PROVE  /\ SameEnd(c, [c EXCEPT !.peer = p]) /\ SameEnd(c, [c EXCEPT !.unread = u])
           /\ SameEnd(c, [c EXCEPT !.peer = p, !.unread = u])
BY DEF SameEnd, Connection

\* An error that was read leaves the end of the stream.
LEMMA ResetFields ==
    ASSUME NEW c \in Connection
    PROVE  SameEnd(c, [c EXCEPT !.peer = IF @ = "reset" THEN "eof" ELSE @])
<1> DEFINE p == IF c.peer = "reset" THEN "eof" ELSE c.peer
<1>1. p \in {"open", "fin", "reset", "eof"}
  BY DEF Connection
<1>2. [c EXCEPT !.peer = IF @ = "reset" THEN "eof" ELSE @] = [c EXCEPT !.peer = p]
  OBVIOUS
<1> HIDE DEF p
<1> QED
  BY <1>1, <1>2, PeerFields

\* What is left when all is written (TcpConnection.cc:280).
LEMMA DrainedFields ==
    ASSUME NEW c \in Connection
    PROVE  /\ Drained(c) \in Connection /\ Drained(c).state_ = c.state_
           /\ Drained(c).wire = c.wire /\ Drained(c).outputBuffer_ = c.outputBuffer_
           /\ ~isWriting(Drained(c)) /\ Polled(Drained(c))
<1> DEFINE ev == c.events_ \ {"out"}
           d == update(c, ev)
<1>1. ev \in SUBSET {"in", "out"} /\ "out" \notin ev
  BY DEF Connection
<1>2. Drained(c) = IF c.state_ = "kDisconnecting" THEN shutdownInLoop(d) ELSE d
  BY DEF Drained
<1> HIDE DEF ev
<1>3. /\ d \in Connection /\ d.events_ = ev /\ d.state_ = c.state_ /\ d.wire = c.wire
      /\ d.outputBuffer_ = c.outputBuffer_ /\ Polled(d)
  BY <1>1, UpdateFields, PolledAfterUpdate, SMTT(15)
<1> HIDE DEF d
<1>4. CASE c.state_ = "kDisconnecting"
  <2>1. /\ Drained(c) \in Connection /\ Drained(c).state_ = d.state_
        /\ Drained(c).events_ = d.events_ /\ Drained(c).wire = d.wire
        /\ Drained(c).outputBuffer_ = d.outputBuffer_ /\ Keeps(d, Drained(c))
    BY <1>2, <1>3, <1>4, ShutdownFields, ZenonT(20)
  <2> QED
    BY <1>1, <1>3, <2>1 DEF Keeps, isWriting
<1>5. CASE c.state_ # "kDisconnecting"
  BY <1>1, <1>2, <1>3, <1>5 DEF isWriting
<1> QED
  BY <1>4, <1>5

\* handleWrite sends what waits, from its beginning.
LEMMA WriteFields ==
    ASSUME ConnInv, handleConnWrite
    PROVE  /\ conn' \in Connection /\ conn'.state_ = conn.state_
           /\ conn'.wire \o conn'.outputBuffer_ = conn.wire \o conn.outputBuffer_
           /\ (Flushing(conn) => Flushing(conn')) /\ (Polled(conn) => Polled(conn'))
           /\ ~isWriting(conn) => conn' = conn
<1>0. /\ conn \in Connection /\ conn.outputBuffer_ \in Seq(Byte)
      /\ Len(conn.outputBuffer_) \in Nat
  BY LenProperties DEF ConnInv, ConnTypeOK, Connection
<1>1. CASE ~isWriting(conn)
  BY <1>0, <1>1 DEF handleConnWrite
<1>2. CASE isWriting(conn) /\ Broken(conn)
  <2>1. SameEnd(conn, conn')
    BY <1>0, <1>2, ResetFields DEF handleConnWrite
  <2>2. Keeps(conn, conn') /\ conn'.wire \o conn'.outputBuffer_ = conn.wire \o conn.outputBuffer_
    BY <2>1, SameEndKeeps
  <2> QED
    BY <1>2, <2>2 DEF Keeps
<1>3. CASE isWriting(conn) /\ ~Broken(conn)
  <2>1. PICK n \in 1..Len(conn.outputBuffer_) :
           conn' = LET w == Wrote(conn, conn.outputBuffer_, n) IN
                   IF w.outputBuffer_ = <<>> THEN Drained(w) ELSE w
    BY <1>3 DEF handleConnWrite
  <2> DEFINE w == Wrote(conn, conn.outputBuffer_, n)
  <2>2. conn' = IF w.outputBuffer_ = <<>> THEN Drained(w) ELSE w
    BY <2>1
  <2>3. /\ w \in Connection /\ w.wire \o w.outputBuffer_ = conn.wire \o conn.outputBuffer_
        /\ w.state_ = conn.state_ /\ w.fin = conn.fin /\ w.events_ = conn.events_
        /\ w.index_ = conn.index_
    <3>1. n \in 0..Len(conn.outputBuffer_)
      BY <1>0
    <3> QED
      BY <1>0, <3>1, WroteFields
  <2> HIDE DEF w
  <2>4. CASE w.outputBuffer_ = <<>>
    <3>1. /\ conn' \in Connection /\ conn'.state_ = w.state_ /\ conn'.wire = w.wire
          /\ conn'.outputBuffer_ = w.outputBuffer_ /\ ~isWriting(conn') /\ Polled(conn')
      BY <2>2, <2>3, <2>4, DrainedFields
    <3> QED
      BY <1>3, <2>3, <2>4, <3>1 DEF Flushing
  <2>5. CASE w.outputBuffer_ # <<>>
    <3>1. conn' = w
      BY <2>2, <2>5
    <3> QED
      BY <1>3, <2>3, <3>1 DEF Flushing, Polled, isWriting, Broken
  <2> QED
    BY <2>4, <2>5
<1> QED
  BY <1>1, <1>2, <1>3

\* What the loop knows when it handles an event.
LEMMA EventFacts ==
    ASSUME ConnInv, handleEventWithGuard
    PROVE  /\ where = "event" /\ where' = "event" /\ taken' = taken /\ freed' = freed
           /\ late' = late /\ shared' = shared /\ callSteps' = callSteps /\ received # {}
           /\ where' \in {"poll", "event", "functors"} /\ taken' \in Nat
           /\ callSteps' \in Seq(CallStep) /\ conn.state_ # "kConnecting" /\ NoNew(pending)
           /\ conn \in Connection /\ sent \in Seq(Byte) /\ pending \in Seq(ConnFunctor)
           /\ conn.wire \o conn.outputBuffer_ = sent /\ late \in BOOLEAN
           /\ received \in SUBSET {"in", "out", "hup", "err"}
<1>1. /\ where = "event" /\ where' = "event" /\ taken' = taken /\ freed' = freed
      /\ late' = late /\ shared' = shared /\ callSteps' = callSteps /\ received # {}
  BY DEF handleEventWithGuard, ConnLoop, otherVars
<1>2. conn.state_ # "kConnecting" /\ NoNew(pending)
  BY <1>1 DEF ConnInv, Established
<1>3. /\ taken \in Nat /\ callSteps \in Seq(CallStep) /\ conn \in Connection
      /\ sent \in Seq(Byte) /\ pending \in Seq(ConnFunctor)
      /\ conn.wire \o conn.outputBuffer_ = sent /\ late \in BOOLEAN
      /\ received \in SUBSET {"in", "out", "hup", "err"}
  BY DEF ConnInv, ConnTypeOK
<1> QED
  BY <1>1, <1>2, <1>3

\* A callback that closes the connection.
LEMMA EventCloses ==
    ASSUME ConnInv, handleEventWithGuard, handleClose(pending), received' \subseteq received,
           received' \cap {"in", "hup"} = {}, received \cap {"in", "hup"} # {}
    PROVE  ConnInv'
<1>1. /\ pending \in Seq(ConnFunctor) /\ conn.state_ # "kConnecting" /\ NoNew(pending)
      /\ UNCHANGED <<shared, freed, late>> /\ where' \in {"poll", "event", "functors"}
      /\ taken' \in Nat /\ callSteps' \in Seq(CallStep) /\ (where' # "event" => received' = {})
  BY EventFacts
<1>2. late \/ parked \/ conn.state_ \in {"kConnected", "kDisconnecting"}
  BY <1>1 DEF ConnInv, Life, Up, Closing, Erased, Destroyed, Shut
<1> QED
  BY <1>1, <1>2, CloseKeeps

\* A callback that leaves the connection as it is.
LEMMA EventQuiet ==
    ASSUME ConnInv, handleEventWithGuard, SameEnd(conn, conn'), received' \subseteq received,
           UNCHANGED <<connections_, pending, baseFunctors, sent, parked, crashed>>
    PROVE  ConnInv'
<1>1. ConnTypeOK'
  BY EventFacts DEF ConnInv, ConnTypeOK, SameEnd
<1>2. Quiet
  BY EventFacts DEF Quiet, Shut
<1> QED
  BY <1>1, <1>2, QuietKeeps

\* A callback that changes it.
LEMMA EventMoves ==
    ASSUME ConnInv, handleEventWithGuard, QueueMoves, received' \subseteq received,
           UNCHANGED <<connections_, baseFunctors, parked, crashed>>,
           conn' \in Connection, sent' \in Seq(Byte), conn'.wire \o conn'.outputBuffer_ = sent',
           Closed => conn'.state_ = conn.state_,
           ~Closed => conn'.state_ \in {"kConnected", "kDisconnecting"},
           Flushing(conn) => Flushing(conn'), Polled(conn) => Polled(conn'),
           Shut => conn'.events_ = {} /\ conn'.index_ = conn.index_
    PROVE  ConnInv'
<1>1. /\ conn.state_ # "kConnecting" /\ late' = late /\ late \in BOOLEAN
      /\ UNCHANGED <<connections_, shared, baseFunctors, freed, crashed, parked>>
      /\ where' \in {"poll", "event", "functors"} /\ taken' \in Nat /\ callSteps' \in Seq(CallStep)
      /\ where' = "event"
  BY EventFacts
<1>2. (Closed => Closed') /\ (Closed => conn'.state_ # "kConnecting")
  BY DEF Closed
<1>3. Moves
  BY <1>1, <1>2 DEF Moves
<1> QED
  BY <1>3, MoveKeeps

\* handleRead gives what arrived to the user, closes, or finds an error (TcpConnection.cc:252).
LEMMA ReadStep ==
    ASSUME ConnInv, handleEventWithGuard, received \cap {"hup", "err"} = {}, "in" \in received,
           handleConnRead, received' = received \ {"in"}
    PROVE  ConnInv'
<1>0. /\ conn \in Connection /\ pending \in Seq(ConnFunctor) /\ conn.state_ # "kConnecting"
      /\ sent \in Seq(Byte) /\ conn.wire \o conn.outputBuffer_ = sent
  BY EventFacts
<1>1. CASE /\ conn.unread /\ UserCallback([conn EXCEPT !.unread = FALSE], pending)
           /\ UNCHANGED <<connections_, baseFunctors, parked, crashed>>
  <2> DEFINE c == [conn EXCEPT !.unread = FALSE]
  <2>1. UserCallback(c, pending)
    BY <1>1
  <2>2. SameEnd(conn, c)
    BY <1>0, PeerFields
  <2> HIDE DEF c
  <2>3. /\ c \in Connection /\ c.state_ = conn.state_ /\ c.events_ = conn.events_
        /\ c.index_ = conn.index_ /\ c.wire \o c.outputBuffer_ = sent
        /\ (Flushing(conn) => Flushing(c)) /\ (Polled(conn) => Polled(c))
    BY <1>0, <2>2, SameEndKeeps DEF SameEnd, Keeps
  <2>4. /\ conn' \in Connection /\ sent' \in Seq(Byte)
        /\ conn'.wire \o conn'.outputBuffer_ = sent'
        /\ (Flushing(c) => Flushing(conn')) /\ (Polled(c) => Polled(conn'))
        /\ c.state_ \in {"kConnected", "kDisconnecting"} =>
              /\ conn'.state_ \in {"kConnected", "kDisconnecting"}
              /\ pending' = pending \/ pending' = Append(pending, "forceCloseInLoop")
        /\ c.state_ \notin {"kConnected", "kDisconnecting"} => conn' = c /\ pending' = pending
    BY <1>0, <2>1, <2>3, CallbackKeeps
  <2>5. ~Closed => c.state_ \in {"kConnected", "kDisconnecting"}
    BY <1>0, <2>3 DEF Connection, Closed
  <2>6. Closed => conn' = c /\ pending' = pending
    BY <2>3, <2>4 DEF Closed
  <2>7. QueueMoves
    <3>1. /\ "forceCloseInLoop" \in ConnFunctor
          /\ "forceCloseInLoop" \notin {"connectEstablished", "connectDestroyed"}
      BY DEF ConnFunctor, LoopFunctors
    <3> QED
      BY <2>4, <2>5, <2>6, <3>1 DEF QueueMoves
  <2>8. Shut => conn'.events_ = {} /\ conn'.index_ = conn.index_
    BY <2>3, <2>6 DEF Shut, Closed
  <2> QED
    BY <1>1, <2>3, <2>4, <2>5, <2>6, <2>7, <2>8, EventMoves
<1>2. CASE handleClose(pending)
  BY <1>2, EventCloses
<1>3. CASE /\ conn' = [conn EXCEPT !.peer = IF @ = "reset" THEN "eof" ELSE @]
           /\ UNCHANGED <<connections_, pending, baseFunctors, sent, parked, crashed>>
  <2>1. SameEnd(conn, conn')
    BY <1>0, <1>3, ResetFields
  <2> QED
    BY <1>3, <2>1, EventQuiet
<1> QED
  BY <1>1, <1>2, <1>3 DEF handleConnRead

\* One callback of Channel::handleEventWithGuard (channel.cc:66).
LEMMA EventStep ==
    ASSUME ConnInv, handleEventWithGuard
    PROVE  ConnInv'
<1>0. conn \in Connection /\ sent \in Seq(Byte) /\ conn.wire \o conn.outputBuffer_ = sent
      /\ conn.state_ # "kConnecting"
  BY EventFacts
<1>1. CASE /\ "hup" \in received /\ "in" \notin received /\ handleClose(pending)
           /\ received' = received \ {"hup"}
  BY <1>1, EventCloses
<1>2. CASE /\ "hup" \in received /\ "in" \in received /\ received' = received \ {"hup"}
           /\ UNCHANGED <<conn, connections_, pending, baseFunctors, sent, parked, crashed>>
  <2>1. SameEnd(conn, conn')
    BY <1>0, <1>2 DEF SameEnd
  <2> QED
    BY <1>2, <2>1, EventQuiet
<1>3. CASE /\ "hup" \notin received /\ "err" \in received /\ handleConnError
           /\ received' = received \ {"err"}
  <2>1. SameEnd(conn, conn')
    BY <1>0, <1>3, ResetFields DEF handleConnError
  <2> QED
    BY <1>3, <2>1, EventQuiet DEF handleConnError
<1>4. CASE /\ received \cap {"hup", "err"} = {} /\ "in" \in received /\ handleConnRead
           /\ received' = received \ {"in"}
  BY <1>4, ReadStep
<1>5. CASE received = {"out"} /\ handleConnWrite /\ received' = {}
  <2>1. /\ conn' \in Connection /\ conn'.state_ = conn.state_
        /\ conn'.wire \o conn'.outputBuffer_ = conn.wire \o conn.outputBuffer_
        /\ (Flushing(conn) => Flushing(conn')) /\ (Polled(conn) => Polled(conn'))
        /\ ~isWriting(conn) => conn' = conn
    BY <1>5, WriteFields
  <2>2. UNCHANGED <<connections_, pending, baseFunctors, sent, parked, crashed>>
    BY <1>5 DEF handleConnWrite
  <2>3. Shut => conn'.events_ = {} /\ conn'.index_ = conn.index_
    BY <2>1 DEF Shut, isWriting
  <2>4. ~Closed => conn'.state_ \in {"kConnected", "kDisconnecting"}
    BY <1>0, <2>1 DEF Connection, Closed
  <2>5. QueueMoves
    BY <2>2 DEF QueueMoves
  <2> QED
    BY <1>0, <1>5, <2>1, <2>2, <2>3, <2>4, <2>5, EventMoves
<1> QED
  BY <1>1, <1>2, <1>3, <1>4, <1>5 DEF handleEventWithGuard

\* What epoll reports; a closed connection without events is not in epoll.
LEMMA PollStep ==
    ASSUME ConnInv, NEW writable, pollConn(writable)
    PROVE  ConnInv'
<1>1. /\ conn.index_ = "kAdded" /\ where' = "event" /\ received' = Reported(conn, writable)
      /\ conn' = conn /\ connections_' = connections_ /\ shared' = shared /\ pending' = pending
      /\ taken' = taken /\ baseFunctors' = baseFunctors /\ sent' = sent /\ freed' = freed
      /\ crashed' = crashed /\ late' = late /\ parked' = parked /\ callSteps' = callSteps
  BY DEF pollConn, ConnLoop, otherVars
<1>2. received' \in SUBSET {"in", "out", "hup", "err"}
  BY <1>1 DEF Reported
<1>3. ConnTypeOK'
  BY <1>1, <1>2 DEF ConnInv, ConnTypeOK
<1>4. conn.state_ # "kConnecting"
  BY <1>1 DEF ConnInv, Established
<1>5. CASE late \/ parked
  BY <1>1, <1>3, <1>4, <1>5 DEF ConnInv, Established, Flushed, Closed
<1>6. CASE ~(late \/ parked)
  <2>1. Up
    BY <1>1, <1>4, <1>6 DEF ConnInv, Life, Closing, Erased, Destroyed
  <2>2. ~Shut
    BY <2>1 DEF Up, Shut
  <2>3. Quiet
    BY <1>1, <1>4, <2>2 DEF Quiet, SameEnd, ConnInv, ConnTypeOK
  <2> QED
    BY <1>3, <2>3, QuietKeeps
<1> QED
  BY <1>5, <1>6

\* doPendingFunctors takes the queue; the functors stay in it until they run.
LEMMA TakeStep ==
    ASSUME ConnInv, TakePending
    PROVE  ConnInv'
<1>1. /\ where' = (IF pending = <<>> THEN "poll" ELSE "functors") /\ taken' = Len(pending)
      /\ received = {} /\ received' = received
      /\ conn' = conn /\ connections_' = connections_ /\ shared' = shared /\ pending' = pending
      /\ baseFunctors' = baseFunctors /\ sent' = sent /\ freed' = freed
      /\ crashed' = crashed /\ late' = late /\ parked' = parked /\ callSteps' = callSteps
  BY DEF TakePending, ConnLoop, otherVars, ConnInv, ConnTypeOK
<1>2. taken' \in Nat
  BY <1>1, LenProperties DEF ConnInv, ConnTypeOK
<1>3. ConnTypeOK'
  BY <1>1, <1>2 DEF ConnInv, ConnTypeOK
<1>4. Quiet
  BY <1>1 DEF Quiet, SameEnd, ConnInv, ConnTypeOK
<1> QED
  BY <1>3, <1>4, QuietKeeps

\* A call of the other thread begins: it has only read state_.
LEMMA CallStarts ==
    ASSUME ConnInv, NEW states, NEW steps \in Seq(CallStep), "kConnecting" \notin states,
           ConnCall(states, steps)
    PROVE  ConnInv'
<1>1. /\ conn.state_ # "kConnecting" /\ callSteps' = steps
      /\ where' = where /\ received' = received /\ taken' = taken
      /\ conn' = conn /\ connections_' = connections_ /\ shared' = shared /\ pending' = pending
      /\ baseFunctors' = baseFunctors /\ sent' = sent /\ freed' = freed
      /\ crashed' = crashed /\ late' = late /\ parked' = parked
  BY DEF ConnCall, serverVars
<1>2. ConnTypeOK'
  BY <1>1 DEF ConnInv, ConnTypeOK
<1>3. Quiet
  BY <1>1 DEF Quiet, SameEnd, ConnInv, ConnTypeOK, Shut
<1> QED
  BY <1>2, <1>3, QuietKeeps

\* The calls of the other thread.
LEMMA CallsStep ==
    ASSUME ConnInv,
           (\E m \in Messages : send(m)) \/ shutdown \/ forceClose \/ startRead \/ stopRead
    PROVE  ConnInv'
<1>1. ASSUME NEW m \in Messages, send(m) PROVE ConnInv'
  <2>1. <<m>> \in Seq(CallStep) /\ "kConnecting" \notin {"kConnected"}
    BY DEF CallStep
  <2> QED
    BY <1>1, <2>1, CallStarts DEF send
<1>2. CASE shutdown
  <2>1. <<"kDisconnecting", "shutdownInLoop">> \in Seq(CallStep)
        /\ "kConnecting" \notin {"kConnected"}
    BY DEF CallStep
  <2> QED
    BY <1>2, <2>1, CallStarts DEF shutdown
<1>3. CASE forceClose
  <2>1. <<"kDisconnecting", "forceCloseInLoop">> \in Seq(CallStep)
        /\ "kConnecting" \notin {"kConnected", "kDisconnecting"}
    BY DEF CallStep
  <2> QED
    BY <1>3, <2>1, CallStarts DEF forceClose
<1>4. CASE startRead
  <2>1. <<"startReadInLoop">> \in Seq(CallStep)
        /\ "kConnecting" \notin {"kConnected", "kDisconnecting", "kDisconnected"}
    BY DEF CallStep
  <2> QED
    BY <1>4, <2>1, CallStarts DEF startRead
<1>5. CASE stopRead
  <2>1. <<"stopReadInLoop">> \in Seq(CallStep)
        /\ "kConnecting" \notin {"kConnected", "kDisconnecting", "kDisconnected"}
    BY DEF CallStep
  <2> QED
    BY <1>5, <2>1, CallStarts DEF stopRead
<1> QED
  BY <1>1, <1>2, <1>3, <1>4, <1>5

\* The call sets the state without a test, or queues its functor.
LEMMA CallGoesOnStep ==
    ASSUME ConnInv, ConnCallGoesOn
    PROVE  ConnInv'
<1>1. /\ callSteps # <<>> /\ callSteps' = Tail(callSteps) /\ late' = (late \/ Closed)
      /\ IF Head(callSteps) = "kDisconnecting"
         THEN conn' = [conn EXCEPT !.state_ = "kDisconnecting"] /\ pending' = pending
         ELSE pending' = Append(pending, Head(callSteps)) /\ conn' = conn
      /\ where' = where /\ received' = received /\ taken' = taken /\ sent' = sent
      /\ UNCHANGED <<connections_, shared, baseFunctors, freed, crashed, parked>>
  BY DEF ConnCallGoesOn, serverVars
<1>2. /\ conn \in Connection /\ sent \in Seq(Byte) /\ conn.wire \o conn.outputBuffer_ = sent
      /\ callSteps \in Seq(CallStep) /\ late \in BOOLEAN /\ taken \in Nat
      /\ where \in {"poll", "event", "functors"} /\ (where # "event" => received = {})
  BY DEF ConnInv, ConnTypeOK
<1>3. conn.state_ # "kConnecting"
  BY <1>1 DEF ConnInv, Established
<1>4. Head(callSteps) \in CallStep /\ callSteps' \in Seq(CallStep)
  BY <1>1, <1>2, HeadTailProperties
<1>5. late' \in BOOLEAN /\ (late => late') /\ (Closed => late')
  BY <1>1 DEF Closed
<1>6. CASE Head(callSteps) = "kDisconnecting"
  <2>1. conn' = [conn EXCEPT !.state_ = "kDisconnecting"] /\ pending' = pending
    BY <1>1, <1>6
  <2>2. /\ conn' \in Connection /\ conn'.state_ = "kDisconnecting" /\ conn'.fin = conn.fin
        /\ conn'.events_ = conn.events_ /\ conn'.index_ = conn.index_
        /\ conn'.wire = conn.wire /\ conn'.outputBuffer_ = conn.outputBuffer_
    BY <1>2, <2>1 DEF Connection
  <2>3. (Flushing(conn) => Flushing(conn')) /\ (Polled(conn) => Polled(conn'))
    BY <2>2 DEF Flushing, Polled, isWriting
  <2>4. QueueMoves
    BY <2>1 DEF QueueMoves
  <2>5. Shut => Closed
    BY DEF Shut, Closed
  <2>6. Moves
    BY <1>1, <1>2, <1>3, <1>4, <1>5, <2>2, <2>3, <2>4, <2>5 DEF Moves
  <2> QED
    BY <2>6, MoveKeeps
<1>7. CASE Head(callSteps) # "kDisconnecting"
  <2> DEFINE f == Head(callSteps)
  <2>1. pending' = Append(pending, f) /\ conn' = conn
    BY <1>1, <1>7
  <2>2. f \in ConnFunctor /\ f \notin {"connectEstablished", "connectDestroyed"}
    BY <1>4, <1>7, FunctorNames DEF CallStep, ConnFunctor, LoopFunctors
  <2> HIDE DEF f
  <2>3. QueueMoves
    BY <1>5, <2>1, <2>2 DEF QueueMoves
  <2>4. ~Closed => conn'.state_ \in {"kConnected", "kDisconnecting"}
    BY <1>2, <1>3, <2>1 DEF Closed, Connection
  <2>5. Shut => Closed
    BY DEF Shut, Closed
  <2>6. Moves
    BY <1>1, <1>2, <1>3, <1>4, <1>5, <2>1, <2>3, <2>4, <2>5 DEF Moves
  <2> QED
    BY <2>6, MoveKeeps
<1> QED
  BY <1>6, <1>7

\* The other thread lets its pointer go.
LEMMA DropStep ==
    ASSUME ConnInv, Drop
    PROVE  ConnInv'
<1>1. /\ callSteps' = callSteps /\ where' = where /\ received' = received /\ taken' = taken
      /\ conn' = conn /\ connections_' = connections_ /\ shared' = shared /\ pending' = pending
      /\ baseFunctors' = baseFunctors /\ sent' = sent /\ freed' = freed
      /\ crashed' = crashed /\ late' = late /\ parked' = parked
  BY DEF Drop, serverVars
<1>2. ConnTypeOK'
  BY <1>1 DEF ConnInv, ConnTypeOK
<1>3. Quiet
  BY <1>1 DEF Quiet, SameEnd, ConnInv, ConnTypeOK, Shut
<1> QED
  BY <1>2, <1>3, QuietKeeps

\* The peer sends, ends its stream or resets the connection.
LEMMA PeerStep ==
    ASSUME ConnInv, Peer
    PROVE  ConnInv'
<1>1. /\ callSteps' = callSteps /\ where' = where /\ received' = received /\ taken' = taken
      /\ connections_' = connections_ /\ shared' = shared /\ pending' = pending
      /\ baseFunctors' = baseFunctors /\ sent' = sent /\ freed' = freed
      /\ crashed' = crashed /\ late' = late /\ parked' = parked
  BY DEF Peer, serverVars, otherVars
<1>2. SameEnd(conn, conn')
  BY PeerFields DEF Peer, ConnInv, ConnTypeOK
<1>3. ConnTypeOK'
  BY <1>1, <1>2 DEF ConnInv, ConnTypeOK, SameEnd
<1>4. Quiet
  BY <1>1, <1>2 DEF Quiet, Shut
<1> QED
  BY <1>3, <1>4, QuietKeeps

\* A step of nobody.
LEMMA StutterKeeps ==
    ASSUME ConnInv, UNCHANGED connVars
    PROVE  ConnInv'
<1>1. /\ callSteps' = callSteps /\ where' = where /\ received' = received /\ taken' = taken
      /\ conn' = conn /\ connections_' = connections_ /\ shared' = shared /\ pending' = pending
      /\ baseFunctors' = baseFunctors /\ sent' = sent /\ freed' = freed
      /\ crashed' = crashed /\ late' = late /\ parked' = parked
  BY DEF connVars
<1>2. ConnTypeOK'
  BY <1>1 DEF ConnInv, ConnTypeOK
<1>3. Quiet
  BY <1>1 DEF Quiet, SameEnd, ConnInv, ConnTypeOK, Shut
<1> QED
  BY <1>2, <1>3, QuietKeeps

\* Every step keeps the invariant.
LEMMA ConnNextKeeps ==
    ASSUME ConnInv, [ConnNext]_connVars
    PROVE  ConnInv'
<1>1. CASE IoLoop
  <2>1. CASE \E writable \in BOOLEAN : pollConn(writable)
    BY <2>1, PollStep
  <2>2. CASE handleEventWithGuard
    BY <2>2, EventStep
  <2>3. CASE TakePending
    BY <2>3, TakeStep
  <2>4. CASE connectEstablished
    BY <2>4, EstablishedStep
  <2>5. CASE \E m \in Messages : runSendInLoop(m)
    BY <2>5, SendStep
  <2>6. CASE runShutdownInLoop
    BY <2>6, ShutdownStep
  <2>7. CASE forceCloseInLoop
    BY <2>7, ForceCloseStep
  <2>8. CASE startReadInLoop
    BY <2>8, ReadingStep DEF startReadInLoop
  <2>9. CASE stopReadInLoop
    BY <2>9, ReadingStep DEF stopReadInLoop
  <2>10. CASE connectDestroyed
    BY <2>10, DestroyedStep
  <2> QED
    BY <1>1, <2>1, <2>2, <2>3, <2>4, <2>5, <2>6, <2>7, <2>8, <2>9, <2>10 DEF IoLoop
<1>2. CASE removeConnectionInLoop
  BY <1>2, RemoveKeeps
<1>3. CASE (\E m \in Messages : send(m)) \/ shutdown \/ forceClose \/ startRead \/ stopRead
  BY <1>3, CallsStep
<1>4. CASE ConnCallGoesOn
  BY <1>4, CallGoesOnStep
<1>5. CASE Drop
  BY <1>5, DropStep
<1>6. CASE Destroy
  BY <1>6, DestroyKeeps
<1>7. CASE Peer
  BY <1>7, PeerStep
<1>8. CASE UNCHANGED connVars
  BY <1>8, StutterKeeps
<1> QED
  BY <1>1, <1>2, <1>3, <1>4, <1>5, <1>6, <1>7, <1>8 DEF ConnNext

\* The life of a connection: every state that ConnSpec reaches satisfies ConnInv.
THEOREM ConnectionLives == ConnSpec => []ConnInv
<1>1. ConnInit => ConnInv
  BY InitConn
<1>2. ConnInv /\ [ConnNext]_connVars => ConnInv'
  BY ConnNextKeeps
<1> QED
  BY <1>1, <1>2, PTL DEF ConnSpec

\* A connection closes once, and no assertion fails and no functor finds it gone, whoever closes it
\* and however the steps of the two loops and the other thread interleave, unless a call overlaps
\* the close or the closed channel is put back into epoll (TcpConnection.cc:55, 297).
THEOREM ConnectionClosesOnce == ConnSpec => []ClosesOnce
<1>1. ConnInv => ClosesOnce
  BY DEF ConnInv, ClosesOnce, Life
<1> QED
  BY <1>1, ConnectionLives, PTL

\* The peer gets what sendInLoop took, whole and in order, and then the end of the stream, however
\* many messages there are and however the kernel cuts them (TcpConnection.cc:116, 145, 280).
THEOREM ConnectionSendsInOrder == ConnSpec => []InOrderThenFin
<1>1. ConnInv => InOrderThenFin
  BY DEF ConnInv, InOrderThenFin, Flushed, Flushing
<1> QED
  BY <1>1, ConnectionLives, PTL
=============================================================================

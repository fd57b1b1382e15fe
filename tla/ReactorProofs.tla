--------------------------- MODULE ReactorProofs ---------------------------
(***************************************************************************)
(* Three components of the reactor, each with its own inductive invariant: *)
(*                                                                         *)
(*  - the loop (EventLoop.cc): LoopInv, a functor that waits has a wake-up *)
(*    that is written or about to be;                                      *)
(*  - the queue of timers (timerQueue.cc): QueueInv, where a Timer object  *)
(*    may be, which timers repeat and whose id a caller has;               *)
(*  - the log (AsyncLogging.cc): LogInv, where a line may be, its place in *)
(*    the order, and that the two spare buffers come back.                 *)
(***************************************************************************)
EXTENDS EventLoop, TimerQueue, AsyncLogging, FiniteSetTheorems, SequenceTheorems, TLAPS

\* Most steps need no arithmetic: Zenon is tried before SMT.
USE ZenonT(10), SMTT(15)
-----------------------------------------------------------------------------
(***************************************************************************)
(* The loop                                                                *)
(***************************************************************************)

\* In the first state nothing is queued and nobody sleeps (EventLoop.cc:55).
LEMMA LoopInit == Init => LoopInv
  <1>. SUFFICES ASSUME Init PROVE LoopInv
    OBVIOUS
  <1>1. TypeOK
    <2>1. waking \in [Others -> BOOLEAN]
      BY DEF Init
    <2>2. pendingFunctors_ \in Seq(Functors) /\ functors \in Seq(Functors)
      BY DEF Init
    <2>3. activeChannels_ = {} /\ queued = {} /\ ran = {}
      BY DEF Init
    <2>4. /\ pc = "init" /\ owner = "alive"
          /\ quit_ = FALSE /\ eventfd = FALSE /\ callingPendingFunctors_ = FALSE
      BY DEF Init
    <2>. QED BY <2>1, <2>2, <2>3, <2>4, Zenon DEF TypeOK
  <1>2. pc = "init" /\ pendingFunctors_ = <<>> /\ callingPendingFunctors_ = FALSE
    BY DEF Init
  <1>. QED BY <1>1, <1>2 DEF LoopInv

\* What a callback leaves of the parts of LoopInv it can disturb: it queues a functor with a
\* wake-up if functors are being called, or sets quit_ (EventLoop.cc:112, 129).
LEMMA CallbackKeeps ==
  ASSUME LoopInv, Callback, UNCHANGED waking
  PROVE  /\ quit_' \in BOOLEAN /\ eventfd' \in BOOLEAN
         /\ pendingFunctors_' \in Seq(Functors) /\ queued' \subseteq Functors
         /\ WakeComes => WakeComes'
         /\ callingPendingFunctors_ /\ pendingFunctors_' # pendingFunctors_ => WakeComes'
  <1>1. CASE UNCHANGED <<quit_, eventfd, pendingFunctors_, queued>>
    BY <1>1 DEF LoopInv, TypeOK, WakeComes
  <1>2. CASE \E f \in Functors : queueInLoop(f) /\ UNCHANGED quit_
    BY <1>2, SMTT(15) DEF LoopInv, TypeOK, WakeComes, queueInLoop, push
  <1>3. CASE quit_' = TRUE /\ UNCHANGED <<eventfd, pendingFunctors_, queued>>
    BY <1>3 DEF LoopInv, TypeOK, WakeComes
  <1>. QED BY <1>1, <1>2, <1>3 DEF Callback

\* The steps of the loop thread keep LoopInv (EventLoop.cc:87, 209).
LEMMA LoopThreadKeeps == LoopInv /\ LoopThread => LoopInv'
  <1>. SUFFICES ASSUME LoopInv, LoopThread PROVE LoopInv'
    OBVIOUS
  <1>. USE DEF LoopInv, TypeOK, WakeComes
  <1>1. CASE Publish
    BY <1>1 DEF Publish
  <1>2. CASE loop
    BY <1>2 DEF loop
  <1>3. CASE While
    BY <1>3 DEF While
  <1>4. CASE poll
    BY <1>4 DEF poll
  <1>5. CASE handleWakeup
    BY <1>5 DEF handleWakeup
  <1>6. CASE \E c \in Channels : handleEvent(c)
    <2>1. Callback /\ UNCHANGED waking
      BY <1>6 DEF handleEvent
    <2>. QED BY <1>6, <2>1, CallbackKeeps, SMTT(15) DEF handleEvent
  <1>7. CASE EventsHandled
    BY <1>7 DEF EventsHandled
  <1>8. CASE SwapFunctors
    BY <1>8, SMTT(15) DEF SwapFunctors
  <1>9. CASE RunFunctor
    <2>1. Callback /\ UNCHANGED waking
      BY <1>9 DEF RunFunctor
    <2>2. Tail(functors) \in Seq(Functors) /\ Head(functors) \in Functors
      BY <1>9, SMTT(15) DEF RunFunctor
    <2>. QED BY <1>9, <2>1, <2>2, CallbackKeeps DEF RunFunctor
  <1>10. CASE FunctorsDone
    BY <1>10 DEF FunctorsDone
  <1>11. CASE Leave
    BY <1>11 DEF Leave
  <1>. QED BY <1>1, <1>2, <1>3, <1>4, <1>5, <1>6, <1>7, <1>8, <1>9, <1>10, <1>11 DEF LoopThread

\* Every step keeps LoopInv: another thread that changes something the loop must see is then about
\* to wake it (EventLoop.cc:112, 129, 163).
LEMMA NextKeeps == LoopInv /\ [Next]_vars => LoopInv'
  <1>. SUFFICES ASSUME LoopInv, [Next]_vars PROVE LoopInv'
    OBVIOUS
  <1>. USE DEF LoopInv, TypeOK, WakeComes
  <1>1. CASE LoopThread
    BY <1>1, LoopThreadKeeps
  <1>2. CASE pollTimeout
    BY <1>2 DEF pollTimeout
  <1>3. ASSUME NEW u \in Others, quit(u), owner' \in {"alive", "joining", "gone"} PROVE LoopInv'
    BY <1>3 DEF quit, HaveLoop
  <1>4. ASSUME NEW u \in Users, NEW f \in Functors, queueInLoopElsewhere(u, f) PROVE LoopInv'
    BY <1>4, SMTT(15) DEF queueInLoopElsewhere, push, HaveLoop, Others
  <1>5. ASSUME NEW u \in Others, wakeup(u) PROVE LoopInv'
    BY <1>5 DEF wakeup
  <1>6. CASE Destruct
    BY <1>6, <1>3 DEF Destruct, Others
  <1>7. CASE DestructUnstarted \/ Join
    BY <1>7, SMTT(15) DEF DestructUnstarted, Join
  <1>8. CASE UNCHANGED vars
    BY <1>8 DEF vars
  <1>. QED BY <1>1, <1>2, <1>3, <1>4, <1>5, <1>6, <1>7, <1>8 DEF Next, Others

\* LoopInv holds in every state of the loop (EventLoop.cc:87).
THEOREM LoopInductive == Spec => []LoopInv
  BY LoopInit, NextKeeps, PTL DEF Spec

\* A functor that was queued never waits for the timeout of epoll_wait (EventLoop.cc:134).
THEOREM NeverSleepsOnPending == Spec => []NoSleepOnPending
  <1>1. LoopInv => NoSleepOnPending
    BY DEF LoopInv, NoSleepOnPending
  <1>. QED BY <1>1, LoopInductive, PTL

-----------------------------------------------------------------------------
(***************************************************************************)
(* The queue of timers                                                     *)
(***************************************************************************)
\* Times are natural numbers.
Times == Delays \subseteq Nat /\ Intervals \subseteq Nat /\ MaxNow \in Nat

Timer == [sequence : Nat, expiration : Nat, interval : Nat]
Functor == {"add", "cancel"} \X Addrs \X Nat
QueueTypeOK ==
  /\ now \in Nat /\ timerfd \in Nat /\ read_at \in Nat
  /\ heap \in [Addrs -> Timer]
  /\ timers_ \subseteq Nat \X Addrs
  /\ callingExpiredTimers_ \in BOOLEAN
  /\ Range(expired) \subseteq Addrs
  /\ issued \subseteq Addrs \X Nat /\ IsFiniteSet(issued)
  /\ requests \in Seq(Functor)

\* An address and a number are given out once, and a Timer object has its own.
IdInv ==
  /\ \A id \in issued : id[2] \in 1..Cardinality(issued)
  /\ \A a \in Addrs : heap[a] # NoTimer => Id(a) \in issued
  /\ activeTimers_ \subseteq issued
  /\ repeating \subseteq issued /\ cancelled \subseteq repeating

\* Whoever called addTimer has the id of the timer, or that was deleted.
HandleInv ==
  /\ unread \subseteq issued
  /\ \A h \in handles : h[1] \in issued /\ h[2] \in Addrs \X Nat
  /\ IdsAreOwn

\* addTimer from another thread: the loop will insert the timer at a.
Pending(i, a) == i \in 1..Len(requests) /\ requests[i][1] = "add" /\ requests[i][2] = a

\* A Timer object is in the queue, in expired or pending, and not in two of them.
PlaceInv ==
  /\ SetsAgree
  /\ ~callingExpiredTimers_ => Range(expired) = {}
  /\ \A a \in Range(expired) : heap[a] # NoTimer /\ \A e \in timers_ : e[2] # a
  /\ \A a \in Addrs : \A i \in 1..Len(requests) : Pending(i, a) =>
        /\ heap[a] # NoTimer /\ a \notin Range(expired)
        /\ \A e \in timers_ : e[2] # a
        /\ Id(a) \notin repeating
        /\ \A j \in 1..Len(requests) : Pending(j, a) => i = j

\* What a callback cancels is remembered until reset(), and of what expired only that.
RepeatInv ==
  /\ RepeatExact
  /\ \A a \in Addrs : heap[a] # NoTimer /\ Id(a) \in repeating => heap[a].interval > 0
  /\ \A a \in Range(expired) : Id(a) \in repeating =>
        (Id(a) \in cancelled <=> Id(a) \in cancelingTimers_)

QueueInv == QueueTypeOK /\ IdInv /\ HandleInv /\ PlaceInv /\ RepeatInv /\ TimerfdArmed
-----------------------------------------------------------------------------
(***************************************************************************)
(* Operators                                                               *)
(***************************************************************************)
\* The later of two times (timerQueue.cc:31).
LEMMA MaxFacts ==
  ASSUME NEW x \in Nat, NEW y \in Nat
  PROVE  /\ Max({x, y}) \in Nat /\ x <= Max({x, y}) /\ y <= Max({x, y})
         /\ Max({x, y}) \in {x, y}
<1>1. \E z \in {x, y} : \A v \in {x, y} : z >= v
  BY SMTT(15)
<1>2. Max({x, y}) \in {x, y} /\ \A v \in {x, y} : Max({x, y}) >= v
  BY <1>1 DEF Max
<1>. QED BY <1>2

\* queueInLoop adds a functor at the end (EventLoop.cc:124).
LEMMA AppendFacts ==
  ASSUME NEW S, NEW q \in Seq(S), NEW w \in S
  PROVE  /\ Append(q, w) \in Seq(S) /\ Len(Append(q, w)) = Len(q) + 1 /\ Len(q) \in Nat
         /\ \A i \in 1..Len(q) : Append(q, w)[i] = q[i]
         /\ Append(q, w)[Len(q) + 1] = w
  OBVIOUS

\* What is left of the functors when the loop has taken the first (EventLoop.cc:209).
LEMMA TailFacts ==
  ASSUME NEW S, NEW q \in Seq(S), q # <<>>
  PROVE  /\ Tail(q) \in Seq(S) /\ Len(Tail(q)) = Len(q) - 1 /\ Len(q) \in Nat \ {0}
         /\ \A i \in 1..Len(Tail(q)) : Tail(q)[i] = q[i + 1] /\ i + 1 \in 1..Len(q) /\ i + 1 # 1
         /\ Head(q) = q[1] /\ q[1] \in S
  OBVIOUS

\* A timer object that exists has a sequence number (timer.h:16).
LEMMA TimerFacts ==
  ASSUME QueueInv, NEW a \in Addrs, heap[a] # NoTimer
  PROVE  /\ heap[a].sequence \in Nat \ {0} /\ Id(a) \in issued
         /\ heap[a].expiration \in Nat /\ heap[a].interval \in Nat
<1>1. heap[a] \in Timer /\ Id(a) \in issued
  BY DEF QueueInv, QueueTypeOK, IdInv
<1>2. Id(a)[2] \in 1..Cardinality(issued) /\ Id(a)[2] = heap[a].sequence
  BY <1>1 DEF QueueInv, IdInv, Id
<1>3. IsFiniteSet(issued)
  BY DEF QueueInv, QueueTypeOK
<1>4. Cardinality(issued) \in Nat
  BY <1>3, FS_CardinalityType
<1>. QED BY <1>1, <1>2, <1>4 DEF Timer

\* The entries of the queue (timerQueue.h:27).
LEMMA EntryFacts ==
  ASSUME QueueInv, NEW e \in timers_
  PROVE  /\ e[1] \in Nat /\ e[2] \in Addrs /\ e = <<e[1], e[2]>>
         /\ heap[e[2]].expiration = e[1] /\ heap[e[2]] # NoTimer /\ Id(e[2]) \in activeTimers_
         /\ e = <<heap[e[2]].expiration, e[2]>>
<1>1. e \in Nat \X Addrs
  BY DEF QueueInv, QueueTypeOK
<1>2. heap[e[2]].expiration = e[1] /\ heap[e[2]] # NoTimer /\ Id(e[2]) \in activeTimers_
  BY DEF QueueInv, PlaceInv, SetsAgree
<1>. QED BY <1>1, <1>2

\* A TimerId in activeTimers_ is the one of the object at its address (timerQueue.cc:118).
LEMMA ActiveFacts ==
  ASSUME QueueInv, NEW id \in activeTimers_
  PROVE  /\ id[1] \in Addrs /\ Id(id[1]) = id /\ heap[id[1]] # NoTimer
         /\ <<heap[id[1]].expiration, id[1]>> \in timers_
<1>1. PICK e \in timers_ : id = Id(e[2])
  BY DEF QueueInv, PlaceInv, SetsAgree
<1>2. id[1] = e[2]
  BY <1>1 DEF Id
<1>. QED BY <1>1, <1>2, EntryFacts

\* new Timer takes a free address and the next number (timer.h:16).
LEMMA NewFacts ==
  ASSUME Times, QueueInv, NEW a \in Addrs, NEW delay \in Delays, NEW interval \in Intervals,
         NewTimer(a, delay, interval)
  PROVE  /\ heap[a] = NoTimer /\ heap' \in [Addrs -> Timer] /\ heap'[a] # NoTimer
         /\ \A b \in Addrs \ {a} : heap'[b] = heap[b]
         /\ heap'[a].sequence = Cardinality(issued')
         /\ issued' \subseteq Addrs \X Nat /\ IsFiniteSet(issued')
         /\ \A id \in issued' : id[2] \in 1..Cardinality(issued')
         /\ issued' = issued \cup {<<a, heap'[a].sequence>>}
         /\ <<a, heap'[a].sequence>> \notin issued
<1>. DEFINE n == Cardinality(issued) + 1
            new == [sequence |-> n, expiration |-> now + delay, interval |-> interval]
<1>1. IsFiniteSet(issued) /\ issued \subseteq Addrs \X Nat /\ now \in Nat /\ heap \in [Addrs -> Timer]
  BY DEF QueueInv, QueueTypeOK
<1>2. Cardinality(issued) \in Nat
  BY <1>1, FS_CardinalityType
<1>3. <<a, n>> \notin issued
  <2>1. \A id \in issued : id[2] # n
    BY <1>2 DEF QueueInv, IdInv
  <2>. QED BY <2>1
<1>4. issued' = issued \cup {<<a, n>>}
  BY DEF NewTimer
<1>5. IsFiniteSet(issued') /\ Cardinality(issued') = n
  BY <1>1, <1>3, <1>4, FS_AddElement
<1>6. heap[a] = NoTimer /\ heap' = [heap EXCEPT ![a] = new]
  BY <1>5 DEF NewTimer
<1>7. new \in Timer /\ new.sequence = n
  BY <1>1, <1>2, SMTT(15) DEF Timer, Times
<1>8. heap' \in [Addrs -> Timer] /\ heap'[a] = new /\ \A b \in Addrs \ {a} : heap'[b] = heap[b]
  BY <1>1, <1>6, <1>7
<1>9. new # NoTimer
  BY <1>2 DEF NoTimer
<1>10. \A id \in issued' : id[2] \in 1..n
  BY <1>2, <1>4 DEF QueueInv, IdInv
<1>11. issued' \subseteq Addrs \X Nat
  BY <1>1, <1>2, <1>4, SMTT(15)
<1>. HIDE DEF new, n
<1>. QED BY <1>3, <1>4, <1>5, <1>6, <1>7, <1>8, <1>9, <1>10, <1>11

\* A step of the loop: what it deletes and makes leaves the ids that were returned as they are.
LEMMA HandlesStay ==
  ASSUME QueueInv, UNCHANGED <<issued, unread, handles>>,
         \A b \in Addrs : Id(b)' = Id(b) \/ heap'[b] = NoTimer
  PROVE  HandleInv'
<1>1. ASSUME NEW h \in handles, h[1] # h[2] PROVE Id(h[1][1])' # h[1]
  <2>1. h[1] \in issued /\ Id(h[1][1]) # h[1]
    BY <1>1 DEF QueueInv, HandleInv, IdsAreOwn
  <2>2. h[1][1] \in Addrs /\ h[1][2] # 0
    <3>1. h[1] \in Addrs \X Nat /\ h[1][2] \in 1..Cardinality(issued)
      BY <2>1 DEF QueueInv, QueueTypeOK, IdInv
    <3>. QED BY <3>1, SMTT(15)
  <2>3. heap'[h[1][1]] = NoTimer => Id(h[1][1])'[2] = 0
    BY DEF Id, NoTimer
  <2>. QED BY <2>1, <2>2, <2>3
<1>2. IdsAreOwn'
  BY <1>1 DEF IdsAreOwn
<1>. QED BY <1>2 DEF QueueInv, HandleInv

\* new Timer has a number that no call has.
LEMMA HandlesStayNew ==
  ASSUME QueueInv, NEW a \in Addrs, Id(a)' \notin issued, \A b \in Addrs : b # a => Id(b)' = Id(b)
  PROVE  \A h \in handles : h[1] = h[2] \/ Id(h[1][1])' # h[1]
<1>. SUFFICES ASSUME NEW h \in handles, h[1] # h[2] PROVE Id(h[1][1])' # h[1]
  OBVIOUS
<1>1. h[1] \in issued /\ Id(h[1][1]) # h[1]
  BY DEF QueueInv, HandleInv, IdsAreOwn
<1>2. h[1][1] \in Addrs
  BY <1>1 DEF QueueInv, QueueTypeOK
<1>. QED BY <1>1, <1>2
-----------------------------------------------------------------------------
(***************************************************************************)
(* Adding and cancelling                                                   *)
(***************************************************************************)
\* The timer at a, which is nowhere yet, is put into the queue (timerQueue.cc:105, 193).
LEMMA InsertFacts ==
  ASSUME QueueInv, NEW a \in Addrs,
         heap' \in [Addrs -> Timer], heap'[a] # NoTimer,
         \A b \in Addrs \ {a} : heap'[b] = heap[b],
         \A e \in timers_ : e[2] # a, a \notin Range(expired),
         <<a, heap'[a].sequence>> \notin repeating,
         addTimerInLoop(a, heap'[a]),
         UNCHANGED <<now, callingExpiredTimers_, cancelingTimers_, expired, cancelled>>
  PROVE  /\ timers_' \subseteq Nat \X Addrs /\ timerfd' \in Nat
         /\ \A e \in timers_' : e \in timers_ \/ e[2] = a
         /\ activeTimers_' = activeTimers_ \cup {<<a, heap'[a].sequence>>}
         /\ repeating' \subseteq repeating \cup {<<a, heap'[a].sequence>>}
         /\ repeating \subseteq repeating'
         /\ SetsAgree' /\ RepeatInv' /\ TimerfdArmed'
<1>1. PICK t : t = heap'[a]
  OBVIOUS
<1>. DEFINE new == <<a, t.sequence>>
<1>2. /\ t.sequence \in Nat /\ t.expiration \in Nat /\ t.interval \in Nat /\ now \in Nat
      /\ timerfd \in Nat
  BY <1>1 DEF Timer, QueueInv, QueueTypeOK
<1>3. /\ timers_' = timers_ \cup {<<t.expiration, a>>}
      /\ activeTimers_' = activeTimers_ \cup {new}
      /\ repeating' = IF t.interval > 0 THEN repeating \cup {new} ELSE repeating
  BY <1>1 DEF addTimerInLoop
<1>4. \A b \in Addrs : b # a => heap'[b] = heap[b] /\ Id(b)' = Id(b)
  BY DEF Id
<1>5. Id(a)' = new
  BY <1>1 DEF Id
<1>6. timers_' \subseteq Nat \X Addrs
  BY <1>2, <1>3, SMTT(15) DEF QueueInv, QueueTypeOK
<1>7. timerfd' \in Nat /\ TimerfdArmed'
  <2>1. Max({t.expiration, now}) \in Nat
    BY <1>2, MaxFacts
  <2>2. CASE \A e \in timers_ : t.expiration < e[1]
    <3>1. timerfd' = Max({t.expiration, now})
      BY <1>1, <2>2 DEF addTimerInLoop, resetTimerfd
    <3>2. ASSUME NEW e \in timers_' PROVE timerfd' <= Max({e[1], now})
      <4>1. e[1] \in Nat /\ t.expiration <= e[1]
        BY <1>2, <1>3, <2>2, EntryFacts, SMTT(15)
      <4>2. Max({e[1], now}) \in Nat /\ e[1] <= Max({e[1], now}) /\ now <= Max({e[1], now})
        BY <4>1, <1>2, MaxFacts
      <4>3. Max({t.expiration, now}) \in {t.expiration, now}
        BY <1>2, MaxFacts
      <4>. QED BY <1>2, <3>1, <4>1, <4>2, <4>3, SMTT(30)
    <3>. QED BY <2>1, <3>1, <3>2 DEF TimerfdArmed
  <2>3. CASE \E e \in timers_ : ~(t.expiration < e[1])
    <3>1. PICK f \in timers_ : ~(t.expiration < f[1])
      BY <2>3
    <3>2. timerfd' = timerfd
      BY <1>1, <2>3 DEF addTimerInLoop
    <3>3. f[1] \in Nat /\ f[1] <= t.expiration
      BY <1>2, <3>1, EntryFacts, SMTT(15)
    <3>4. ASSUME ~callingExpiredTimers_, NEW e \in timers_' PROVE timerfd <= Max({e[1], now})
      <4>1. CASE e \in timers_
        BY <3>4, <4>1 DEF QueueInv, TimerfdArmed
      <4>2. CASE e = <<t.expiration, a>>
        <5>1. timerfd <= Max({f[1], now})
          BY <3>4 DEF QueueInv, TimerfdArmed
        <5>2. Max({f[1], now}) \in {f[1], now}
          BY <1>2, <3>3, MaxFacts
        <5>3. e[1] = t.expiration /\ Max({e[1], now}) \in Nat
              /\ e[1] <= Max({e[1], now}) /\ now <= Max({e[1], now})
          BY <1>2, <4>2, MaxFacts
        <5>. QED BY <1>2, <3>3, <5>1, <5>2, <5>3, SMTT(15)
      <4>. QED BY <1>3, <4>1, <4>2
    <3>. QED BY <1>2, <3>2, <3>4 DEF TimerfdArmed
  <2>. QED BY <2>2, <2>3
<1>8. SetsAgree'
  <2>1. \A e \in timers_' : heap'[e[2]].expiration = e[1] /\ heap'[e[2]] # NoTimer
    <3>. SUFFICES ASSUME NEW e \in timers_'
                  PROVE  heap'[e[2]].expiration = e[1] /\ heap'[e[2]] # NoTimer
      OBVIOUS
    <3>1. CASE e \in timers_
      BY <1>4, <3>1, EntryFacts
    <3>2. CASE e = <<t.expiration, a>>
      BY <1>1, <3>2
    <3>. QED BY <1>3, <3>1, <3>2
  <2>2. \A e \in timers_ : Id(e[2])' = Id(e[2])
    BY <1>4, EntryFacts
  <2>3. activeTimers_ = {Id(e[2]) : e \in timers_}
    BY DEF QueueInv, PlaceInv, SetsAgree
  <2>4. ASSUME NEW x \in activeTimers_' PROVE \E e \in timers_' : x = Id(e[2])'
    <3>1. CASE x \in activeTimers_
      <4>1. PICK e \in timers_ : x = Id(e[2])
        BY <2>3, <3>1
      <4>. QED BY <1>3, <2>2, <4>1
    <3>2. CASE x = new
      <4>1. <<t.expiration, a>>[2] = a /\ <<t.expiration, a>> \in timers_'
        BY <1>3
      <4>. QED BY <1>5, <3>2, <4>1
    <3>. QED BY <1>3, <2>4, <3>1, <3>2
  <2>5. ASSUME NEW e \in timers_' PROVE Id(e[2])' \in activeTimers_'
    <3>1. CASE e \in timers_
      BY <1>3, <2>2, <2>3, <3>1
    <3>2. CASE e = <<t.expiration, a>>
      BY <1>3, <1>5, <3>2
    <3>. QED BY <1>3, <3>1, <3>2
  <2>6. activeTimers_' = {Id(e[2])' : e \in timers_'}
    BY <2>4, <2>5
  <2>. QED BY <2>1, <2>6 DEF SetsAgree
<1>9. RepeatInv'
  <2>1. \A b \in Addrs : b # a => new # Id(b)
    BY DEF Id
  <2>2. \A id \in repeating : id # new
    BY <1>1
  <2>3. cancelled \subseteq repeating /\ Range(expired) \subseteq Addrs
    BY DEF QueueInv, IdInv, QueueTypeOK
  <2>4. RepeatExact'
    <3>. SUFFICES ASSUME NEW id \in repeating'
                  PROVE  IF id \in cancelled THEN id \notin activeTimers_'
                         ELSE id \in activeTimers_' \/ (Id(id[1])' = id /\ id[1] \in Range(expired))
      BY DEF RepeatExact
    <3>1. CASE id = new
      BY <1>3, <2>2, <2>3, <3>1
    <3>2. CASE id \in repeating
      <4>1. IF id \in cancelled THEN id \notin activeTimers_
            ELSE id \in activeTimers_ \/ (Id(id[1]) = id /\ id[1] \in Range(expired))
        BY <3>2 DEF QueueInv, RepeatInv, RepeatExact
      <4>2. id # new
        BY <2>2, <3>2
      <4>3. id[1] \in Range(expired) => Id(id[1])' = Id(id[1])
        BY <1>4, <2>3
      <4>. QED BY <1>3, <4>1, <4>2, <4>3
    <3>. QED BY <1>3, <3>1, <3>2
  <2>5. ASSUME NEW b \in Addrs, heap'[b] # NoTimer, Id(b)' \in repeating'
        PROVE  heap'[b].interval > 0
    <3>1. CASE b = a
      BY <1>1, <1>3, <1>5, <2>2, <2>5, <3>1
    <3>2. CASE b # a
      <4>1. Id(b) \in repeating /\ heap'[b] = heap[b]
        BY <1>3, <1>4, <2>1, <2>5, <3>2
      <4>. QED BY <2>5, <4>1 DEF QueueInv, RepeatInv
    <3>. QED BY <3>1, <3>2
  <2>6. ASSUME NEW b \in Range(expired), Id(b)' \in repeating'
        PROVE  Id(b)' \in cancelled <=> Id(b)' \in cancelingTimers_
    <3>1. Id(b)' = Id(b) /\ Id(b) # new
      BY <1>4, <2>1, <2>3
    <3>2. Id(b) \in repeating
      BY <1>3, <2>6, <3>1
    <3>. QED BY <3>1, <3>2 DEF QueueInv, RepeatInv
  <2>. QED BY <2>4, <2>5, <2>6 DEF RepeatInv
<1>. QED BY <1>1, <1>3, <1>6, <1>7, <1>8, <1>9, SMTT(15)

\* What cancelInLoop leaves (timerQueue.cc:114).
LEMMA CancelFacts ==
  ASSUME QueueInv, NEW id \in Addrs \X Nat, cancelInLoop(id),
         UNCHANGED <<now, callingExpiredTimers_, expired, timerfd, issued, repeating>>
  PROVE  /\ heap' \in [Addrs -> Timer] /\ timers_' \subseteq timers_
         /\ activeTimers_' \subseteq activeTimers_ /\ cancelled' \subseteq repeating
         /\ \A b \in Addrs : heap'[b] = heap[b] \/ (heap'[b] = NoTimer /\ \E e \in timers_ : e[2] = b)
         /\ SetsAgree' /\ RepeatInv' /\ TimerfdArmed'
<1>1. CASE id \in activeTimers_
  <2>. DEFINE x == id[1]
              old == <<heap[x].expiration, x>>
  <2>1. x \in Addrs /\ Id(x) = id /\ heap[x] # NoTimer /\ old \in timers_ /\ old[2] = x
    BY <1>1, ActiveFacts
  <2>2. /\ timers_' = timers_ \ {old} /\ heap' = [heap EXCEPT ![x] = NoTimer]
        /\ activeTimers_' = activeTimers_ \ {id} /\ cancelingTimers_' = cancelingTimers_
        /\ cancelled' = cancelled \cup ({id} \cap repeating)
    BY <1>1 DEF cancelInLoop
  <2>. HIDE DEF old
  <2>3. NoTimer \in Timer /\ heap \in [Addrs -> Timer]
    BY DEF NoTimer, Timer, QueueInv, QueueTypeOK
  <2>4. heap' \in [Addrs -> Timer] /\ heap'[x] = NoTimer /\ \A b \in Addrs : b # x => heap'[b] = heap[b]
    BY <2>1, <2>2, <2>3
  <2>5. \A b \in Addrs : b # x => Id(b)' = Id(b) /\ Id(b) # id
    BY <2>1, <2>4, SMTT(15) DEF Id
  <2>6. \A e \in timers_' : e \in timers_ /\ e[2] # x /\ e[2] \in Addrs
    <3>1. \A e \in timers_ : e = <<heap[e[2]].expiration, e[2]>> /\ e[2] \in Addrs
      BY EntryFacts
    <3>. QED BY <2>2, <3>1 DEF old
  <2>7. SetsAgree'
    <3>1. activeTimers_ = {Id(e[2]) : e \in timers_}
      BY DEF QueueInv, PlaceInv, SetsAgree
    <3>2. ASSUME NEW y \in activeTimers_' PROVE \E e \in timers_' : y = Id(e[2])'
      <4>1. PICK e \in timers_ : y = Id(e[2])
        BY <2>2, <3>1, <3>2
      <4>2. e # old
        BY <2>1, <2>2, <3>2, <4>1
      <4>3. e \in timers_'
        BY <2>2, <4>1, <4>2
      <4>. QED BY <2>5, <2>6, <4>1, <4>3
    <3>3. ASSUME NEW e \in timers_' PROVE Id(e[2])' \in activeTimers_'
      <4>1. e \in timers_ /\ Id(e[2])' = Id(e[2]) /\ Id(e[2]) # id
        BY <2>5, <2>6
      <4>. QED BY <2>2, <3>1, <4>1
    <3>4. activeTimers_' = {Id(e[2])' : e \in timers_'}
      BY <3>2, <3>3
    <3>5. \A e \in timers_' : heap'[e[2]].expiration = e[1] /\ heap'[e[2]] # NoTimer
      BY <2>4, <2>6, EntryFacts
    <3>. QED BY <3>4, <3>5 DEF SetsAgree
  <2>8. Range(expired) \subseteq Addrs /\ x \notin Range(expired)
    BY <2>1 DEF QueueInv, QueueTypeOK, PlaceInv
  <2>9. RepeatInv'
    <3>1. RepeatExact'
      <4>. SUFFICES ASSUME NEW r \in repeating
                    PROVE  IF r \in cancelled' THEN r \notin activeTimers_'
                           ELSE r \in activeTimers_' \/ (Id(r[1])' = r /\ r[1] \in Range(expired))
        BY DEF RepeatExact
      <4>1. IF r \in cancelled THEN r \notin activeTimers_
            ELSE r \in activeTimers_ \/ (Id(r[1]) = r /\ r[1] \in Range(expired))
        BY DEF QueueInv, RepeatInv, RepeatExact
      <4>2. r[1] \in Range(expired) => Id(r[1])' = Id(r[1])
        BY <2>5, <2>8
      <4>. QED BY <2>2, <4>1, <4>2
    <3>2. ASSUME NEW b \in Addrs, heap'[b] # NoTimer, Id(b)' \in repeating
          PROVE  heap'[b].interval > 0
      BY <2>4, <2>5, <3>2 DEF QueueInv, RepeatInv
    <3>3. ASSUME NEW b \in Range(expired), Id(b)' \in repeating
          PROVE  Id(b)' \in cancelled' <=> Id(b)' \in cancelingTimers_'
      <4>1. Id(b)' = Id(b) /\ Id(b) # id
        BY <2>5, <2>8
      <4>. QED BY <2>2, <3>3, <4>1 DEF QueueInv, RepeatInv
    <3>. QED BY <3>1, <3>2, <3>3 DEF RepeatInv
  <2>10. TimerfdArmed'
    BY <2>6 DEF QueueInv, TimerfdArmed
  <2>. QED BY <2>1, <2>2, <2>4, <2>6, <2>7, <2>9, <2>10 DEF QueueInv, IdInv
<1>2. CASE id \notin activeTimers_
  <2>1. /\ UNCHANGED <<timers_, heap, activeTimers_>>
        /\ cancelled' = cancelled \cup ({id} \cap repeating)
        /\ cancelingTimers_' = IF callingExpiredTimers_ THEN cancelingTimers_ \cup {id}
                                                        ELSE cancelingTimers_
    BY <1>2 DEF cancelInLoop
  <2>2. \A b : Id(b)' = Id(b)
    BY <2>1 DEF Id
  <2>3. SetsAgree' /\ TimerfdArmed'
    BY <2>1, <2>2, SMTT(15) DEF QueueInv, PlaceInv, SetsAgree, TimerfdArmed
  <2>4. RepeatInv'
    <3>1. RepeatExact'
      BY <1>2, <2>1, <2>2 DEF QueueInv, RepeatInv, RepeatExact
    <3>2. \A b \in Addrs : heap'[b] # NoTimer /\ Id(b)' \in repeating => heap'[b].interval > 0
      BY <2>1, <2>2 DEF QueueInv, RepeatInv
    <3>3. ASSUME NEW b \in Range(expired), Id(b)' \in repeating
          PROVE  Id(b)' \in cancelled' <=> Id(b)' \in cancelingTimers_'
      <4>1. callingExpiredTimers_ /\ Id(b) \in repeating
        BY <2>2, <3>3 DEF QueueInv, PlaceInv
      <4>2. Id(b) \in cancelled <=> Id(b) \in cancelingTimers_
        BY <4>1 DEF QueueInv, RepeatInv
      <4>. QED BY <2>1, <2>2, <4>1, <4>2
    <3>. QED BY <3>1, <3>2, <3>3 DEF RepeatInv
  <2>. QED BY <2>1, <2>3, <2>4 DEF QueueInv, QueueTypeOK, IdInv
<1>. QED BY <1>1, <1>2
-----------------------------------------------------------------------------
(***************************************************************************)
(* The steps                                                               *)
(***************************************************************************)
\* addTimer in the loop (timerQueue.cc:95).
LEMMA AddStep ==
  ASSUME Times, QueueInv, NEW a \in Addrs, NEW delay \in Delays, NEW interval \in Intervals,
         addTimer(a, delay, interval)
  PROVE  QueueInv'
<1>1. /\ NewTimer(a, delay, interval) /\ addTimerInLoop(a, heap'[a])
      /\ UNCHANGED <<now, cancelingTimers_, callingExpiredTimers_, expired, next, read_at, requests,
                     unread, cancelled>>
      /\ handles' = handles \cup {<<Id(a)', Id(a)'>>}
  BY DEF addTimer, batchVars
<1>2. /\ heap[a] = NoTimer /\ heap' \in [Addrs -> Timer] /\ heap'[a] # NoTimer
      /\ \A b \in Addrs \ {a} : heap'[b] = heap[b]
      /\ issued' \subseteq Addrs \X Nat /\ IsFiniteSet(issued')
      /\ \A id \in issued' : id[2] \in 1..Cardinality(issued')
      /\ issued' = issued \cup {<<a, heap'[a].sequence>>}
      /\ <<a, heap'[a].sequence>> \notin issued
  BY <1>1, NewFacts
<1>3. /\ \A e \in timers_ : e[2] # a
      /\ a \notin Range(expired) /\ \A i \in 1..Len(requests) : ~Pending(i, a)
  BY <1>2 DEF QueueInv, PlaceInv, SetsAgree
<1>4. repeating \subseteq issued
  BY DEF QueueInv, IdInv
<1>5. /\ timers_' \subseteq Nat \X Addrs /\ timerfd' \in Nat
      /\ \A e \in timers_' : e \in timers_ \/ e[2] = a
      /\ activeTimers_' = activeTimers_ \cup {<<a, heap'[a].sequence>>}
      /\ repeating' \subseteq repeating \cup {<<a, heap'[a].sequence>>}
      /\ repeating \subseteq repeating'
      /\ SetsAgree' /\ RepeatInv' /\ TimerfdArmed'
  BY <1>1, <1>2, <1>3, <1>4, InsertFacts
<1>6. \A b \in Addrs : b # a => Id(b)' = Id(b) /\ Id(b) # <<a, heap'[a].sequence>>
  BY <1>2 DEF Id
<1>7. Id(a)' = <<a, heap'[a].sequence>>
  BY DEF Id
<1>8. QueueTypeOK'
  BY <1>1, <1>2, <1>5 DEF QueueInv, QueueTypeOK
<1>9. IdInv'
  <2>1. ASSUME NEW b \in Addrs, heap'[b] # NoTimer PROVE Id(b)' \in issued'
    BY <1>2, <1>6, <1>7, <2>1 DEF QueueInv, IdInv
  <2>. QED BY <1>1, <1>2, <1>5, <2>1 DEF QueueInv, IdInv
<1>10. PlaceInv'
  <2>1. ~callingExpiredTimers_ => Range(expired) = {}
    BY DEF QueueInv, PlaceInv
  <2>2. ASSUME NEW b \in Range(expired) PROVE heap'[b] # NoTimer /\ \A e \in timers_' : e[2] # b
    <3>1. b \in Addrs /\ b # a
      BY <1>3 DEF QueueInv, QueueTypeOK
    <3>. QED BY <1>2, <1>5, <3>1 DEF QueueInv, PlaceInv
  <2>3. ASSUME NEW b \in Addrs, NEW i \in 1..Len(requests), Pending(i, b)
        PROVE  /\ heap'[b] # NoTimer /\ b \notin Range(expired)
               /\ \A e \in timers_' : e[2] # b
               /\ Id(b)' \notin repeating'
               /\ \A j \in 1..Len(requests) : Pending(j, b) => i = j
    <3>1. b # a
      BY <1>3, <2>3
    <3>. QED BY <1>2, <1>5, <1>6, <2>3, <3>1, SMTT(15) DEF QueueInv, PlaceInv
  <2>. QED BY <1>1, <1>5, <2>1, <2>2, <2>3, ZenonT(30) DEF PlaceInv, Pending
<1>11. HandleInv'
  <2>1. \A h \in handles : h[1] = h[2] \/ Id(h[1][1])' # h[1]
    BY <1>2, <1>6, <1>7, HandlesStayNew
  <2>2. \A h \in handles' : h \in handles \/ (h[1] = Id(a)' /\ h[2] = Id(a)')
    BY <1>1
  <2>3. Id(a)' \in issued' /\ issued \subseteq issued' /\ issued' \subseteq Addrs \X Nat
    BY <1>2, <1>7
  <2>4. IdsAreOwn'
    BY <2>1, <2>2 DEF IdsAreOwn
  <2>. QED BY <1>1, <2>2, <2>3, <2>4 DEF QueueInv, HandleInv
<1>. QED BY <1>5, <1>8, <1>9, <1>10, <1>11 DEF QueueInv

\* addTimer from another thread (timerQueue.cc:97).
LEMMA AddElsewhereStep ==
  ASSUME Times, QueueInv, NEW a \in Addrs, NEW delay \in Delays, NEW interval \in Intervals,
         addTimerElsewhere(a, delay, interval)
  PROVE  QueueInv'
<1>1. /\ NewTimer(a, delay, interval)
      /\ requests' = Append(requests, <<"add", a, Cardinality(issued')>>)
      /\ UNCHANGED <<now, timers_, activeTimers_, cancelingTimers_, callingExpiredTimers_, expired,
                     next, read_at, timerfd, handles, repeating, cancelled>>
      /\ unread' = unread \cup {Id(a)'}
  BY DEF addTimerElsewhere, batchVars
<1>2. /\ heap[a] = NoTimer /\ heap' \in [Addrs -> Timer] /\ heap'[a] # NoTimer
      /\ \A b \in Addrs \ {a} : heap'[b] = heap[b]
      /\ heap'[a].sequence = Cardinality(issued')
      /\ issued' \subseteq Addrs \X Nat /\ IsFiniteSet(issued')
      /\ \A id \in issued' : id[2] \in 1..Cardinality(issued')
      /\ issued' = issued \cup {<<a, heap'[a].sequence>>}
      /\ <<a, heap'[a].sequence>> \notin issued
  BY <1>1, NewFacts
<1>3. /\ \A e \in timers_ : e[2] # a
      /\ a \notin Range(expired) /\ \A i \in 1..Len(requests) : ~Pending(i, a)
  BY <1>2 DEF QueueInv, PlaceInv, SetsAgree
<1>4. \A b \in Addrs : b # a => Id(b)' = Id(b)
  BY <1>2 DEF Id
<1>5. Id(a)' = <<a, heap'[a].sequence>>
  BY DEF Id
<1>6. /\ requests' \in Seq(Functor) /\ Len(requests') = Len(requests) + 1 /\ Len(requests) \in Nat
      /\ \A i \in 1..Len(requests) : requests'[i] = requests[i]
      /\ requests'[Len(requests) + 1] = <<"add", a, heap'[a].sequence>>
  <2>1. <<"add", a, Cardinality(issued')>> \in Functor
    BY <1>2 DEF Functor, Timer
  <2>2. requests \in Seq(Functor)
    BY DEF QueueInv, QueueTypeOK
  <2>. QED BY <1>1, <1>2, <2>1, <2>2, AppendFacts, SMTT(15)
<1>7. \A i \in 1..Len(requests') : \A b :
         Pending(i, b)' <=> \/ i \in 1..Len(requests) /\ Pending(i, b)
                            \/ i = Len(requests) + 1 /\ b = a
  BY <1>6, SMTT(15) DEF Pending
<1>8. QueueTypeOK'
  BY <1>1, <1>2, <1>6 DEF QueueInv, QueueTypeOK
<1>9. IdInv'
  <2>1. ASSUME NEW b \in Addrs, heap'[b] # NoTimer PROVE Id(b)' \in issued'
    BY <1>2, <1>4, <1>5, <2>1 DEF QueueInv, IdInv
  <2>. QED BY <1>1, <1>2, <2>1 DEF QueueInv, IdInv
<1>10. \A e \in timers_ : e[2] \in Addrs /\ heap'[e[2]] = heap[e[2]] /\ Id(e[2])' = Id(e[2])
  BY <1>2, <1>3, <1>4, EntryFacts
<1>11. SetsAgree'
  <2>1. {Id(e[2])' : e \in timers_} = {Id(e[2]) : e \in timers_}
    BY <1>10
  <2>. QED BY <1>1, <1>10, <2>1 DEF SetsAgree, QueueInv, PlaceInv
<1>12. PlaceInv'
  <2>1. ~callingExpiredTimers_ => Range(expired) = {}
    BY DEF QueueInv, PlaceInv
  <2>2. ASSUME NEW b \in Range(expired) PROVE heap'[b] # NoTimer /\ \A e \in timers_ : e[2] # b
    <3>1. b \in Addrs /\ b # a
      BY <1>3 DEF QueueInv, QueueTypeOK
    <3>. QED BY <1>2, <3>1 DEF QueueInv, PlaceInv
  <2>3. ASSUME NEW b \in Addrs, NEW i \in 1..Len(requests'), Pending(i, b)'
        PROVE  /\ heap'[b] # NoTimer /\ b \notin Range(expired)
               /\ \A e \in timers_ : e[2] # b
               /\ Id(b)' \notin repeating
               /\ \A j \in 1..Len(requests') : Pending(j, b)' => i = j
    <3>1. CASE b = a
      <4>1. \A j \in 1..Len(requests') : Pending(j, b)' => j = Len(requests) + 1
        BY <1>3, <1>7, <3>1
      <4>. QED BY <1>2, <1>3, <1>5, <2>3, <3>1, <4>1 DEF QueueInv, IdInv
    <3>2. CASE b # a
      <4>1. \A j \in 1..Len(requests') : Pending(j, b)' => j \in 1..Len(requests) /\ Pending(j, b)
        BY <1>7, <3>2
      <4>. QED BY <1>2, <1>4, <2>3, <3>2, <4>1, SMTT(30) DEF QueueInv, PlaceInv
    <3>. QED BY <3>1, <3>2
  <2>. QED BY <1>1, <1>11, <2>1, <2>2, <2>3 DEF PlaceInv
<1>13. RepeatInv'
  <2>1. Range(expired) \subseteq Addrs /\ repeating \subseteq issued
    BY DEF QueueInv, QueueTypeOK, IdInv
  <2>2. \A b \in Range(expired) : Id(b)' = Id(b)
    BY <1>3, <1>4, <2>1
  <2>3. RepeatExact'
    BY <1>1, <2>2 DEF QueueInv, RepeatInv, RepeatExact
  <2>4. ASSUME NEW b \in Addrs, heap'[b] # NoTimer, Id(b)' \in repeating PROVE heap'[b].interval > 0
    BY <1>2, <1>4, <1>5, <2>1, <2>4 DEF QueueInv, RepeatInv
  <2>. QED BY <1>1, <2>2, <2>3, <2>4 DEF QueueInv, RepeatInv
<1>14. TimerfdArmed'
  BY <1>1 DEF QueueInv, TimerfdArmed
<1>15. HandleInv'
  <2>1. \A h \in handles : h[1] = h[2] \/ Id(h[1][1])' # h[1]
    BY <1>2, <1>4, <1>5, HandlesStayNew
  <2>2. IdsAreOwn'
    BY <1>1, <2>1 DEF IdsAreOwn
  <2>. QED BY <1>1, <1>2, <1>5, <2>2 DEF QueueInv, HandleInv
<1>. QED BY <1>8, <1>9, <1>12, <1>13, <1>14, <1>15 DEF QueueInv

\* addTimer returns on another thread, with the number that is at the address (timerQueue.cc:98).
LEMMA ReturnStep ==
  ASSUME QueueInv, NEW t \in unread, addTimerReturns(t)
  PROVE  QueueInv'
<1>1. PICK n \in IF heap[t[1]] = NoTimer THEN 0..MaxCreated ELSE {heap[t[1]].sequence} :
        handles' = handles \cup {<<t, <<t[1], n>>>>}
  BY DEF addTimerReturns
<1>2. /\ unread' \subseteq unread
      /\ UNCHANGED <<now, heap, timers_, activeTimers_, cancelingTimers_, callingExpiredTimers_,
                     expired, next, read_at, timerfd, issued, requests, repeating, cancelled>>
  BY DEF addTimerReturns, batchVars
<1>3. (\A b : Id(b)' = Id(b)) /\ (\A b, i : Pending(i, b)' = Pending(i, b))
  BY <1>2 DEF Id, Pending
<1>4. t \in issued /\ t \in Addrs \X Nat /\ t[2] \in 1..Cardinality(issued)
  BY DEF QueueInv, QueueTypeOK, HandleInv, IdInv
<1>5. n \in Nat
  <2>1. heap[t[1]].sequence \in Nat
    BY <1>4 DEF QueueInv, QueueTypeOK, Timer
  <2>. QED BY <1>1, <2>1, SMTT(15)
<1>6. t = <<t[1], n>> \/ Id(t[1]) # t
  <2>1. CASE heap[t[1]] = NoTimer
    <3>1. Id(t[1])[2] = 0
      BY <2>1 DEF Id, NoTimer
    <3>2. t[2] # 0
      BY <1>4, SMTT(15)
    <3>. QED BY <3>1, <3>2
  <2>2. CASE heap[t[1]] # NoTimer
    <3>1. <<t[1], n>> = Id(t[1])
      BY <1>1, <2>2 DEF Id
    <3>. QED BY <3>1
  <2>. QED BY <2>1, <2>2
<1>7. \A h \in handles' : h \in handles \/ (h[1] = t /\ h[2] = <<t[1], n>>)
  BY <1>1
<1>8. HandleInv'
  <2>1. IdsAreOwn'
    BY <1>3, <1>6, <1>7 DEF QueueInv, HandleInv, IdsAreOwn
  <2>2. <<t[1], n>> \in Addrs \X Nat
    BY <1>4, <1>5
  <2>. QED BY <1>2, <1>4, <1>7, <2>1, <2>2 DEF QueueInv, HandleInv
<1>9. QueueTypeOK' /\ IdInv'
  BY <1>2, <1>3 DEF QueueInv, QueueTypeOK, IdInv
<1>10. SetsAgree'
  BY <1>2, <1>3, SMTT(15) DEF QueueInv, PlaceInv, SetsAgree
<1>11. PlaceInv'
  BY <1>2, <1>3, <1>10 DEF QueueInv, PlaceInv
<1>12. RepeatInv' /\ TimerfdArmed'
  BY <1>2, <1>3 DEF QueueInv, RepeatInv, RepeatExact, TimerfdArmed
<1>. QED BY <1>8, <1>9, <1>11, <1>12 DEF QueueInv

\* cancel in the loop, also in a callback (timerQueue.cc:101).
LEMMA CancelStep ==
  ASSUME QueueInv, NEW id \in Addrs \X Nat, cancel(id)
  PROVE  QueueInv'
<1>1. /\ cancelInLoop(id)
      /\ UNCHANGED <<now, callingExpiredTimers_, expired, next, read_at, timerfd, issued, requests,
                     unread, handles, repeating>>
  BY DEF cancel, callVars
<1>2. /\ heap' \in [Addrs -> Timer] /\ timers_' \subseteq timers_
      /\ activeTimers_' \subseteq activeTimers_ /\ cancelled' \subseteq repeating
      /\ \A b \in Addrs : heap'[b] = heap[b] \/ (heap'[b] = NoTimer /\ \E e \in timers_ : e[2] = b)
      /\ SetsAgree' /\ RepeatInv' /\ TimerfdArmed'
  BY <1>1, CancelFacts
<1>3. QueueTypeOK'
  BY <1>1, <1>2 DEF QueueInv, QueueTypeOK
<1>4. \A b \in Addrs : heap'[b] = heap[b] => Id(b)' = Id(b)
  BY DEF Id
<1>5. IdInv'
  <2>1. ASSUME NEW b \in Addrs, heap'[b] # NoTimer PROVE Id(b)' \in issued
    BY <1>2, <1>4, <2>1 DEF QueueInv, IdInv
  <2>. QED BY <1>1, <1>2, <2>1 DEF QueueInv, IdInv
<1>6. PlaceInv'
  <2>1. \A b \in Range(expired) : b \in Addrs
    BY DEF QueueInv, QueueTypeOK
  <2>2. ASSUME NEW b \in Addrs, NEW i \in 1..Len(requests), Pending(i, b)
        PROVE  /\ heap'[b] # NoTimer /\ b \notin Range(expired)
               /\ \A e \in timers_' : e[2] # b
               /\ Id(b)' \notin repeating
               /\ \A j \in 1..Len(requests) : Pending(j, b) => i = j
    BY <1>2, <1>4, <2>2, ZenonT(30) DEF QueueInv, PlaceInv
  <2>3. \A b \in Range(expired) : heap'[b] # NoTimer /\ \A e \in timers_' : e[2] # b
    BY <1>2, <2>1 DEF QueueInv, PlaceInv
  <2>4. ~callingExpiredTimers_ => Range(expired) = {}
    BY DEF QueueInv, PlaceInv
  <2>. QED BY <1>1, <1>2, <2>2, <2>3, <2>4, SMTT(15) DEF PlaceInv, Pending
<1>7. HandleInv'
  BY <1>1, <1>2, <1>4, HandlesStay
<1>. QED BY <1>2, <1>3, <1>5, <1>6, <1>7 DEF QueueInv

\* cancel from another thread (timerQueue.cc:101).
LEMMA CancelElsewhereStep ==
  ASSUME QueueInv, NEW id \in Addrs \X Nat, cancelElsewhere(id)
  PROVE  QueueInv'
<1>1. /\ requests' = Append(requests, <<"cancel", id[1], id[2]>>)
      /\ UNCHANGED <<now, heap, timers_, activeTimers_, cancelingTimers_, callingExpiredTimers_,
                     expired, next, read_at, timerfd, issued, unread, handles, repeating, cancelled>>
  BY DEF cancelElsewhere, batchVars, callVars
<1>2. /\ requests' \in Seq(Functor) /\ Len(requests') = Len(requests) + 1 /\ Len(requests) \in Nat
      /\ \A i \in 1..Len(requests) : requests'[i] = requests[i]
      /\ requests'[Len(requests) + 1] = <<"cancel", id[1], id[2]>>
  <2>1. <<"cancel", id[1], id[2]>> \in Functor /\ requests \in Seq(Functor)
    BY DEF QueueInv, QueueTypeOK, Functor
  <2>. QED BY <1>1, <2>1, AppendFacts, SMTT(15)
<1>3. \A i \in 1..Len(requests') : \A b : Pending(i, b)' => i \in 1..Len(requests) /\ Pending(i, b)
  BY <1>2, SMTT(15) DEF Pending
<1>4. \A b : Id(b)' = Id(b)
  BY <1>1 DEF Id
<1>5. QueueTypeOK' /\ IdInv'
  BY <1>1, <1>2, <1>4 DEF QueueInv, QueueTypeOK, IdInv
<1>6. SetsAgree'
  BY <1>1, <1>4, SMTT(15) DEF QueueInv, PlaceInv, SetsAgree
<1>7. PlaceInv'
  BY <1>1, <1>3, <1>4, <1>6 DEF QueueInv, PlaceInv
<1>8. RepeatInv' /\ TimerfdArmed'
  BY <1>1, <1>4 DEF QueueInv, RepeatInv, RepeatExact, TimerfdArmed
<1>9. HandleInv'
  BY <1>1, <1>4, HandlesStay
<1>. QED BY <1>5, <1>7, <1>8, <1>9 DEF QueueInv

\* The loop runs what another thread queued (timerQueue.cc:105, 114).
LEMMA FunctorStep == QueueInv /\ RunRequest => QueueInv'
<1>. SUFFICES ASSUME QueueInv, RunRequest PROVE QueueInv'
  OBVIOUS
<1>1. PICK f : f = Head(requests)
  OBVIOUS
<1>2. /\ ~callingExpiredTimers_ /\ requests # <<>> /\ requests' = Tail(requests)
      /\ \/ /\ f[1] = "add" /\ addTimerInLoop(f[2], heap[f[2]])
            /\ UNCHANGED <<heap, cancelingTimers_, cancelled>>
         \/ /\ f[1] = "cancel" /\ cancelInLoop(<<f[2], f[3]>>)
            /\ UNCHANGED <<timerfd, repeating>>
      /\ UNCHANGED <<now, callingExpiredTimers_, expired, next, read_at, issued, unread, handles>>
  BY <1>1 DEF RunRequest, callVars
<1>3. /\ requests' \in Seq(Functor) /\ Len(requests') = Len(requests) - 1 /\ Len(requests) \in Nat \ {0}
      /\ \A i \in 1..Len(requests') : requests'[i] = requests[i + 1] /\ i + 1 \in 1..Len(requests)
                                      /\ i + 1 # 1
      /\ f = requests[1] /\ f \in Functor
  <2>1. requests \in Seq(Functor)
    BY DEF QueueInv, QueueTypeOK
  <2>. QED BY <1>1, <1>2, <2>1, TailFacts
<1>4. f[2] \in Addrs /\ f[3] \in Nat /\ <<f[2], f[3]>> \in Addrs \X Nat
  BY <1>3 DEF Functor
<1>5. Range(expired) = {}
  BY <1>2 DEF QueueInv, PlaceInv
<1>6. \A i \in 1..Len(requests') : \A b : Pending(i, b)' => i + 1 \in 1..Len(requests) /\ Pending(i + 1, b)
  BY <1>3 DEF Pending
<1>7. CASE f[1] = "add" /\ addTimerInLoop(f[2], heap[f[2]])
           /\ UNCHANGED <<heap, cancelingTimers_, cancelled>>
  <2>1. PICK a \in Addrs : a = f[2]
    BY <1>4
  <2>2. Pending(1, a) /\ 1 \in 1..Len(requests)
    BY <1>3, <1>7, <2>1, SMTT(15) DEF Pending
  <2>3. /\ heap[a] # NoTimer /\ \A e \in timers_ : e[2] # a
        /\ <<a, heap[a].sequence>> \notin repeating
        /\ \A j \in 1..Len(requests) : Pending(j, a) => j = 1
    BY <2>2 DEF QueueInv, PlaceInv, Id
  <2>4. heap' = heap /\ heap \in [Addrs -> Timer] /\ addTimerInLoop(a, heap'[a])
    BY <1>7, <2>1 DEF QueueInv, QueueTypeOK
  <2>5. /\ timers_' \subseteq Nat \X Addrs /\ timerfd' \in Nat
        /\ \A e \in timers_' : e \in timers_ \/ e[2] = a
        /\ activeTimers_' = activeTimers_ \cup {<<a, heap'[a].sequence>>}
        /\ repeating' \subseteq repeating \cup {<<a, heap'[a].sequence>>}
        /\ repeating \subseteq repeating'
        /\ SetsAgree' /\ RepeatInv' /\ TimerfdArmed'
    BY <1>2, <1>5, <1>7, <2>3, <2>4, InsertFacts
  <2>6. \A b : Id(b)' = Id(b)
    BY <2>4 DEF Id
  <2>7. Id(a) = <<a, heap'[a].sequence>> /\ Id(a) \in issued
    BY <2>3, <2>4, TimerFacts DEF Id
  <2>8. QueueTypeOK'
    BY <1>2, <1>3, <2>4, <2>5 DEF QueueInv, QueueTypeOK
  <2>9. IdInv'
    BY <1>2, <1>7, <2>4, <2>5, <2>6, <2>7 DEF QueueInv, IdInv
  <2>10. PlaceInv'
    <3>1. ASSUME NEW b \in Addrs, NEW i \in 1..Len(requests'), Pending(i, b)'
          PROVE  /\ heap[b] # NoTimer
                 /\ \A e \in timers_' : e[2] # b
                 /\ Id(b)' \notin repeating'
                 /\ \A j \in 1..Len(requests') : Pending(j, b)' => i = j
      <4>1. i + 1 \in 1..Len(requests) /\ Pending(i + 1, b) /\ i + 1 # 1
        BY <1>3, <1>6, <3>1
      <4>2. b # a
        BY <2>3, <4>1
      <4>3. Id(b) # <<a, heap'[a].sequence>>
        BY <4>2 DEF Id
      <4>4. /\ heap[b] # NoTimer /\ \A e \in timers_ : e[2] # b
            /\ Id(b) \notin repeating
            /\ \A j \in 1..Len(requests) : Pending(j, b) => i + 1 = j
        BY <4>1 DEF QueueInv, PlaceInv
      <4>5. \A j \in 1..Len(requests') : Pending(j, b)' => i + 1 = j + 1
        BY <1>6, <4>4
      <4>6. \A j \in 1..Len(requests') : Pending(j, b)' => i = j
        BY <4>5
      <4>. QED BY <2>5, <2>6, <4>2, <4>3, <4>4, <4>6
    <3>. QED BY <1>2, <1>5, <2>4, <2>5, <3>1 DEF PlaceInv
  <2>11. HandleInv'
    BY <1>2, <2>6, HandlesStay
  <2>. QED BY <2>5, <2>8, <2>9, <2>10, <2>11 DEF QueueInv
<1>8. CASE f[1] = "cancel" /\ cancelInLoop(<<f[2], f[3]>>) /\ UNCHANGED <<timerfd, repeating>>
  <2>1. /\ heap' \in [Addrs -> Timer] /\ timers_' \subseteq timers_
        /\ activeTimers_' \subseteq activeTimers_ /\ cancelled' \subseteq repeating
        /\ \A b \in Addrs : heap'[b] = heap[b] \/ (heap'[b] = NoTimer /\ \E e \in timers_ : e[2] = b)
        /\ SetsAgree' /\ RepeatInv' /\ TimerfdArmed'
    BY <1>2, <1>4, <1>8, CancelFacts
  <2>2. QueueTypeOK'
    BY <1>2, <1>3, <1>8, <2>1 DEF QueueInv, QueueTypeOK
  <2>3. \A b \in Addrs : heap'[b] = heap[b] => Id(b)' = Id(b)
    BY DEF Id
  <2>4. IdInv'
    <3>1. ASSUME NEW b \in Addrs, heap'[b] # NoTimer PROVE Id(b)' \in issued
      BY <2>1, <2>3, <3>1 DEF QueueInv, IdInv
    <3>. QED BY <1>2, <1>8, <2>1, <3>1 DEF QueueInv, IdInv
  <2>5. PlaceInv'
    <3>1. ASSUME NEW b \in Addrs, NEW i \in 1..Len(requests'), Pending(i, b)'
          PROVE  /\ heap'[b] # NoTimer
                 /\ \A e \in timers_' : e[2] # b
                 /\ Id(b)' \notin repeating
                 /\ \A j \in 1..Len(requests') : Pending(j, b)' => i = j
      <4>1. i + 1 \in 1..Len(requests) /\ Pending(i + 1, b)
        BY <1>6, <3>1
      <4>2. /\ heap[b] # NoTimer /\ \A e \in timers_ : e[2] # b
            /\ Id(b) \notin repeating
            /\ \A j \in 1..Len(requests) : Pending(j, b) => i + 1 = j
        BY <4>1 DEF QueueInv, PlaceInv
      <4>3. \A j \in 1..Len(requests') : Pending(j, b)' => i + 1 = j + 1
        BY <1>6, <4>2
      <4>4. \A j \in 1..Len(requests') : Pending(j, b)' => i = j
        BY <4>3
      <4>. QED BY <2>1, <2>3, <4>2, <4>4
    <3>. QED BY <1>2, <1>5, <1>8, <2>1, <3>1 DEF PlaceInv
  <2>6. HandleInv'
    BY <1>2, <2>1, <2>3, HandlesStay
  <2>. QED BY <2>1, <2>2, <2>4, <2>5, <2>6 DEF QueueInv
<1>. QED BY <1>2, <1>7, <1>8
-----------------------------------------------------------------------------
\* The timers up to now are taken out of the queue (timerQueue.cc:131, 150).
LEMMA ReadStep == Times /\ QueueInv /\ handleRead => QueueInv'
<1>. SUFFICES ASSUME Times, QueueInv, handleRead PROVE QueueInv'
  OBVIOUS
<1>. DEFINE due == {e \in timers_ : e[1] <= now}
<1>1. /\ ~callingExpiredTimers_ /\ timerfd' = Never /\ read_at' = now /\ getExpired(due)
      /\ callingExpiredTimers_' = TRUE /\ cancelingTimers_' = {}
      /\ UNCHANGED <<now, heap, issued, requests, unread, handles, repeating, cancelled>>
  BY DEF handleRead, callVars
<1>2. timers_' = timers_ \ due /\ activeTimers_' = activeTimers_ \ {Id(e[2]) : e \in due}
  BY <1>1 DEF getExpired
<1>3. Range(expired') = {e[2] : e \in due}
  <2>1. PICK s \in [1..Cardinality(due) -> due] :
          due \subseteq Range(s) /\ expired' = [i \in DOMAIN s |-> s[i][2]]
    BY <1>1 DEF getExpired
  <2>2. DOMAIN expired' = DOMAIN s /\ \A i \in DOMAIN s : expired'[i] = s[i][2]
    BY <2>1
  <2>3. Range(s) = due
    BY <2>1 DEF Range
  <2>4. Range(s) = {s[i] : i \in DOMAIN s}
    BY DEF Range
  <2>5. Range(expired') = {s[i][2] : i \in DOMAIN s}
    BY <2>2 DEF Range
  <2>6. \A e \in due : \E i \in DOMAIN s : e = s[i]
    BY <2>3, <2>4
  <2>7. \A i \in DOMAIN s : s[i] \in due
    BY <2>3, <2>4
  <2>. HIDE DEF due
  <2>. QED BY <2>5, <2>6, <2>7
<1>4. \A b : Id(b)' = Id(b)
  BY <1>1 DEF Id
<1>5. /\ \A e \in due : e \in timers_
      /\ \A e, g \in timers_ : e[2] = g[2] => e = g
  BY EntryFacts
<1>. HIDE DEF due
<1>6. QueueTypeOK'
  <2>1. Range(expired') \subseteq Addrs
    BY <1>3, <1>5, EntryFacts
  <2>2. Never \in Nat
    BY DEF Never, Times
  <2>. QED BY <1>1, <1>2, <2>1, <2>2 DEF QueueInv, QueueTypeOK
<1>7. IdInv'
  BY <1>1, <1>2, <1>4 DEF QueueInv, IdInv
<1>8. activeTimers_ = {Id(e[2]) : e \in timers_}
  BY DEF QueueInv, PlaceInv, SetsAgree
<1>9. \A e, g \in timers_ : Id(e[2]) = Id(g[2]) => e = g
  BY <1>5 DEF Id
<1>10. SetsAgree'
  <2>1. ASSUME NEW x \in activeTimers_' PROVE \E e \in timers_' : x = Id(e[2])
    <3>1. PICK e \in timers_ : x = Id(e[2])
      BY <1>2, <1>8, <2>1
    <3>2. e \notin due
      BY <1>2, <2>1, <3>1
    <3>. QED BY <1>2, <3>1, <3>2
  <2>2. ASSUME NEW e \in timers_' PROVE Id(e[2]) \in activeTimers_'
    <3>1. \A g \in due : Id(g[2]) # Id(e[2])
      BY <1>2, <1>5, <1>9, <2>2
    <3>. QED BY <1>2, <1>8, <2>2, <3>1
  <2>3. activeTimers_' = {Id(e[2])' : e \in timers_'}
    BY <1>4, <2>1, <2>2
  <2>4. \A e \in timers_' : heap'[e[2]].expiration = e[1] /\ heap'[e[2]] # NoTimer
    BY <1>1, <1>2, EntryFacts
  <2>. QED BY <2>3, <2>4 DEF SetsAgree
<1>11. PlaceInv'
  <2>1. ASSUME NEW b \in Range(expired') PROVE heap[b] # NoTimer /\ \A e \in timers_' : e[2] # b
    <3>1. PICK g \in due : b = g[2]
      BY <1>3, <2>1
    <3>. QED BY <1>2, <1>5, <3>1, EntryFacts
  <2>2. ASSUME NEW b \in Addrs, NEW i \in 1..Len(requests), Pending(i, b)
        PROVE  b \notin Range(expired')
    <3>1. \A e \in timers_ : e[2] # b
      BY <2>2 DEF QueueInv, PlaceInv
    <3>. QED BY <1>3, <1>5, <3>1
  <2>3. \A b, i : Pending(i, b)' = Pending(i, b)
    BY <1>1 DEF Pending
  <2>4. ASSUME NEW b \in Addrs, NEW i \in 1..Len(requests), Pending(i, b)
        PROVE  /\ heap[b] # NoTimer /\ \A e \in timers_' : e[2] # b
               /\ Id(b) \notin repeating
               /\ \A j \in 1..Len(requests) : Pending(j, b) => i = j
    BY <1>2, <2>4 DEF QueueInv, PlaceInv
  <2>. QED BY <1>1, <1>4, <1>10, <2>1, <2>2, <2>3, <2>4 DEF PlaceInv
<1>12. RepeatInv'
  <2>1. \A x \in activeTimers_ : x \in activeTimers_' \/ (Id(x[1]) = x /\ x[1] \in Range(expired'))
    <3>. SUFFICES ASSUME NEW e \in due
                  PROVE  Id(Id(e[2])[1]) = Id(e[2]) /\ Id(e[2])[1] \in Range(expired')
      BY <1>2
    <3>1. Id(e[2])[1] = e[2]
      BY DEF Id
    <3>. QED BY <1>3, <3>1
  <2>2. Range(expired) = {}
    BY <1>1 DEF QueueInv, PlaceInv
  <2>3. RepeatExact'
    BY <1>1, <1>2, <1>4, <2>1, <2>2 DEF QueueInv, RepeatInv, RepeatExact
  <2>4. ASSUME NEW b \in Range(expired') PROVE Id(b) \notin cancelled
    <3>1. PICK g \in due : b = g[2]
      BY <1>3, <2>4
    <3>2. Id(b) \in activeTimers_
      BY <1>5, <3>1, EntryFacts
    <3>. QED BY <3>2 DEF QueueInv, IdInv, RepeatInv, RepeatExact
  <2>. QED BY <1>1, <1>4, <2>3, <2>4 DEF QueueInv, RepeatInv
<1>13. TimerfdArmed'
  BY <1>1 DEF TimerfdArmed
<1>14. HandleInv'
  BY <1>1, <1>4, HandlesStay
<1>. QED BY <1>6, <1>7, <1>11, <1>12, <1>13, <1>14 DEF QueueInv

\* Repeating timers are inserted again, the other expired ones deleted (timerQueue.cc:172).
LEMMA ResetStep == Times /\ QueueInv /\ reset => QueueInv'
<1>. SUFFICES ASSUME Times, QueueInv, reset PROVE QueueInv'
  OBVIOUS
<1>. DEFINE again == {a \in Range(expired) : Repeats(a)}
<1>1. /\ callingExpiredTimers_ /\ callingExpiredTimers_' = FALSE /\ expired' = <<>> /\ read_at' = 0
      /\ heap' = [a \in Addrs |->
                    IF a \in again THEN [heap[a] EXCEPT !.expiration = read_at + heap[a].interval]
                    ELSE IF a \in Range(expired) THEN NoTimer ELSE heap[a]]
      /\ timers_' = timers_ \cup {<<heap'[a].expiration, a>> : a \in again}
      /\ activeTimers_' = activeTimers_ \cup {Id(a) : a \in again}
      /\ \/ timers_' = {} /\ timerfd' = timerfd
         \/ \E e \in timers_' : IsFirst(e, timers_') /\ timerfd' = Max({e[1], now})
      /\ UNCHANGED <<now, cancelingTimers_, issued, requests, unread, handles, repeating, cancelled>>
  BY DEF reset, resetTimerfd, callVars
<1>2. /\ again \subseteq Range(expired) /\ Range(expired) \subseteq Addrs
      /\ \A a \in again : heap[a].interval > 0 /\ Id(a) \notin cancelingTimers_
      /\ \A a \in Range(expired) : heap[a].interval > 0 /\ Id(a) \notin cancelingTimers_ => a \in again
  BY DEF Repeats, QueueInv, QueueTypeOK
<1>3. Range(expired') = {}
  BY <1>1, SMTT(15) DEF Range
<1>. HIDE DEF again
<1>4. \A a \in Range(expired) : heap[a] # NoTimer /\ \A e \in timers_ : e[2] # a
  BY DEF QueueInv, PlaceInv
<1>5. \A a \in again :
        /\ heap'[a].expiration \in Nat /\ heap'[a].interval = heap[a].interval
        /\ heap'[a].sequence = heap[a].sequence /\ heap'[a] \in Timer /\ heap'[a] # NoTimer
        /\ Id(a)' = Id(a)
  <2>. SUFFICES ASSUME NEW a \in again
                PROVE  /\ heap'[a].expiration \in Nat /\ heap'[a].interval = heap[a].interval
                       /\ heap'[a].sequence = heap[a].sequence /\ heap'[a] \in Timer
                       /\ heap'[a] # NoTimer /\ Id(a)' = Id(a)
    OBVIOUS
  <2>1. a \in Addrs /\ heap[a] \in Timer /\ read_at \in Nat
    BY <1>2 DEF QueueInv, QueueTypeOK
  <2>2. heap'[a] = [heap[a] EXCEPT !.expiration = read_at + heap[a].interval]
    BY <1>1, <2>1
  <2>3. /\ heap'[a].expiration = read_at + heap[a].interval /\ heap'[a].interval = heap[a].interval
        /\ heap'[a].sequence = heap[a].sequence /\ heap'[a] \in Timer
    BY <2>1, <2>2, SMTT(15) DEF Timer
  <2>4. heap[a].sequence \in Nat \ {0}
    BY <1>2, <1>4, <2>1, TimerFacts
  <2>5. heap'[a] # NoTimer
    BY <2>3, <2>4 DEF NoTimer
  <2>. QED BY <2>1, <2>3, <2>5 DEF Id, Timer
<1>6. \A b \in Addrs : b \notin Range(expired) => heap'[b] = heap[b] /\ Id(b)' = Id(b)
  BY <1>1, <1>2 DEF Id
<1>7. \A b \in Addrs : b \in again \/ b \notin Range(expired) \/ heap'[b] = NoTimer
  BY <1>1
<1>8. \A e \in timers_ : e[2] \in Addrs /\ e[2] \notin Range(expired)
  BY <1>4, EntryFacts
<1>9. QueueTypeOK'
  <2>1. heap' \in [Addrs -> Timer]
    <3>1. NoTimer \in Timer /\ heap \in [Addrs -> Timer]
      BY DEF NoTimer, Timer, QueueInv, QueueTypeOK
    <3>2. \A b \in Addrs : heap'[b] \in Timer
      BY <1>5, <1>6, <1>7, <3>1
    <3>3. heap' = [b \in Addrs |-> heap'[b]]
      BY <1>1
    <3>. QED BY <3>2, <3>3
  <2>2. timers_' \subseteq Nat \X Addrs
    <3>1. timers_ \subseteq Nat \X Addrs
      BY DEF QueueInv, QueueTypeOK
    <3>2. \A a \in again : <<heap'[a].expiration, a>> \in Nat \X Addrs
      BY <1>2, <1>5
    <3>. QED BY <1>1, <3>1, <3>2, ZenonT(20)
  <2>3. timerfd' \in Nat
    <3>1. \A e \in timers_' : Max({e[1], now}) \in Nat
      BY <2>2, MaxFacts DEF QueueInv, QueueTypeOK
    <3>. QED BY <1>1, <3>1 DEF QueueInv, QueueTypeOK
  <2>4. callingExpiredTimers_' \in BOOLEAN /\ read_at' \in Nat
    BY <1>1
  <2>. QED BY <1>1, <1>3, <2>1, <2>2, <2>3, <2>4 DEF QueueInv, QueueTypeOK
<1>10. \A b \in Addrs : heap'[b] # NoTimer => heap[b] # NoTimer /\ Id(b)' = Id(b)
  BY <1>2, <1>4, <1>5, <1>6, <1>7
<1>11. IdInv'
  <2>1. \A b \in Addrs : heap'[b] # NoTimer => Id(b)' \in issued
    BY <1>10 DEF QueueInv, IdInv
  <2>2. \A a \in again : Id(a) \in issued
    BY <1>2, <1>4 DEF QueueInv, IdInv
  <2>. QED BY <1>1, <2>1, <2>2 DEF QueueInv, IdInv
<1>12. SetsAgree'
  <2>1. activeTimers_ = {Id(e[2]) : e \in timers_}
    BY DEF QueueInv, PlaceInv, SetsAgree
  <2>2. ASSUME NEW x \in activeTimers_' PROVE \E e \in timers_' : x = Id(e[2])'
    <3>1. CASE x \in activeTimers_
      <4>1. PICK e \in timers_ : x = Id(e[2])
        BY <2>1, <3>1
      <4>. QED BY <1>1, <1>6, <1>8, <4>1
    <3>2. CASE x \in {Id(a) : a \in again}
      <4>1. PICK a \in again : x = Id(a)
        BY <3>2
      <4>2. <<heap'[a].expiration, a>> \in timers_' /\ <<heap'[a].expiration, a>>[2] = a
        BY <1>1, SMTT(15)
      <4>. QED BY <1>5, <4>1, <4>2
    <3>. QED BY <1>1, <2>2, <3>1, <3>2
  <2>3. ASSUME NEW e \in timers_'
        PROVE  Id(e[2])' \in activeTimers_' /\ heap'[e[2]].expiration = e[1] /\ heap'[e[2]] # NoTimer
    <3>1. CASE e \in timers_
      BY <1>1, <1>6, <1>8, <2>1, <3>1, EntryFacts
    <3>2. CASE e \in {<<heap'[a].expiration, a>> : a \in again}
      <4>1. PICK a \in again : e = <<heap'[a].expiration, a>>
        BY <3>2
      <4>2. e[2] = a /\ e[1] = heap'[a].expiration
        BY <4>1
      <4>3. Id(e[2])' = Id(a)'
        BY <4>2 DEF Id
      <4>4. Id(a)' \in activeTimers_'
        BY <1>1, <1>5, ZenonT(20)
      <4>. QED BY <1>5, <4>2, <4>3, <4>4
    <3>. QED BY <1>1, <2>3, <3>1, <3>2
  <2>4. activeTimers_' = {Id(e[2])' : e \in timers_'}
    BY <2>2, <2>3
  <2>. QED BY <2>3, <2>4 DEF SetsAgree
<1>13. PlaceInv'
  <2>1. \A b, i : Pending(i, b)' = Pending(i, b)
    BY <1>1 DEF Pending
  <2>2. ASSUME NEW b \in Addrs, NEW i \in 1..Len(requests), Pending(i, b)
        PROVE  /\ heap'[b] # NoTimer /\ \A e \in timers_' : e[2] # b
               /\ Id(b)' \notin repeating
               /\ \A j \in 1..Len(requests) : Pending(j, b) => i = j
    <3>1. /\ heap[b] # NoTimer /\ b \notin Range(expired)
          /\ \A e \in timers_ : e[2] # b
          /\ Id(b) \notin repeating
          /\ \A j \in 1..Len(requests) : Pending(j, b) => i = j
      BY <2>2 DEF QueueInv, PlaceInv
    <3>2. \A a \in again : a # b
      BY <1>2, <3>1
    <3>3. \A a \in again : <<heap'[a].expiration, a>>[2] # b
      BY <3>2
    <3>4. \A e \in timers_' : e \in timers_ \/ \E a \in again : e = <<heap'[a].expiration, a>>
      BY <1>1
    <3>5. \A e \in timers_' : e[2] # b
      BY <3>1, <3>3, <3>4
    <3>. QED BY <1>6, <3>1, <3>5
  <2>. QED BY <1>1, <1>3, <1>12, <2>1, <2>2 DEF PlaceInv
<1>14. RepeatInv'
  <2>1. RepeatExact'
    <3>. SUFFICES ASSUME NEW r \in repeating
                  PROVE  IF r \in cancelled THEN r \notin activeTimers_' ELSE r \in activeTimers_'
      BY <1>1 DEF RepeatExact
    <3>1. IF r \in cancelled THEN r \notin activeTimers_
          ELSE r \in activeTimers_ \/ (Id(r[1]) = r /\ r[1] \in Range(expired))
      BY DEF QueueInv, RepeatInv, RepeatExact
    <3>2. CASE r \in cancelled
      <4>1. \A a \in again : Id(a) # r
        BY <1>2, <3>2 DEF QueueInv, RepeatInv
      <4>. QED BY <1>1, <3>1, <3>2, <4>1
    <3>3. CASE r \notin cancelled /\ r \notin activeTimers_
      <4>1. r[1] \in Range(expired) /\ r[1] \in Addrs /\ Id(r[1]) = r
        BY <1>2, <3>1, <3>3
      <4>2. heap[r[1]].interval > 0
        BY <1>4, <4>1 DEF QueueInv, RepeatInv
      <4>3. r \notin cancelingTimers_
        BY <3>3, <4>1 DEF QueueInv, RepeatInv
      <4>4. r[1] \in again
        BY <1>2, <4>1, <4>2, <4>3
      <4>. QED BY <1>1, <3>3, <4>1, <4>4
    <3>4. CASE r \notin cancelled /\ r \in activeTimers_
      BY <1>1, <3>4
    <3>. QED BY <3>2, <3>3, <3>4
  <2>2. ASSUME NEW b \in Addrs, heap'[b] # NoTimer, Id(b)' \in repeating PROVE heap'[b].interval > 0
    <3>1. heap[b].interval > 0
      BY <1>10, <2>2 DEF QueueInv, RepeatInv
    <3>. QED BY <1>5, <1>6, <1>7, <2>2, <3>1
  <2>. QED BY <1>1, <1>3, <2>1, <2>2 DEF RepeatInv
<1>15. TimerfdArmed'
  <2>1. now \in Nat /\ \A e \in timers_' : e[1] \in Nat
    BY <1>9, <1>1 DEF QueueTypeOK, QueueInv
  <2>2. CASE timers_' = {}
    BY <2>2 DEF TimerfdArmed
  <2>3. CASE \E e \in timers_' : IsFirst(e, timers_') /\ timerfd' = Max({e[1], now})
    <3>1. PICK e \in timers_' : IsFirst(e, timers_') /\ timerfd' = Max({e[1], now})
      BY <2>3
    <3>2. ASSUME NEW g \in timers_' PROVE timerfd' <= Max({g[1], now})
      <4>1. e[1] <= g[1]
        BY <2>1, <3>1 DEF IsFirst, Earlier
      <4>2. Max({e[1], now}) \in {e[1], now}
        BY <2>1, MaxFacts
      <4>3. Max({g[1], now}) \in Nat /\ g[1] <= Max({g[1], now}) /\ now <= Max({g[1], now})
        BY <2>1, MaxFacts
      <4>. QED BY <2>1, <3>1, <4>1, <4>2, <4>3
    <3>. QED BY <1>1, <3>2 DEF TimerfdArmed
  <2>. QED BY <1>1, <2>2, <2>3
<1>16. HandleInv'
  BY <1>1, <1>10, HandlesStay
<1>. QED BY <1>9, <1>11, <1>13, <1>14, <1>15, <1>16 DEF QueueInv

\* The clock, and a callback that does not use the queue.
LEMMA OtherSteps == Times /\ QueueInv /\ (Tick \/ RunTimer \/ UNCHANGED queueVars) => QueueInv'
<1>. SUFFICES ASSUME Times, QueueInv, Tick \/ RunTimer \/ UNCHANGED queueVars PROVE QueueInv'
  OBVIOUS
<1>1. /\ now' \in Nat /\ now \in Nat /\ now <= now'
      /\ UNCHANGED <<heap, timers_, activeTimers_, cancelingTimers_, callingExpiredTimers_, expired,
                     read_at, timerfd, issued, requests, unread, handles, repeating, cancelled>>
  BY DEF Tick, RunTimer, queueVars, batchVars, callVars, QueueInv, QueueTypeOK
<1>2. (\A b : Id(b)' = Id(b)) /\ (\A b, i : Pending(i, b)' = Pending(i, b))
  BY <1>1 DEF Id, Pending
<1>3. QueueTypeOK' /\ IdInv'
  BY <1>1, <1>2 DEF QueueInv, QueueTypeOK, IdInv
<1>4. SetsAgree'
  BY <1>1, <1>2, SMTT(15) DEF QueueInv, PlaceInv, SetsAgree
<1>5. PlaceInv'
  BY <1>1, <1>2, <1>4 DEF QueueInv, PlaceInv
<1>6. RepeatInv'
  BY <1>1, <1>2 DEF QueueInv, RepeatInv, RepeatExact
<1>7. TimerfdArmed'
  <2>. SUFFICES ASSUME ~callingExpiredTimers_, NEW e \in timers_ PROVE timerfd <= Max({e[1], now'})
    BY <1>1 DEF TimerfdArmed
  <2>1. timerfd <= Max({e[1], now}) /\ timerfd \in Nat /\ e[1] \in Nat
    BY EntryFacts DEF QueueInv, TimerfdArmed, QueueTypeOK
  <2>2. Max({e[1], now}) \in {e[1], now}
    BY <1>1, <2>1, MaxFacts
  <2>3. Max({e[1], now'}) \in Nat /\ e[1] <= Max({e[1], now'}) /\ now' <= Max({e[1], now'})
    BY <1>1, <2>1, MaxFacts
  <2>. QED BY <1>1, <2>1, <2>2, <2>3
<1>8. HandleInv'
  BY <1>1, <1>2, HandlesStay
<1>. QED BY <1>3, <1>5, <1>6, <1>7, <1>8 DEF QueueInv

\* In the first state there is no timer (timerQueue.cc:78).
LEMMA InitQueue == Times /\ QueueInit => QueueInv
<1>. SUFFICES ASSUME Times, QueueInit PROVE QueueInv
  OBVIOUS
<1>1. Range(expired) = {} /\ Len(requests) = 0 /\ IsFiniteSet(issued)
  BY FS_EmptySet, SMTT(15) DEF QueueInit, Range
<1>2. QueueTypeOK
  <2>1. NoTimer \in Timer /\ Never \in Nat
    BY DEF NoTimer, Timer, Never, Times
  <2>2. heap \in [Addrs -> Timer] /\ expired \in Seq(Addrs) /\ requests \in Seq(Functor)
    BY <2>1 DEF QueueInit
  <2>3. callingExpiredTimers_ \in BOOLEAN
    BY DEF QueueInit
  <2>. QED BY <1>1, <2>1, <2>2, <2>3 DEF QueueInit, QueueTypeOK
<1>3. \A a \in Addrs : heap[a] = NoTimer
  BY DEF QueueInit
<1>4. IdInv
  BY <1>3 DEF QueueInit, IdInv
<1>5. PlaceInv
  BY <1>1, SMTT(15) DEF QueueInit, PlaceInv, SetsAgree
<1>6. RepeatInv /\ TimerfdArmed
  BY <1>1 DEF QueueInit, RepeatInv, RepeatExact, TimerfdArmed
<1>7. HandleInv
  BY DEF QueueInit, HandleInv, IdsAreOwn
<1>. QED BY <1>2, <1>4, <1>5, <1>6, <1>7 DEF QueueInv
-----------------------------------------------------------------------------
\* TimerQueue keeps QueueInv in every behaviour, also if addTimer on another thread returns the
\* number of another timer, or any number, for one that the loop has deleted (timerQueue.cc:98).
THEOREM QueueInductive ==
  ASSUME Times
  PROVE  QueueSpec => []QueueInv
<1>1. QueueInit => QueueInv
  BY InitQueue
<1>2. QueueInv /\ [QueueNext]_queueVars => QueueInv'
  <2>. SUFFICES ASSUME QueueInv, [QueueNext]_queueVars PROVE QueueInv'
    OBVIOUS
  <2>1. CASE Tick \/ RunTimer \/ UNCHANGED queueVars
    BY <2>1, OtherSteps
  <2>2. CASE RunRequest
    BY <2>2, FunctorStep
  <2>3. CASE handleRead
    BY <2>3, ReadStep
  <2>4. CASE reset
    BY <2>4, ResetStep
  <2>5. CASE \E a \in Addrs, delay \in Delays, interval \in Intervals :
                addTimer(a, delay, interval) \/ addTimerElsewhere(a, delay, interval)
    BY <2>5, AddStep, AddElsewhereStep
  <2>6. CASE \E h \in handles : cancel(h[2]) \/ cancelElsewhere(h[2])
    <3>1. PICK h \in handles : cancel(h[2]) \/ cancelElsewhere(h[2])
      BY <2>6
    <3>2. h[2] \in Addrs \X Nat
      BY DEF QueueInv, HandleInv
    <3>. QED BY <3>1, <3>2, CancelStep, CancelElsewhereStep
  <2>7. CASE \E t \in unread : addTimerReturns(t)
    BY <2>7, ReturnStep
  <2>. QED BY <2>1, <2>2, <2>3, <2>4, <2>5, <2>6, <2>7 DEF QueueNext
<1>. QED BY <1>1, <1>2, PTL DEF QueueSpec

\* While no callback runs, the timerfd fires no later than any timer that waits, for any number of
\* timers (timerQueue.cc:109, 185).
THEOREM TimerfdIsArmed ==
  ASSUME Times
  PROVE  QueueSpec => []TimerfdArmed
<1>1. QueueInv => TimerfdArmed
  BY DEF QueueInv
<1>. QED BY <1>1, QueueInductive, PTL

\* The sets agree, a repeating timer is in them until it is cancelled by its address and number and
\* not after, and whoever made a timer that still exists has its own TimerId, for any number of timers
\* and whatever addresses are used again (timerQueue.cc:98, 116, 166, 177).
THEOREM TimersRepeat ==
  ASSUME Times
  PROVE  QueueSpec => []RepeatsUntilCancelled
<1>1. QueueInv => RepeatsUntilCancelled
  BY DEF QueueInv, HandleInv, PlaceInv, RepeatInv, RepeatsUntilCancelled
<1>. QED BY <1>1, QueueInductive, PTL

-----------------------------------------------------------------------------
(***************************************************************************)
(* The log                                                                 *)
(***************************************************************************)
Line == Nat \X Nat
Buffer == [data_ : Seq(Line), cur_ : Nat]

\* The order that NoLineLost states, of a file f and the buffers W that wait.
InOrder(f, W) ==
    /\ Sorted(f)
    /\ \A i \in DOMAIN W :
          /\ Sorted(W[i].data_) /\ Before(f, W[i].data_)
          /\ \A j \in DOMAIN W : i < j => Before(W[i].data_, W[j].data_)
\* The lines that are in f or in W.
Kept(f, W) == Range(f) \cup UNION {Range(W[i].data_) : i \in DOMAIN W}
\* No line of s has a number above n.
UpTo(n, s) == \A i \in DOMAIN s : s[i][1] <= n
\* f and W are in order, and have no line above n.
Numbered(n, f, W) ==
    InOrder(f, W) /\ UpTo(n, f) /\ \A i \in DOMAIN W : UpTo(n, W[i].data_)

LogTypeOK ==
    /\ currentBuffer_ \in Buffer /\ buffers_ \in Seq(Buffer) /\ buffersToWrite \in Seq(Buffer)
    /\ file \in Seq(Line) /\ lines \in Seq(Line) /\ spent \in Nat
    /\ nextBuffer_ \in BOOLEAN /\ running_ \in BOOLEAN /\ failed \in BOOLEAN
    /\ newBuffer1 \in BOOLEAN /\ newBuffer2 \in BOOLEAN

\* The two buffers the logging thread gave away come back: nextBuffer_ was taken only if a full
\* buffer waits, and then two buffers are written.
BuffersReturn ==
    /\ ~failed
    /\ nextBuffer_ \/ buffers_ # <<>>
    /\ logAt \in {"test", "swap"} => newBuffer1 /\ newBuffer2 /\ buffersToWrite = <<>> /\ spent = 0
    /\ logAt = "discard" => spent = 0
    /\ logAt \in {"discard", "write"} =>
          spent + Len(buffersToWrite) >= (IF newBuffer2 THEN 1 ELSE 2)

\* The inductive invariant.
LogInv ==
    /\ LogTypeOK /\ BuffersReturn
    /\ Numbered(Len(lines), file, Waiting)
    /\ Range(lines) \subseteq Kept(file, Waiting) \cup thrown \cup exact
-----------------------------------------------------------------------------
\* A line with a higher number at the end.
LEMMA OrderOfAppend ==
    ASSUME NEW s \in Seq(Line), NEW n \in Nat, UpTo(n, s), NEW l \in Line, l[1] = n + 1
    PROVE  /\ Append(s, l) \in Seq(Line) /\ UpTo(n + 1, Append(s, l))
           /\ Sorted(s) => Sorted(Append(s, l))
           /\ \A t \in Seq(Line) : UpTo(n, t) /\ Before(t, s) => Before(t, Append(s, l))
           /\ Range(Append(s, l)) = Range(s) \cup {l}
<1>1. /\ Append(s, l) \in Seq(Line) /\ DOMAIN Append(s, l) = 1..Len(s) + 1
      /\ DOMAIN s = 1..Len(s) /\ Len(s) \in Nat
      /\ \A i \in 1..Len(s) : Append(s, l)[i] = s[i]
      /\ Append(s, l)[Len(s) + 1] = l
  BY AppendProperties, LenProperties, SMTT(15)
<1>2. \A i \in DOMAIN s : s[i] \in Line /\ s[i][1] \in Nat
  BY <1>1, ElementOfSeq, SMTT(15) DEF Line
<1>3. UpTo(n + 1, Append(s, l))
  BY <1>1, <1>2, SMTT(15) DEF UpTo
<1>4. Sorted(s) => Sorted(Append(s, l))
  BY <1>1, <1>2, SMTT(30) DEF UpTo, Sorted
<1>5. ASSUME NEW t \in Seq(Line), UpTo(n, t), Before(t, s) PROVE Before(t, Append(s, l))
  <2>1. \A i \in DOMAIN t : t[i] \in Line /\ t[i][1] \in Nat /\ t[i][1] < l[1]
    BY <1>5, ElementOfSeq, LenProperties, SMTT(30) DEF Line, UpTo
  <2> QED
    BY <1>1, <1>5, <2>1, SMTT(15) DEF Before
<1>6. Range(Append(s, l)) = Range(s) \cup {l}
  BY <1>1, SMTT(15) DEF Range
<1> QED
  BY <1>1, <1>3, <1>4, <1>5, <1>6

\* A bound that grows.
LEMMA UpToGrows ==
    ASSUME NEW s \in Seq(Line), NEW n \in Nat, UpTo(n, s)
    PROVE  UpTo(n + 1, s)
<1>1. \A i \in DOMAIN s : s[i][1] \in Nat
  BY ElementOfSeq, LenProperties, SMTT(15) DEF Line
<1> QED
  BY <1>1 DEF UpTo

\* The elements of Append(W, b).
LEMMA Elements ==
    ASSUME NEW W \in Seq(Buffer), NEW b \in Buffer
    PROVE  /\ Append(W, b) \in Seq(Buffer)
           /\ DOMAIN Append(W, b) = DOMAIN W \cup {Len(W) + 1} /\ Len(W) + 1 \notin DOMAIN W
           /\ \A i \in DOMAIN W : Append(W, b)[i] = W[i] /\ W[i] \in Buffer
                                  /\ i < Len(W) + 1 /\ ~(Len(W) + 1 < i)
           /\ ~(Len(W) + 1 < Len(W) + 1)
           /\ Append(W, b)[Len(W) + 1] = b
<1>1. /\ Append(W, b) \in Seq(Buffer) /\ DOMAIN Append(W, b) = 1..Len(W) + 1
      /\ DOMAIN W = 1..Len(W) /\ Len(W) \in Nat
      /\ \A i \in 1..Len(W) : Append(W, b)[i] = W[i] /\ W[i] \in Buffer
      /\ Append(W, b)[Len(W) + 1] = b
  BY AppendProperties, LenProperties, ElementOfSeq, SMTT(15)
<1> QED
  BY <1>1

\* What InOrder and Kept say of a buffer more.
LEMMA OneMore ==
    ASSUME NEW f, NEW W \in Seq(Buffer), NEW b \in Buffer
    PROVE  /\ InOrder(f, Append(W, b)) <=>
                 /\ InOrder(f, W) /\ Sorted(b.data_) /\ Before(f, b.data_)
                 /\ \A i \in DOMAIN W : Before(W[i].data_, b.data_)
           /\ Kept(f, Append(W, b)) = Kept(f, W) \cup Range(b.data_)
<1> DEFINE A == Append(W, b)
           k == Len(W) + 1
<1>1. /\ DOMAIN A = DOMAIN W \cup {k} /\ k \notin DOMAIN W /\ A[k] = b
      /\ \A i \in DOMAIN W : A[i] = W[i] /\ i < k /\ ~(k < i)
      /\ ~(k < k)
  BY Elements, SMTT(15)
<1> HIDE DEF A, k
<1>2. InOrder(f, A) => /\ InOrder(f, W) /\ Sorted(b.data_) /\ Before(f, b.data_)
                       /\ \A i \in DOMAIN W : Before(W[i].data_, b.data_)
  BY <1>1 DEF InOrder
<1>3. ASSUME InOrder(f, W), Sorted(b.data_), Before(f, b.data_),
             \A i \in DOMAIN W : Before(W[i].data_, b.data_)
      PROVE  InOrder(f, A)
  BY <1>1, <1>3 DEF InOrder
<1>4. Kept(f, A) = Kept(f, W) \cup Range(b.data_)
  BY <1>1 DEF Kept
<1> QED
  BY <1>2, <1>3, <1>4 DEF A

\* The first buffer is written.
LEMMA FirstWritten ==
    ASSUME NEW f \in Seq(Line), NEW W \in Seq(Buffer), NEW b \in Buffer,
           InOrder(f, <<b>> \o W)
    PROVE  InOrder(f \o b.data_, W) /\ Kept(f \o b.data_, W) = Kept(f, <<b>> \o W)
<1> DEFINE V == <<b>> \o W
           g == f \o b.data_
           n == Len(f)
<1>a. b.data_ \in Seq(Line)
  BY DEF Buffer
<1>1. /\ DOMAIN V = 1..Len(W) + 1 /\ DOMAIN W = 1..Len(W) /\ Len(W) \in Nat
      /\ V[1] = b /\ \A i \in DOMAIN W : V[i + 1] = W[i]
  BY ConcatProperties, LenProperties, SMTT(15)
<1>2. /\ DOMAIN g = 1..n + Len(b.data_) /\ DOMAIN f = 1..n /\ n \in Nat
      /\ DOMAIN b.data_ = 1..Len(b.data_) /\ Len(b.data_) \in Nat
      /\ \A i \in DOMAIN g : g[i] = IF i <= n THEN f[i] ELSE b.data_[i - n]
  BY <1>a, ConcatProperties, LenProperties, SMTT(15)
<1> HIDE DEF V, g, n
<1>3. \A i \in DOMAIN g : \/ i \in DOMAIN f /\ g[i] = f[i]
                          \/ i - n \in DOMAIN b.data_ /\ g[i] = b.data_[i - n] /\ i > n
  BY <1>2
<1>4. 1 \in DOMAIN V /\ \A i \in DOMAIN W : i + 1 \in DOMAIN V /\ 1 < i + 1 /\ i \in Nat
  BY <1>1
<1>5. Sorted(g)
  <2> SUFFICES ASSUME NEW i \in DOMAIN g, NEW j \in DOMAIN g, i < j PROVE g[i][1] < g[j][1]
    BY DEF Sorted
  <2>0. Sorted(f) /\ Sorted(b.data_) /\ Before(f, b.data_)
    BY <1>1, <1>4 DEF InOrder, V
  <2>1. CASE i \in DOMAIN f /\ j \in DOMAIN f
    BY <1>2, <2>0, <2>1, SMTT(15) DEF Sorted
  <2>2. CASE i \in DOMAIN f /\ j \notin DOMAIN f
    <3>1. g[i] = f[i]
      BY <1>2, <2>2, SMTT(15)
    <3>2. j - n \in DOMAIN b.data_ /\ g[j] = b.data_[j - n]
      BY <1>3, <2>2
    <3> QED
      BY <2>0, <2>2, <3>1, <3>2 DEF Before
  <2>3. CASE i \notin DOMAIN f
    <3>1. i - n \in DOMAIN b.data_ /\ g[i] = b.data_[i - n] /\ j \notin DOMAIN f
      BY <1>2, <1>3, <2>3, SMTT(30)
    <3>2. j - n \in DOMAIN b.data_ /\ g[j] = b.data_[j - n] /\ i - n < j - n
      BY <1>2, <1>3, <3>1, SMTT(15)
    <3> QED
      BY <2>0, <3>1, <3>2 DEF Sorted
  <2> QED
    BY <2>1, <2>2, <2>3
<1>6. ASSUME NEW i \in DOMAIN W
      PROVE  /\ Sorted(W[i].data_) /\ Before(f, W[i].data_) /\ Before(b.data_, W[i].data_)
             /\ \A j \in DOMAIN W : i < j => Before(W[i].data_, W[j].data_)
  <2>1. Sorted(V[i + 1].data_) /\ Before(f, V[i + 1].data_) /\ Before(V[1].data_, V[i + 1].data_)
    BY <1>4 DEF InOrder, V
  <2>2. ASSUME NEW j \in DOMAIN W, i < j PROVE Before(W[i].data_, W[j].data_)
    <3>1. i + 1 < j + 1 /\ i + 1 \in DOMAIN V /\ j + 1 \in DOMAIN V
      BY <1>4, <2>2
    <3>2. Before(V[i + 1].data_, V[j + 1].data_)
      BY <3>1 DEF InOrder, V
    <3> QED
      BY <1>1, <3>2
  <2> QED
    BY <1>1, <2>1, <2>2
<1>7. ASSUME NEW i \in DOMAIN W PROVE Before(g, W[i].data_)
  BY <1>3, <1>6 DEF Before
<1>8. Range(g) = Range(f) \cup Range(b.data_)
  BY <1>a, RangeConcatenation, ZenonT(30) DEF g
<1>9. Kept(g, W) = Kept(f, V)
  <2>1. \A x : (\E i \in DOMAIN V : x \in Range(V[i].data_))
                 <=> x \in Range(b.data_) \/ \E i \in DOMAIN W : x \in Range(W[i].data_)
    <3>1. \A i \in DOMAIN V : i = 1 \/ (i - 1 \in DOMAIN W /\ V[i] = W[i - 1])
      BY <1>1
    <3> QED
      BY <1>1, <1>4, <3>1
  <2> QED
    BY <1>8, <2>1, ZenonT(30) DEF Kept
<1> QED
  BY <1>5, <1>6, <1>7, <1>9 DEF InOrder, V, g

\* The bound, of a buffer more.
LEMMA UpToLast ==
    ASSUME NEW W \in Seq(Buffer), NEW b \in Buffer, NEW n
    PROVE  (\A i \in DOMAIN Append(W, b) : UpTo(n, Append(W, b)[i].data_))
              <=> (\A i \in DOMAIN W : UpTo(n, W[i].data_)) /\ UpTo(n, b.data_)
<1> DEFINE A == Append(W, b)
           k == Len(W) + 1
<1>1. DOMAIN A = DOMAIN W \cup {k} /\ A[k] = b /\ \A i \in DOMAIN W : A[i] = W[i]
  BY Elements, SMTT(15)
<1> HIDE DEF A, k
<1>2. (\A i \in DOMAIN A : UpTo(n, A[i].data_))
              <=> (\A i \in DOMAIN W : UpTo(n, W[i].data_)) /\ UpTo(n, b.data_)
  BY <1>1
<1> QED
  BY <1>2 DEF A

\* The buffers are buffers.
LEMMA BuffersOf ==
    ASSUME NEW W \in Seq(Buffer)
    PROVE  \A i \in DOMAIN W : W[i] \in Buffer /\ W[i].data_ \in Seq(Line)
<1>1. \A i \in DOMAIN W : W[i] \in Buffer
  BY ElementOfSeq, LenProperties
<1> QED
  BY <1>1 DEF Buffer

\* The first buffer is written: what is in order and below a bound stays so.
LEMMA NumberedAfterWrite ==
    ASSUME NEW f \in Seq(Line), NEW W \in Seq(Buffer), NEW b \in Buffer, NEW n,
           Numbered(n, f, <<b>> \o W)
    PROVE  Numbered(n, f \o b.data_, W) /\ Kept(f \o b.data_, W) = Kept(f, <<b>> \o W)
<1> DEFINE V == <<b>> \o W
<1>1. /\ 1 \in DOMAIN V /\ V[1] = b /\ \A i \in DOMAIN W : i + 1 \in DOMAIN V /\ V[i + 1] = W[i]
  BY ConcatProperties, LenProperties, SMTT(15)
<1>2. UpTo(n, f) /\ UpTo(n, b.data_) /\ \A i \in DOMAIN W : UpTo(n, W[i].data_)
  BY <1>1 DEF Numbered
<1>3. UpTo(n, f \o b.data_)
  <2>1. b.data_ \in Seq(Line)
    BY DEF Buffer
  <2> DEFINE g == f \o b.data_
  <2>2. /\ DOMAIN g = 1..Len(f) + Len(b.data_) /\ DOMAIN f = 1..Len(f) /\ Len(f) \in Nat
        /\ DOMAIN b.data_ = 1..Len(b.data_) /\ Len(b.data_) \in Nat
        /\ \A i \in DOMAIN g : g[i] = IF i <= Len(f) THEN f[i] ELSE b.data_[i - Len(f)]
    BY <2>1, ConcatProperties, LenProperties, SMTT(15)
  <2> HIDE DEF g
  <2>3. \A i \in DOMAIN g : \/ i \in DOMAIN f /\ g[i] = f[i]
                            \/ i - Len(f) \in DOMAIN b.data_ /\ g[i] = b.data_[i - Len(f)]
    BY <2>2, SMTT(15)
  <2>4. UpTo(n, g)
    BY <1>2, <2>3 DEF UpTo
  <2> QED
    BY <2>4 DEF g
<1> QED
  BY <1>2, <1>3, FirstWritten DEF Numbered

\* An empty buffer more.
LEMMA NumberedAfterEmpty ==
    ASSUME NEW f, NEW W \in Seq(Buffer), NEW n, Numbered(n, f, W)
    PROVE  /\ Empty \in Buffer /\ Append(W, Empty) \in Seq(Buffer)
           /\ Numbered(n, f, Append(W, Empty)) /\ Kept(f, Append(W, Empty)) = Kept(f, W)
<1>1. Empty \in Buffer /\ Empty.data_ = <<>> /\ DOMAIN Empty.data_ = {}
  BY EmptySeq DEF Empty, Buffer
<1>2. /\ Sorted(Empty.data_) /\ UpTo(n, Empty.data_) /\ Range(Empty.data_) = {}
      /\ \A s : Before(s, Empty.data_)
  BY <1>1 DEF Sorted, UpTo, Before, Range
<1>3. InOrder(f, Append(W, Empty)) /\ Kept(f, Append(W, Empty)) = Kept(f, W)
  <2>1. Kept(f, Append(W, Empty)) = Kept(f, W) \cup Range(Empty.data_)
    BY <1>1, OneMore, ZenonT(20)
  <2>2. InOrder(f, Append(W, Empty))
    BY <1>1, <1>2, OneMore DEF Numbered
  <2> QED
    BY <1>2, <2>1, <2>2
<1>4. \A i \in DOMAIN Append(W, Empty) : UpTo(n, Append(W, Empty)[i].data_)
  BY <1>1, <1>2, UpToLast DEF Numbered
<1> QED
  BY <1>1, <1>3, <1>4, Elements DEF Numbered

\* A line more, in the last buffer: b becomes c.
OneLineMore(n, f, W, b, l, c) ==
    /\ f \in Seq(Line) /\ W \in Seq(Buffer) /\ b \in Buffer /\ n \in Nat
    /\ Numbered(n, f, Append(W, b))
    /\ l \in Line /\ l[1] = n + 1 /\ c \in Buffer /\ c.data_ = Append(b.data_, l)
LEMMA NumberedAfterLine ==
    ASSUME NEW f, NEW W, NEW b, NEW n, NEW l, NEW c, OneLineMore(n, f, W, b, l, c)
    PROVE  /\ Numbered(n + 1, f, Append(W, c))
           /\ Kept(f, Append(W, c)) = Kept(f, Append(W, b)) \cup {l}
<1>0. /\ f \in Seq(Line) /\ W \in Seq(Buffer) /\ b \in Buffer /\ n \in Nat
      /\ Numbered(n, f, Append(W, b))
      /\ l \in Line /\ l[1] = n + 1 /\ c \in Buffer /\ c.data_ = Append(b.data_, l)
  BY DEF OneLineMore
<1>a. b.data_ \in Seq(Line)
  BY <1>0 DEF Buffer
<1>1. /\ UpTo(n, b.data_) /\ UpTo(n, f)
      /\ \A i \in DOMAIN W : UpTo(n, W[i].data_) /\ W[i].data_ \in Seq(Line)
  BY <1>0, UpToLast, BuffersOf DEF Numbered
<1>2. /\ InOrder(f, W) /\ Sorted(b.data_) /\ Before(f, b.data_)
      /\ \A i \in DOMAIN W : Before(W[i].data_, b.data_)
  BY <1>0, OneMore, ZenonT(30) DEF Numbered
<1>3. /\ UpTo(n + 1, c.data_) /\ Sorted(c.data_) /\ Before(f, c.data_)
      /\ Range(c.data_) = Range(b.data_) \cup {l}
      /\ \A i \in DOMAIN W : Before(W[i].data_, c.data_)
  BY <1>0, <1>a, <1>1, <1>2, OrderOfAppend, SMTT(30)
<1>4. InOrder(f, Append(W, c)) /\ Kept(f, Append(W, c)) = Kept(f, Append(W, b)) \cup {l}
  <2>1. InOrder(f, Append(W, c))
    BY <1>0, <1>2, <1>3, OneMore
  <2>2. /\ Kept(f, Append(W, c)) = Kept(f, W) \cup Range(c.data_)
        /\ Kept(f, Append(W, b)) = Kept(f, W) \cup Range(b.data_)
    BY <1>0, OneMore, ZenonT(30)
  <2> QED
    BY <1>3, <2>1, <2>2
<1>5. UpTo(n + 1, f) /\ \A i \in DOMAIN W : UpTo(n + 1, W[i].data_)
  BY <1>0, <1>1, UpToGrows
<1>6. \A i \in DOMAIN Append(W, c) : UpTo(n + 1, Append(W, c)[i].data_)
  BY <1>0, <1>3, <1>5, UpToLast
<1> QED
  BY <1>4, <1>5, <1>6 DEF Numbered

\* A number more.
LEMMA NumberedGrows ==
    ASSUME NEW f \in Seq(Line), NEW W \in Seq(Buffer), NEW n \in Nat, Numbered(n, f, W)
    PROVE  Numbered(n + 1, f, W)
BY BuffersOf, UpToGrows DEF Numbered

\* Some of the buffers are taken out: pick says where those that stay were.
LEMMA NumberedAfterTaking ==
    ASSUME NEW f, NEW W \in Seq(Buffer), NEW V \in Seq(Buffer), NEW n,
           NEW pick \in [DOMAIN V -> DOMAIN W],
           \A i \in DOMAIN V : V[i] = W[pick[i]],
           \A i, j \in DOMAIN V : i < j => pick[i] < pick[j],
           Numbered(n, f, W)
    PROVE  Numbered(n, f, V)
BY DEF Numbered, InOrder
-----------------------------------------------------------------------------
\* The types that the lemmas ask for.
LEMMA WaitingType ==
    ASSUME LogTypeOK
    PROVE  /\ buffersToWrite \o buffers_ \in Seq(Buffer) /\ Waiting \in Seq(Buffer)
           /\ Len(lines) \in Nat
BY ConcatProperties, AppendProperties, LenProperties DEF LogTypeOK, Waiting

\* Sequences of buffers are concatenated in any order of the operations.
LEMMA BuffersConcat == \A s, t, u \in Seq(Buffer) : (s \o t) \o u = s \o (t \o u)
BY ConcatAssociative, SMTT(30)

\* Nothing is logged and one empty buffer waits (AsyncLogging.cc:9).
LEMMA LogInitInv == LogInit => LogInv
<1> SUFFICES ASSUME LogInit PROVE LogInv
  OBVIOUS
<1> USE DEF LogInit
<1>1. <<>> \in Seq(Line) /\ <<>> \in Seq(Buffer) /\ Len(<<>>) = 0 /\ DOMAIN <<>> = {}
  BY EmptySeq
<1>2. Empty \in Buffer
  BY <1>1 DEF Empty, Buffer
<1>3. LogTypeOK /\ BuffersReturn
  BY <1>1, <1>2 DEF LogTypeOK, BuffersReturn
<1>4. Waiting = Append(<<>>, Empty)
  BY <1>1, ConcatEmptySeq DEF Waiting
<1>5. Numbered(0, <<>>, <<>>)
  BY <1>1 DEF Numbered, InOrder, Sorted, UpTo
<1>6. Numbered(Len(lines), file, Waiting)
  BY <1>1, <1>4, <1>5, NumberedAfterEmpty
<1>7. Range(lines) = {}
  BY <1>1 DEF Range
<1> QED
  BY <1>3, <1>6, <1>7 DEF LogInv

\* A line is stored in the current buffer or in a fresh one behind it; only one that does not fit
\* is left out, and exact has it (AsyncLogging.cc:29).
LEMMA AppendKeeps ==
    ASSUME LogInv, NEW n \in Lengths, append(n)
    PROVE  LogInv'
<1> DEFINE l == <<Len(lines) + 1, n>>
           P == buffersToWrite \o buffers_
<1>0. LogTypeOK /\ BuffersReturn /\ Numbered(Len(lines), file, Waiting)
  BY DEF LogInv
<1>1. /\ P \in Seq(Buffer) /\ Waiting \in Seq(Buffer) /\ Len(lines) \in Nat
      /\ Waiting = Append(P, currentBuffer_)
  BY <1>0, WaitingType DEF Waiting
<1>2. l \in Line /\ l[1] = Len(lines) + 1 /\ n \in Nat /\ BufferSize \in Nat
  BY <1>1, LoggingAssumption, SMTT(30) DEF Line
<1>3. /\ lines' = Append(lines, l) /\ lines' \in Seq(Line) /\ Len(lines') = Len(lines) + 1
      /\ Range(lines') = Range(lines) \cup {l}
  <2>1. lines \in Seq(Line) /\ lines' = Append(lines, l)
    BY <1>0 DEF LogTypeOK, append
  <2>2. lines' \in Seq(Line) /\ Len(lines') = Len(lines) + 1
    BY <1>2, <2>1, AppendProperties, SMTT(30)
  <2>3. /\ DOMAIN lines' = DOMAIN lines \cup {Len(lines) + 1}
        /\ \A i \in DOMAIN lines : lines'[i] = lines[i]
        /\ lines'[Len(lines) + 1] = l
    BY <1>2, <2>1, <2>2, AppendProperties, LenProperties, SMTT(30)
  <2> QED
    BY <2>1, <2>2, <2>3, SMTT(15) DEF Range
<1> HIDE DEF l
<1>4. UNCHANGED <<running_, logAt, newBuffer1, newBuffer2, buffersToWrite, spent,
                  file, thrown, failed>>
  BY DEF append, back
<1>5. file \in Seq(Line) /\ currentBuffer_ \in Buffer /\ currentBuffer_.cur_ \in Nat
      /\ currentBuffer_.data_ \in Seq(Line)
  BY <1>0 DEF LogTypeOK, Buffer
<1>s. ASSUME NEW b \in Buffer, avail(b) > l[2]
      PROVE  /\ Stored(b, l) \in Buffer /\ Stored(b, l).data_ = Append(b.data_, l)
  <2>1. b.data_ \in Seq(Line) /\ b.cur_ + l[2] \in Nat
    BY <1>2, SMTT(15) DEF Buffer, Line
  <2>2. Append(b.data_, l) \in Seq(Line)
    BY <1>2, <2>1, AppendProperties
  <2> QED
    BY <1>s, <2>1, <2>2 DEF Stored, Buffer
<1>6. CASE avail(currentBuffer_) >= n
  <2>1. /\ currentBuffer_' = Stored(currentBuffer_, l) /\ UNCHANGED <<nextBuffer_, buffers_>>
        /\ exact' = IF avail(currentBuffer_) = n THEN exact \cup {l} ELSE exact
    BY <1>6 DEF append, l
  <2>2. Waiting' = Append(P, currentBuffer_')
    BY <1>4, <2>1 DEF Waiting
  <2>3. CASE avail(currentBuffer_) > n
    <3>1. currentBuffer_' \in Buffer /\ currentBuffer_'.data_ = Append(currentBuffer_.data_, l)
      BY <1>s, <1>5, <2>1, <2>3 DEF l
    <3>2. /\ Numbered(Len(lines) + 1, file, Waiting')
          /\ Kept(file, Waiting') = Kept(file, Waiting) \cup {l}
      <4>1. Numbered(Len(lines), file, Append(P, currentBuffer_))
        BY <1>0, <1>1
      <4>2. /\ Numbered(Len(lines) + 1, file, Append(P, currentBuffer_'))
            /\ Kept(file, Append(P, currentBuffer_'))
                 = Kept(file, Append(P, currentBuffer_)) \cup {l}
        <5>1. OneLineMore(Len(lines), file, P, currentBuffer_, l, currentBuffer_')
          BY <1>1, <1>2, <1>5, <3>1, <4>1 DEF OneLineMore
        <5> QED
          BY <5>1, NumberedAfterLine, SMTT(15)
      <4> QED
        BY <1>1, <2>2, <4>2
    <3>3. LogTypeOK' /\ BuffersReturn'
      BY <1>0, <1>3, <1>4, <2>1, <3>1 DEF LogTypeOK, BuffersReturn
    <3>4. exact \subseteq exact'
      BY <2>1
    <3> QED
      BY <1>3, <1>4, <3>2, <3>3, <3>4 DEF LogInv
  <2>4. CASE ~(avail(currentBuffer_) > n)
    <3>1. currentBuffer_' = currentBuffer_ /\ avail(currentBuffer_) = n
      <4>1. avail(currentBuffer_) \in Int /\ n \in Int
        BY <1>2, <1>5 DEF avail
      <4> QED
        BY <1>6, <2>1, <2>4, <4>1 DEF Stored, l
    <3>2. Waiting' = Waiting /\ exact' = exact \cup {l}
      BY <1>1, <2>1, <2>2, <3>1
    <3>3. Numbered(Len(lines) + 1, file, Waiting')
      BY <1>0, <1>1, <1>5, <3>2, NumberedGrows
    <3>4. LogTypeOK' /\ BuffersReturn'
      BY <1>0, <1>3, <1>4, <2>1, <3>1 DEF LogTypeOK, BuffersReturn
    <3> QED
      BY <1>3, <1>4, <3>2, <3>3, <3>4 DEF LogInv
  <2> QED
    BY <2>3, <2>4
<1>7. CASE ~(avail(currentBuffer_) >= n)
  <2>1. /\ buffers_' = Append(buffers_, currentBuffer_) /\ nextBuffer_' = FALSE
        /\ currentBuffer_' = Stored(Empty, l)
        /\ exact' = IF n >= BufferSize THEN exact \cup {l} ELSE exact
    BY <1>7 DEF append, l
  <2>2. buffers_' \in Seq(Buffer) /\ buffers_' # <<>>
    BY <1>0, <1>5, <2>1, AppendProperties, SMTT(30) DEF LogTypeOK
  <2>3. buffersToWrite' \o buffers_' = Waiting
    <3>1. /\ buffers_ \in Seq(Buffer) /\ buffersToWrite \in Seq(Buffer)
          /\ <<currentBuffer_>> \in Seq(Buffer)
      BY <1>0, <1>5 DEF LogTypeOK
    <3>2. buffers_' = buffers_ \o <<currentBuffer_>>
      BY <1>5, <2>1, <3>1, AppendIsConcat, Zenon
    <3>3. Waiting = P \o <<currentBuffer_>>
      BY <1>1, <1>5, AppendIsConcat, Zenon
    <3>4. P \o <<currentBuffer_>> = buffersToWrite \o (buffers_ \o <<currentBuffer_>>)
      BY <3>1, BuffersConcat, Zenon
    <3> QED
      BY <1>4, <3>2, <3>3, <3>4, Zenon
  <2>4. Waiting' = Append(Waiting, currentBuffer_')
    BY <2>3 DEF Waiting
  <2>5. /\ Empty \in Buffer /\ Append(Waiting, Empty) \in Seq(Buffer)
        /\ Numbered(Len(lines), file, Append(Waiting, Empty))
        /\ Kept(file, Append(Waiting, Empty)) = Kept(file, Waiting)
    BY <1>0, <1>1, NumberedAfterEmpty
  <2>6. avail(Empty) = BufferSize
    BY <1>2 DEF avail, Empty
  <2>7. CASE BufferSize > n
    <3>1. currentBuffer_' \in Buffer /\ currentBuffer_'.data_ = Append(Empty.data_, l)
      BY <1>s, <2>1, <2>5, <2>6, <2>7 DEF l
    <3>2. /\ Numbered(Len(lines) + 1, file, Waiting')
          /\ Kept(file, Waiting') = Kept(file, Append(Waiting, Empty)) \cup {l}
      <4>1. /\ Numbered(Len(lines) + 1, file, Append(Waiting, currentBuffer_'))
            /\ Kept(file, Append(Waiting, currentBuffer_'))
                 = Kept(file, Append(Waiting, Empty)) \cup {l}
        <5>1. OneLineMore(Len(lines), file, Waiting, Empty, l, currentBuffer_')
          BY <1>1, <1>2, <1>5, <2>5, <3>1 DEF OneLineMore
        <5> QED
          BY <5>1, NumberedAfterLine, SMTT(15)
      <4> QED
        BY <2>4, <4>1
    <3>3. LogTypeOK' /\ BuffersReturn'
      BY <1>0, <1>3, <1>4, <2>1, <2>2, <3>1 DEF LogTypeOK, BuffersReturn
    <3>4. exact \subseteq exact'
      BY <2>1
    <3> QED
      BY <1>3, <1>4, <2>5, <3>2, <3>3, <3>4 DEF LogInv
  <2>8. CASE ~(BufferSize > n)
    <3>1. currentBuffer_' = Empty /\ n >= BufferSize
      BY <1>2, <2>1, <2>6, <2>8 DEF Stored, l
    <3>2. exact' = exact \cup {l}
      BY <2>1, <3>1
    <3>3. Numbered(Len(lines) + 1, file, Waiting')
      BY <1>1, <1>5, <2>4, <2>5, <3>1, NumberedGrows
    <3>4. LogTypeOK' /\ BuffersReturn'
      BY <1>0, <1>3, <1>4, <2>1, <2>2, <2>5, <3>1 DEF LogTypeOK, BuffersReturn
    <3> QED
      BY <1>3, <1>4, <2>4, <2>5, <3>1, <3>2, <3>3, <3>4, ZenonT(20) DEF LogInv
  <2> QED
    BY <2>7, <2>8
<1> QED
  BY <1>6, <1>7

\* Under the mutex everything that waits changes hands, in its order, and an empty buffer is left;
\* nextBuffer_ is taken only when a full buffer gives one more to write (AsyncLogging.cc:62).
LEMMA SwapKeeps ==
    ASSUME LogInv, Swap
    PROVE  LogInv'
<1>0. LogTypeOK /\ BuffersReturn /\ Numbered(Len(lines), file, Waiting)
      /\ Range(lines) \subseteq Kept(file, Waiting) \cup thrown \cup exact
  BY DEF LogInv
<1>1. /\ buffersToWrite = <<>> /\ buffers_ \in Seq(Buffer) /\ currentBuffer_ \in Buffer
      /\ Waiting \in Seq(Buffer)
  BY <1>0, WaitingType DEF BuffersReturn, Swap, LogTypeOK
<1>2. Waiting = Append(buffers_, currentBuffer_)
  BY <1>1, ConcatEmptySeq DEF Waiting
<1>3. Waiting' = Append(Waiting, Empty)
  BY <1>1, <1>2, ConcatEmptySeq DEF Waiting, Swap
<1>4. /\ Empty \in Buffer /\ Numbered(Len(lines), file, Waiting')
      /\ Kept(file, Waiting') = Kept(file, Waiting)
  BY <1>0, <1>1, <1>3, NumberedAfterEmpty
<1>5. LogTypeOK'
  BY <1>0, <1>1, <1>2, <1>4, EmptySeq DEF LogTypeOK, Swap
<1>6. BuffersReturn'
  <2>1. Len(buffersToWrite') = Len(buffers_) + 1 /\ Len(buffers_) \in Nat /\ spent = 0
    BY <1>0, <1>1, AppendProperties, LenProperties DEF Swap, BuffersReturn
  <2>2. ~nextBuffer_ => Len(buffers_) >= 1
    BY <1>0, <1>1, EmptySeq DEF BuffersReturn
  <2>3. spent' + Len(buffersToWrite') >= (IF newBuffer2' THEN 1 ELSE 2)
    BY <2>1, <2>2 DEF Swap
  <2> QED
    BY <1>0, <2>1, <2>3 DEF BuffersReturn, Swap
<1> QED
  BY <1>0, <1>4, <1>5, <1>6 DEF LogInv, Swap

\* Above the limit all but two buffers go: the rest keep their order (pick says which buffer of the
\* old sequence each one was), and the lines that go are in thrown (AsyncLogging.cc:75).
LEMMA DiscardKeeps ==
    ASSUME LogInv, Discard
    PROVE  LogInv'
<1>0. LogTypeOK /\ BuffersReturn /\ Numbered(Len(lines), file, Waiting)
      /\ Range(lines) \subseteq Kept(file, Waiting) \cup thrown \cup exact
  BY DEF LogInv
<1>1. CASE ~(Len(buffersToWrite) > MaxWaiting)
  <2>1. UNCHANGED <<buffersToWrite, thrown>>
    BY <1>1 DEF Discard
  <2>2. Waiting' = Waiting
    BY <2>1 DEF Waiting, Discard, front
  <2>3. LogTypeOK' /\ BuffersReturn'
    BY <1>0, <2>1 DEF LogTypeOK, BuffersReturn, Discard, front
  <2> QED
    BY <1>0, <2>1, <2>2, <2>3 DEF LogInv, Discard, front
<1>2. CASE Len(buffersToWrite) > MaxWaiting
  <2> DEFINE B == buffersToWrite
             V == SubSeq(B, 1, 2)
             P == B \o buffers_
             Q == V \o buffers_
             k == Len(B) - 2
  <2>1. /\ B \in Seq(Buffer) /\ buffers_ \in Seq(Buffer) /\ currentBuffer_ \in Buffer
        /\ Len(B) \in Nat /\ Len(B) >= 2 /\ Len(buffers_) \in Nat
    BY <1>0, <1>2, LoggingAssumption, LenProperties, SMTT(15) DEF LogTypeOK
  <2>2. V \in Seq(Buffer) /\ Len(V) = 2 /\ V[1] = B[1] /\ V[2] = B[2]
    <3>1. \A i \in 1..2 : B[i] \in Buffer
      BY <2>1, ElementOfSeq
    <3> QED
      BY <3>1, SubSeqProperties, SMTT(15)
  <2>3. /\ buffersToWrite' = V
        /\ thrown' = thrown \cup UNION {Range(B[i].data_) : i \in 3..Len(B)}
    BY <1>2 DEF Discard
  <2>4. UNCHANGED <<front, running_, newBuffer1, newBuffer2, spent, file, failed>>
    BY DEF Discard
  <2>5. Waiting = Append(P, currentBuffer_) /\ Waiting' = Append(Q, currentBuffer_)
    BY <2>3, <2>4 DEF Waiting, front
  <2>6. /\ P \in Seq(Buffer) /\ Len(P) = Len(B) + Len(buffers_)
        /\ \A i \in 1..Len(P) : P[i] = IF i <= Len(B) THEN B[i] ELSE buffers_[i - Len(B)]
    BY <2>1, ConcatProperties, SMTT(15)
  <2>7. /\ Q \in Seq(Buffer) /\ Len(Q) = 2 + Len(buffers_)
        /\ \A i \in 1..Len(Q) : Q[i] = IF i <= 2 THEN B[i] ELSE buffers_[i - 2]
    <3>1. /\ Q \in Seq(Buffer) /\ Len(Q) = 2 + Len(buffers_)
          /\ \A i \in 1..Len(Q) : Q[i] = IF i <= 2 THEN V[i] ELSE buffers_[i - 2]
      BY <2>1, <2>2, ConcatProperties, SMTT(15)
    <3> QED
      BY <2>2, <3>1, SMTT(15)
  <2>8. /\ Waiting \in Seq(Buffer) /\ DOMAIN Waiting = 1..Len(P) + 1
        /\ \A i \in 1..Len(P) : Waiting[i] = P[i]
        /\ Waiting[Len(P) + 1] = currentBuffer_
    BY <2>1, <2>5, <2>6, AppendProperties, LenProperties, SMTT(30)
  <2>9. /\ Waiting' \in Seq(Buffer) /\ DOMAIN Waiting' = 1..Len(Q) + 1
        /\ \A i \in 1..Len(Q) : Waiting'[i] = Q[i]
        /\ Waiting'[Len(Q) + 1] = currentBuffer_
    BY <2>1, <2>5, <2>7, AppendProperties, LenProperties, SMTT(15)
  <2>n. /\ Len(B) \in Nat /\ Len(B) >= 2 /\ Len(buffers_) \in Nat
        /\ Len(P) = Len(B) + Len(buffers_) /\ Len(Q) = 2 + Len(buffers_)
        /\ DOMAIN Waiting = 1..Len(P) + 1 /\ DOMAIN Waiting' = 1..Len(Q) + 1
    BY <2>1, <2>6, <2>7, <2>8, <2>9
  <2> DEFINE pick == [i \in DOMAIN Waiting' |-> IF i <= 2 THEN i ELSE i + k]
  <2> HIDE DEF B, V, P, Q
  <2>10. /\ pick \in [DOMAIN Waiting' -> DOMAIN Waiting]
         /\ \A i \in DOMAIN Waiting' : Waiting'[i] = Waiting[pick[i]]
         /\ \A i, j \in DOMAIN Waiting' : i < j => pick[i] < pick[j]
    <3>1. \A i \in DOMAIN Waiting' : /\ pick[i] \in DOMAIN Waiting
                                     /\ Waiting'[i] = Waiting[pick[i]]
      <4> SUFFICES ASSUME NEW i \in DOMAIN Waiting'
                   PROVE  pick[i] \in DOMAIN Waiting /\ Waiting'[i] = Waiting[pick[i]]
        OBVIOUS
      <4>1. CASE i <= 2
        <5>1. i \in 1..Len(Q) /\ i \in 1..Len(P) /\ i <= Len(B) /\ pick[i] = i
          BY <2>n, <4>1
        <5>2. Waiting'[i] = B[i] /\ Waiting[i] = B[i]
          BY <2>6, <2>7, <2>8, <2>9, <4>1, <5>1, SMTT(30)
        <5> QED
          BY <2>n, <5>1, <5>2
      <4>2. CASE i > 2 /\ i <= Len(Q)
        <5>1. pick[i] = i + k /\ i + k \in 1..Len(P) /\ i + k > Len(B) /\ i + k - Len(B) = i - 2
          BY <2>n, <4>2
        <5>2. Waiting'[i] = buffers_[i - 2]
          BY <2>7, <2>9, <4>2
        <5>3. Waiting[i + k] = buffers_[i - 2]
          <6>1. PICK x \in 1..Len(P) : x = i + k /\ ~(x <= Len(B)) /\ x - Len(B) = i - 2
            BY <2>n, <5>1, SMTT(15)
          <6>2. P[x] = buffers_[x - Len(B)]
            <7>1. \A y \in 1..Len(P) : ~(y <= Len(B)) => P[y] = buffers_[y - Len(B)]
              BY <2>6, SMTT(15)
            <7> QED
              BY <6>1, <7>1, Zenon
          <6>3. Waiting[x] = P[x]
            BY <2>8, <6>1, Zenon
          <6>4. Waiting[x] = buffers_[i - 2]
            BY <6>1, <6>2, <6>3, Zenon
          <6> QED
            BY <6>1, <6>4, Zenon
        <5> QED
          BY <2>n, <5>1, <5>2, <5>3
      <4>3. CASE i > Len(Q)
        <5>1. i = Len(Q) + 1 /\ i + k = Len(P) + 1 /\ i > 2 /\ Len(P) + 1 \in DOMAIN Waiting
          BY <2>n, <4>3
        <5>2. pick[i] = i + k
          BY <2>n, <5>1
        <5> QED
          BY <2>8, <2>9, <5>1, <5>2
      <4> QED
        BY <2>n, <4>1, <4>2, <4>3
    <3>2. \A i, j \in DOMAIN Waiting' : i < j => pick[i] < pick[j]
      BY <2>n
    <3> QED
      BY <3>1, <3>2
  <2>11. Numbered(Len(lines), file, Waiting')
    BY <1>0, <2>8, <2>9, <2>10, NumberedAfterTaking, Zenon
  <2>12. Kept(file, Waiting) \subseteq Kept(file, Waiting') \cup thrown'
    <3>1. ASSUME NEW i \in DOMAIN Waiting
          PROVE  \/ i \in 3..Len(B) /\ Waiting[i] = B[i]
                 \/ \E j \in DOMAIN Waiting' : Waiting[i] = Waiting'[j]
      <4>1. CASE i <= 2
        <5>1. i \in DOMAIN Waiting' /\ Waiting'[i] = Waiting[i]
          <6>1. i \in 1..Len(Q) /\ i \in 1..Len(P) /\ i <= Len(B)
            BY <2>n, <4>1
          <6> QED
            BY <2>n, <2>6, <2>7, <2>8, <2>9, <4>1, <6>1, SMTT(30)
        <5> QED
          BY <5>1
      <4>2. CASE i > 2 /\ i <= Len(B)
        <5>1. i \in 1..Len(P) /\ i \in 3..Len(B)
          BY <2>n, <4>2
        <5> QED
          BY <2>6, <2>8, <4>2, <5>1
      <4>3. CASE i > Len(B)
        <5>1. i - k \in DOMAIN Waiting' /\ pick[i - k] = i
          BY <2>n, <4>3
        <5> QED
          BY <2>10, <5>1
      <4> QED
        BY <2>n, <4>1, <4>2, <4>3
    <3> QED
      BY <2>3, <3>1 DEF Kept, B
  <2>13. LogTypeOK' /\ BuffersReturn'
    <3>1. LogTypeOK'
      BY <1>0, <2>2, <2>3, <2>4 DEF LogTypeOK, front
    <3>2. spent' + Len(buffersToWrite') >= (IF newBuffer2' THEN 1 ELSE 2)
      <4>1. spent' \in Nat /\ Len(buffersToWrite') = 2
        BY <1>0, <2>2, <2>3, <2>4 DEF LogTypeOK
      <4>2. spent' + 2 >= 1 /\ spent' + 2 >= 2
        <5>1. \A x \in Nat : x + 2 >= 1 /\ x + 2 >= 2
          OBVIOUS
        <5> QED
          BY <4>1, <5>1, Zenon
      <4>3. CASE newBuffer2'
        BY <4>1, <4>2, <4>3
      <4>4. CASE ~newBuffer2'
        BY <4>1, <4>2, <4>4
      <4> QED
        BY <4>3, <4>4
    <3> QED
      BY <1>0, <3>1, <3>2, <2>4 DEF BuffersReturn, front, Discard
  <2> QED
    BY <1>0, <2>3, <2>4, <2>11, <2>12, <2>13, ZenonT(20) DEF LogInv, front
<1> QED
  BY <1>1, <1>2

\* The first buffer moves to the end of the file (AsyncLogging.cc:86).
LEMMA WriteKeeps ==
    ASSUME LogInv, Write
    PROVE  LogInv'
<1>0. LogTypeOK /\ BuffersReturn /\ Numbered(Len(lines), file, Waiting)
      /\ Range(lines) \subseteq Kept(file, Waiting) \cup thrown \cup exact
  BY DEF LogInv
<1> DEFINE b == Head(buffersToWrite)
           T == Tail(buffersToWrite)
<1>1. /\ buffersToWrite \in Seq(Buffer) /\ b \in Buffer /\ T \in Seq(Buffer)
      /\ Len(T) = Len(buffersToWrite) - 1 /\ <<b>> \in Seq(Buffer)
      /\ Len(buffersToWrite) \in Nat
      /\ buffers_ \in Seq(Buffer) /\ <<currentBuffer_>> \in Seq(Buffer) /\ currentBuffer_ \in Buffer
  BY <1>0, HeadTailProperties, LenProperties, SMTT(15) DEF LogTypeOK, Write
<1>2. buffersToWrite = <<b>> \o T
  <2>1. \A s \in Seq(Buffer) : s # <<>> => s = <<Head(s)>> \o Tail(s)
    OBVIOUS
  <2> QED
    BY <1>1, <2>1 DEF Write
<1>3. /\ file' = file \o b.data_ /\ buffersToWrite' = T /\ spent' = spent + 1
      /\ UNCHANGED <<currentBuffer_, nextBuffer_, buffers_, lines, exact, running_, logAt,
                     newBuffer1, newBuffer2, thrown, failed>>
  BY DEF Write, front
<1> HIDE DEF b, T
<1>4. Waiting = <<b>> \o Waiting' /\ Waiting' \in Seq(Buffer)
  <2>1. T \o buffers_ \in Seq(Buffer) /\ buffersToWrite \o buffers_ \in Seq(Buffer)
    BY <1>1, ConcatProperties
  <2>2. Waiting' = (T \o buffers_) \o <<currentBuffer_>>
    BY <1>1, <1>3, <2>1, AppendIsConcat DEF Waiting
  <2>3. Waiting = (buffersToWrite \o buffers_) \o <<currentBuffer_>>
    BY <1>1, <2>1, AppendIsConcat DEF Waiting
  <2>4. buffersToWrite \o buffers_ = <<b>> \o (T \o buffers_)
    BY <1>1, <1>2, BuffersConcat, SMTT(15)
  <2>5. (<<b>> \o (T \o buffers_)) \o <<currentBuffer_>>
           = <<b>> \o ((T \o buffers_) \o <<currentBuffer_>>)
    BY <1>1, <2>1, BuffersConcat, SMTT(15)
  <2> QED
    BY <1>1, <2>1, <2>2, <2>3, <2>4, <2>5, ConcatProperties, ZenonT(20)
<1>5. Numbered(Len(lines), file', Waiting') /\ Kept(file', Waiting') = Kept(file, Waiting)
  <2>1. file \in Seq(Line)
    BY <1>0 DEF LogTypeOK
  <2> QED
    BY <1>0, <1>1, <1>3, <1>4, <2>1, NumberedAfterWrite
<1>6. LogTypeOK'
  <2>1. b.data_ \in Seq(Line) /\ file \in Seq(Line)
    BY <1>0, <1>1 DEF Buffer, LogTypeOK
  <2>2. file' \in Seq(Line)
    BY <1>3, <2>1, ConcatProperties
  <2> QED
    BY <1>0, <1>1, <1>3, <2>2 DEF LogTypeOK
<1>7. BuffersReturn'
  <2>1. spent' + Len(buffersToWrite') = spent + Len(buffersToWrite)
    <3>1. Len(buffersToWrite') = Len(buffersToWrite) - 1 /\ spent \in Nat /\ spent' = spent + 1
      BY <1>0, <1>1, <1>3 DEF LogTypeOK
    <3> QED
      BY <1>1, <3>1, SMT
  <2> QED
    BY <1>0, <1>3, <2>1 DEF BuffersReturn, Write
<1> QED
  BY <1>0, <1>3, <1>5, <1>6, <1>7, ZenonT(20) DEF LogInv

\* The steps that move no line.
LEMMA OthersKeep ==
    ASSUME LogInv, stopLogging \/ LogWhile \/ Reuse \/ UNCHANGED logVars
    PROVE  LogInv'
<1>1. UNCHANGED <<front, buffersToWrite, file, thrown>>
  BY DEF stopLogging, LogWhile, Reuse, logVars, front, back
<1>2. Waiting' = Waiting
  BY <1>1 DEF Waiting, front
<1>3. LogTypeOK'
  <2>1. spent' \in Nat /\ running_' \in BOOLEAN /\ failed' \in BOOLEAN
        /\ newBuffer1' \in BOOLEAN /\ newBuffer2' \in BOOLEAN
    <3> USE DEF LogInv, LogTypeOK
    <3>1. CASE stopLogging
      BY <3>1 DEF stopLogging, back
    <3>2. CASE LogWhile
      BY <3>2 DEF LogWhile
    <3>3. CASE Reuse
      BY <3>3 DEF Reuse
    <3>4. CASE UNCHANGED logVars
      BY <3>4 DEF logVars
    <3> QED
      BY <3>1, <3>2, <3>3, <3>4
  <2> QED
    BY <1>1, <2>1 DEF LogInv, LogTypeOK, front
<1>4. BuffersReturn'
  <2>1. CASE stopLogging \/ UNCHANGED logVars
    BY <2>1 DEF LogInv, BuffersReturn, front, back, stopLogging, logVars
  <2>2. CASE LogWhile
    BY <2>2 DEF LogInv, BuffersReturn, front, LogWhile
  <2>3. CASE Reuse
    <3>1. Len(buffersToWrite) = 0 /\ spent \in Nat
      BY <2>3, EmptySeq DEF Reuse, LogInv, LogTypeOK
    <3>2. ~(spent < (IF newBuffer2 THEN 1 ELSE 2))
      BY <2>3, <3>1 DEF LogInv, BuffersReturn, Reuse
    <3> QED
      BY <2>3, <3>2 DEF LogInv, BuffersReturn, front, Reuse
  <2> QED
    BY <2>1, <2>2, <2>3
<1> QED
  BY <1>1, <1>2, <1>3, <1>4 DEF LogInv, front

\* AsyncLogging (append, threadFunc): no line is lost but in the two known ways, and lines are in
\* the file once and in order, for any number of threads, lines and buffers and any size of them.
THEOREM LogLosesNoLine == LogSpec => []NoLineLost
<1>1. LogInit => LogInv
  BY LogInitInv
<1>2. LogInv /\ [LogNext]_logVars => LogInv'
  BY AppendKeeps, SwapKeeps, DiscardKeeps, WriteKeeps, OthersKeep DEF LogNext
<1>3. LogInv => NoLineLost
  BY DEF LogInv, Numbered, InOrder, Kept, BuffersReturn, NoLineLost
<1> QED
  BY <1>1, <1>2, <1>3, PTL DEF LogSpec
=============================================================================

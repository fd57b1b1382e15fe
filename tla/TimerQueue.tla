----------------------------- MODULE TimerQueue -----------------------------
(***************************************************************************)
(* The timers of an EventLoop (src/JKYi/reactor/timerQueue.cc) on one      *)
(* timerfd.  The loop thread adds and cancels at any time, also in the     *)
(* callback of a timer; another thread does so through the loop's functors.*)
(* A Timer is an object at an address; addresses are used again, and a     *)
(* TimerId is an address and a sequence number.  addTimer reads the number *)
(* from the object after the loop has been given it: on another thread,    *)
(* the loop may have run and deleted the timer by then, and the TimerId    *)
(* has the number of another timer at the address, or any.                 *)
(***************************************************************************)
EXTENDS Naturals, Sequences, FiniteSets, FiniteSetsExt

CONSTANTS Addrs,       \* addresses of Timer objects (positive numbers: sets are ordered by them)
          Delays,      \* from now to the expiration of a new timer
          Intervals,   \* 0: the timer does not repeat
          MaxCreated,  \* bound: timers that are made
          MaxFunctors, \* bound: functors that wait
          MaxNow       \* bound: the clock

VARIABLES
  now,                   \* Timestamp::now()
  heap,                  \* the Timer objects, NoTimer where there is none
  timers_,               \* set of <<expiration, address>>
  activeTimers_,         \* set of <<address, sequence>>
  cancelingTimers_,
  callingExpiredTimers_,
  expired, next,         \* handleRead: the expired timers, and the one to run next
  read_at,               \* handleRead: now, 0 when it is out of scope
  timerfd,               \* when the timerfd becomes readable, Never if it is not armed
  issued,                \* <<address, sequence>> of the timers made; s_numCreated_ is their number
  requests,              \* queued in the loop by another thread
  unread,                \* the timers of calls of addTimer on another thread that are to return
  handles,               \* <<timer, TimerId>> of the calls of addTimer that returned
  repeating, cancelled   \* repeating timers that were in the queue; those cancelled since
queueVars == <<now, heap, timers_, activeTimers_, cancelingTimers_, callingExpiredTimers_, expired,
          next, read_at, timerfd, issued, requests, unread, handles, repeating, cancelled>>
callVars == <<unread, handles>>
batchVars == <<cancelingTimers_, callingExpiredTimers_, expired, next, read_at>>

Never == MaxNow + 100
NoTimer == [sequence |-> 0, expiration |-> 0, interval |-> 0]
Id(a) == <<a, heap[a].sequence>>
Earlier(e, f) == e[1] < f[1] \/ (e[1] = f[1] /\ e[2] < f[2])
IsFirst(e, entries) == e \in entries /\ \A f \in entries : ~Earlier(f, e)

QueueInit ==
    /\ now = 0 /\ heap = [a \in Addrs |-> NoTimer] /\ timers_ = {} /\ activeTimers_ = {}
    /\ cancelingTimers_ = {} /\ callingExpiredTimers_ = FALSE /\ expired = <<>> /\ next = 1
    /\ read_at = 0 /\ timerfd = Never /\ issued = {} /\ requests = <<>>
    /\ unread = {} /\ handles = {} /\ repeating = {} /\ cancelled = {}

\* What is past fires after 100 microseconds, which is at once on this clock.
resetTimerfd(expiration) == timerfd' = Max({expiration, now})

Tick ==
    /\ now < MaxNow /\ now' = now + 1
    /\ UNCHANGED <<heap, timers_, activeTimers_, batchVars, timerfd, issued, requests, callVars,
                   repeating, cancelled>>
-----------------------------------------------------------------------------
(***************************************************************************)
(* Adding and cancelling                                                   *)
(***************************************************************************)
\* new Timer: the address is any that is free.
NewTimer(a, delay, interval) ==
    /\ heap[a] = NoTimer /\ Cardinality(issued) < MaxCreated
    /\ issued' = issued \cup {<<a, Cardinality(issued) + 1>>}
    /\ heap' = [heap EXCEPT ![a] = [sequence |-> Cardinality(issued'), expiration |-> now + delay,
                                     interval |-> interval]]

\* Mutant: the timerfd is set for the first timer only.
addTimerInLoopFirst(a, t) ==
    /\ IF timers_ = {} THEN resetTimerfd(t.expiration) ELSE UNCHANGED timerfd
    /\ timers_' = timers_ \cup {<<t.expiration, a>>}
    /\ activeTimers_' = activeTimers_ \cup {<<a, t.sequence>>}
    /\ repeating' = IF t.interval > 0 THEN repeating \cup {<<a, t.sequence>>} ELSE repeating
\* insert, and the timerfd is set if the timer is the earliest.
addTimerInLoop(a, t) ==
    /\ IF \A e \in timers_ : t.expiration < e[1] THEN resetTimerfd(t.expiration)
                                                  ELSE UNCHANGED timerfd
    /\ timers_' = timers_ \cup {<<t.expiration, a>>}
    /\ activeTimers_' = activeTimers_ \cup {<<a, t.sequence>>}
    /\ repeating' = IF t.interval > 0 THEN repeating \cup {<<a, t.sequence>>} ELSE repeating

\* A timer that is in the queue is deleted; one whose callback runs is only remembered.
cancelInLoop(id) ==
    /\ cancelled' = cancelled \cup ({id} \cap repeating)
    /\ IF id \in activeTimers_
       THEN /\ timers_' = timers_ \ {<<heap[id[1]].expiration, id[1]>>}
            /\ heap' = [heap EXCEPT ![id[1]] = NoTimer]
            /\ activeTimers_' = activeTimers_ \ {id}
            /\ UNCHANGED cancelingTimers_
       ELSE /\ cancelingTimers_' = IF callingExpiredTimers_ THEN cancelingTimers_ \cup {id}
                                                           ELSE cancelingTimers_
            /\ UNCHANGED <<timers_, heap, activeTimers_>>

addTimer(a, delay, interval) ==
    /\ NewTimer(a, delay, interval)
    /\ addTimerInLoop(a, heap'[a])
    /\ handles' = handles \cup {<<Id(a)', Id(a)'>>}
    /\ UNCHANGED <<now, batchVars, requests, unread, cancelled>>
\* On another thread: the timer is the loop's as soon as the functor is queued.
addTimerElsewhere(a, delay, interval) ==
    /\ Len(requests) < MaxFunctors
    /\ NewTimer(a, delay, interval)
    /\ requests' = Append(requests, <<"add", a, Cardinality(issued')>>)
    /\ unread' = unread \cup {Id(a)'}
    /\ UNCHANGED <<now, timers_, activeTimers_, batchVars, timerfd, handles, repeating, cancelled>>
\* TimerId(timer, timer->getSequence()): what is at the address now, anything if nothing is.
addTimerReturns(t) ==
    /\ t \in unread /\ unread' = unread \ {t}
    /\ \E n \in IF heap[t[1]] = NoTimer THEN 0..MaxCreated ELSE {heap[t[1]].sequence} :
          handles' = handles \cup {<<t, <<t[1], n>>>>}
    /\ UNCHANGED <<now, heap, timers_, activeTimers_, batchVars, timerfd, issued, requests,
                   repeating, cancelled>>

cancel(id) ==
    /\ cancelInLoop(id)
    /\ UNCHANGED <<now, callingExpiredTimers_, expired, next, read_at, timerfd, issued,
                   requests, callVars, repeating>>
cancelElsewhere(id) ==
    /\ Len(requests) < MaxFunctors
    /\ requests' = Append(requests, <<"cancel", id[1], id[2]>>)
    /\ UNCHANGED <<now, heap, timers_, activeTimers_, batchVars, timerfd, issued, callVars,
                   repeating, cancelled>>

\* The loop runs its functors between events.
RunRequest ==
    /\ ~callingExpiredTimers_ /\ requests # <<>> /\ requests' = Tail(requests)
    /\ LET f == Head(requests) IN
       \/ /\ f[1] = "add" /\ addTimerInLoop(f[2], heap[f[2]])
          /\ UNCHANGED <<heap, cancelingTimers_, cancelled>>
       \/ /\ f[1] = "cancel" /\ cancelInLoop(<<f[2], f[3]>>)
          /\ UNCHANGED <<timerfd, repeating>>
    /\ UNCHANGED <<now, callingExpiredTimers_, expired, next, read_at, issued, callVars>>
-----------------------------------------------------------------------------
(***************************************************************************)
(* The timerfd is readable                                                 *)
(***************************************************************************)
\* getExpired takes the entries up to now, in their order, out of both sets.
getExpired(entries) ==
    /\ timers_' = timers_ \ entries
    /\ \E s \in [1..Cardinality(entries) -> entries] :
          /\ \A i, j \in DOMAIN s : i < j => Earlier(s[i], s[j])
          /\ entries \subseteq Range(s)
          /\ expired' = [i \in DOMAIN s |-> s[i][2]]
    /\ activeTimers_' = activeTimers_ \ {Id(e[2]) : e \in entries}

handleRead ==
    /\ ~callingExpiredTimers_ /\ timerfd <= now
    /\ timerfd' = Never /\ read_at' = now
    /\ getExpired({e \in timers_ : e[1] <= now})
    /\ callingExpiredTimers_' = TRUE /\ cancelingTimers_' = {} /\ next' = 1
    /\ UNCHANGED <<now, heap, issued, requests, callVars, repeating, cancelled>>

\* run(): what the callback does to the queue are the steps addTimer and cancel.
RunTimer ==
    /\ callingExpiredTimers_ /\ next <= Len(expired) /\ next' = next + 1
    /\ UNCHANGED <<now, heap, timers_, activeTimers_, cancelingTimers_, callingExpiredTimers_,
                   expired, read_at, timerfd, issued, requests, callVars, repeating, cancelled>>

\* isRepeat() and not cancelled in a callback.
\* Mutant: a timer cancelled by a callback is inserted again.
RepeatsAnyway(a) == heap[a].interval > 0
Repeats(a) == heap[a].interval > 0 /\ Id(a) \notin cancelingTimers_
\* reset(): repeating timers are inserted again from now, the others deleted.
reset ==
    LET again == {a \in Range(expired) : Repeats(a)} IN
    /\ callingExpiredTimers_ /\ next > Len(expired)
    /\ callingExpiredTimers_' = FALSE /\ expired' = <<>> /\ next' = 1 /\ read_at' = 0
    /\ heap' = [a \in Addrs |->
                  IF a \in again THEN [heap[a] EXCEPT !.expiration = read_at + heap[a].interval]
                  ELSE IF a \in Range(expired) THEN NoTimer ELSE heap[a]]
    /\ timers_' = timers_ \cup {<<heap'[a].expiration, a>> : a \in again}
    /\ activeTimers_' = activeTimers_ \cup {Id(a) : a \in again}
    /\ \/ timers_' = {} /\ UNCHANGED timerfd
       \/ \E e \in timers_' : IsFirst(e, timers_') /\ resetTimerfd(e[1])
    /\ UNCHANGED <<now, cancelingTimers_, issued, requests, callVars, repeating, cancelled>>

QueueNext ==
    \/ Tick \/ RunRequest \/ handleRead \/ RunTimer \/ reset
    \/ \E a \in Addrs, delay \in Delays, interval \in Intervals :
          addTimer(a, delay, interval) \/ addTimerElsewhere(a, delay, interval)
    \/ \E t \in unread : addTimerReturns(t)
    \/ \E h \in handles : cancel(h[2]) \/ cancelElsewhere(h[2])
QueueSpec == QueueInit /\ [][QueueNext]_queueVars
-----------------------------------------------------------------------------
\* While no callback runs, the timerfd fires no later than any timer that waits
\* (timerQueue.cc:109, 185), whatever was repeating or cancelled by callbacks and by other threads.
TimerfdArmed ==
    ~callingExpiredTimers_ => \A e \in timers_ : timerfd <= Max({e[1], now})

\* Both sets hold the same timers, at the times the timers have: the assertions of insert,
\* getExpired and cancelInLoop (timerQueue.cc:116, 122, 166, 215).
SetsAgree ==
    /\ activeTimers_ = {Id(e[2]) : e \in timers_}
    /\ \A e \in timers_ : heap[e[2]].expiration = e[1] /\ heap[e[2]] # NoTimer

\* A repeating timer is in the queue, or expired, just until it is cancelled by a TimerId with its
\* address and number.
RepeatExact ==
    \A id \in repeating :
       IF id \in cancelled THEN id \notin activeTimers_
       ELSE id \in activeTimers_ \/ (Id(id[1]) = id /\ id[1] \in Range(expired))

\* The TimerId that addTimer returned names the caller's timer, unless that was deleted.
IdsAreOwn == \A h \in handles : h[1] = h[2] \/ Id(h[1][1]) # h[1]

\* The sets agree, and a repeating timer stays in them until it is cancelled by its address and
\* number, also by a callback of its own or of another timer, and never comes back then
\* (timerQueue.cc:177).  As long as a timer exists, its owner's TimerId is its own, although
\* addresses are used again (timerId.h:12) and the number is read late (timerQueue.cc:98).  The
\* TimerId of a timer that was deleted before may be that of another, which it then cancels.
RepeatsUntilCancelled == SetsAgree /\ RepeatExact /\ IdsAreOwn
=============================================================================

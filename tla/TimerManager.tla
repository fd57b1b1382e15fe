---------------------------- MODULE TimerManager ----------------------------
(***************************************************************************)
(* Timer and TimerManager (timer.{h,cc}), and the idle threads of          *)
(* IOManager that sleep until the next timer (iomanager.cc).               *)
(*                                                                         *)
(* m_mutex is a read-write lock and every operation takes it once, so what *)
(* an operation does under it is one action.  What it does outside is a    *)
(* step of its own: the constructor of a timer, the notification that      *)
(* follows an insertion, and the reading of the clock in listExpiredCb.    *)
(*                                                                         *)
(* m_timers is a std::set of pointers ordered by m_next: an entry          *)
(* remembers the m_next it was inserted with, and find() meets it only     *)
(* under that key.                                                         *)
(***************************************************************************)
EXTENDS Integers, FiniteSets

CONSTANTS
    Threads,      \* the threads of the IOManager
    Timers,       \* Timer objects
    Periods,      \* values of `ms'
    Recurring,    \* the timers that are made with `recurring'
    MaxNotifiers, \* bound: callers between the unlock of addTimer and its notification
    MaxTimeout,   \* MAX_TIMEOUT of IOManager::idle
    IntMod,       \* 2^32: the conversion to int of idle() keeps the low bits
    Hour,         \* 60*60*1000 of deleteClockRollover
    MaxLag,       \* bound: time between listExpiredCb reading the clock and using it
    MaxClock,     \* bound: how long the clock runs
    SetBacks      \* by how much the clock is set back, in one step

ASSUME TimerAssumption ==
    /\ Threads # {}
    /\ Periods \subseteq Nat /\ Recurring \subseteq Timers /\ MaxNotifiers \in Nat
    /\ MaxTimeout \in Nat /\ MaxLag \in Nat /\ MaxClock \in Nat /\ SetBacks \subseteq Nat \ {0}
    /\ IntMod \in Nat /\ IntMod % 2 = 0 /\ 2 * MaxTimeout < IntMod
    /\ Hour \in Nat /\ MaxLag < Hour

VARIABLES
    clock,            \* GetCurrentMS()
    m_timers,         \* the set of [timer, key]
    m_tickled,
    m_previouseTime,
    m_cb,             \* Timer::m_cb # nullptr, of the timers in made
    m_ms,
    m_next,
    constructed,      \* the timers that addTimer has constructed and not yet inserted
    made,             \* the timers that addTimer has inserted
    notifiers,        \* threads between the unlock and onTimerInsertedAtFront
    pipe,             \* an edge on the pipe that no epoll_wait has returned
    pc,               \* where each thread is in run() or idle()
    left,             \* how long epoll_wait still sleeps; Forever for a negative timeout
    now_ms,           \* listExpiredCb: the local of that name, 0 when it is out of scope
    over,             \* timers cancelled, and one-shot timers handed out
    setBack           \* how far the clock has been set back

Forever == -1

managerVars == <<m_timers, m_tickled, m_previouseTime>>
timerVars   == <<m_cb, m_ms, m_next, constructed, made>>
threadVars  == <<pc, left, now_ms>>
vars == <<clock, managerVars, timerVars, notifiers, pipe, threadVars, over, setBack>>

IdlePcs == {"top", "epoll", "woken", "listing", "write"}
Pcs     == IdlePcs \cup {"run"}

TypeOK ==
    /\ clock \in Int /\ m_previouseTime \in Int
    /\ m_timers \subseteq [timer : Timers, key : Int]
    /\ m_tickled \in BOOLEAN /\ pipe \in BOOLEAN
    /\ m_cb \in [Timers -> BOOLEAN]
    /\ m_ms \in [Timers -> Nat] /\ m_next \in [Timers -> Int]
    /\ constructed \subseteq Timers /\ made \subseteq Timers /\ over \subseteq made
    /\ notifiers \in Nat
    /\ pc \in [Threads -> Pcs]
    /\ left \in [Threads -> Nat \cup {Forever}]
    /\ now_ms \in [Threads -> Int]
    /\ setBack \in Nat

Init ==
    /\ clock = 0 /\ m_previouseTime = 0
    /\ m_timers = {} /\ m_tickled = FALSE
    /\ m_cb = [x \in Timers |-> FALSE]
    /\ m_ms = [x \in Timers |-> 0] /\ m_next = [x \in Timers |-> 0]
    /\ constructed = {} /\ made = {} /\ over = {}
    /\ notifiers = 0 /\ pipe = FALSE
    /\ pc = [t \in Threads |-> "run"]
    /\ left = [t \in Threads |-> 0]
    /\ now_ms = [t \in Threads |-> 0]
    /\ setBack = 0

-----------------------------------------------------------------------------
(***************************************************************************)
(* Operations on timers, each under the write lock                         *)
(***************************************************************************)
InSet(x)      == [timer |-> x, key |-> m_next[x]]
Others(x)     == m_timers \ {InSet(x)}
find(x)       == InSet(x) \in m_timers

\* Is an entry with this key the first of the set?  (Of two timers with the same m_next
\* the one at the lower address is.)
AtFront(S, k) == \A e \in S : k <= e.key

\* The inner addTimer: insert, and owe the notification if the timer is now the first
\* and none is owed already.
addTimer(x, S, k) ==
    /\ notifiers < MaxNotifiers
    /\ m_timers' = S \cup {[timer |-> x, key |-> k]}
    /\ \E at_front \in BOOLEAN :
          /\ at_front => AtFront(S, k) /\ ~m_tickled
          /\ ~at_front => m_tickled \/ \E e \in S : e.key <= k
          /\ m_tickled' = (m_tickled \/ at_front)
          /\ notifiers' = IF at_front THEN notifiers + 1 ELSE notifiers

\* addTimer and addConditionTimer: the constructor reads the clock ...
NewTimer(x, ms) ==
    /\ x \notin constructed \cup made /\ clock + ms <= MaxClock
    /\ constructed' = constructed \cup {x}
    /\ m_ms' = [m_ms EXCEPT ![x] = ms]
    /\ m_next' = [m_next EXCEPT ![x] = clock + ms]
    /\ UNCHANGED <<clock, managerVars, m_cb, made, notifiers, pipe, threadVars, over, setBack>>
\* ... and the timer is inserted when the caller has the lock, perhaps after it was due.
AddTimer(x) ==
    /\ x \in constructed /\ constructed' = constructed \ {x}
    /\ made' = made \cup {x}
    /\ m_cb' = [m_cb EXCEPT ![x] = TRUE]
    /\ addTimer(x, m_timers, m_next[x])
    /\ UNCHANGED <<clock, m_previouseTime, m_ms, m_next, pipe, threadVars, over, setBack>>

\* cancel() of a timer that has fired or was cancelled returns false and changes nothing.
cancel(x) ==
    /\ m_cb[x]
    /\ m_cb' = [m_cb EXCEPT ![x] = FALSE]
    /\ m_timers' = Others(x)
    /\ over' = over \cup {x}
    /\ UNCHANGED <<clock, m_tickled, m_previouseTime, m_ms, m_next, constructed, made, notifiers,
                   pipe, threadVars, setBack>>

\* refresh() puts the timer back without looking whether it is now the first.
refresh(x) ==
    /\ m_cb[x] /\ find(x) /\ clock + m_ms[x] <= MaxClock
    /\ m_next' = [m_next EXCEPT ![x] = clock + m_ms[x]]
    /\ m_timers' = Others(x) \cup {[timer |-> x, key |-> clock + m_ms[x]]}
    /\ UNCHANGED <<clock, m_tickled, m_previouseTime, m_cb, m_ms, constructed, made, notifiers, pipe,
                   threadVars, over, setBack>>

\* Mutant: m_next is written while the timer is still in the set.
ResetInPlace(x, ms, from_now) ==
    /\ x \in made
    /\ ms # m_ms[x] \/ from_now
    /\ m_cb[x] /\ find(x)
    /\ LET next == (IF from_now THEN clock ELSE m_next[x] - m_ms[x]) + ms
       IN  /\ next <= MaxClock
           /\ m_ms' = [m_ms EXCEPT ![x] = ms]
           /\ m_next' = [m_next EXCEPT ![x] = next]
           /\ addTimer(x, m_timers, next)
    /\ UNCHANGED <<clock, m_previouseTime, m_cb, constructed, made, pipe, threadVars, over, setBack>>

\* reset() with the old ms and not from_now returns true before it takes the lock.
reset(x, ms, from_now) ==
    /\ x \in made
    /\ ms # m_ms[x] \/ from_now
    /\ m_cb[x] /\ find(x)
    /\ LET next == (IF from_now THEN clock ELSE m_next[x] - m_ms[x]) + ms
       IN  /\ next <= MaxClock
           /\ m_ms' = [m_ms EXCEPT ![x] = ms]
           /\ m_next' = [m_next EXCEPT ![x] = next]
           /\ addTimer(x, Others(x), next)
    /\ UNCHANGED <<clock, m_previouseTime, m_cb, constructed, made, pipe, threadVars, over, setBack>>

\* onTimerInsertedAtFront is IOManager::tickle, which needs an idle thread to write.
onTimerInsertedAtFront ==
    /\ notifiers > 0
    /\ notifiers' = notifiers - 1
    /\ pipe' = (pipe \/ \E t \in Threads : pc[t] \in IdlePcs)
    /\ UNCHANGED <<clock, managerVars, timerVars, threadVars, over, setBack>>

-----------------------------------------------------------------------------
(***************************************************************************)
(* The idle threads                                                        *)
(***************************************************************************)
EnterIdle(t) ==
    /\ pc[t] = "run" /\ pc' = [pc EXCEPT ![t] = "top"]
    /\ UNCHANGED <<clock, managerVars, timerVars, notifiers, pipe, left, now_ms, over, setBack>>

\* if((int)next_timeout > MAX_TIMEOUT), and epoll_wait((int)next_timeout), for which every negative timeout is for ever.
ToInt(x) == LET low == x % IntMod IN IF low >= IntMod \div 2 THEN low - IntMod ELSE low
EpollTimeout(x) ==
    LET next_timeout == IF ToInt(x) > MaxTimeout THEN MaxTimeout ELSE x
    IN  IF ToInt(next_timeout) < 0 THEN Forever ELSE ToInt(next_timeout)

\* How long idle() will sleep: as long as it takes to the first timer, MAX_TIMEOUT if there
\* is none (getNextTimer then returns ~0ull).
Sleeps(d) ==
    \/ m_timers = {} /\ d = MaxTimeout
    \/ \E e \in m_timers : /\ AtFront(m_timers, e.key)
                           /\ d = EpollTimeout(IF clock >= e.key THEN 0 ELSE e.key - clock)

\* Mutant: m_tickled stays set.
GetNextTimerTickled(t) ==
    /\ pc[t] = "top" /\ pc' = [pc EXCEPT ![t] = "epoll"]
    /\ \E d \in {Forever} \cup 0..MaxTimeout : Sleeps(d) /\ left' = [left EXCEPT ![t] = d]
    /\ UNCHANGED <<clock, managerVars, timerVars, notifiers, pipe, now_ms, over, setBack>>

\* stopping(next_timeout) calls getNextTimer under the read lock; then epoll_wait.
getNextTimer(t) ==
    /\ pc[t] = "top" /\ pc' = [pc EXCEPT ![t] = "epoll"]
    /\ m_tickled' = FALSE
    /\ \E d \in {Forever} \cup 0..MaxTimeout : Sleeps(d) /\ left' = [left EXCEPT ![t] = d]
    /\ UNCHANGED <<clock, m_timers, m_previouseTime, timerVars, notifiers, pipe, now_ms, over,
                   setBack>>

\* epoll_wait returns on an event, at the latest when the timeout is over (Tick waits for
\* that), or on the edge of the pipe.
EpollReturns(t) ==
    /\ pc[t] = "epoll" /\ pc' = [pc EXCEPT ![t] = "woken"]
    /\ left' = [left EXCEPT ![t] = 0]
    /\ \/ UNCHANGED pipe
       \/ pipe /\ pipe' = FALSE
    /\ UNCHANGED <<clock, managerVars, timerVars, notifiers, now_ms, over, setBack>>

\* listExpiredCb reads the clock before it has any lock ...
ReadNow(t) ==
    /\ pc[t] = "woken" /\ pc' = [pc EXCEPT ![t] = "listing"]
    /\ now_ms' = [now_ms EXCEPT ![t] = clock]
    /\ UNCHANGED <<clock, managerVars, timerVars, notifiers, pipe, left, over, setBack>>

\* ... returns if there is no timer, seen under the read lock ...
CheckEmpty(t) ==
    /\ pc[t] = "listing"
    /\ pc' = [pc EXCEPT ![t] = IF m_timers = {} THEN "run" ELSE "write"]
    /\ now_ms' = IF m_timers = {} THEN [now_ms EXCEPT ![t] = 0] ELSE now_ms
    /\ UNCHANGED <<clock, managerVars, timerVars, notifiers, pipe, left, over, setBack>>

\* Mutant: any step back of the clock counts.
AnyStepBack(now) == now < m_previouseTime
deleteClockRollover(now) == now < m_previouseTime - Hour

\* All timers after a rollover; otherwise up to lower_bound(now), and the equal ones.
Expired(now) == {e \in m_timers : deleteClockRollover(now) \/ e.key <= now}

\* Mutant: every timer that has expired goes back in.
ListExpiredRepeats(t) ==
    LET now  == now_ms[t]
        exp  == {e.timer : e \in Expired(now)}
    IN  /\ pc[t] = "write" /\ pc' = [pc EXCEPT ![t] = "run"]
        /\ m_timers # {}
        /\ m_previouseTime' = now
        /\ m_timers' = (m_timers \ Expired(now)) \cup {[timer |-> x, key |-> now + m_ms[x]] : x \in exp}
        /\ m_next' = [x \in Timers |-> IF x \in exp THEN now + m_ms[x] ELSE m_next[x]]
        /\ over' = over \cup (exp \ Recurring)
        /\ now_ms' = [now_ms EXCEPT ![t] = 0]
        /\ UNCHANGED <<clock, m_tickled, m_cb, m_ms, constructed, made, notifiers, pipe, left, setBack>>

\* ... and takes the expired timers out under the write lock: the recurring ones go back
\* in, the others lose their callback.
listExpiredCb(t) ==
    LET now  == now_ms[t]
        exp  == {e.timer : e \in Expired(now)}
        keep == exp \cap Recurring
    IN  /\ pc[t] = "write" /\ pc' = [pc EXCEPT ![t] = "run"]
        /\ m_timers # {}
        /\ m_previouseTime' = now
        /\ m_timers' = (m_timers \ Expired(now)) \cup {[timer |-> x, key |-> now + m_ms[x]] : x \in keep}
        /\ m_next' = [x \in Timers |-> IF x \in keep THEN now + m_ms[x] ELSE m_next[x]]
        /\ m_cb' = [x \in Timers |-> m_cb[x] /\ (x \in exp => x \in Recurring)]
        /\ over' = over \cup (exp \ keep)
        /\ now_ms' = [now_ms EXCEPT ![t] = 0]
        /\ UNCHANGED <<clock, m_tickled, m_ms, constructed, made, notifiers, pipe, left, setBack>>

\* The set was emptied between the two locks.
ListNothing(t) ==
    /\ pc[t] = "write" /\ pc' = [pc EXCEPT ![t] = "run"]
    /\ m_timers = {}
    /\ now_ms' = [now_ms EXCEPT ![t] = 0]
    /\ UNCHANGED <<clock, managerVars, timerVars, notifiers, pipe, left, over, setBack>>

-----------------------------------------------------------------------------
(***************************************************************************)
(* Time                                                                    *)
(***************************************************************************)
\* A sleep that is over ends before the clock goes on, and a thread is not suspended
\* for an hour inside listExpiredCb.
Tick ==
    /\ clock + setBack < MaxClock
    /\ \A t \in Threads : pc[t] = "epoll" => left[t] # 0
    /\ \A t \in Threads : pc[t] \in {"listing", "write"} => clock - now_ms[t] < MaxLag
    /\ clock' = clock + 1
    /\ left' = [t \in Threads |-> IF left[t] > 0 THEN left[t] - 1 ELSE left[t]]
    /\ UNCHANGED <<managerVars, timerVars, notifiers, pipe, pc, now_ms, over, setBack>>

\* Somebody sets the clock of the machine back (once).
SetClockBack(d) ==
    /\ setBack = 0
    /\ setBack' = d
    /\ clock' = clock - d
    /\ UNCHANGED <<managerVars, timerVars, notifiers, pipe, threadVars, over>>

Next ==
    \/ \E x \in Timers, ms \in Periods :
          \/ NewTimer(x, ms)
          \/ \E from_now \in BOOLEAN : reset(x, ms, from_now)
    \/ \E x \in Timers : AddTimer(x) \/ cancel(x) \/ refresh(x)
    \/ onTimerInsertedAtFront
    \/ \E t \in Threads :
          \/ EnterIdle(t) \/ getNextTimer(t) \/ EpollReturns(t) \/ ReadNow(t) \/ CheckEmpty(t)
          \/ listExpiredCb(t) \/ ListNothing(t)
    \/ Tick
    \/ \E d \in SetBacks : SetClockBack(d)

Spec == Init /\ [][Next]_vars

-----------------------------------------------------------------------------
(***************************************************************************)
(* Properties                                                              *)
(***************************************************************************)
\* A timer that was inserted has a callback exactly if it is in m_timers, once, under its m_next: so
\* find() never misses it, cancel() never erases end() (timer.cc:50) and every callback
\* listExpiredCb hands out is callable.
CbIffInSet ==
    /\ \A x \in Timers : m_cb[x] <=> \E e \in m_timers : e.timer = x
    /\ \A e \in m_timers : e.key = m_next[e.timer]

\* listExpiredCb hands out the callback of x in this step.
HandsOut(x) ==
    \E t \in Threads : pc[t] = "write" /\ pc'[t] = "run" /\ InSet(x) \in m_timers \ m_timers'

\* A timer that cancel() returned true for, and a one-shot timer whose callback was
\* handed out, is over: it is never handed out again, cancelled again or put back.
OverIsOver ==
    [][\A x \in over : ~HandsOut(x) /\ ~m_cb'[x] /\ \A e \in m_timers' : e.timer # x]_vars

\* A callback is handed out only once the clock has reached m_next, or after the clock
\* was set back by more than an hour: a clock value that is stale when listExpiredCb gets
\* the lock is never mistaken for a clock that was set back.
NeverEarly ==
    [][\A x \in Timers : HandsOut(x) => m_next[x] <= clock + setBack \/ setBack + MaxLag > Hour]_vars

\* Some thread will look at the timers again without waiting for its timeout.
Alert ==
    \/ pipe \/ notifiers > 0
    \/ \E t \in Threads : pc[t] # "epoll"

OnTime ==
    m_timers # {} => \E t \in Threads : pc[t] = "epoll" /\ left[t] # Forever
                           /\ (left[t] = 0 \/ \A e \in m_timers : clock + left[t] <= e.key)

\* Idle threads never all sleep past the first timer: each insertion at the front is
\* notified, unless a notification that was not yet answered by getNextTimer makes it
\* unnecessary (m_tickled).  refresh() does not notify and needs not, unless the clock was
\* set back.
NoOversleep ==
    setBack = 0 => Alert \/ OnTime
=============================================================================

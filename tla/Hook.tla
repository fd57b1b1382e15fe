-------------------------------- MODULE Hook --------------------------------
(***************************************************************************)
(* The hooked system calls (hook.cc): do_io, connect_with_timeout, sleep   *)
(* and close, on one socket.  A fiber that would block arms a condition    *)
(* timer, registers the event and suspends; the timer's callback, the      *)
(* event and close() race to resume it.                                    *)
(*                                                                         *)
(* IOManager and TimerManager appear by what they promise: the event       *)
(* resumes its waiter once, a timer is handed out or cancelled.  When a    *)
(* timer expires is left open.                                             *)
(***************************************************************************)
EXTENDS Integers, FiniteSets

CONSTANTS
    Timers,       \* Timer objects; a timer that is over may be used again
    Infos,        \* timer_info objects
    Ops,          \* the calls: "io" and, on a socket without a timeout, "untimed";
                  \* "connect", with a timeout; "sleep"
    Closes,       \* whether another fiber closes the socket
    MaxSteals,    \* bound: how often the data that woke the fiber is gone when it looks
    None

ASSUME HookAssumption ==
    /\ Ops \subseteq {"io", "untimed", "connect", "sleep"} /\ None # "sleep"
    /\ Closes \in BOOLEAN
    /\ MaxSteals \in Nat
    /\ None \notin Timers \cup Infos

VARIABLES
    pc,         \* where the fiber is
    op,         \* the call it makes
    tinfo,      \* its timer_info, or None
    timer,      \* its timer, or None
    result,     \* of the last call
    cancelled,  \* timer_info::cancelled
    expired,    \* the timer_infos a timer of which has expired
    tstate,     \* of each timer
    tinfoOf,    \* the timer_info a timer's callback has a weak pointer to
    missed,     \* a callback of the call has found no event to cancel
    waiter,     \* the event is set in the descriptor's context, with the fiber
    registered, \* the event is in the kernel's table
    cause,      \* history: what scheduled the fiber last
    data,       \* the socket is readable (or connected)
    closing,    \* where the fiber that closes the socket is
    wakes,      \* how often the fiber has been scheduled and not yet resumed
    steals

callVars  == <<pc, op, tinfo, timer, result>>
timerVars == <<cancelled, expired, tstate, tinfoOf, missed>>
eventVars == <<waiter, registered, cause>>
vars == <<callVars, timerVars, eventVars, data, closing, wakes, steals>>

\* The event, the timer of sleep(), close(), a callback of this call, one of an earlier call.
Causes == {"event", "timer", "close", "own", "late"}
Pcs == {"idle", "fun", "timer", "event", "yield", "hold", "woken"}

TypeOK ==
    /\ pc \in Pcs /\ op \in Ops \cup {None}
    /\ tinfo \in Infos \cup {None} /\ timer \in Timers \cup {None}
    /\ result \in {None, "ok", "error", "ETIMEDOUT"}
    /\ cancelled \subseteq Infos /\ expired \subseteq Infos
    /\ tstate \in [Timers -> {"over", "set", "listed", "locked", "marked"}]
    /\ tinfoOf \in [Timers -> Infos \cup {None}]
    /\ missed \in BOOLEAN /\ waiter \in BOOLEAN /\ registered \in BOOLEAN /\ data \in BOOLEAN
    /\ closing \in {"open", "cancelled", "deleted", "closed"}
    /\ cause \in Causes \cup {None}
    /\ wakes \in 0..1 /\ steals \in 0..MaxSteals

Init ==
    /\ pc = "idle" /\ op = None /\ tinfo = None /\ timer = None /\ result = None
    /\ cancelled = {} /\ expired = {}
    /\ tstate = [k \in Timers |-> "over"] /\ tinfoOf = [k \in Timers |-> None]
    /\ missed = FALSE
    /\ waiter = FALSE /\ registered = FALSE /\ cause = None
    /\ data = FALSE /\ closing = "open"
    /\ wakes = 0 /\ steals = 0

-----------------------------------------------------------------------------
(***************************************************************************)
(* The fiber                                                               *)
(***************************************************************************)
Go(here, there) == pc = here /\ pc' = there

\* Once close() has removed the descriptor's FdCtx the call is the system's own.
Unhooked == closing \in {"deleted", "closed"}

\* Mutant: the timer_info is not made anew for each call.
CallKeepsInfo(o, i) ==
    /\ Go("idle", IF o = "sleep" THEN "timer" ELSE "fun")
    /\ o = "sleep" \/ ~Unhooked
    /\ op' = o /\ tinfo' = i
    /\ expired' = expired \ {i} /\ missed' = FALSE
    /\ UNCHANGED <<timer, result, cancelled, tstate, tinfoOf, eventVars, data, closing, wakes, steals>>

\* A call makes its timer_info; only callbacks that are pending may still know an old one.
Call(o, i) ==
    /\ Go("idle", IF o = "sleep" THEN "timer" ELSE "fun")
    /\ o = "sleep" \/ ~Unhooked
    /\ \A k \in Timers : tstate[k] # "over" => tinfoOf[k] # i
    /\ op' = o /\ tinfo' = i
    /\ cancelled' = cancelled \ {i} /\ expired' = expired \ {i} /\ missed' = FALSE
    /\ UNCHANGED <<timer, result, tstate, tinfoOf, eventVars, data, closing, wakes, steals>>

Return(r) ==
    /\ pc' = "idle" /\ op' = None /\ tinfo' = None /\ timer' = None
    /\ result' = r

\* connect() fails; do_io() calls fun(), which reads what is there unless the descriptor is closed.
CallUnhooked(o, r) ==
    /\ pc = "idle" /\ o # "sleep" /\ Unhooked
    /\ r = "ok" => o # "connect" /\ closing = "deleted" /\ data
    /\ result' = r
    /\ data' = (data /\ (o = "connect" \/ closing = "closed"))
    /\ UNCHANGED <<pc, op, tinfo, timer, timerVars, eventVars, closing, wakes, steals>>

\* fun() succeeds, or fails for good, always when the descriptor is closed.  What was read is
\* gone, and so is the error of a connection; a connection made stays.
FunReturns(r) ==
    /\ pc = "fun" /\ (data \/ closing = "closed")
    /\ closing = "closed" => r = "error"
    /\ Return(r)
    /\ data' = (data /\ op = "connect" /\ r = "ok")
    /\ UNCHANGED <<timerVars, eventVars, closing, wakes, steals>>

\* EAGAIN, or EINPROGRESS: the fiber must wait.
FunAgain ==
    /\ Go("fun", "timer") /\ ~data /\ closing # "closed"
    /\ UNCHANGED <<op, tinfo, timer, result, timerVars, eventVars, data, closing, wakes, steals>>

\* addConditionTimer, if there is a timeout.  For sleep the timer is what wakes the fiber.
AddTimer(k) ==
    /\ pc = "timer" /\ op # "untimed" /\ tstate[k] = "over"
    /\ pc' = IF op = "sleep" THEN "yield" ELSE "event"
    /\ timer' = k
    /\ tstate' = [tstate EXCEPT ![k] = "set"]
    /\ tinfoOf' = [tinfoOf EXCEPT ![k] = tinfo]
    /\ UNCHANGED <<op, tinfo, result, cancelled, expired, missed, eventVars, data, closing, wakes, steals>>

NoTimer ==
    /\ Go("timer", "event") /\ op = "untimed"
    /\ UNCHANGED <<op, tinfo, timer, result, timerVars, eventVars, data, closing, wakes, steals>>

\* Timer::cancel returns false for a timer that has been handed out.
TimerCancelled == IF timer # None /\ tstate[timer] = "set" THEN [tstate EXCEPT ![timer] = "over"]
                  ELSE tstate

\* addEvent, which fails on a closed descriptor.
AddEvent ==
    /\ Go("event", "yield") /\ closing # "closed"
    /\ waiter' = TRUE /\ registered' = TRUE
    /\ UNCHANGED <<op, tinfo, timer, result, timerVars, cause, data, closing, wakes, steals>>

AddEventFails ==
    /\ pc = "event" /\ closing = "closed"
    /\ tstate' = TimerCancelled
    /\ Return("error")
    /\ UNCHANGED <<cancelled, expired, tinfoOf, missed, eventVars, data, closing, wakes, steals>>

Yield ==
    /\ Go("yield", "hold")
    /\ UNCHANGED <<op, tinfo, timer, result, timerVars, eventVars, data, closing, wakes, steals>>

\* The scheduler resumes the fiber once it has been scheduled and has suspended.
Resume ==
    /\ Go("hold", "woken") /\ wakes > 0
    /\ wakes' = wakes - 1
    /\ UNCHANGED <<op, tinfo, timer, result, timerVars, eventVars, data, closing, steals>>

\* connect() then asks for SO_ERROR, which is zero also while the connection is being made.
SoError == CASE closing = "closed" -> {"error"}
             [] data -> {"ok", "error"}
             [] OTHER -> {"ok"}

\* Mutant: what the callback has marked is not looked at.
WokenBlindly ==
    /\ pc = "woken"
    /\ tstate' = IF op = "sleep" THEN tstate ELSE TimerCancelled
    /\ IF op = "sleep" THEN Return("ok")
       ELSE IF op = "connect" THEN \E r \in SoError : Return(r)
       ELSE pc' = "fun" /\ timer' = None /\ UNCHANGED <<op, tinfo, result>>
    /\ UNCHANGED <<cancelled, expired, tinfoOf, missed, eventVars, data, closing, wakes, steals>>

\* The timer is cancelled; then the call has timed out, is over (connect reads SO_ERROR,
\* sleep has nothing to look at), or fun() is tried again.
Woken ==
    /\ pc = "woken"
    /\ tstate' = IF op = "sleep" THEN tstate ELSE TimerCancelled
    /\ IF op = "sleep" THEN Return("ok")
       ELSE IF tinfo \in cancelled THEN Return("ETIMEDOUT")
       ELSE IF op = "connect" THEN \E r \in SoError : Return(r)
       ELSE pc' = "fun" /\ timer' = None /\ UNCHANGED <<op, tinfo, result>>
    /\ UNCHANGED <<cancelled, expired, tinfoOf, missed, eventVars, data, closing, wakes, steals>>

-----------------------------------------------------------------------------
(***************************************************************************)
(* Those who resume it                                                     *)
(***************************************************************************)
\* triggerEvent, by whoever finds the event set.
Trigger(by) == waiter' = FALSE /\ registered' = FALSE /\ wakes' = wakes + 1 /\ cause' = by

\* A timer expires and its callback is handed out, to be executed as a task.
TimerExpires(k) ==
    /\ tstate[k] = "set"
    /\ tstate' = [tstate EXCEPT ![k] = "listed"]
    /\ expired' = IF tinfo = tinfoOf[k] THEN expired \cup {tinfo} ELSE expired
    /\ UNCHANGED <<callVars, cancelled, tinfoOf, missed, eventVars, data, closing, wakes, steals>>

\* The callback of sleep() schedules the fiber.
SleepOver(k) ==
    /\ tstate[k] = "listed" /\ op = "sleep" /\ timer = k
    /\ tstate' = [tstate EXCEPT ![k] = "over"]
    /\ wakes' = wakes + 1 /\ cause' = "timer"
    /\ UNCHANGED <<callVars, cancelled, expired, tinfoOf, missed, waiter, registered, data, closing, steals>>

\* The callback of a condition timer: it returns if the timer_info is gone or marked ...
CallbackLocks(k) ==
    /\ tstate[k] = "listed" /\ ~(op = "sleep" /\ timer = k)
    /\ tstate' = [tstate EXCEPT ![k] =
                     IF tinfoOf[k] = tinfo /\ tinfo \notin cancelled THEN "locked" ELSE "over"]
    /\ UNCHANGED <<callVars, cancelled, expired, tinfoOf, missed, eventVars, data, closing, wakes, steals>>

\* ... marks it, perhaps after the call has returned ...
CallbackMarks(k) ==
    /\ tstate[k] = "locked"
    /\ tstate' = [tstate EXCEPT ![k] = "marked"]
    /\ cancelled' = cancelled \cup {tinfoOf[k]}
    /\ UNCHANGED <<callVars, expired, tinfoOf, missed, eventVars, data, closing, wakes, steals>>

\* Whose wait a callback that cancels the event ends: its own call's, or that of a later call.
CallbackOf(k) == IF tinfoOf[k] = tinfo THEN "own" ELSE "late"

\* Mutant: cancelEvent schedules the fiber whether or not the event is set.
CancelAnyway(k) ==
    /\ tstate[k] = "marked"
    /\ tstate' = [tstate EXCEPT ![k] = "over"]
    /\ Trigger(CallbackOf(k))
    /\ UNCHANGED <<callVars, cancelled, expired, tinfoOf, missed, data, closing, steals>>

\* Mutant: cancelEvent removes the event and schedules nobody.
CancelQuietly(k) ==
    /\ tstate[k] = "marked"
    /\ tstate' = [tstate EXCEPT ![k] = "over"]
    /\ waiter' = FALSE /\ registered' = FALSE
    /\ missed' = (missed \/ (~waiter /\ tinfoOf[k] = tinfo))
    /\ UNCHANGED <<callVars, cancelled, expired, tinfoOf, cause, data, closing, wakes, steals>>

\* ... and cancels the event, which resumes the fiber if the event is set, whichever call of the
\* fiber set it: hook.cc:140 knows the descriptor and the event only.  If the kernel has
\* forgotten the event, epoll_ctl fails and cancelEvent returns.
CallbackCancels(k) ==
    /\ tstate[k] = "marked"
    /\ tstate' = [tstate EXCEPT ![k] = "over"]
    /\ IF waiter /\ registered THEN Trigger(CallbackOf(k)) ELSE UNCHANGED <<eventVars, wakes>>
    /\ missed' = (missed \/ (~waiter /\ tinfoOf[k] = tinfo))
    /\ UNCHANGED <<callVars, cancelled, expired, tinfoOf, data, closing, steals>>

\* idle() handles the event.
EventFires ==
    /\ registered /\ waiter /\ data
    /\ Trigger("event")
    /\ UNCHANGED <<callVars, timerVars, data, closing, steals>>

DataArrives ==
    /\ ~data /\ closing # "closed" /\ data' = TRUE
    /\ UNCHANGED <<callVars, timerVars, eventVars, closing, wakes, steals>>

\* Somebody else reads the data (another process, another thread that accepts); nobody takes the
\* outcome of a connection that the fiber is making.
DataStolen ==
    /\ data /\ op # "connect" /\ steals < MaxSteals
    /\ data' = FALSE /\ steals' = steals + 1
    /\ UNCHANGED <<callVars, timerVars, eventVars, closing, wakes>>

\* close() by another fiber: cancelAll, then the removal of the FdCtx, then the close itself.
CloseCancels ==
    /\ Closes /\ closing = "open" /\ closing' = "cancelled"
    /\ IF waiter THEN Trigger("close") ELSE UNCHANGED <<eventVars, wakes>>
    /\ UNCHANGED <<callVars, timerVars, data, steals>>

CloseDeletes ==
    /\ closing = "cancelled" /\ closing' = "deleted"
    /\ UNCHANGED <<callVars, timerVars, eventVars, data, wakes, steals>>

CloseCloses ==
    /\ closing = "deleted" /\ closing' = "closed"
    /\ registered' = FALSE
    /\ UNCHANGED <<callVars, timerVars, waiter, cause, data, wakes, steals>>

FiberStep ==
    \/ \E r \in {"ok", "error"} : FunReturns(r)
    \/ FunAgain \/ NoTimer \/ AddEvent \/ AddEventFails \/ Yield \/ Resume \/ Woken
    \/ \E k \in Timers : AddTimer(k)

CallbackStep(k) ==
    TimerExpires(k) \/ SleepOver(k) \/ CallbackLocks(k) \/ CallbackMarks(k) \/ CallbackCancels(k)

Next ==
    \/ \E o \in Ops, i \in Infos : Call(o, i)
    \/ \E o \in Ops, r \in {"ok", "error"} : CallUnhooked(o, r)
    \/ FiberStep
    \/ \E k \in Timers : CallbackStep(k)
    \/ EventFires \/ DataArrives \/ DataStolen \/ CloseCancels \/ CloseDeletes \/ CloseCloses

\* The scheduler runs the fiber and the callbacks, timers expire, and the kernel reports
\* data that is there.  Nobody has to send data, to call, or to close.
Fairness ==
    /\ WF_vars(FiberStep) /\ WF_vars(EventFires) /\ WF_vars(CloseDeletes \/ CloseCloses)
    /\ \A k \in Timers : WF_vars(CallbackStep(k))

Spec == Init /\ [][Next]_vars
FairSpec == Spec /\ Fairness

-----------------------------------------------------------------------------
(***************************************************************************)
(* Properties                                                              *)
(***************************************************************************)
\* What the fiber's waits look like to the scheduler.
Armed == waiter \/ (op = "sleep" /\ timer # None /\ tstate[timer] \in {"set", "listed"})
Protocol == INSTANCE WakeProtocol WITH
    Fibers <- {"fiber"},
    wake   <- [f \in {"fiber"} |-> IF Armed THEN "armed" ELSE IF wakes > 0 THEN "fired" ELSE "none"]

\* The hooks keep the protocol the scheduler relies on: of event, timeout and close exactly
\* one schedules the fiber, once for each wait.
WakesFollowProtocol == Protocol!Spec

\* A call that waited reports success only for what it waited for: sleep() when its own timer has
\* called back, connect() when the connection is made.  A wait may end early: close() cancels the
\* event, and so may a callback of an earlier call of the fiber that had locked its timer_info
\* before that call returned.  do_io() then tries again, but connect() reads SO_ERROR, which is zero
\* while the connection is being made.  A timeout of its own never makes it report success.
SuccessIsEarned ==
    [][pc = "woken" /\ pc' = "idle" /\ result' = "ok" =>
          IF op = "sleep" THEN cause = "timer" ELSE data \/ cause \in {"close", "late"}]_vars

\* A call fails with ETIMEDOUT only if one of its own timers has expired, although
\* callbacks of earlier waits and earlier calls may still be pending.
TimeoutIsOwn ==
    [][pc # "idle" /\ pc' = "idle" /\ result' = "ETIMEDOUT" => tinfo \in expired]_vars

\* A call with a timeout returns even if nothing is ever received: hook.cc:138 says that
\* "if the event has not happened within the time the user gave, it times out".
CallReturns == pc # "idle" ~> pc = "idle"

\* A call returns unless it has no timeout, or hangs for one of two reasons: a callback of it found
\* no event to cancel, or it registered the event while the socket was being closed.
\* Nothing else makes a call hang.
OnlyLostWakesHang ==
    \/ []<>(pc = "idle")
    \/ <>[](pc = "hold" /\ waiter /\ (op = "untimed" \/ missed \/ (closing = "closed" /\ ~registered)))
=============================================================================

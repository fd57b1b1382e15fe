----------------------------- MODULE HookProofs -----------------------------
(***************************************************************************)
(* The hooked calls, proved for any timers, timer_infos, calls and number  *)
(* of steals: a fiber is scheduled once for each wait and never when it    *)
(* does not wait, a call times out only by a timer of its own, and a sleep *)
(* or a connection that reports success had what it waited for, but for    *)
(* the waits that close() or a callback of an earlier call ended.          *)
(***************************************************************************)
EXTENDS Hook, TLAPS

Waiting == {"yield", "hold"}

\* What the fiber holds at each place.
CallInv ==
    /\ pc = "idle" => op = None
    /\ pc # "idle" => tinfo \in Infos
    /\ pc \in {"idle", "fun", "timer"} => timer = None
    /\ op = "sleep" => pc \in {"timer", "woken"} \cup Waiting
    /\ op = "sleep" /\ pc # "timer" => timer \in Timers

\* Of the event, the timer of sleep() and a wake-up that was given, at most one is there; each
\* only while the fiber waits.
WaitInv ==
    /\ waiter => pc \in Waiting /\ wakes = 0 /\ op # "sleep"
    /\ wakes = 1 => pc \in Waiting
    /\ op = "sleep" /\ pc \in Waiting => (wakes = 0 <=> tstate[timer] \in {"set", "listed"})
    /\ op = "sleep" /\ pc = "woken" => tstate[timer] \notin {"set", "listed"}

\* A callback that has yet to mark the timer_info of the call, or has marked it, is of a timer
\* that expired during the call.
TimeoutInv ==
    /\ \A k \in Timers : tstate[k] # "over" => tinfoOf[k] \in Infos
    /\ \A k \in Timers :
          tinfoOf[k] = tinfo /\ tstate[k] \in {"listed", "locked", "marked"} => tinfo \in expired
    /\ tinfo \in cancelled => tinfo \in expired

\* What scheduled the fiber is known until it has looked: the timer of sleep() in a sleep and only
\* there, an event of connect() only when the connection is made, a callback of the call only when
\* it has marked the timer_info.
CauseInv ==
    /\ \A k \in Timers : tstate[k] = "marked" => tinfoOf[k] \in cancelled
    /\ wakes = 1 \/ pc = "woken" =>
          /\ cause \in Causes
          /\ op = "sleep" <=> cause = "timer"
          /\ op = "connect" /\ cause = "event" => data
          /\ cause = "own" => tinfo \in cancelled

HookInv == TypeOK /\ CallInv /\ WaitInv /\ TimeoutInv /\ CauseInv

USE HookAssumption

\* A fiber that has not called a hook satisfies the invariant.
LEMMA HookInit == Init => HookInv
<1> SUFFICES ASSUME Init PROVE HookInv
  OBVIOUS
<1>1. TypeOK
  <2>1. wakes \in 0..1 /\ steals \in 0..MaxSteals
    BY DEF Init
  <2>2. /\ tstate \in [Timers -> {"over", "set", "listed", "locked", "marked"}]
        /\ tinfoOf \in [Timers -> Infos \cup {None}]
    BY DEF Init
  <2> QED
    BY <2>1, <2>2, Zenon DEF Init, TypeOK, Pcs
<1>2. CallInv /\ WaitInv
  BY DEF Init, CallInv, WaitInv
<1>3. TimeoutInv /\ CauseInv
  BY DEF Init, TimeoutInv, CauseInv
<1> QED
  BY <1>1, <1>2, <1>3 DEF HookInv

\* The fiber.
LEMMA CallKeeps == ASSUME HookInv, NEW o \in Ops, NEW i \in Infos, Call(o, i) PROVE HookInv'
<1> USE DEF HookInv, Call, Go, eventVars
<1>1. TypeOK'
  BY Zenon DEF TypeOK, Pcs
<1>2. CallInv'
  BY DEF CallInv, TypeOK, Waiting
<1>3. WaitInv'
  BY DEF CallInv, WaitInv, TypeOK, Waiting
<1>4. TimeoutInv'
  BY DEF TimeoutInv, CallInv, TypeOK
<1>5. CauseInv'
  BY DEF CauseInv, CallInv, WaitInv, TimeoutInv, TypeOK, Waiting, Causes
<1> QED
  BY <1>1, <1>2, <1>3, <1>4, <1>5

\* The system call returns something other than EAGAIN.
LEMMA FunReturnsKeeps == ASSUME HookInv, NEW r \in {"ok", "error"}, FunReturns(r) PROVE HookInv'
<1> USE DEF HookInv, FunReturns, Return, timerVars, eventVars
<1>1. TypeOK'
  BY DEF TypeOK, Pcs
<1>2. CallInv'
  BY DEF CallInv, TypeOK, Waiting
<1>3. WaitInv'
  BY DEF CallInv, WaitInv, TypeOK, Waiting
<1>4. TimeoutInv'
  BY DEF TimeoutInv, CallInv, TypeOK
<1>5. CauseInv'
  BY DEF CauseInv, CallInv, WaitInv, TimeoutInv, TypeOK, Waiting, Causes
<1> QED
  BY <1>1, <1>2, <1>3, <1>4, <1>5

\* The system call returns EAGAIN: do_io will wait.
LEMMA FunAgainKeeps == ASSUME HookInv, FunAgain PROVE HookInv'
<1> USE DEF HookInv, FunAgain, Go, timerVars, eventVars
<1>1. TypeOK'
  BY DEF TypeOK, Pcs
<1>2. CallInv'
  BY DEF CallInv, TypeOK, Waiting
<1>3. WaitInv'
  BY DEF CallInv, WaitInv, TypeOK, Waiting
<1>4. TimeoutInv'
  BY DEF TimeoutInv, CallInv, TypeOK
<1>5. CauseInv'
  BY DEF CauseInv, CallInv, WaitInv, TimeoutInv, TypeOK, Waiting, Causes
<1> QED
  BY <1>1, <1>2, <1>3, <1>4, <1>5

\* do_io arms the time-out of the wait.
LEMMA AddTimerKeeps == ASSUME HookInv, NEW k \in Timers, AddTimer(k) PROVE HookInv'
<1> USE DEF HookInv, AddTimer, eventVars
<1>1. TypeOK'
  BY DEF TypeOK, Pcs
<1>2. CallInv'
  BY DEF CallInv, TypeOK, Waiting
<1>3. WaitInv'
  BY DEF CallInv, WaitInv, TypeOK, Waiting
<1>4. TimeoutInv'
  BY DEF TimeoutInv, CallInv, TypeOK
<1>5. CauseInv'
  BY DEF CauseInv, CallInv, WaitInv, TimeoutInv, TypeOK, Waiting, Causes
<1> QED
  BY <1>1, <1>2, <1>3, <1>4, <1>5

\* do_io waits without a time-out.
LEMMA NoTimerKeeps == ASSUME HookInv, NoTimer PROVE HookInv'
<1> USE DEF HookInv, NoTimer, Go, timerVars, eventVars
<1>1. TypeOK'
  BY DEF TypeOK, Pcs
<1>2. CallInv'
  BY DEF CallInv, TypeOK, Waiting
<1>3. WaitInv'
  BY DEF CallInv, WaitInv, TypeOK, Waiting
<1>4. TimeoutInv'
  BY DEF TimeoutInv, CallInv, TypeOK
<1>5. CauseInv'
  BY DEF CauseInv, CallInv, WaitInv, TimeoutInv, TypeOK, Waiting, Causes
<1> QED
  BY <1>1, <1>2, <1>3, <1>4, <1>5

\* do_io registers the fiber for the event.
LEMMA AddEventKeeps == ASSUME HookInv, AddEvent PROVE HookInv'
<1> USE DEF HookInv, AddEvent, Go, timerVars
<1>1. TypeOK'
  BY DEF TypeOK, Pcs
<1>2. CallInv'
  BY DEF CallInv, TypeOK, Waiting
<1>3. WaitInv'
  BY DEF CallInv, WaitInv, TypeOK, Waiting
<1>4. TimeoutInv'
  BY DEF TimeoutInv, CallInv, TypeOK
<1>5. CauseInv'
  BY DEF CauseInv, CallInv, WaitInv, TimeoutInv, TypeOK, Waiting, Causes
<1> QED
  BY <1>1, <1>2, <1>3, <1>4, <1>5

\* addEvent fails: the time-out is cancelled and the call returns.
LEMMA AddEventFailsKeeps == ASSUME HookInv, AddEventFails PROVE HookInv'
<1> USE DEF HookInv, AddEventFails, Return, TimerCancelled, eventVars
<1>1. TypeOK'
  BY DEF TypeOK, Pcs
<1>2. CallInv'
  BY DEF CallInv, TypeOK, Waiting
<1>3. WaitInv'
  BY DEF CallInv, WaitInv, TypeOK, Waiting
<1>4. TimeoutInv'
  BY DEF TimeoutInv, CallInv, TypeOK
<1>5. CauseInv'
  BY DEF CauseInv, CallInv, WaitInv, TimeoutInv, TypeOK, Waiting, Causes
<1> QED
  BY <1>1, <1>2, <1>3, <1>4, <1>5

\* The fiber suspends.
LEMMA YieldKeeps == ASSUME HookInv, Yield PROVE HookInv'
<1> USE DEF HookInv, Yield, Go, timerVars, eventVars
<1>1. TypeOK'
  BY DEF TypeOK, Pcs
<1>2. CallInv'
  BY DEF CallInv, TypeOK, Waiting
<1>3. WaitInv'
  BY DEF CallInv, WaitInv, TypeOK, Waiting
<1>4. TimeoutInv'
  BY DEF TimeoutInv, CallInv, TypeOK
<1>5. CauseInv'
  BY DEF CauseInv, CallInv, WaitInv, TimeoutInv, TypeOK, Waiting, Causes
<1> QED
  BY <1>1, <1>2, <1>3, <1>4, <1>5

\* The scheduler swaps the fiber in.
LEMMA ResumeKeeps == ASSUME HookInv, Resume PROVE HookInv'
<1> USE DEF HookInv, Resume, Go, timerVars, eventVars
<1>1. TypeOK'
  BY DEF TypeOK, Pcs
<1>2. CallInv'
  BY DEF CallInv, TypeOK, Waiting
<1>3. WaitInv'
  BY DEF CallInv, WaitInv, TypeOK, Waiting
<1>4. TimeoutInv'
  BY DEF TimeoutInv, CallInv, TypeOK
<1>5. CauseInv'
  BY DEF CauseInv, CallInv, WaitInv, TimeoutInv, TypeOK, Waiting, Causes
<1> QED
  BY <1>1, <1>2, <1>3, <1>4, <1>5

\* Back in do_io, the fiber cancels its time-out and looks at what woke it.
LEMMA WokenKeeps == ASSUME HookInv, Woken PROVE HookInv'
<1> USE DEF HookInv, Woken, Return, SoError, TimerCancelled, eventVars
<1>1. TypeOK'
  BY DEF TypeOK, Pcs
<1>2. CallInv'
  BY DEF CallInv, TypeOK, Waiting
<1>3. WaitInv'
  BY DEF CallInv, WaitInv, TypeOK, Waiting
<1>4. TimeoutInv'
  BY DEF TimeoutInv, CallInv, TypeOK
<1>5. CauseInv'
  BY DEF CauseInv, CallInv, WaitInv, TimeoutInv, TypeOK, Waiting, Causes
<1> QED
  BY <1>1, <1>2, <1>3, <1>4, <1>5

\* Timers and callbacks.
LEMMA TimerExpiresKeeps == ASSUME HookInv, NEW k \in Timers, TimerExpires(k) PROVE HookInv'
<1> USE DEF HookInv, TimerExpires, callVars, eventVars
<1>0. tinfo = tinfoOf[k] => tinfo \in Infos
  BY DEF TimeoutInv, TypeOK
<1>1. TypeOK'
  BY <1>0 DEF TypeOK, Pcs
<1>2. CallInv'
  BY DEF CallInv, TypeOK, Waiting
<1>3. WaitInv'
  BY DEF CallInv, WaitInv, TypeOK, Waiting
<1>4. TimeoutInv'
  BY DEF TimeoutInv, CallInv, TypeOK
<1>5. CauseInv'
  BY DEF CauseInv, CallInv, WaitInv, TimeoutInv, TypeOK, Waiting, Causes
<1> QED
  BY <1>1, <1>2, <1>3, <1>4, <1>5

\* The timer of a sleep schedules the fiber.
LEMMA SleepOverKeeps == ASSUME HookInv, NEW k \in Timers, SleepOver(k) PROVE HookInv'
<1> USE DEF HookInv, SleepOver, callVars, eventVars
<1>0. wakes = 0
  BY DEF TypeOK, CallInv, WaitInv, Pcs, Waiting
<1>a. cause' \in Causes \cup {None}
  BY DEF TypeOK, Causes
<1>1. TypeOK'
  BY <1>0, <1>a DEF TypeOK, Pcs
<1>2. CallInv'
  BY DEF CallInv, TypeOK, Waiting
<1>3. WaitInv'
  BY DEF CallInv, WaitInv, TypeOK, Waiting
<1>4. TimeoutInv'
  BY DEF TimeoutInv, CallInv, TypeOK
<1>5. CauseInv'
  BY DEF CauseInv, CallInv, WaitInv, TimeoutInv, TypeOK, Waiting, Causes
<1> QED
  BY <1>1, <1>2, <1>3, <1>4, <1>5

\* A time-out locks its condition.
LEMMA CallbackLocksKeeps == ASSUME HookInv, NEW k \in Timers, CallbackLocks(k) PROVE HookInv'
<1> USE DEF HookInv, CallbackLocks, callVars, eventVars
<1>1. TypeOK'
  BY DEF TypeOK, Pcs
<1>2. CallInv'
  BY DEF CallInv, TypeOK, Waiting
<1>3. WaitInv'
  BY DEF CallInv, WaitInv, TypeOK, Waiting
<1>4. TimeoutInv'
  BY DEF TimeoutInv, CallInv, TypeOK
<1>5. CauseInv'
  BY DEF CauseInv, CallInv, WaitInv, TimeoutInv, TypeOK, Waiting, Causes
<1> QED
  BY <1>1, <1>2, <1>3, <1>4, <1>5

\* A time-out marks the wait as timed out, unless it is over.
LEMMA CallbackMarksKeeps == ASSUME HookInv, NEW k \in Timers, CallbackMarks(k) PROVE HookInv'
<1> USE DEF HookInv, CallbackMarks, callVars, eventVars
<1>0. tinfoOf[k] \in Infos
  BY DEF TimeoutInv, TypeOK
<1>1. TypeOK'
  BY <1>0 DEF TypeOK, Pcs
<1>2. CallInv'
  BY DEF CallInv, TypeOK, Waiting
<1>3. WaitInv'
  BY DEF CallInv, WaitInv, TypeOK, Waiting
<1>4. TimeoutInv'
  BY DEF TimeoutInv, CallInv, TypeOK
<1>5. CauseInv'
  BY DEF CauseInv, CallInv, WaitInv, TimeoutInv, TypeOK, Waiting, Causes
<1> QED
  BY <1>1, <1>2, <1>3, <1>4, <1>5

\* A time-out cancels the event the fiber waits for.
LEMMA CallbackCancelsKeeps == ASSUME HookInv, NEW k \in Timers, CallbackCancels(k) PROVE HookInv'
<1> USE DEF HookInv, CallbackCancels, callVars, eventVars, Trigger, CallbackOf
<1>0. wakes' \in 0..1
  BY DEF TypeOK, WaitInv
<1>a. cause' \in Causes \cup {None}
  BY DEF TypeOK, Causes
<1>1. TypeOK'
  <2>1. tstate' \in [Timers -> {"over", "set", "listed", "locked", "marked"}]
    BY DEF TypeOK
  <2>2. waiter' \in BOOLEAN /\ registered' \in BOOLEAN /\ missed' \in BOOLEAN
    BY Zenon DEF TypeOK
  <2> QED
    BY <1>0, <1>a, <2>1, <2>2, Zenon DEF TypeOK
<1>2. CallInv'
  BY DEF CallInv, TypeOK, Waiting
<1>3. WaitInv'
  BY DEF CallInv, WaitInv, TypeOK, Waiting
<1>4. TimeoutInv'
  BY DEF TimeoutInv, CallInv, TypeOK
<1>5. CauseInv'
  BY DEF CauseInv, CallInv, WaitInv, TimeoutInv, TypeOK, Waiting, Causes
<1> QED
  BY <1>1, <1>2, <1>3, <1>4, <1>5

\* The event and close().
LEMMA EventFiresKeeps == ASSUME HookInv, EventFires PROVE HookInv'
<1> USE DEF HookInv, EventFires, Trigger, callVars, timerVars
<1>0. wakes' \in 0..1
  BY DEF TypeOK, WaitInv
<1>a. cause' \in Causes \cup {None}
  BY DEF TypeOK, Causes
<1>1. TypeOK'
  BY <1>0, <1>a, ZenonT(30) DEF TypeOK, Pcs
<1>2. CallInv'
  BY DEF CallInv, TypeOK, Waiting
<1>3. WaitInv'
  BY DEF CallInv, WaitInv, TypeOK, Waiting
<1>4. TimeoutInv'
  BY DEF TimeoutInv, CallInv, TypeOK
<1>5. CauseInv'
  BY DEF CauseInv, CallInv, WaitInv, TimeoutInv, TypeOK, Waiting, Causes
<1> QED
  BY <1>1, <1>2, <1>3, <1>4, <1>5

\* close() triggers the events of the descriptor.
LEMMA CloseCancelsKeeps == ASSUME HookInv, CloseCancels PROVE HookInv'
<1> USE DEF HookInv, CloseCancels, Trigger, callVars, timerVars, eventVars
<1>0. wakes' \in 0..1
  BY DEF TypeOK, WaitInv
<1>a. cause' \in Causes \cup {None}
  BY DEF TypeOK, Causes
<1>1. TypeOK'
  <2>1. /\ waiter' \in BOOLEAN /\ registered' \in BOOLEAN
        /\ closing' \in {"open", "cancelled", "deleted", "closed"}
    BY DEF TypeOK
  <2> QED
    BY <1>0, <1>a, <2>1, Zenon DEF TypeOK
<1>2. CallInv'
  BY DEF CallInv, TypeOK, Waiting
<1>3. WaitInv'
  BY DEF CallInv, WaitInv, TypeOK, Waiting
<1>4. TimeoutInv'
  BY DEF TimeoutInv, CallInv, TypeOK
<1>5. CauseInv'
  BY DEF CauseInv, CallInv, WaitInv, TimeoutInv, TypeOK, Waiting, Causes
<1> QED
  BY <1>1, <1>2, <1>3, <1>4, <1>5

\* close() closes the descriptor.
LEMMA CloseClosesKeeps == ASSUME HookInv, CloseCloses PROVE HookInv'
<1> USE DEF HookInv, CloseCloses, callVars, timerVars
<1>1. TypeOK'
  BY ZenonT(30) DEF TypeOK, Pcs
<1>2. CallInv'
  BY DEF CallInv, TypeOK, Waiting
<1>3. WaitInv'
  BY DEF CallInv, WaitInv, TypeOK, Waiting
<1>4. TimeoutInv'
  BY DEF TimeoutInv, CallInv, TypeOK
<1>5. CauseInv'
  BY DEF CauseInv, CallInv, WaitInv, TimeoutInv, TypeOK, Waiting, Causes
<1> QED
  BY <1>1, <1>2, <1>3, <1>4, <1>5

\* Data that comes and goes, and the removal of the FdCtx.
LEMMA QuietKeeps ==
    ASSUME HookInv, UNCHANGED <<callVars, timerVars, eventVars, wakes>>,
           data' \in BOOLEAN, op = "connect" /\ data => data', steals' \in 0..MaxSteals,
           closing' \in {"open", "cancelled", "deleted", "closed"}
    PROVE  HookInv'
<1> USE DEF HookInv, callVars, timerVars, eventVars
<1>1. TypeOK'
  BY Zenon DEF TypeOK
<1>2. CallInv' /\ WaitInv'
  BY Zenon DEF CallInv, WaitInv
<1>3. TimeoutInv' /\ CauseInv'
  BY Zenon DEF TimeoutInv, CauseInv
<1> QED
  BY <1>1, <1>2, <1>3

\* A call after the removal of the FdCtx.
LEMMA UnhookedKeeps ==
    ASSUME HookInv, NEW o \in Ops, NEW r \in {"ok", "error"}, CallUnhooked(o, r) PROVE HookInv'
<1> USE DEF HookInv, CallUnhooked, timerVars, eventVars
<1>1. TypeOK'
  BY Zenon DEF TypeOK
<1>2. CallInv' /\ WaitInv'
  BY Zenon DEF CallInv, WaitInv
<1>3. TimeoutInv'
  BY Zenon DEF TimeoutInv
<1>4. CauseInv'
  BY DEF CauseInv, CallInv, WaitInv, TypeOK, Waiting
<1> QED
  BY <1>1, <1>2, <1>3, <1>4

\* Every step preserves the invariant.
LEMMA HookNext == HookInv /\ [Next]_vars => HookInv'
<1> SUFFICES ASSUME HookInv, [Next]_vars PROVE HookInv'
  OBVIOUS
<1>1. CASE FiberStep
  BY <1>1, FunReturnsKeeps, FunAgainKeeps, AddTimerKeeps, NoTimerKeeps, AddEventKeeps,
     AddEventFailsKeeps, YieldKeeps, ResumeKeeps, WokenKeeps, Zenon DEF FiberStep
<1>2. ASSUME NEW k \in Timers, CallbackStep(k) PROVE HookInv'
  BY <1>2, TimerExpiresKeeps, SleepOverKeeps, CallbackLocksKeeps, CallbackMarksKeeps,
     CallbackCancelsKeeps, Zenon DEF CallbackStep
<1>3. ASSUME NEW o \in Ops, NEW r \in {"ok", "error"}, CallUnhooked(o, r) PROVE HookInv'
  BY <1>3, UnhookedKeeps
<1>4. CASE DataArrives \/ DataStolen \/ CloseDeletes
  <2>1. data' \in BOOLEAN
    BY <1>4, Zenon DEF DataArrives, DataStolen, CloseDeletes, HookInv, TypeOK
  <2>2. steals' \in 0..MaxSteals
    BY <1>4 DEF DataArrives, DataStolen, CloseDeletes, HookInv, TypeOK
  <2>3. /\ UNCHANGED <<callVars, timerVars, eventVars, wakes>>
        /\ op = "connect" /\ data => data'
        /\ closing' \in {"open", "cancelled", "deleted", "closed"}
    BY <1>4, Zenon DEF DataArrives, DataStolen, CloseDeletes, HookInv, TypeOK
  <2> QED
    BY <2>1, <2>2, <2>3, QuietKeeps
<1>5. CASE UNCHANGED vars
  BY <1>5, QuietKeeps DEF vars, HookInv, TypeOK
<1> QED
  BY <1>1, <1>2, <1>3, <1>4, <1>5, CallKeeps, EventFiresKeeps, CloseCancelsKeeps, CloseClosesKeeps,
     Zenon DEF Next

-----------------------------------------------------------------------------
\* HookInv holds in every reachable state, whatever the timers, calls and steals.
THEOREM HookInductive == Spec => []HookInv
<1> QED
  BY HookInit, HookNext, PTL DEF Spec

\* A call that waited returns by the step that follows its resumption.
LEMMA WokenEnds == ASSUME Next, pc = "woken", pc' = "idle" PROVE Woken
<1>1. FiberStep => Woken
  BY DEF FiberStep, FunReturns, AddEventFails, FunAgain, NoTimer, AddEvent, Yield, Resume, AddTimer, Go
<1>2. \A k \in Timers : ~CallbackStep(k)
  BY DEF CallbackStep, TimerExpires, SleepOver, CallbackLocks, CallbackMarks, CallbackCancels, callVars
<1>3. \A o \in Ops : /\ \A r \in {"ok", "error"} : ~CallUnhooked(o, r)
                     /\ \A i \in Infos : ~Call(o, i)
  BY DEF CallUnhooked, Call, Go
<1>4. ~(EventFires \/ DataArrives \/ DataStolen \/ CloseCancels \/ CloseDeletes \/ CloseCloses)
  BY DEF EventFires, DataArrives, DataStolen, CloseCancels, CloseDeletes, CloseCloses, callVars
<1> QED
  BY <1>1, <1>2, <1>3, <1>4, Zenon DEF Next

\* A call fails with ETIMEDOUT only if a timer of this call has expired, also when callbacks
\* of earlier calls are still on their way.
THEOREM TimeoutsAreOwn == Spec => TimeoutIsOwn
<1>1. ASSUME HookInv, [Next]_vars
      PROVE  [pc # "idle" /\ pc' = "idle" /\ result' = "ETIMEDOUT" => tinfo \in expired]_vars
  <2> SUFFICES ASSUME Next, pc # "idle", pc' = "idle", result' = "ETIMEDOUT"
               PROVE  tinfo \in expired
    BY <1>1
  <2>1. Woken
    <3>1. ASSUME NEW r \in {"ok", "error"} PROVE ~FunReturns(r)
      BY <3>1 DEF FunReturns, Return
    <3>2. ~AddEventFails
      BY DEF AddEventFails, Return
    <3>3. FiberStep => Woken
      BY <3>1, <3>2 DEF FiberStep, FunAgain, NoTimer, AddEvent, Yield, Resume, AddTimer, Go
    <3>4. \A k \in Timers : ~CallbackStep(k)
      BY DEF CallbackStep, TimerExpires, SleepOver, CallbackLocks, CallbackMarks, CallbackCancels,
         callVars
    <3>5. \A o \in Ops : /\ \A r \in {"ok", "error"} : ~CallUnhooked(o, r)
                         /\ \A i \in Infos : ~Call(o, i)
      BY DEF CallUnhooked, Call, Go
    <3>6. ~(EventFires \/ DataArrives \/ DataStolen \/ CloseCancels \/ CloseDeletes \/ CloseCloses)
      BY DEF EventFires, DataArrives, DataStolen, CloseCancels, CloseDeletes, CloseCloses, callVars
    <3> QED
      BY <3>3, <3>4, <3>5, <3>6, Zenon DEF Next
  <2>2. tinfo \in cancelled
    BY <2>1 DEF Woken, Return, SoError
  <2> QED
    BY <1>1, <2>2 DEF HookInv, TimeoutInv
<1> QED
  BY <1>1, HookInductive, PTL DEF Spec, TimeoutIsOwn

\* A sleep ends by its own timer, and connect() reports success only when the connection is made or
\* close() or a callback of an earlier call has ended its wait, never after a timeout of its own.
THEOREM SuccessesAreEarned == Spec => SuccessIsEarned
<1>1. ASSUME HookInv, [Next]_vars
      PROVE  [pc = "woken" /\ pc' = "idle" /\ result' = "ok" =>
                 IF op = "sleep" THEN cause = "timer" ELSE data \/ cause \in {"close", "late"}]_vars
  <2> SUFFICES ASSUME Next, pc = "woken", pc' = "idle", result' = "ok"
               PROVE  IF op = "sleep" THEN cause = "timer" ELSE data \/ cause \in {"close", "late"}
    BY <1>1
  <2>1. CauseInv
    BY <1>1 DEF HookInv
  <2>2. CASE op = "sleep"
    BY <2>1, <2>2 DEF CauseInv
  <2>3. CASE op # "sleep"
    <3>1. Woken
      BY WokenEnds
    <3>2. tinfo \notin cancelled /\ op = "connect"
      BY <2>3, <3>1 DEF Woken, Return
    <3> QED
      BY <2>1, <2>3, <3>2 DEF CauseInv, Causes
  <2> QED
    BY <2>2, <2>3
<1> QED
  BY <1>1, HookInductive, PTL DEF Spec, SuccessIsEarned

-----------------------------------------------------------------------------
(***************************************************************************)
(* The refinement of WakeProtocol                                          *)
(***************************************************************************)
WakeState == IF Armed THEN "armed" ELSE IF wakes > 0 THEN "fired" ELSE "none"

\* The three steps of the protocol, in terms of the state of the one fiber.
SleepTimer == op = "sleep" /\ timer # None /\ tstate[timer] \in {"set", "listed"}
Moves ==
    \/ WakeState' = WakeState
    \/ WakeState = "none" /\ WakeState' = "armed"
    \/ WakeState = "armed" /\ WakeState' = "fired"
    \/ WakeState = "fired" /\ WakeState' = "none"
\* The moves of WakeState are steps of WakeProtocol.
LEMMA ProtocolSteps ==
    ASSUME Moves
    PROVE  [Protocol!Next]_([f \in {"fiber"} |-> WakeState])
<1> DEFINE w == [f \in {"fiber"} |-> WakeState]
<1>1. w' = [f \in {"fiber"} |-> WakeState']
  OBVIOUS
<1>2. w["fiber"] = WakeState /\ w' = [w EXCEPT !["fiber"] = WakeState']
  BY <1>1
<1>3. CASE WakeState' = WakeState
  BY <1>1, <1>3
<1>4. CASE WakeState' # WakeState
  BY <1>2, <1>4, Zenon DEF Protocol!Next, Protocol!Arm, Protocol!Fire, Protocol!Resume, Protocol!Step,
     WakeState, Moves
<1> QED
  BY <1>3, <1>4

\* A step that leaves the event, the wake-ups and the timer of a sleeping fiber alone.
LEMMA QuietMoves ==
    ASSUME HookInv, UNCHANGED <<waiter, wakes>>,
           SleepTimer' = SleepTimer
    PROVE  Moves
BY DEF Moves, WakeState, Armed, SleepTimer

\* Every step of the hooks is one of those moves.
LEMMA StepsMove == ASSUME HookInv, [Next]_vars PROVE Moves
<1> USE DEF HookInv
<1>0. /\ waiter \in BOOLEAN /\ wakes \in 0..1 /\ op \in Ops \cup {None} /\ pc \in Pcs
      /\ tstate \in [Timers -> {"over", "set", "listed", "locked", "marked"}]
      /\ timer \in Timers \cup {None} /\ CallInv /\ WaitInv
  BY DEF TypeOK
<1>1. ASSUME UNCHANGED <<waiter, wakes, op, timer, tstate>> PROVE Moves
  BY <1>1, QuietMoves, Zenon DEF SleepTimer
<1>2. ASSUME UNCHANGED <<waiter, wakes>>, op # "sleep", op' # "sleep" PROVE Moves
  BY <1>2, QuietMoves, Zenon DEF SleepTimer
<1>3. ASSUME NEW o \in Ops, NEW i \in Infos, Call(o, i) PROVE Moves
  BY <1>0, <1>3, QuietMoves DEF SleepTimer, Call, Go, eventVars, CallInv
<1>4. ASSUME NEW r \in {"ok", "error"}, FunReturns(r) PROVE Moves
  BY <1>0, <1>2, <1>4 DEF FunReturns, Return, eventVars, CallInv, Waiting
<1>5. ASSUME NEW k \in Timers, AddTimer(k) PROVE Moves
  BY <1>0, <1>5 DEF AddTimer, eventVars, CallInv, WaitInv, Moves, WakeState, Armed, Waiting
<1>6. CASE AddEvent
  BY <1>0, <1>6 DEF AddEvent, Go, timerVars, CallInv, WaitInv, Moves, WakeState, Armed, Waiting
<1>7. CASE AddEventFails
  BY <1>0, <1>2, <1>7 DEF AddEventFails, Return, eventVars, CallInv, Waiting
<1>8. CASE Resume
  BY <1>0, <1>8 DEF Resume, Go, timerVars, eventVars, CallInv, WaitInv, Moves, WakeState, Armed, Waiting
<1>9. CASE Woken
  <2>1. waiter = FALSE /\ wakes = 0 /\ UNCHANGED <<waiter, wakes>>
    BY <1>0, <1>9 DEF Woken, WaitInv, Waiting, eventVars
  <2>2. op' = None \/ (op' = op /\ op # "sleep")
    BY <1>9 DEF Woken, Return
  <2>3. op = "sleep" => tstate[timer] \notin {"set", "listed"}
    BY <1>0, <1>9 DEF Woken, WaitInv
  <2> QED
    BY <2>1, <2>2, <2>3, QuietMoves, Zenon DEF SleepTimer
<1>10. ASSUME NEW k \in Timers, TimerExpires(k) \/ CallbackLocks(k) \/ CallbackMarks(k)
       PROVE  Moves
  <2>1. UNCHANGED <<waiter, wakes, op, timer>>
    BY <1>10 DEF TimerExpires, CallbackLocks, CallbackMarks, callVars, eventVars
  <2>2. op = "sleep" /\ timer # None =>
           (tstate[timer] \in {"set", "listed"} <=> tstate'[timer] \in {"set", "listed"})
    BY <1>0, <1>10 DEF TimerExpires, CallbackLocks, CallbackMarks
  <2> QED
    BY <2>1, <2>2, QuietMoves, Zenon DEF SleepTimer
<1>11. ASSUME NEW k \in Timers, SleepOver(k) PROVE Moves
  BY <1>0, <1>11 DEF SleepOver, callVars, eventVars, CallInv, WaitInv, Moves, WakeState, Armed, Waiting
<1>12. ASSUME NEW by \in Causes, waiter, Trigger(by), op' = op PROVE Moves
  BY <1>0, <1>12 DEF Trigger, WaitInv, Moves, WakeState, Armed
<1>13. ASSUME NEW k \in Timers, CallbackCancels(k) PROVE Moves
  <2>1. UNCHANGED <<op, timer>>
    BY <1>13 DEF CallbackCancels, callVars
  <2>2. CASE waiter /\ registered
    BY <1>12, <1>13, <2>1, <2>2 DEF CallbackCancels, CallbackOf, Causes
  <2>3. CASE ~(waiter /\ registered)
    <3>1. UNCHANGED <<waiter, wakes>>
      BY <1>13, <2>3 DEF CallbackCancels, eventVars
    <3>2. op = "sleep" /\ timer # None =>
             (tstate[timer] \in {"set", "listed"} <=> tstate'[timer] \in {"set", "listed"})
      BY <1>0, <1>13 DEF CallbackCancels
    <3> QED
      BY <2>1, <3>1, <3>2, QuietMoves, Zenon DEF SleepTimer
  <2> QED
    BY <2>2, <2>3
<1>14. CASE EventFires
  BY <1>12, <1>14 DEF EventFires, callVars, Causes
<1>15. CASE CloseCancels
  BY <1>1, <1>12, <1>15 DEF CloseCancels, callVars, timerVars, eventVars, Causes
<1>16. CASE FunAgain \/ NoTimer \/ Yield \/ DataArrives \/ DataStolen \/ CloseDeletes \/ CloseCloses
  BY <1>1, <1>16 DEF FunAgain, NoTimer, Yield, DataArrives, DataStolen, CloseDeletes, CloseCloses,
     callVars, timerVars, eventVars
<1>17. ASSUME NEW o \in Ops, NEW r \in {"ok", "error"}, CallUnhooked(o, r) PROVE Moves
  BY <1>1, <1>17 DEF CallUnhooked, timerVars, eventVars
<1>18. CASE UNCHANGED vars
  BY <1>1, <1>18 DEF vars, callVars, timerVars, eventVars
<1>19. CASE FiberStep
  BY <1>4, <1>5, <1>6, <1>7, <1>8, <1>9, <1>16, <1>19, Zenon DEF FiberStep
<1>20. ASSUME NEW k \in Timers, CallbackStep(k) PROVE Moves
  BY <1>10, <1>11, <1>13, <1>20, Zenon DEF CallbackStep
<1> QED
  BY <1>3, <1>14, <1>15, <1>16, <1>17, <1>18, <1>19, <1>20, Zenon DEF Next

\* The hooks implement WakeProtocol: for each wait the fiber is handed to a waker, scheduled
\* once and resumed, in that order, whoever of event, timer and close() comes first.
THEOREM HooksKeepProtocol == Spec => WakesFollowProtocol
<1>1. Init => Protocol!Init
  BY DEF Init, Protocol!Init, Armed
<1>2. ASSUME HookInv, [Next]_vars
      PROVE  [Protocol!Next]_([f \in {"fiber"} |-> WakeState])
  BY <1>2, StepsMove, ProtocolSteps, Zenon
<1> QED
  BY <1>1, <1>2, HookInductive, PTL DEF Spec, WakesFollowProtocol, Protocol!Spec, WakeState
=============================================================================

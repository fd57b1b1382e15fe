------------------------------ MODULE Scheduler ------------------------------
(***************************************************************************)
(* The coroutine scheduler: Scheduler::run, schedule, start and stop       *)
(* (scheduler.{h,cc}), the life of a Fiber (fiber.cc) and the three        *)
(* virtuals of IOManager through which an idle thread sleeps and is woken  *)
(* (tickle, stopping, idle in iomanager.cc).                               *)
(*                                                                         *)
(* A scheduler thread is a process with a program counter.  m_mutex is     *)
(* explicit, because run() reads the states of fibers while it holds it    *)
(* and other threads write those states without it.  Everything else that  *)
(* happens under the lock is one action.                                   *)
(*                                                                         *)
(* What a task does is the environment: it may schedule another task,      *)
(* register itself with something that will schedule it again (an event or *)
(* a timer: `Arm'), suspend, or finish.  A waker fires once, possibly      *)
(* before the fiber it wakes has suspended.  do_io, sleep and connect keep *)
(* to that protocol, and nothing in Scheduler or Fiber enforces it.  The   *)
(* waiters of a FiberSemaphore keep to it too, but IOManager::stopping     *)
(* does not know them and stop() does not wait for them: not modelled.     *)
(***************************************************************************)
EXTENDS Integers, FiniteSets, Sequences

CONSTANTS
    Workers,      \* the threads start() creates
    Roots,        \* {the calling thread} if use_caller, {} otherwise
    UserFibers,   \* fibers made by the program and scheduled as fibers
    CbFibers,     \* fiber objects run() makes to execute callbacks
    Cbs,          \* callbacks that are scheduled
    None,         \* a null pointer; as a thread, the -1 of "any thread"
    MaxYields,    \* bound: how often tasks arm a waker or yield READY
    WaitAfterStop \* whether tasks still wait for events after stop() was called

Threads == Workers \cup Roots
Fibers  == UserFibers \cup CbFibers
Jobs    == UserFibers \cup Cbs       \* what the program asks to be run

Unscheduled == "unscheduled"

ASSUME SchedulerAssumption ==
    /\ IsFiniteSet(Threads)
    /\ Workers \cap Roots = {}
    /\ \A r, s \in Roots : r = s
    /\ UserFibers \cap CbFibers = {}
    /\ Fibers \cap Cbs = {}
    /\ None \notin Threads \cup Fibers \cup Cbs
    /\ Unscheduled \notin Threads \cup {None}
    /\ MaxYields \in Nat /\ WaitAfterStop \in BOOLEAN

VARIABLES
    m_mutex,              \* the thread that holds m_mutex, or None
    m_fibers,             \* the queue of [task, thread] (FiberAndThread)
    m_activeThreadCount,
    m_idleThreadCount,
    m_stopping,
    m_autoStop,
    pipe,                 \* an edge on m_tickleFds[0] that no epoll_wait has returned
    m_state,              \* Fiber::m_state; "FREE" for an object that does not exist
    m_cb,                 \* Fiber::m_cb: the job a fiber executes
    wake,                 \* "none", "armed": a waker holds the fiber, "fired": it has scheduled it
    pc,                   \* where each thread is in run() or idle()
    it,                   \* run(): the iterator of the scan
    tickle_me,            \* run(): the local of that name
    ft,                   \* run(): the task taken from the queue
    cb_fiber,             \* run(): the fiber kept for callbacks
    running,              \* the fiber that is swapped in on the thread
    idle_term,            \* idle_fiber->getState() == TERM
    stop_pc,              \* where the caller of stop() is
    callers,              \* callers of schedule() that have pushed and must still tickle
    pin,                  \* the thread argument each job was scheduled with
    done,                 \* jobs whose function has returned or thrown
    yields                \* counts Arm and YieldToReady, see MaxYields

queueVars  == <<m_fibers, m_activeThreadCount>>
stopVars   == <<m_stopping, m_autoStop, stop_pc>>
fiberVars  == <<m_state, m_cb, wake>>
localVars  == <<it, tickle_me, ft, cb_fiber, running, idle_term>>
jobVars    == <<pin, done, yields>>
vars == <<m_mutex, queueVars, m_idleThreadCount, stopVars, pipe, fiberVars,
          pc, localVars, callers, jobVars>>

\* A thread is in one of these places of run() between ++ and -- of the counter.
ActivePcs == {"took", "dispatch_task", "run", "run_tickle", "out"}
IdlePcs   == {"stopping_io", "stopping_queue", "epoll", "idle_out"}
OtherPcs  == {"new", "lock", "scan", "miss", "dispatch_idle", "settle", "again", "exited"}
StopPcs   == {"none", "flag", "early_io", "early_queue", "tickle", "root_io", "root_queue", "call",
              "join", "done"}

Entry == [task : Fibers \cup Cbs, thread : Threads \cup {None}]

TypeOK ==
    /\ m_mutex \in Threads \cup {None}
    /\ m_fibers \in Seq(Entry)
    /\ m_activeThreadCount \in Nat
    /\ m_idleThreadCount \in Nat
    /\ m_stopping \in BOOLEAN /\ m_autoStop \in BOOLEAN /\ pipe \in BOOLEAN
    /\ m_state \in [Fibers -> {"FREE", "INIT", "HOLD", "EXEC", "TERM", "READY", "EXCEPT"}]
    /\ m_cb \in [Fibers -> Jobs \cup {None}]
    /\ wake \in [Fibers -> {"none", "armed", "fired"}]
    /\ pc \in [Threads -> ActivePcs \cup IdlePcs \cup OtherPcs]
    /\ it \in [Threads -> Nat]
    /\ tickle_me \in [Threads -> BOOLEAN]
    /\ ft \in [Threads -> Fibers \cup Cbs \cup {None}]
    /\ cb_fiber \in [Threads -> CbFibers \cup {None}]
    /\ running \in [Threads -> Fibers \cup {None}]
    /\ idle_term \in [Threads -> BOOLEAN]
    /\ stop_pc \in StopPcs
    /\ callers \in Nat
    /\ pin \in [Jobs -> Threads \cup {None, Unscheduled}]
    /\ done \subseteq Jobs
    /\ yields \in Nat

Init ==
    /\ m_mutex = None
    /\ m_fibers = <<>>
    /\ m_activeThreadCount = 0 /\ m_idleThreadCount = 0
    /\ m_stopping = TRUE /\ m_autoStop = FALSE /\ stop_pc = "none"
    /\ pipe = FALSE
    /\ m_state = [f \in Fibers |-> IF f \in UserFibers THEN "INIT" ELSE "FREE"]
    /\ m_cb = [f \in Fibers |-> IF f \in UserFibers THEN f ELSE None]
    /\ wake = [f \in Fibers |-> "none"]
    /\ pc = [t \in Threads |-> "new"]
    /\ it = [t \in Threads |-> 1]
    /\ tickle_me = [t \in Threads |-> FALSE]
    /\ ft = [t \in Threads |-> None]
    /\ cb_fiber = [t \in Threads |-> None]
    /\ running = [t \in Threads |-> None]
    /\ idle_term = [t \in Threads |-> FALSE]
    /\ callers = 0
    /\ pin = [j \in Jobs |-> Unscheduled]
    /\ done = {}
    /\ yields = 0

-----------------------------------------------------------------------------
(***************************************************************************)
(* schedule() and tickle()                                                 *)
(***************************************************************************)

\* IOManager::tickle writes a byte to the pipe only if a thread counts as idle.
\* The read end is registered edge-triggered: any number of bytes is one edge.
tickle == pipe' = (pipe \/ m_idleThreadCount > 0)

\* scheduleNoLock: the caller must tickle if the queue was empty.
NeedTickle == m_fibers = <<>>
scheduleNoLock(x, th) == m_fibers' = Append(m_fibers, [task |-> x, thread |-> th])

\* schedule() by a thread that is not running a task of this scheduler, up to
\* the unlock.  Callers do not schedule once stop() has been called.
schedule(j, th) ==
    /\ stop_pc = "none" /\ pin[j] = Unscheduled
    /\ m_mutex = None
    /\ scheduleNoLock(j, th)
    /\ pin' = [pin EXCEPT ![j] = th]
    /\ callers' = IF NeedTickle THEN callers + 1 ELSE callers
    /\ UNCHANGED <<m_mutex, m_activeThreadCount, m_idleThreadCount, stopVars, pipe,
                   fiberVars, pc, localVars, done, yields>>

\* The waker that was armed calls schedule(fiber), which names no thread.
WakerFires(f) ==
    /\ wake[f] = "armed"
    /\ m_mutex = None
    /\ scheduleNoLock(f, None)
    /\ wake' = [wake EXCEPT ![f] = "fired"]
    /\ callers' = IF NeedTickle THEN callers + 1 ELSE callers
    /\ UNCHANGED <<m_mutex, m_activeThreadCount, m_idleThreadCount, stopVars, pipe,
                   m_state, m_cb, pc, localVars, jobVars>>

\* The rest of such a schedule(): the tickle, after the unlock.
CallerTickles ==
    /\ callers > 0
    /\ callers' = callers - 1
    /\ tickle
    /\ UNCHANGED <<m_mutex, queueVars, m_idleThreadCount, stopVars, fiberVars, pc,
                   localVars, jobVars>>

-----------------------------------------------------------------------------
(***************************************************************************)
(* run(): taking a task from the queue                                     *)
(***************************************************************************)
\* std::list::erase of the i-th entry.
erase(s, i) == [k \in 1..(Len(s) - 1) |-> IF k < i THEN s[k] ELSE s[k + 1]]

Goto(t, here, there) == pc[t] = here /\ pc' = [pc EXCEPT ![t] = there]

LockQueue(t) ==
    /\ Goto(t, "lock", "scan")
    /\ m_mutex = None
    /\ m_mutex' = t
    /\ UNCHANGED <<queueVars, m_idleThreadCount, stopVars, pipe, fiberVars, localVars,
                   callers, jobVars>>

Elsewhere(t, e) == e.thread # None /\ e.thread # t
\* Mutant: run() does not look at the state of the fiber.
ExecutingUnchecked(e) == FALSE
Executing(e)    == e.task \in Fibers /\ m_state[e.task] = "EXEC"

\* An entry for another thread is left in the queue, and that thread is to be woken.
SkipElsewhere(t) ==
    /\ pc[t] = "scan" /\ it[t] <= Len(m_fibers)
    /\ Elsewhere(t, m_fibers[it[t]])
    /\ it' = [it EXCEPT ![t] = @ + 1]
    /\ tickle_me' = [tickle_me EXCEPT ![t] = TRUE]
    /\ UNCHANGED <<m_mutex, queueVars, m_idleThreadCount, stopVars, pipe, fiberVars, pc, ft,
                   cb_fiber, running, idle_term, callers, jobVars>>

\* Mutant: the entry is erased before the state is looked at.
SkipExecutingErases(t) ==
    /\ pc[t] = "scan" /\ it[t] <= Len(m_fibers)
    /\ ~Elsewhere(t, m_fibers[it[t]])
    /\ Executing(m_fibers[it[t]])
    /\ m_fibers' = erase(m_fibers, it[t])
    /\ UNCHANGED <<m_mutex, m_activeThreadCount, m_idleThreadCount, stopVars, pipe, fiberVars, pc,
                   localVars, callers, jobVars>>

\* A fiber that has been woken but has not finished suspending is left in the queue.
SkipExecuting(t) ==
    /\ pc[t] = "scan" /\ it[t] <= Len(m_fibers)
    /\ ~Elsewhere(t, m_fibers[it[t]])
    /\ Executing(m_fibers[it[t]])
    /\ it' = [it EXCEPT ![t] = @ + 1]
    /\ UNCHANGED <<m_mutex, queueVars, m_idleThreadCount, stopVars, pipe, fiberVars, pc,
                   tickle_me, ft, cb_fiber, running, idle_term, callers, jobVars>>

\* Any other entry is taken.  erase(it++) leaves the iterator on the next entry, if
\* any.  (`it' and `tickle_me' go out of scope and are set for the next iteration.)
Take(t) ==
    /\ pc[t] = "scan" /\ it[t] <= Len(m_fibers)
    /\ ~Elsewhere(t, m_fibers[it[t]])
    /\ ~Executing(m_fibers[it[t]])
    /\ ft' = [ft EXCEPT ![t] = m_fibers[it[t]].task]
    /\ m_fibers' = erase(m_fibers, it[t])
    /\ m_activeThreadCount' = m_activeThreadCount + 1
    /\ m_mutex' = None
    /\ it' = [it EXCEPT ![t] = 1]
    /\ tickle_me' = [tickle_me EXCEPT ![t] = FALSE]
    /\ pc' = [pc EXCEPT ![t] = IF tickle_me[t] \/ it[t] < Len(m_fibers)
                               THEN "took" ELSE "dispatch_task"]
    /\ UNCHANGED <<m_idleThreadCount, stopVars, pipe, fiberVars, cb_fiber, running,
                   idle_term, callers, jobVars>>

TakeNothing(t) ==
    /\ Goto(t, "scan", IF tickle_me[t] THEN "miss" ELSE "dispatch_idle")
    /\ it[t] > Len(m_fibers)
    /\ m_mutex' = None
    /\ it' = [it EXCEPT ![t] = 1]
    /\ tickle_me' = [tickle_me EXCEPT ![t] = FALSE]
    /\ UNCHANGED <<queueVars, m_idleThreadCount, stopVars, pipe, fiberVars, ft, cb_fiber,
                   running, idle_term, callers, jobVars>>

\* if(tickle_me) tickle(), outside the lock.
ScanTickle(t) ==
    /\ \/ Goto(t, "took", "dispatch_task")
       \/ Goto(t, "miss", "dispatch_idle")
    /\ tickle
    /\ UNCHANGED <<m_mutex, queueVars, m_idleThreadCount, stopVars, fiberVars, localVars,
                   callers, jobVars>>

-----------------------------------------------------------------------------
(***************************************************************************)
(* run(): executing the task                                               *)
(***************************************************************************)
Finished(f) == m_state[f] \in {"TERM", "EXCEPT"}

\* Fiber::swapIn.  The write of EXEC is not under the lock the task was taken under.
swapIn(t, f) ==
    /\ m_state' = [m_state EXCEPT ![f] = "EXEC"]
    /\ wake' = [wake EXCEPT ![f] = "none"]
    /\ running' = [running EXCEPT ![t] = f]
    /\ ft' = [ft EXCEPT ![t] = None]

RunFiber(t) ==
    /\ Goto(t, "dispatch_task", "run")
    /\ ft[t] \in Fibers /\ ~Finished(ft[t])
    /\ swapIn(t, ft[t])
    /\ UNCHANGED <<m_mutex, queueVars, m_idleThreadCount, stopVars, pipe, m_cb, it, tickle_me,
                   cb_fiber, idle_term, callers, jobVars>>

\* Mutant: a kept cb_fiber is swapped in without reset().
RunCbStale(t) ==
    /\ Goto(t, "dispatch_task", "run")
    /\ ft[t] \in Cbs
    /\ \E f \in CbFibers :
          /\ IF cb_fiber[t] # None THEN f = cb_fiber[t] ELSE m_state[f] = "FREE"
          /\ cb_fiber' = [cb_fiber EXCEPT ![t] = f]
          /\ m_cb' = IF cb_fiber[t] # None THEN m_cb ELSE [m_cb EXCEPT ![f] = ft[t]]
          /\ swapIn(t, f)
    /\ UNCHANGED <<m_mutex, queueVars, m_idleThreadCount, stopVars, pipe, it, tickle_me,
                   idle_term, callers, jobVars>>

\* cb_fiber is reused if there is one, and made otherwise.
RunCb(t) ==
    /\ Goto(t, "dispatch_task", "run")
    /\ ft[t] \in Cbs
    /\ \E f \in CbFibers :
          /\ IF cb_fiber[t] # None THEN f = cb_fiber[t] ELSE m_state[f] = "FREE"
          /\ cb_fiber' = [cb_fiber EXCEPT ![t] = f]
          /\ m_cb' = [m_cb EXCEPT ![f] = ft[t]]
          /\ swapIn(t, f)
    /\ UNCHANGED <<m_mutex, queueVars, m_idleThreadCount, stopVars, pipe, it, tickle_me,
                   idle_term, callers, jobVars>>

\* A fiber that finished with a waker still armed is dropped when that fires.
DropFinished(t) ==
    /\ Goto(t, "dispatch_task", "lock")
    /\ ft[t] \in Fibers /\ Finished(ft[t])
    /\ ft' = [ft EXCEPT ![t] = None]
    /\ m_activeThreadCount' = m_activeThreadCount - 1
    /\ UNCHANGED <<m_mutex, m_fibers, m_idleThreadCount, stopVars, pipe, fiberVars, it,
                   tickle_me, cb_fiber, running, idle_term, callers, jobVars>>

\* The running task hands its fiber to a waker: addEvent or addTimer.
Arm(t) ==
    /\ pc[t] = "run" /\ wake[running[t]] = "none"
    /\ stop_pc = "none" \/ WaitAfterStop
    /\ yields < MaxYields
    /\ yields' = yields + 1
    /\ wake' = [wake EXCEPT ![running[t]] = "armed"]
    /\ UNCHANGED <<m_mutex, queueVars, m_idleThreadCount, stopVars, pipe, m_state, m_cb, pc,
                   localVars, callers, pin, done>>

\* The running task schedules a job, on any thread or on its own, as
\* tests/test_scheduler.cc does.
TaskSchedules(t, j, th) ==
    /\ pc[t] = "run" /\ pin[j] = Unscheduled
    /\ th \in {None, t}
    /\ m_mutex = None
    /\ scheduleNoLock(j, th)
    /\ pin' = [pin EXCEPT ![j] = th]
    /\ pc' = IF NeedTickle THEN [pc EXCEPT ![t] = "run_tickle"] ELSE pc
    /\ UNCHANGED <<m_mutex, m_activeThreadCount, m_idleThreadCount, stopVars, pipe, fiberVars,
                   localVars, callers, done, yields>>

TaskTickles(t) ==
    /\ Goto(t, "run_tickle", "run")
    /\ tickle
    /\ UNCHANGED <<m_mutex, queueVars, m_idleThreadCount, stopVars, fiberVars, localVars,
                   callers, jobVars>>

\* Mutant: HOLD is written before the context is saved.
YieldToHoldEarly(t) ==
    /\ Goto(t, "run", "out")
    /\ wake[running[t]] # "none"
    /\ m_state' = [m_state EXCEPT ![running[t]] = "HOLD"]
    /\ UNCHANGED <<m_mutex, queueVars, m_idleThreadCount, stopVars, pipe, m_cb, wake, localVars,
                   callers, jobVars>>

\* YieldToHold leaves the state EXEC: run() writes HOLD once the context is saved.
\* A task suspends only if something will wake it.
YieldToHold(t) ==
    /\ Goto(t, "run", "out")
    /\ wake[running[t]] # "none"
    /\ UNCHANGED <<m_mutex, queueVars, m_idleThreadCount, stopVars, pipe, fiberVars, localVars,
                   callers, jobVars>>

\* YieldToReady writes READY before the context is saved.  A task that has armed a
\* waker does not also yield READY.
YieldToReady(t) ==
    /\ Goto(t, "run", "out")
    /\ wake[running[t]] = "none"
    /\ yields < MaxYields
    /\ yields' = yields + 1
    /\ m_state' = [m_state EXCEPT ![running[t]] = "READY"]
    /\ UNCHANGED <<m_mutex, queueVars, m_idleThreadCount, stopVars, pipe, m_cb, wake, localVars,
                   callers, pin, done>>

\* MainFunc: the function returns (TERM, m_cb cleared) or throws (EXCEPT, m_cb kept).
\* Only a fiber of the program may finish while a waker still holds it.
MainFunc(t, s) ==
    /\ Goto(t, "run", "out")
    /\ running[t] \in CbFibers => wake[running[t]] = "none"
    /\ m_state' = [m_state EXCEPT ![running[t]] = s]
    /\ m_cb' = IF s = "TERM" THEN [m_cb EXCEPT ![running[t]] = None] ELSE m_cb
    /\ done' = done \cup {m_cb[running[t]]}
    /\ UNCHANGED <<m_mutex, queueVars, m_idleThreadCount, stopVars, pipe, wake, localVars,
                   callers, pin, yields>>

\* Mutant: the thread stays counted as active.
SwappedOutCounted(t) ==
    /\ Goto(t, "out", "settle")
    /\ UNCHANGED <<m_mutex, queueVars, m_idleThreadCount, stopVars, pipe, fiberVars, localVars,
                   callers, jobVars>>

\* swapIn has returned: --m_activeThreadCount comes before the task is put back.
SwappedOut(t) ==
    /\ Goto(t, "out", "settle")
    /\ m_activeThreadCount' = m_activeThreadCount - 1
    /\ UNCHANGED <<m_mutex, m_fibers, m_idleThreadCount, stopVars, pipe, fiberVars, localVars,
                   callers, jobVars>>

ViaCb(t) == cb_fiber[t] # None /\ running[t] = cb_fiber[t]
\* Mutant: cb_fiber still points to a fiber that has suspended.
DropRunningKeepsCb(t) ==
    /\ running' = [running EXCEPT ![t] = None]
    /\ UNCHANGED cb_fiber
DropRunning(t) ==
    /\ running' = [running EXCEPT ![t] = None]
    /\ cb_fiber' = IF ViaCb(t) THEN [cb_fiber EXCEPT ![t] = None] ELSE cb_fiber

\* READY: schedule(fiber), which names no thread whatever the task was pinned to.
SettleReady(t) ==
    /\ Goto(t, "settle", IF NeedTickle THEN "again" ELSE "lock")
    /\ m_state[running[t]] = "READY"
    /\ m_mutex = None
    /\ scheduleNoLock(running[t], None)
    /\ DropRunning(t)
    /\ UNCHANGED <<m_mutex, m_activeThreadCount, m_idleThreadCount, stopVars, pipe, fiberVars,
                   it, tickle_me, ft, idle_term, callers, jobVars>>

SettleTickle(t) ==
    /\ Goto(t, "again", "lock")
    /\ tickle
    /\ UNCHANGED <<m_mutex, queueVars, m_idleThreadCount, stopVars, fiberVars, localVars,
                   callers, jobVars>>

\* Mutant: the callback fiber is kept without reset(nullptr).
SettleFinishedNoReset(t) ==
    /\ Goto(t, "settle", "lock")
    /\ Finished(running[t])
    /\ running' = [running EXCEPT ![t] = None]
    /\ UNCHANGED <<m_mutex, queueVars, m_idleThreadCount, stopVars, pipe, fiberVars, it, tickle_me,
                   ft, cb_fiber, idle_term, callers, jobVars>>

\* Finished: the callback fiber is reset and kept; a callback fiber that had
\* suspended in the meantime is freed with the last pointer to it.
SettleFinished(t) ==
    /\ Goto(t, "settle", "lock")
    /\ Finished(running[t])
    /\ running' = [running EXCEPT ![t] = None]
    /\ IF running[t] \in CbFibers
       THEN /\ m_cb' = [m_cb EXCEPT ![running[t]] = None]
            /\ m_state' = [m_state EXCEPT ![running[t]] = IF ViaCb(t) THEN "INIT" ELSE "FREE"]
       ELSE UNCHANGED <<m_cb, m_state>>
    /\ UNCHANGED <<m_mutex, queueVars, m_idleThreadCount, stopVars, pipe, wake, it, tickle_me, ft,
                   cb_fiber, idle_term, callers, jobVars>>

SettleHold(t) ==
    /\ Goto(t, "settle", "lock")
    /\ m_state[running[t]] = "EXEC"
    /\ m_state' = [m_state EXCEPT ![running[t]] = "HOLD"]
    /\ DropRunning(t)
    /\ UNCHANGED <<m_mutex, queueVars, m_idleThreadCount, stopVars, pipe, m_cb, wake, it,
                   tickle_me, ft, idle_term, callers, jobVars>>

-----------------------------------------------------------------------------
(***************************************************************************)
(* run() and IOManager::idle() when there is nothing to take               *)
(***************************************************************************)

EnterIdle(t) ==
    /\ Goto(t, "dispatch_idle", "stopping_io")
    /\ ~idle_term[t]
    /\ m_idleThreadCount' = m_idleThreadCount + 1
    /\ UNCHANGED <<m_mutex, queueVars, stopVars, pipe, fiberVars, localVars, callers, jobVars>>

ExitRun(t) ==
    /\ Goto(t, "dispatch_idle", "exited")
    /\ idle_term[t]
    /\ UNCHANGED <<m_mutex, queueVars, m_idleThreadCount, stopVars, pipe, fiberVars, localVars,
                   callers, jobVars>>

\* IOManager::stopping: first, is a timer or an event pending; every waker is one of these ...
Pending == \E f \in Fibers : wake[f] = "armed"
\* Mutant: stopping() does not look at the queue.
DrainedIgnoresQueue == m_autoStop /\ m_stopping /\ m_activeThreadCount = 0
\* ... then, under the lock, Scheduler::stopping.
Drained == m_autoStop /\ m_stopping /\ m_fibers = <<>> /\ m_activeThreadCount = 0

IdleChecksPending(t) ==
    /\ Goto(t, "stopping_io", IF Pending THEN "epoll" ELSE "stopping_queue")
    /\ UNCHANGED <<m_mutex, queueVars, m_idleThreadCount, stopVars, pipe, fiberVars, localVars,
                   callers, jobVars>>

IdleChecksQueue(t) ==
    /\ Goto(t, "stopping_queue", IF Drained THEN "idle_out" ELSE "epoll")
    /\ m_mutex = None
    /\ idle_term' = [idle_term EXCEPT ![t] = Drained]
    /\ UNCHANGED <<m_mutex, queueVars, m_idleThreadCount, stopVars, pipe, fiberVars, it,
                   tickle_me, ft, cb_fiber, running, callers, jobVars>>

\* epoll_wait returns the edge of the pipe to one thread, which drains the pipe,
\* or gives up after MAX_TIMEOUT.  Then idle() yields.
EpollTickled(t) ==
    /\ Goto(t, "epoll", "idle_out")
    /\ pipe /\ pipe' = FALSE
    /\ UNCHANGED <<m_mutex, queueVars, m_idleThreadCount, stopVars, fiberVars, localVars,
                   callers, jobVars>>

\* Mutant: epoll_wait is called with timeout -1.
EpollForever(t) == FALSE

EpollTimeout(t) ==
    /\ Goto(t, "epoll", "idle_out")
    /\ UNCHANGED <<m_mutex, queueVars, m_idleThreadCount, stopVars, pipe, fiberVars, localVars,
                   callers, jobVars>>

LeaveIdle(t) ==
    /\ Goto(t, "idle_out", "lock")
    /\ m_idleThreadCount' = m_idleThreadCount - 1
    /\ UNCHANGED <<m_mutex, queueVars, stopVars, pipe, fiberVars, localVars, callers, jobVars>>

-----------------------------------------------------------------------------
(***************************************************************************)
(* start() and stop()                                                      *)
(***************************************************************************)
StopGoto(here, there) == stop_pc = here /\ stop_pc' = there

\* start() returns at once unless m_stopping; it holds m_mutex until all
\* the threads exist, so it is one step.
start ==
    /\ m_stopping /\ stop_pc = "none"
    /\ m_mutex = None
    /\ m_stopping' = FALSE
    /\ pc' = [t \in Threads |-> IF t \in Workers THEN "lock" ELSE pc[t]]
    /\ UNCHANGED <<m_mutex, queueVars, m_idleThreadCount, m_autoStop, stop_pc, pipe, fiberVars,
                   localVars, callers, jobVars>>

\* stop() writes the two flags without the lock.
StopAuto ==
    /\ StopGoto("none", "flag") /\ ~m_stopping
    /\ m_autoStop' = TRUE
    /\ UNCHANGED <<m_mutex, queueVars, m_idleThreadCount, m_stopping, pipe, fiberVars, pc,
                   localVars, callers, jobVars>>

\* With no thread but the calling one, stop() first returns at once if stopping().
StopFlag ==
    /\ StopGoto("flag", IF Workers = {} /\ Roots # {} THEN "early_io" ELSE "tickle")
    /\ m_stopping' = TRUE
    /\ UNCHANGED <<m_mutex, queueVars, m_idleThreadCount, m_autoStop, pipe, fiberVars, pc,
                   localVars, callers, jobVars>>

EarlyChecksPending ==
    /\ StopGoto("early_io", IF Pending THEN "tickle" ELSE "early_queue")
    /\ UNCHANGED <<m_mutex, queueVars, m_idleThreadCount, m_stopping, m_autoStop, pipe,
                   fiberVars, pc, localVars, callers, jobVars>>

EarlyChecksQueue ==
    /\ StopGoto("early_queue", IF Drained THEN "done" ELSE "tickle")
    /\ m_mutex = None
    /\ UNCHANGED <<m_mutex, queueVars, m_idleThreadCount, m_stopping, m_autoStop, pipe,
                   fiberVars, pc, localVars, callers, jobVars>>

\* One tickle() per thread: consecutive writes are one edge.
StopTickle ==
    /\ StopGoto("tickle", IF Roots = {} THEN "join" ELSE "root_io")
    /\ tickle
    /\ UNCHANGED <<m_mutex, queueVars, m_idleThreadCount, m_stopping, m_autoStop, fiberVars, pc,
                   localVars, callers, jobVars>>

\* use_caller: unless stopping(), the calling thread works the queue too.
RootChecksPending ==
    /\ StopGoto("root_io", IF Pending THEN "call" ELSE "root_queue")
    /\ UNCHANGED <<m_mutex, queueVars, m_idleThreadCount, m_stopping, m_autoStop, pipe,
                   fiberVars, pc, localVars, callers, jobVars>>

RootChecksQueue ==
    /\ StopGoto("root_queue", IF Drained THEN "join" ELSE "call")
    /\ m_mutex = None
    /\ UNCHANGED <<m_mutex, queueVars, m_idleThreadCount, m_stopping, m_autoStop, pipe,
                   fiberVars, pc, localVars, callers, jobVars>>

RootCall ==
    /\ StopGoto("call", "join")
    /\ pc' = [t \in Threads |-> IF t \in Roots THEN "lock" ELSE pc[t]]
    /\ UNCHANGED <<m_mutex, queueVars, m_idleThreadCount, m_stopping, m_autoStop, pipe,
                   fiberVars, localVars, callers, jobVars>>

\* call() has returned, if it was made, and every thread has been joined.
Join ==
    /\ StopGoto("join", "done")
    /\ m_mutex = None
    /\ \A t \in Threads : pc[t] = "exited" \/ (t \in Roots /\ pc[t] = "new")
    /\ UNCHANGED <<m_mutex, queueVars, m_idleThreadCount, m_stopping, m_autoStop, pipe,
                   fiberVars, pc, localVars, callers, jobVars>>

stop ==
    \/ StopFlag \/ EarlyChecksPending \/ EarlyChecksQueue \/ StopTickle
    \/ RootChecksPending \/ RootChecksQueue \/ RootCall \/ Join

-----------------------------------------------------------------------------
RunStep(t) ==
    \/ LockQueue(t) \/ SkipElsewhere(t) \/ SkipExecuting(t) \/ Take(t) \/ TakeNothing(t)
    \/ ScanTickle(t)
    \/ RunFiber(t) \/ RunCb(t) \/ DropFinished(t)
    \/ SwappedOut(t) \/ SettleReady(t) \/ SettleTickle(t) \/ SettleFinished(t) \/ SettleHold(t)

IdleStep(t) ==
    \/ EnterIdle(t) \/ ExitRun(t) \/ IdleChecksPending(t) \/ IdleChecksQueue(t)
    \/ EpollTickled(t) \/ EpollTimeout(t) \/ LeaveIdle(t)

TaskStep(t) ==
    \/ TaskTickles(t) \/ YieldToHold(t) \/ YieldToReady(t)
    \/ \E s \in {"TERM", "EXCEPT"} : MainFunc(t, s)

\* After join() returns nothing is left to do; any thread may rest there.
Stopped == stop_pc = "done" /\ callers = 0 /\ UNCHANGED vars

Next ==
    \/ \E j \in Jobs, th \in Threads \cup {None} : schedule(j, th)
    \/ \E f \in Fibers : WakerFires(f)
    \/ CallerTickles
    \/ \E t \in Threads :
          \/ RunStep(t) \/ IdleStep(t) \/ TaskStep(t) \/ Arm(t)
          \/ \E j \in Jobs, th \in Threads \cup {None} : TaskSchedules(t, j, th)
    \/ start \/ StopAuto \/ stop
    \/ Stopped

(***************************************************************************)
(* Fairness: the kernel runs every thread and serves every waiter of a     *)
(* mutex (hence strong fairness), epoll_wait returns after its timeout, a  *)
(* task does not compute for ever, an armed waker fires, and a stop() that *)
(* was begun goes on.  Nothing obliges the program to schedule anything or *)
(* to call stop().                                                         *)
(***************************************************************************)
Fairness ==
    /\ \A t \in Threads : SF_vars(RunStep(t) \/ IdleStep(t) \/ TaskStep(t))
    /\ \A f \in Fibers : SF_vars(WakerFires(f))
    /\ WF_vars(CallerTickles)
    /\ SF_vars(stop)

Spec == Init /\ [][Next]_vars
FairSpec == Spec /\ Fairness

-----------------------------------------------------------------------------
(***************************************************************************)
(* Properties                                                              *)
(***************************************************************************)
QueuedTasks == {m_fibers[i].task : i \in 1..Len(m_fibers)}
TakenTasks  == {ft[t] : t \in Threads} \ {None}
RunningFibers == {running[t] : t \in Threads} \ {None}

\* A fiber is swapped in on at most one thread at a time, although run() checks for
\* EXEC under the lock and Fiber::swapIn writes EXEC after releasing it.
OneThreadPerFiber ==
    \A t, u \in Threads : running[t] # None /\ running[t] = running[u] => t = u

\* The assertions of Fiber: swapIn is never called on a fiber that is EXEC
\* (fiber.cc:136), and reset only on one that is INIT, TERM or EXCEPT (fiber.cc:101).
FiberAssertions ==
    \A t \in Threads : ft[t] # None =>
        /\ ft[t] \in Fibers => m_state[ft[t]] # "EXEC"
        /\ ft[t] \in Cbs /\ cb_fiber[t] # None => m_state[cb_fiber[t]] \in {"INIT", "TERM", "EXCEPT"}

\* m_activeThreadCount and m_idleThreadCount are atomics updated outside the lock, on
\* five paths through run(): they always equal the number of threads on those paths,
\* so neither wraps below zero and stopping() never sees a task that is not counted.
CountersExact ==
    /\ m_activeThreadCount = Cardinality({t \in Threads : pc[t] \in ActivePcs})
    /\ m_idleThreadCount = Cardinality({t \in Threads : pc[t] \in IdlePcs})

\* A suspended fiber is never stranded: something still holds it that will have it
\* run again.  In particular the wake-up that arrives before the fiber has finished
\* suspending is not lost, and ~Fiber never meets a fiber in HOLD (fiber.cc:85).
NoFiberStranded ==
    \A f \in Fibers :
        /\ m_state[f] = "HOLD" => wake[f] = "armed" \/ f \in QueuedTasks \/ f \in TakenTasks
        /\ m_state[f] = "READY" => f \in QueuedTasks \/ f \in TakenTasks \/ f \in RunningFibers

\* When stop() has returned every scheduled job has been executed to its end: a
\* worker that leaves early, on a test of pending events, queue and active count made
\* in two steps, never leaves work that nobody picks up.
StopDrains ==
    stop_pc = "done" =>
        /\ m_fibers = <<>> /\ ~Pending
        /\ \A j \in Jobs : pin[j] # Unscheduled => j \in done

\* The scheduler's side of the protocol by which fibers wait: it resumes a fiber that has
\* armed a waker only after the waker has fired.
Waits == INSTANCE WakeProtocol
WaitsFollowProtocol == Waits!Spec

\* A job, once executed to its end, is never executed again: no step swaps in a fiber
\* for a job that is done.
NeverTwice ==
    [][\A t \in Threads : running'[t] # None /\ running[t] = None =>
           m_cb'[running'[t]] \in Jobs \ done]_vars

\* Every job that is scheduled is executed to its end, whatever the interleaving of
\* pushes, tickles and threads going to sleep.
EveryJobRuns == \A j \in Jobs : pin[j] # Unscheduled /\ ~m_stopping ~> j \in done

\* A call of stop() returns.
StopReturns == stop_pc = "flag" ~> stop_pc = "done"

-----------------------------------------------------------------------------
(***************************************************************************)
(* The inductive invariant behind OneThreadPerFiber, FiberAssertions and   *)
(* NoFiberStranded.                                                        *)
(***************************************************************************)
RunPcs   == {"run", "run_tickle", "out", "settle"}
TakenPcs == {"took", "dispatch_task"}

\* What a thread holds is determined by where it is in run().
PlaceInv ==
    \A t \in Threads :
        /\ it[t] >= 1
        /\ running[t] # None <=> pc[t] \in RunPcs
        /\ ft[t] # None <=> pc[t] \in TakenPcs

\* A task is in one place: one entry of the queue, or one thread.
Distinct == \A i, j \in 1..Len(m_fibers) : m_fibers[i].task = m_fibers[j].task => i = j
UniqueInv ==
    /\ Distinct
    /\ \A t \in Threads : ft[t] \notin QueuedTasks
    /\ \A t, u \in Threads : ft[t] # None /\ ft[t] = ft[u] => t = u
    /\ \A t, u \in Threads : running[t] # None /\ running[t] = running[u] => t = u
    /\ \A t, u \in Threads : cb_fiber[t] # None /\ cb_fiber[t] = cb_fiber[u] => t = u

\* Nobody but its owner knows the fiber.
Private(f) == wake[f] = "none" /\ f \notin QueuedTasks /\ f \notin TakenTasks /\ f \notin RunningFibers

\* A fiber that is swapped in may be queued or taken at the same time only if it was
\* woken early, and then its state keeps every other thread from swapping it in.
RunningInv ==
    \A t \in Threads : running[t] # None =>
        /\ m_state[running[t]] \in {"EXEC", "READY", "TERM", "EXCEPT"}
        /\ pc[t] \in {"run", "run_tickle"} => m_state[running[t]] = "EXEC"
        /\ m_state[running[t]] = "READY" => wake[running[t]] = "none"
        /\ pc[t] \in {"out", "settle"} /\ m_state[running[t]] = "EXEC" => wake[running[t]] # "none"
        /\ running[t] \in CbFibers /\ Finished(running[t]) => wake[running[t]] = "none"
        /\ wake[running[t]] = "none" => running[t] \notin QueuedTasks /\ running[t] \notin TakenTasks
        /\ running[t] \in TakenTasks => Finished(running[t])
        /\ \A u \in Threads : cb_fiber[u] = running[t] => u = t

\* An armed fiber is known only to its waker; a fired wake-up stays in the queue for as
\* long as the fiber is EXEC.
WakeInv ==
    \A f \in Fibers :
        /\ wake[f] = "armed" => f \notin QueuedTasks /\ f \notin TakenTasks
        /\ wake[f] = "fired" /\ m_state[f] = "EXEC" => f \in QueuedTasks
        /\ m_state[f] = "EXEC" => f \notin TakenTasks
        /\ m_state[f] = "FREE" => Private(f) /\ \A t \in Threads : cb_fiber[t] # f

\* The fiber a thread keeps for its next callback is INIT and private to it.
CacheInv ==
    \A t \in Threads : cb_fiber[t] # None /\ running[t] # cb_fiber[t] =>
        m_state[cb_fiber[t]] = "INIT" /\ Private(cb_fiber[t])

\* A job that has not been scheduled is nowhere in the scheduler.
FreshInv ==
    \A j \in Jobs : pin[j] = Unscheduled =>
        /\ j \notin QueuedTasks /\ j \notin TakenTasks
        /\ j \in UserFibers => m_state[j] = "INIT" /\ Private(j)

\* A fiber that is swapped in, or will be, has a function to execute: MainFunc never
\* calls an empty m_cb.  A callback's fiber is known to others only while it is unfinished.
BodyInv ==
    \A f \in Fibers :
        /\ m_state[f] \in {"HOLD", "EXEC", "READY"} => m_cb[f] \in Jobs
        /\ f \in UserFibers /\ m_state[f] = "INIT" => m_cb[f] \in Jobs
        /\ f \in CbFibers /\ (f \in QueuedTasks \cup TakenTasks \/ wake[f] = "armed") =>
              m_state[f] \in {"HOLD", "EXEC", "READY"}

\* No thread is in run() before start(), nor the calling thread before stop() calls it.
StartInv ==
    /\ m_stopping /\ stop_pc = "none" => \A t \in Threads : pc[t] = "new"
    /\ stop_pc \notin {"join", "done"} => \A t \in Roots : pc[t] = "new"

SchedulerInv ==
    /\ StartInv /\ PlaceInv /\ UniqueInv /\ RunningInv /\ WakeInv /\ CacheInv /\ FreshInv
    /\ BodyInv /\ NoFiberStranded
=============================================================================

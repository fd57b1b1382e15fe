--------------------------- MODULE SchedulerProofs ---------------------------
(***************************************************************************)
(* Proofs about Scheduler, for any number of threads, fibers and jobs: the *)
(* counters that stopping() looks at and the types that rest on them, what *)
(* stop() finds when there is no thread but the calling one, the inductive *)
(* invariant, and the theorems that follow from it.                        *)
(***************************************************************************)
EXTENDS SchedulerTaskProofs, FiniteSetTheorems

\* Most steps need no arithmetic: Zenon is tried before SMT.
USE ZenonT(10), SMTT(15)

-----------------------------------------------------------------------------
(***************************************************************************)
(* The counters                                                            *)
(***************************************************************************)

\* A thread that moves from one place of run() to another changes the number of
\* threads in a set X of places by whether it leaves X and whether it enters X.
LEMMA CountMove ==
    ASSUME NEW X, NEW t \in Threads, NEW there,
           pc \in [Threads -> ActivePcs \cup IdlePcs \cup OtherPcs],
           pc' = [pc EXCEPT ![t] = there]
    PROVE  LET n == Cardinality({u \in Threads : pc[u] \in X})
           IN  /\ n \in Nat /\ n' \in Nat
               /\ pc[t] \in X /\ there \in X => n' = n
               /\ pc[t] \notin X /\ there \notin X => n' = n
               /\ pc[t] \notin X /\ there \in X => n' = n + 1
               /\ pc[t] \in X /\ there \notin X => n' = n - 1
<1> DEFINE A == {u \in Threads : pc[u] \in X}
<1>1. IsFiniteSet(A) /\ IsFiniteSet(A') /\ Cardinality(A) \in Nat /\ Cardinality(A)' \in Nat
  BY SchedulerAssumption, FS_Subset, FS_CardinalityType
<1>2. CASE pc[t] \in X <=> there \in X
  <2>1. A' = A
    BY <1>2
  <2>2. Cardinality(A)' = Cardinality(A)
    BY <2>1
  <2> QED BY <2>2, <1>1, <1>2
<1>3. CASE pc[t] \notin X /\ there \in X
  <2>1. A' = A \cup {t} /\ t \notin A
    BY <1>3
  <2>2. Cardinality(A)' = Cardinality(A) + 1
    BY <2>1, <1>1, FS_AddElement
  <2> QED BY <2>2, <1>1, <1>3
<1>4. CASE pc[t] \in X /\ there \notin X
  <2>1. A' = A \ {t} /\ t \in A
    BY <1>4
  <2> HIDE DEF A
  <2>2. Cardinality(A \ {t}) = Cardinality(A) - 1
    BY <2>1, <1>1, FS_RemoveElement
  <2>3. Cardinality(A)' = Cardinality(A) - 1
    BY <2>1, <2>2
  <2> USE DEF A
  <2> QED BY <2>3, <1>1, <1>4
<1> QED BY <1>2, <1>3, <1>4

\* The counters follow every step.
LEMMA CountersStep ==
    ASSUME TypeOK, CountersExact, SchedulerInv, [Next]_vars
    PROVE  CountersExact'
<1> USE DEF CountersExact
<1>1. pc \in [Threads -> ActivePcs \cup IdlePcs \cup OtherPcs]
  BY DEF TypeOK
<1>2. ASSUME UNCHANGED <<pc, m_activeThreadCount, m_idleThreadCount>>
      PROVE  CountersExact'
  BY <1>2
<1>3. ASSUME NEW t \in Threads, NEW there, pc' = [pc EXCEPT ![t] = there],
             pc[t] \in ActivePcs <=> there \in ActivePcs,
             pc[t] \in IdlePcs <=> there \in IdlePcs,
             UNCHANGED <<m_activeThreadCount, m_idleThreadCount>>
      PROVE  CountersExact'
  BY ZenonT(30), <1>1, <1>3, CountMove
<1>4. ASSUME NEW t \in Threads, Take(t) PROVE CountersExact'
  <2>1. PICK there \in {"took", "dispatch_task"} : pc' = [pc EXCEPT ![t] = there]
    BY ZenonT(30), <1>4 DEF Take
  <2>2. /\ pc[t] \notin ActivePcs /\ there \in ActivePcs /\ pc[t] \notin IdlePcs /\ there \notin IdlePcs
        /\ m_activeThreadCount' = m_activeThreadCount + 1 /\ UNCHANGED m_idleThreadCount
    BY <1>4 DEF Take, ActivePcs, IdlePcs
  <2> QED BY ZenonT(30), <1>1, <2>1, <2>2, CountMove
<1>5. ASSUME NEW t \in Threads, SwappedOut(t) \/ DropFinished(t) PROVE CountersExact'
  <2>1. PICK there \in {"settle", "lock"} : pc' = [pc EXCEPT ![t] = there]
    BY <1>5 DEF SwappedOut, DropFinished, Goto
  <2>2. /\ pc[t] \in ActivePcs /\ there \notin ActivePcs /\ pc[t] \notin IdlePcs /\ there \notin IdlePcs
        /\ m_activeThreadCount' = m_activeThreadCount - 1 /\ UNCHANGED m_idleThreadCount
    BY <1>5 DEF SwappedOut, DropFinished, Goto, ActivePcs, IdlePcs
  <2> QED BY ZenonT(30), <1>1, <2>1, <2>2, CountMove
<1>6. ASSUME NEW t \in Threads, EnterIdle(t) PROVE CountersExact'
  <2>1. /\ pc[t] \notin ActivePcs /\ pc[t] \notin IdlePcs /\ pc' = [pc EXCEPT ![t] = "stopping_io"]
        /\ m_idleThreadCount' = m_idleThreadCount + 1 /\ UNCHANGED m_activeThreadCount
    BY <1>6 DEF EnterIdle, Goto, ActivePcs, IdlePcs, queueVars
  <2>2. "stopping_io" \in IdlePcs /\ "stopping_io" \notin ActivePcs
    BY DEF ActivePcs, IdlePcs
  <2> QED BY ZenonT(30), <1>1, <2>1, <2>2, CountMove
<1>7. ASSUME NEW t \in Threads, LeaveIdle(t) PROVE CountersExact'
  <2>1. /\ pc[t] \notin ActivePcs /\ pc[t] \in IdlePcs /\ pc' = [pc EXCEPT ![t] = "lock"]
        /\ m_idleThreadCount' = m_idleThreadCount - 1 /\ UNCHANGED m_activeThreadCount
    BY <1>7 DEF LeaveIdle, Goto, ActivePcs, IdlePcs, queueVars
  <2>2. "lock" \notin IdlePcs /\ "lock" \notin ActivePcs
    BY DEF ActivePcs, IdlePcs
  <2> QED BY ZenonT(30), <1>1, <2>1, <2>2, CountMove
<1>8. ASSUME start \/ RootCall PROVE CountersExact'
  <2>1. UNCHANGED <<m_activeThreadCount, m_idleThreadCount>>
    BY <1>8 DEF start, RootCall, queueVars
  <2>2. \A t \in Threads : pc'[t] = pc[t] \/ (pc[t] = "new" /\ pc'[t] = "lock")
    BY <1>8 DEF start, RootCall, StopGoto, SchedulerInv, StartInv
  <2>3. /\ {t \in Threads : pc'[t] \in ActivePcs} = {t \in Threads : pc[t] \in ActivePcs}
        /\ {t \in Threads : pc'[t] \in IdlePcs} = {t \in Threads : pc[t] \in IdlePcs}
    BY <2>2 DEF ActivePcs, IdlePcs
  <2> QED BY <2>1, <2>3
<1>9. ASSUME NEW t \in Threads,
             \/ LockQueue(t) \/ TakeNothing(t) \/ ScanTickle(t) \/ RunFiber(t) \/ RunCb(t)
             \/ SettleReady(t) \/ SettleTickle(t) \/ SettleFinished(t) \/ SettleHold(t)
             \/ ExitRun(t) \/ IdleChecksPending(t) \/ IdleChecksQueue(t) \/ EpollTickled(t)
             \/ EpollTimeout(t) \/ TaskStep(t)
      PROVE  CountersExact'
  <2> DEFINE Moves == \E there : /\ pc' = [pc EXCEPT ![t] = there]
                                 /\ pc[t] \in ActivePcs <=> there \in ActivePcs
                                 /\ pc[t] \in IdlePcs <=> there \in IdlePcs
  <2>1. Moves
    <3>1. ASSUME LockQueue(t) \/ TakeNothing(t) \/ ScanTickle(t) PROVE Moves
      BY ZenonT(30), <3>1 DEF LockQueue, TakeNothing, ScanTickle, Goto, ActivePcs, IdlePcs
    <3>2. ASSUME RunFiber(t) \/ RunCb(t) PROVE Moves
      BY <3>2 DEF RunFiber, RunCb, Goto, ActivePcs, IdlePcs
    <3>3. ASSUME SettleReady(t) \/ SettleTickle(t) \/ SettleFinished(t) \/ SettleHold(t) PROVE Moves
      BY <3>3 DEF SettleReady, SettleTickle, SettleFinished, SettleHold, Goto, ActivePcs, IdlePcs
    <3>4. ASSUME \/ ExitRun(t) \/ IdleChecksPending(t) \/ IdleChecksQueue(t)
                 \/ EpollTickled(t) \/ EpollTimeout(t)
          PROVE  Moves
      BY <3>4 DEF ExitRun, IdleChecksPending, IdleChecksQueue, EpollTickled, EpollTimeout, Goto,
         ActivePcs, IdlePcs
    <3>5. ASSUME TaskStep(t) PROVE Moves
      BY <3>5 DEF TaskStep, TaskTickles, YieldToHold, YieldToReady, MainFunc, Goto, ActivePcs, IdlePcs
    <3> HIDE DEF Moves
    <3> QED BY <1>9, <3>1, <3>2, <3>3, <3>4, <3>5
  <2>2. UNCHANGED <<m_activeThreadCount, m_idleThreadCount>>
    BY <1>9 DEF LockQueue, TakeNothing, ScanTickle, RunFiber, RunCb, SettleReady, SettleTickle,
       SettleFinished, SettleHold, ExitRun, IdleChecksPending, IdleChecksQueue, EpollTickled,
       EpollTimeout, TaskStep, TaskTickles, YieldToHold, YieldToReady, MainFunc, queueVars
  <2>3. PICK there : /\ pc' = [pc EXCEPT ![t] = there]
                     /\ pc[t] \in ActivePcs <=> there \in ActivePcs
                     /\ pc[t] \in IdlePcs <=> there \in IdlePcs
    BY Zenon, <2>1
  <2> QED BY <2>2, <2>3, <1>3
<1>10. ASSUME NEW t \in Threads, SkipElsewhere(t) \/ SkipExecuting(t) \/ Arm(t) PROVE CountersExact'
  BY <1>10, <1>2 DEF SkipElsewhere, SkipExecuting, Arm, queueVars
<1>11. ASSUME NEW t \in Threads, NEW j \in Jobs, NEW th \in Threads \cup {None},
              TaskSchedules(t, j, th)
       PROVE  CountersExact'
  <2>1. pc' = pc \/ pc' = [pc EXCEPT ![t] = "run_tickle"]
    BY <1>11 DEF TaskSchedules
  <2>2. UNCHANGED <<m_activeThreadCount, m_idleThreadCount>> /\ pc[t] \in ActivePcs /\ pc[t] \notin IdlePcs
    BY <1>11 DEF TaskSchedules, ActivePcs, IdlePcs
  <2>3. "run_tickle" \in ActivePcs /\ "run_tickle" \notin IdlePcs
    BY DEF ActivePcs, IdlePcs
  <2> QED BY <2>1, <2>2, <2>3, <1>2, <1>3
<1>12. ASSUME \/ \E j \in Jobs, th \in Threads \cup {None} : schedule(j, th)
              \/ \E f \in Fibers : WakerFires(f)
              \/ CallerTickles \/ StopStep \/ Stopped \/ UNCHANGED vars
       PROVE  CountersExact'
  <2>1. ASSUME StopStep \/ Stopped \/ UNCHANGED vars
        PROVE  UNCHANGED <<pc, m_activeThreadCount, m_idleThreadCount>>
    BY <2>1 DEF StopStep, Stopped, StopAuto, StopFlag, StopTickle, RootChecksPending,
       RootChecksQueue, EarlyChecksPending, EarlyChecksQueue, Join, vars, queueVars
  <2>2. UNCHANGED <<pc, m_activeThreadCount, m_idleThreadCount>>
    BY <1>12, <2>1 DEF schedule, WakerFires, CallerTickles, queueVars
  <2> QED BY <1>2, <2>2
<1> QED BY ZenonT(30), <1>4, <1>5, <1>6, <1>7, <1>8, <1>9, <1>10, <1>11, <1>12
        DEF Next, RunStep, IdleStep, TaskStep, stop, StopStep

\* So does the type invariant: the counters stay natural numbers because they count.
LEMMA TypeStep ==
    ASSUME TypeOK, CountersExact, SchedulerInv, [Next]_vars
    PROVE  TypeOK'
<1>1. m_activeThreadCount' \in Nat /\ m_idleThreadCount' \in Nat
  <2>1. \A X : Cardinality({t \in Threads : pc'[t] \in X}) \in Nat
    BY SchedulerAssumption, FS_Subset, FS_CardinalityType
  <2> QED BY <2>1, CountersStep DEF CountersExact
<1>2. ASSUME UNCHANGED vars PROVE TypeOK'
  BY <1>2 DEF TypeOK, vars, queueVars, stopVars, fiberVars, localVars, jobVars
<1> USE DEF TypeOK, queueVars, stopVars, fiberVars, localVars, jobVars, ActivePcs, IdlePcs,
     OtherPcs,
            StopPcs, tickle, Goto, StopGoto
<1>3. ASSUME NEW x \in Fibers \cup Cbs, NEW th \in Threads \cup {None}, scheduleNoLock(x, th)
      PROVE  m_fibers' \in Seq(Entry)
  <2>1. [task |-> x, thread |-> th] \in Entry
    BY DEF Entry
  <2> QED BY <1>3, <2>1, SMTT(30) DEF scheduleNoLock
<1>4. ASSUME NEW j \in Jobs, NEW th \in Threads \cup {None}, schedule(j, th) PROVE TypeOK'
  <2>1. m_fibers' \in Seq(Entry)
    BY <1>3, <1>4 DEF schedule, Jobs, Fibers
  <2> QED BY <1>1, <1>4, <2>1, SMTT(30) DEF schedule
<1>5. ASSUME NEW f \in Fibers, WakerFires(f) PROVE TypeOK'
  <2>1. m_fibers' \in Seq(Entry)
    BY <1>3, <1>5 DEF WakerFires
  <2> QED BY <1>1, <1>5, <2>1, SMTT(30) DEF WakerFires
<1>6. ASSUME CallerTickles PROVE TypeOK'
  BY <1>6, SMTT(30) DEF CallerTickles
<1>7a. ASSUME NEW t \in Threads, LockQueue(t) PROVE TypeOK'
  BY <1>7a DEF LockQueue
<1>7b. ASSUME NEW t \in Threads, TakeNothing(t) PROVE TypeOK'
  BY <1>7b DEF TakeNothing
<1>7c. ASSUME NEW t \in Threads, ScanTickle(t) PROVE TypeOK'
  BY ZenonT(30), <1>7c DEF ScanTickle
<1>8a. ASSUME NEW t \in Threads, SkipElsewhere(t) PROVE TypeOK'
  BY <1>8a, SMTT(30) DEF SkipElsewhere
<1>8b. ASSUME NEW t \in Threads, SkipExecuting(t) PROVE TypeOK'
  BY <1>8b, SMTT(30) DEF SkipExecuting
<1>9. ASSUME NEW t \in Threads, Take(t) PROVE TypeOK'
  <2>1. it[t] \in 1..Len(m_fibers)
    BY <1>9, SMTT(30) DEF Take, SchedulerInv, PlaceInv
  <2>2. m_fibers' \in Seq(Entry)
    BY <1>9, <2>1, ListEraseFacts DEF Take
  <2>3. m_fibers[it[t]].task \in Fibers \cup Cbs
    <3>1. m_fibers[it[t]] \in Entry
      BY <2>1, SMTT(30)
    <3> QED BY <3>1 DEF Entry
  <2> QED BY <1>1, <1>9, <2>2, <2>3 DEF Take
<1>10. ASSUME NEW t \in Threads, RunFiber(t) \/ DropFinished(t) PROVE TypeOK'
  BY ZenonT(30), <1>1, <1>10 DEF RunFiber, DropFinished, swapIn
<1>11. ASSUME NEW t \in Threads, RunCb(t) PROVE TypeOK'
  BY <1>11, SMTT(30) DEF RunCb, swapIn, Fibers, Jobs
<1>12. ASSUME NEW t \in Threads, NEW j \in Jobs, NEW th \in Threads \cup {None},
              TaskSchedules(t, j, th)
       PROVE  TypeOK'
  <2>1. m_fibers' \in Seq(Entry)
    BY <1>3, <1>12 DEF TaskSchedules, Jobs, Fibers
  <2> QED BY <1>12, <2>1 DEF TaskSchedules
<1>13a. ASSUME NEW t \in Threads, Arm(t) PROVE TypeOK'
  <2>1. running[t] \in Fibers /\ yields + 1 \in Nat
    BY <1>13a, SMTT(30) DEF Arm, SchedulerInv, PlaceInv, RunPcs
  <2> QED BY <1>13a, <2>1 DEF Arm
<1>13b. ASSUME NEW t \in Threads, TaskTickles(t) PROVE TypeOK'
  BY <1>13b DEF TaskTickles
<1>13c. ASSUME NEW t \in Threads, YieldToHold(t) PROVE TypeOK'
  BY <1>13c DEF YieldToHold
<1>13d. ASSUME NEW t \in Threads, YieldToReady(t) PROVE TypeOK'
  <2>1. running[t] \in Fibers /\ yields + 1 \in Nat
    BY <1>13d, SMTT(30) DEF YieldToReady, SchedulerInv, PlaceInv, RunPcs
  <2> QED BY <1>13d, <2>1 DEF YieldToReady
<1>14. ASSUME NEW t \in Threads, NEW s \in {"TERM", "EXCEPT"}, MainFunc(t, s) PROVE TypeOK'
  <2>1. running[t] \in Fibers /\ m_cb[running[t]] \in Jobs
    BY <1>14 DEF MainFunc, SchedulerInv, PlaceInv, RunningInv, BodyInv, RunPcs
  <2> QED BY <1>14, <2>1, ZenonT(30) DEF MainFunc
<1>15. ASSUME NEW t \in Threads, SwappedOut(t) \/ SettleTickle(t) PROVE TypeOK'
  BY ZenonT(30), <1>1, <1>15 DEF SwappedOut, SettleTickle
<1>16. ASSUME NEW t \in Threads, SettleReady(t) PROVE TypeOK'
  <2>1. running[t] \in Fibers
    BY <1>16 DEF SettleReady, SchedulerInv, PlaceInv, RunPcs
  <2>2. m_fibers' \in Seq(Entry)
    BY <1>3, <1>16, <2>1 DEF SettleReady
  <2> QED BY <1>16, <2>2 DEF SettleReady, DropRunning
<1>17a. ASSUME NEW t \in Threads, SettleFinished(t) PROVE TypeOK'
  <2>1. m_cb' \in [Fibers -> Jobs \cup {None}]
    BY ZenonT(30), <1>17a DEF SettleFinished
  <2>2. m_state' \in [Fibers -> {"FREE", "INIT", "HOLD", "EXEC", "TERM", "READY", "EXCEPT"}]
    BY ZenonT(30), <1>17a DEF SettleFinished
  <2> QED BY <1>17a, <2>1, <2>2 DEF SettleFinished
<1>17b. ASSUME NEW t \in Threads, SettleHold(t) PROVE TypeOK'
  BY ZenonT(30), <1>17b DEF SettleHold, DropRunning
<1>18a. ASSUME NEW t \in Threads, EnterIdle(t) PROVE TypeOK'
  BY <1>1, <1>18a DEF EnterIdle
<1>18b. ASSUME NEW t \in Threads, ExitRun(t) PROVE TypeOK'
  BY <1>18b DEF ExitRun
<1>18c. ASSUME NEW t \in Threads, IdleChecksPending(t) PROVE TypeOK'
  BY <1>18c DEF IdleChecksPending
<1>18d. ASSUME NEW t \in Threads, IdleChecksQueue(t) PROVE TypeOK'
  BY <1>18d DEF IdleChecksQueue, Drained
<1>18e. ASSUME NEW t \in Threads, EpollTickled(t) PROVE TypeOK'
  BY ZenonT(30), <1>18e DEF EpollTickled
<1>18f. ASSUME NEW t \in Threads, EpollTimeout(t) PROVE TypeOK'
  BY <1>18f DEF EpollTimeout
<1>18g. ASSUME NEW t \in Threads, LeaveIdle(t) PROVE TypeOK'
  BY <1>1, <1>18g DEF LeaveIdle
<1>19. ASSUME start \/ StopStep \/ RootCall PROVE TypeOK'
  BY ZenonT(30), <1>19 DEF start, StopStep, StopAuto, StopFlag, StopTickle, RootChecksPending,
     RootChecksQueue, EarlyChecksPending, EarlyChecksQueue, RootCall, Join
<1> QED BY ZenonT(30), <1>2, <1>4, <1>5, <1>6, <1>7a, <1>7b, <1>7c, <1>8a, <1>8b, <1>9,
           <1>10, <1>11, <1>12, <1>13a, <1>13b, <1>13c, <1>13d, <1>14, <1>15, <1>16, <1>17a, <1>17b, <1>18a,
           <1>18b, <1>18c, <1>18d, <1>18e, <1>18f, <1>18g, <1>19
        DEF Next, RunStep, IdleStep, TaskStep, Stopped, stop, StopStep

-----------------------------------------------------------------------------
(***************************************************************************)
(* stop() on a scheduler that has no thread but the calling one.           *)
(***************************************************************************)

\* A fiber that has been started and has not finished.
Live(f) == m_state[f] \in {"HOLD", "EXEC", "READY"}

\* A fiber whose state is EXEC is swapped in on some thread.
ExecInv == \A f \in Fibers : m_state[f] = "EXEC" => f \in RunningFibers

\* Every step preserves ExecInv: whoever swaps a fiber out writes another state.
LEMMA ExecStep ==
    ASSUME TypeOK, SchedulerInv, ExecInv, [Next]_vars
    PROVE  ExecInv'
<1>1. ASSUME NEW t \in Threads,
             \/ LockQueue(t) \/ SkipElsewhere(t) \/ SkipExecuting(t) \/ Take(t) \/ TakeNothing(t)
             \/ ScanTickle(t) \/ DropFinished(t) \/ SwappedOut(t) \/ SettleTickle(t) \/ IdleStep(t)
             \/ TaskTickles(t) \/ YieldToHold(t) \/ Arm(t)
      PROVE  UNCHANGED <<m_state, running>>
  BY ZenonT(30), <1>1 DEF LockQueue, SkipElsewhere, SkipExecuting, Take, TakeNothing, ScanTickle, DropFinished,
     SwappedOut, SettleTickle, IdleStep, EnterIdle, ExitRun, IdleChecksPending, IdleChecksQueue,
     EpollTickled, EpollTimeout, LeaveIdle, TaskTickles, YieldToHold, Arm, fiberVars, localVars
<1>2. ASSUME CallerTickles \/ start \/ StopAuto \/ stop \/ Stopped \/ UNCHANGED vars
      PROVE  UNCHANGED <<m_state, running>>
  BY ZenonT(30), <1>2 DEF CallerTickles, start, StopAuto, stop, StopFlag, EarlyChecksPending, EarlyChecksQueue,
     StopTickle, RootChecksPending, RootChecksQueue, RootCall, Join, Stopped, vars, fiberVars, localVars
<1>3. ASSUME \/ \E j \in Jobs, th \in Threads \cup {None} :
                   schedule(j, th) \/ \E t \in Threads : TaskSchedules(t, j, th)
             \/ \E f \in Fibers : WakerFires(f)
      PROVE  UNCHANGED <<m_state, running>>
  BY ZenonT(30), <1>3 DEF schedule, TaskSchedules, WakerFires, fiberVars, localVars
<1>4. ASSUME UNCHANGED <<m_state, running>> PROVE ExecInv'
  BY <1>4 DEF ExecInv, RunningFibers
<1>5. ASSUME NEW t \in Threads, RunFiber(t) \/ RunCb(t) PROVE ExecInv'
  <2>1. PICK f \in Fibers : /\ m_state' = [m_state EXCEPT ![f] = "EXEC"]
                            /\ running' = [running EXCEPT ![t] = f]
    BY ZenonT(30), <1>5 DEF RunFiber, RunCb, swapIn, Fibers
  <2>2. running[t] = None /\ f # None
    BY ZenonT(30), <1>5, SchedulerAssumption DEF RunFiber, RunCb, Goto, SchedulerInv, PlaceInv, RunPcs, Fibers
  <2>3. RunningFibers' = RunningFibers \cup {f}
    BY <2>1, <2>2, SMTT(30) DEF RunningFibers, TypeOK
  <2> QED BY <2>1, <2>3 DEF ExecInv, TypeOK
<1>6. ASSUME NEW t \in Threads, SettleReady(t) \/ SettleFinished(t) \/ SettleHold(t)
      PROVE  ExecInv'
  <2>1. PICK f : f = running[t]
    OBVIOUS
  <2>2. f \in Fibers /\ running' = [running EXCEPT ![t] = None]
    BY <1>6, <2>1 DEF SettleReady, SettleFinished, SettleHold, DropRunning, Goto, SchedulerInv,
       PlaceInv, RunPcs, TypeOK
  <2>3. m_state'[f] # "EXEC" /\ \A g \in Fibers : g # f => m_state'[g] = m_state[g]
    BY <1>6, <2>1, <2>2 DEF SettleReady, SettleFinished, SettleHold, Finished, fiberVars, TypeOK
  <2>4. RunningFibers \subseteq RunningFibers' \cup {f}
    BY <2>1, <2>2 DEF RunningFibers, TypeOK
  <2> QED BY <2>3, <2>4 DEF ExecInv
<1>7. ASSUME NEW t \in Threads, YieldToReady(t) \/ \E s \in {"TERM", "EXCEPT"} : MainFunc(t, s)
      PROVE  ExecInv'
  <2>1. \E s \in {"READY", "TERM", "EXCEPT"} : m_state' = [m_state EXCEPT ![running[t]] = s]
    BY ZenonT(30), <1>7 DEF YieldToReady, MainFunc
  <2>2. RunningFibers' = RunningFibers
    BY <1>7, SMTT(30) DEF YieldToReady, MainFunc, RunningFibers, localVars
  <2> QED BY <2>1, <2>2 DEF ExecInv, TypeOK
<1> QED BY ZenonT(30), <1>1, <1>2, <1>3, <1>4, <1>5, <1>6, <1>7 DEF Next, RunStep, TaskStep

Unused == \A t \in Threads : pc[t] = "new"

\* Before stop() calls run() nothing has been executed.  Once idle() has found that the
\* scheduler has drained, it stays drained until run() returns: the only thread that
\* could push a task or arm a waker is the one that looked.
AloneInv ==
    /\ m_autoStop => stop_pc # "none"
    /\ Unused => \A f \in Fibers : ~Live(f) /\ wake[f] = "none"
    /\ Unused /\ stop_pc \in {"join", "done"} => m_fibers = <<>>
    /\ \A t \in Threads :
          /\ stop_pc = "done" => pc[t] \in {"new", "exited"}
          /\ pc[t] = "stopping_queue" => ~Pending
          /\ idle_term[t] => /\ m_fibers = <<>> /\ ~Pending /\ stop_pc # "none"
                             /\ pc[t] \in {"idle_out", "lock", "scan", "miss", "dispatch_idle", "exited"}
          /\ pc[t] = "exited" => idle_term[t]

\* While the calling thread is inside run(), its steps preserve AloneInv.
LEMMA AloneRuns ==
    ASSUME TypeOK, SchedulerInv, AloneInv, NEW r, Threads = {r},
           \/ RunStep(r) \/ IdleStep(r) \/ TaskStep(r) \/ Arm(r)
           \/ \E j \in Jobs, th \in Threads \cup {None} : TaskSchedules(r, j, th)
    PROVE  AloneInv'
<1> DEFINE Ends == {"idle_out", "lock", "scan", "miss", "dispatch_idle", "exited"}
<1> USE DEF AloneInv
<1>1. pc[r] \notin {"new", "exited"} /\ pc'[r] # "new" /\ UNCHANGED stopVars
  <2>1. ASSUME RunStep(r) PROVE pc[r] \notin {"new", "exited"} /\ pc'[r] # "new" /\ UNCHANGED stopVars
    BY ZenonT(30), <2>1
       DEF RunStep, LockQueue, SkipElsewhere, SkipExecuting, Take, TakeNothing, ScanTickle,
       RunFiber, RunCb, DropFinished, SwappedOut, SettleReady, SettleTickle, SettleFinished,
       SettleHold, Goto, TypeOK
  <2>2. ASSUME IdleStep(r) PROVE pc[r] \notin {"new", "exited"} /\ pc'[r] # "new" /\ UNCHANGED stopVars
    BY ZenonT(30), <2>2 DEF IdleStep, EnterIdle, ExitRun, IdleChecksPending, IdleChecksQueue, EpollTickled,
       EpollTimeout, LeaveIdle, Goto, TypeOK
  <2>3. ASSUME TaskStep(r) \/ Arm(r) \/ \E j \in Jobs, th \in Threads \cup {None} : TaskSchedules(r, j, th)
        PROVE  pc[r] \notin {"new", "exited"} /\ pc'[r] # "new" /\ UNCHANGED stopVars
    BY ZenonT(30), <2>3
       DEF TaskStep, TaskTickles, YieldToHold, YieldToReady, MainFunc, Arm, TaskSchedules, Goto, TypeOK
  <2> QED BY ZenonT(30), <2>1, <2>2, <2>3
<1>2. stop_pc # "done" /\ ~Unused' /\ stop_pc' = stop_pc /\ m_autoStop' = m_autoStop
  BY ZenonT(30), <1>1 DEF Unused, stopVars
<1>3. CASE idle_term[r]
  <2>1. m_fibers = <<>> /\ Len(m_fibers) = 0 /\ it[r] \in Nat /\ it[r] >= 1
    BY <1>3 DEF SchedulerInv, PlaceInv, TypeOK
  <2>2. LockQueue(r) \/ TakeNothing(r) \/ ScanTickle(r) \/ ExitRun(r) \/ LeaveIdle(r)
    <3>1. pc[r] \in Ends
      BY <1>3
    <3>2. ~ (SkipElsewhere(r) \/ SkipExecuting(r) \/ Take(r))
      BY <2>1, SMTT(30) DEF SkipElsewhere, SkipExecuting, Take
    <3>3. ~ (RunFiber(r) \/ RunCb(r) \/ DropFinished(r) \/ SwappedOut(r) \/ SettleReady(r)
             \/ SettleTickle(r) \/ SettleFinished(r) \/ SettleHold(r))
      BY ZenonT(30), <3>1 DEF RunFiber, RunCb, DropFinished, SwappedOut, SettleReady, SettleTickle,
         SettleFinished, SettleHold, Goto
    <3>4. ~ (EnterIdle(r) \/ IdleChecksPending(r) \/ IdleChecksQueue(r) \/ EpollTickled(r) \/ EpollTimeout(r))
      BY <1>3, <3>1 DEF EnterIdle, IdleChecksPending, IdleChecksQueue, EpollTickled, EpollTimeout, Goto
    <3>5. ~ (TaskStep(r) \/ Arm(r) \/ \E j \in Jobs, th \in Threads \cup {None} : TaskSchedules(r, j, th))
      BY ZenonT(30), <3>1 DEF TaskStep, TaskTickles, YieldToHold, YieldToReady, MainFunc, Arm, TaskSchedules, Goto
    <3> QED BY ZenonT(30), <3>2, <3>3, <3>4, <3>5 DEF RunStep, IdleStep
  <2>3. UNCHANGED <<m_fibers, wake, idle_term>> /\ pc'[r] \in Ends
    <3>1. UNCHANGED <<m_fibers, wake, idle_term>>
      BY ZenonT(30), <2>2 DEF LockQueue, TakeNothing, ScanTickle, ExitRun, LeaveIdle, queueVars, fiberVars, localVars
    <3>2. \E there \in Ends : pc' = [pc EXCEPT ![r] = there]
      BY ZenonT(30), <1>3, <2>2 DEF LockQueue, TakeNothing, ScanTickle, ExitRun, LeaveIdle, Goto
    <3> QED BY <3>1, <3>2 DEF TypeOK
  <2>4. ~Pending'
    BY <1>3, <2>3 DEF Pending
  <2> QED BY <1>2, <1>3, <2>3, <2>4
<1>4. CASE ~idle_term[r]
  <2>1. pc'[r] # "exited"
    <3>1. ASSUME RunStep(r) PROVE pc'[r] # "exited"
      BY ZenonT(30), <3>1, <1>1
         DEF RunStep, LockQueue, SkipElsewhere, SkipExecuting, Take, TakeNothing, ScanTickle,
         RunFiber, RunCb, DropFinished, SwappedOut, SettleReady, SettleTickle, SettleFinished,
         SettleHold, Goto, TypeOK
    <3>2. ASSUME IdleStep(r) PROVE pc'[r] # "exited"
      BY ZenonT(30), <3>2, <1>4 DEF IdleStep, EnterIdle, ExitRun, IdleChecksPending, IdleChecksQueue, EpollTickled,
         EpollTimeout, LeaveIdle, Goto, TypeOK
    <3>3. ASSUME TaskStep(r) \/ Arm(r) \/ \E j \in Jobs, th \in Threads \cup {None} : TaskSchedules(r, j, th)
          PROVE  pc'[r] # "exited"
      BY ZenonT(30), <3>3, <1>1
         DEF TaskStep, TaskTickles, YieldToHold, YieldToReady, MainFunc, Arm, TaskSchedules, Goto, TypeOK
    <3> QED BY ZenonT(30), <3>1, <3>2, <3>3
  <2>2. CASE IdleChecksQueue(r)
    <3>1. /\ pc[r] = "stopping_queue"
          /\ pc' = [pc EXCEPT ![r] = IF Drained THEN "idle_out" ELSE "epoll"]
          /\ idle_term' = [idle_term EXCEPT ![r] = Drained]
          /\ UNCHANGED <<m_fibers, wake>>
      BY <2>2 DEF IdleChecksQueue, Goto, queueVars, fiberVars
    <3>2. ~Pending /\ ~Pending'
      BY <3>1 DEF Pending
    <3>3. CASE Drained
      <4>1. m_fibers = <<>> /\ stop_pc # "none"
        BY <3>3 DEF Drained
      <4>2. pc'[r] = "idle_out"
        BY <3>1, <3>3 DEF TypeOK
      <4> QED BY <1>2, <3>1, <3>2, <4>1, <4>2
    <3>4. CASE ~Drained
      <4>1. pc'[r] = "epoll" /\ ~idle_term'[r]
        BY <3>1, <3>4 DEF TypeOK
      <4> QED BY ZenonT(30), <1>2, <4>1
    <3> QED BY ZenonT(30), <3>3, <3>4
  <2>3. CASE IdleChecksPending(r)
    <3>1. /\ pc' = [pc EXCEPT ![r] = IF Pending THEN "epoll" ELSE "stopping_queue"]
          /\ UNCHANGED <<idle_term, wake>>
      BY <2>3 DEF IdleChecksPending, Goto, localVars, fiberVars
    <3>2. pc'[r] = "stopping_queue" => ~Pending'
      BY <3>1 DEF TypeOK, Pending
    <3> QED BY ZenonT(30), <1>2, <1>4, <2>1, <3>1, <3>2
  <2>4. ASSUME ~IdleChecksQueue(r), ~IdleChecksPending(r)
        PROVE  idle_term' = idle_term /\ pc'[r] # "stopping_queue"
    <3>1. ASSUME RunStep(r) PROVE idle_term' = idle_term /\ pc'[r] # "stopping_queue"
      BY ZenonT(30), <3>1 DEF RunStep, LockQueue, SkipElsewhere, SkipExecuting, Take, TakeNothing, ScanTickle,
         RunFiber, RunCb, DropFinished, SwappedOut, SettleReady, SettleTickle, SettleFinished,
         SettleHold, Goto, localVars, TypeOK
    <3>2. ASSUME IdleStep(r) PROVE idle_term' = idle_term /\ pc'[r] # "stopping_queue"
      BY ZenonT(30), <2>4, <3>2 DEF IdleStep, EnterIdle, ExitRun, EpollTickled, EpollTimeout, LeaveIdle, Goto,
         localVars, TypeOK
    <3>3. ASSUME TaskStep(r) \/ Arm(r) \/ \E j \in Jobs, th \in Threads \cup {None} : TaskSchedules(r, j, th)
          PROVE  idle_term' = idle_term /\ pc'[r] # "stopping_queue"
      BY ZenonT(30), <3>3
         DEF TaskStep, TaskTickles, YieldToHold, YieldToReady, MainFunc, Arm, TaskSchedules, Goto,
         localVars, TypeOK
    <3> QED BY ZenonT(30), <3>1, <3>2, <3>3
  <2> QED BY ZenonT(30), <1>2, <1>4, <2>1, <2>2, <2>3, <2>4
<1> QED BY ZenonT(30), <1>3, <1>4

\* Every step of a scheduler with one thread preserves AloneInv.
LEMMA AloneStep ==
    ASSUME TypeOK, SchedulerInv, AloneInv, NEW r, Threads = {r}, Roots = {r}, Workers = {}, [Next]_vars
    PROVE  AloneInv'
<1> USE DEF AloneInv
<1>1. ASSUME NEW j \in Jobs, NEW th \in Threads \cup {None}, schedule(j, th) PROVE AloneInv'
  <2>1. stop_pc = "none" /\ UNCHANGED <<stopVars, fiberVars, pc, idle_term>>
    BY <1>1 DEF schedule, localVars
  <2>2. pc[r] = "new"
    BY <2>1 DEF SchedulerInv, StartInv
  <2> QED BY ZenonT(30), <2>1, <2>2 DEF stopVars, fiberVars, Unused, Live, Pending
<1>2. ASSUME NEW f \in Fibers, WakerFires(f) PROVE AloneInv'
  <2>1. wake[f] = "armed" /\ UNCHANGED <<stopVars, pc, idle_term>>
    BY ZenonT(30), <1>2 DEF WakerFires, localVars
  <2>2. Pending /\ ~Unused
    BY <2>1 DEF Pending
  <2> QED BY <2>1, <2>2 DEF stopVars, Unused
<1>3. ASSUME CallerTickles \/ start \/ Stopped \/ UNCHANGED vars PROVE AloneInv'
  <2>1. pc' = pc
    BY <1>3 DEF CallerTickles, start, Stopped, vars, TypeOK
  <2>2. UNCHANGED <<m_autoStop, stop_pc, m_fibers, m_state, wake, idle_term>>
    BY <1>3 DEF CallerTickles, start, Stopped, vars, stopVars, queueVars, fiberVars, localVars
  <2> QED BY <2>1, <2>2 DEF Unused, Live, Pending
<1>4. ASSUME StopAuto \/ StopFlag \/ EarlyChecksPending \/ StopTickle \/ RootChecksPending PROVE AloneInv'
  <2>1. UNCHANGED <<m_fibers, m_state, wake, idle_term, pc>>
    BY ZenonT(30), <1>4 DEF StopAuto, StopFlag, EarlyChecksPending, StopTickle, RootChecksPending, queueVars,
       fiberVars, localVars
  <2>2. stop_pc' \notin {"none", "join", "done"}
    BY ZenonT(30), <1>4 DEF StopAuto, StopFlag, EarlyChecksPending, StopTickle, RootChecksPending, StopGoto
  <2> QED BY ZenonT(30), <2>1, <2>2 DEF Unused, Live, Pending
<1>5. ASSUME EarlyChecksQueue \/ RootChecksQueue PROVE AloneInv'
  <2>1. UNCHANGED <<m_fibers, m_state, wake, idle_term, pc>>
    BY <1>5 DEF EarlyChecksQueue, RootChecksQueue, queueVars, fiberVars, localVars
  <2>2. stop_pc' # "none" /\ (stop_pc' \in {"join", "done"} => m_fibers = <<>>) /\ stop_pc \in {"early_queue", "root_queue"}
    BY <1>5 DEF EarlyChecksQueue, RootChecksQueue, StopGoto, Drained
  <2>3. pc[r] = "new"
    BY <2>2 DEF SchedulerInv, StartInv
  <2> QED BY ZenonT(30), <2>1, <2>2, <2>3 DEF Unused, Live, Pending
<1>6. ASSUME RootCall PROVE AloneInv'
  <2>1. pc'[r] = "lock" /\ stop_pc = "call" /\ stop_pc' = "join" /\ idle_term' = idle_term
    BY <1>6 DEF RootCall, StopGoto, localVars
  <2>2. pc[r] = "new"
    BY <2>1 DEF SchedulerInv, StartInv
  <2> QED BY <2>1, <2>2 DEF Unused
<1>7. ASSUME Join PROVE AloneInv'
  <2>1. /\ stop_pc = "join" /\ stop_pc' = "done" /\ pc[r] \in {"new", "exited"}
        /\ UNCHANGED <<m_fibers, m_state, wake, idle_term, pc>>
    BY <1>7 DEF Join, StopGoto, queueVars, fiberVars, localVars
  <2> QED BY <2>1 DEF Unused, Live, Pending
<1>8. ASSUME NEW t \in Threads,
             \/ RunStep(t) \/ IdleStep(t) \/ TaskStep(t) \/ Arm(t)
             \/ \E j \in Jobs, th \in Threads \cup {None} : TaskSchedules(t, j, th)
      PROVE  AloneInv'
  <2>1. t = r
    OBVIOUS
  <2> QED BY Zenon, <1>8, <2>1, AloneRuns
<1> HIDE DEF AloneInv
<1> QED BY ZenonT(30), <1>1, <1>2, <1>3, <1>4, <1>5, <1>6, <1>7, <1>8 DEF Next, stop
-----------------------------------------------------------------------------
(***************************************************************************)
(* The theorems                                                            *)
(***************************************************************************)
IInv == TypeOK /\ CountersExact /\ SchedulerInv

\* A scheduler that has just been constructed satisfies the invariant.
LEMMA InitIInv ==
    ASSUME Init
    PROVE  IInv
<1> USE SchedulerAssumption DEF Init
<1>1. TypeOK
  <2>1. m_fibers \in Seq(Entry)
    OBVIOUS
  <2>2. /\ m_state \in [Fibers -> {"FREE", "INIT", "HOLD", "EXEC", "TERM", "READY", "EXCEPT"}]
        /\ m_cb \in [Fibers -> Jobs \cup {None}]
        /\ wake \in [Fibers -> {"none", "armed", "fired"}]
    BY DEF Jobs
  <2>3. /\ pc \in [Threads -> ActivePcs \cup IdlePcs \cup OtherPcs]
        /\ stop_pc \in StopPcs
    BY DEF OtherPcs, StopPcs
  <2> QED BY ZenonT(30), <2>1, <2>2, <2>3 DEF TypeOK
<1>2. CountersExact
  <2>1. {t \in Threads : pc[t] \in ActivePcs} = {} /\ {t \in Threads : pc[t] \in IdlePcs} = {}
    BY DEF ActivePcs, IdlePcs
  <2> QED BY ZenonT(30), <2>1, FS_EmptySet DEF CountersExact
<1>3. QueuedTasks = {} /\ TakenTasks = {} /\ RunningFibers = {}
  BY SMTT(30) DEF QueuedTasks, TakenTasks, RunningFibers
<1>4. SchedulerInv
  <2>1. StartInv /\ PlaceInv
    BY SMTT(30) DEF StartInv, PlaceInv, RunPcs, TakenPcs, Threads
  <2>2a. UniqueInv
    BY <1>3, SMTT(30) DEF UniqueInv, Distinct
  <2>2b. RunningInv
    BY DEF RunningInv
  <2>2c. CacheInv
    BY DEF CacheInv
  <2>3. WakeInv /\ NoFiberStranded
    BY <1>3 DEF WakeInv, NoFiberStranded, Private
  <2>4. FreshInv /\ BodyInv
    BY <1>3 DEF FreshInv, BodyInv, Private, Fibers, Jobs
  <2> QED BY <2>1, <2>2a, <2>2b, <2>2c, <2>3, <2>4 DEF SchedulerInv
<1> QED BY <1>1, <1>2, <1>4 DEF IInv

\* The inductive invariant holds in every state of every behaviour of the scheduler.
THEOREM SchedulerInductive == Spec => []IInv
<1>1. IInv /\ [Next]_vars => IInv'
  BY InvStep, CountersStep, TypeStep DEF IInv
<1> QED BY <1>1, InitIInv, PTL DEF Spec

\* The variables of the scheduler keep their types; in particular neither counter of
\* threads, size_t in the code, ever goes below zero.
THEOREM TypeCorrect == Spec => []TypeOK
<1>1. IInv => TypeOK
  BY DEF IInv
<1> QED BY <1>1, SchedulerInductive, PTL

\* No fiber is ever swapped in on two threads at once, for any number of threads, fibers
\* and callbacks, provided that wakers keep to their protocol (Arm, WakerFires).
THEOREM NoFiberOnTwoThreads == Spec => []OneThreadPerFiber
<1>1. IInv => OneThreadPerFiber
  BY DEF IInv, SchedulerInv, UniqueInv, OneThreadPerFiber
<1> QED BY <1>1, SchedulerInductive, PTL

\* The assertions in Fiber::swapIn and Fiber::reset never fail inside run().
THEOREM AssertionsHold == Spec => []FiberAssertions
<1>1. IInv => FiberAssertions
  <2> SUFFICES ASSUME IInv, NEW t \in Threads, ft[t] # None
               PROVE  /\ ft[t] \in Fibers => m_state[ft[t]] # "EXEC"
                      /\ ft[t] \in Cbs /\ cb_fiber[t] # None =>
                            m_state[cb_fiber[t]] \in {"INIT", "TERM", "EXCEPT"}
    BY DEF FiberAssertions
  <2>1. ft[t] \in TakenTasks /\ running[t] = None
    BY DEF IInv, SchedulerInv, PlaceInv, TakenTasks, RunPcs, TakenPcs
  <2> QED BY <2>1 DEF IInv, SchedulerInv, WakeInv, CacheInv
<1> QED BY <1>1, SchedulerInductive, PTL

\* m_activeThreadCount and m_idleThreadCount are exact at every moment.
THEOREM CountersAreExact == Spec => []CountersExact
<1>1. IInv => CountersExact
  BY DEF IInv
<1> QED BY <1>1, SchedulerInductive, PTL

\* A suspended fiber always has a waker, or a place in the queue, or a thread that is
\* about to run it.
THEOREM NoFiberIsStranded == Spec => []NoFiberStranded
<1>1. IInv => NoFiberStranded
  BY DEF IInv, SchedulerInv
<1> QED BY <1>1, SchedulerInductive, PTL

\* What run() relies on holds at every moment: a task is in one place, a fiber that is
\* swapped in has a function and is known to others only if it was woken early, and the
\* fiber a thread keeps for callbacks is known to nobody else.
THEOREM TasksAreInOnePlace == Spec => []SchedulerInv
<1>1. IInv => SchedulerInv
  BY DEF IInv
<1> QED BY <1>1, SchedulerInductive, PTL

\* The scheduler keeps its side of WakeProtocol: a fiber with an armed waker is resumed
\* only after the waker has fired.
THEOREM WaitsKeepProtocol == Spec => WaitsFollowProtocol
<1>1. Init => Waits!Init
  BY DEF Init, Waits!Init
<1>2. ASSUME IInv, [Next]_vars
      PROVE  [Waits!Next]_wake
  <2> SUFFICES ASSUME Next, wake' # wake
               PROVE  Waits!Next
    BY <1>2 DEF vars, fiberVars
  <2>1. \/ \E f \in Fibers : WakerFires(f)
        \/ \E t \in Threads : Arm(t) \/ RunFiber(t) \/ RunCb(t)
    <3>1. ASSUME NEW t \in Threads, RunStep(t)
          PROVE  RunFiber(t) \/ RunCb(t)
      BY <3>1 DEF RunStep, LockQueue, SkipElsewhere, SkipExecuting, Take, TakeNothing, ScanTickle,
         DropFinished, SwappedOut, SettleReady, SettleTickle, SettleFinished, SettleHold, fiberVars
    <3>2. ASSUME NEW t \in Threads, IdleStep(t) PROVE FALSE
      BY <3>2 DEF IdleStep, EnterIdle, ExitRun, IdleChecksPending, IdleChecksQueue, EpollTickled,
         EpollTimeout, LeaveIdle, fiberVars
    <3>3. ASSUME NEW t \in Threads, TaskStep(t) PROVE Arm(t)
      BY <3>3 DEF TaskStep, TaskTickles, YieldToHold, YieldToReady, MainFunc, fiberVars
    <3>4. ~ (start \/ StopAuto \/ stop \/ Stopped \/ CallerTickles)
      BY DEF start, stop, StopAuto, StopFlag, EarlyChecksPending, EarlyChecksQueue, StopTickle,
         RootChecksPending, RootChecksQueue, RootCall, Join, Stopped, CallerTickles, fiberVars, vars
    <3>5. ASSUME NEW j \in Jobs, NEW th \in Threads \cup {None}
          PROVE  ~ schedule(j, th) /\ \A t \in Threads : ~ TaskSchedules(t, j, th)
      BY DEF schedule, TaskSchedules, fiberVars
    <3> QED BY ZenonT(30), <3>1, <3>2, <3>3, <3>4, <3>5 DEF Next
  <2>2. ASSUME NEW f \in Fibers, WakerFires(f) PROVE Waits!Next
    BY ZenonT(30), <2>2 DEF WakerFires, Waits!Next, Waits!Fire, Waits!Step
  <2>3. ASSUME NEW t \in Threads, Arm(t) PROVE Waits!Next
    <3>1. running[t] \in Fibers
      BY <1>2, <2>3 DEF Arm, IInv, TypeOK, SchedulerInv, PlaceInv, RunPcs
    <3> QED BY ZenonT(30), <2>3, <3>1 DEF Arm, Waits!Next, Waits!Arm, Waits!Step
  <2>4. ASSUME NEW t \in Threads, RunFiber(t) PROVE Waits!Next
    <3>1. ft[t] \in Fibers /\ wake' = [wake EXCEPT ![ft[t]] = "none"]
      BY <2>4 DEF RunFiber, swapIn
    <3>2. ft[t] \in TakenTasks
      BY <3>1, SchedulerAssumption DEF TakenTasks, Fibers
    <3>3. wake \in [Fibers -> {"none", "armed", "fired"}] /\ wake[ft[t]] # "armed"
      BY <1>2, <3>1, <3>2 DEF IInv, TypeOK, SchedulerInv, WakeInv
    <3>4. wake[ft[t]] # "none"
      BY <3>1, <3>3
    <3> QED BY ZenonT(30), <3>1, <3>3, <3>4 DEF Waits!Next, Waits!Resume, Waits!Step
  <2>5. ASSUME NEW t \in Threads, RunCb(t) PROVE FALSE
    <3>1. PICK f \in CbFibers :
             /\ IF cb_fiber[t] # None THEN f = cb_fiber[t] ELSE m_state[f] = "FREE"
             /\ wake' = [wake EXCEPT ![f] = "none"]
      BY ZenonT(30), <2>5 DEF RunCb, swapIn
    <3>2. running[t] = None
      BY <1>2, <2>5 DEF RunCb, Goto, IInv, SchedulerInv, PlaceInv, RunPcs
    <3>3. f \in Fibers /\ wake \in [Fibers -> {"none", "armed", "fired"}]
      BY <1>2 DEF Fibers, IInv, TypeOK
    <3>4. wake[f] = "none"
      BY <1>2, <3>1, <3>2, <3>3 DEF IInv, SchedulerInv, CacheInv, WakeInv, Private
    <3> QED BY <3>1, <3>3, <3>4
  <2> QED BY <2>1, <2>2, <2>3, <2>4, <2>5
<1> QED BY <1>1, <1>2, SchedulerInductive, PTL DEF Spec, WaitsFollowProtocol, Waits!Spec

-----------------------------------------------------------------------------
(***************************************************************************)
(* What becomes of a job: it is queued, then taken, then executed by one   *)
(* fiber, then done, and never goes back.                                  *)
(***************************************************************************)
Known   == QueuedTasks \cup TakenTasks

\* A job that is done is nowhere in the scheduler any more.
DoneInv ==
    /\ \A f \in UserFibers : IF Finished(f) THEN f \in done ELSE f \notin done /\ m_cb[f] = f
    /\ \A f \in CbFibers : Live(f) => m_cb[f] \in Cbs /\ m_cb[f] \notin done /\ m_cb[f] \notin Known
    /\ \A f, g \in CbFibers : Live(f) /\ Live(g) /\ m_cb[f] = m_cb[g] => f = g
    /\ \A c \in Cbs : c \in Known => c \notin done
    /\ \A c \in Cbs : pin[c] = Unscheduled =>
          c \notin done /\ \A f \in CbFibers : Live(f) => m_cb[f] # c

\* A job that was scheduled and is not done is somewhere in the scheduler.
KeptInv ==
    /\ \A f \in UserFibers : pin[f] # Unscheduled => f \in done \/ f \in Known \/ Live(f)
    /\ \A c \in Cbs : pin[c] # Unscheduled =>
          c \in done \/ c \in Known \/ \E f \in CbFibers : Live(f) /\ m_cb[f] = c

JobInv == DoneInv /\ KeptInv

\* A step that finishes nothing, schedules nothing new and gives no fiber another function
\* preserves JobInv.
LEMMA JobsMove ==
    ASSUME SchedulerInv, JobInv, UNCHANGED <<done, pin>>,
           \A c \in Cbs : c \in Known' <=> c \in Known,
           \A f \in UserFibers : (Finished(f)' <=> Finished(f)) /\ m_cb'[f] = m_cb[f],
           \A f \in UserFibers : ~Finished(f) /\ (f \in Known \/ Live(f)) => f \in Known' \/ Live(f)',
           \A f \in CbFibers : Live(f)' <=> Live(f),
           \A f \in CbFibers : Live(f) => m_cb'[f] = m_cb[f]
    PROVE  JobInv'
<1> USE DEF JobInv
<1>1. DoneInv'
  BY DEF DoneInv
<1>2. ASSUME NEW f \in UserFibers, pin'[f] # Unscheduled
      PROVE  f \in done' \/ f \in Known' \/ Live(f)'
  BY <1>2 DEF DoneInv, KeptInv
<1>3. ASSUME NEW c \in Cbs, pin'[c] # Unscheduled
      PROVE  c \in done' \/ c \in Known' \/ \E f \in CbFibers : Live(f)' /\ m_cb'[f] = c
  BY <1>3 DEF KeptInv
<1> QED BY <1>1, <1>2, <1>3 DEF KeptInv

\* A step that touches neither the queue nor a fiber preserves JobInv.
LEMMA JobsRest ==
    ASSUME JobInv, UNCHANGED <<m_fibers, m_state, m_cb, ft, pin, done>>
    PROVE  JobInv'
<1>1. Known' = Known
  BY DEF Known, QueuedTasks, TakenTasks
<1> QED BY <1>1 DEF JobInv, DoneInv, KeptInv, Live, Finished

\* Taking a task from the queue leaves it known.
LEMMA TakeJobs ==
    ASSUME TypeOK, SchedulerInv, JobInv, NEW t \in Threads, Take(t)
    PROVE  JobInv'
<1> DEFINE x == m_fibers[it[t]].task
<1>1. /\ pc[t] = "scan" /\ it[t] \in Nat /\ it[t] <= Len(m_fibers)
      /\ m_fibers' = erase(m_fibers, it[t])
      /\ ft' = [ft EXCEPT ![t] = x]
      /\ UNCHANGED <<m_state, m_cb, pin, done>>
  BY DEF Take, fiberVars, jobVars, TypeOK
<1>2. it[t] \in 1..Len(m_fibers)
  BY <1>1, SMTT(30) DEF SchedulerInv, PlaceInv, TypeOK
<1>3. QueuedTasks' = QueuedTasks \ {x} /\ x \in QueuedTasks
  BY <1>1, <1>2, EraseFacts DEF SchedulerInv, UniqueInv, TypeOK
<1>4. ft[t] = None /\ x # None
  BY <1>1, <1>3, QueuedType, SchedulerAssumption DEF SchedulerInv, PlaceInv, TakenPcs
<1> HIDE DEF x
<1>5. TakenTasks' = TakenTasks \cup {x}
  BY <1>1, <1>4, SMTT(30) DEF TakenTasks, TypeOK
<1>6. Known' = Known
  BY <1>3, <1>5 DEF Known
<1> QED BY <1>1, <1>6, JobsMove DEF Live, Finished

\* Swapping in a fiber that was taken.
LEMMA RunFiberJobs ==
    ASSUME TypeOK, SchedulerInv, JobInv, NEW t \in Threads, RunFiber(t)
    PROVE  JobInv'
<1>1. /\ ft[t] \in Fibers /\ ~Finished(ft[t])
      /\ m_state' = [m_state EXCEPT ![ft[t]] = "EXEC"]
      /\ ft' = [ft EXCEPT ![t] = None]
      /\ UNCHANGED <<m_fibers, m_cb, pin, done>>
  BY DEF RunFiber, swapIn, queueVars, jobVars
<1>2. QueuedTasks' = QueuedTasks
  BY <1>1, QueueKept
<1>3. TakenTasks' = TakenTasks \ {ft[t]} /\ ft[t] \in TakenTasks
  BY <1>1, SchedulerAssumption, SMTT(30) DEF TakenTasks, SchedulerInv, UniqueInv, TypeOK, Fibers
<1>4. /\ \A c \in Cbs : c \in Known' <=> c \in Known
      /\ \A f \in UserFibers : f # ft[t] => (f \in Known' <=> f \in Known)
  BY <1>1, <1>2, <1>3, SchedulerAssumption DEF Known
<1>5. ft[t] \in CbFibers => Live(ft[t])
  BY <1>1, <1>3 DEF SchedulerInv, BodyInv, Live
<1>6. \A f \in Fibers : m_state'[f] = IF f = ft[t] THEN "EXEC" ELSE m_state[f]
  BY <1>1 DEF TypeOK
<1>7. \A f \in Fibers : IF f = ft[t] THEN Live(f)' /\ ~Finished(f)'
                        ELSE (Live(f)' <=> Live(f)) /\ (Finished(f)' <=> Finished(f))
  BY <1>6 DEF Live, Finished
<1> QED BY <1>1, <1>4, <1>5, <1>7, JobsMove DEF Fibers

\* A finished fiber that is dropped was done already.
LEMMA DropJobs ==
    ASSUME TypeOK, SchedulerInv, JobInv, NEW t \in Threads, DropFinished(t)
    PROVE  JobInv'
<1>1. /\ ft[t] \in Fibers /\ Finished(ft[t])
      /\ ft' = [ft EXCEPT ![t] = None]
      /\ UNCHANGED <<m_fibers, m_state, m_cb, pin, done>>
  BY DEF DropFinished, fiberVars, jobVars
<1>2. QueuedTasks' = QueuedTasks
  BY <1>1, QueueKept
<1>3. TakenTasks' = TakenTasks \ {ft[t]}
  BY <1>1, SchedulerAssumption, SMTT(30) DEF TakenTasks, SchedulerInv, UniqueInv, TypeOK, Fibers
<1>4. /\ \A c \in Cbs : c \in Known' <=> c \in Known
      /\ \A f \in UserFibers : f # ft[t] => (f \in Known' <=> f \in Known)
  BY <1>1, <1>2, <1>3, SchedulerAssumption DEF Known
<1>5. \A f \in Fibers : (Live(f)' <=> Live(f)) /\ (Finished(f)' <=> Finished(f))
  BY <1>1 DEF Live, Finished
<1> QED BY <1>1, <1>4, <1>5, JobsMove DEF Fibers

\* A fiber that goes back to the queue, from its waker or from run(), stays unfinished.
LEMMA PushJobs ==
    ASSUME TypeOK, SchedulerInv, JobInv, NEW f \in Fibers, f \notin QueuedTasks,
           scheduleNoLock(f, None), UNCHANGED <<m_state, m_cb, ft, pin, done>>
    PROVE  JobInv'
<1>1. QueuedTasks' = QueuedTasks \cup {f}
  BY PushFacts DEF SchedulerInv, UniqueInv, TypeOK
<1>2. TakenTasks' = TakenTasks
  BY DEF TakenTasks
<1>3. /\ \A c \in Cbs : c \in Known' <=> c \in Known
      /\ Known \subseteq Known'
  BY <1>1, <1>2, SchedulerAssumption DEF Known
<1>4. \A g \in Fibers : (Live(g)' <=> Live(g)) /\ (Finished(g)' <=> Finished(g))
  BY DEF Live, Finished
<1> QED BY <1>3, <1>4, JobsMove DEF Fibers

\* A fiber that suspends stays unfinished.
LEMMA SuspendJobs ==
    ASSUME TypeOK, SchedulerInv, JobInv, NEW t \in Threads, YieldToReady(t) \/ SettleHold(t)
    PROVE  JobInv'
<1>1. /\ running[t] \in Fibers /\ m_state[running[t]] = "EXEC"
      /\ \/ m_state' = [m_state EXCEPT ![running[t]] = "READY"]
         \/ m_state' = [m_state EXCEPT ![running[t]] = "HOLD"]
      /\ UNCHANGED <<m_fibers, m_cb, ft, pin, done>>
  BY DEF YieldToReady, SettleHold, Goto, queueVars, localVars, jobVars, SchedulerInv, PlaceInv,
     RunningInv, RunPcs, TypeOK
<1>2. Known' = Known
  BY <1>1 DEF Known, QueuedTasks, TakenTasks
<1>3. \A f \in Fibers : (Live(f)' <=> Live(f)) /\ (Finished(f)' <=> Finished(f))
  BY <1>1 DEF TypeOK, Live, Finished
<1> QED BY <1>1, <1>2, <1>3, JobsMove DEF Fibers

\* A finished fiber is put away: a callback's fiber loses its function.
LEMMA SettleFinishedJobs ==
    ASSUME TypeOK, SchedulerInv, JobInv, NEW t \in Threads, SettleFinished(t)
    PROVE  JobInv'
<1>1. /\ running[t] \in Fibers /\ Finished(running[t])
      /\ IF running[t] \in CbFibers
         THEN /\ m_cb' = [m_cb EXCEPT ![running[t]] = None]
              /\ m_state' = [m_state EXCEPT ![running[t]] = IF ViaCb(t) THEN "INIT" ELSE "FREE"]
         ELSE UNCHANGED <<m_cb, m_state>>
      /\ UNCHANGED <<m_fibers, ft, pin, done>>
  BY DEF SettleFinished, Goto, queueVars, jobVars, SchedulerInv, PlaceInv, RunPcs, TypeOK
<1>2. Known' = Known
  BY <1>1 DEF Known, QueuedTasks, TakenTasks
<1>3. \A f \in UserFibers : m_state'[f] = m_state[f] /\ m_cb'[f] = m_cb[f]
  BY <1>1, SchedulerAssumption, SMTT(30) DEF TypeOK, Fibers
<1>4. \A f \in CbFibers : f # running[t] => m_state'[f] = m_state[f] /\ m_cb'[f] = m_cb[f]
  BY <1>1 DEF TypeOK, Fibers
<1>5. ~Live(running[t]) /\ \A f \in CbFibers : f = running[t] => ~Live(f)'
  BY <1>1 DEF TypeOK, Live, Finished
<1> QED BY <1>1, <1>2, <1>3, <1>4, <1>5, JobsMove DEF Live, Finished

\* schedule() makes a fresh job known.
LEMMA ScheduleJobs ==
    ASSUME TypeOK, SchedulerInv, JobInv, NEW j \in Jobs, NEW th \in Threads \cup {None},
           pin[j] = Unscheduled, scheduleNoLock(j, th), pin' = [pin EXCEPT ![j] = th],
           UNCHANGED <<m_state, m_cb, ft, done>>
    PROVE  JobInv'
<1>1. j \in Fibers \cup Cbs /\ j \notin Known
  BY DEF Jobs, Fibers, Known, SchedulerInv, FreshInv
<1>2. Known' = Known \cup {j}
  <2>1. QueuedTasks' = QueuedTasks \cup {j}
    BY <1>1, PushFacts DEF Known, SchedulerInv, UniqueInv, TypeOK
  <2>2. TakenTasks' = TakenTasks
    BY DEF TakenTasks
  <2> QED BY <2>1, <2>2 DEF Known
<1>3. \A f \in Fibers : (Live(f)' <=> Live(f)) /\ (Finished(f)' <=> Finished(f))
  BY DEF Live, Finished
<1>4. pin'[j] # Unscheduled /\ \A k \in Jobs : k # j => pin'[k] = pin[k]
  BY SchedulerAssumption DEF TypeOK
<1>5. j \in Cbs => j \notin done /\ \A f \in CbFibers : Live(f) => m_cb[f] # j
  BY DEF JobInv, DoneInv
<1>6. DoneInv'
  BY ZenonT(30), <1>2, <1>3, <1>4, <1>5 DEF JobInv, DoneInv, Fibers, Jobs
<1>7. KeptInv'
  BY <1>2, <1>3, <1>4 DEF JobInv, KeptInv, Fibers, Jobs
<1> QED BY <1>6, <1>7 DEF JobInv

\* A function returns or throws: its job is done, and no other fiber had it.
LEMMA MainFuncJobs ==
    ASSUME TypeOK, SchedulerInv, JobInv, NEW t \in Threads, NEW s \in {"TERM", "EXCEPT"},
           MainFunc(t, s)
    PROVE  JobInv'
<1>0. PICK f, j : f = running[t] /\ j = m_cb[f]
  OBVIOUS
<1>1. /\ f \in Fibers /\ m_state[f] = "EXEC"
      /\ m_state' = [m_state EXCEPT ![f] = s]
      /\ m_cb' = IF s = "TERM" THEN [m_cb EXCEPT ![f] = None] ELSE m_cb
      /\ done' = done \cup {j}
      /\ UNCHANGED <<m_fibers, ft, pin>>
  BY <1>0 DEF MainFunc, Goto, queueVars, localVars, SchedulerInv, PlaceInv, RunningInv, RunPcs, TypeOK
<1>2. Live(f) /\ ~Finished(f)
  BY <1>1 DEF Live, Finished
<1>3. /\ f \in UserFibers => j = f
      /\ f \in CbFibers => j \in Cbs /\ j \notin Known
      /\ f \in CbFibers => \A g \in CbFibers : Live(g) /\ m_cb[g] = j => g = f
      /\ f \in CbFibers => pin[j] # Unscheduled
  BY <1>0, <1>2 DEF JobInv, DoneInv
<1>4. Known' = Known
  BY <1>1 DEF Known, QueuedTasks, TakenTasks
<1>5. \A g \in Fibers : g # f => m_state'[g] = m_state[g] /\ m_cb'[g] = m_cb[g]
  BY <1>1 DEF TypeOK
<1>6. Finished(f)' /\ ~Live(f)'
  BY <1>1 DEF TypeOK, Live, Finished
<1>7. \A g \in Fibers : g # f => (Live(g)' <=> Live(g)) /\ (Finished(g)' <=> Finished(g))
  BY <1>5 DEF Live, Finished
<1>8. DoneInv'
  <2>0. /\ UserFibers \subseteq Fibers /\ CbFibers \subseteq Fibers /\ f \in UserFibers \cup CbFibers
        /\ UserFibers \cap CbFibers = {} /\ UserFibers \cap Cbs = {}
    BY <1>1, SchedulerAssumption DEF Fibers
  <2>1. ASSUME NEW g \in UserFibers
        PROVE  IF Finished(g)' THEN g \in done' ELSE g \notin done' /\ m_cb'[g] = g
    <3>1. IF Finished(g) THEN g \in done ELSE g \notin done /\ m_cb[g] = g
      BY Zenon DEF JobInv, DoneInv
    <3>2. CASE g = f
      BY <1>1, <1>3, <1>6, <3>2
    <3>3. CASE g # f
      <4>1. g # j
        BY <1>3, <2>0, <3>3
      <4> QED BY <1>1, <1>5, <1>7, <2>0, <3>1, <3>3, <4>1
    <3> QED BY <3>2, <3>3
  <2>2. ASSUME NEW g \in CbFibers, Live(g)'
        PROVE  m_cb'[g] \in Cbs /\ m_cb'[g] \notin done' /\ m_cb'[g] \notin Known'
    <3>1. g # f /\ Live(g) /\ m_cb'[g] = m_cb[g]
      BY <1>5, <1>6, <1>7, <2>0, <2>2
    <3>2. m_cb[g] \in Cbs /\ m_cb[g] \notin done /\ m_cb[g] \notin Known
      BY Zenon, <3>1 DEF JobInv, DoneInv
    <3>3. m_cb[g] # j
      BY <1>3, <2>0, <3>1, <3>2
    <3> QED BY <1>1, <1>4, <3>1, <3>2, <3>3
  <2>3. \A g, h \in CbFibers : Live(g)' /\ Live(h)' /\ m_cb'[g] = m_cb'[h] => g = h
    <3>1. \A g \in CbFibers : Live(g)' => Live(g) /\ m_cb'[g] = m_cb[g]
      BY <1>5, <1>6, <1>7, <2>0
    <3>2. \A g, h \in CbFibers : Live(g) /\ Live(h) /\ m_cb[g] = m_cb[h] => g = h
      BY Zenon DEF JobInv, DoneInv
    <3> QED BY <3>1, <3>2
  <2>4. \A c \in Cbs : c \in Known' => c \notin done'
    <3>1. \A c \in Cbs : c \in Known => c \notin done
      BY Zenon DEF JobInv, DoneInv
    <3>2. j \in Cbs => j \notin Known
      BY <1>3, <2>0
    <3> QED BY <1>1, <1>4, <3>1, <3>2
  <2>5. ASSUME NEW c \in Cbs, pin'[c] = Unscheduled
        PROVE  c \notin done' /\ \A g \in CbFibers : Live(g)' => m_cb'[g] # c
    <3>1. pin[c] = Unscheduled
      BY <1>1, <2>5
    <3>2. c \notin done /\ \A g \in CbFibers : Live(g) => m_cb[g] # c
      BY Zenon, <3>1 DEF JobInv, DoneInv
    <3>3. c # j
      BY <1>3, <2>0, <3>1
    <3>4. \A g \in CbFibers : Live(g)' => Live(g) /\ m_cb'[g] = m_cb[g]
      BY <1>5, <1>6, <1>7, <2>0
    <3> QED BY <1>1, <3>2, <3>3, <3>4
  <2> QED BY Zenon, <2>1, <2>2, <2>3, <2>4, <2>5 DEF DoneInv
<1>9. KeptInv'
  <2>1. ASSUME NEW g \in UserFibers, pin'[g] # Unscheduled
        PROVE  g \in done' \/ g \in Known' \/ Live(g)'
    BY <1>1, <1>3, <1>4, <1>7, <2>1 DEF JobInv, KeptInv, Fibers
  <2>2. ASSUME NEW c \in Cbs, pin'[c] # Unscheduled, c \notin done', c \notin Known'
        PROVE  \E g \in CbFibers : Live(g)' /\ m_cb'[g] = c
    <3>1. PICK g \in CbFibers : Live(g) /\ m_cb[g] = c
      BY <1>1, <1>4, <2>2 DEF JobInv, KeptInv
    <3>2. g # f
      BY <1>0, <1>1, <2>2, <3>1
    <3> QED BY <1>5, <1>7, <3>1, <3>2 DEF Fibers
  <2> QED BY <2>1, <2>2 DEF KeptInv
<1> QED BY <1>8, <1>9 DEF JobInv

\* A callback that was taken is given to a fiber that had no function.
LEMMA RunCbJobs ==
    ASSUME TypeOK, SchedulerInv, JobInv, NEW t \in Threads, RunCb(t)
    PROVE  JobInv'
<1>1. PICK f \in CbFibers :
         /\ IF cb_fiber[t] # None THEN f = cb_fiber[t] ELSE m_state[f] = "FREE"
         /\ m_cb' = [m_cb EXCEPT ![f] = ft[t]]
         /\ swapIn(t, f)
  BY ZenonT(30) DEF RunCb
<1>2. /\ pc[t] = "dispatch_task" /\ ft[t] \in Cbs
      /\ m_state' = [m_state EXCEPT ![f] = "EXEC"]
      /\ ft' = [ft EXCEPT ![t] = None]
      /\ UNCHANGED <<m_fibers, pin, done>>
  BY ZenonT(30), <1>1 DEF RunCb, Goto, swapIn, queueVars, jobVars
<1>3. running[t] = None /\ f \in Fibers /\ f # None /\ ft[t] # None
  BY <1>2, SchedulerAssumption DEF SchedulerInv, PlaceInv, RunPcs, Fibers
<1>4. ~Live(f)
  BY <1>1, <1>3 DEF SchedulerInv, CacheInv, Live
<1>5. QueuedTasks' = QueuedTasks /\ ft[t] \notin QueuedTasks
  BY <1>2, QueueKept DEF SchedulerInv, UniqueInv
<1>6. TakenTasks' = TakenTasks \ {ft[t]} /\ ft[t] \in TakenTasks
  BY <1>2, <1>3, SMTT(30) DEF TakenTasks, SchedulerInv, UniqueInv, TypeOK
<1>7. Known' = Known \ {ft[t]} /\ ft[t] \in Known
  BY <1>5, <1>6 DEF Known
<1>8. /\ Live(f)' /\ m_cb'[f] = ft[t]
      /\ \A g \in Fibers : g # f => m_state'[g] = m_state[g] /\ m_cb'[g] = m_cb[g]
  BY <1>1, <1>2, <1>3 DEF TypeOK, Live
<1>9. \A g \in Fibers : g # f => (Live(g)' <=> Live(g)) /\ (Finished(g)' <=> Finished(g))
  BY <1>8 DEF Live, Finished
<1>10. /\ ft[t] \notin done
       /\ \A g \in CbFibers : Live(g) => m_cb[g] # ft[t]
       /\ pin[ft[t]] # Unscheduled
  BY ZenonT(30), <1>2, <1>7 DEF JobInv, DoneInv, SchedulerInv, FreshInv, Known, Jobs
<1>11. DoneInv'
  <2>1. ASSUME NEW g \in UserFibers
        PROVE  IF Finished(g)' THEN g \in done' ELSE g \notin done' /\ m_cb'[g] = g
    <3>1. g \in Fibers /\ g # f
      BY SchedulerAssumption DEF Fibers
    <3>2. (Finished(g)' <=> Finished(g)) /\ m_cb'[g] = m_cb[g] /\ done' = done
      BY Zenon, <1>2, <1>8, <1>9, <3>1
    <3>3. IF Finished(g) THEN g \in done ELSE g \notin done /\ m_cb[g] = g
      BY Zenon DEF JobInv, DoneInv
    <3> QED BY <3>2, <3>3
  <2>2. ASSUME NEW g \in CbFibers, Live(g)'
        PROVE  m_cb'[g] \in Cbs /\ m_cb'[g] \notin done' /\ m_cb'[g] \notin Known'
    BY ZenonT(30), <1>2, <1>7, <1>8, <1>9, <1>10, <2>2 DEF JobInv, DoneInv, Fibers
  <2>3. \A g, h \in CbFibers : Live(g)' /\ Live(h)' /\ m_cb'[g] = m_cb'[h] => g = h
    <3>1. \A g \in CbFibers : g # f /\ Live(g)' => Live(g) /\ m_cb'[g] = m_cb[g]
      BY <1>8, <1>9 DEF Fibers
    <3>2. \A g, h \in CbFibers : Live(g) /\ Live(h) /\ m_cb[g] = m_cb[h] => g = h
      BY Zenon DEF JobInv, DoneInv
    <3> QED BY <1>8, <1>10, <3>1, <3>2
  <2>4. \A c \in Cbs : c \in Known' => c \notin done'
    BY <1>2, <1>7 DEF JobInv, DoneInv
  <2>5. ASSUME NEW c \in Cbs, pin'[c] = Unscheduled
        PROVE  c \notin done' /\ \A g \in CbFibers : Live(g)' => m_cb'[g] # c
    <3>1. pin[c] = Unscheduled /\ c # ft[t]
      BY <1>2, <1>10, <2>5
    <3>2. c \notin done /\ \A g \in CbFibers : Live(g) => m_cb[g] # c
      BY Zenon, <3>1 DEF JobInv, DoneInv
    <3>3. \A g \in CbFibers : g # f /\ Live(g)' => Live(g) /\ m_cb'[g] = m_cb[g]
      BY <1>8, <1>9 DEF Fibers
    <3> QED BY <1>2, <1>8, <3>1, <3>2, <3>3
  <2> QED BY Zenon, <2>1, <2>2, <2>3, <2>4, <2>5 DEF DoneInv
<1>12. KeptInv'
  <2>1. ASSUME NEW g \in UserFibers, pin'[g] # Unscheduled
        PROVE  g \in done' \/ g \in Known' \/ Live(g)'
    BY <1>2, <1>7, <1>9, <2>1, SchedulerAssumption DEF JobInv, KeptInv, Fibers
  <2>2. ASSUME NEW c \in Cbs, pin'[c] # Unscheduled, c \notin done', c \notin Known'
        PROVE  \E g \in CbFibers : Live(g)' /\ m_cb'[g] = c
    <3>1. CASE c = ft[t]
      BY <1>8, <3>1
    <3>2. CASE c # ft[t]
      <4>1. PICK g \in CbFibers : Live(g) /\ m_cb[g] = c
        BY <1>2, <1>7, <2>2, <3>2 DEF JobInv, KeptInv
      <4>2. g # f
        BY <1>4, <4>1
      <4> QED BY <1>8, <1>9, <4>1, <4>2 DEF Fibers
    <3> QED BY <3>1, <3>2
  <2> QED BY <2>1, <2>2 DEF KeptInv
<1> QED BY <1>11, <1>12 DEF JobInv

\* Every step of the scheduler preserves JobInv.
LEMMA JobStep ==
    ASSUME TypeOK, SchedulerInv, JobInv, [Next]_vars
    PROVE  JobInv'
<1>1. ASSUME NEW t \in Threads,
             \/ LockQueue(t) \/ SkipElsewhere(t) \/ SkipExecuting(t) \/ TakeNothing(t)
             \/ ScanTickle(t) \/ SwappedOut(t) \/ SettleTickle(t) \/ IdleStep(t)
             \/ TaskTickles(t) \/ YieldToHold(t) \/ Arm(t)
      PROVE  UNCHANGED <<m_fibers, m_state, m_cb, ft, pin, done>>
  BY ZenonT(30), <1>1 DEF LockQueue, SkipElsewhere, SkipExecuting, TakeNothing, ScanTickle, SwappedOut,
     SettleTickle, IdleStep, EnterIdle, ExitRun, IdleChecksPending, IdleChecksQueue, EpollTickled,
     EpollTimeout, LeaveIdle, TaskTickles, YieldToHold, Arm, queueVars, fiberVars, localVars, jobVars
<1>2. ASSUME CallerTickles \/ start \/ StopAuto \/ stop \/ Stopped \/ UNCHANGED vars
      PROVE  UNCHANGED <<m_fibers, m_state, m_cb, ft, pin, done>>
  BY <1>2 DEF CallerTickles, start, StopAuto, stop, StopFlag, EarlyChecksPending, EarlyChecksQueue,
     StopTickle, RootChecksPending, RootChecksQueue, RootCall, Join, Stopped, vars, queueVars,
     fiberVars, localVars, jobVars
<1>3. ASSUME NEW j \in Jobs, NEW th \in Threads \cup {None},
             schedule(j, th) \/ \E t \in Threads : TaskSchedules(t, j, th)
      PROVE  JobInv'
  <2>1. /\ pin[j] = Unscheduled /\ scheduleNoLock(j, th) /\ pin' = [pin EXCEPT ![j] = th]
        /\ UNCHANGED <<m_state, m_cb, ft, done>>
    BY <1>3 DEF schedule, TaskSchedules, fiberVars, localVars
  <2> QED BY ZenonT(30), <2>1, ScheduleJobs
<1>4. ASSUME NEW f \in Fibers, WakerFires(f) PROVE JobInv'
  <2>1. /\ scheduleNoLock(f, None) /\ f \notin QueuedTasks
        /\ UNCHANGED <<m_state, m_cb, ft, pin, done>>
    BY ZenonT(30), <1>4 DEF WakerFires, localVars, jobVars, SchedulerInv, WakeInv
  <2> QED BY <2>1, PushJobs
<1>5. ASSUME NEW t \in Threads, SettleReady(t) PROVE JobInv'
  <2>1. /\ pc[t] = "settle" /\ m_state[running[t]] = "READY" /\ scheduleNoLock(running[t], None)
        /\ UNCHANGED <<m_state, m_cb, ft, pin, done>>
    BY <1>5 DEF SettleReady, Goto, fiberVars, jobVars
  <2>2. running[t] \in Fibers /\ running[t] \notin QueuedTasks
    BY <2>1 DEF SchedulerInv, PlaceInv, RunningInv, RunPcs, TypeOK
  <2> QED BY <2>1, <2>2, PushJobs
<1>6. ASSUME NEW t \in Threads,
             \/ Take(t) \/ RunFiber(t) \/ RunCb(t) \/ DropFinished(t) \/ SettleFinished(t)
             \/ SettleHold(t) \/ YieldToReady(t) \/ \E s \in {"TERM", "EXCEPT"} : MainFunc(t, s)
      PROVE  JobInv'
  BY <1>6, TakeJobs, RunFiberJobs, RunCbJobs, DropJobs, SettleFinishedJobs, SuspendJobs, MainFuncJobs
<1> QED BY ZenonT(30), <1>1, <1>2, <1>3, <1>4, <1>5, <1>6, JobsRest DEF Next, RunStep, TaskStep

\* No job has been scheduled when the scheduler is constructed.
LEMMA InitJobs ==
    ASSUME Init
    PROVE  JobInv
<1> USE SchedulerAssumption DEF Init
<1>1. Known = {}
  BY SMTT(30) DEF Known, QueuedTasks, TakenTasks
<1>2. /\ \A f \in UserFibers : ~Finished(f) /\ m_cb[f] = f
      /\ \A f \in CbFibers : ~Live(f)
      /\ \A j \in Jobs : pin[j] = Unscheduled
  BY DEF Fibers, Finished, Live
<1> QED BY <1>1, <1>2 DEF JobInv, DoneInv, KeptInv, Jobs

\* JobInv holds in every state: every scheduled job is in one place, or done.
THEOREM JobsAreKept == Spec => []JobInv
<1>1. IInv /\ JobInv /\ [Next]_vars => JobInv'
  BY JobStep DEF IInv
<1> QED BY <1>1, InitJobs, SchedulerInductive, PTL DEF Spec

\* A job that was executed to its end is never executed again, for any number of threads,
\* fibers and callbacks: no step swaps in a fiber for a job that is done.
THEOREM NothingRunsTwice == Spec => NeverTwice
<1>1. ASSUME IInv, JobInv, [Next]_vars, NEW t \in Threads, running'[t] # None, running[t] = None
      PROVE  m_cb'[running'[t]] \in Jobs \ done
  <2> USE DEF IInv
  <2>1. RunFiber(t) \/ RunCb(t)
    <3>1. ASSUME NEW u \in Threads, RunStep(u)
          PROVE  RunFiber(t) \/ RunCb(t)
      <4>1. CASE LockQueue(u) \/ SkipElsewhere(u) \/ SkipExecuting(u) \/ Take(u) \/ TakeNothing(u)
                 \/ ScanTickle(u) \/ DropFinished(u) \/ SwappedOut(u) \/ SettleTickle(u)
        BY ZenonT(30), <1>1, <4>1 DEF LockQueue, SkipElsewhere, SkipExecuting, Take, TakeNothing, ScanTickle,
           DropFinished, SwappedOut, SettleTickle, localVars
      <4>2. CASE SettleReady(u) \/ SettleFinished(u) \/ SettleHold(u)
        <5>1. running' = [running EXCEPT ![u] = None]
          BY <4>2 DEF SettleReady, SettleFinished, SettleHold, DropRunning
        <5> QED BY <1>1, <5>1 DEF TypeOK
      <4>3. CASE RunFiber(u)
        <5>1. running' = [running EXCEPT ![u] = ft[u]]
          BY <4>3 DEF RunFiber, swapIn
        <5> QED BY <1>1, <4>3, <5>1 DEF TypeOK
      <4>4. CASE RunCb(u)
        <5>1. \E f \in CbFibers : running' = [running EXCEPT ![u] = f]
          BY ZenonT(30), <4>4 DEF RunCb, swapIn
        <5> QED BY <1>1, <4>4, <5>1 DEF TypeOK
      <4> QED BY <3>1, <4>1, <4>2, <4>3, <4>4 DEF RunStep
    <3>2. ASSUME NEW u \in Threads, IdleStep(u) PROVE FALSE
      BY <1>1, <3>2 DEF IdleStep, EnterIdle, ExitRun, IdleChecksPending, IdleChecksQueue,
         EpollTickled, EpollTimeout, LeaveIdle, localVars
    <3>3. ASSUME NEW u \in Threads, TaskStep(u) \/ Arm(u) PROVE FALSE
      BY <1>1, <3>3 DEF TaskStep, TaskTickles, YieldToHold, YieldToReady, MainFunc, Arm, localVars
    <3>4. ~ (start \/ StopAuto \/ stop \/ Stopped \/ CallerTickles \/ UNCHANGED vars)
      BY <1>1 DEF start, stop, StopAuto, StopFlag, EarlyChecksPending, EarlyChecksQueue, StopTickle,
         RootChecksPending, RootChecksQueue, RootCall, Join, Stopped, CallerTickles, localVars, vars
    <3>5. ASSUME NEW j \in Jobs, NEW th \in Threads \cup {None}
          PROVE  ~ schedule(j, th) /\ \A u \in Threads : ~ TaskSchedules(u, j, th)
      BY ZenonT(30), <1>1 DEF schedule, TaskSchedules, localVars
    <3>6. ASSUME NEW f \in Fibers PROVE ~ WakerFires(f)
      BY ZenonT(30), <1>1 DEF WakerFires, localVars
    <3> QED BY ZenonT(30), <1>1, <3>1, <3>2, <3>3, <3>4, <3>5, <3>6 DEF Next
  <2>2. CASE RunFiber(t)
    <3>1. /\ ft[t] \in Fibers /\ ~Finished(ft[t])
          /\ running' = [running EXCEPT ![t] = ft[t]] /\ m_cb' = m_cb
      BY <2>2 DEF RunFiber, swapIn
    <3>2. running'[t] = ft[t] /\ ft[t] \in TakenTasks
      BY <1>1, <3>1, SchedulerAssumption, ZenonT(30) DEF TypeOK, TakenTasks, Fibers
    <3>3. CASE ft[t] \in UserFibers
      BY <1>1, <3>1, <3>2, <3>3 DEF JobInv, DoneInv, Jobs
    <3>4. CASE ft[t] \in CbFibers
      <4>1. Live(ft[t])
        BY <1>1, <3>1, <3>2, <3>4 DEF SchedulerInv, BodyInv, Live
      <4> QED BY <1>1, <3>1, <3>2, <3>4, <4>1 DEF JobInv, DoneInv, Jobs
    <3> QED BY <3>1, <3>3, <3>4 DEF Fibers
  <2>3. CASE RunCb(t)
    <3>1. PICK f \in CbFibers : /\ m_cb' = [m_cb EXCEPT ![f] = ft[t]]
                                /\ running' = [running EXCEPT ![t] = f]
      BY ZenonT(30), <2>3 DEF RunCb, swapIn
    <3>2. ft[t] \in Cbs
      BY <2>3 DEF RunCb
    <3>3. running'[t] = f /\ m_cb'[f] = ft[t]
      BY <1>1, <3>1 DEF TypeOK, Fibers
    <3>4. ft[t] \in Known
      BY <3>2, SchedulerAssumption DEF Known, TakenTasks
    <3> QED BY <1>1, <3>2, <3>3, <3>4 DEF JobInv, DoneInv, Jobs
  <2> QED BY <2>1, <2>2, <2>3
<1>2. IInv /\ JobInv /\ [Next]_vars =>
         [\A t \in Threads : running'[t] # None /\ running[t] = None =>
              m_cb'[running'[t]] \in Jobs \ done]_vars
  BY <1>1
<1> QED BY <1>2, SchedulerInductive, JobsAreKept, PTL DEF Spec, NeverTwice
\* When stop() of a scheduler that has no thread but the calling one returns, every job
\* that was scheduled has been executed to its end and nothing is pending: for any number
\* of fibers, callbacks and waits, and whatever the tasks schedule.
THEOREM StopDrainsAlone ==
    ASSUME Workers = {}, Roots # {}
    PROVE  Spec => []StopDrains
<1>1. PICK r : Roots = {r} /\ Threads = {r}
  BY SchedulerAssumption, SMTT(30) DEF Threads
<1>2. Init => AloneInv /\ ExecInv
  <2> SUFFICES ASSUME Init PROVE AloneInv /\ ExecInv
    OBVIOUS
  <2>1. /\ pc[r] = "new" /\ ~idle_term[r] /\ stop_pc = "none" /\ ~m_autoStop
        /\ \A f \in Fibers : m_state[f] \in {"INIT", "FREE"} /\ wake[f] = "none"
    BY <1>1 DEF Init
  <2> QED BY <1>1, <2>1 DEF AloneInv, ExecInv, Live, Unused
<1>3. IInv /\ AloneInv /\ ExecInv /\ [Next]_vars => AloneInv' /\ ExecInv'
  BY <1>1, AloneStep, ExecStep DEF IInv
<1>4. IInv /\ JobInv /\ AloneInv /\ ExecInv => StopDrains
  <2> SUFFICES ASSUME IInv, JobInv, AloneInv, ExecInv, stop_pc = "done"
               PROVE  /\ m_fibers = <<>> /\ ~Pending
                      /\ \A j \in Jobs : pin[j] # Unscheduled => j \in done
    BY DEF StopDrains
  <2>1. pc[r] \in {"new", "exited"}
    BY <1>1 DEF AloneInv
  <2>2. m_fibers = <<>> /\ ~Pending
    BY <1>1, <2>1 DEF AloneInv, Unused, Pending
  <2>3. QueuedTasks = {}
    BY <2>2 DEF QueuedTasks
  <2>4. TakenTasks = {} /\ RunningFibers = {}
    BY <1>1, <2>1 DEF IInv, SchedulerInv, PlaceInv, RunPcs, TakenPcs, TakenTasks, RunningFibers
  <2>5. \A f \in Fibers : ~Live(f)
    BY <2>2, <2>3, <2>4 DEF IInv, SchedulerInv, NoFiberStranded, ExecInv, Live, Pending
  <2> QED BY <2>2, <2>3, <2>4, <2>5 DEF JobInv, KeptInv, Known, Jobs, Fibers
<1> QED BY <1>2, <1>3, <1>4, SchedulerInductive, JobsAreKept, PTL DEF Spec
=============================================================================

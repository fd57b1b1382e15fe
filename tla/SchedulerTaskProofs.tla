------------------------- MODULE SchedulerTaskProofs -------------------------
(***************************************************************************)
(* Proofs about Scheduler: the queue of tasks, the counting of threads,    *)
(* the steps that move a task between the queue and a thread, and those of *)
(* a running task and of what run() does with it afterwards.               *)
(***************************************************************************)
EXTENDS Scheduler, TLAPS

\* Most steps need no arithmetic: Zenon is tried before SMT.
USE ZenonT(10), SMTT(15)

-----------------------------------------------------------------------------
(***************************************************************************)
(* The queue                                                               *)
(***************************************************************************)

\* What erasing one element of a list leaves.
LEMMA ListEraseFacts ==
    ASSUME NEW S, NEW s \in Seq(S), NEW i \in 1..Len(s)
    PROVE  /\ erase(s, i) \in Seq(S)
           /\ Len(erase(s, i)) = Len(s) - 1
           /\ \A k \in 1..(Len(s) - 1) :
                 erase(s, i)[k] = IF k < i THEN s[k] ELSE s[k + 1]
<1>1. Len(s) \in Nat /\ s \in [1..Len(s) -> S]
  OBVIOUS
<1>2. erase(s, i) \in [1..(Len(s) - 1) -> S]
  BY <1>1, SMTT(30) DEF erase
<1> QED BY <1>1, <1>2, SMTT(30) DEF erase

\* scheduleNoLock adds its task to the queue, once.
LEMMA PushFacts ==
    ASSUME m_fibers \in Seq(Entry), Distinct,
           NEW x \in Fibers \cup Cbs, NEW th \in Threads \cup {None},
           scheduleNoLock(x, th), x \notin QueuedTasks
    PROVE  /\ m_fibers' \in Seq(Entry)
           /\ QueuedTasks' = QueuedTasks \cup {x}
           /\ Distinct'
<1> DEFINE e == [task |-> x, thread |-> th]
<1>1. e \in Entry
  BY DEF Entry
<1>2. /\ m_fibers' = Append(m_fibers, e)
      /\ e.task = x
  BY DEF scheduleNoLock
<1> HIDE DEF e
<1>3. /\ m_fibers' \in Seq(Entry)
      /\ Len(m_fibers) \in Nat
      /\ Len(m_fibers') = Len(m_fibers) + 1
      /\ \A i \in 1..Len(m_fibers) : m_fibers'[i] = m_fibers[i]
      /\ m_fibers'[Len(m_fibers) + 1] = e
  BY <1>1, <1>2
<1>4. QueuedTasks' = QueuedTasks \cup {x}
  <2>1. ASSUME NEW y \in QueuedTasks' PROVE y \in QueuedTasks \cup {x}
    <3>1. PICK i \in 1..(Len(m_fibers) + 1) : y = m_fibers'[i].task
      BY <2>1, <1>3 DEF QueuedTasks
    <3>2. CASE i = Len(m_fibers) + 1
      BY <3>1, <3>2, <1>2, <1>3
    <3>3. CASE i \in 1..Len(m_fibers)
      BY <3>1, <3>3, <1>3 DEF QueuedTasks
    <3> QED BY <3>2, <3>3, <1>3
  <2>2. ASSUME NEW y \in QueuedTasks PROVE y \in QueuedTasks'
    <3>1. PICK i \in 1..Len(m_fibers) : y = m_fibers[i].task
      BY <2>2 DEF QueuedTasks
    <3>2. i \in 1..Len(m_fibers') /\ y = m_fibers'[i].task
      BY <3>1, <1>3, SMTT(30)
    <3> QED BY <3>2 DEF QueuedTasks
  <2>3. x \in QueuedTasks'
    <3>1. Len(m_fibers) + 1 \in 1..Len(m_fibers') /\ m_fibers'[Len(m_fibers) + 1].task = x
      BY <1>2, <1>3
    <3> QED BY <3>1 DEF QueuedTasks
  <2> QED BY <2>1, <2>2, <2>3
<1>5. Distinct'
  <2> SUFFICES ASSUME NEW i \in 1..(Len(m_fibers) + 1), NEW j \in 1..(Len(m_fibers) + 1),
                      m_fibers'[i].task = m_fibers'[j].task
               PROVE  i = j
    BY <1>3 DEF Distinct
  <2>1. \A k \in 1..Len(m_fibers) : m_fibers'[k].task # x
    BY <1>3 DEF QueuedTasks
  <2>2. CASE i \in 1..Len(m_fibers) /\ j \in 1..Len(m_fibers)
    BY <2>2, <1>3 DEF Distinct
  <2>3. CASE i = Len(m_fibers) + 1 \/ j = Len(m_fibers) + 1
    BY <2>1, <2>3, <1>2, <1>3
  <2> QED BY <2>2, <2>3, <1>3
<1> QED BY <1>3, <1>4, <1>5

\* erase takes its task out of the queue, and no other.
LEMMA EraseFacts ==
    ASSUME m_fibers \in Seq(Entry), Distinct,
           NEW n \in 1..Len(m_fibers), m_fibers' = erase(m_fibers, n)
    PROVE  /\ m_fibers' \in Seq(Entry)
           /\ m_fibers[n].task \in QueuedTasks
           /\ QueuedTasks' = QueuedTasks \ {m_fibers[n].task}
           /\ Distinct'
<1>1. /\ m_fibers' \in Seq(Entry)
      /\ Len(m_fibers) \in Nat /\ n \in Nat
      /\ Len(m_fibers') = Len(m_fibers) - 1
      /\ \A k \in 1..(Len(m_fibers) - 1) :
            m_fibers'[k] = IF k < n THEN m_fibers[k] ELSE m_fibers[k + 1]
  BY ListEraseFacts
<1>2. m_fibers[n].task \in QueuedTasks
  BY DEF QueuedTasks
<1>3. QueuedTasks' = QueuedTasks \ {m_fibers[n].task}
  <2>1. ASSUME NEW y \in QueuedTasks' PROVE y \in QueuedTasks \ {m_fibers[n].task}
    <3>1. PICK k \in 1..(Len(m_fibers) - 1) : y = m_fibers'[k].task
      BY <2>1, <1>1 DEF QueuedTasks
    <3>2. PICK i \in 1..Len(m_fibers) : y = m_fibers[i].task /\ i # n
      <4>1. CASE k < n
        <5>1. k \in 1..Len(m_fibers) /\ k # n /\ m_fibers'[k] = m_fibers[k]
          BY <4>1, <1>1
        <5> QED BY <5>1, <3>1
      <4>2. CASE ~(k < n)
        <5>1. k + 1 \in 1..Len(m_fibers) /\ k + 1 # n
          BY <4>2, <1>1
        <5>2. m_fibers'[k] = m_fibers[k + 1]
          BY <4>2, <1>1
        <5> QED BY <5>1, <5>2, <3>1
      <4> QED BY <4>1, <4>2
    <3> QED BY <3>2 DEF QueuedTasks, Distinct
  <2>2. ASSUME NEW y \in QueuedTasks \ {m_fibers[n].task} PROVE y \in QueuedTasks'
    <3>1. PICK i \in 1..Len(m_fibers) : y = m_fibers[i].task /\ i # n
      BY <2>2 DEF QueuedTasks
    <3>2. PICK k \in 1..Len(m_fibers') : y = m_fibers'[k].task
      <4>1. CASE i < n
        BY <4>1, <3>1, <1>1, SMTT(30)
      <4>2. CASE i > n
        <5>1. i - 1 \in 1..(Len(m_fibers) - 1) /\ ~(i - 1 < n) /\ (i - 1) + 1 = i
          BY <4>2, <1>1
        <5> QED BY ZenonT(30), <5>1, <3>1, <1>1
      <4> QED BY <4>1, <4>2, <3>1, <1>1
    <3> QED BY <3>2 DEF QueuedTasks
  <2> QED BY <2>1, <2>2
<1>4. Distinct'
  <2> SUFFICES ASSUME NEW i \in 1..(Len(m_fibers) - 1), NEW j \in 1..(Len(m_fibers) - 1),
                      m_fibers'[i].task = m_fibers'[j].task
               PROVE  i = j
    BY <1>1 DEF Distinct
  <2> DEFINE old(k) == IF k < n THEN k ELSE k + 1
  <2>1. /\ old(i) \in 1..Len(m_fibers) /\ m_fibers'[i] = m_fibers[old(i)]
        /\ old(j) \in 1..Len(m_fibers) /\ m_fibers'[j] = m_fibers[old(j)]
    BY <1>1
  <2>2. old(i) = old(j)
    BY <2>1 DEF Distinct
  <2> QED BY <2>2, <1>1
<1> QED BY <1>1, <1>2, <1>3, <1>4

-----------------------------------------------------------------------------
(***************************************************************************)
(* Steps that move no task                                                 *)
(***************************************************************************)
SameKind(p, q) ==
    /\ p \in RunPcs <=> q \in RunPcs
    /\ p \in TakenPcs <=> q \in TakenPcs
    /\ q \in {"run", "run_tickle"} => p \in {"run", "run_tickle"}
    /\ q \in {"out", "settle"} => p \in {"out", "settle"}

\* A step of a thread that is in run() starts no other thread.
LEMMA StartKept ==
    ASSUME StartInv, UNCHANGED stopVars, NEW t \in Threads, pc[t] # "new",
           \A u \in Threads \ {t} : pc'[u] = pc[u]
    PROVE  StartInv'
BY DEF StartInv, stopVars, Threads

\* The steps of stop() but the call of run().
StopStep ==
    \/ StopAuto \/ StopFlag \/ EarlyChecksPending \/ EarlyChecksQueue \/ StopTickle
    \/ RootChecksPending \/ RootChecksQueue \/ Join

\* A step that leaves tasks, fibers and wakers alone preserves the invariant.
LEMMA QuietStep ==
    ASSUME SchedulerInv, StartInv',
           UNCHANGED <<m_fibers, m_state, m_cb, wake, ft, cb_fiber, running, pin>>,
           \A t \in Threads : it'[t] >= 1,
           \A t \in Threads : SameKind(pc[t], pc'[t])
    PROVE  SchedulerInv'
<1>1. QueuedTasks' = QueuedTasks /\ (Distinct => Distinct')
  BY DEF QueuedTasks, Distinct
<1>2. TakenTasks' = TakenTasks /\ RunningFibers' = RunningFibers
  BY DEF TakenTasks, RunningFibers
<1>3. PlaceInv'
  BY DEF SchedulerInv, PlaceInv, SameKind, TypeOK
<1>4. UniqueInv'
  BY <1>1 DEF SchedulerInv, UniqueInv, TypeOK
<1>5. RunningInv'
  BY <1>1, <1>2, SMTT(30) DEF SchedulerInv, RunningInv, SameKind, Finished, TypeOK
<1>6. WakeInv' /\ CacheInv' /\ FreshInv' /\ BodyInv' /\ NoFiberStranded'
  BY <1>1, <1>2 DEF SchedulerInv, WakeInv, CacheInv, FreshInv, BodyInv,
     NoFiberStranded, Private, TypeOK
<1> QED BY <1>3, <1>4, <1>5, <1>6 DEF SchedulerInv, TypeOK

-----------------------------------------------------------------------------
(***************************************************************************)
(* Steps that move a task                                                  *)
(***************************************************************************)
\* What is queued is a fiber or a callback.
LEMMA QueuedType ==
    ASSUME TypeOK
    PROVE  QueuedTasks \subseteq Fibers \cup Cbs
<1> SUFFICES ASSUME NEW i \in 1..Len(m_fibers)
             PROVE  m_fibers[i].task \in Fibers \cup Cbs
  BY DEF QueuedTasks
<1>1. m_fibers[i] \in Entry
  BY SMTT(30) DEF TypeOK
<1> QED BY <1>1 DEF Entry

\* A step that leaves m_fibers alone leaves what is queued alone.
LEMMA QueueKept ==
    ASSUME SchedulerInv, UNCHANGED m_fibers
    PROVE  QueuedTasks' = QueuedTasks /\ Distinct'
BY SMTT(30) DEF QueuedTasks, Distinct, SchedulerInv, UniqueInv, TypeOK

\* schedule() by an outside thread puts a fresh job into the queue.
LEMMA ScheduleStep ==
    ASSUME TypeOK, SchedulerInv, NEW j \in Jobs, NEW th \in Threads \cup {None}, schedule(j, th)
    PROVE  SchedulerInv'
<1>1. /\ pin[j] = Unscheduled /\ j \in Fibers \cup Cbs
      /\ scheduleNoLock(j, th)
      /\ pin' = [pin EXCEPT ![j] = th] /\ th # Unscheduled
      /\ UNCHANGED <<stopVars, m_cb, pc, it, m_state, wake, ft, cb_fiber, running>>
  BY SchedulerAssumption DEF schedule, fiberVars, localVars, Jobs, Fibers
<1>2. QueuedTasks' = QueuedTasks \cup {j} /\ Distinct'
  <2>1. j \notin QueuedTasks
    BY <1>1 DEF SchedulerInv, FreshInv, TypeOK
  <2> QED BY <1>1, <2>1, PushFacts DEF SchedulerInv, UniqueInv, TypeOK
<1>3. /\ TakenTasks' = TakenTasks
      /\ RunningFibers' = RunningFibers
  BY <1>1 DEF TakenTasks, RunningFibers
<1>4. StartInv'
  BY <1>1 DEF SchedulerInv, StartInv, stopVars, TypeOK
<1>5. PlaceInv'
  BY <1>1 DEF SchedulerInv, PlaceInv, TypeOK
<1>6. UniqueInv'
  BY <1>1, <1>2, SchedulerAssumption, SMTT(30) DEF SchedulerInv, UniqueInv, FreshInv, TakenTasks
<1>7. RunningInv'
  BY <1>1, <1>2, <1>3, SchedulerAssumption, SMTT(30)
     DEF SchedulerInv, RunningInv, FreshInv, Finished, Jobs,
     TypeOK
<1>8. WakeInv'
  BY <1>1, <1>2, SchedulerAssumption, SMTT(30)
     DEF SchedulerInv, WakeInv, FreshInv, TakenTasks, RunningFibers,
     Private, Jobs, TypeOK
<1>9. CacheInv'
  BY <1>1, <1>2, <1>3, SchedulerAssumption, SMTT(30)
     DEF SchedulerInv, CacheInv, Private, Fibers, Jobs, TypeOK
<1>10. FreshInv'
  BY <1>1, <1>2, <1>3 DEF SchedulerInv, FreshInv, Private, TypeOK
<1>11. NoFiberStranded'
  BY <1>1, <1>2, <1>3 DEF SchedulerInv, NoFiberStranded, TypeOK
<1>12. BodyInv'
  BY <1>1, <1>2, <1>3, SchedulerAssumption, SMTT(30) DEF SchedulerInv, BodyInv, Jobs, TypeOK
<1> QED BY <1>4, <1>5, <1>6, <1>7, <1>8, <1>9, <1>10, <1>11, <1>12 DEF SchedulerInv

\* A waker puts the fiber it holds into the queue.
LEMMA WakerStep ==
    ASSUME TypeOK, SchedulerInv, NEW f \in Fibers, WakerFires(f)
    PROVE  SchedulerInv'
<1>1. /\ wake[f] = "armed" /\ f \in Fibers \cup Cbs /\ None \in Threads \cup {None}
      /\ scheduleNoLock(f, None)
      /\ wake' = [wake EXCEPT ![f] = "fired"]
      /\ UNCHANGED <<stopVars, m_cb, pc, it, m_state, ft, cb_fiber, running, pin>>
  BY SchedulerAssumption DEF WakerFires, localVars, jobVars
<1>2. QueuedTasks' = QueuedTasks \cup {f} /\ Distinct'
  <2>1. f \notin QueuedTasks
    BY <1>1 DEF SchedulerInv, WakeInv, TypeOK
  <2> QED BY <1>1, <2>1, PushFacts DEF SchedulerInv, UniqueInv, TypeOK
<1>3. /\ TakenTasks' = TakenTasks
      /\ RunningFibers' = RunningFibers
  BY <1>1 DEF TakenTasks, RunningFibers
<1>4. StartInv'
  BY <1>1 DEF SchedulerInv, StartInv, stopVars, TypeOK
<1>5. PlaceInv'
  BY <1>1 DEF SchedulerInv, PlaceInv, TypeOK
<1>6. UniqueInv'
  BY <1>1, <1>2, SchedulerAssumption, SMTT(30) DEF SchedulerInv, UniqueInv, WakeInv, TakenTasks
<1>7. RunningInv'
  BY <1>1, <1>2, <1>3 DEF SchedulerInv, RunningInv, Finished, TypeOK
<1>8. WakeInv'
  BY <1>1, <1>2, <1>3 DEF SchedulerInv, WakeInv, Private, TypeOK
<1>9. CacheInv'
  BY <1>1, <1>2, <1>3, SMTT(30) DEF SchedulerInv, CacheInv, Private, TypeOK
<1>10. FreshInv'
  BY <1>1, <1>2, <1>3, SchedulerAssumption, SMTT(30)
     DEF SchedulerInv, FreshInv, Private, Jobs, TypeOK
<1>11. NoFiberStranded'
  BY <1>1, <1>2, <1>3 DEF SchedulerInv, NoFiberStranded, TypeOK
<1>12. BodyInv'
  BY <1>1, <1>2, <1>3 DEF SchedulerInv, BodyInv, TypeOK
<1> QED BY <1>4, <1>5, <1>6, <1>7, <1>8, <1>9, <1>10, <1>11, <1>12 DEF SchedulerInv

\* A thread takes a task that is not EXEC from the queue.
LEMMA TakeStep ==
    ASSUME TypeOK, SchedulerInv, NEW t \in Threads, Take(t)
    PROVE  SchedulerInv'
<1> DEFINE x == m_fibers[it[t]].task
<1>0. it[t] <= Len(m_fibers) /\ m_fibers' = erase(m_fibers, it[t])
  BY DEF Take
<1>1. /\ pc[t] = "scan"
      /\ x \in Fibers => m_state[x] # "EXEC"
      /\ ft' = [ft EXCEPT ![t] = x] /\ it' = [it EXCEPT ![t] = 1]
      /\ pc'[t] \in TakenPcs
      /\ \A u \in Threads \ {t} : pc'[u] = pc[u]
      /\ UNCHANGED <<stopVars, m_cb, m_state, wake, cb_fiber, running, pin>>
  BY DEF Take, Executing, fiberVars, jobVars, TakenPcs, TypeOK
<1>2. QueuedTasks' = QueuedTasks \ {x} /\ Distinct' /\ x \in QueuedTasks
  <2>1. it[t] \in 1..Len(m_fibers)
    BY <1>0, SMTT(30) DEF TypeOK, SchedulerInv, PlaceInv
  <2> QED BY <1>0, <2>1, EraseFacts DEF SchedulerInv, UniqueInv, TypeOK
<1> HIDE DEF x
<1>3. /\ TakenTasks' = TakenTasks \cup {x}
      /\ RunningFibers' = RunningFibers
  <2>1. ft[t] = None /\ x # None
    BY <1>1, <1>2, QueuedType, SchedulerAssumption DEF SchedulerInv, PlaceInv, TakenPcs
  <2>2. RunningFibers' = RunningFibers
    BY <1>1 DEF RunningFibers
  <2> QED BY <1>1, <2>1, <2>2, SMTT(30) DEF TakenTasks, TypeOK
<1>4. StartInv'
  BY <1>1, StartKept DEF SchedulerInv
<1>5. PlaceInv'
  BY <1>1, <1>2, SMTT(30) DEF SchedulerInv, PlaceInv, UniqueInv, RunPcs, TakenPcs, TypeOK
<1>6. UniqueInv'
  BY <1>1, <1>2, SMTT(30) DEF SchedulerInv, UniqueInv, TypeOK
<1>7. RunningInv'
  BY <1>1, <1>2, <1>3, SMTT(30) DEF SchedulerInv, RunningInv, Finished, TakenPcs, TypeOK
<1>8. WakeInv'
  BY <1>1, <1>2, <1>3 DEF SchedulerInv, WakeInv, Private, TypeOK
<1>9. CacheInv'
  BY <1>1, <1>2, <1>3, SchedulerAssumption, SMTT(30)
     DEF SchedulerInv, CacheInv, Private, TypeOK
<1>10. FreshInv'
  BY <1>1, <1>2, <1>3, SchedulerAssumption
     DEF SchedulerInv, FreshInv, Private, TypeOK
<1>11. NoFiberStranded'
  BY <1>1, <1>2, <1>3, SchedulerAssumption
     DEF SchedulerInv, NoFiberStranded, TypeOK
<1>12. BodyInv'
  BY <1>1, <1>2, <1>3, SchedulerAssumption
     DEF SchedulerInv, BodyInv, TypeOK
<1> QED BY <1>4, <1>5, <1>6, <1>7, <1>8, <1>9, <1>10, <1>11, <1>12 DEF SchedulerInv

\* A thread swaps in the fiber it has taken.
LEMMA RunFiberStep ==
    ASSUME TypeOK, SchedulerInv, NEW t \in Threads, RunFiber(t)
    PROVE  SchedulerInv'
<1>1. /\ pc[t] = "dispatch_task" /\ pc' = [pc EXCEPT ![t] = "run"]
      /\ ft[t] \in Fibers /\ ~Finished(ft[t])
      /\ m_state' = [m_state EXCEPT ![ft[t]] = "EXEC"]
      /\ wake' = [wake EXCEPT ![ft[t]] = "none"]
      /\ running' = [running EXCEPT ![t] = ft[t]] /\ ft' = [ft EXCEPT ![t] = None]
      /\ \A u \in Threads \ {t} : pc'[u] = pc[u]
      /\ UNCHANGED <<stopVars, m_cb, m_fibers, it, cb_fiber, pin>>
  BY SchedulerAssumption DEF RunFiber, Goto, swapIn, queueVars, jobVars, TypeOK
<1>2. QueuedTasks' = QueuedTasks /\ Distinct'
  BY <1>1, QueueKept
<1>3. /\ TakenTasks' = TakenTasks \ {ft[t]}
      /\ RunningFibers' = RunningFibers \cup {ft[t]}
  <2>1. running[t] = None /\ ft[t] # None /\ \A u \in Threads \ {t} : ft[u] # ft[t]
    BY <1>1, SchedulerAssumption DEF SchedulerInv, PlaceInv, UniqueInv, RunPcs
  <2>2. TakenTasks' = TakenTasks \ {ft[t]}
    BY <1>1, <2>1, SMTT(30) DEF TakenTasks, TypeOK
  <2>3. RunningFibers' = RunningFibers \cup {ft[t]}
    BY <1>1, <2>1, SMTT(30) DEF RunningFibers, TypeOK
  <2> QED BY <2>2, <2>3
<1>4. StartInv'
  BY <1>1, StartKept DEF SchedulerInv, TypeOK
<1>5. PlaceInv'
  BY <1>1 DEF SchedulerInv, PlaceInv, RunPcs, TakenPcs, TypeOK
<1>6. UniqueInv'
  <2>1. ft[t] \notin RunningFibers /\ None \notin QueuedTasks
    BY <1>1, QueuedType, SchedulerAssumption, SMTT(30)
       DEF SchedulerInv, RunningInv, TakenTasks, RunningFibers, TypeOK
  <2> QED BY <1>1, <1>2, <2>1, SMTT(30) DEF SchedulerInv, UniqueInv, RunningFibers, TypeOK
<1>7. RunningInv'
  BY <1>1, <1>2, SMTT(30)
     DEF SchedulerInv, PlaceInv, UniqueInv, RunningInv, WakeInv, CacheInv, TakenTasks,
     Private, Finished, TypeOK
<1>8. WakeInv'
  BY <1>1, <1>2, SMTT(30)
     DEF SchedulerInv, UniqueInv, WakeInv, TakenTasks, RunningFibers, Private, TypeOK
<1>9. CacheInv'
  <2>1. ft[t] \notin RunningFibers /\ ft[t] \in TakenTasks
    BY <1>1, SchedulerAssumption, SMTT(30)
       DEF SchedulerInv, RunningInv, TakenTasks, RunningFibers, Finished, TypeOK
  <2>2. \A u \in Threads : cb_fiber[u] # ft[t]
    BY <1>1, <2>1, SchedulerAssumption, SMTT(30)
       DEF SchedulerInv, CacheInv, Private, RunningFibers, TypeOK
  <2>3. running[t] = None
    BY <1>1 DEF SchedulerInv, PlaceInv, RunPcs
  <2> SUFFICES ASSUME NEW u \in Threads, cb_fiber[u] # None, running'[u] # cb_fiber[u]
               PROVE  m_state'[cb_fiber[u]] = "INIT" /\ Private(cb_fiber[u])'
    BY <1>1 DEF CacheInv
  <2>4. m_state[cb_fiber[u]] = "INIT" /\ Private(cb_fiber[u]) /\ cb_fiber[u] \in Fibers
    BY <1>1, <2>3 DEF SchedulerInv, CacheInv, TypeOK, Fibers
  <2> QED BY <1>1, <1>2, <1>3, <2>2, <2>4 DEF Private, TypeOK
<1>10. FreshInv'
  BY <1>1, <1>2, SchedulerAssumption, SMTT(30)
     DEF SchedulerInv, FreshInv, TakenTasks, RunningFibers, Private, TypeOK
<1>11. NoFiberStranded'
  BY <1>1, <1>2, <1>3 DEF SchedulerInv, NoFiberStranded, TypeOK
<1>12. BodyInv'
  BY <1>1, <1>2, SchedulerAssumption, SMTT(30)
     DEF SchedulerInv, WakeInv, BodyInv, Private, Finished,
     TakenTasks, Fibers, TypeOK
<1> QED BY <1>4, <1>5, <1>6, <1>7, <1>8, <1>9, <1>10, <1>11, <1>12 DEF SchedulerInv

\* A finished fiber that was woken late is dropped.
LEMMA DropStep ==
    ASSUME TypeOK, SchedulerInv, NEW t \in Threads, DropFinished(t)
    PROVE  SchedulerInv'
<1>1. /\ pc[t] = "dispatch_task" /\ pc' = [pc EXCEPT ![t] = "lock"]
      /\ ft[t] \in Fibers /\ Finished(ft[t])
      /\ ft' = [ft EXCEPT ![t] = None]
      /\ \A u \in Threads \ {t} : pc'[u] = pc[u]
      /\ UNCHANGED <<stopVars, m_cb, m_fibers, it, m_state, wake, cb_fiber, running, pin>>
  BY SchedulerAssumption DEF DropFinished, Goto, fiberVars, jobVars, TypeOK
<1>2. QueuedTasks' = QueuedTasks /\ Distinct'
  BY <1>1, QueueKept
<1>3. /\ TakenTasks' = TakenTasks \ {ft[t]}
      /\ RunningFibers' = RunningFibers
  BY <1>1, SMTT(30) DEF TakenTasks, RunningFibers, SchedulerInv, UniqueInv, TypeOK
<1>4. StartInv'
  BY <1>1, StartKept DEF SchedulerInv, TypeOK
<1>5. PlaceInv'
  BY <1>1 DEF SchedulerInv, PlaceInv, RunPcs, TakenPcs, TypeOK
<1>6. UniqueInv'
  <2>1. None \notin QueuedTasks
    BY QueuedType, SchedulerAssumption
  <2> QED BY <1>1, <1>2, <2>1 DEF SchedulerInv, UniqueInv, TypeOK
<1>7. RunningInv'
  BY <1>1, <1>2, <1>3, SMTT(30) DEF SchedulerInv, RunningInv, Finished, TypeOK
<1>8. WakeInv'
  BY <1>1, <1>2, <1>3, SchedulerAssumption
     DEF SchedulerInv, WakeInv, Private, TypeOK
<1>9. CacheInv'
  BY <1>1, <1>2, <1>3, SchedulerAssumption
     DEF SchedulerInv, CacheInv, Private, TypeOK
<1>10. FreshInv'
  BY <1>1, <1>2, <1>3, SchedulerAssumption
     DEF SchedulerInv, FreshInv, Private, TypeOK
<1>11. NoFiberStranded'
  BY <1>1, <1>2, SMTT(30)
     DEF SchedulerInv, NoFiberStranded, TakenTasks, RunningFibers, Finished, TypeOK
<1>12. BodyInv'
  BY <1>1, <1>2, <1>3 DEF SchedulerInv, BodyInv, TypeOK
<1> QED BY <1>4, <1>5, <1>6, <1>7, <1>8, <1>9, <1>10, <1>11, <1>12 DEF SchedulerInv


\* A running task hands its fiber to a waker.
LEMMA ArmStep ==
    ASSUME TypeOK, SchedulerInv, NEW t \in Threads, Arm(t)
    PROVE  SchedulerInv'
<1>1. /\ pc[t] = "run" /\ wake[running[t]] = "none"
      /\ wake' = [wake EXCEPT ![running[t]] = "armed"]
      /\ \A u \in Threads \ {t} : pc'[u] = pc[u]
      /\ UNCHANGED <<stopVars, m_cb, pc, m_fibers, it, m_state, ft, cb_fiber, running, pin>>
  BY SchedulerAssumption DEF Arm, queueVars, localVars
<1>2. QueuedTasks' = QueuedTasks /\ Distinct'
  BY <1>1, QueueKept
<1>3. /\ TakenTasks' = TakenTasks
      /\ RunningFibers' = RunningFibers
  BY <1>1 DEF TakenTasks, RunningFibers
<1>4. StartInv'
  BY <1>1, StartKept DEF SchedulerInv, TypeOK
<1>5. PlaceInv'
  BY <1>1 DEF SchedulerInv, PlaceInv, TypeOK
<1>6. UniqueInv'
  BY <1>1, <1>2, <1>3, SchedulerAssumption
     DEF SchedulerInv, UniqueInv, TypeOK
<1>7. RunningInv'
  BY <1>1, <1>2, <1>3, ZenonT(30) DEF SchedulerInv, RunningInv, Finished, TypeOK
<1>8. WakeInv'
  BY <1>1, <1>2, <1>3, SchedulerAssumption, SMTT(30)
     DEF SchedulerInv, RunningInv, WakeInv, Private, TypeOK
<1>9. CacheInv'
  BY <1>1, <1>2, <1>3, SMTT(30) DEF SchedulerInv, CacheInv, RunningFibers, Private, TypeOK
<1>10. FreshInv'
  BY <1>1, <1>2, <1>3, SMTT(30)
     DEF SchedulerInv, PlaceInv, FreshInv, RunningFibers, Private, RunPcs, TypeOK
<1>11. NoFiberStranded'
  BY <1>1, <1>2, <1>3, SchedulerAssumption
     DEF SchedulerInv, NoFiberStranded, TypeOK
<1>12. BodyInv'
  BY <1>1, <1>2, <1>3, SchedulerAssumption, SMTT(30) DEF SchedulerInv, RunningInv, BodyInv, TypeOK
<1> QED BY <1>4, <1>5, <1>6, <1>7, <1>8, <1>9, <1>10, <1>11, <1>12 DEF SchedulerInv

\* A running task suspends.
LEMMA YieldHoldStep ==
    ASSUME TypeOK, SchedulerInv, NEW t \in Threads, YieldToHold(t)
    PROVE  SchedulerInv'
<1>1. /\ pc[t] = "run" /\ pc' = [pc EXCEPT ![t] = "out"]
      /\ wake[running[t]] # "none"
      /\ \A u \in Threads \ {t} : pc'[u] = pc[u]
      /\ UNCHANGED <<stopVars, m_cb, m_fibers, it, m_state, wake, ft, cb_fiber, running, pin>>
  BY SchedulerAssumption DEF YieldToHold, Goto, queueVars, localVars, fiberVars, jobVars, TypeOK
<1>2. QueuedTasks' = QueuedTasks /\ Distinct'
  BY <1>1, QueueKept
<1>3. /\ TakenTasks' = TakenTasks
      /\ RunningFibers' = RunningFibers
  BY <1>1 DEF TakenTasks, RunningFibers
<1>4. StartInv'
  BY <1>1, StartKept DEF SchedulerInv, TypeOK
<1>5. PlaceInv'
  BY <1>1 DEF SchedulerInv, PlaceInv, RunPcs, TakenPcs, TypeOK
<1>6. UniqueInv'
  BY <1>1, <1>2, <1>3, SchedulerAssumption
     DEF SchedulerInv, UniqueInv, TypeOK
<1>7. RunningInv'
  BY <1>1, <1>2, <1>3, SMTT(30) DEF SchedulerInv, RunningInv, Finished, TypeOK
<1>8. WakeInv'
  BY <1>1, <1>2, <1>3, SchedulerAssumption
     DEF SchedulerInv, WakeInv, Private, TypeOK
<1>9. CacheInv'
  BY <1>1, <1>2, <1>3, SchedulerAssumption
     DEF SchedulerInv, CacheInv, Private, TypeOK
<1>10. FreshInv'
  BY <1>1, <1>2, <1>3, SchedulerAssumption
     DEF SchedulerInv, FreshInv, Private, TypeOK
<1>11. NoFiberStranded'
  BY <1>1, <1>2, <1>3, SchedulerAssumption
     DEF SchedulerInv, NoFiberStranded, TypeOK
<1>12. BodyInv'
  BY <1>1, <1>2, <1>3 DEF SchedulerInv, BodyInv, TypeOK
<1> QED BY <1>4, <1>5, <1>6, <1>7, <1>8, <1>9, <1>10, <1>11, <1>12 DEF SchedulerInv

\* A running task gives up the thread.
LEMMA YieldReadyStep ==
    ASSUME TypeOK, SchedulerInv, NEW t \in Threads, YieldToReady(t)
    PROVE  SchedulerInv'
<1>1. /\ pc[t] = "run" /\ pc' = [pc EXCEPT ![t] = "out"]
      /\ wake[running[t]] = "none"
      /\ m_state' = [m_state EXCEPT ![running[t]] = "READY"]
      /\ \A u \in Threads \ {t} : pc'[u] = pc[u]
      /\ UNCHANGED <<stopVars, m_cb, m_fibers, it, wake, ft, cb_fiber, running, pin>>
  BY SchedulerAssumption DEF YieldToReady, Goto, queueVars, localVars, TypeOK
<1>2. QueuedTasks' = QueuedTasks /\ Distinct'
  BY <1>1, QueueKept
<1>3. /\ TakenTasks' = TakenTasks
      /\ RunningFibers' = RunningFibers
  BY <1>1 DEF TakenTasks, RunningFibers
<1>4. StartInv'
  BY <1>1, StartKept DEF SchedulerInv, TypeOK
<1>5. PlaceInv'
  BY <1>1 DEF SchedulerInv, PlaceInv, RunPcs, TakenPcs, TypeOK
<1>6. UniqueInv'
  BY <1>1, <1>2, <1>3, SchedulerAssumption, ZenonT(30)
     DEF SchedulerInv, UniqueInv, TypeOK
<1>7. RunningInv'
  BY <1>1, <1>2, <1>3, SMTT(30) DEF SchedulerInv, UniqueInv, RunningInv, Finished, TypeOK
<1>8. WakeInv'
  BY <1>1, <1>2, <1>3, SchedulerAssumption, SMTT(30)
     DEF SchedulerInv, WakeInv, Private, TypeOK
<1>9. CacheInv'
  BY <1>1, <1>2, <1>3, SMTT(30) DEF SchedulerInv, CacheInv, RunningFibers, Private, TypeOK
<1>10. FreshInv'
  BY <1>1, <1>2, <1>3, SMTT(30)
     DEF SchedulerInv, PlaceInv, FreshInv, RunningFibers, Private, RunPcs, TypeOK
<1>11. NoFiberStranded'
  BY <1>1, <1>2, <1>3, SMTT(30)
     DEF SchedulerInv, PlaceInv, NoFiberStranded, RunningFibers, RunPcs, TypeOK
<1>12. BodyInv'
  BY <1>1, <1>2, <1>3, SchedulerAssumption, SMTT(30) DEF SchedulerInv, RunningInv, BodyInv, TypeOK
<1> QED BY <1>4, <1>5, <1>6, <1>7, <1>8, <1>9, <1>10, <1>11, <1>12 DEF SchedulerInv

\* A running task returns or throws.
LEMMA MainFuncStep ==
    ASSUME TypeOK, SchedulerInv, NEW t \in Threads, NEW s \in {"TERM", "EXCEPT"}, MainFunc(t, s)
    PROVE  SchedulerInv'
<1>1. /\ pc[t] = "run" /\ pc' = [pc EXCEPT ![t] = "out"]
      /\ running[t] \in CbFibers => wake[running[t]] = "none"
      /\ m_state' = [m_state EXCEPT ![running[t]] = s]
      /\ m_cb' = IF s = "TERM" THEN [m_cb EXCEPT ![running[t]] = None] ELSE m_cb
      /\ \A u \in Threads \ {t} : pc'[u] = pc[u]
      /\ UNCHANGED <<stopVars, m_fibers, it, wake, ft, cb_fiber, running, pin>>
  BY SchedulerAssumption DEF MainFunc, Goto, queueVars, localVars, TypeOK
<1>2. QueuedTasks' = QueuedTasks /\ Distinct'
  BY <1>1, QueueKept
<1>3. /\ TakenTasks' = TakenTasks
      /\ RunningFibers' = RunningFibers
  BY <1>1 DEF TakenTasks, RunningFibers
<1>4. StartInv'
  BY <1>1, StartKept DEF SchedulerInv, TypeOK
<1>5. PlaceInv'
  BY <1>1 DEF SchedulerInv, PlaceInv, RunPcs, TakenPcs, TypeOK
<1>6. UniqueInv'
  BY <1>1, <1>2, <1>3, SchedulerAssumption
     DEF SchedulerInv, UniqueInv, TypeOK
<1>7. RunningInv'
  BY <1>1, <1>2, <1>3, SMTT(30) DEF SchedulerInv, UniqueInv, RunningInv, Finished, TypeOK
<1>8. WakeInv'
  BY <1>1, <1>2, <1>3, SchedulerAssumption, SMTT(30)
     DEF SchedulerInv, WakeInv, Private, TypeOK
<1>9. CacheInv'
  BY <1>1, <1>2, <1>3, SMTT(30) DEF SchedulerInv, CacheInv, RunningFibers, Private, TypeOK
<1>10. FreshInv'
  BY <1>1, <1>2, <1>3, SMTT(30)
     DEF SchedulerInv, PlaceInv, FreshInv, RunningFibers, Private, RunPcs, TypeOK
<1>11. NoFiberStranded'
  BY <1>1, <1>2, <1>3, SchedulerAssumption
     DEF SchedulerInv, NoFiberStranded, TypeOK
<1>12. BodyInv'
  BY <1>1, <1>2, <1>3, SchedulerAssumption, SMTT(30) DEF SchedulerInv, RunningInv, BodyInv, TypeOK
<1> QED BY <1>4, <1>5, <1>6, <1>7, <1>8, <1>9, <1>10, <1>11, <1>12 DEF SchedulerInv

\* run() writes HOLD once the context is saved.
LEMMA SettleHoldStep ==
    ASSUME TypeOK, SchedulerInv, NEW t \in Threads, SettleHold(t)
    PROVE  SchedulerInv'
<1>1. /\ pc[t] = "settle" /\ pc' = [pc EXCEPT ![t] = "lock"]
      /\ m_state[running[t]] = "EXEC"
      /\ m_state' = [m_state EXCEPT ![running[t]] = "HOLD"]
      /\ running' = [running EXCEPT ![t] = None]
      /\ cb_fiber' = IF ViaCb(t) THEN [cb_fiber EXCEPT ![t] = None] ELSE cb_fiber
      /\ \A u \in Threads \ {t} : pc'[u] = pc[u]
      /\ UNCHANGED <<stopVars, m_cb, m_fibers, it, wake, ft, pin>>
  BY SchedulerAssumption, ZenonT(30) DEF SettleHold, DropRunning, Goto, queueVars, jobVars, TypeOK
<1>2. QueuedTasks' = QueuedTasks /\ Distinct'
  BY <1>1, QueueKept
<1>3. /\ TakenTasks' = TakenTasks
      /\ RunningFibers' = RunningFibers \ {running[t]}
  BY <1>1, SMTT(30) DEF TakenTasks, RunningFibers, SchedulerInv, UniqueInv, TypeOK
<1>4. StartInv'
  BY <1>1, StartKept DEF SchedulerInv, TypeOK
<1>5. PlaceInv'
  BY <1>1 DEF SchedulerInv, PlaceInv, RunPcs, TakenPcs, TypeOK
<1>6. UniqueInv'
  BY <1>1, <1>2, <1>3, SchedulerAssumption, SMTT(30)
     DEF SchedulerInv, UniqueInv, TypeOK
<1>7. RunningInv'
  BY <1>1, <1>2, <1>3, SMTT(30) DEF SchedulerInv, UniqueInv, RunningInv, Finished, TypeOK
<1>8. WakeInv'
  BY <1>1, <1>2, <1>3, SchedulerAssumption, SMTT(30)
     DEF SchedulerInv, WakeInv, Private, TypeOK
<1>9. CacheInv'
  BY <1>1, <1>2, <1>3, SMTT(30) DEF SchedulerInv, CacheInv, Private, ViaCb, TypeOK
<1>10. FreshInv'
  BY <1>1, <1>2, <1>3, SchedulerAssumption, SMTT(30)
     DEF SchedulerInv, FreshInv, Private, TypeOK
<1>11. NoFiberStranded'
  BY <1>1, <1>2, <1>3, SchedulerAssumption, SMTT(30)
     DEF SchedulerInv, RunningInv, WakeInv, NoFiberStranded,
     TypeOK
<1>12. BodyInv'
  BY <1>1, <1>2, <1>3 DEF SchedulerInv, BodyInv, TypeOK
<1> QED BY <1>4, <1>5, <1>6, <1>7, <1>8, <1>9, <1>10, <1>11, <1>12 DEF SchedulerInv

\* run() keeps or frees the fiber of a finished callback.
LEMMA SettleFinishedStep ==
    ASSUME TypeOK, SchedulerInv, NEW t \in Threads, SettleFinished(t)
    PROVE  SchedulerInv'
<1>1. /\ pc[t] = "settle" /\ pc' = [pc EXCEPT ![t] = "lock"]
      /\ Finished(running[t])
      /\ m_state' = IF running[t] \in CbFibers
                   THEN [m_state EXCEPT ![running[t]] = IF ViaCb(t) THEN "INIT" ELSE "FREE"]
                   ELSE m_state
      /\ running' = [running EXCEPT ![t] = None]
      /\ m_cb' = IF running[t] \in CbFibers THEN [m_cb EXCEPT ![running[t]] = None] ELSE m_cb
      /\ \A u \in Threads \ {t} : pc'[u] = pc[u]
      /\ UNCHANGED <<stopVars, m_fibers, it, wake, ft, cb_fiber, pin>>
  BY SchedulerAssumption DEF SettleFinished, Goto, queueVars, jobVars, TypeOK
<1>2. QueuedTasks' = QueuedTasks /\ Distinct'
  BY <1>1, QueueKept
<1>3. /\ TakenTasks' = TakenTasks
      /\ RunningFibers' = RunningFibers \ {running[t]}
  BY <1>1, SMTT(30) DEF TakenTasks, RunningFibers, SchedulerInv, UniqueInv, TypeOK
<1>4. StartInv'
  BY <1>1, StartKept DEF SchedulerInv, TypeOK
<1>5. PlaceInv'
  BY <1>1 DEF SchedulerInv, PlaceInv, RunPcs, TakenPcs, TypeOK
<1>6. UniqueInv'
  BY <1>1, <1>2, <1>3, SchedulerAssumption, SMTT(30)
     DEF SchedulerInv, UniqueInv, TypeOK
<1>7. RunningInv'
  BY <1>1, <1>2, <1>3, SMTT(30) DEF SchedulerInv, UniqueInv, RunningInv, Finished, TypeOK
<1>8. WakeInv'
  <2>1. running[t] \in Fibers /\ running[t] # None
    BY <1>1, SchedulerAssumption DEF SchedulerInv, PlaceInv, RunPcs, TypeOK
  <2>2. running[t] \in CbFibers => /\ wake[running[t]] = "none" /\ running[t] \notin QueuedTasks \cup TakenTasks
                                   /\ \A u \in Threads : cb_fiber[u] = running[t] => u = t
    BY <1>1, <2>1 DEF SchedulerInv, RunningInv, TypeOK
  <2> QED BY <1>1, <1>2, <1>3, <2>2, SchedulerAssumption, SMTT(30)
             DEF SchedulerInv, WakeInv, Private, ViaCb, TypeOK
<1>9. CacheInv'
  BY <1>1, <1>2, <1>3, SMTT(30) DEF SchedulerInv, RunningInv, CacheInv, Private, ViaCb, TypeOK
<1>10. FreshInv'
  BY <1>1, <1>2, <1>3, SchedulerAssumption, SMTT(30)
     DEF SchedulerInv, FreshInv, Private, TypeOK
<1>11. NoFiberStranded'
  BY <1>1, <1>2, SMTT(30)
     DEF SchedulerInv, NoFiberStranded, TakenTasks, RunningFibers, Finished, TypeOK
<1>12. BodyInv'
  BY <1>1, <1>2, <1>3, SchedulerAssumption, SMTT(30) DEF SchedulerInv, BodyInv, Finished, TypeOK
<1> QED BY <1>4, <1>5, <1>6, <1>7, <1>8, <1>9, <1>10, <1>11, <1>12 DEF SchedulerInv

\* run() puts a fiber that is READY back into the queue.
LEMMA SettleReadyStep ==
    ASSUME TypeOK, SchedulerInv, NEW t \in Threads, SettleReady(t)
    PROVE  SchedulerInv'
<1>1. /\ pc[t] = "settle" /\ m_state[running[t]] = "READY"
      /\ pc'[t] \in {"again", "lock"}
      /\ scheduleNoLock(running[t], None)
      /\ running' = [running EXCEPT ![t] = None]
      /\ cb_fiber' = IF ViaCb(t) THEN [cb_fiber EXCEPT ![t] = None] ELSE cb_fiber
      /\ \A u \in Threads \ {t} : pc'[u] = pc[u]
      /\ UNCHANGED <<stopVars, m_cb, it, m_state, wake, ft, pin>>
  BY SchedulerAssumption DEF SettleReady, DropRunning, Goto, fiberVars, jobVars, TypeOK
<1>2. QueuedTasks' = QueuedTasks \cup {running[t]} /\ Distinct'
  <2>1. running[t] \in Fibers /\ running[t] \notin QueuedTasks
    BY <1>1 DEF SchedulerInv, PlaceInv, RunningInv, RunPcs, TypeOK
  <2> QED BY <1>1, <2>1, PushFacts DEF SchedulerInv, UniqueInv, TypeOK
<1>3. /\ TakenTasks' = TakenTasks
      /\ RunningFibers' = RunningFibers \ {running[t]}
  BY <1>1, SMTT(30) DEF TakenTasks, RunningFibers, SchedulerInv, UniqueInv, TypeOK
<1>4. StartInv'
  BY <1>1, StartKept DEF SchedulerInv
<1>5. PlaceInv'
  BY <1>1, SchedulerAssumption, SMTT(30) DEF SchedulerInv, PlaceInv, RunPcs, TakenPcs, TypeOK
<1>6. UniqueInv'
  BY <1>1, <1>2, SMTT(30)
     DEF SchedulerInv, PlaceInv, UniqueInv, RunningInv, TakenTasks, RunPcs, TypeOK
<1>7. RunningInv'
  BY <1>1, <1>2, <1>3, SMTT(30) DEF SchedulerInv, RunningInv, RunningFibers, Finished
<1>. DEFINE r == running[t]
<1>13. /\ r \in Fibers /\ m_state[r] = "READY" /\ wake[r] = "none" /\ r \in RunningFibers
       /\ \A x : x # r => /\ x \in QueuedTasks' <=> x \in QueuedTasks
                          /\ x \in RunningFibers' <=> x \in RunningFibers
  <2>1. r \in Fibers /\ r # None
    BY <1>1 DEF SchedulerInv, PlaceInv, RunPcs, TypeOK
  <2>2. wake[r] = "none" /\ r \in RunningFibers
    BY <1>1, <2>1 DEF SchedulerInv, RunningInv, RunningFibers
  <2>. QED BY <1>1, <1>2, <1>3, <2>1, <2>2
<1>14. \A u \in Threads : cb_fiber'[u] \in {cb_fiber[u], None}
  BY <1>1 DEF TypeOK
<1>8. WakeInv'
  <2>. SUFFICES ASSUME NEW f \in Fibers
               PROVE  /\ wake'[f] = "armed" => f \notin QueuedTasks' /\ f \notin TakenTasks'
                      /\ wake'[f] = "fired" /\ m_state'[f] = "EXEC" => f \in QueuedTasks'
                      /\ m_state'[f] = "EXEC" => f \notin TakenTasks'
                      /\ m_state'[f] = "FREE" => Private(f)' /\ \A u \in Threads : cb_fiber'[u] # f
    BY DEF WakeInv
  <2>1. f # None /\ (f = r => m_state[f] = "READY" /\ wake[f] = "none")
    BY <1>13, SchedulerAssumption
  <2>2. UNCHANGED <<wake, m_state>> /\ TakenTasks' = TakenTasks
    BY <1>1, <1>3
  <2>3. CASE f = r
    BY <2>1, <2>2, <2>3
  <2>4. CASE f # r
    <3>1. (f \in QueuedTasks' <=> f \in QueuedTasks) /\ (f \in RunningFibers' <=> f \in RunningFibers)
      BY <1>13, <2>4
    <3>2. WakeInv
      BY DEF SchedulerInv
    <3>. QED BY <1>14, <2>1, <2>2, <3>1, <3>2 DEF WakeInv, Private
  <2>. QED BY <2>3, <2>4
<1>9. CacheInv'
  BY <1>1, <1>2, <1>3 DEF SchedulerInv, CacheInv, Private, ViaCb, TypeOK
<1>10. FreshInv'
  <2>. SUFFICES ASSUME NEW j \in Jobs, pin[j] = Unscheduled
               PROVE  /\ j \notin QueuedTasks' /\ j \notin TakenTasks'
                      /\ j \in UserFibers => m_state'[j] = "INIT" /\ Private(j)'
    BY <1>1 DEF FreshInv
  <2>1. j # r
    BY <1>13, SchedulerAssumption DEF SchedulerInv, FreshInv, Private, Jobs, Fibers
  <2>2. UNCHANGED <<wake, m_state>> /\ TakenTasks' = TakenTasks
    BY <1>1, <1>3
  <2>3. (j \in QueuedTasks' <=> j \in QueuedTasks) /\ (j \in RunningFibers' <=> j \in RunningFibers)
    BY <1>13, <2>1
  <2>4. FreshInv
    BY DEF SchedulerInv
  <2>. QED BY <2>2, <2>3, <2>4 DEF FreshInv, Private
<1>11. NoFiberStranded'
  BY <1>1, <1>2, <1>3, SchedulerAssumption
     DEF SchedulerInv, NoFiberStranded, TypeOK
<1>12. BodyInv'
  BY <1>1, <1>2, <1>3, SchedulerAssumption
     DEF SchedulerInv, BodyInv, TypeOK
<1> QED BY <1>4, <1>5, <1>6, <1>7, <1>8, <1>9, <1>10, <1>11, <1>12 DEF SchedulerInv

\* A running task puts a fresh job into the queue.
LEMMA TaskSchedulesStep ==
    ASSUME TypeOK, SchedulerInv, NEW t \in Threads, NEW j \in Jobs,
       NEW th \in Threads \cup {None}, TaskSchedules(t, j, th)
    PROVE  SchedulerInv'
<1>1. /\ pin[j] = Unscheduled /\ j \in Fibers \cup Cbs /\ pc[t] = "run"
      /\ scheduleNoLock(j, th)
      /\ pin' = [pin EXCEPT ![j] = th] /\ th # Unscheduled
      /\ pc'[t] \in {"run", "run_tickle"}
      /\ \A u \in Threads \ {t} : pc'[u] = pc[u]
      /\ UNCHANGED <<stopVars, m_cb, it, m_state, wake, ft, cb_fiber, running>>
  BY SchedulerAssumption, SMTT(30) DEF TaskSchedules, fiberVars, localVars, Jobs, Fibers, TypeOK
<1>2. QueuedTasks' = QueuedTasks \cup {j} /\ Distinct'
  <2>1. j \notin QueuedTasks
    BY <1>1 DEF SchedulerInv, FreshInv, TypeOK
  <2> QED BY <1>1, <2>1, PushFacts DEF SchedulerInv, UniqueInv, TypeOK
<1>3. /\ TakenTasks' = TakenTasks
      /\ RunningFibers' = RunningFibers
  BY <1>1 DEF TakenTasks, RunningFibers
<1>4. StartInv'
  BY <1>1, StartKept DEF SchedulerInv
<1>5. PlaceInv'
  BY <1>1 DEF SchedulerInv, PlaceInv, RunPcs, TakenPcs
<1>6. UniqueInv'
  <2>1. j \notin TakenTasks /\ j # None
    BY <1>1, SchedulerAssumption DEF SchedulerInv, FreshInv, Jobs
  <2>2. \A u \in Threads : ft[u] # j
    BY <2>1 DEF TakenTasks
  <2>3. UniqueInv /\ ft' = ft /\ running' = running /\ cb_fiber' = cb_fiber
    BY <1>1 DEF SchedulerInv
  <2> QED BY <1>2, <2>2, <2>3 DEF UniqueInv
<1>7. RunningInv'
  <2>1. j \notin RunningFibers
    BY <1>1, SchedulerAssumption, SMTT(30)
       DEF SchedulerInv, FreshInv, Private, RunningFibers, TypeOK, Jobs
  <2> QED BY <1>1, <1>2, <1>3, <2>1, SMTT(30)
             DEF SchedulerInv, RunningInv, RunningFibers, Finished, TypeOK
<1>8. WakeInv'
  <2>1. j \in Fibers => wake[j] = "none" /\ m_state[j] = "INIT"
    BY <1>1, SchedulerAssumption DEF SchedulerInv, FreshInv, Private, Fibers, Jobs
  <2> QED BY <1>1, <1>2, <1>3, <2>1 DEF SchedulerInv, WakeInv, Private
<1>9. CacheInv'
  <2>1. \A u \in Threads : cb_fiber[u] # None => cb_fiber[u] # j
    BY SchedulerAssumption, SMTT(30) DEF Fibers, Jobs, TypeOK
  <2> QED BY <1>1, <1>2, <1>3, <2>1 DEF SchedulerInv, CacheInv, Private
<1>10. FreshInv'
  <2>1. \A k \in Jobs : pin'[k] = Unscheduled => k # j /\ pin[k] = Unscheduled
    BY <1>1 DEF TypeOK
  <2> QED BY <1>1, <1>2, <1>3, <2>1 DEF SchedulerInv, FreshInv, Private
<1>11. NoFiberStranded'
  BY <1>1, <1>2, <1>3, SchedulerAssumption
     DEF SchedulerInv, NoFiberStranded, TypeOK
<1>12. BodyInv'
  BY <1>1, <1>2, <1>3, SchedulerAssumption, SMTT(30) DEF SchedulerInv, BodyInv, Jobs, TypeOK
<1> QED BY <1>4, <1>5, <1>6, <1>7, <1>8, <1>9, <1>10, <1>11, <1>12 DEF SchedulerInv

\* A thread swaps in a fiber of its own, kept or new, to execute a callback.
LEMMA RunCbStep ==
    ASSUME TypeOK, SchedulerInv, NEW t \in Threads, RunCb(t)
    PROVE  SchedulerInv'
<1>1. PICK f \in CbFibers :
         /\ IF cb_fiber[t] # None THEN f = cb_fiber[t] ELSE m_state[f] = "FREE"
         /\ cb_fiber' = [cb_fiber EXCEPT ![t] = f]
         /\ m_cb' = [m_cb EXCEPT ![f] = ft[t]]
         /\ swapIn(t, f)
  BY ZenonT(30) DEF RunCb
<1>2. /\ pc[t] = "dispatch_task" /\ pc' = [pc EXCEPT ![t] = "run"]
      /\ ft[t] \in Cbs
      /\ m_state' = [m_state EXCEPT ![f] = "EXEC"]
      /\ wake' = [wake EXCEPT ![f] = "none"]
      /\ running' = [running EXCEPT ![t] = f] /\ ft' = [ft EXCEPT ![t] = None]
      /\ \A u \in Threads \ {t} : pc'[u] = pc[u]
      /\ UNCHANGED <<stopVars, m_fibers, it, pin>>
  BY <1>1 DEF RunCb, Goto, swapIn, queueVars, jobVars, TypeOK
<1>3. running[t] = None /\ f \in Fibers /\ f # None /\ ft[t] # None /\ None \notin QueuedTasks
  BY <1>2, QueuedType, SchedulerAssumption DEF SchedulerInv, PlaceInv, RunPcs, Fibers
<1>4. Private(f) /\ \A u \in Threads \ {t} : cb_fiber[u] # f
  BY <1>1, <1>3, SchedulerAssumption, SMTT(30)
     DEF SchedulerInv, WakeInv, CacheInv, UniqueInv, TypeOK
<1>5. QueuedTasks' = QueuedTasks /\ Distinct'
  BY <1>2, QueueKept
<1>6. TakenTasks' = TakenTasks \ {ft[t]}
  BY <1>2, <1>3, SMTT(30) DEF TakenTasks, SchedulerInv, UniqueInv, TypeOK
<1>7. RunningFibers' = RunningFibers \cup {f}
  BY <1>2, <1>3, SMTT(30) DEF RunningFibers, TypeOK
<1>8. StartInv'
  BY <1>2, StartKept DEF SchedulerInv, TypeOK
<1>9. PlaceInv'
  BY <1>2, <1>3 DEF SchedulerInv, PlaceInv, RunPcs, TakenPcs, TypeOK
<1>10. UniqueInv'
  BY <1>1, <1>2, <1>3, <1>4, <1>5, SMTT(30)
     DEF SchedulerInv, UniqueInv, Private, RunningFibers, TypeOK
<1>11. RunningInv'
  <2>1. ASSUME NEW u \in Threads, u # t, running'[u] # None
        PROVE  /\ running'[u] = running[u] /\ pc'[u] = pc[u] /\ running[u] # f
               /\ m_state'[running[u]] = m_state[running[u]] /\ wake'[running[u]] = wake[running[u]]
    BY <1>2, <1>4, <2>1, SMTT(30) DEF Private, RunningFibers, TypeOK
  <2>2. \A u \in Threads : u # t => cb_fiber'[u] = cb_fiber[u]
    BY <1>1 DEF TypeOK
  <2>3. cb_fiber'[t] = f /\ running'[t] = f /\ m_state'[f] = "EXEC" /\ wake'[f] = "none" /\ pc'[t] = "run"
    BY <1>1, <1>2, <1>3 DEF TypeOK
  <2>4. f \notin QueuedTasks' /\ f \notin TakenTasks'
    BY <1>4, <1>5, <1>6 DEF Private
  <2>5. TakenTasks' \subseteq TakenTasks /\ QueuedTasks' = QueuedTasks
    BY <1>5, <1>6
  <2>6. ASSUME NEW u \in Threads, u # t, running'[u] # None
        PROVE  /\ m_state'[running'[u]] \in {"EXEC", "READY", "TERM", "EXCEPT"}
               /\ pc'[u] \in {"run", "run_tickle"} => m_state'[running'[u]] = "EXEC"
               /\ m_state'[running'[u]] = "READY" => wake'[running'[u]] = "none"
               /\ pc'[u] \in {"out", "settle"} /\ m_state'[running'[u]] = "EXEC" => wake'[running'[u]] # "none"
               /\ running'[u] \in CbFibers /\ Finished(running[u])' => wake'[running'[u]] = "none"
               /\ wake'[running'[u]] = "none" => running'[u] \notin QueuedTasks' /\ running'[u] \notin TakenTasks'
               /\ running'[u] \in TakenTasks' => Finished(running[u])'
               /\ \A w \in Threads : cb_fiber'[w] = running'[u] => w = u
    <3> DEFINE r == running[u]
    <3>1. /\ m_state[r] \in {"EXEC", "READY", "TERM", "EXCEPT"}
          /\ pc[u] \in {"run", "run_tickle"} => m_state[r] = "EXEC"
          /\ m_state[r] = "READY" => wake[r] = "none"
          /\ pc[u] \in {"out", "settle"} /\ m_state[r] = "EXEC" => wake[r] # "none"
          /\ r \in CbFibers /\ Finished(r) => wake[r] = "none"
          /\ wake[r] = "none" => r \notin QueuedTasks /\ r \notin TakenTasks
          /\ r \in TakenTasks => Finished(r)
          /\ \A w \in Threads : cb_fiber[w] = r => w = u
      BY <2>1, <2>6, Zenon DEF SchedulerInv, RunningInv
    <3>2. /\ running'[u] = r /\ pc'[u] = pc[u] /\ r # f
          /\ m_state'[r] = m_state[r] /\ wake'[r] = wake[r]
      BY <2>1, <2>6
    <3>3. Finished(running[u])' <=> Finished(r)
      BY <3>2 DEF Finished
    <3>4. \A w \in Threads : cb_fiber'[w] = r => w = u
      BY <2>2, <2>3, <3>1, <3>2
    <3> HIDE DEF r
    <3> QED BY <2>5, <3>1, <3>2, <3>3, <3>4
  <2>7. \A w \in Threads : cb_fiber'[w] = f => w = t
    BY <1>4, <2>2
  <2>8. ASSUME NEW u \in Threads, running'[u] # None
        PROVE  /\ m_state'[running'[u]] \in {"EXEC", "READY", "TERM", "EXCEPT"}
               /\ pc'[u] \in {"run", "run_tickle"} => m_state'[running'[u]] = "EXEC"
               /\ m_state'[running'[u]] = "READY" => wake'[running'[u]] = "none"
               /\ pc'[u] \in {"out", "settle"} /\ m_state'[running'[u]] = "EXEC" => wake'[running'[u]] # "none"
               /\ running'[u] \in CbFibers /\ Finished(running[u])' => wake'[running'[u]] = "none"
               /\ wake'[running'[u]] = "none" => running'[u] \notin QueuedTasks' /\ running'[u] \notin TakenTasks'
               /\ running'[u] \in TakenTasks' => Finished(running[u])'
               /\ \A w \in Threads : cb_fiber'[w] = running'[u] => w = u
    <3>1. CASE u = t
      BY <2>3, <2>4, <2>7, <3>1
    <3>2. CASE u # t
      BY <2>6, <2>8, <3>2, Zenon
    <3> QED BY <3>1, <3>2
  <2> QED BY <2>8, Zenon DEF RunningInv
<1>12. WakeInv'
  BY <1>1, <1>2, <1>4, <1>5, <1>6, <1>7, SMTT(30) DEF SchedulerInv, WakeInv, Private, TypeOK
<1>13. CacheInv'
  <2> SUFFICES ASSUME NEW u \in Threads \ {t}, cb_fiber[u] # None, running[u] # cb_fiber[u]
               PROVE  m_state'[cb_fiber[u]] = "INIT" /\ Private(cb_fiber[u])'
    BY <1>1, <1>2, <1>3, ZenonT(30) DEF CacheInv, TypeOK
  <2>1. m_state[cb_fiber[u]] = "INIT" /\ Private(cb_fiber[u]) /\ cb_fiber[u] \in Fibers /\ cb_fiber[u] # f
    BY <1>4 DEF SchedulerInv, CacheInv, TypeOK, Fibers
  <2>2. cb_fiber'[u] = cb_fiber[u]
    BY <1>1 DEF TypeOK
  <2> QED BY <1>2, <1>5, <1>6, <1>7, <2>1, <2>2 DEF Private, TypeOK
<1>14. FreshInv'
  BY <1>2, <1>5, <1>6, <1>7, SchedulerAssumption, SMTT(30)
     DEF SchedulerInv, FreshInv, Private, TypeOK
<1>15. NoFiberStranded'
  BY <1>2, <1>5, <1>6, <1>7, SchedulerAssumption, SMTT(30) DEF SchedulerInv, NoFiberStranded, TypeOK
<1>16. BodyInv'
  BY <1>1, <1>2, <1>5, <1>6 DEF SchedulerInv, BodyInv, Jobs, TypeOK
<1> QED BY <1>8, <1>9, <1>10, <1>11, <1>12, <1>13, <1>14, <1>15, <1>16 DEF SchedulerInv, TypeOK

-----------------------------------------------------------------------------
(***************************************************************************)
(* Every step                                                              *)
(***************************************************************************)
\* Every step of the scheduler preserves the invariant.
LEMMA InvStep ==
    ASSUME TypeOK, SchedulerInv, [Next]_vars
    PROVE  SchedulerInv'
<1> DEFINE kept == <<m_fibers, m_state, m_cb, wake, ft, cb_fiber, running, pin>>
<1>1. ASSUME NEW t \in Threads,
             \/ LockQueue(t) \/ SkipElsewhere(t) \/ SkipExecuting(t) \/ TakeNothing(t)
             \/ ScanTickle(t) \/ SwappedOut(t) \/ SettleTickle(t) \/ TaskTickles(t) \/ IdleStep(t)
      PROVE  SchedulerInv'
  <2>1. UNCHANGED kept /\ UNCHANGED stopVars
    BY <1>1 DEF LockQueue, SkipElsewhere, SkipExecuting, TakeNothing, ScanTickle, SwappedOut,
       SettleTickle, TaskTickles, IdleStep, EnterIdle, ExitRun, IdleChecksPending, IdleChecksQueue,
       EpollTickled, EpollTimeout, LeaveIdle, queueVars, fiberVars, localVars, jobVars
  <2>2. \A u \in Threads : it'[u] >= 1
    <3>1. it' \in {it, [it EXCEPT ![t] = it[t] + 1], [it EXCEPT ![t] = 1]}
      BY <1>1 DEF LockQueue, SkipElsewhere, SkipExecuting, TakeNothing, ScanTickle, SwappedOut,
         SettleTickle, TaskTickles, IdleStep, EnterIdle, ExitRun, IdleChecksPending,
         IdleChecksQueue, EpollTickled, EpollTimeout, LeaveIdle, localVars
    <3>2. \A u \in Threads : it[u] \in Nat /\ it[u] >= 1
      BY DEF SchedulerInv, PlaceInv, TypeOK
    <3>3. it \in [Threads -> Nat]
      BY DEF TypeOK
    <3> QED BY <3>1, <3>2, <3>3, SMTT(30)
  <2> DEFINE Kinds == pc[t] # "new" /\ \A u \in Threads : SameKind(pc[u], pc'[u]) /\ (u # t => pc'[u] = pc[u])
  <2>3. Kinds
    <3> DEFINE Moves == pc[t] # "new" /\ \E there : pc' = [pc EXCEPT ![t] = there] /\ SameKind(pc[t], there)
    <3>1. ASSUME Moves PROVE Kinds
      BY <3>1 DEF SameKind, TypeOK
    <3>2. ASSUME SkipElsewhere(t) \/ SkipExecuting(t) PROVE Kinds
      BY <3>2 DEF SkipElsewhere, SkipExecuting, SameKind
    <3>3. ASSUME LockQueue(t) \/ TakeNothing(t) \/ ScanTickle(t) PROVE Moves
      BY ZenonT(30), <3>3 DEF LockQueue, TakeNothing, ScanTickle, Goto, SameKind, RunPcs, TakenPcs
    <3>4. ASSUME SwappedOut(t) \/ SettleTickle(t) \/ TaskTickles(t) PROVE Moves
      BY <3>4 DEF SwappedOut, SettleTickle, TaskTickles, Goto, SameKind, RunPcs, TakenPcs
    <3>5. ASSUME EnterIdle(t) \/ ExitRun(t) \/ LeaveIdle(t) PROVE Moves
      BY <3>5 DEF EnterIdle, ExitRun, LeaveIdle, Goto, SameKind, RunPcs, TakenPcs
    <3>6. ASSUME IdleChecksPending(t) \/ IdleChecksQueue(t) \/ EpollTickled(t) \/ EpollTimeout(t) PROVE Moves
      BY <3>6 DEF IdleChecksPending, IdleChecksQueue, EpollTickled, EpollTimeout, Goto, SameKind, RunPcs, TakenPcs
    <3> HIDE DEF Moves, Kinds
    <3> QED BY <1>1, <3>1, <3>2, <3>3, <3>4, <3>5, <3>6 DEF IdleStep
  <2>4. StartInv'
    BY <2>1, <2>3, StartKept DEF SchedulerInv
  <2> QED BY ZenonT(30), <2>1, <2>2, <2>3, <2>4, QuietStep
<1>2. ASSUME CallerTickles \/ StopStep \/ Stopped \/ UNCHANGED vars
      PROVE  SchedulerInv'
  <2>1. UNCHANGED kept /\ UNCHANGED <<pc, it>>
    BY <1>2 DEF CallerTickles, StopStep, Stopped, StopAuto, StopFlag, StopTickle,
       RootChecksPending, RootChecksQueue, EarlyChecksPending,
       EarlyChecksQueue, Join, vars, queueVars, fiberVars, localVars, jobVars
  <2>2. StartInv'
    BY <1>2, SMTT(30)
       DEF SchedulerInv, StartInv, CallerTickles, StopStep, Stopped, StopAuto, StopFlag,
       StopTickle, RootChecksPending, RootChecksQueue, EarlyChecksPending,
       EarlyChecksQueue, Join, StopGoto, vars, stopVars, TypeOK
  <2>3. \A t \in Threads : it'[t] >= 1 /\ SameKind(pc[t], pc'[t])
    BY <2>1 DEF SchedulerInv, PlaceInv, SameKind
  <2> QED BY ZenonT(30), <2>1, <2>2, <2>3, QuietStep
<1>3. ASSUME start \/ RootCall
      PROVE  SchedulerInv'
  <2>1. UNCHANGED kept /\ UNCHANGED it
    BY <1>3 DEF start, RootCall, queueVars, fiberVars, localVars, jobVars
  <2>2. \A t \in Threads : pc'[t] = pc[t] \/ (pc[t] = "new" /\ pc'[t] = "lock")
    BY <1>3 DEF start, RootCall, StopGoto, SchedulerInv, StartInv, TypeOK
  <2>3. StartInv'
    BY <1>3, SchedulerAssumption, SMTT(30)
       DEF SchedulerInv, StartInv, start, RootCall, StopGoto, Threads, TypeOK
  <2>4. \A t \in Threads : it'[t] >= 1 /\ SameKind(pc[t], pc'[t])
    BY <2>1, <2>2 DEF SchedulerInv, PlaceInv, SameKind, RunPcs, TakenPcs, TypeOK
  <2> QED BY ZenonT(30), <2>1, <2>3, <2>4, QuietStep
<1>4. ASSUME NEW t \in Threads, Take(t) \/ RunFiber(t) \/ RunCb(t) \/ DropFinished(t)
      PROVE  SchedulerInv'
  BY <1>4, TakeStep, RunFiberStep, RunCbStep, DropStep
<1>5. ASSUME NEW t \in Threads, SettleReady(t) \/ SettleFinished(t) \/ SettleHold(t)
      PROVE  SchedulerInv'
  BY <1>5, SettleReadyStep, SettleFinishedStep, SettleHoldStep
<1>6. ASSUME NEW t \in Threads,
             \/ Arm(t) \/ YieldToHold(t) \/ YieldToReady(t)
             \/ \E s \in {"TERM", "EXCEPT"} : MainFunc(t, s)
             \/ \E j \in Jobs, th \in Threads \cup {None} : TaskSchedules(t, j, th)
      PROVE  SchedulerInv'
  BY <1>6, ArmStep, YieldHoldStep, YieldReadyStep, MainFuncStep, TaskSchedulesStep
<1>7. ASSUME \/ \E j \in Jobs, th \in Threads \cup {None} : schedule(j, th)
             \/ \E f \in Fibers : WakerFires(f)
      PROVE  SchedulerInv'
  BY <1>7, ScheduleStep, WakerStep
<1> QED BY <1>1, <1>2, <1>3, <1>4, <1>5, <1>6, <1>7 DEF Next, RunStep, TaskStep, stop, StopStep
=============================================================================

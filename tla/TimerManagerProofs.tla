------------------------- MODULE TimerManagerProofs -------------------------
(***************************************************************************)
(* TimerManager, proved for any threads, timers, periods and clock bounds: *)
(* m_timers and the callbacks agree, what is over stays over, no timer     *)
(* fires early, and the idle threads do not sleep past the first timer.    *)
(***************************************************************************)
EXTENDS TimerManager, TLAPS

\* Timers that are over, or were never inserted, have no callback, and what is yet to be inserted
\* was not.
NoCb ==
    /\ \A x \in Timers : x \in over \/ x \notin made => ~m_cb[x]
    /\ \A x \in constructed : x \notin made

\* A clock value that listExpiredCb has read and not yet used is at most MaxLag old, and no
\* later than the latest time the clock has shown; so is m_previouseTime.
Readings ==
    /\ m_previouseTime <= clock + setBack
    /\ \A t \in Threads : pc[t] \in {"listing", "write"} =>
          clock - MaxLag <= now_ms[t] /\ now_ms[t] <= clock + setBack

TimerInv == TypeOK /\ CbIffInSet /\ NoCb /\ Readings

-----------------------------------------------------------------------------
\* In the initial state there are no timers.
LEMMA TimerInit == Init => TimerInv
  <1> SUFFICES ASSUME Init PROVE TimerInv
    OBVIOUS
  <1>1. TypeOK
    <2>1. /\ m_cb \in [Timers -> BOOLEAN] /\ m_ms \in [Timers -> Nat] /\ m_next \in [Timers -> Int]
          /\ left \in [Threads -> Nat \cup {Forever}] /\ now_ms \in [Threads -> Int]
      BY DEF Init
    <2>2. pc \in [Threads -> Pcs]
      BY DEF Init, Pcs
    <2>3. m_timers \subseteq [timer : Timers, key : Int] /\ constructed \subseteq Timers
          /\ made \subseteq Timers /\ over \subseteq made
      BY DEF Init
    <2>4. m_tickled \in BOOLEAN /\ pipe \in BOOLEAN
      BY ZenonT(30) DEF Init
    <2>5. clock \in Int /\ m_previouseTime \in Int /\ notifiers \in Nat /\ setBack \in Nat
      BY DEF Init
    <2> QED BY <2>1, <2>2, <2>3, <2>4, <2>5 DEF TypeOK
  <1>2. CbIffInSet /\ NoCb
    BY DEF Init, CbIffInSet, NoCb
  <1>3. Readings
    BY DEF Init, Readings
  <1> QED BY <1>1, <1>2, <1>3 DEF TimerInv

\* An insertion that is typed and keeps one entry per timer.
LEMMA InsertType ==
    ASSUME TypeOK, NEW x \in Timers, NEW S \in SUBSET m_timers, NEW k \in Int, addTimer(x, S, k)
    PROVE  /\ m_timers' \subseteq [timer : Timers, key : Int]
           /\ m_timers' = S \cup {[timer |-> x, key |-> k]}
           /\ m_tickled' \in BOOLEAN /\ notifiers' \in Nat
  BY DEF TypeOK, addTimer

\* A timer that moves from one key to another, the way refresh() and reset() do it.
LEMMA MoveKeeps ==
    ASSUME TypeOK, CbIffInSet, NEW x \in Timers, NEW k \in Int, m_cb[x],
           m_timers' = Others(x) \cup {[timer |-> x, key |-> k]},
           m_next' = [m_next EXCEPT ![x] = k], m_cb' = m_cb
    PROVE  CbIffInSet'
  <1>1. \A e \in m_timers' : e.key = m_next'[e.timer]
    <2> SUFFICES ASSUME NEW e \in m_timers' PROVE e.key = m_next'[e.timer]
      OBVIOUS
    <2>1. CASE e \in Others(x)
      <3>1. e \in m_timers /\ e # InSet(x) /\ e \in [timer : Timers, key : Int]
        BY <2>1 DEF Others, TypeOK
      <3>2. e.key = m_next[e.timer]
        BY <3>1 DEF CbIffInSet
      <3>3. e.timer # x
        BY <3>1, <3>2 DEF InSet
      <3> QED BY <3>1, <3>2, <3>3 DEF TypeOK
    <2>2. CASE e = [timer |-> x, key |-> k]
      BY <2>2 DEF TypeOK
    <2> QED BY <2>1, <2>2
  <1>2. ASSUME NEW y \in Timers
        PROVE  m_cb'[y] <=> \E e \in m_timers' : e.timer = y
    <2>1. CASE y = x
      <3>1. [timer |-> x, key |-> k] \in m_timers'
        OBVIOUS
      <3> QED BY <3>1, <2>1, ZenonT(30)
    <2>2. CASE y # x
      <3>1. ASSUME NEW e \in m_timers, e.timer = y PROVE e \in m_timers'
        BY <3>1, <2>2 DEF Others, InSet
      <3>2. ASSUME NEW e \in m_timers', e.timer = y PROVE e \in m_timers
        BY <3>2, <2>2 DEF Others
      <3> QED BY <3>1, <3>2 DEF CbIffInSet
    <2> QED BY <2>1, <2>2
  <1> QED BY <1>1, <1>2 DEF CbIffInSet

\* listExpiredCb: those that recur move to a later key, the others lose their callback.
LEMMA ListKeeps ==
    ASSUME TypeOK, CbIffInSet, NEW t \in Threads, listExpiredCb(t)
    PROVE  CbIffInSet' /\ m_timers' \subseteq [timer : Timers, key : Int]
  <1> DEFINE now  == now_ms[t]
             out  == Expired(now)
             exp  == {e.timer : e \in out}
             keep == exp \cap Recurring
             back == {[timer |-> x, key |-> now + m_ms[x]] : x \in keep}
  <1>1. /\ m_timers' = (m_timers \ out) \cup back
        /\ m_next' = [x \in Timers |-> IF x \in keep THEN now + m_ms[x] ELSE m_next[x]]
        /\ m_cb' = [x \in Timers |-> m_cb[x] /\ (x \in exp => x \in Recurring)]
    BY DEF listExpiredCb
  <1>2. now \in Int /\ out \subseteq m_timers /\ exp \subseteq Timers /\ keep \subseteq exp
    BY DEF TypeOK, Expired
  <1>3. \A x \in Timers : m_ms[x] \in Int
    BY DEF TypeOK
  <1>4. back \subseteq [timer : Timers, key : Int]
    BY <1>2, <1>3
  <1>5. m_timers' \subseteq [timer : Timers, key : Int]
    BY <1>1, <1>4 DEF TypeOK
  <1>6. \A e \in m_timers, d \in m_timers : e.timer = d.timer => e = d
    BY DEF CbIffInSet, TypeOK
  <1>7. ASSUME NEW e \in m_timers \ out PROVE e.timer \notin exp
    BY <1>2, <1>6
  <1> HIDE DEF now, out, exp, keep, back
  <1>8. ASSUME NEW e \in m_timers' PROVE e.key = m_next'[e.timer]
    <2>1. CASE e \in m_timers \ out
      BY <2>1, <1>1, <1>2, <1>7 DEF CbIffInSet, TypeOK
    <2>2. CASE e \in back
      BY <2>2, <1>1, <1>2 DEF back
    <2> QED BY <2>1, <2>2, <1>1
  <1>9. ASSUME NEW x \in Timers
        PROVE  m_cb'[x] <=> \E e \in m_timers' : e.timer = x
    <2>1. CASE x \in keep
      <3>1. [timer |-> x, key |-> now + m_ms[x]] \in m_timers'
        BY <2>1, <1>1 DEF back
      <3>2. m_cb[x]
        BY <2>1, <1>2 DEF CbIffInSet, exp
      <3> QED BY <2>1, <3>1, <3>2, <1>1, ZenonT(30) DEF keep
    <2>2. CASE x \in exp /\ x \notin keep
      <3>1. ~m_cb'[x]
        BY <2>2, <1>1, ZenonT(30) DEF keep
      <3>2. \A e \in m_timers' : e.timer # x
        BY <2>2, <1>1, <1>7 DEF back
      <3> QED BY <3>1, <3>2
    <2>3. CASE x \notin exp
      <3>1. m_cb'[x] <=> m_cb[x]
        BY <2>3, <1>1 DEF TypeOK
      <3>2. ASSUME NEW e \in m_timers, e.timer = x PROVE e \in m_timers'
        BY <3>2, <2>3, <1>1 DEF exp
      <3>3. ASSUME NEW e \in m_timers', e.timer = x PROVE e \in m_timers
        BY <3>3, <2>3, <1>1, <1>2 DEF back
      <3> QED BY <3>1, <3>2, <3>3 DEF CbIffInSet
    <2> QED BY <2>1, <2>2, <2>3
  <1> QED BY <1>5, <1>8, <1>9 DEF CbIffInSet

\* Every step keeps the invariant.
LEMMA TimerStep == TimerInv /\ [Next]_vars => TimerInv'
  <1> SUFFICES ASSUME TimerInv, [Next]_vars PROVE TimerInv'
    OBVIOUS
  <1> USE TimerAssumption DEF TimerInv
  <1>1. ASSUME NEW x \in Timers, AddTimer(x) PROVE TimerInv'
    <2>0. m_next[x] \in Int /\ m_timers \in SUBSET m_timers
      BY DEF TypeOK
    <2>1. /\ m_timers' \subseteq [timer : Timers, key : Int]
          /\ m_timers' = m_timers \cup {[timer |-> x, key |-> m_next[x]]}
          /\ m_tickled' \in BOOLEAN /\ notifiers' \in Nat
      BY <1>1, <2>0, InsertType DEF AddTimer
    <2>2. TypeOK'
      BY <1>1, <2>0, <2>1 DEF AddTimer, TypeOK, threadVars
    <2>3. \A e \in m_timers : e.timer # x
      BY <1>1 DEF AddTimer, NoCb, CbIffInSet
    <2>4. CbIffInSet'
      <3>1. m_next' = m_next /\ m_cb' = [m_cb EXCEPT ![x] = TRUE]
        BY <1>1 DEF AddTimer
      <3>2. [timer |-> x, key |-> m_next[x]] \in m_timers'
        BY <2>1
      <3>3. ASSUME NEW y \in Timers PROVE m_cb'[y] <=> \E e \in m_timers' : e.timer = y
        <4>1. CASE y = x
          BY <4>1, <3>1, <3>2 DEF TypeOK
        <4>2. CASE y # x
          <5>1. m_cb'[y] <=> m_cb[y]
            BY <4>2, <3>1 DEF TypeOK
          <5>2. (\E e \in m_timers' : e.timer = y) <=> \E e \in m_timers : e.timer = y
            BY <4>2, <2>1
          <5> QED BY <5>1, <5>2 DEF CbIffInSet
        <4> QED BY <4>1, <4>2
      <3>4. ASSUME NEW e \in m_timers' PROVE e.key = m_next'[e.timer]
        <4>1. CASE e \in m_timers
          BY <4>1, <2>3, <3>1 DEF CbIffInSet, TypeOK
        <4>2. CASE e = [timer |-> x, key |-> m_next[x]]
          BY <4>2, <3>1 DEF TypeOK
        <4> QED BY <2>1, <4>1, <4>2
      <3> QED BY <3>3, <3>4 DEF CbIffInSet
    <2>5. NoCb' /\ Readings'
      BY <1>1 DEF AddTimer, NoCb, Readings, TypeOK, threadVars
    <2> QED BY <2>2, <2>4, <2>5
  <1>2. ASSUME NEW x \in Timers, NEW ms \in Periods, NEW from_now \in BOOLEAN, reset(x, ms, from_now)
        PROVE  TimerInv'
    <2> DEFINE next == (IF from_now THEN clock ELSE m_next[x] - m_ms[x]) + ms
    <2>0. next \in Int /\ Others(x) \in SUBSET m_timers /\ ms \in Nat
      BY DEF TypeOK, Others
    <2>1. /\ m_timers' \subseteq [timer : Timers, key : Int]
          /\ m_timers' = Others(x) \cup {[timer |-> x, key |-> next]}
          /\ m_tickled' \in BOOLEAN /\ notifiers' \in Nat
      BY <1>2, <2>0, InsertType DEF reset
    <2>2. /\ m_next' = [m_next EXCEPT ![x] = next]
          /\ m_ms' = [m_ms EXCEPT ![x] = ms]
          /\ m_cb[x]
          /\ UNCHANGED <<clock, m_previouseTime, m_cb, constructed, made, pipe, threadVars, over, setBack>>
      BY <1>2 DEF reset
    <2> HIDE DEF next
    <2>3. TypeOK'
      BY <2>0, <2>1, <2>2 DEF TypeOK, threadVars
    <2>4. CbIffInSet'
      BY <2>0, <2>1, <2>2, MoveKeeps, ZenonT(30)
    <2>5. NoCb' /\ Readings'
      BY <2>2 DEF NoCb, Readings, threadVars
    <2> QED BY <2>3, <2>4, <2>5
  <1>3. ASSUME NEW x \in Timers, cancel(x) PROVE TimerInv'
    <2>1. x \in made
      BY <1>3 DEF cancel, NoCb
    <2>2. TypeOK'
      BY <1>3, <2>1 DEF cancel, TypeOK, Others, threadVars
    <2>3. CbIffInSet'
      BY <1>3 DEF cancel, CbIffInSet, TypeOK, Others, InSet
    <2>4. NoCb' /\ Readings'
      BY <1>3 DEF cancel, NoCb, Readings, TypeOK, threadVars
    <2> QED BY <2>2, <2>3, <2>4
  <1>4. ASSUME NEW x \in Timers, refresh(x) PROVE TimerInv'
    <2>0. clock + m_ms[x] \in Int
      BY DEF TypeOK
    <2>1. TypeOK'
      BY <1>4, <2>0 DEF refresh, TypeOK, Others, threadVars
    <2>2. CbIffInSet'
      BY <1>4, <2>0, MoveKeeps, ZenonT(30) DEF refresh
    <2>3. NoCb' /\ Readings'
      BY <1>4 DEF refresh, NoCb, Readings, threadVars
    <2> QED BY <2>1, <2>2, <2>3
  <1>5. CASE onTimerInsertedAtFront
    BY <1>5 DEF onTimerInsertedAtFront, TypeOK, CbIffInSet, NoCb, Readings, managerVars, timerVars,
                threadVars
  <1>6. ASSUME NEW t \in Threads, EnterIdle(t) PROVE TimerInv'
    BY <1>6 DEF EnterIdle, TypeOK, CbIffInSet, NoCb, Readings, managerVars, timerVars, Pcs, IdlePcs
  <1>7. ASSUME NEW t \in Threads, getNextTimer(t) PROVE TimerInv'
    <2>0. PICK d \in {Forever} \cup 0..MaxTimeout : left' = [left EXCEPT ![t] = d]
      BY <1>7, ZenonT(30) DEF getNextTimer
    <2>a. left' \in [Threads -> Nat \cup {Forever}]
      BY <2>0 DEF TypeOK
    <2>1. TypeOK'
      BY <1>7, <2>a, ZenonT(30) DEF getNextTimer, TypeOK, timerVars, Pcs, IdlePcs
    <2>2. CbIffInSet' /\ NoCb' /\ Readings'
      BY <1>7 DEF getNextTimer, CbIffInSet, NoCb, Readings, timerVars, TypeOK
    <2> QED BY <2>1, <2>2
  <1>8. ASSUME NEW t \in Threads, EpollReturns(t) PROVE TimerInv'
    BY <1>8, ZenonT(30)
       DEF EpollReturns, TypeOK, CbIffInSet, NoCb, Readings, managerVars, timerVars, Pcs, IdlePcs
  <1>9. ASSUME NEW t \in Threads, ReadNow(t) PROVE TimerInv'
    BY <1>9 DEF ReadNow, TypeOK, CbIffInSet, NoCb, Readings, managerVars, timerVars, Pcs, IdlePcs
  <1>10. ASSUME NEW t \in Threads, CheckEmpty(t) PROVE TimerInv'
    <2>1. TypeOK'
      BY <1>10 DEF CheckEmpty, TypeOK, managerVars, timerVars, Pcs, IdlePcs
    <2>2. CbIffInSet' /\ NoCb'
      BY <1>10 DEF CheckEmpty, CbIffInSet, NoCb, managerVars, timerVars
    <2>3. Readings'
      BY <1>10 DEF CheckEmpty, TypeOK, Readings, managerVars
    <2> QED BY <2>1, <2>2, <2>3
  <1>11. ASSUME NEW t \in Threads, listExpiredCb(t) PROVE TimerInv'
    <2> DEFINE exp == {e.timer : e \in Expired(now_ms[t])}
    <2>1. CbIffInSet' /\ m_timers' \subseteq [timer : Timers, key : Int]
      BY <1>11, ListKeeps
    <2>2. \A x \in exp : x \in Timers /\ m_cb[x] /\ x \in made
      BY DEF Expired, CbIffInSet, NoCb, TypeOK
    <2>3. /\ m_cb' = [x \in Timers |-> m_cb[x] /\ (x \in exp => x \in Recurring)]
          /\ over' = over \cup (exp \ (exp \cap Recurring))
          /\ m_next' = [x \in Timers |-> IF x \in exp \cap Recurring THEN now_ms[t] + m_ms[x]
                                         ELSE m_next[x]]
          /\ pc[t] = "write" /\ pc' = [pc EXCEPT ![t] = "run"]
          /\ m_previouseTime' = now_ms[t]
          /\ now_ms' = [now_ms EXCEPT ![t] = 0]
          /\ UNCHANGED <<clock, m_tickled, m_ms, constructed, made, notifiers, pipe, left, setBack>>
      BY <1>11 DEF listExpiredCb
    <2> HIDE DEF exp
    <2>4. TypeOK'
      <3>1. m_cb' \in [Timers -> BOOLEAN] /\ m_next' \in [Timers -> Int]
        BY <2>3 DEF TypeOK
      <3>2. over' \subseteq made
        BY <2>2, <2>3 DEF TypeOK
      <3> QED BY <2>1, <2>3, <3>1, <3>2 DEF TypeOK, Pcs
    <2>5. NoCb'
      BY <2>2, <2>3, ZenonT(30) DEF NoCb, TypeOK
    <2>6. Readings'
      BY <2>3 DEF Readings, TypeOK
    <2> QED BY <2>1, <2>4, <2>5, <2>6
  <1>12. ASSUME NEW t \in Threads, ListNothing(t) PROVE TimerInv'
    BY <1>12 DEF ListNothing, TypeOK, CbIffInSet, NoCb, Readings, managerVars, timerVars, Pcs, IdlePcs
  <1>13. CASE Tick
    <2>1. TypeOK'
      BY <1>13 DEF Tick, TypeOK, managerVars, timerVars, Forever
    <2>2. CbIffInSet' /\ NoCb'
      BY <1>13 DEF Tick, CbIffInSet, NoCb, managerVars, timerVars
    <2>3. Readings'
      BY <1>13 DEF Tick, TypeOK, Readings, managerVars
    <2> QED BY <2>1, <2>2, <2>3
  <1>14. ASSUME NEW d \in SetBacks, SetClockBack(d) PROVE TimerInv'
    <2>1. TypeOK'
      BY <1>14 DEF SetClockBack, TypeOK, managerVars, timerVars, threadVars
    <2>2. CbIffInSet' /\ NoCb'
      BY <1>14 DEF SetClockBack, CbIffInSet, NoCb, managerVars, timerVars
    <2>3. Readings'
      BY <1>14 DEF SetClockBack, TypeOK, Readings, managerVars, threadVars
    <2> QED BY <2>1, <2>2, <2>3
  <1>15. CASE UNCHANGED vars
    BY <1>15 DEF vars, TypeOK, CbIffInSet, NoCb, Readings, managerVars, timerVars, threadVars
  <1>16. ASSUME NEW x \in Timers, NEW ms \in Periods, NewTimer(x, ms) PROVE TimerInv'
    <2>1. clock + ms \in Int /\ ms \in Nat
      BY DEF TypeOK
    <2>2. TypeOK'
      BY <1>16, <2>1 DEF NewTimer, TypeOK, managerVars, threadVars
    <2>3. \A e \in m_timers : e.timer # x
      BY <1>16 DEF NewTimer, NoCb, CbIffInSet
    <2>4. CbIffInSet'
      BY <1>16, <2>1, <2>3 DEF NewTimer, CbIffInSet, TypeOK, managerVars
    <2>5. NoCb' /\ Readings'
      BY <1>16 DEF NewTimer, NoCb, Readings, managerVars, threadVars
    <2> QED BY <2>2, <2>4, <2>5
  <1> QED
    BY <1>1, <1>2, <1>3, <1>4, <1>5, <1>6, <1>7, <1>8, <1>9, <1>10, <1>11, <1>12, <1>13, <1>14, <1>15,
       <1>16
    DEF Next

\* The invariant holds throughout.
THEOREM TimerInductive == Spec => []TimerInv
  BY TimerInit, TimerStep, PTL DEF Spec

\* m_timers and the callbacks always agree, for any number of timers and threads: cancel(),
\* refresh() and reset() find the timer they look for, and no null callback is handed out.
THEOREM SetMatchesCallbacks == Spec => []CbIffInSet
  <1>1. TimerInv => CbIffInSet
    BY DEF TimerInv
  <1> QED BY TimerInductive, <1>1, PTL

\* A timer that was cancelled, or was one-shot and handed out, is never handed out again.
THEOREM WhatIsOverStaysOver == Spec => OverIsOver
  <1>1. TimerInv /\ TimerInv' /\ [Next]_vars =>
           [\A x \in over : ~HandsOut(x) /\ ~m_cb'[x] /\ \A e \in m_timers' : e.timer # x]_vars
    <2> SUFFICES ASSUME TimerInv, TimerInv', Next, NEW x \in over
                 PROVE  ~HandsOut(x) /\ ~m_cb'[x] /\ \A e \in m_timers' : e.timer # x
      BY DEF vars
    <2>1. x \in Timers /\ ~m_cb[x]
      BY DEF TimerInv, TypeOK, NoCb
    <2>2. ~HandsOut(x)
      BY <2>1, SMTT(30) DEF HandsOut, InSet, TimerInv, CbIffInSet
    <2>3. x \in over'
      BY DEF Next, NewTimer, AddTimer, reset, cancel, refresh, onTimerInsertedAtFront, EnterIdle, getNextTimer,
             EpollReturns, ReadNow, CheckEmpty, listExpiredCb, ListNothing, Tick, SetClockBack
    <2>4. ~m_cb'[x]
      BY <2>1, <2>3 DEF TimerInv, NoCb
    <2>5. \A e \in m_timers' : e.timer # x
      BY <2>1, <2>4 DEF TimerInv, CbIffInSet
    <2> QED BY <2>2, <2>4, <2>5
  <1> QED BY TimerInductive, <1>1, PTL DEF Spec, OverIsOver

\* No callback is handed out before its time, whatever the clock values that threads still
\* hold when they get the lock, unless the clock was set back by an hour (less MaxLag).
THEOREM NothingFiresEarly == Spec => NeverEarly
  <1>1. TimerInv /\ [Next]_vars =>
           [\A x \in Timers : HandsOut(x) => m_next[x] <= clock + setBack \/ setBack + MaxLag > Hour]_vars
    <2> SUFFICES ASSUME TimerInv, Next, NEW x \in Timers, HandsOut(x)
                 PROVE  m_next[x] <= clock + setBack \/ setBack + MaxLag > Hour
      BY DEF vars
    <2>1. PICK t \in Threads : pc[t] = "write" /\ pc'[t] = "run" /\ InSet(x) \in m_timers \ m_timers'
      BY DEF HandsOut
    <2>2. listExpiredCb(t)
      <3>1. m_timers # m_timers'
        BY <2>1
      <3>2. pc \in [Threads -> Pcs]
        BY DEF TimerInv, TypeOK
      <3>3. ASSUME NEW y \in Timers, AddTimer(y) \/ \E ms \in Periods : NewTimer(y, ms) PROVE FALSE
        BY <3>3, <2>1 DEF AddTimer, NewTimer, threadVars
      <3>4. ASSUME NEW y \in Timers, NEW ms \in Periods, NEW b \in BOOLEAN, reset(y, ms, b) PROVE FALSE
        BY <3>4, <2>1 DEF reset, threadVars
      <3>5. ASSUME NEW y \in Timers, cancel(y) \/ refresh(y) PROVE FALSE
        BY <3>5, <2>1 DEF cancel, refresh, threadVars
      <3>6. ~onTimerInsertedAtFront /\ ~Tick
        BY <3>1 DEF onTimerInsertedAtFront, Tick, managerVars
      <3>7. ASSUME NEW d \in SetBacks, SetClockBack(d) PROVE FALSE
        BY <3>7, <3>1 DEF SetClockBack, managerVars
      <3>8. ASSUME NEW u \in Threads,
                   \/ EnterIdle(u) \/ getNextTimer(u) \/ EpollReturns(u) \/ ReadNow(u)
                   \/ CheckEmpty(u) \/ ListNothing(u)
            PROVE  FALSE
        BY <3>8, <3>1, SMTT(30)
           DEF EnterIdle, getNextTimer, EpollReturns, ReadNow, CheckEmpty, ListNothing,
                          managerVars
      <3>9. ASSUME NEW u \in Threads, listExpiredCb(u) PROVE u = t
        BY <3>9, <2>1, <3>2 DEF listExpiredCb
      <3> QED BY <3>3, <3>4, <3>5, <3>6, <3>7, <3>8, <3>9 DEF Next
    <2>3. InSet(x) \in Expired(now_ms[t])
      BY <2>1, <2>2 DEF listExpiredCb
    <2>4. /\ clock - MaxLag <= now_ms[t] /\ now_ms[t] <= clock + setBack
          /\ m_previouseTime <= clock + setBack
      BY <2>1 DEF TimerInv, Readings
    <2>5. /\ clock \in Int /\ setBack \in Int /\ now_ms[t] \in Int /\ m_previouseTime \in Int
          /\ m_next[x] \in Int /\ MaxLag \in Int /\ Hour \in Int
      BY TimerAssumption DEF TimerInv, TypeOK
    <2>6. CASE deleteClockRollover(now_ms[t])
      BY <2>4, <2>5, <2>6 DEF deleteClockRollover
    <2>7. CASE InSet(x).key <= now_ms[t]
      BY <2>4, <2>5, <2>7 DEF InSet
    <2> QED BY <2>3, <2>6, <2>7 DEF Expired
  <1> QED BY TimerInductive, <1>1, PTL DEF Spec, NeverEarly

-----------------------------------------------------------------------------
(***************************************************************************)
(* The idle threads do not oversleep, if every period fits in an int.      *)
(***************************************************************************)
\* No timer is set further ahead than its period, and every period fits in an int.
NextIsNear == setBack = 0 => \A x \in Timers : m_next[x] <= clock + m_ms[x]
PeriodsFit == \A x \in Timers : 2 * m_ms[x] < IntMod

\* While m_tickled suppresses notifications, the last one has yet to be answered.
TickleOwed == m_tickled => Alert

SleepInv == NextIsNear /\ PeriodsFit /\ TickleOwed /\ NoOversleep

\* The conversion to int keeps what fits.
LEMMA ToIntFits ==
    ASSUME NEW x \in Nat, 2 * x < IntMod
    PROVE  ToInt(x) = x
  <1>1. IntMod \in Nat /\ IntMod > 0 /\ x < IntMod
    BY TimerAssumption
  <1>2. x % IntMod = x
    BY <1>1
  <1>3. IntMod % 2 = 0
    BY TimerAssumption
  <1>4. x < IntMod \div 2
    BY <1>1, <1>3
  <1> QED BY <1>1, <1>2, <1>4 DEF ToInt

\* idle() asks epoll_wait to return no later than the first timer is due.
LEMMA SleepsUntilFirst ==
    ASSUME TypeOK, CbIffInSet, NextIsNear, PeriodsFit, setBack = 0,
           NEW d, Sleeps(d), m_timers # {}
    PROVE  d \in Nat /\ (d = 0 \/ \A e \in m_timers : clock + d <= e.key)
  <1>1. PICK e \in m_timers : /\ AtFront(m_timers, e.key)
                              /\ d = EpollTimeout(IF clock >= e.key THEN 0 ELSE e.key - clock)
    BY DEF Sleeps
  <1> DEFINE x == IF clock >= e.key THEN 0 ELSE e.key - clock
  <1>2. e.key \in Int /\ e.timer \in Timers /\ clock \in Int /\ m_ms[e.timer] \in Nat
    BY DEF TypeOK
  <1>3. e.key <= clock + m_ms[e.timer] /\ 2 * m_ms[e.timer] < IntMod
    BY <1>2 DEF CbIffInSet, NextIsNear, PeriodsFit
  <1>4. x \in Nat /\ 2 * x < IntMod /\ IntMod \in Nat
    BY <1>2, <1>3, TimerAssumption
  <1>5. ToInt(x) = x
    BY <1>4, ToIntFits
  <1>6. MaxTimeout \in Nat /\ ToInt(MaxTimeout) = MaxTimeout
    BY ToIntFits, TimerAssumption
  <1>7. d = IF x > MaxTimeout THEN MaxTimeout ELSE x
    <2> HIDE DEF x
    <2>1. d = EpollTimeout(x)
      BY <1>1 DEF x
    <2> QED BY <1>4, <1>5, <1>6, <2>1 DEF EpollTimeout
  <1>8. d \in Nat /\ (d = 0 \/ clock + d <= e.key)
    BY <1>2, <1>4, <1>6, <1>7
  <1>9. ASSUME NEW f \in m_timers, d # 0 PROVE clock + d <= f.key
    <2>1. f.key \in Int /\ e.key <= f.key
      BY <1>1 DEF TypeOK, AtFront
    <2> QED BY <1>2, <1>8, <1>9, <2>1
  <1> QED BY <1>8, <1>9

\* A thread that is awake will look at the timers.
LEMMA AwakeIsAlert == ASSUME NEW t \in Threads, pc'[t] # "epoll" PROVE Alert'
  BY DEF Alert

\* An insertion in the place S: it is notified, or a notification is owed, or there is an
\* earlier timer for which a thread wakes up.
LEMMA InsertSleep ==
    ASSUME TypeOK, TickleOwed, NoOversleep, NEW x \in Timers, NEW S \in SUBSET m_timers,
           NEW k \in Int, addTimer(x, S, k), UNCHANGED <<clock, pipe, pc, left, setBack>>
    PROVE  TickleOwed' /\ NoOversleep'
  <1>1. PICK at_front \in BOOLEAN :
          /\ ~at_front => m_tickled \/ \E e \in S : e.key <= k
          /\ m_tickled' = (m_tickled \/ at_front)
          /\ notifiers' = IF at_front THEN notifiers + 1 ELSE notifiers
    BY Zenon DEF addTimer
  <1>2. notifiers \in Nat
    BY DEF TypeOK
  <1>3. CASE at_front
    <2>1. notifiers' > 0
      BY <1>1, <1>2, <1>3
    <2> QED BY <2>1, Zenon DEF TickleOwed, NoOversleep, Alert
  <1>4. CASE ~at_front /\ Alert
    <2>1. Alert'
      BY <1>1, <1>4, Zenon DEF Alert
    <2> QED BY <2>1, Zenon DEF TickleOwed, NoOversleep
  <1>5. CASE ~at_front /\ ~Alert
    <2>1. ~m_tickled /\ ~m_tickled' /\ ~Alert'
      BY <1>1, <1>5, Zenon DEF TickleOwed, Alert
    <2>2. ASSUME setBack = 0 PROVE OnTime'
      <3>1. PICK e \in S : e.key <= k
        BY <1>1, <1>5, <2>1, Zenon
      <3>2. PICK t \in Threads : pc[t] = "epoll" /\ left[t] # Forever
                                 /\ (left[t] = 0 \/ \A f \in m_timers : clock + left[t] <= f.key)
        BY <1>5, <2>2, <3>1, Zenon DEF NoOversleep, OnTime
      <3>3. left[t] \in Int /\ clock \in Int /\ e.key \in Int /\ e \in m_timers
        BY <3>2 DEF TypeOK, Forever
      <3>4. left[t] = 0 \/ clock + left[t] <= k
        BY <3>1, <3>2, <3>3
      <3>5. m_timers' = S \cup {[timer |-> x, key |-> k]}
        BY SMTT(30) DEF addTimer
      <3>6. left[t] = 0 \/ \A f \in m_timers' : clock + left[t] <= f.key
        BY <3>2, <3>4, <3>5
      <3> QED BY <3>2, <3>6, Zenon DEF OnTime
    <2> QED BY <2>1, <2>2, Zenon DEF TickleOwed, NoOversleep
  <1> QED BY <1>3, <1>4, <1>5

\* The two facts about periods, for every step.
LEMMA PeriodStep ==
    ASSUME \A ms \in Periods : 2 * ms < IntMod, TimerInv, NextIsNear, PeriodsFit, [Next]_vars
    PROVE  NextIsNear' /\ PeriodsFit'
  <1> USE DEF TimerInv
  <1>0. /\ clock \in Int /\ setBack \in Nat
        /\ m_ms \in [Timers -> Nat] /\ m_next \in [Timers -> Int]
    BY SMTT(30) DEF TypeOK
  <1>1. ASSUME UNCHANGED <<m_ms, m_next, clock, setBack>> PROVE NextIsNear' /\ PeriodsFit'
    BY <1>1 DEF NextIsNear, PeriodsFit
  <1>2. ASSUME NEW x \in Timers, NEW ms \in Periods, NEW k \in Int,
               m_ms' = [m_ms EXCEPT ![x] = ms], m_next' = [m_next EXCEPT ![x] = k],
               UNCHANGED <<clock, setBack>>, setBack = 0 => k <= clock + ms
        PROVE  NextIsNear' /\ PeriodsFit'
    <2>1. PeriodsFit'
      BY <1>0, <1>2 DEF PeriodsFit
    <2>2. NextIsNear'
      BY <1>0, <1>2 DEF NextIsNear
    <2> QED BY <2>1, <2>2
  <1>3. ASSUME NEW x \in Timers, NEW ms \in Periods, NewTimer(x, ms) PROVE NextIsNear' /\ PeriodsFit'
    <2>1. clock + ms \in Int /\ clock + ms <= clock + ms
      BY <1>0, TimerAssumption
    <2> QED BY Zenon, <1>2, <1>3, <2>1 DEF NewTimer
  <1>4. ASSUME NEW x \in Timers, NEW ms \in Periods, NEW from_now \in BOOLEAN, reset(x, ms, from_now)
        PROVE  NextIsNear' /\ PeriodsFit'
    <2> DEFINE next == (IF from_now THEN clock ELSE m_next[x] - m_ms[x]) + ms
    <2>1. ms \in Nat /\ m_next[x] \in Int /\ m_ms[x] \in Int
      BY <1>0, TimerAssumption
    <2>2. next \in Int
      BY <1>0, <2>1
    <2>3. setBack = 0 => next <= clock + ms
      BY <1>0, <2>1 DEF NextIsNear
    <2>4. /\ m_ms' = [m_ms EXCEPT ![x] = ms] /\ m_next' = [m_next EXCEPT ![x] = next]
          /\ UNCHANGED <<clock, setBack>>
      BY <1>4 DEF reset
    <2> HIDE DEF next
    <2> QED BY Zenon, <1>2, <2>2, <2>3, <2>4
  <1>5. ASSUME NEW x \in Timers, refresh(x) PROVE NextIsNear' /\ PeriodsFit'
    <2>1. /\ m_next' = [m_next EXCEPT ![x] = clock + m_ms[x]]
          /\ UNCHANGED <<clock, setBack, m_ms>>
      BY <1>5 DEF refresh
    <2>2. PeriodsFit'
      BY <2>1 DEF PeriodsFit
    <2>3. NextIsNear'
      BY <1>0, <2>1 DEF NextIsNear
    <2> QED BY <2>2, <2>3, SMTT(30)
  <1>6. ASSUME NEW t \in Threads, listExpiredCb(t) PROVE NextIsNear' /\ PeriodsFit'
    <2>1. /\ \A x \in Timers : m_next'[x] = now_ms[t] + m_ms[x] \/ m_next'[x] = m_next[x]
          /\ UNCHANGED <<clock, setBack, m_ms>>
      BY <1>6 DEF listExpiredCb
    <2>2. now_ms[t] \in Int /\ now_ms[t] <= clock + setBack
      BY <1>6 DEF listExpiredCb, Readings, TypeOK
    <2>3. PeriodsFit'
      BY <2>1 DEF PeriodsFit
    <2>4. NextIsNear'
      BY <1>0, <2>1, <2>2 DEF NextIsNear
    <2> QED BY <2>3, <2>4
  <1>7. CASE Tick
    BY <1>0, <1>7 DEF Tick, timerVars, NextIsNear, PeriodsFit
  <1>8. ASSUME NEW d \in SetBacks, SetClockBack(d) PROVE NextIsNear' /\ PeriodsFit'
    BY <1>8, TimerAssumption DEF SetClockBack, timerVars, NextIsNear, PeriodsFit
  <1>9. ASSUME NEW x \in Timers, AddTimer(x) \/ cancel(x) PROVE NextIsNear' /\ PeriodsFit'
    BY <1>1, <1>9 DEF AddTimer, cancel
  <1>10. CASE onTimerInsertedAtFront
    BY <1>1, <1>10 DEF onTimerInsertedAtFront, timerVars
  <1>11. ASSUME NEW t \in Threads,
                \/ EnterIdle(t) \/ getNextTimer(t) \/ EpollReturns(t) \/ ReadNow(t)
                \/ CheckEmpty(t) \/ ListNothing(t)
         PROVE  NextIsNear' /\ PeriodsFit'
    BY <1>1, <1>11 DEF EnterIdle, getNextTimer, EpollReturns, ReadNow, CheckEmpty, ListNothing, timerVars
  <1>12. CASE UNCHANGED vars
    BY <1>1, <1>12 DEF vars, timerVars
  <1> QED BY <1>3, <1>4, <1>5, <1>6, <1>7, <1>8, <1>9, <1>10, <1>11, <1>12 DEF Next

\* Every step keeps the two facts about sleeping threads.
LEMMA SleepStep ==
    ASSUME TimerInv, SleepInv, [Next]_vars
    PROVE  TickleOwed' /\ NoOversleep'
  <1> USE DEF TimerInv, SleepInv
  <1>0. /\ clock \in Int /\ setBack \in Nat /\ notifiers \in Nat /\ pc \in [Threads -> Pcs]
        /\ m_ms \in [Timers -> Nat] /\ m_next \in [Timers -> Int]
        /\ left \in [Threads -> Nat \cup {Forever}]
        /\ m_timers \subseteq [timer : Timers, key : Int]
    BY DEF TypeOK
  <1>1. ASSUME UNCHANGED <<clock, m_timers, m_tickled, notifiers, pipe, pc, left, setBack>>
        PROVE  TickleOwed' /\ NoOversleep'
    BY <1>1, Zenon DEF TickleOwed, NoOversleep, Alert, OnTime
  <1>2. ASSUME NEW t \in Threads, pc'[t] # "epoll" PROVE TickleOwed' /\ NoOversleep'
    BY <1>2, AwakeIsAlert, Zenon DEF TickleOwed, NoOversleep
  <1>3. ASSUME NEW x \in Timers, AddTimer(x) PROVE TickleOwed' /\ NoOversleep'
    <2>1. m_next[x] \in Int /\ m_timers \in SUBSET m_timers
      BY <1>0
    <2> QED BY <1>3, <2>1, InsertSleep DEF AddTimer, threadVars
  <1>4. ASSUME NEW x \in Timers, NEW ms \in Periods, NEW from_now \in BOOLEAN, reset(x, ms, from_now)
        PROVE  TickleOwed' /\ NoOversleep'
    <2> DEFINE next == (IF from_now THEN clock ELSE m_next[x] - m_ms[x]) + ms
    <2>1. next \in Int /\ Others(x) \in SUBSET m_timers
      BY <1>0, TimerAssumption DEF Others
    <2>2. addTimer(x, Others(x), next) /\ UNCHANGED <<clock, pipe, pc, left, setBack>>
      BY <1>4 DEF reset, threadVars
    <2> HIDE DEF next
    <2> QED BY <2>1, <2>2, InsertSleep
  <1>5. ASSUME m_timers' \subseteq m_timers,
               UNCHANGED <<clock, m_tickled, notifiers, pipe, pc, left, setBack>>
        PROVE  TickleOwed' /\ NoOversleep'
    BY <1>5 DEF TickleOwed, NoOversleep, Alert, OnTime
  <1>6. ASSUME NEW x \in Timers, cancel(x) PROVE TickleOwed' /\ NoOversleep'
    BY <1>5, <1>6 DEF cancel, Others, threadVars
  <1>7. ASSUME NEW x \in Timers, refresh(x) PROVE TickleOwed' /\ NoOversleep'
    <2>1. /\ m_timers' = Others(x) \cup {[timer |-> x, key |-> clock + m_ms[x]]}
          /\ UNCHANGED <<clock, m_tickled, notifiers, pipe, pc, left, setBack>>
          /\ InSet(x) \in m_timers
      BY <1>7, ZenonT(30) DEF refresh, threadVars, find
    <2>2. Alert' <=> Alert
      BY <2>1, Zenon DEF Alert
    <2>3. ASSUME setBack = 0, ~Alert PROVE OnTime'
      <3>1. PICK t \in Threads : pc[t] = "epoll" /\ left[t] # Forever
                                 /\ (left[t] = 0 \/ \A f \in m_timers : clock + left[t] <= f.key)
        BY <2>1, <2>3, Zenon DEF NoOversleep, OnTime
      <3>2. InSet(x).key = m_next[x] /\ m_next[x] <= clock + m_ms[x]
        BY <2>3 DEF InSet, NextIsNear
      <3>3. /\ left[t] \in Int /\ m_next[x] \in Int /\ clock + m_ms[x] \in Int
            /\ left[t] # 0 => clock + left[t] <= clock + m_ms[x]
        BY <1>0, <2>1, <3>1, <3>2, SMTT(30) DEF Forever
      <3>4. ASSUME NEW f \in m_timers', left[t] # 0 PROVE clock + left[t] <= f.key
        <4>1. CASE f \in m_timers
          BY <3>1, <3>4, <4>1, Zenon
        <4>2. CASE f = [timer |-> x, key |-> clock + m_ms[x]]
          BY <3>3, <3>4, <4>2
        <4> QED BY <2>1, <4>1, <4>2, ZenonT(30) DEF Others
      <3> QED BY <2>1, <3>1, <3>4, Zenon DEF OnTime
    <2> QED BY <2>1, <2>2, <2>3, ZenonT(30) DEF TickleOwed, NoOversleep
  <1>8. CASE onTimerInsertedAtFront
    <2>1. pipe' = (pipe \/ \E t \in Threads : pc[t] \in IdlePcs) /\ UNCHANGED pc
      BY <1>8 DEF onTimerInsertedAtFront, threadVars
    <2>2. CASE \E t \in Threads : pc[t] \in IdlePcs
      BY <2>1, <2>2, Zenon DEF TickleOwed, NoOversleep, Alert
    <2>3. CASE \A t \in Threads : pc[t] \notin IdlePcs
      <3>1. PICK t \in Threads : TRUE
        BY TimerAssumption
      <3>2. pc'[t] # "epoll"
        BY <2>1, <2>3 DEF IdlePcs
      <3> QED BY <1>2, <3>2
    <2> QED BY <2>2, <2>3
  <1>9. ASSUME NEW t \in Threads,
               \/ EnterIdle(t) \/ EpollReturns(t) \/ ReadNow(t) \/ CheckEmpty(t)
               \/ listExpiredCb(t) \/ ListNothing(t)
        PROVE  TickleOwed' /\ NoOversleep'
    <2>1. pc'[t] # "epoll"
      BY <1>0, <1>9 DEF EnterIdle, EpollReturns, ReadNow, CheckEmpty, listExpiredCb, ListNothing
    <2> QED BY <1>2, <2>1
  <1>10. ASSUME NEW t \in Threads, getNextTimer(t) PROVE TickleOwed' /\ NoOversleep'
    <2>1. PICK d \in {Forever} \cup 0..MaxTimeout : Sleeps(d) /\ left' = [left EXCEPT ![t] = d]
      BY <1>10, Zenon DEF getNextTimer
    <2>2. /\ m_tickled' = FALSE /\ pc'[t] = "epoll" /\ left'[t] = d
          /\ UNCHANGED <<clock, m_timers, setBack>>
      BY <1>0, <1>10, <2>1 DEF getNextTimer
    <2>3. ASSUME setBack = 0, m_timers # {}
          PROVE  d # Forever /\ (d = 0 \/ \A e \in m_timers : clock + d <= e.key)
      BY <2>1, <2>3, SleepsUntilFirst DEF Forever
    <2>4. setBack = 0 => OnTime'
      BY <2>2, <2>3, Zenon DEF OnTime
    <2> QED BY <2>2, <2>4, Zenon DEF TickleOwed, NoOversleep
  <1>11. CASE Tick
    <2>1. /\ UNCHANGED <<m_timers, m_tickled, notifiers, pipe, pc, setBack>>
          /\ clock' = clock + 1
          /\ \A t \in Threads : pc[t] = "epoll" => left[t] # 0
          /\ \A t \in Threads : left'[t] = IF left[t] > 0 THEN left[t] - 1 ELSE left[t]
      BY <1>11 DEF Tick, managerVars
    <2>2. Alert' <=> Alert
      BY <2>1, Zenon DEF Alert
    <2>3. ASSUME setBack = 0, ~Alert, m_timers # {} PROVE OnTime'
      <3>1. PICK t \in Threads : pc[t] = "epoll" /\ left[t] # Forever
                                 /\ (left[t] = 0 \/ \A f \in m_timers : clock + left[t] <= f.key)
        BY <2>1, <2>3, Zenon DEF NoOversleep, OnTime
      <3>2. left[t] \in Nat /\ left[t] # 0
        BY <1>0, <2>1, <3>1
      <3>3. left'[t] = left[t] - 1 /\ left'[t] # Forever
        BY <2>1, <3>2 DEF Forever
      <3>4. \A f \in m_timers : clock' + left'[t] <= f.key
        BY <1>0, <2>1, <3>1, <3>2, <3>3
      <3> QED BY <2>1, <3>1, <3>3, <3>4, Zenon DEF OnTime
    <2> QED BY <2>1, <2>2, <2>3, Zenon DEF TickleOwed, NoOversleep, OnTime
  <1>12. ASSUME NEW d \in SetBacks, SetClockBack(d) PROVE TickleOwed' /\ NoOversleep'
    <2>1. setBack' # 0 /\ UNCHANGED <<m_tickled, notifiers, pipe, pc>>
      BY <1>12, TimerAssumption DEF SetClockBack, managerVars, threadVars
    <2> QED BY <2>1, Zenon DEF TickleOwed, NoOversleep, Alert
  <1>13. CASE UNCHANGED vars
    BY <1>1, <1>13 DEF vars, managerVars, threadVars
  <1>14. ASSUME NEW x \in Timers, NEW ms \in Periods, NewTimer(x, ms) PROVE TickleOwed' /\ NoOversleep'
    BY <1>1, <1>14 DEF NewTimer, managerVars, threadVars
  <1> QED
    BY <1>3, <1>4, <1>6, <1>7, <1>8, <1>9, <1>10, <1>11, <1>12, <1>13, <1>14 DEF Next

\* As long as every period fits in an int (24 days) and the clock is not set back, the threads
\* of the IOManager never all sleep past the first timer, for any timers and threads: a
\* notification that m_tickled suppresses is always one that is not needed.
THEOREM NobodyOversleeps ==
    ASSUME \A ms \in Periods : 2 * ms < IntMod
    PROVE  Spec => []NoOversleep
  <1>1. Init => TimerInv /\ SleepInv
    <2> SUFFICES ASSUME Init PROVE SleepInv
      BY TimerInit
    <2>1. NextIsNear /\ PeriodsFit
      BY TimerAssumption DEF Init, NextIsNear, PeriodsFit
    <2>2. Alert
      BY TimerAssumption DEF Init, Alert
    <2> QED BY <2>1, <2>2 DEF SleepInv, TickleOwed, NoOversleep
  <1>2. TimerInv /\ SleepInv /\ [Next]_vars => (TimerInv /\ SleepInv)'
    BY TimerStep, PeriodStep, SleepStep DEF SleepInv
  <1>3. SleepInv => NoOversleep
    BY DEF SleepInv
  <1> QED BY <1>1, <1>2, <1>3, PTL DEF Spec
=============================================================================

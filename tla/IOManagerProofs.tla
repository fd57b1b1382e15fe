--------------------------- MODULE IOManagerProofs ---------------------------
(***************************************************************************)
(* m_pendingEventCount is exact and every waiter is resumed once, for any  *)
(* threads, descriptors and waiters, whatever descriptors are closed under *)
(* their events and however the table grows and shrinks.                   *)
(***************************************************************************)
EXTENDS IOManager, FiniteSetTheorems, TLAPS

\* Most steps need no arithmetic: Zenon is tried before SMT.
USE ZenonT(10), SMTT(30)

\* The parts of the state that the argument is about, and their types.
Ops == [pc : {"idle", "grow", "add_at", "del_at", "cancel_at", "all_at"},
        fd : Fds \cup {None}, event : Events \cup {None},
        ctx : Ctxs \cup {None}, w : Waiters \cup {None}]
Types ==
    /\ size \in Nat
    /\ table \in [Fds -> 0..MaxGen] /\ made \in [Fds -> 0..MaxGen]
    /\ events \in [Ctxs -> SUBSET Events]
    /\ waiter \in [Ctxs -> [Events -> Waiters \cup {None}]]
    /\ registered \in [Fds -> [ctx : Ctxs, mask : SUBSET Events] \cup {None}]
    /\ op \in [Users -> Ops]
    /\ got \in [Threads -> [ctx : Ctxs, events : SUBSET (Events \cup {"ERR"})] \cup {None}]
    /\ scheduled \in [Waiters -> 0..2]

\* The table has a context for every descriptor it is large enough for, and never becomes so small
\* that growing it for a descriptor leaves that descriptor out.
TableInv == size >= 2 /\ \A fd \in Fds : fd < size => table[fd] >= 1

\* What a user holds fits the place where it is.
OpInv ==
    \A u \in Users :
       /\ op[u].pc # "idle" => op[u].fd \in Fds
       /\ op[u].pc = "grow" => op[u].fd >= 2
       /\ op[u].pc \notin {"idle", "grow"} => op[u].ctx \in Ctxs /\ op[u].ctx[1] = op[u].fd
       /\ op[u].pc \notin {"idle", "all_at"} => op[u].event \in Events
       /\ op[u].pc \in {"grow", "add_at"} <=> op[u].w # None

\* A waiter is in one place only: with a user that adds it, in one slot, or among the results.
Nowhere(w) == scheduled[w] = 0 /\ w \notin deleted /\ w \notin failed
SlotsSet == \A c \in Ctxs, e \in Events : waiter[c][e] # None <=> e \in events[c]
SlotsDiffer ==
    \A c, d \in Ctxs, e, f \in Events :
       waiter[c][e] # None /\ waiter[c][e] = waiter[d][f] => c = d /\ e = f
SlotsWait == \A c \in Ctxs, e \in Events : waiter[c][e] # None => Nowhere(waiter[c][e])
AddsWait ==
    \A u \in Users : op[u].w # None =>
       /\ Nowhere(op[u].w)
       /\ \A v \in Users \ {u} : op[v].w # op[u].w
       /\ \A c \in Ctxs, e \in Events : waiter[c][e] # op[u].w
Once == \A w \in Waiters : scheduled[w] <= 1 /\ (w \in deleted => scheduled[w] = 0)
SlotInv == SlotsSet /\ SlotsDiffer /\ SlotsWait /\ AddsWait /\ Once

Inv == Types /\ TableInv /\ OpInv /\ SlotInv

USE IOManagerAssumption

\* What triggerEvent does to the slots, whoever calls it.
LEMMA TriggerKeepsSlots ==
    ASSUME Types, SlotInv, NEW c \in Ctxs, NEW es \in SUBSET events[c],
           triggerEvents(c, es), UNCHANGED <<deleted, failed>>,
           \A u \in Users : op'[u].w = op[u].w \/ op'[u].w = None
    PROVE  SlotInv'
<1> USE DEF Types, Ops, SlotInv
<1>0. /\ \A d \in Ctxs, e \in Events :
            waiter'[d][e] = IF d = c /\ e \in es THEN None ELSE waiter[d][e]
      /\ \A d \in Ctxs, e \in Events :
            e \in events'[d] <=> e \in events[d] /\ ~(d = c /\ e \in es)
  BY DEF triggerEvents
<1>1. ASSUME NEW w \in Waiters, scheduled'[w] # scheduled[w]
      PROVE  \E e \in es : waiter[c][e] = w
  BY <1>1 DEF triggerEvents
<1>2. ASSUME NEW w \in Waiters, NEW d \in Ctxs, NEW e \in Events,
             waiter'[d][e] = w \/ \E u \in Users : op'[u].w = w
      PROVE  scheduled'[w] = scheduled[w]
  <2> SUFFICES ASSUME NEW f \in es, waiter[c][f] = w PROVE FALSE
    BY <1>1
  <2>1. w # None /\ f \in Events
    OBVIOUS
  <2>2. CASE waiter'[d][e] = w
    BY <1>0, <2>1, <2>2, SMTT(30) DEF SlotsDiffer
  <2>3. CASE \E u \in Users : op'[u].w = w
    BY <2>1, <2>3, SMTT(30) DEF AddsWait
  <2> QED
    BY <1>2, <2>2, <2>3
<1>3. SlotsSet'
  BY <1>0, SMTT(30) DEF SlotsSet
<1>4. SlotsDiffer'
  BY <1>0, SMTT(30) DEF SlotsDiffer
<1>5. SlotsWait'
  BY <1>0, <1>2, SMTT(30) DEF SlotsWait, Nowhere
<1>6. AddsWait'
  <2> SUFFICES ASSUME NEW u \in Users, op'[u].w # None PROVE
         /\ Nowhere(op[u].w)'
         /\ \A v \in Users \ {u} : op'[v].w # op'[u].w
         /\ \A d \in Ctxs, e \in Events : waiter'[d][e] # op'[u].w
    BY DEF AddsWait
  <2> QED
    BY <1>0, <1>1, SMTT(30) DEF AddsWait, Nowhere
<1>7. Once'
  <2> SUFFICES ASSUME NEW w \in Waiters, scheduled'[w] # scheduled[w]
               PROVE  scheduled'[w] <= 1 /\ w \notin deleted
    BY DEF Once
  <2>1. Nowhere(w)
    BY <1>1, SMTT(30) DEF SlotsWait
  <2> QED
    BY <2>1, SMTT(30) DEF triggerEvents, Inc, Nowhere
<1> QED
  BY <1>3, <1>4, <1>5, <1>6, <1>7

\* The slots and the results are the same.
LEMMA SameSlots ==
    ASSUME SlotsSet, SlotsDiffer, Once, UNCHANGED <<events, waiter, scheduled, deleted, failed>>
    PROVE  SlotsSet' /\ SlotsDiffer' /\ Once'
<1>0. /\ events' = events /\ waiter' = waiter /\ scheduled' = scheduled
      /\ deleted' = deleted /\ failed' = failed
  OBVIOUS
<1>1. SlotsSet'
  BY <1>0 DEF SlotsSet
<1>2. SlotsDiffer'
  <2> DEFINE Differ(w) == \A c, d \in Ctxs, e, f \in Events :
                             w[c][e] # None /\ w[c][e] = w[d][f] => c = d /\ e = f
  <2>1. (SlotsDiffer => Differ(waiter)) /\ (Differ(waiter') => SlotsDiffer')
    BY DEF SlotsDiffer
  <2> HIDE DEF Differ
  <2> QED
    BY <1>0, <2>1
<1>3. Once'
  BY <1>0 DEF Once
<1> QED
  BY <1>1, <1>2, <1>3

\* A step that leaves the slots and the results alone, and adds nothing.
LEMMA QuietKeepsSlots ==
    ASSUME SlotInv, UNCHANGED <<events, waiter, scheduled, deleted, failed>>,
           \A u \in Users : op'[u].w = op[u].w \/ op'[u].w = None
    PROVE  SlotInv'
<1> USE DEF SlotInv
<1>1. SlotsSet' /\ SlotsDiffer' /\ Once'
  BY SameSlots
<1>2. SlotsWait'
  BY DEF SlotsWait, Nowhere
<1>3. AddsWait'
  BY SMTT(30) DEF AddsWait, Nowhere
<1> QED
  BY <1>1, <1>2, <1>3

\* A step that leaves the table alone; one that ends operations; one that only clears events.
LEMMA TableStays == ASSUME TableInv, UNCHANGED <<size, table>> PROVE TableInv'
BY DEF TableInv

\* Calls that return leave OpInv alone.
LEMMA EndingKeepsOps ==
    ASSUME OpInv, \A u \in Users : op'[u] = op[u] \/ op'[u] = Idle
    PROVE  OpInv'
BY SMTT(30) DEF OpInv, Idle

\* triggerEvents keeps the types of what it changes.
LEMMA TriggerKeepsTypes ==
    ASSUME Types, NEW c \in Ctxs, NEW es, triggerEvents(c, es)
    PROVE  /\ events' \in [Ctxs -> SUBSET Events]
           /\ waiter' \in [Ctxs -> [Events -> Waiters \cup {None}]]
           /\ scheduled' \in [Waiters -> 0..2]
BY SMTT(30) DEF Types, Ops, triggerEvents, Inc

\* addEvent begins: the table holds the descriptor.
LEMMA AddEventKeeps ==
    ASSUME Inv, NEW u \in Users, NEW fd \in Fds, NEW e \in Events, NEW w \in Waiters,
           addEvent(u, fd, e, w)
    PROVE  Inv'
<1>f. /\ fd \in Nat /\ size \in Nat /\ size >= 2
      /\ table[fd] \in 0..MaxGen /\ (fd < size => table[fd] >= 1)
  BY Zenon DEF Inv, Types, TableInv
<1> USE DEF Inv, addEvent, Fresh, InTable, tableVars, eventVars, resultVars
<1>0. fd < size => Context(fd) \in Ctxs /\ Context(fd)[1] = fd
  <2>1. fd < size => table[fd] \in 1..MaxGen
    BY <1>f, SMTT(30)
  <2> QED
    BY <2>1 DEF Context, Ctxs
<1>1. Types'
  <2>1. op'[u] \in Ops
    BY <1>0 DEF Types, Ops
  <2> QED
    BY <2>1 DEF Types, Ops
<1>2. TableInv'
  BY TableStays
<1>3. OpInv'
  <2>1. \A v \in Users \ {u} : op'[v] = op[v]
    BY DEF Types, Ops
  <2>2. CASE fd < size
    <3>1. op'[u] = [pc |-> "add_at", fd |-> fd, event |-> e, ctx |-> Context(fd), w |-> w]
      BY <2>2 DEF Types, Ops
    <3> QED
      BY <1>0, <2>1, <2>2, <3>1, SMTT(30) DEF OpInv
  <2>3. CASE ~(fd < size)
    <3>1. op'[u] = [pc |-> "grow", fd |-> fd, event |-> e, ctx |-> None, w |-> w]
      BY <2>3 DEF Types, Ops
    <3>2. fd >= 2
      BY <1>f, <2>3, SMTT(30)
    <3> QED
      BY <2>1, <3>1, <3>2, SMTT(30) DEF OpInv
  <2> QED
    BY <2>2, <2>3
<1>4. SlotInv'
  <2> USE DEF SlotInv
  <2>1. \A v \in Users : op'[v].w = IF v = u THEN w ELSE op[v].w
    BY DEF Types, Ops
  <2>a. UNCHANGED <<events, waiter, scheduled, deleted, failed>>
    OBVIOUS
  <2>2. SlotsSet' /\ SlotsDiffer' /\ Once'
    BY <2>a, SameSlots, Zenon
  <2>3. SlotsWait'
    BY DEF SlotsWait, Nowhere
  <2>4. AddsWait'
    BY <2>1, SMTT(30) DEF AddsWait, Nowhere
  <2> QED
    BY <2>2, <2>3, <2>4
<1> QED
  BY <1>1, <1>2, <1>3, <1>4, Zenon

\* A call that has its context is a call in progress.
LEMMA OpsMoves ==
    ASSUME NEW r \in Ops, NEW c \in Ctxs
    PROVE  [r EXCEPT !.pc = "add_at", !.ctx = c] \in Ops
BY Zenon DEF Ops

\* addEvent grows the table under the write lock.
LEMMA AddGrowsKeeps ==
    ASSUME Inv, NEW u \in Users,
           AddGrows(u)
    PROVE  Inv'
<1> USE DEF Inv, AddGrows, contextResize, tableVars, eventVars, resultVars
<1>0. /\ table' \in [Fds -> 0..MaxGen] /\ made' \in [Fds -> 0..MaxGen] /\ size' \in Nat
      /\ <<op[u].fd, table'[op[u].fd]>> \in Ctxs
  <2>1. op[u].fd \in Fds /\ op[u].fd >= 2 /\ op[u].fd \in Nat
    BY DEF OpInv
  <2>2. (3 * op[u].fd) \div 2 \in Nat /\ op[u].fd < (3 * op[u].fd) \div 2
    BY <2>1
  <2>3. \A fd \in Fds : made[fd] \in 0..MaxGen /\ table[fd] \in 0..MaxGen
    BY DEF Types, Ops
  <2>4. table' \in [Fds -> 0..MaxGen] /\ made' \in [Fds -> 0..MaxGen] /\ size' \in Nat
    <3>1. size' \in Nat
      BY <2>2
    <3>2. ASSUME NEW fd \in Fds
          PROVE  /\ (IF size <= fd /\ fd < size' THEN made[fd] + 1 ELSE made[fd]) \in 0..MaxGen
                 /\ (IF fd >= size' THEN 0 ELSE IF fd >= size THEN made[fd] + 1 ELSE table[fd])
                       \in 0..MaxGen
      BY <2>3, <3>1, SMTT(30) DEF Types, Ops
    <3> QED
      BY <3>1, <3>2
  <2>5. table'[op[u].fd] \in 1..MaxGen
    BY <2>1, <2>2, <2>3, SMTT(30) DEF Types, Ops, TableInv
  <2> QED
    BY <2>1, <2>4, <2>5 DEF Ctxs
<1>1. Types'
  <2>1. op'[u] \in Ops
    <3>1. op'[u] = [op[u] EXCEPT !.pc = "add_at", !.ctx = <<op[u].fd, table'[op[u].fd]>>]
      BY DEF Types, Ops
    <3>2. op[u] \in Ops
      BY DEF Types
    <3>3. [op[u] EXCEPT !.pc = "add_at", !.ctx = <<op[u].fd, table'[op[u].fd]>>] \in Ops
      BY <1>0, <3>2, OpsMoves, Zenon
    <3> QED
      BY <3>1, <3>3, Zenon
  <2>2. op' \in [Users -> Ops]
    BY <2>1, Zenon DEF Types
  <2> QED
    BY <1>0, <2>2, Zenon DEF Types
<1>2. TableInv'
  BY SMTT(30) DEF Types, Ops, TableInv, OpInv
<1>3. OpInv'
  <2>1. /\ op'[u].pc = "add_at" /\ op'[u].fd = op[u].fd /\ op'[u].event = op[u].event
        /\ op'[u].w = op[u].w /\ op'[u].ctx = <<op[u].fd, table'[op[u].fd]>>
        /\ op[u].pc = "grow"
    BY SMTT(30) DEF Types, Ops
  <2>2. \A v \in Users \ {u} : op'[v] = op[v]
    BY DEF Types, Ops
  <2> HIDE DEF AddGrows
  <2> QED
    BY <1>0, <2>1, <2>2, SMTT(30) DEF OpInv
<1>4. SlotInv'
  <2>1. \A v \in Users : op'[v].w = op[v].w \/ op'[v].w = None
    BY SMTT(30) DEF Types, Ops, Idle
  <2> QED
    BY <2>1, QuietKeepsSlots, Zenon
<1> QED
  BY <1>1, <1>2, <1>3, <1>4, Zenon

\* addEvent locks the context and registers the event.
LEMMA AddAtKeeps ==
    ASSUME Inv, NEW u \in Users,
           AddAt(u)
    PROVE  Inv'
<1> USE DEF Inv, AddAt, Registration, tableVars, eventVars, resultVars
<1>0. op[u].fd \in Fds /\ op[u].ctx \in Ctxs /\ op[u].ctx[1] = op[u].fd
      /\ op[u].event \in Events /\ op[u].w \in Waiters
  BY DEF Types, Ops, OpInv
<1>1. Types'
  <2>1. op' \in [Users -> Ops]
    BY DEF Types, Ops, Idle
  <2>2. events[op[u].ctx] \cup {op[u].event} \in SUBSET Events
    BY <1>0 DEF Types, Ops
  <2>3. registered' \in [Fds -> [ctx : Ctxs, mask : SUBSET Events] \cup {None}]
    BY <1>0, <2>2, SMTT(30) DEF Types, Ops
  <2>4. events' \in [Ctxs -> SUBSET Events]
    BY <1>0, <2>2, SMTT(30) DEF Types, Ops
  <2>5. waiter' \in [Ctxs -> [Events -> Waiters \cup {None}]]
    <3>1. waiter[op[u].ctx] \in [Events -> Waiters \cup {None}]
      BY <1>0 DEF Types, Ops
    <3>2. [waiter[op[u].ctx] EXCEPT ![op[u].event] = op[u].w] \in [Events -> Waiters \cup {None}]
      BY <1>0, <3>1
    <3> QED
      BY <1>0, <3>2, Zenon DEF Types, Ops
  <2> QED
    BY <2>1, <2>3, <2>4, <2>5 DEF Types, Ops
<1>2. TableInv'
  BY TableStays
<1>3. OpInv'
  BY DEF Types, OpInv, Idle
<1>a. \A v \in Users : op'[v] = IF v = u THEN Idle ELSE op[v]
  BY DEF Types, Ops
<1>b. op[u].w # None
  BY DEF OpInv
<1>4. SlotInv'
  <2> USE DEF SlotInv
  <2>1. /\ scheduled' = scheduled /\ deleted' = deleted
        /\ \A v \in Users : op'[v].w # None => v # u /\ op'[v].w = op[v].w
    BY <1>a, SMTT(30) DEF Idle
  <2>2. CASE CtlWorks(op[u].fd, events[op[u].ctx] = {})
    <3>1. /\ \A d \in Ctxs, f \in Events : waiter'[d][f] =
                IF d = op[u].ctx /\ f = op[u].event THEN op[u].w ELSE waiter[d][f]
          /\ \A d \in Ctxs, f \in Events :
                f \in events'[d] <=> f \in events[d] \/ (d = op[u].ctx /\ f = op[u].event)
          /\ failed' = failed
      BY <1>0, <2>2, SMTT(30) DEF Types, Ops
    <3>2. SlotsSet'
      BY <1>0, <1>b, <3>1, SMTT(30) DEF SlotsSet
    <3>3. SlotsDiffer'
      BY <1>0, <1>b, <3>1, SMTT(30) DEF SlotsDiffer, AddsWait
    <3>4. SlotsWait'
      BY <1>0, <1>b, <2>1, <3>1, SMTT(30) DEF SlotsWait, AddsWait, Nowhere
    <3>5. AddsWait'
      BY <1>0, <1>b, <2>1, <3>1, SMTT(30) DEF AddsWait, Nowhere
    <3> QED
      BY <2>1, <3>2, <3>3, <3>4, <3>5 DEF Once
  <2>3. CASE ~CtlWorks(op[u].fd, events[op[u].ctx] = {})
    <3>1. events' = events /\ waiter' = waiter /\ failed' = failed \cup {op[u].w}
      BY <2>3
    <3>2. SlotsSet' /\ SlotsDiffer'
      BY <3>1, SMTT(30) DEF SlotsSet, SlotsDiffer
    <3>3. SlotsWait'
      BY <1>0, <1>b, <2>1, <3>1, SMTT(30) DEF SlotsWait, AddsWait, Nowhere
    <3>4. AddsWait'
      BY <1>0, <1>b, <2>1, <3>1, SMTT(30) DEF AddsWait, Nowhere
    <3> QED
      BY <2>1, <3>2, <3>3, <3>4 DEF Once
  <2> QED
    BY <2>2, <2>3
<1> QED
  BY <1>1, <1>2, <1>3, <1>4, Zenon

\* delEvent, cancelEvent and cancelAll find their context.
LEMMA FindKeeps ==
    ASSUME Inv, NEW u \in Users, NEW fd \in Fds, NEW e \in Events \cup {None}, NEW place \in {"del_at", "cancel_at", "all_at"}, place # "all_at" => e \in Events,
           Find(u, fd, e, place)
    PROVE  Inv'
<1> USE DEF Inv, Find, InTable, tableVars, eventVars, resultVars
<1>0. Context(fd) \in Ctxs /\ Context(fd)[1] = fd
  <2>1. table[fd] \in 1..MaxGen
    <3>1. table[fd] \in 0..MaxGen
      BY Zenon DEF Types
    <3>2. table[fd] >= 1
      BY Zenon DEF TableInv
    <3> HIDE DEF Inv, Find
    <3> QED
      BY <3>1, <3>2, SMTT(30)
  <2> QED
    BY <2>1, Zenon DEF Context, Ctxs
<1>a. /\ \A v \in Users \ {u} : op'[v] = op[v]
      /\ op'[u] = [pc |-> place, fd |-> fd, event |-> e, ctx |-> Context(fd), w |-> None]
  BY DEF Types
<1>1. Types'
  <2>1. op'[u] \in Ops
    BY <1>0, <1>a, SMTT(30) DEF Ops
  <2> QED
    BY <2>1 DEF Types
<1>2. TableInv'
  BY TableStays
<1>3. OpInv'
  BY <1>0, <1>a, SMTT(30) DEF OpInv
<1>4. SlotInv'
  <2>1. \A v \in Users : op'[v].w = op[v].w \/ op'[v].w = None
    BY DEF Types, Ops, Idle
  <2> QED
    BY <2>1, QuietKeepsSlots
<1> QED
  BY <1>1, <1>2, <1>3, <1>4, Zenon

\* Calls for a descriptor or an event that is not there return.
LEMMA RefusedKeeps ==
    ASSUME Inv, NEW u \in Users,
           Refused(u)
    PROVE  Inv'
<1> USE DEF Inv, Refused, tableVars, eventVars, resultVars
<1>1. Types'
  BY DEF Types, Ops, TableInv, OpInv, Idle
<1>2. TableInv'
  BY TableStays
<1>a. \A v \in Users : op'[v] = op[v] \/ op'[v] = Idle
  BY DEF Types
<1>3. OpInv'
  BY <1>a, EndingKeepsOps
<1>4. SlotInv'
  <2>1. \A v \in Users : op'[v].w = op[v].w \/ op'[v].w = None
    BY DEF Types, Ops, Idle
  <2> QED
    BY <2>1, QuietKeepsSlots
<1> QED
  BY <1>1, <1>2, <1>3, <1>4, Zenon

\* The slot of an event that is not triggered becomes empty, and its waiter is remembered.
SlotsCleared(c, e) ==
    /\ c \in Ctxs /\ e \in Events /\ waiter[c][e] # None
    /\ \A d \in Ctxs, f \in Events :
          waiter'[d][f] = IF d = c /\ f = e THEN None ELSE waiter[d][f]
    /\ \A d \in Ctxs, f \in Events : f \in events'[d] <=> f \in events[d] /\ ~(d = c /\ f = e)
    /\ scheduled' = scheduled /\ failed' = failed /\ deleted' = deleted \cup {waiter[c][e]}
    /\ \A v \in Users : op'[v].w # None => op'[v].w = op[v].w

\* That keeps the other waiters in their places.
LEMMA ClearingKeepsSlots ==
    ASSUME SlotInv, NEW c, NEW e, SlotsCleared(c, e)
    PROVE  SlotInv'
<1> HIDE IOManagerAssumption
<1>1. c \in Ctxs /\ e \in Events /\ waiter[c][e] # None
  BY DEF SlotsCleared
<1>a. SlotsSet
  BY DEF SlotInv
<1>b. SlotsDiffer
  BY DEF SlotInv
<1>c. SlotsWait
  BY DEF SlotInv
<1>d. AddsWait
  BY DEF SlotInv
<1>e. Once
  BY DEF SlotInv
<1>2. /\ \A d \in Ctxs, f \in Events :
            waiter'[d][f] = IF d = c /\ f = e THEN None ELSE waiter[d][f]
      /\ \A d \in Ctxs, f \in Events : f \in events'[d] <=> f \in events[d] /\ ~(d = c /\ f = e)
      /\ scheduled' = scheduled /\ failed' = failed /\ deleted' = deleted \cup {waiter[c][e]}
  BY DEF SlotsCleared
<1>3. \A v \in Users : op'[v].w # None => op'[v].w = op[v].w
  BY DEF SlotsCleared
<1>4. SlotsSet'
  BY <1>1, <1>2, <1>a DEF SlotsSet
<1>5. SlotsDiffer'
  BY <1>1, <1>2, <1>b, SMTT(30) DEF SlotsDiffer
<1>6. SlotsWait'
  <2>1. ASSUME NEW d \in Ctxs, NEW f \in Events, waiter'[d][f] # None
        PROVE  Nowhere(waiter[d][f])'
    <3>1. ~(d = c /\ f = e) /\ waiter'[d][f] = waiter[d][f]
      BY <1>2, <2>1
    <3>2. waiter[d][f] # waiter[c][e]
      BY <1>1, <1>b, <3>1, SMTT(30) DEF SlotsDiffer
    <3>3. Nowhere(waiter[d][f])
      BY <1>c, <2>1, <3>1 DEF SlotsWait
    <3> QED
      BY <1>2, <3>1, <3>2, <3>3 DEF Nowhere
  <2> QED
    BY <2>1 DEF SlotsWait
<1>7. AddsWait'
  <2>1. ASSUME NEW v \in Users, op'[v].w # None
        PROVE  /\ Nowhere(op[v].w)'
               /\ \A x \in Users \ {v} : op'[x].w # op'[v].w
               /\ \A d \in Ctxs, f \in Events : waiter'[d][f] # op'[v].w
    <3>1. op'[v].w = op[v].w /\ op[v].w # None
      BY <1>3, <2>1
    <3>2. /\ Nowhere(op[v].w) /\ \A x \in Users \ {v} : op[x].w # op[v].w
          /\ \A d \in Ctxs, f \in Events : waiter[d][f] # op[v].w
      BY <1>d, <3>1 DEF AddsWait
    <3>3. Nowhere(op[v].w)'
      BY <1>1, <1>2, <3>1, <3>2 DEF Nowhere
    <3>4. \A x \in Users \ {v} : op'[x].w # op'[v].w
      BY <1>3, <2>1, <3>1, <3>2
    <3>5. \A d \in Ctxs, f \in Events : waiter'[d][f] # op'[v].w
      BY <1>2, <2>1, <3>1, <3>2
    <3> QED
      BY <3>3, <3>4, <3>5
  <2> QED
    BY <2>1 DEF AddsWait
<1>8. Once'
  BY <1>1, <1>2, <1>c, <1>e, SMTT(30) DEF Once, SlotsWait, Nowhere
<1> QED
  BY <1>4, <1>5, <1>6, <1>7, <1>8 DEF SlotInv

\* delEvent removes the event without triggering it.
LEMMA DelEventKeeps ==
    ASSUME Inv, NEW u \in Users,
           delEvent(u)
    PROVE  Inv'
<1> USE DEF Inv, delEvent, Registration, tableVars, eventVars, resultVars
<1>1. Types'
  BY SMTT(30) DEF Types, Ops, TableInv, OpInv, Idle
<1>2. TableInv'
  BY TableStays
<1>a. \A v \in Users : op'[v] = op[v] \/ op'[v] = Idle
  BY DEF Types
<1>3. OpInv'
  BY <1>a, EndingKeepsOps
<1>4. SlotInv'
  <2> DEFINE c == op[u].ctx
             e == op[u].event
  <2>1. c \in Ctxs /\ e \in Events /\ waiter[c][e] # None
    BY Zenon DEF Types, Ops, OpInv, SlotInv, SlotsSet
  <2>2. /\ \A d \in Ctxs, f \in Events :
              waiter'[d][f] = IF d = c /\ f = e THEN None ELSE waiter[d][f]
        /\ \A d \in Ctxs, f \in Events : f \in events'[d] <=> f \in events[d] /\ ~(d = c /\ f = e)
        /\ scheduled' = scheduled /\ failed' = failed /\ deleted' = deleted \cup {waiter[c][e]}
    BY <2>1 DEF Types, Ops
  <2>3. \A v \in Users : op'[v].w # None => op'[v].w = op[v].w
    BY DEF Types, Ops, Idle
  <2>4. SlotInv
    OBVIOUS
  <2> HIDE DEF c, e, Inv, delEvent, Registration, tableVars, eventVars, resultVars
  <2>5. SlotsCleared(c, e)
    BY <2>1, <2>2, <2>3, Zenon DEF SlotsCleared
  <2> QED
    BY <2>4, <2>5, ClearingKeepsSlots, Zenon
<1> QED
  BY <1>1, <1>2, <1>3, <1>4, Zenon

\* cancelEvent triggers the event and removes it.
LEMMA CancelEventKeeps ==
    ASSUME Inv, NEW u \in Users,
           cancelEvent(u)
    PROVE  Inv'
<1> USE DEF Inv, cancelEvent, Registration, tableVars, eventVars, resultVars
<1>1. Types'
  BY SMTT(30) DEF Types, Ops, TableInv, OpInv, Idle, triggerEvents, Inc
<1>2. TableInv'
  BY TableStays
<1>a. \A v \in Users : op'[v] = op[v] \/ op'[v] = Idle
  BY DEF Types
<1>3. OpInv'
  BY <1>a, EndingKeepsOps
<1>4. SlotInv'
  <2>1. op[u].ctx \in Ctxs /\ {op[u].event} \in SUBSET events[op[u].ctx]
    BY DEF Types, Ops, OpInv
  <2>2. \A v \in Users : op'[v].w = op[v].w \/ op'[v].w = None
    BY SMTT(30) DEF Types, Ops, Idle
  <2> QED
    BY <2>1, <2>2, TriggerKeepsSlots
<1> QED
  BY <1>1, <1>2, <1>3, <1>4, Zenon

\* cancelAll triggers every event of the context.
LEMMA CancelAllKeeps ==
    ASSUME Inv, NEW u \in Users,
           cancelAll(u)
    PROVE  Inv'
<1> USE DEF Inv, cancelAll, Registration, tableVars, eventVars, resultVars
<1>1. Types'
  BY SMTT(30) DEF Types, Ops, TableInv, OpInv, Idle, triggerEvents, Inc
<1>2. TableInv'
  BY TableStays, SMTT(30)
<1>a. \A v \in Users : op'[v] = op[v] \/ op'[v] = Idle
  BY DEF Types
<1>3. OpInv'
  BY <1>a, EndingKeepsOps
<1>4. SlotInv'
  <2>1. op[u].ctx \in Ctxs /\ events[op[u].ctx] \in SUBSET events[op[u].ctx]
    BY DEF Types, Ops, OpInv
  <2>2. \A v \in Users : op'[v].w = op[v].w \/ op'[v].w = None
    BY SMTT(30) DEF Types, Ops, Idle
  <2> QED
    BY <2>1, <2>2, TriggerKeepsSlots, SMTT(30)
<1> QED
  BY <1>1, <1>2, <1>3, <1>4, Zenon

\* epoll_wait returns an event to an idle thread.
LEMMA EpollReturnsKeeps ==
    ASSUME Inv, NEW t \in Threads, NEW fd \in Fds, NEW es \in SUBSET (Events \cup {"ERR"}),
           EpollReturns(t, fd, es)
    PROVE  Inv'
<1> USE DEF Inv, EpollReturns, tableVars, eventVars, resultVars
<1>1. Types'
  BY SMTT(30) DEF Types
<1>2. TableInv'
  BY TableStays, Zenon
<1>3. OpInv'
  BY DEF OpInv
<1>4. SlotInv'
  BY QuietKeepsSlots, SMTT(30)
<1> QED
  BY <1>1, <1>2, <1>3, <1>4, Zenon

\* idle() finds nothing left to do for the event.
LEMMA SkipStaleKeeps ==
    ASSUME Inv, NEW t \in Threads,
           SkipStale(t)
    PROVE  Inv'
<1> USE DEF Inv, SkipStale, tableVars, eventVars, resultVars
<1>1. Types'
  BY DEF Types
<1>2. TableInv'
  BY TableStays
<1>3. OpInv'
  BY DEF OpInv
<1>4. SlotInv'
  BY QuietKeepsSlots
<1> QED
  BY <1>1, <1>2, <1>3, <1>4, Zenon

\* idle() triggers what is ready and re-registers the rest.
LEMMA HandleEventKeeps ==
    ASSUME Inv, NEW t \in Threads,
           HandleEvent(t)
    PROVE  Inv'
<1> USE DEF Inv, HandleEvent, Registration, tableVars, eventVars, resultVars
<1>0. got[t].ctx \in Ctxs /\ got[t].ctx[1] \in Fds /\ RealEvents(t) \in SUBSET events[got[t].ctx]
  BY DEF Types, Ops, Ctxs
<1>1. Types'
  <2>1. events[got[t].ctx] \ RealEvents(t) \in SUBSET Events
    BY <1>0, SMTT(30) DEF Types, Ops
  <2>2. registered' \in [Fds -> [ctx : Ctxs, mask : SUBSET Events] \cup {None}]
    BY <1>0, <2>1 DEF Types, Ops
  <2> QED
    BY <1>0, <2>2, TriggerKeepsTypes, SMTT(30) DEF Types, Ops
<1>2. TableInv'
  BY TableStays
<1>3. OpInv'
  BY DEF OpInv
<1>4. SlotInv'
  BY <1>0, TriggerKeepsSlots
<1> QED
  BY <1>1, <1>2, <1>3, <1>4, Zenon

\* The kernel drops the registration of a closed descriptor.
LEMMA CloseFdKeeps ==
    ASSUME Inv, NEW fd \in Fds,
           CloseFd(fd)
    PROVE  Inv'
<1> USE DEF Inv, CloseFd, tableVars, eventVars, resultVars
<1>1. Types'
  BY DEF Types
<1>2. TableInv'
  BY TableStays
<1>3. OpInv'
  BY DEF OpInv
<1>4. SlotInv'
  BY QuietKeepsSlots
<1> QED
  BY <1>1, <1>2, <1>3, <1>4, Zenon

-----------------------------------------------------------------------------
(***************************************************************************)
(* The count                                                               *)
(***************************************************************************)
SetEvents == {x \in Ctxs \X Events : x[2] \in events[x[1]]}
CountInv == IsFiniteSet(SetEvents) /\ m_pendingEventCount = Cardinality(SetEvents)

\* A set of events is finite.
LEMMA EventsFinite == ASSUME NEW es \in SUBSET Events PROVE IsFiniteSet(es)
<1>1. IsFiniteSet({"READ"} \cup {"WRITE"})
  BY FS_Singleton, FS_AddElement, Zenon
<1>2. es \in SUBSET ({"READ"} \cup {"WRITE"})
  OBVIOUS
<1> QED
  BY <1>1, <1>2, FS_Subset, Zenon

\* Removing events of one context removes as many pairs.
LEMMA RemoveKeepsCount ==
    ASSUME Types, CountInv, NEW c \in Ctxs, NEW es \in SUBSET events[c],
           events' = [events EXCEPT ![c] = @ \ es],
           m_pendingEventCount' = m_pendingEventCount - Cardinality(es)
    PROVE  CountInv'
<1>1. IsFiniteSet(es) /\ Cardinality(es) \in Nat
  <2>1. es \in SUBSET Events
    BY DEF Types
  <2> QED
    BY <2>1, EventsFinite, FS_CardinalityType
<1>2. IsFiniteSet({c}) /\ Cardinality({c}) = 1
  BY FS_Singleton, Zenon
<1>3. Cardinality({c} \X es) = Cardinality(es)
  <2>1. Cardinality({c} \X es) = Cardinality({c}) * Cardinality(es)
    BY <1>1, <1>2, FS_Product
  <2> QED
    BY <1>1, <1>2, <2>1, SMTT(30)
<1>4. SetEvents' = SetEvents \ ({c} \X es)
  BY DEF SetEvents, Types
<1>5. SetEvents \cap ({c} \X es) = {c} \X es
  BY Zenon DEF SetEvents, Types
<1>6. /\ IsFiniteSet(SetEvents \ ({c} \X es))
      /\ Cardinality(SetEvents \ ({c} \X es)) =
            Cardinality(SetEvents) - Cardinality(SetEvents \cap ({c} \X es))
  BY FS_Difference, Zenon DEF CountInv
<1> QED
  BY <1>3, <1>4, <1>5, <1>6, Zenon DEF CountInv

\* Adding an event that is not set adds one pair.
LEMMA AddKeepsCount ==
    ASSUME Types, CountInv, NEW c \in Ctxs, NEW e \in Events, e \notin events[c],
           events' = [events EXCEPT ![c] = @ \cup {e}],
           m_pendingEventCount' = m_pendingEventCount + 1
    PROVE  CountInv'
<1>1. SetEvents' = SetEvents \cup {<<c, e>>} /\ <<c, e>> \notin SetEvents
  BY SMTT(30) DEF SetEvents, Types
<1> QED
  BY <1>1, FS_AddElement, Zenon DEF CountInv

\* A step that leaves the events and the counter alone leaves CountInv alone.
LEMMA StillCounts ==
    ASSUME CountInv, UNCHANGED <<events, m_pendingEventCount>>
    PROVE  CountInv'
BY DEF CountInv, SetEvents

-----------------------------------------------------------------------------
(***************************************************************************)
(* The theorems                                                            *)
(***************************************************************************)
IInv == Inv /\ CountInv

\* A waiter that is in a slot is in no other, and its event is set.
LEMMA OneSlot ==
    ASSUME SlotsSet, SlotsDiffer, NEW w \in Waiters,
           NEW c \in Ctxs, NEW e \in Events, waiter[c][e] = w
    PROVE  {x \in Ctxs \X Events : waiter[x[1]][x[2]] = w /\ x[2] \in events[x[1]]} = {<<c, e>>}
<1>1. w # None /\ e \in events[c]
  BY DEF SlotsSet
<1>2. ASSUME NEW d \in Ctxs, NEW f \in Events, waiter[d][f] = w PROVE d = c /\ f = e
  BY <1>1, <1>2, SMTT(30) DEF SlotsDiffer
<1>3. ASSUME NEW x \in Ctxs \X Events, waiter[x[1]][x[2]] = w PROVE x = <<c, e>>
  <2>1. x[1] \in Ctxs /\ x[2] \in Events /\ x = <<x[1], x[2]>>
    BY SMTT(30)
  <2> QED
    BY <1>2, <1>3, <2>1, Zenon
<1> QED
  BY <1>1, <1>3, SMTT(30)

\* A new IOManager satisfies the invariant.
LEMMA InitHolds == Init => IInv
<1> SUFFICES ASSUME Init PROVE IInv
  OBVIOUS
<1> USE DEF Init
<1>1. Types
  <2>1. Idle \in Ops
    BY DEF Idle, Ops
  <2>2. (\E fd \in Fds : fd < InitSize) => 1 \in 0..MaxGen
    OBVIOUS
  <2> QED
    BY <2>1, <2>2, SMTT(30) DEF Types
<1>2. TableInv /\ OpInv
  BY SMTT(30) DEF TableInv, OpInv, Idle
<1>3. SlotInv
  BY SMTT(30) DEF SlotInv, SlotsSet, SlotsDiffer, SlotsWait, AddsWait, Once, Idle
<1>4. SetEvents = {}
  BY DEF SetEvents
<1> QED
  BY <1>1, <1>2, <1>3, <1>4, FS_EmptySet DEF IInv, Inv, CountInv

\* Every step preserves the invariant.
LEMMA NextKeeps == IInv /\ [Next]_vars => IInv'
<1> SUFFICES ASSUME IInv, [Next]_vars PROVE IInv'
  OBVIOUS
<1> USE DEF IInv
<1>0. Types /\ OpInv
  BY DEF Inv
<1>1. ASSUME NEW u \in Users, NEW fd \in Fds, NEW e \in Events, NEW w \in Waiters,
             addEvent(u, fd, e, w)
      PROVE  IInv'
  BY <1>1, AddEventKeeps, StillCounts, Zenon DEF addEvent, eventVars
<1>2. ASSUME NEW u \in Users, NEW fd \in Fds, NEW e \in Events,
             Find(u, fd, e, "del_at") \/ Find(u, fd, e, "cancel_at")
      PROVE  IInv'
  <2>1. Inv'
    BY <1>2, FindKeeps
  <2> QED
    BY <1>2, <2>1, StillCounts DEF Find, eventVars
<1>3. ASSUME NEW u \in Users, NEW fd \in Fds, Find(u, fd, None, "all_at")
      PROVE  IInv'
  <2>1. Inv'
    BY <1>3, FindKeeps, Zenon
  <2> QED
    BY <1>3, <2>1, StillCounts DEF Find, eventVars
<1>4. ASSUME NEW u \in Users, AddGrows(u) PROVE IInv'
  BY <1>4, AddGrowsKeeps, StillCounts, Zenon DEF AddGrows, eventVars
<1>5. ASSUME NEW u \in Users, AddAt(u) PROVE IInv'
  <2>1. Inv'
    BY <1>5, AddAtKeeps
  <2>2. op[u].ctx \in Ctxs /\ op[u].event \in Events /\ op[u].event \notin events[op[u].ctx]
    BY <1>0, <1>5 DEF AddAt, OpInv
  <2>3. CASE CtlWorks(op[u].fd, events[op[u].ctx] = {})
    BY <1>0, <1>5, <2>1, <2>2, <2>3, AddKeepsCount DEF AddAt
  <2>4. CASE ~CtlWorks(op[u].fd, events[op[u].ctx] = {})
    BY <1>5, <2>1, <2>4, StillCounts DEF AddAt, eventVars
  <2> QED
    BY <2>3, <2>4
<1>6. ASSUME NEW u \in Users, Refused(u) PROVE IInv'
  BY <1>6, RefusedKeeps, StillCounts, Zenon DEF Refused, eventVars
<1>7. ASSUME NEW u \in Users, delEvent(u) PROVE IInv'
  <2>1. Inv'
    BY <1>7, DelEventKeeps
  <2>2. op[u].ctx \in Ctxs /\ {op[u].event} \in SUBSET events[op[u].ctx]
    BY <1>0, <1>7 DEF delEvent, OpInv
  <2>3. /\ events' = [events EXCEPT ![op[u].ctx] = @ \ {op[u].event}]
        /\ m_pendingEventCount' = m_pendingEventCount - Cardinality({op[u].event})
    BY <1>7, FS_Singleton, Zenon DEF delEvent
  <2> QED
    BY <1>0, <2>1, <2>2, <2>3, RemoveKeepsCount, Zenon
<1>8. ASSUME NEW u \in Users, cancelEvent(u) PROVE IInv'
  <2>1. Inv'
    BY <1>8, CancelEventKeeps
  <2>2. op[u].ctx \in Ctxs /\ {op[u].event} \in SUBSET events[op[u].ctx]
    BY <1>0, <1>8 DEF cancelEvent, OpInv
  <2> QED
    BY <1>0, <1>8, <2>1, <2>2, RemoveKeepsCount, Zenon DEF cancelEvent, triggerEvents
<1>9. ASSUME NEW u \in Users, cancelAll(u) PROVE IInv'
  <2>1. Inv'
    BY <1>9, CancelAllKeeps
  <2>2. op[u].ctx \in Ctxs
    BY <1>0, <1>9, Zenon DEF cancelAll, OpInv
  <2> QED
    BY <1>0, <1>9, <2>1, <2>2, RemoveKeepsCount, Zenon DEF cancelAll, triggerEvents
<1>10. ASSUME NEW t \in Threads, NEW fd \in Fds, NEW es \in SUBSET (Events \cup {"ERR"}),
              EpollReturns(t, fd, es)
       PROVE  IInv'
  BY <1>10, EpollReturnsKeeps, StillCounts, Zenon DEF EpollReturns, eventVars
<1>11. ASSUME NEW t \in Threads, SkipStale(t) PROVE IInv'
  BY <1>11, SkipStaleKeeps, StillCounts, Zenon DEF SkipStale, eventVars
<1>12. ASSUME NEW t \in Threads, HandleEvent(t) PROVE IInv'
  <2>1. Inv'
    BY <1>12, HandleEventKeeps
  <2>2. got[t].ctx \in Ctxs
    BY <1>0, <1>12 DEF HandleEvent, Types
  <2> QED
    BY <1>0, <1>12, <2>1, <2>2, RemoveKeepsCount, Zenon DEF HandleEvent, triggerEvents
<1>13. ASSUME NEW fd \in Fds, CloseFd(fd) PROVE IInv'
  BY <1>13, CloseFdKeeps, StillCounts, Zenon DEF CloseFd
<1>14. CASE UNCHANGED vars
  <2>1. UNCHANGED <<tableVars, eventVars, op, got, resultVars>>
    BY <1>14 DEF vars
  <2>2. SlotInv'
    BY <2>1, QuietKeepsSlots DEF Inv, eventVars, resultVars
  <2>3. Types' /\ TableInv' /\ OpInv'
    BY <2>1, Zenon DEF Inv, Types, TableInv, OpInv, tableVars, eventVars, resultVars
  <2> QED
    BY <2>1, <2>2, <2>3, StillCounts DEF Inv, eventVars
<1>15. ASSUME NEW u \in Users, UserStep(u) PROVE IInv'
  BY <1>15, <1>1, <1>2, <1>3, <1>4, <1>5, <1>6, <1>7, <1>8, <1>9 DEF UserStep
<1> QED
  BY <1>10, <1>11, <1>12, <1>13, <1>14, <1>15 DEF Next

\* m_pendingEventCount is the number of events that are set, in every reachable state, for any
\* users, descriptors and growth of the table, also when descriptors are closed under their
\* events: addEvent, delEvent, cancelEvent, cancelAll and idle() count alike.
THEOREM PendingIsExact == Spec => []PendingExact
<1>1. IInv => PendingExact
  BY DEF IInv, CountInv, SetEvents, PendingExact
<1> QED
  BY InitHolds, NextKeeps, <1>1, PTL DEF Spec

\* Whoever waits for an event is scheduled at most once, never after delEvent, and its event
\* stays set until it is scheduled, deleted or refused: idle() and a cancelEvent of the same
\* event never both resume it, and never leave it behind.
THEOREM WakesOnce == Spec => []WakeOnce
<1>1. ASSUME IInv PROVE WakeOnce
  <2> SUFFICES ASSUME NEW w \in Waiters
               PROVE  /\ scheduled[w] <= 1
                      /\ w \in deleted => scheduled[w] = 0
                      /\ Cardinality({x \in Ctxs \X Events :
                                         waiter[x[1]][x[2]] = w /\ x[2] \in events[x[1]]}) =
                            IF Fresh(w) \/ scheduled[w] > 0 \/ w \in deleted \cup failed
                               \/ \E u \in Users : op[u].w = w
                            THEN 0 ELSE 1
    BY Zenon DEF WakeOnce
  <2> DEFINE S == {x \in Ctxs \X Events : waiter[x[1]][x[2]] = w /\ x[2] \in events[x[1]]}
             Gone == Fresh(w) \/ scheduled[w] > 0 \/ w \in deleted \cup failed
                     \/ \E u \in Users : op[u].w = w
  <2>0. w # None /\ scheduled[w] \in 0..2
    BY <1>1 DEF IInv, Inv, Types
  <2>1. scheduled[w] <= 1 /\ (w \in deleted => scheduled[w] = 0)
    BY <1>1 DEF IInv, Inv, SlotInv, Once
  <2>2. CASE Gone
    <3>1. \A c \in Ctxs, e \in Events : waiter[c][e] # w
      BY <1>1, <2>0, <2>2, SMTT(30) DEF IInv, Inv, SlotInv, SlotsWait, AddsWait, Nowhere, Fresh
    <3>2. S = {}
      BY <3>1, Zenon
    <3> QED
      BY <2>1, <2>2, <3>2, FS_EmptySet, Zenon
  <2>3. CASE ~Gone
    <3>1. PICK c \in Ctxs, e \in Events : waiter[c][e] = w
      BY <2>0, <2>3, SMTT(30) DEF Fresh
    <3>2. SlotsSet /\ SlotsDiffer
      BY <1>1 DEF IInv, Inv, SlotInv
    <3>3. S = {<<c, e>>}
      BY <3>1, <3>2, OneSlot
    <3> QED
      BY <2>1, <2>3, <3>3, FS_Singleton, Zenon
  <2> QED
    BY <2>2, <2>3
<1> QED
  BY InitHolds, NextKeeps, <1>1, PTL DEF Spec

-----------------------------------------------------------------------------
(***************************************************************************)
(* The kernel's table.  The contexts agree with it for every descriptor    *)
(* whose context was never replaced: it has one context for good, the      *)
(* first that was made for it.                                             *)
(***************************************************************************)
First(fd) == <<fd, 1>>

\* The table has the last context made for a descriptor, and whoever holds a context of a
\* descriptor that was not replaced holds the first.
FirstOnly ==
    /\ \A fd \in Fds : fd < size => table[fd] = made[fd]
    /\ \A u \in Users : op[u].pc \notin {"idle", "grow"} /\ Kept(op[u].fd) =>
          op[u].ctx = First(op[u].fd)
    /\ \A t \in Threads : got[t] # None /\ Kept(got[t].ctx[1]) => got[t].ctx = First(got[t].ctx[1])

\* A descriptor is registered as its context says; one that was closed under its events is
\* not registered again, because its context keeps them.
InStep ==
    /\ \A fd \in Fds : registered[fd] # None => registered[fd].ctx[1] = fd
    /\ \A c \in Ctxs : events[c] # {} /\ Kept(c[1]) => c = First(c[1])
    /\ \A fd \in Fds \ closed :
          Kept(fd) => registered[fd] = Registration(First(fd), events[First(fd)])
    /\ \A fd \in Fds \cap closed : Kept(fd) => registered[fd] = None /\ events[First(fd)] # {}
    /\ closed = {} /\ (\A fd \in Fds : Kept(fd)) => failed = {}

\* A first context is a context, and belongs to its descriptor.
LEMMA FirstContext ==
    ASSUME NEW fd \in Fds
    PROVE  First(fd) \in Ctxs /\ First(fd)[1] = fd /\ \A g \in Fds : First(g) = First(fd) => g = fd
BY DEF First, Ctxs

\* None stands for no registration.
LEMMA RegistrationIsNone ==
    ASSUME NEW c \in Ctxs, NEW mask \in SUBSET Events
    PROVE  Registration(c, mask) = None <=> mask = {}
<1>1. [ctx |-> c, mask |-> mask] \in Registrations
  BY DEF Registrations
<1> QED
  BY <1>1, NoRegistration, Zenon DEF Registration

\* What epoll_ctl says of a descriptor that was not closed: MOD and DEL work if an event is
\* set, ADD if none is.
LEMMA CtlSees ==
    ASSUME Types, InStep, NEW fd \in Fds \ closed, Kept(fd)
    PROVE  registered[fd] = None <=> events[First(fd)] = {}
<1>1. First(fd) \in Ctxs /\ events[First(fd)] \in SUBSET Events
  BY FirstContext DEF Types
<1>2. registered[fd] = Registration(First(fd), events[First(fd)])
  BY Zenon DEF InStep
<1> QED
  BY <1>1, <1>2, RegistrationIsNone, Zenon

\* addEvent, delEvent, cancelEvent, cancelAll and idle() change the events of a context and
\* tell the kernel so.
LEMMA UpdateKeepsStep ==
    ASSUME Types, InStep, NEW fd \in Fds, Kept(fd), NEW es \in SUBSET Events,
           registered[fd] = None <=> events[First(fd)] = {},
           events' = [events EXCEPT ![First(fd)] = es],
           registered' = [registered EXCEPT ![fd] = Registration(First(fd), es)],
           UNCHANGED <<made, failed, closed>>
    PROVE  InStep'
<1>0. \A g \in Fds : Kept(g)' <=> Kept(g)
  BY DEF Kept
<1>1. fd \notin closed
  BY DEF InStep
<1>2. First(fd) \in Ctxs /\ First(First(fd)[1]) = First(fd)
  BY FirstContext
<1>3. events'[First(fd)] = es /\ \A c \in Ctxs : c # First(fd) => events'[c] = events[c]
  BY <1>2, Zenon DEF Types
<1>4. /\ registered'[fd] = Registration(First(fd), es)
      /\ \A g \in Fds : g # fd => registered'[g] = registered[g]
  BY Zenon DEF Types
<1>5. \A g \in Fds : g # fd => First(g) \in Ctxs /\ First(g) # First(fd)
  BY FirstContext
<1>6. \A c \in Ctxs : events'[c] # {} /\ Kept(c[1])' => c = First(c[1])
  <2>1. \A c \in Ctxs : c[1] \in Fds
    BY DEF Ctxs
  <2> QED
    BY <1>0, <1>2, <1>3, <2>1, Zenon DEF InStep
<1>7. \A g \in Fds \ closed :
         Kept(g)' => registered'[g] = Registration(First(g), events'[First(g)])
  BY <1>0, <1>3, <1>4, <1>5, Zenon DEF InStep
<1>8. \A g \in Fds \cap closed : Kept(g)' => registered'[g] = None /\ events'[First(g)] # {}
  BY <1>0, <1>1, <1>3, <1>4, <1>5, Zenon DEF InStep
<1>9. \A g \in Fds : registered'[g] # None => registered'[g].ctx[1] = g
  <2>1. registered'[fd] # None => registered'[fd].ctx = First(fd)
    BY <1>4, SMTT(30) DEF Registration
  <2> QED
    BY <1>4, <2>1, FirstContext, Zenon DEF InStep
<1>10. closed' = {} /\ (\A g \in Fds : Kept(g)') => failed' = {}
  BY <1>0, Zenon DEF InStep
<1> QED
  BY <1>6, <1>7, <1>8, <1>9, <1>10, Zenon DEF InStep, Registration

\* A step that leaves events and registrations alone.
LEMMA QuietKeepsStep ==
    ASSUME InStep, UNCHANGED <<events, registered, failed, closed>>,
           \A fd \in Fds : Kept(fd)' => Kept(fd)
    PROVE  InStep'
<1>1. \A c \in Ctxs : c[1] \in Fds
  BY DEF Ctxs
<1> QED
  BY <1>1, Zenon DEF InStep, Registration

\* A step for a descriptor whose context was replaced concerns no other.
LEMMA OtherKeepsStep ==
    ASSUME InStep, NEW fd \in Fds, ~Kept(fd),
           \A c \in Ctxs : c[1] # fd => events'[c] = events[c],
           \A g \in Fds : g # fd => registered'[g] = registered[g],
           registered'[fd] # None => registered'[fd].ctx[1] = fd,
           \A g \in Fds : g # fd => (g \in closed' <=> g \in closed),
           UNCHANGED made
    PROVE  InStep'
<1>0. \A g \in Fds : Kept(g)' <=> Kept(g)
  BY DEF Kept
<1>1. \A c \in Ctxs : c[1] \in Fds
  BY DEF Ctxs
<1>2. \A g \in Fds : First(g) \in Ctxs /\ First(g)[1] = g
  BY FirstContext
<1>3. \A g \in Fds : registered'[g] # None => registered'[g].ctx[1] = g
  BY Zenon DEF InStep
<1>4. \A c \in Ctxs : events'[c] # {} /\ Kept(c[1])' => c = First(c[1])
  BY <1>0, <1>1, Zenon DEF InStep
<1>5. ASSUME NEW g \in Fds, Kept(g)'
      PROVE  /\ g \notin closed' => registered'[g] = Registration(First(g), events'[First(g)])
             /\ g \in closed' => registered'[g] = None /\ events'[First(g)] # {}
  <2>1. g # fd /\ Kept(g)
    BY <1>0, <1>5
  <2>2. /\ registered'[g] = registered[g] /\ (g \in closed' <=> g \in closed)
        /\ events'[First(g)] = events[First(g)]
    BY <1>2, <2>1
  <2> QED
    BY <2>1, <2>2, Zenon DEF InStep
<1> QED
  BY <1>0, <1>3, <1>4, <1>5, Zenon DEF InStep, Registration

\* The events of a context are changed and its descriptor is registered accordingly.
LEMMA ChangeKeepsStep ==
    ASSUME Types, InStep, NEW fd \in Fds, NEW c \in Ctxs, c[1] = fd, Kept(fd) => c = First(fd),
           NEW es \in SUBSET Events,
           registered[fd] = None <=> events[c] = {},
           events' = [events EXCEPT ![c] = es],
           registered' = [registered EXCEPT ![fd] = Registration(c, es)],
           UNCHANGED <<made, failed, closed>>
    PROVE  InStep'
<1>1. CASE Kept(fd)
  BY <1>1, UpdateKeepsStep, Zenon
<1>2. CASE ~Kept(fd)
  <2>1. \A d \in Ctxs : d[1] # fd => events'[d] = events[d]
    BY Zenon DEF Types
  <2>2. /\ registered'[fd] = Registration(c, es)
        /\ \A g \in Fds : g # fd => registered'[g] = registered[g]
    BY Zenon DEF Types
  <2>3. registered'[fd] # None => registered'[fd].ctx = c
    BY <2>2, SMTT(30) DEF Registration
  <2> QED
    BY <1>2, <2>1, <2>2, <2>3, OtherKeepsStep, Zenon
<1> QED
  BY <1>1, <1>2

KInv == IInv /\ FirstOnly /\ InStep

\* As long as no context is made, none is replaced.
LEMMA SameKept == ASSUME UNCHANGED made PROVE \A fd : Kept(fd)' <=> Kept(fd)
BY DEF Kept

\* Users and idle threads keep first contexts as long as the table has them.
LEMMA HoldersKeepFirst ==
    ASSUME FirstOnly, UNCHANGED <<size, table, made>>,
           \A u \in Users : op'[u] = op[u] \/ op'[u].pc = "idle",
           \A t \in Threads : got'[t] = got[t] \/ got'[t] = None
    PROVE  FirstOnly'
BY Zenon DEF FirstOnly, First, Kept

\* Nothing is registered at the start.
LEMMA InitInStep == Init => FirstOnly /\ InStep
<1> SUFFICES ASSUME Init PROVE FirstOnly /\ InStep
  OBVIOUS
<1>1. \A fd \in Fds : First(fd) \in Ctxs
  BY FirstContext
<1>2. FirstOnly
  <2>1. \A fd \in Fds : table[fd] = made[fd]
    BY DEF Init
  <2> QED
    BY <2>1 DEF Init, FirstOnly, Idle
<1>3. InStep
  BY <1>1, Zenon DEF Init, InStep, Registration
<1> QED
  BY <1>2, <1>3

\* The context in the table is the first, if it was not replaced.
LEMMA FindsFirst ==
    ASSUME IInv, FirstOnly, NEW fd \in Fds, InTable(fd), Kept(fd)
    PROVE  Context(fd) = First(fd)
<1>1. table[fd] >= 1 /\ table[fd] = made[fd] /\ made[fd] <= 1 /\ table[fd] \in Nat
  <2>1. table[fd] >= 1 /\ table[fd] = made[fd] /\ made[fd] <= 1
    BY Zenon DEF IInv, Inv, TableInv, FirstOnly, InTable, Kept
  <2>2. table[fd] \in 0..MaxGen
    BY Zenon DEF IInv, Inv, Types
  <2> QED
    BY <2>1, <2>2, SMTT(30)
<1> QED
  BY <1>1, SMTT(30) DEF Context, First

\* addEvent and the growth of the table.
LEMMA AddEventInStep ==
    ASSUME IInv, FirstOnly, InStep, NEW u \in Users, NEW fd \in Fds, NEW e, NEW w,
           addEvent(u, fd, e, w)
    PROVE  FirstOnly' /\ InStep'
<1>0. Types
  BY DEF IInv, Inv
<1>1. /\ UNCHANGED <<size, table, made, events, registered, failed, closed, got>>
      /\ \A v \in Users : v # u => op'[v] = op[v]
      /\ InTable(fd) =>
            op'[u] = [pc |-> "add_at", fd |-> fd, event |-> e, ctx |-> Context(fd), w |-> w]
      /\ ~InTable(fd) =>
            op'[u] = [pc |-> "grow", fd |-> fd, event |-> e, ctx |-> None, w |-> w]
  BY <1>0 DEF addEvent, tableVars, eventVars, resultVars, Types
<1>2. InTable(fd) /\ Kept(fd) => Context(fd) = First(fd)
  BY FindsFirst
<1>3. op'[u].pc \notin {"idle", "grow"} /\ Kept(op'[u].fd) => op'[u].ctx = First(op'[u].fd)
  <2>1. CASE InTable(fd)
    <3>1. op'[u] = [pc |-> "add_at", fd |-> fd, event |-> e, ctx |-> Context(fd), w |-> w]
      BY <1>1, <2>1, Zenon
    <3>2. op'[u].fd = fd /\ op'[u].ctx = Context(fd)
      BY <3>1
    <3> QED
      BY <1>2, <2>1, <3>2, Zenon
  <2>2. CASE ~InTable(fd)
    <3>1. op'[u] = [pc |-> "grow", fd |-> fd, event |-> e, ctx |-> None, w |-> w]
      BY <1>1, <2>2, Zenon
    <3> QED
      BY <3>1
  <2> QED
    BY <2>1, <2>2
<1>4. FirstOnly'
  BY <1>1, <1>3, Zenon DEF FirstOnly, First, Kept
<1> QED
  BY <1>1, <1>4, SameKept, QuietKeepsStep, Zenon

\* A call finds the first context of its descriptor.
LEMMA FindInStep ==
    ASSUME IInv, FirstOnly, InStep, NEW u \in Users, NEW fd \in Fds, NEW e, NEW place,
           Find(u, fd, e, place)
    PROVE  FirstOnly' /\ InStep'
<1>0. Types
  BY DEF IInv, Inv
<1>1. /\ UNCHANGED <<size, table, made, events, registered, failed, closed, got>>
      /\ \A v \in Users : v # u => op'[v] = op[v]
      /\ op'[u] = [pc |-> place, fd |-> fd, event |-> e, ctx |-> Context(fd), w |-> None]
  BY <1>0 DEF Find, tableVars, eventVars, resultVars, Types
<1>2. Kept(fd) => Context(fd) = First(fd)
  BY FindsFirst DEF Find
<1>3. Kept(op'[u].fd) => op'[u].ctx = First(op'[u].fd)
  <2>1. op'[u].fd = fd /\ op'[u].ctx = Context(fd)
    BY <1>1
  <2> QED
    BY <1>2, <2>1, Zenon
<1>4. FirstOnly'
  BY <1>1, <1>3, Zenon DEF FirstOnly, First, Kept
<1> QED
  BY <1>1, <1>4, SameKept, QuietKeepsStep, Zenon

\* contextResize replaces contexts, but none of a descriptor that has its first one.
LEMMA AddGrowsInStep ==
    ASSUME IInv, FirstOnly, InStep, NEW u \in Users, AddGrows(u)
    PROVE  FirstOnly' /\ InStep'
<1> DEFINE n == (3 * op[u].fd) \div 2
<1>0. Types /\ OpInv /\ Types' /\ OpInv' /\ TableInv /\ TableInv'
  BY AddGrowsKeeps DEF IInv, Inv
<1>1. /\ UNCHANGED <<events, registered, failed, closed, got>>
      /\ \A v \in Users : v # u => op'[v] = op[v]
      /\ op'[u] = [op[u] EXCEPT !.pc = "add_at", !.ctx = <<op[u].fd, table'[op[u].fd]>>]
  BY <1>0, Zenon DEF AddGrows, eventVars, resultVars, Types
<1>2. /\ n \in Nat /\ op[u].fd \in Fds /\ op[u].fd < n
  BY <1>0, SMTT(30) DEF AddGrows, OpInv
<1>3. /\ size' = n
      /\ \A fd \in Fds : made'[fd] = IF size <= fd /\ fd < n THEN made[fd] + 1 ELSE made[fd]
      /\ \A fd \in Fds : table'[fd] = IF fd >= n THEN 0 ELSE
                                      IF fd >= size THEN made[fd] + 1 ELSE table[fd]
  BY Zenon DEF AddGrows, contextResize
<1>4. ASSUME NEW fd \in Fds
      PROVE  (fd < size' => table'[fd] = made'[fd]) /\ (made'[fd] <= 1 => made[fd] <= 1)
  <2>1. fd \in Nat /\ size \in Nat /\ made[fd] \in Nat
    BY <1>0, SMTT(30) DEF Types
  <2>2. fd < size => table[fd] = made[fd]
    BY Zenon DEF FirstOnly
  <2>3. /\ made'[fd] = IF size <= fd /\ fd < n THEN made[fd] + 1 ELSE made[fd]
        /\ table'[fd] = IF fd >= n THEN 0 ELSE IF fd >= size THEN made[fd] + 1 ELSE table[fd]
        /\ size' = n /\ n \in Nat
    BY <1>2, <1>3, Zenon
  <2> HIDE DEF n
  <2> QED
    BY <2>1, <2>2, <2>3, SMTT(30)
<1>5. \A fd \in Fds : Kept(fd)' => Kept(fd)
  BY <1>4 DEF Kept
<1>6. op'[u].fd = op[u].fd /\ (made'[op[u].fd] <= 1 => op'[u].ctx = First(op[u].fd))
  <2>1. op[u] \in Ops
    BY <1>0 DEF Types
  <2>2. op'[u].fd = op[u].fd /\ op'[u].ctx = <<op[u].fd, table'[op[u].fd]>>
    BY <1>1, <2>1, ZenonT(30) DEF Ops
  <2>3. /\ table'[op[u].fd] = made'[op[u].fd] /\ table'[op[u].fd] >= 1
        /\ table'[op[u].fd] \in Nat
    <3>1. op[u].fd < size'
      BY <1>2, <1>3, Zenon
    <3> QED
      <4>1. table'[op[u].fd] = made'[op[u].fd]
        BY <1>2, <1>4, <3>1, Zenon
      <4>2. table'[op[u].fd] >= 1
        BY <1>0, <1>2, <3>1, Zenon DEF TableInv
      <4>3. table'[op[u].fd] \in 0..MaxGen
        BY <1>0, <1>2, Zenon DEF Types
      <4> QED
        BY <4>1, <4>2, <4>3, SMTT(30)
  <2>4. made'[op[u].fd] <= 1 => table'[op[u].fd] = 1
    BY <2>3, SMTT(30)
  <2> QED
    BY <2>2, <2>4, Zenon DEF First
<1>7. FirstOnly'
  <2>1. \A fd \in Fds : fd < size' => table'[fd] = made'[fd]
    BY <1>4
  <2>2. ASSUME NEW v \in Users, op'[v].pc \notin {"idle", "grow"}, made'[op'[v].fd] <= 1
        PROVE  op'[v].ctx = First(op'[v].fd)
    <3>1. CASE v = u
      BY <1>6, <2>2, <3>1, Zenon
    <3>2. CASE v # u
      <4>1. op'[v] = op[v]
        BY <1>1, <3>2
      <4>2. op[v].fd \in Fds
        BY <1>0, <2>2, <4>1 DEF OpInv
      <4>3. Kept(op[v].fd)
        BY <1>4, <2>2, <4>1, <4>2, Zenon DEF Kept
      <4> QED
        BY <2>2, <4>1, <4>3, Zenon DEF FirstOnly
    <3> QED
      BY <3>1, <3>2
  <2>3. ASSUME NEW t \in Threads, got'[t] # None, made'[got'[t].ctx[1]] <= 1
        PROVE  got'[t].ctx = First(got'[t].ctx[1])
    <3>1. got'[t] = got[t] /\ got[t].ctx[1] \in Fds
      BY <1>0, <1>1, <2>3 DEF Types, Ctxs
    <3>2. Kept(got[t].ctx[1])
      BY <1>4, <2>3, <3>1, Zenon DEF Kept
    <3> QED
      BY <2>3, <3>1, <3>2, Zenon DEF FirstOnly
  <2> QED
    BY <2>1, <2>2, <2>3, Zenon DEF FirstOnly, First, Kept
<1> QED
  BY <1>1, <1>5, <1>7, QuietKeepsStep

\* addEvent under the context's mutex: epoll_ctl refuses it only on a closed descriptor, or on
\* one whose context was replaced.
LEMMA AddAtInStep ==
    ASSUME IInv, FirstOnly, InStep, NEW u \in Users, AddAt(u)
    PROVE  FirstOnly' /\ InStep'
<1> DEFINE fd == op[u].fd
           c == op[u].ctx
           es == events[c] \cup {op[u].event}
<1>0. Types /\ OpInv
  BY DEF IInv, Inv
<1>1. /\ fd \in Fds /\ c \in Ctxs /\ c[1] = fd /\ op[u].event \in Events
      /\ Kept(fd) => c = First(fd)
  BY <1>0, Zenon DEF AddAt, OpInv, FirstOnly
<1>2. /\ UNCHANGED <<size, table, made, got, closed>>
      /\ \A v \in Users : op'[v] = op[v] \/ op'[v].pc = "idle"
  BY <1>0 DEF AddAt, tableVars, Types, Idle
<1>3. FirstOnly'
  BY <1>2, HoldersKeepFirst
<1>4. CASE CtlWorks(fd, events[c] = {})
  <2>1. /\ registered' = [registered EXCEPT ![fd] = Registration(c, es)]
        /\ events' = [events EXCEPT ![c] = es]
        /\ UNCHANGED <<failed, closed>>
    BY <1>1, <1>4, Zenon DEF AddAt
  <2>2. es \in SUBSET Events
    BY <1>0, <1>1 DEF Types
  <2> HIDE DEF es
  <2> QED
    BY <1>0, <1>1, <1>2, <1>3, <1>4, <2>1, <2>2, ChangeKeepsStep, Zenon DEF CtlWorks
<1>5. CASE ~CtlWorks(fd, events[c] = {})
  <2>1. fd \in closed \/ ~Kept(fd)
    BY <1>0, <1>1, <1>5, CtlSees, Zenon DEF CtlWorks
  <2>2. UNCHANGED <<events, registered, closed>>
    BY <1>1, <1>5, Zenon DEF AddAt, eventVars
  <2>3. CASE ~Kept(fd)
    <3>1. registered'[fd] # None => registered'[fd].ctx[1] = fd
      BY <1>1, <2>2, Zenon DEF InStep
    <3> QED
      BY <1>1, <1>2, <1>3, <2>2, <2>3, <3>1, OtherKeepsStep, Zenon
  <2>4. CASE fd \in closed
    <3>1. closed' # {}
      BY <2>2, <2>4
    <3> QED
      BY <1>2, <1>3, <2>2, <3>1, Zenon DEF InStep, Registration, Kept
  <2> QED
    BY <2>1, <2>3, <2>4
<1> QED
  BY <1>4, <1>5

\* delEvent, cancelEvent and cancelAll.
LEMMA RemoveInStep ==
    ASSUME IInv, FirstOnly, InStep, NEW u \in Users, NEW es \in SUBSET Events,
           op[u].pc \in {"del_at", "cancel_at", "all_at"},
           events[op[u].ctx] # {}, CtlWorks(op[u].fd, FALSE),
           op' = [op EXCEPT ![u] = Idle],
           events' = [events EXCEPT ![op[u].ctx] = @ \ es],
           registered' = [registered EXCEPT ![op[u].fd] =
                             Registration(op[u].ctx, events[op[u].ctx] \ es)],
           UNCHANGED <<size, table, made, got, failed, closed>>
    PROVE  FirstOnly' /\ InStep'
<1>0. Types /\ OpInv
  BY DEF IInv, Inv
<1>1. op[u].fd \in Fds /\ op[u].ctx \in Ctxs /\ op[u].ctx[1] = op[u].fd
  BY <1>0, ZenonT(30) DEF OpInv
<1>2. Kept(op[u].fd) => op[u].ctx = First(op[u].fd)
  BY <1>0, ZenonT(30) DEF OpInv, FirstOnly
<1>3. \A v \in Users : op'[v] = op[v] \/ op'[v].pc = "idle"
  BY <1>0 DEF Types, Idle
<1>4. FirstOnly'
  BY <1>3, HoldersKeepFirst
<1>5. events[op[u].ctx] \in SUBSET Events /\ registered[op[u].fd] # None
  BY <1>0, <1>1, Zenon DEF CtlWorks, Types
<1>6. events[op[u].ctx] \ es \in SUBSET Events
  BY <1>5, Zenon
<1>7. registered[op[u].fd] = None <=> events[op[u].ctx] = {}
  BY <1>5, Zenon
<1>8. UNCHANGED <<made, failed, closed>>
  OBVIOUS
<1>9. InStep'
  BY <1>0, <1>1, <1>2, <1>6, <1>7, <1>8, ChangeKeepsStep, Zenon
<1> QED
  BY <1>4, <1>9

\* idle(): what epoll_wait reports belongs to the context that is registered.
LEMMA EpollReturnsInStep ==
    ASSUME IInv, FirstOnly, InStep, NEW t \in Threads, NEW fd \in Fds, NEW es,
           EpollReturns(t, fd, es)
    PROVE  FirstOnly' /\ InStep'
<1>0. Types
  BY DEF IInv, Inv
<1>1. /\ UNCHANGED <<size, table, made, op, events, registered, failed, closed>>
      /\ got'[t] = [ctx |-> registered[fd].ctx, events |-> es]
      /\ \A s \in Threads : s # t => got'[s] = got[s]
  BY <1>0, Zenon DEF EpollReturns, tableVars, eventVars, resultVars, Types
<1>2. registered[fd] # None
  BY DEF EpollReturns
<1>3. got'[t].ctx = registered[fd].ctx /\ got'[t].ctx[1] = fd
  <2>1. registered[fd].ctx[1] = fd
    BY <1>2, Zenon DEF InStep
  <2> QED
    BY <1>1, <2>1, SMTT(30)
<1>4. Kept(fd) => registered[fd].ctx = First(fd)
  <2>1. Kept(fd) => registered[fd] = Registration(First(fd), events[First(fd)])
    BY <1>2, Zenon DEF InStep
  <2> QED
    BY <1>2, <2>1, SMTT(30) DEF Registration
<1>5. Kept(got'[t].ctx[1]) => got'[t].ctx = First(got'[t].ctx[1])
  BY <1>3, <1>4, Zenon
<1>6. FirstOnly'
  BY <1>1, <1>5, Zenon DEF FirstOnly, First, Kept
<1> QED
  BY <1>1, <1>6, SameKept, QuietKeepsStep, Zenon

\* idle() re-registers what the context still holds.
LEMMA HandleEventInStep ==
    ASSUME IInv, FirstOnly, InStep, NEW t \in Threads, HandleEvent(t)
    PROVE  FirstOnly' /\ InStep'
<1> DEFINE c == got[t].ctx
           fd == c[1]
           es == events[c] \ RealEvents(t)
<1>0. Types
  BY DEF IInv, Inv
<1>1. got[t] # None /\ c \in Ctxs /\ fd \in Fds
  BY <1>0 DEF HandleEvent, Types, Ctxs
<1>2. Kept(fd) => c = First(fd)
  BY <1>1, Zenon DEF FirstOnly
<1>3. events[c] \in SUBSET Events /\ events[c] # {}
  BY <1>0, <1>1 DEF HandleEvent, Types
<1>4. /\ events' = [events EXCEPT ![c] = es]
      /\ registered' = [registered EXCEPT ![fd] = Registration(c, es)]
      /\ registered[fd] # None
      /\ UNCHANGED <<size, table, made, op, failed, closed>>
      /\ \A s \in Threads : got'[s] = got[s] \/ got'[s] = None
  BY <1>0, <1>1, <1>3, Zenon DEF HandleEvent, triggerEvents, CtlWorks, tableVars, Types
<1>5. FirstOnly'
  BY <1>4, HoldersKeepFirst
<1>6. es \in SUBSET Events
  BY <1>3
<1> HIDE DEF es
<1> QED
  BY <1>0, <1>1, <1>2, <1>3, <1>4, <1>5, <1>6, ChangeKeepsStep, Zenon

\* close() leaves the events of the descriptor behind.
LEMMA CloseFdInStep ==
    ASSUME IInv, FirstOnly, InStep, NEW fd \in Fds, CloseFd(fd)
    PROVE  FirstOnly' /\ InStep'
<1>0. Types
  BY DEF IInv, Inv
<1>1. /\ UNCHANGED <<size, table, made, op, got, events, failed>>
      /\ closed' = closed \cup {fd} /\ registered[fd] # None
      /\ registered'[fd] = None
      /\ \A g \in Fds : g # fd => registered'[g] = registered[g]
  BY <1>0, Zenon DEF CloseFd, tableVars, Types
<1>2. FirstOnly'
  BY <1>1, HoldersKeepFirst, Zenon
<1>3. CASE ~Kept(fd)
  BY <1>1, <1>2, <1>3, OtherKeepsStep, Zenon
<1>4. CASE Kept(fd)
  <2>0. \A g \in Fds : Kept(g)' <=> Kept(g)
    BY <1>1 DEF Kept
  <2>1. fd \notin closed
    BY <1>1, <1>4, Zenon DEF InStep
  <2>2. events[First(fd)] # {}
    BY <1>0, <1>1, <1>4, <2>1, CtlSees
  <2>3. ASSUME NEW g \in Fds, registered'[g] # None PROVE registered'[g].ctx[1] = g
    <3>1. registered'[g] = registered[g]
      BY <1>1, <2>3
    <3> QED
      BY <2>3, <3>1, Zenon DEF InStep
  <2>4. \A c \in Ctxs : events'[c] # {} /\ Kept(c[1])' => c = First(c[1])
    <3>1. \A c \in Ctxs : c[1] \in Fds
      BY DEF Ctxs
    <3> QED
      BY <1>1, <2>0, <3>1, Zenon DEF InStep
  <2>5. ASSUME NEW g \in Fds, Kept(g)'
        PROVE  /\ g \notin closed' => registered'[g] = Registration(First(g), events'[First(g)])
               /\ g \in closed' => registered'[g] = None /\ events'[First(g)] # {}
    <3>1. CASE g = fd
      BY <1>1, <2>2, <3>1, Zenon
    <3>2. CASE g # fd
      BY <1>1, <2>0, <2>5, <3>2, Zenon DEF InStep
    <3> QED
      BY <3>1, <3>2
  <2>6. closed' # {}
    BY <1>1
  <2> QED
    BY <1>2, <2>3, <2>4, <2>5, <2>6, Zenon DEF InStep, Registration
<1> QED
  BY <1>3, <1>4

\* Every step preserves KInv.
LEMMA NextInStep == KInv /\ [Next]_vars => KInv'
<1> SUFFICES ASSUME KInv, [Next]_vars PROVE KInv'
  OBVIOUS
<1>0. IInv /\ FirstOnly /\ InStep /\ Types /\ OpInv
  BY DEF KInv, IInv, Inv
<1>i. IInv'
  BY <1>0, NextKeeps
<1> SUFFICES FirstOnly' /\ InStep'
  BY <1>i DEF KInv
<1>1. ASSUME NEW u \in Users, UserStep(u) PROVE FirstOnly' /\ InStep'
  <2>1. ASSUME NEW fd \in Fds, NEW e \in Events, NEW w \in Waiters, addEvent(u, fd, e, w)
        PROVE  FirstOnly' /\ InStep'
    BY <1>0, <2>1, AddEventInStep
  <2>2. ASSUME NEW fd \in Fds, NEW e, NEW place, Find(u, fd, e, place)
        PROVE  FirstOnly' /\ InStep'
    BY <1>0, <2>2, FindInStep
  <2>3. CASE AddGrows(u)
    BY <1>0, <2>3, AddGrowsInStep
  <2>4. CASE AddAt(u)
    BY <1>0, <2>4, AddAtInStep
  <2>5. CASE Refused(u)
    <3>1. /\ UNCHANGED <<size, table, made, got, events, registered, failed, closed>>
          /\ \A v \in Users : op'[v] = op[v] \/ op'[v].pc = "idle"
      BY <1>0, <2>5 DEF Refused, tableVars, eventVars, resultVars, Types, Idle
    <3> QED
      BY <1>0, <3>1, HoldersKeepFirst, SameKept, QuietKeepsStep, Zenon
  <2>6. CASE delEvent(u)
    <3>1. /\ op[u].pc \in {"del_at", "cancel_at", "all_at"} /\ op[u].event \in Events
          /\ events[op[u].ctx] # {}
      BY <1>0, <2>6 DEF delEvent, OpInv
    <3>2. {op[u].event} \in SUBSET Events
      BY <3>1
    <3> QED
      BY <1>0, <2>6, <3>1, <3>2, RemoveInStep, Zenon DEF delEvent, tableVars
  <2>7. CASE cancelEvent(u)
    <3>1. /\ op[u].pc \in {"del_at", "cancel_at", "all_at"} /\ op[u].event \in Events
          /\ events[op[u].ctx] # {}
      BY <1>0, <2>7 DEF cancelEvent, OpInv
    <3>2. {op[u].event} \in SUBSET Events
      BY <3>1
    <3> QED
      BY <1>0, <2>7, <3>1, <3>2, RemoveInStep, Zenon DEF cancelEvent, triggerEvents, tableVars
  <2>8. CASE cancelAll(u)
    <3> DEFINE es == events[op[u].ctx]
    <3>1. op[u].pc \in {"del_at", "cancel_at", "all_at"} /\ es # {} /\ es \in SUBSET Events
      BY <1>0, <2>8 DEF cancelAll, OpInv, Types
    <3>2. Registration(op[u].ctx, es \ es) = None
      BY DEF Registration
    <3> QED
      BY <1>0, <2>8, <3>1, <3>2, RemoveInStep, Zenon DEF cancelAll, triggerEvents, tableVars
  <2> QED
    BY <1>1, <2>1, <2>2, <2>3, <2>4, <2>5, <2>6, <2>7, <2>8, Zenon DEF UserStep
<1>2. ASSUME NEW t \in Threads, NEW fd \in Fds, NEW es, EpollReturns(t, fd, es)
      PROVE  FirstOnly' /\ InStep'
  BY <1>0, <1>2, EpollReturnsInStep
<1>3. ASSUME NEW t \in Threads, SkipStale(t) PROVE FirstOnly' /\ InStep'
  <2>1. /\ UNCHANGED <<size, table, made, op, events, registered, failed, closed>>
        /\ \A s \in Threads : got'[s] = got[s] \/ got'[s] = None
    BY <1>0, <1>3, Zenon DEF SkipStale, tableVars, eventVars, resultVars, Types
  <2> QED
    BY <1>0, <2>1, HoldersKeepFirst, SameKept, QuietKeepsStep, Zenon
<1>4. ASSUME NEW t \in Threads, HandleEvent(t) PROVE FirstOnly' /\ InStep'
  BY <1>0, <1>4, HandleEventInStep
<1>5. ASSUME NEW fd \in Fds, CloseFd(fd) PROVE FirstOnly' /\ InStep'
  BY <1>0, <1>5, CloseFdInStep
<1>6. CASE UNCHANGED vars
  BY <1>0, <1>6, HoldersKeepFirst, SameKept, QuietKeepsStep, Zenon
     DEF vars, tableVars, eventVars, resultVars
<1> QED
  BY <1>1, <1>2, <1>3, <1>4, <1>5, <1>6, Zenon DEF Next

\* What InStep says in the terms of KernelAgrees.
LEMMA InStepAgrees == KInv => KernelAgrees
<1> SUFFICES ASSUME KInv PROVE KernelAgrees
  OBVIOUS
<1>0. Types /\ InStep
  BY DEF KInv, IInv, Inv
<1>1. ASSUME NEW c \in Ctxs, events[c] # {}, Kept(c[1]), c[1] \notin closed
      PROVE  registered[c[1]] = [ctx |-> c, mask |-> events[c]]
  <2>1. c[1] \in Fds
    BY DEF Ctxs
  <2>2. c = First(c[1])
    BY <1>0, <1>1, Zenon DEF InStep
  <2>3. registered[c[1]] = Registration(c, events[c])
    BY <1>0, <1>1, <2>1, <2>2, Zenon DEF InStep
  <2> QED
    BY <1>1, <2>3, Zenon DEF Registration
<1>2. ASSUME NEW fd \in Fds, Kept(fd), registered[fd] # None
      PROVE  registered[fd].mask = events[registered[fd].ctx] /\ registered[fd].mask # {}
  <2>1. registered[fd] = Registration(First(fd), events[First(fd)])
    BY <1>0, <1>2, Zenon DEF InStep
  <2> QED
    BY <1>2, <2>1, SMTT(30) DEF Registration
<1>3. closed = {} /\ (\A fd \in Fds : Kept(fd)) => failed = {}
  BY <1>0, Zenon DEF InStep
<1> QED
  BY <1>1, <1>2, <1>3, Zenon DEF KernelAgrees

\* The kernel's table and the contexts agree for every descriptor that is not closed under its
\* events and whose context no contextResize dropped, whatever happens to the others: addEvent
\* never confuses ADD and MOD there, and fails nowhere as long as there is no such descriptor.
THEOREM KernelInStep == Spec => []KernelAgrees
<1>1. Init => KInv
  BY InitHolds, InitInStep DEF KInv
<1> QED
  BY <1>1, NextInStep, InStepAgrees, PTL DEF Spec

-----------------------------------------------------------------------------
(***************************************************************************)
(* Two cases in which no context is ever replaced.  A user that found the  *)
(* table too small resizes it without looking again, so in general one may *)
(* be.                                                                     *)
(***************************************************************************)
NoneReplaced == \A fd \in Fds : Kept(fd)

\* The descriptors in the table are those for which a context was made, once.
NoneDropped == \A fd \in Fds : made[fd] = (IF fd < size THEN 1 ELSE 0)

\* Only contextResize changes the table, and a user goes there when it is too small.
LEMMA TableSteps ==
    ASSUME Types, OpInv, Next
    PROVE  \/ \E u \in Users : AddGrows(u)
           \/ /\ UNCHANGED <<size, table, made>>
              /\ \A u \in Users : op'[u].pc = "grow" =>
                    \/ op[u].pc = "grow" /\ op'[u].fd = op[u].fd
                    \/ op'[u].fd >= size
<1> DEFINE Stays == /\ UNCHANGED <<size, table, made>>
                    /\ \A u \in Users : op'[u].pc = "grow" =>
                          \/ op[u].pc = "grow" /\ op'[u].fd = op[u].fd
                          \/ op'[u].fd >= size
<1>0. ASSUME NEW u \in Users, op' = [op EXCEPT ![u] = Idle], UNCHANGED tableVars
      PROVE  Stays
  BY <1>0 DEF Types, tableVars, Idle
<1>1. ASSUME NEW u \in Users, UserStep(u), ~AddGrows(u) PROVE Stays
  <2>1. ASSUME NEW fd \in Fds, NEW e \in Events, NEW w \in Waiters, addEvent(u, fd, e, w)
        PROVE  Stays
    <3>1. /\ UNCHANGED <<size, table, made>>
          /\ \A v \in Users : v # u => op'[v] = op[v]
          /\ op'[u] = IF InTable(fd)
                      THEN [pc |-> "add_at", fd |-> fd, event |-> e, ctx |-> Context(fd), w |-> w]
                      ELSE [pc |-> "grow", fd |-> fd, event |-> e, ctx |-> None, w |-> w]
      BY <2>1, Zenon DEF addEvent, tableVars, Types
    <3>2. CASE InTable(fd)
      BY <3>1, <3>2, SMTT(30)
    <3>3. CASE ~InTable(fd)
      <4>1. size \in Nat /\ fd \in Nat
        BY Zenon DEF Types
      <4>2. fd >= size
        BY <3>3, <4>1 DEF InTable
      <4>3. op'[u] = [pc |-> "grow", fd |-> fd, event |-> e, ctx |-> None, w |-> w]
        BY <3>1, <3>3, Zenon
      <4>4. op'[u].fd >= size
        BY <4>2, <4>3
      <4> QED
        BY <3>1, <4>4, Zenon
    <3> QED
      BY <3>2, <3>3
  <2>2. ASSUME NEW fd \in Fds, NEW e, NEW place \in {"del_at", "cancel_at", "all_at"},
               Find(u, fd, e, place)
        PROVE  Stays
    <3>1. /\ UNCHANGED <<size, table, made>>
          /\ \A v \in Users : v # u => op'[v] = op[v]
          /\ op'[u] = [pc |-> place, fd |-> fd, event |-> e, ctx |-> Context(fd), w |-> None]
      BY <2>2, Zenon DEF Find, tableVars, Types
    <3>2. op'[u].pc # "grow"
      BY <3>1, SMTT(30)
    <3> QED
      BY <3>1, <3>2, Zenon
  <2>3. CASE AddAt(u) \/ Refused(u) \/ delEvent(u) \/ cancelEvent(u) \/ cancelAll(u)
    BY <2>3, <1>0, Zenon DEF AddAt, Refused, delEvent, cancelEvent, cancelAll
  <2> QED
    BY <1>1, <2>1, <2>2, <2>3 DEF UserStep
<1>2. ASSUME UNCHANGED <<tableVars, op>> PROVE Stays
  BY <1>2 DEF tableVars
<1>3. ASSUME NEW t \in Threads,
             SkipStale(t) \/ HandleEvent(t) \/ \E fd \in Fds, es \in SUBSET (Events \cup {"ERR"}) :
                                                  EpollReturns(t, fd, es)
      PROVE  Stays
  BY <1>2, <1>3, Zenon DEF SkipStale, HandleEvent, EpollReturns
<1>4. ASSUME NEW fd \in Fds, CloseFd(fd) PROVE Stays
  BY <1>2, <1>4, Zenon DEF CloseFd
<1> QED
  BY <1>1, <1>3, <1>4, Zenon DEF Next

\* contextResize(n) drops no context if the table has only descriptors below n.
LEMMA ResizeDropsNone ==
    ASSUME Types, OpInv, NoneDropped, NEW u \in Users, AddGrows(u),
           \A fd \in Fds : fd < size => fd < (3 * op[u].fd) \div 2
    PROVE  NoneDropped'
<1> SUFFICES ASSUME NEW fd \in Fds PROVE made'[fd] = (IF fd < size' THEN 1 ELSE 0)
  BY Zenon DEF NoneDropped
<1>1. made[fd] = (IF fd < size THEN 1 ELSE 0)
  BY Zenon DEF NoneDropped
<1>2. fd \in Nat /\ size \in Nat /\ (fd < size => fd < (3 * op[u].fd) \div 2)
  BY DEF Types
<1>3. /\ size' = (3 * op[u].fd) \div 2
      /\ made'[fd] = IF size <= fd /\ fd < size' THEN made[fd] + 1 ELSE made[fd]
  BY Zenon DEF AddGrows, contextResize
<1>4. op[u].fd \in Nat
  BY DEF AddGrows, OpInv
<1>5. PICK n : n = (3 * op[u].fd) \div 2 /\ n \in Nat
  BY <1>4, SMT
<1> QED
  BY <1>1, <1>2, <1>3, <1>5, SMT

\* A user that goes to contextResize alone still finds the table too small there.
GrowsLate == \A u \in Users : op[u].pc = "grow" => op[u].fd >= size

\* A descriptor for which the table must grow is none of those it has from the start.
GrowsLarge ==
    /\ size >= InitSize
    /\ \A u \in Users : op[u].pc = "grow" => op[u].fd >= InitSize

\* No thread but one adds events: the contexts stay.
LEMMA AloneDropsNone ==
    ASSUME \A u, v \in Users : u = v, IInv, NoneDropped, GrowsLate, [Next]_vars
    PROVE  NoneDropped' /\ GrowsLate'
<1>0. Types /\ OpInv
  BY DEF IInv, Inv
<1>1. CASE UNCHANGED vars
  BY <1>1, Zenon DEF vars, tableVars, NoneDropped, GrowsLate
<1>2. ASSUME NEW u \in Users, AddGrows(u) PROVE NoneDropped' /\ GrowsLate'
  <2>1. op[u].fd \in Nat /\ op[u].fd >= size /\ op[u].fd >= 2 /\ size \in Nat
    BY <1>0, <1>2 DEF AddGrows, OpInv, GrowsLate, Types
  <2>2. \A fd \in Fds : fd < size => fd < (3 * op[u].fd) \div 2
    <3>1. PICK n \in Nat : n = op[u].fd /\ n >= size /\ n >= 2
      BY <2>1
    <3>2. PICK k \in Nat : k = (3 * n) \div 2 /\ n <= k
      <4>1. (3 * n) \div 2 \in Nat /\ n <= (3 * n) \div 2
        OBVIOUS
      <4> QED
        BY <4>1, Zenon
    <3>3. ASSUME NEW fd \in Fds, fd < size PROVE fd < k
      <4>1. fd \in Nat
        BY IOManagerAssumption
      <4> QED
        BY <2>1, <3>1, <3>2, <3>3, <4>1, SMT
    <3> QED
      BY <3>1, <3>2, <3>3, Zenon
  <2>3. op'[u].pc = "add_at"
    BY <1>0, <1>2, SMTT(30) DEF AddGrows, Types, Ops
  <2>4. GrowsLate'
    BY <2>3, Zenon DEF GrowsLate
  <2> QED
    BY <1>0, <1>2, <2>2, <2>4, ResizeDropsNone
<1>3. ASSUME UNCHANGED <<size, table, made>>,
             \A u \in Users : op'[u].pc = "grow" =>
                    \/ op[u].pc = "grow" /\ op'[u].fd = op[u].fd
                    \/ op'[u].fd >= size
      PROVE  NoneDropped' /\ GrowsLate'
  BY <1>3, Zenon DEF NoneDropped, GrowsLate
<1> QED
  BY <1>0, <1>1, <1>2, <1>3, TableSteps, Zenon

\* All descriptors are below the size to which the table grows first: the contexts stay.
LEMMA SmallDropsNone ==
    ASSUME \A fd \in Fds : fd < (3 * InitSize) \div 2, IInv, NoneDropped, GrowsLarge,
           [Next]_vars
    PROVE  NoneDropped' /\ GrowsLarge'
<1>0. Types /\ OpInv
  BY DEF IInv, Inv
<1>1. CASE UNCHANGED vars
  BY <1>1, Zenon DEF vars, tableVars, NoneDropped, GrowsLarge
<1>2. ASSUME NEW u \in Users, AddGrows(u) PROVE NoneDropped' /\ GrowsLarge'
  <2>1. op[u].fd \in Nat /\ op[u].fd >= InitSize
    BY <1>0, <1>2 DEF AddGrows, OpInv, GrowsLarge
  <2>2. \A fd \in Fds : fd < size => fd < (3 * op[u].fd) \div 2
    BY <2>1
  <2>3. /\ op'[u].pc = "add_at" /\ \A v \in Users : v # u => op'[v] = op[v]
        /\ size' = (3 * op[u].fd) \div 2
    BY <1>0, <1>2 DEF AddGrows, contextResize, Types, Ops
  <2>4. size' >= InitSize
    BY <2>1, <2>3, SMTT(30)
  <2>5. GrowsLarge'
    BY <2>3, <2>4, Zenon DEF GrowsLarge
  <2> QED
    BY <1>0, <1>2, <2>2, <2>5, ResizeDropsNone
<1>3. ASSUME UNCHANGED <<size, table, made>>,
             \A u \in Users : op'[u].pc = "grow" =>
                    \/ op[u].pc = "grow" /\ op'[u].fd = op[u].fd
                    \/ op'[u].fd >= size
      PROVE  NoneDropped' /\ GrowsLarge'
  <2>1. size' >= InitSize /\ NoneDropped'
    BY <1>3 DEF NoneDropped, GrowsLarge
  <2>2. ASSUME NEW u \in Users, op'[u].pc = "grow" PROVE op'[u].fd >= InitSize
    <3>1. CASE op[u].pc = "grow" /\ op'[u].fd = op[u].fd
      BY <3>1 DEF GrowsLarge
    <3>2. CASE op'[u].fd >= size
      <4>1. op'[u].fd \in Nat
        <5>1. OpInv'
          BY NextKeeps, Zenon DEF IInv, Inv
        <5>2. op'[u].fd \in Fds
          BY <2>2, <5>1 DEF OpInv
        <5> QED
          BY <5>2
      <4> QED
        BY <1>0, <3>2, <4>1, SMTT(30) DEF GrowsLarge, Types
    <3> QED
      BY <1>3, <2>2, <3>1, <3>2
  <2> QED
    BY <2>1, <2>2, Zenon DEF GrowsLarge
<1> QED
  BY <1>0, <1>1, <1>2, <1>3, TableSteps, Zenon

\* If no more than one context is made for a descriptor, none is replaced.
LEMMA DropsNoneReplaces == NoneDropped => NoneReplaced
BY DEF NoneDropped, NoneReplaced, Kept

\* If one thread calls addEvent, delEvent, cancelEvent and cancelAll, against any number of
\* threads in idle(), no context is replaced: the kernel's table and the contexts agree.
THEOREM KernelInStepAlone ==
    ASSUME \A u, v \in Users : u = v
    PROVE  Spec => [](NoneReplaced /\ KernelAgrees)
<1>1. Init => IInv /\ NoneDropped /\ GrowsLate
  BY InitHolds, SMTT(30) DEF NoneDropped, GrowsLate, Init, Idle
<1>2. IInv /\ NoneDropped /\ GrowsLate /\ [Next]_vars => (IInv /\ NoneDropped /\ GrowsLate)'
  BY AloneDropsNone, NextKeeps
<1> QED
  BY <1>1, <1>2, DropsNoneReplaces, KernelInStep, PTL DEF Spec

\* If every descriptor is below one and a half times the initial size of the table (48), any
\* number of threads may add events and no context is replaced.
THEOREM KernelInStepSmall ==
    ASSUME \A fd \in Fds : fd < (3 * InitSize) \div 2
    PROVE  Spec => [](NoneReplaced /\ KernelAgrees)
<1>1. Init => IInv /\ NoneDropped /\ GrowsLarge
  BY InitHolds, SMTT(30) DEF NoneDropped, GrowsLarge, Init, Idle
<1>2. IInv /\ NoneDropped /\ GrowsLarge /\ [Next]_vars => (IInv /\ NoneDropped /\ GrowsLarge)'
  BY SmallDropsNone, NextKeeps
<1> QED
  BY <1>1, <1>2, DropsNoneReplaces, KernelInStep, PTL DEF Spec
=============================================================================

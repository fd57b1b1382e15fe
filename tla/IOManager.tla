------------------------------ MODULE IOManager ------------------------------
(***************************************************************************)
(* The events of IOManager (iomanager.{h,cc}): the table m_fdContexts, the *)
(* contexts of the file descriptors, addEvent, delEvent, cancelEvent and   *)
(* cancelAll, and the part of idle() that handles what epoll_wait returns. *)
(*                                                                         *)
(* An operation looks the context up under m_mutex and acts on it later    *)
(* under the context's own mutex: two steps.  An idle thread keeps what    *)
(* epoll_wait reported until it gets the mutex of the context: two steps.  *)
(* Each addEvent brings a waiter of its own, a fiber or a callback.        *)
(***************************************************************************)
EXTENDS Integers, FiniteSets

CONSTANTS
    Users,      \* threads that call the operations
    Threads,    \* threads in idle()
    Fds,        \* file descriptors
    Events,     \* a subset of {READ, WRITE}
    Waiters,    \* what an event resumes when it is triggered
    InitSize,   \* 32: the size of m_fdContexts at the start
    Closes,     \* whether a descriptor may be closed while an event is set on it
    MaxGen,     \* bound: how many contexts are made for one file descriptor
    None

ASSUME IOManagerAssumption ==
    /\ Fds \subseteq Nat /\ Events \subseteq {"READ", "WRITE"}
    /\ InitSize \in Nat \ {0, 1} /\ MaxGen \in Nat \ {0} /\ Closes \in BOOLEAN
    /\ None \notin Waiters

VARIABLES
    size,                \* m_fdContexts.size()
    table,               \* m_fdContexts: the number of the context made for fd, or 0
    made,                \* how many contexts were made for fd
    events,              \* FdContext::events
    waiter,              \* FdContext::read and write: the fiber or cb of each event
    m_pendingEventCount,
    registered,          \* the epoll table: [ctx, mask] by file descriptor, or None
    op,                  \* what each user does: the operation, its arguments and place
    got,                 \* what epoll_wait returned to each idle thread, or None
    scheduled,           \* how often each waiter was scheduled (2: more than once)
    deleted,             \* waiters that delEvent removed
    failed,              \* waiters whose addEvent returned -1
    closed               \* descriptors that were closed with an event set

tableVars  == <<size, table, made>>
eventVars  == <<events, waiter, m_pendingEventCount, registered>>
resultVars == <<scheduled, deleted, failed, closed>>
vars == <<tableVars, eventVars, op, got, resultVars>>

Ctxs == Fds \X (1..MaxGen)
Registrations == [ctx : Ctxs, mask : SUBSET Events]
ASSUME NoRegistration == None \notin Registrations

Idle == [pc |-> "idle", fd |-> None, event |-> None, ctx |-> None, w |-> None]

TypeOK ==
    /\ size \in Nat
    /\ table \in [Fds -> 0..MaxGen] /\ made \in [Fds -> 0..MaxGen]
    /\ events \in [Ctxs -> SUBSET Events]
    /\ waiter \in [Ctxs -> [Events -> Waiters \cup {None}]]
    /\ m_pendingEventCount \in Nat
    /\ registered \in [Fds -> Registrations \cup {None}]
    /\ op \in [Users -> [pc : {"idle", "grow", "add_at", "del_at", "cancel_at", "all_at"},
                         fd : Fds \cup {None}, event : Events \cup {None},
                         ctx : Ctxs \cup {None}, w : Waiters \cup {None}]]
    /\ got \in [Threads -> [ctx : Ctxs, events : SUBSET (Events \cup {"ERR"})] \cup {None}]
    /\ scheduled \in [Waiters -> 0..2]
    /\ deleted \subseteq Waiters /\ failed \subseteq Waiters
    /\ closed \subseteq Fds

Init ==
    /\ size = InitSize
    /\ table = [fd \in Fds |-> IF fd < InitSize THEN 1 ELSE 0]
    /\ made = table
    /\ events = [c \in Ctxs |-> {}]
    /\ waiter = [c \in Ctxs |-> [e \in Events |-> None]]
    /\ m_pendingEventCount = 0
    /\ registered = [fd \in Fds |-> None]
    /\ op = [u \in Users |-> Idle]
    /\ got = [t \in Threads |-> None]
    /\ scheduled = [w \in Waiters |-> 0]
    /\ deleted = {} /\ failed = {} /\ closed = {}

-----------------------------------------------------------------------------
(***************************************************************************)
(* The table                                                               *)
(***************************************************************************)
InTable(fd) == fd < size
Context(fd) == <<fd, table[fd]>>

\* resize() drops the pointers beyond the new size; null pointers get a new context.
contextResize(n) ==
    /\ \A fd \in Fds : size <= fd /\ fd < n => made[fd] < MaxGen
    /\ size' = n
    /\ made' = [fd \in Fds |-> IF size <= fd /\ fd < n THEN made[fd] + 1 ELSE made[fd]]
    /\ table' = [fd \in Fds |-> IF fd >= n THEN 0 ELSE IF fd >= size THEN made[fd] + 1 ELSE table[fd]]

\* The calls.  At most one task waits for an event of a file descriptor at a time; but the number
\* of one that was closed with the event set is another descriptor's, whose task knows nothing of it.
Adding(fd, e)  == \E u \in Users : op[u].fd = fd /\ op[u].event = e /\ op[u].w # None
Awaited(fd, e) == \E c \in Ctxs : c[1] = fd /\ e \in events[c]
Fresh(w) ==
    /\ scheduled[w] = 0 /\ w \notin deleted \cup failed
    /\ \A u \in Users : op[u].w # w
    /\ \A c \in Ctxs, e \in Events : waiter[c][e] # w

\* addEvent: the context, if it is in the table, or the table must grow.
addEvent(u, fd, e, w) ==
    /\ op[u] = Idle
    /\ ~Adding(fd, e) /\ (Awaited(fd, e) => fd \in closed) /\ Fresh(w)
    /\ op' = [op EXCEPT ![u] =
                 IF InTable(fd)
                 THEN [pc |-> "add_at", fd |-> fd, event |-> e, ctx |-> Context(fd), w |-> w]
                 ELSE [pc |-> "grow", fd |-> fd, event |-> e, ctx |-> None, w |-> w]]
    /\ UNCHANGED <<tableVars, eventVars, got, resultVars>>

\* The table may have changed since it was found too small, and is not looked at again.
AddGrows(u) ==
    /\ op[u].pc = "grow"
    /\ contextResize((3 * op[u].fd) \div 2)
    /\ op' = [op EXCEPT ![u].pc = "add_at", ![u].ctx = <<op[u].fd, table'[op[u].fd]>>]
    /\ UNCHANGED <<eventVars, got, resultVars>>

-----------------------------------------------------------------------------
(***************************************************************************)
(* Under the mutex of a context                                            *)
(***************************************************************************)
\* epoll_ctl with ADD fails on a registered descriptor, MOD and DEL on one that is not.
CtlWorks(fd, add) == add <=> registered[fd] = None
Registration(c, mask) == IF mask = {} THEN None ELSE [ctx |-> c, mask |-> mask]

\* addEvent, with the context found: ADD or MOD, by what the context says.  The assertion that the
\* event is not set (iomanager.cc:123) stops the program: the thread stays there.
AddAt(u) ==
    LET c == op[u].ctx
        e == op[u].event
        fd == op[u].fd
    IN  /\ op[u].pc = "add_at" /\ e \notin events[c]
        /\ op' = [op EXCEPT ![u] = Idle]
        /\ IF CtlWorks(fd, events[c] = {})
           THEN /\ registered' = [registered EXCEPT ![fd] = Registration(c, events[c] \cup {e})]
                /\ m_pendingEventCount' = m_pendingEventCount + 1
                /\ events' = [events EXCEPT ![c] = @ \cup {e}]
                /\ waiter' = [waiter EXCEPT ![c][e] = op[u].w]
                /\ UNCHANGED failed
           ELSE failed' = failed \cup {op[u].w} /\ UNCHANGED eventVars
        /\ UNCHANGED <<tableVars, got, scheduled, deleted, closed>>

Inc(n) == IF n < 2 THEN n + 1 ELSE n

\* Mutant: triggerEvent leaves the event set.
TriggerKeeps(c, es) ==
    /\ scheduled' = [w \in Waiters |-> IF \E e \in es : waiter[c][e] = w THEN Inc(scheduled[w])
                                       ELSE scheduled[w]]
    /\ m_pendingEventCount' = m_pendingEventCount - Cardinality(es)
    /\ UNCHANGED <<events, waiter>>

\* triggerEvent for the events `es': they are cleared and their waiters scheduled.  The
\* pointers are swapped out, so nothing of the waiter stays in the context.
triggerEvents(c, es) ==
    /\ events' = [events EXCEPT ![c] = @ \ es]
    /\ waiter' = [waiter EXCEPT ![c] = [e \in Events |-> IF e \in es THEN None ELSE @[e]]]
    /\ scheduled' = [w \in Waiters |-> IF \E e \in es : waiter[c][e] = w THEN Inc(scheduled[w])
                                       ELSE scheduled[w]]
    /\ m_pendingEventCount' = m_pendingEventCount - Cardinality(es)

\* delEvent, cancelEvent and cancelAll look the context up and return false at once if
\* the table is too small.
Find(u, fd, e, place) ==
    /\ op[u] = Idle /\ InTable(fd)
    /\ op' = [op EXCEPT ![u] = [pc |-> place, fd |-> fd, event |-> e, ctx |-> Context(fd), w |-> None]]
    /\ UNCHANGED <<tableVars, eventVars, got, resultVars>>

\* Returning false: the event is not set, or epoll_ctl failed.
Refused(u) ==
    LET c == op[u].ctx
        fd == op[u].fd
    IN  /\ op[u].pc \in {"del_at", "cancel_at", "all_at"}
        /\ \/ op[u].pc # "all_at" /\ op[u].event \notin events[c]
           \/ op[u].pc = "all_at" /\ events[c] = {}
           \/ ~CtlWorks(fd, FALSE)
        /\ op' = [op EXCEPT ![u] = Idle]
        /\ UNCHANGED <<tableVars, eventVars, got, resultVars>>

\* Mutant: m_pendingEventCount is not decremented.
DelAtUncounted(u) ==
    LET c == op[u].ctx
        e == op[u].event
    IN  /\ op[u].pc = "del_at" /\ e \in events[c] /\ CtlWorks(op[u].fd, FALSE)
        /\ registered' = [registered EXCEPT ![op[u].fd] = Registration(c, events[c] \ {e})]
        /\ events' = [events EXCEPT ![c] = @ \ {e}]
        /\ waiter' = [waiter EXCEPT ![c][e] = None]
        /\ deleted' = deleted \cup {waiter[c][e]}
        /\ op' = [op EXCEPT ![u] = Idle]
        /\ UNCHANGED <<tableVars, m_pendingEventCount, got, scheduled, failed, closed>>

delEvent(u) ==
    LET c == op[u].ctx
        e == op[u].event
    IN  /\ op[u].pc = "del_at" /\ e \in events[c] /\ CtlWorks(op[u].fd, FALSE)
        /\ registered' = [registered EXCEPT ![op[u].fd] = Registration(c, events[c] \ {e})]
        /\ m_pendingEventCount' = m_pendingEventCount - 1
        /\ events' = [events EXCEPT ![c] = @ \ {e}]
        /\ waiter' = [waiter EXCEPT ![c][e] = None]
        /\ deleted' = deleted \cup {waiter[c][e]}
        /\ op' = [op EXCEPT ![u] = Idle]
        /\ UNCHANGED <<tableVars, got, scheduled, failed, closed>>

\* Mutant: the registration is dropped although another event is left.
CancelEventDels(u) ==
    LET c == op[u].ctx
        e == op[u].event
    IN  /\ op[u].pc = "cancel_at" /\ e \in events[c] /\ CtlWorks(op[u].fd, FALSE)
        /\ registered' = [registered EXCEPT ![op[u].fd] = None]
        /\ triggerEvents(c, {e})
        /\ op' = [op EXCEPT ![u] = Idle]
        /\ UNCHANGED <<tableVars, got, deleted, failed, closed>>

cancelEvent(u) ==
    LET c == op[u].ctx
        e == op[u].event
    IN  /\ op[u].pc = "cancel_at" /\ e \in events[c] /\ CtlWorks(op[u].fd, FALSE)
        /\ registered' = [registered EXCEPT ![op[u].fd] = Registration(c, events[c] \ {e})]
        /\ triggerEvents(c, {e})
        /\ op' = [op EXCEPT ![u] = Idle]
        /\ UNCHANGED <<tableVars, got, deleted, failed, closed>>

cancelAll(u) ==
    LET c == op[u].ctx
    IN  /\ op[u].pc = "all_at" /\ events[c] # {} /\ CtlWorks(op[u].fd, FALSE)
        /\ registered' = [registered EXCEPT ![op[u].fd] = None]
        /\ triggerEvents(c, events[c])
        /\ op' = [op EXCEPT ![u] = Idle]
        /\ UNCHANGED <<tableVars, got, deleted, failed, closed>>

-----------------------------------------------------------------------------
(***************************************************************************)
(* idle()                                                                  *)
(***************************************************************************)
\* The kernel reports any of the events asked for, and errors always.  It reports them
\* once (EPOLLET), with the context that was registered.
EpollReturns(t, fd, es) ==
    /\ got[t] = None /\ registered[fd] # None
    /\ es # {} /\ es \subseteq registered[fd].mask \cup {"ERR"}
    /\ got' = [got EXCEPT ![t] = [ctx |-> registered[fd].ctx, events |-> es]]
    /\ UNCHANGED <<tableVars, eventVars, op, resultVars>>

\* real_events: an error stands for every event that is set now.  The other reported
\* events are not compared with the events that are set now.
RealEvents(t) ==
    (got[t].events \cap Events) \cup (IF "ERR" \in got[t].events THEN events[got[t].ctx] ELSE {})

\* Nothing of what was reported is still set, or epoll_ctl failed.
SkipStale(t) ==
    /\ got[t] # None
    /\ \/ events[got[t].ctx] \cap RealEvents(t) = {}
       \/ ~CtlWorks(got[t].ctx[1], FALSE)
    /\ got' = [got EXCEPT ![t] = None]
    /\ UNCHANGED <<tableVars, eventVars, op, resultVars>>

\* The assertion of triggerEvent stops the program if a real event is not set: the
\* thread stays there.
HandleEvent(t) ==
    LET c == got[t].ctx
    IN  /\ got[t] # None
        /\ events[c] \cap RealEvents(t) # {} /\ RealEvents(t) \subseteq events[c]
        /\ CtlWorks(c[1], FALSE)
        /\ registered' = [registered EXCEPT ![c[1]] = Registration(c, events[c] \ RealEvents(t))]
        /\ triggerEvents(c, RealEvents(t))
        /\ got' = [got EXCEPT ![t] = None]
        /\ UNCHANGED <<tableVars, op, deleted, failed, closed>>

\* close() without cancelAll(): the kernel forgets the registration.  The number is
\* given to the next descriptor that is opened.
CloseFd(fd) ==
    /\ Closes /\ registered[fd] # None
    /\ registered' = [registered EXCEPT ![fd] = None]
    /\ closed' = closed \cup {fd}
    /\ UNCHANGED <<tableVars, events, waiter, m_pendingEventCount, op, got, scheduled, deleted, failed>>

UserStep(u) ==
    \/ \E fd \in Fds, e \in Events, w \in Waiters : addEvent(u, fd, e, w)
    \/ \E fd \in Fds, e \in Events : Find(u, fd, e, "del_at") \/ Find(u, fd, e, "cancel_at")
    \/ \E fd \in Fds : Find(u, fd, None, "all_at")
    \/ AddGrows(u) \/ AddAt(u) \/ Refused(u) \/ delEvent(u) \/ cancelEvent(u) \/ cancelAll(u)

Next ==
    \/ \E u \in Users : UserStep(u)
    \/ \E t \in Threads :
          \/ \E fd \in Fds, es \in SUBSET (Events \cup {"ERR"}) : EpollReturns(t, fd, es)
          \/ SkipStale(t) \/ HandleEvent(t)
    \/ \E fd \in Fds : CloseFd(fd)

Spec == Init /\ [][Next]_vars

-----------------------------------------------------------------------------
(***************************************************************************)
(* Properties                                                              *)
(***************************************************************************)

\* triggerEvent is called only for events that are set (iomanager.cc:36: "check that this
\* event is registered on the descriptor"), also when an event that epoll_wait reported was
\* cancelled or deleted before idle() got the mutex of the context.
TriggerAssertion ==
    \A t \in Threads : got[t] # None /\ events[got[t].ctx] \cap RealEvents(t) # {} =>
        RealEvents(t) \subseteq events[got[t].ctx]

\* m_pendingEventCount, which keeps the IOManager from stopping, is the number of events
\* that are set, over all contexts.
PendingExact ==
    m_pendingEventCount = Cardinality({x \in Ctxs \X Events : x[2] \in events[x[1]]})

\* The kernel's table and the contexts agree: a descriptor is registered, with exactly the
\* events of its context, if any is set.  So ADD and MOD are never confused, no addEvent
\* fails and no wake-up is asked of nobody.  Two things may break it for a descriptor, and for
\* that one only: it was closed with an event set, or its context was replaced, because a
\* contextResize (iomanager.cc:114) for a smaller descriptor came last and dropped it.
Kept(fd) == made[fd] <= 1
KernelAgrees ==
    /\ closed = {} /\ (\A fd \in Fds : Kept(fd)) => failed = {}
    /\ \A c \in Ctxs : events[c] # {} /\ Kept(c[1]) /\ c[1] \notin closed =>
          registered[c[1]] = [ctx |-> c, mask |-> events[c]]
    /\ \A fd \in Fds : Kept(fd) /\ registered[fd] # None =>
          registered[fd].mask = events[registered[fd].ctx] /\ registered[fd].mask # {}

\* Whoever waits is resumed at most once, and not after delEvent; as long as it is neither
\* resumed nor deleted nor refused, its event is set: an event handled by idle() and a
\* cancelEvent() of the same event do not both schedule the fiber, or neither.
WakeOnce ==
    \A w \in Waiters :
        /\ scheduled[w] <= 1
        /\ w \in deleted => scheduled[w] = 0
        /\ Cardinality({x \in Ctxs \X Events : waiter[x[1]][x[2]] = w /\ x[2] \in events[x[1]]}) =
              IF Fresh(w) \/ scheduled[w] > 0 \/ w \in deleted \cup failed
                 \/ \E u \in Users : op[u].w = w
              THEN 0 ELSE 1

=============================================================================

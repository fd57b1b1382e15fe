----------------------------- MODULE EventLoop -----------------------------
(***************************************************************************)
(* A loop thread of the reactor (src/JKYi/reactor/EventLoop.cc) made by an *)
(* EventLoopThread, the threads that queue functors in it or end it, and   *)
(* the destructor of the EventLoopThread.  Each access to shared state is  *)
(* a step of its own.  What a functor or a callback of a channel does is   *)
(* left open: it may queue another functor or call quit().                 *)
(***************************************************************************)
EXTENDS Naturals, Sequences

CONSTANTS Users,      \* other threads
          Functors,   \* each is queued at most once
          Channels    \* descriptors of the loop besides wakeupFd_

ASSUME UsersAssumption == "owner" \notin Users

VARIABLES
  pc,                       \* where the loop thread is in threadFunc() and loop()
  quit_,
  eventfd,                  \* wakeupFd_ is readable
  activeChannels_,          \* what epoll_wait reported and is not handled yet
  pendingFunctors_,
  functors,                 \* the batch that doPendingFunctors has taken and not run yet
  callingPendingFunctors_,
  waking,                   \* for other threads: between a change and wakeup()
  owner,                    \* where ~EventLoopThread is
  queued, ran               \* the functors that were queued, and that were run
vars == <<pc, quit_, eventfd, activeChannels_, pendingFunctors_, functors,
          callingPendingFunctors_, waking, owner, queued, ran>>

Others == Users \cup {"owner"}

Init ==
    /\ pc = "init" /\ quit_ = FALSE /\ eventfd = FALSE /\ activeChannels_ = {}
    /\ pendingFunctors_ = <<>> /\ functors = <<>> /\ callingPendingFunctors_ = FALSE
    /\ waking = [u \in Others |-> FALSE] /\ owner = "alive" /\ queued = {} /\ ran = {}
-----------------------------------------------------------------------------
(***************************************************************************)
(* Called in the loop thread, by a functor or a channel's callback.        *)
(***************************************************************************)
push(f) ==
    /\ f \in Functors \ queued
    /\ pendingFunctors_' = Append(pendingFunctors_, f)
    /\ queued' = queued \cup {f}

\* Mutant: the loop thread never wakes itself.
queueInLoopOnlyOthersWake(f) == push(f) /\ UNCHANGED eventfd
\* queueInLoop: the loop has to be woken only if it has taken its batch already.
queueInLoop(f) ==
    /\ push(f)
    /\ eventfd' = (eventfd \/ callingPendingFunctors_)

\* What code that the loop calls may do to the loop.
Callback ==
    \/ UNCHANGED <<quit_, eventfd, pendingFunctors_, queued>>
    \/ \E f \in Functors : queueInLoop(f) /\ UNCHANGED quit_
    \/ quit_' = TRUE /\ UNCHANGED <<eventfd, pendingFunctors_, queued>>
-----------------------------------------------------------------------------
(***************************************************************************)
(* The loop thread                                                         *)
(***************************************************************************)
\* threadFunc publishes the loop; startLoop() returns it and others can use it.
Publish ==
    /\ pc = "init" /\ pc' = "enter"
    /\ UNCHANGED <<quit_, eventfd, activeChannels_, pendingFunctors_, functors,
                   callingPendingFunctors_, waking, owner, queued, ran>>

\* loop() begins: a quit() that came before is forgotten.
loop ==
    /\ pc = "enter" /\ pc' = "test"
    /\ quit_' = FALSE
    /\ UNCHANGED <<eventfd, activeChannels_, pendingFunctors_, functors,
                   callingPendingFunctors_, waking, owner, queued, ran>>

While ==
    /\ pc = "test" /\ pc' = IF quit_ THEN "left" ELSE "poll"
    /\ UNCHANGED <<quit_, eventfd, activeChannels_, pendingFunctors_, functors,
                   callingPendingFunctors_, waking, owner, queued, ran>>

\* epoll_wait returns what is ready.
poll ==
    /\ pc = "poll" /\ pc' = "events"
    /\ \E ready \in SUBSET Channels :
          activeChannels_' = ready \cup (IF eventfd THEN {"wakeup"} ELSE {})
    /\ activeChannels_' # {}
    /\ UNCHANGED <<quit_, eventfd, pendingFunctors_, functors, callingPendingFunctors_, waking,
                   owner, queued, ran>>

\* Nothing is ready for kPollTimeMs.
pollTimeout ==
    /\ pc = "poll" /\ ~eventfd /\ pc' = "events"
    /\ UNCHANGED <<quit_, eventfd, activeChannels_, pendingFunctors_, functors,
                   callingPendingFunctors_, waking, owner, queued, ran>>

\* wakeupChannel_'s callback reads the counter, which makes it zero.
handleWakeup ==
    /\ pc = "events" /\ "wakeup" \in activeChannels_
    /\ activeChannels_' = activeChannels_ \ {"wakeup"}
    /\ eventfd' = FALSE
    /\ UNCHANGED <<pc, quit_, pendingFunctors_, functors, callingPendingFunctors_, waking, owner,
                   queued, ran>>

handleEvent(c) ==
    /\ pc = "events" /\ c \in activeChannels_
    /\ activeChannels_' = activeChannels_ \ {c}
    /\ Callback
    /\ UNCHANGED <<pc, functors, callingPendingFunctors_, waking, owner, ran>>

EventsHandled ==
    /\ pc = "events" /\ activeChannels_ = {} /\ pc' = "swap"
    /\ callingPendingFunctors_' = TRUE
    /\ UNCHANGED <<quit_, eventfd, activeChannels_, pendingFunctors_, functors, waking, owner,
                   queued, ran>>

SwapFunctors ==
    /\ pc = "swap" /\ pc' = "functors"
    /\ functors' = pendingFunctors_ /\ pendingFunctors_' = <<>>
    /\ UNCHANGED <<quit_, eventfd, activeChannels_, callingPendingFunctors_, waking, owner,
                   queued, ran>>

RunFunctor ==
    /\ pc = "functors" /\ functors # <<>>
    /\ functors' = Tail(functors) /\ ran' = ran \cup {Head(functors)}
    /\ Callback
    /\ UNCHANGED <<pc, activeChannels_, callingPendingFunctors_, waking, owner>>

FunctorsDone ==
    /\ pc = "functors" /\ functors = <<>> /\ pc' = "test"
    /\ callingPendingFunctors_' = FALSE
    /\ UNCHANGED <<quit_, eventfd, activeChannels_, pendingFunctors_, functors, waking, owner,
                   queued, ran>>

\* threadFunc clears loop_ and destroys the loop.
Leave ==
    /\ pc = "left" /\ pc' = "dead"
    /\ UNCHANGED <<quit_, eventfd, activeChannels_, pendingFunctors_, functors,
                   callingPendingFunctors_, waking, owner, queued, ran>>

LoopThread ==
    \/ Publish \/ loop \/ While \/ poll \/ handleWakeup \/ (\E c \in Channels : handleEvent(c))
    \/ EventsHandled \/ SwapFunctors \/ RunFunctor \/ FunctorsDone \/ Leave
-----------------------------------------------------------------------------
(***************************************************************************)
(* Other threads                                                           *)
(***************************************************************************)
HaveLoop == pc \notin {"init", "dead"}

queueInLoopElsewhere(u, f) ==
    /\ HaveLoop /\ ~waking[u]
    /\ push(f)
    /\ waking' = [waking EXCEPT ![u] = TRUE]
    /\ UNCHANGED <<pc, quit_, eventfd, activeChannels_, functors, callingPendingFunctors_, owner,
                   ran>>

\* Mutant: quit() leaves the loop asleep.
quitQuietly(u) ==
    /\ HaveLoop /\ ~waking[u]
    /\ quit_' = TRUE
    /\ UNCHANGED <<pc, eventfd, activeChannels_, pendingFunctors_, functors,
                   callingPendingFunctors_, waking, queued, ran>>
quit(u) ==
    /\ HaveLoop /\ ~waking[u]
    /\ quit_' = TRUE
    /\ waking' = [waking EXCEPT ![u] = TRUE]
    /\ UNCHANGED <<pc, eventfd, activeChannels_, pendingFunctors_, functors,
                   callingPendingFunctors_, queued, ran>>

wakeup(u) ==
    /\ waking[u]
    /\ eventfd' = TRUE
    /\ waking' = [waking EXCEPT ![u] = FALSE]
    /\ UNCHANGED <<pc, quit_, activeChannels_, pendingFunctors_, functors,
                   callingPendingFunctors_, owner, queued, ran>>

\* ~EventLoopThread quits the loop it sees, and joins its thread only then.
Destruct ==
    /\ owner = "alive" /\ owner' = "joining"
    /\ quit("owner")
DestructUnstarted ==
    /\ owner = "alive" /\ ~HaveLoop /\ owner' = "gone"
    /\ UNCHANGED <<pc, quit_, eventfd, activeChannels_, pendingFunctors_, functors,
                   callingPendingFunctors_, waking, queued, ran>>
Join ==
    /\ owner = "joining" /\ ~waking["owner"] /\ pc = "dead" /\ owner' = "gone"
    /\ UNCHANGED <<pc, quit_, eventfd, activeChannels_, pendingFunctors_, functors,
                   callingPendingFunctors_, waking, queued, ran>>

Next ==
    \/ LoopThread \/ pollTimeout
    \/ \E u \in Users : quit(u) /\ UNCHANGED owner
    \/ \E u \in Users, f \in Functors : queueInLoopElsewhere(u, f)
    \/ \E u \in Others : wakeup(u)
    \/ Destruct \/ DestructUnstarted \/ Join

Spec == Init /\ [][Next]_vars
\* The threads run; a channel need never be ready, nor epoll_wait time out.
LoopRuns == LoopThread /\ (pc = "poll" => eventfd)
Fairness == WF_vars(LoopRuns) /\ \A u \in Others : WF_vars(wakeup(u))
FairSpec == Spec /\ Fairness
-----------------------------------------------------------------------------
TypeOK ==
    /\ pc \in {"init", "enter", "test", "poll", "events", "swap", "functors", "left", "dead"}
    /\ quit_ \in BOOLEAN /\ eventfd \in BOOLEAN /\ callingPendingFunctors_ \in BOOLEAN
    /\ activeChannels_ \subseteq Channels \cup {"wakeup"}
    /\ pendingFunctors_ \in Seq(Functors) /\ functors \in Seq(Functors)
    /\ waking \in [Others -> BOOLEAN] /\ owner \in {"alive", "joining", "gone"}
    /\ queued \subseteq Functors /\ ran \subseteq Functors

\* A wake-up is there or on its way.
WakeComes == eventfd \/ \E u \in Others : waking[u]

\* A functor that was queued never waits for the timeout of epoll_wait: while the loop sleeps and
\* there is one, wakeupFd_ is readable or a thread is about to write to it (EventLoop.cc:134).
NoSleepOnPending == pc = "poll" /\ pendingFunctors_ # <<>> => WakeComes

\* After a quit() that loop() has not overwritten the thread ends, without help of the timeout
\* (EventLoop.cc:112): ~EventLoopThread can join it.
QuitEndsLoop == quit_ /\ pc \notin {"init", "enter"} ~> pc = "dead"

\* The inductive invariant: a wake-up is due wherever the functors in the queue would be left for
\* the next batch.
LoopInv ==
    /\ TypeOK
    /\ pc = "init" => pendingFunctors_ = <<>>
    /\ callingPendingFunctors_ <=> pc \in {"swap", "functors"}
    /\ pc \in {"enter", "test", "poll", "functors"} /\ pendingFunctors_ # <<>> => WakeComes
    /\ pc = "poll" /\ quit_ => WakeComes
=============================================================================

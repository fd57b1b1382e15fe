# Verification of JKYi

A TLA+ development for the C++ server framework in `src/JKYi`. It models the
coroutine core (scheduler, fibers, timers, events and hooked system calls), the
callback-based reactor beside it, the asynchronous log, the generated parsers and
the client's reading of chunked bodies. TLC checks the models on small instances;
TLAPS proves the main invariants for every instance. `PROJECT.json` maps each
definition to the lines it models and lists runs, mutants, findings, hazards and
theorems.

## 1. The system

JKYi runs many fibers on few threads. Blocking system calls are hooked: a call
that would block registers an event and perhaps a timer, suspends its fiber, and
the thread goes on with another fiber. Beside this core there is a second network
library (`reactor/`): loops that call back, one thread each. On top of both there
are HTTP, WebSocket, HTTP/2, Redis and MySQL.

```
  Hook ---- addConditionTimer ----> TimerManager --- getNextTimer, listExpiredCb --+
    |                                                                              v
    +------ addEvent, cancelEvent --> IOManager ---- idle(): epoll_wait ------> Scheduler
    |                                     \---- triggerEvent: schedule() ---------/
    +------ YieldToHold ... resumed by schedule()

  TcpConnection, TcpClient + Connector, TimerQueue
    |  runInLoop, queueInLoop                     ^ functors, channel events, timerfd
    +-----------------------> EventLoop ----------+
```

`WakeProtocol` is the contract between Hook and Scheduler: before a fiber suspends
it hands itself to a waker, the waker schedules it once, then it is resumed.
Scheduler is shown to resume only fired waits (`WaitsFollowProtocol`), Hook to fire
each wait once whatever races (`WakesFollowProtocol`). The two rest on each other:
Scheduler's wakers fire at most once, as Hook guarantees, and Hook's fiber is
resumed once per wake-up, as Scheduler guarantees. In the same way the parts of the
reactor rest on EventLoop: its thread runs the functors in the order in which they
were queued, and never sleeps while one waits (`NoSleepOnPending`).

## 2. Modules

| Module | Models |
|---|---|
| `WakeProtocol` | the abstract specification of a wait |
| `Scheduler` | Scheduler, Fiber, and `tickle`, `stopping`, `idle` of IOManager as run() uses them |
| `TimerManager` | Timer, TimerManager and the sleep of the idle threads |
| `IOManager` | contexts and events, the handling part of idle() |
| `Hook` | do_io, connect_with_timeout, sleep, close on one socket |
| `EventLoop` | a loop of the reactor, its functors and wake-ups, EventLoopThread |
| `TimerQueue` | the timers of a loop on one timerfd |
| `TcpConnection` | one connection of a TcpServer with its Channel, from acceptance to destruction |
| `TcpClient` | a TcpClient and its Connector |
| `AsyncLogging` | the buffers between threads that log and the thread that writes |
| `HttpConnection` | `recvResponse` on a chunked body |
| `RagelRows` | character classes and rows of the generated automata |
| `UriTable`, `Uri`, `Rfc3986` | the automaton of `uri.rl`, Uri::Create, and a reader written from the RFC |
| `RequestTable`, `HttpRequestParser` | the automaton and callbacks that read a request |
| `ResponseTable`, `HttpResponseParser` | the automaton and callbacks that read a response |
| `SchedulerTaskProofs`, `SchedulerProofs` | proofs about Scheduler: single steps, then the theorems |
| `TimerManagerProofs`, `IOManagerProofs`, `HookProofs` | proofs about the rest of the core |
| `ReactorProofs` | proofs about EventLoop, TimerQueue and AsyncLogging, one after the other |
| `TcpClientProofs`, `TcpConnectionProofs` | proofs about the two ends of a connection |
| `MCScheduler`, `MCTimerManager`, `MCIOManager`, `MCHook`, `MCParsers`, `MCReactor`, `MCHttpConnection` | instances for TLC |

Variables and actions keep the source's names. Where modules of the reactor that
`MCReactor` extends together would define a name twice, one of them has another
name (`handleWakeup` is `EventLoop::handleRead`, `handleConnRead` and `handleConnWrite`
are those of TcpConnection, `pollConn` is what epoll_wait reports of its channel,
`stopLogging` is `AsyncLogging::stop`; `QueueNext`, `ClientNext`, `ConnNext`,
`LogNext`). A
definition whose comment begins with "Mutant" is a plausible mistake in the
definition that follows it. It is no part of the model; each property of a passing
run has one that violates it.

**Scheduler.** A thread is a process with a program counter in `run()` or
`idle()`. `m_mutex` is explicit because `run()` scans the queue under it, entry by
entry, while states change outside. `swapIn` writes EXEC in a step after the one
that took the task; HOLD is written after the context is saved. The two parts of
`IOManager::stopping` (pending events, then queue and count under the lock) are two
steps, and so are the two flags `stop()` writes. What a task does is the
environment: schedule, arm a waker, suspend, yield READY, return, throw.
Abstracted: contexts and stacks; bytes in the pipe (it is edge-triggered, so one
boolean); batches, which are single schedules.

**TimerManager.** Each operation takes the read-write lock once and is one action.
Steps of their own are the clock readings before the lock, in the constructor of a
Timer (`NewTimer`, before `AddTimer` inserts it) and in `listExpiredCb`, and the
notification after the unlock. An entry of `m_timers` carries the key it was
inserted with, as in a `std::set` ordered by a field of its elements: `find` meets
it only under that key. The conversion of the timeout to `int` keeps its width
(`IntMod`). The clock may be set back.

**IOManager.** An operation finds the context under `m_mutex` and acts under the
context's mutex: two steps. An idle thread holds what epoll_wait reported until it
has that mutex. The kernel's table is explicit. A descriptor may be closed behind the
IOManager's back. Contexts have a generation, since a resize that comes late drops
contexts and a later one makes them anew (`made` counts them).

**Hook.** One fiber makes one call after the other on one socket; timer callbacks
take three steps (lock the weak pointer, set `cancelled`, cancelEvent) that overlap
with later waits and calls; `close()` takes three. `cause` records who ended a wait:
the event, the timer of a sleep, close(), or a callback of this call or of an earlier
one. Timer objects and `timer_info`s
are reused once nobody refers to them, so the model is finite without a bound on
calls. IOManager and TimerManager appear by what the other modules check of them.

**EventLoop.** Each access to shared state (`quit_`, the queue, the eventfd) is a
step. A functor or a channel's callback may queue another functor or quit the loop.
`EventLoopThread` publishes the loop before `loop()` is called, and its destructor
quits and joins the thread if it sees a loop.

**TimerQueue.** A Timer is an object at an address that may be used again; a
TimerId is an address and a sequence number. The callbacks of expired timers are
steps between `handleRead` and `reset`, in which the loop's thread adds and cancels.
Other threads do so through functors (`requests`); their addTimer reads the sequence
number in a step of its own, when the loop may have the timer already or have deleted
it (`unread`, `addTimerReturns`). `handles` holds pairs of the TimerId that a
timer was made with and the one its caller got. `repeating` and `cancelled`
record history for the properties.

**TcpConnection, TcpClient.** A public method reads or writes flags in the thread
that calls it and hands the rest to the loop, so a call is a sequence of steps. The
kernel cuts writes as it likes, the peer may close at any time, attempts to connect
fail or are answered. A failed `JKYI_ASSERT` ends the process (`aborted`, `crashed`).
Of a connection, `callSteps` is what remains of a call of the other thread, `pending`
what its loop has queued and `baseFunctors` what the loop of the server has.

**AsyncLogging, HttpConnection.** A log buffer is the sequence of its lines and a
body a sequence of bytes, each a digit, CR, LF or content; the spare buffers and what is
thrown away, `memmove` and `len` are as in the code. The logging thread takes the
buffers in one step (`Swap`, under the mutex) and then, while others append, throws
away what is too much (`Discard`), writes one buffer after the other (`Write`) and
takes two of them back (`Reuse`).

**The parsers.** The tables hold every state and transition of the generated
automata with the embedded actions, over classes of characters that no state tells
apart. A position in the input is the set of names that a reader of the grammar has
given it ("the host begins here"), so registers such as `mark` are finite although
inputs and reads are of any length.

## 3. Runs

| Run | Bounds | Properties |
|---|---|---|
| `workers` | 2 workers, 2 callbacks, 2 callback fibers, 2 yields | OneThreadPerFiber, FiberAssertions, CountersExact, NoFiberStranded, SchedulerInv, NeverTwice, WaitsFollowProtocol |
| `live` | 2 workers, 1 fiber, 1 yield, fair | EveryJobRuns, StopReturns |
| `alone` | only the calling thread, 1 fiber, 2 callbacks, 2 yields | StopDrains, also if tasks wait after stop() |
| `drains` | 2 workers, 1 fiber, 2 yields | violation of StopDrains (section 5) |
| `timers` | 2 threads, a recurring and a one-shot timer, clock to 2, set back by 3 | CbIffInSet, NoOversleep, OverIsOver, NeverEarly |
| `events` | 2 users, 1 thread, READ and WRITE of two descriptors beyond the table, 3 waiters, 2 contexts per descriptor, closes | KernelAgrees, WakeOnce, PendingExact |
| `events_stale` | 2 users, 1 thread, 2 waiters | violation of TriggerAssertion |
| `io` | 2 timers, 2 timer_infos, all four kinds of call, a close, fair | SuccessIsEarned, WakesFollowProtocol, TimeoutIsOwn, OnlyLostWakesHang |
| `io_lost` | 1 timer, one kind of call, fair | violation of CallReturns |
| `parsers` | none: all inputs of any length, cut into reads in all ways | UriExactlyUris, UriFieldsAreComponents, UriThrowsOnlyOnEmptyPort, RequestEndsAtBlankLine, RequestElements, ResponseEndsAtBlankLine, ResponseElements, ResponseFlagsAreSaid |
| `reactor` | below, fair | NoSleepOnPending, QuitEndsLoop, TimerfdArmed, RepeatsUntilCancelled, OneConnectIsSafe, StopSettles, ClosesOnce, InOrderThenFin, ShutdownSendsFin, BodyIsContent, NoLineLost |
| `chunks` | as `reactor` | violation of LenIsUnparsed |

`reactor` holds six parts that share no state in it: a behaviour is a behaviour of
one of them and the other variables stay as they are. Loop: 2 users, 2 functors, 1
channel. Timers: 2 addresses, 2 timers, delays and intervals 0 and 1, clock to 2, 1
waiting functor. Client: 2 calls of connect(), calls begin with at most 1 functor
waiting. Connection: 2 messages of one byte, 1 call of the other thread. Body: digits in base 2, a
buffer of 20, one to three chunks with a size line of one or two digits. Log:
buffers of 4, lines of 1, 2 and 4, 5 lines, at most 3 waiting buffers.

Why the bounds are enough to be interesting:

- Two threads are what a race over one fiber takes. Two callbacks let a thread use
  `cb_fiber` again after it was taken away, and two yields let a fiber be woken
  early and then wait again.
- In `timers` a margin (`Hour`) of 2 is above the lag of 1 and below the step back of
  3, so both answers of `deleteClockRollover` occur; the longest sleep (3) is above
  both periods. A one-shot and a recurring timer meet every branch of `listExpiredCb`.
- In `events` both events of a context, two users and an idle thread make every pair
  of add, delete, cancel and handle meet. The descriptors 2 and 4 are both beyond the
  table, and the resize for 2 makes it too small for 4: the two resizes come in either
  order, and a table that was shrunk grows again. A second idle thread takes TLC past
  five minutes; the proofs are for any number of threads.
- In `io` two timers let a callback of an earlier wait overlap with a later one.
- In `reactor` two functors let one be queued by the other while the batch runs; two
  timers, one address used again, a cancel in a callback and one in a functor meet
  every branch of `reset`; one attempt to connect can fail, be stopped, be retried
  and be lost; a line of 4 fills a buffer of 4 exactly.

Each property says in its definition what it excepts, and the exceptions are
behaviours of the code: `KernelAgrees` a descriptor that was closed with an event set,
and one whose context a late resize replaced; `SuccessIsEarned` a connect() whose wait
was ended by close() or by a callback of an earlier call; `RequestElements` an element
that a read has cut, of which the callback gets the rest, and a query cut so, of which it
gets bytes at an offset of an earlier buffer or none; the three properties of responses a
special header (Connection, Transfer-Encoding or Content-Length) with an empty value, each
as far as it goes wrong there; `RepeatsUntilCancelled` the TimerId of a timer that was
deleted before the TimerId was made; `OneConnectIsSafe` a second connect() and a restart() that
overrules a stop(); `ClosesOnce` and `InOrderThenFin` a call that overlaps the
close; `BodyIsContent` a read that cuts a size line, and bytes used again;
`NoLineLost` thrown buffers, and a line that fills its buffer exactly;
`OnlyLostWakesHang` the lost timeout of section 5 and an event registered while the
socket is being closed.

Symmetry is used over threads and, in `alone`, `events` and `events_stale`, over
interchangeable jobs, users or waiters; never where a liveness property is checked.
Deadlock is not checked in `io`, where a fiber on a closed socket may really be left
with nothing able to happen, nor in `parsers`, `reactor` and `chunks`, whose inputs,
calls and lines end.

**Fairness.** Scheduler: strong fairness for each thread, since the threads share a
mutex and the kernel serves every waiter; strong fairness for each armed waker and
for a `stop()` that has begun; weak fairness for the tickle that follows a push. A
task is assumed not to compute for ever. epoll_wait returns at the latest after
MAX_TIMEOUT, which is why `EveryJobRuns` holds although a tickle may be skipped:
without the timeout (the property's mutant) it does not. Hook: weak fairness for the
fiber, for each timer and its callback, for the report of data that is there, and for
a `close()` that has begun. EventLoop: weak fairness for the loop's thread, which
in epoll_wait means only that it returns when the eventfd is readable, and for a
thread between its change and `wakeup()`; the timeout of epoll_wait is not assumed.
TcpClient and TcpConnection: weak fairness for the loops and for a call that has
begun, and strong fairness for the report that a connection is writable, since a
peer that reads makes room again. Nobody is obliged to send, to call or to close.

## 4. Proofs

TLAPS checks these for every value of the constants that meets the named
assumptions (`SchedulerAssumption`: finitely many threads, at most one calling
thread, disjoint sets; `TimerAssumption`: the lag is below the hour;
`IOManagerAssumption`, `HookAssumption`, `UsersAssumption`, `ConnectionAssumption`,
`LoggingAssumption`: the types of the constants, and names that cannot be confused) and
the hypotheses stated with a theorem.

**SchedulerProofs.** `SchedulerInductive` proves
`IInv == TypeOK /\ CountersExact /\ SchedulerInv`; from it follow `TypeCorrect`,
`NoFiberOnTwoThreads`, `AssertionsHold`, `CountersAreExact`, `NoFiberIsStranded`,
`TasksAreInOnePlace` and, with one more step argument, the refinement
`WaitsKeepProtocol`.

`OneThreadPerFiber` is not inductive: that a thread may swap in what it took must
follow from what it knew under the lock. The argument: a task is in one place
(`UniqueInv`), except that a running fiber may be queued as well if its waker fired
early (`RunningInv`). As long as it is EXEC the scan skips that entry, so it is never
taken while it runs (`WakeInv`: EXEC implies not taken), and the entry stays, so the
wake-up is not lost (fired and EXEC implies queued), which is also why writing HOLD
late strands nobody. A fiber kept for callbacks is INIT and private (`CacheInv`).
`PlaceInv`, `FreshInv`, `BodyInv` and `StartInv` tie the locals of `run()` to its
program counter and jobs to where they can be. The counters are proved by the sets
of threads at the program counters between `++` and `--`: each action moves at most
one thread across the border.

`JobsAreKept` adds `JobInv`: a job that is done is nowhere (`DoneInv`), one that was
scheduled and is not done is queued, taken or the function of an unfinished fiber
(`KeptInv`). `NothingRunsTwice` follows. `StopDrainsAlone` assumes that there is a
calling thread and no worker: then what `idle()` saw when it decided to end stays
true until `run()` returns (`AloneInv`, with `ExecInv`: a fiber that is EXEC is
swapped in on some thread). With workers it is false; `drains` shows how.

**TimerManagerProofs.** `TimerInductive` proves
`TimerInv == TypeOK /\ CbIffInSet /\ NoCb /\ Readings`: a timer that was not inserted or
is over has no callback, and one that waits to be inserted was not yet (`NoCb`), the clock values that threads hold are at most
`MaxLag` old, and neither they nor `m_previouseTime` lie after the latest time the
clock has shown (`Readings`). `SetMatchesCallbacks`, `WhatIsOverStaysOver` and
`NothingFiresEarly` follow. `Readings` is what separates a stale reading from a clock
that was set back. `NobodyOversleeps` needs `SleepInv` beside it: no entry lies
further ahead than its period (`NextIsNear`), periods fit in an int (`PeriodsFit`, the
hypothesis that twice a period is below `IntMod`), and while `m_tickled`
suppresses notifications the last one has yet to be answered (`TickleOwed`).

**IOManagerProofs.** The inductive invariant `IInv` ties each user's position to
what it holds (`OpInv`), each waiter to one event bit or one call
(`SlotInv`), and the count to the set of event bits (`CountInv`). `PendingIsExact`
and `WakesOnce` follow for any table, even one that shrinks. `KernelInStep` proves
`KernelAgrees` of every behaviour. The property is about the descriptors whose context
was made once (`Kept`): two descriptors beyond the table may resize it in the wrong
order, and that replaces a context that is in use, but disturbs no other descriptor. Two
theorems give conditions under which none is replaced (`NoneReplaced`), so that the
property speaks of all descriptors: one caller of addEvent at a time
(`KernelInStepAlone`), or descriptors below the size that the first resize makes
(`KernelInStepSmall`).

**HookProofs.** `HookInv == TypeOK /\ CallInv /\ WaitInv /\ TimeoutInv`: of the event,
the timer of a sleep and a wake-up that was given at most one is there, and only while
the fiber waits (`WaitInv`); a callback that has marked, or may yet mark, the
`timer_info` of the call belongs to a timer that expired during it (`TimeoutInv`).
`SuccessesAreEarned`, `TimeoutsAreOwn` and the refinement `HooksKeepProtocol` follow, for
any number of timers in flight.

**ReactorProofs, the loop.** `LoopInv` strengthens `NoSleepOnPending` by where else a wake-up
is due: wherever the functors in the queue would be left for the next batch.

**ReactorProofs, the timers.** `QueueInductive` assumes that delays, intervals and the
bound of the clock are natural numbers (`Times`) and proves
`QueueInv == QueueTypeOK /\ IdInv /\ HandleInv /\ PlaceInv /\ RepeatInv /\ TimerfdArmed`.
No two timers are made with the same address and number (`IdInv`); the TimerId that a
caller got names its timer as long as that exists (`HandleInv`); a Timer object is in the queue, among the expired or in a
functor, and in one of them only (`PlaceInv`); what a callback cancels is remembered
until `reset()`, and only that (`RepeatInv`). `TimerfdIsArmed` and `TimersRepeat`
follow: that an address is used again does not confuse two timers because the
sequence number differs, and the timerfd is never later than the first timer because
only a cancel, which takes timers away, leaves it alone.

**ReactorProofs, the log.** `LogLosesNoLine` proves `NoLineLost` for any number and any
lengths of lines, sizes of buffers and limit on waiting buffers (at least 1). The file
and the buffers that wait are one sequence of lines with rising numbers, none above the
number of lines appended so far (`Numbered`), which is why a new line may go to its end.
The lemmas say what each way of moving a buffer does to that sequence: a line or an
empty buffer at its end, a buffer from its front into the file, buffers left out of the
middle. `BuffersReturn` is the part about the assertions of `threadFunc`: append() takes
`nextBuffer_` away only together with handing in a full buffer, so whenever the logging
thread gave both its buffers there are two to take back, and `erase` leaves two.

**TcpClientProofs.** `ClientInv == TypeOK /\ SocketInv /\ SafeInv`. `SocketInv` says
who owns a socket, and that a channel that has left the poller waits for exactly one
`resetChannel`. `SafeInv` is about behaviours with one connect(): the one attempt is
in one place (a call that has not queued startInLoop yet, a functor, a timer, a
channel, a connection), and what a stop() has cleared stays cleared unless restart()
overrules it. `ClientIsSafe` follows for any number of stop() and disconnect() calls,
retries, lost connections and waiting functors; the absence of socket leaks in it
holds for any number of connect() calls too.

**TcpConnectionProofs.** `ConnectionLives` proves `ConnInv`, for any messages, any
message size and any number of calls. `ClosesOnce` is far from inductive: that an
assertion holds depends on what both loops have queued. `Life` therefore names the
phases of a connection: new (only connectEstablished is queued), up (`Up`), closed with
its removal queued in the loop of the server (`Closing`), dropped by the server with
connectDestroyed as the last functor of its own loop (`Erased`), and out of epoll
(`Destroyed`). Each phase fixes `connections_`, `baseFunctors`, the state of the channel
in epoll, and which functors may be in `pending`. handleClose is reached only in `Up`
because a closed channel has no events and what remains of an event that is being
handled has neither a read nor a hang-up (`Shut`); `forceCloseInLoop`, which may still be
queued, tests the state again. Two things leave the phases, and the property excepts
both: a step of a call that reaches the connection after it was closed (`late`), and a
close of a channel that had no events, which puts it back into epoll (`parked`).
`ConnectionClosesOnce` follows. `ConnectionSendsInOrder` needs `Flushing` beside it:
what waits has its write event, and the end of the stream was sent only when nothing
waited; that the bytes on the wire and in `outputBuffer_` are what `sendInLoop` took
holds in every state, late calls or not.

`IInv` of the scheduler is checked by `workers`; `ClientInv`, `QueueInv`, `ConnInv` and
the conjuncts of `LogInv` other than types were also checked with TLC on the instances
of `reactor`.

**Only model-checked.**

- Liveness is out of the provers' reach: `EveryJobRuns`, `StopReturns`,
  `OnlyLostWakesHang`, `QuitEndsLoop`, `StopSettles`, `ShutdownSendsFin`.
- `BodyIsContent`: that a size line is read back as the number it was written from is a
  fact about a recursive function of the digits, and the position in the stream is a sum
  over the chunks before it. Both need induction over data.
- The properties of the parsers are about the states that finite tables reach. TLC is
  complete for them, since nothing is bounded; a proof would only list the same states.
- The modules of `reactor` are composed there only side by side; no theorem is about
  their composition.

## 5. Where code and comments disagree

- `drains` (scheduler.cc:230): a worker whose idle fiber has ended still takes
  tasks, and leaves without asking `stopping()` again. A task that suspends then is
  never resumed, although scheduler.cc:113 says unfinished tasks are executed.
- `events_stale` (iomanager.cc:355): idle() triggers every event epoll_wait reported
  if one of them is still set. One that was cancelled meanwhile trips the assertion
  of triggerEvent (iomanager.cc:36).
- `io_lost` (hook.cc:146): the timer is armed before the event is registered. If its
  callback comes first it cancels nothing, and the wait has no timeout any more,
  although hook.cc:138 says the call times out.
- `chunks` (http_connection.cc:99): when a chunk is in the buffer as a whole, its
  CRLF is moved out of the buffer and stays counted in `len`, which
  http_connection.cc:35 calls the number of bytes read and not parsed.

Behaviour the models contain and no comment contradicts: a READY fiber loses the
thread it was pinned to (`SettleReady`); a thread that took the timers' notification
and then executes a long task lets the others oversleep (`Alert` counts it as awake);
a timeout of 2^31 ms or more becomes negative (`EpollTimeout`; `NobodyOversleeps`
excludes it); two descriptors beyond the table may shrink it again
(`contextResize`), which drops a context with its events and waiter; addEvent for a number
that was closed with that event set, and is used again, meets the assertion of
iomanager.cc:123 (`AddAt`); a callback of an earlier call that had locked its
`timer_info` may end a later wait of the fiber early, after which do_io tries again, and a
`connect()` whose wait was ended so, or by `close()`, reads an SO_ERROR of 0 and returns 0
(`Woken`); a method is recognised by its beginning, so what is left of a method after a
read has cut it may be another (UNLOCK cut after UN is LOCK, http.cc:18), and a longer word
one it begins with (`on_request_method`); a query that a read has cut is given with the
start of an earlier buffer, or throws if its length becomes negative (`on_request_query`);
after a special header with an empty value the head of a response is not seen to end
(`BlankLineEnds`); addTimer on another thread may read the number of a timer that was
deleted, and the TimerId it returns may be another timer's and cancel it
(timerQueue.cc:98, `addTimerReturns`); a quit()
before loop() is forgotten (`loop`); a stop() of a TcpClient may be overruled by a
restart that is under way (`overruled`); a closed channel that had no events is put
back into epoll (`parked`); the log lines appended after the last swap before
stop() are never written (AsyncLogging.cc:56).

## 6. Not modelled

- FdManager and the flags of fcntl, ioctl and setsockopt (Hook takes the flags as
  given); the wrappers of pthreads, and FiberSemaphore. Its waiters would follow
  WakeProtocol, but nothing that `stopping()` asks counts them, so stop() does not wait
  for them: `StopDrains` and `StopReturns` are about fibers that wait for events or
  timers. `ScopedLockImpl` unlocks twice in `Scheduler::start`; the model holds
  the mutex until start() is done, which is the behaviour when nobody locks between
  the two unlocks.
- Of the reactor: ThreadPool and the pool of loops, accepting connections,
  `forceCloseWithDelay`, the high-water mark, `writeCompleteCallback_` (none is set), the destructors of TcpServer, TcpClient
  and TimerQueue, HTTP and RPC on top of it. The back-off of Connector is a timer of
  no particular length.
- Of the HTTP client: bodies with a Content-Length, chunk extensions, requests and the
  pool. Of the
  parsers: the values of numbers.
- FoxThread, Redis and MySQL (call-backs and wrappers of libraries that are not in the
  repository); the HTTP server, WebSocket, HTTP/2 and ByteArray (sequential code in
  one fiber); sockets, addresses and streams, servers and workers, configuration,
  log, environment and utilities (I/O, start-up, lookups under one lock).
- Generated protobuf files, `reactor/examples`, `sample`, `template`; `tests` were read
  as documentation.

# Verification of little-bee-socket (cbee)

cbee is a C++17 library of network building blocks around one epoll loop. This
directory holds TLA+ specifications of its concurrent and time-dependent parts,
TLC configurations that model-check them on small instances, and TLAPS proofs
that hold for instances of any size.

All paths below are relative to `src/src/`.

## Inventory of the system

| Component | State | Operations | Depends on |
|---|---|---|---|
| `internal/IoManager` | `quitFlag`, `mtx`, `pendingFunctors` | `loop`, `quit`, `runInIoThread`, `runPendingFunctors`, `runAfter`, `runEvery`, `cancelTimerHandler`, `update/deletePollerEvent` | EPoller, EventTrigger, EventTimerHandlerQueue |
| `internal/EventTrigger`, `internal/system/EventTriggerFd` | counter of an eventfd | `triggerOnce`, `handleRead` (drains the counter) | EPoller |
| `internal/system/EPoller` | epoll set, `pollContainer` | `poll`, `updateEvent`, `deleteEvent` | kernel |
| `internal/EventTimerHandlerQueue`, `internal/TimerHandler` | multimap of handlers by deadline, `s_numberOfCreated` | `addHandler`, `cancelHandler`, `handleRead` (extract, run, renew, re-arm) | EventTimerFd |
| `internal/system/EventTimerFd`, `Timestamp` | a one-shot timerfd on `CLOCK_MONOTONIC`; wall-clock deadlines | `triggerEventAt`, `cleanEvent`, `now`, `addSeconds` | kernel |
| `internal/system/Event` | interest mask, active mask, four callbacks | `enable*`, `disable*`, `handleEvent` | |
| `internal/Acceptor`, `internal/Connection` | a socket and its registered `Event` | construction registers, destruction deregisters, handlers | IoManager, SocketFd |
| `internal/system/SocketFd`, `Sockaddr` | a file descriptor, an address | wrappers of socket calls | kernel |
| `log/Logger`, `internal/Initializer` | none of their own | configure the default logger when the library is loaded | easylogging++ |
| `internal/lib` | vendored easylogging++: configurations, streams by file name, counts of unflushed lines | `set`, `setGlobally`, `configure`, dispatch of a line, `flush` | file system |
| `Server`, `internal/Buffer` | callbacks, an empty buffer | setters, constructors | |

How they interact: one thread, the one that constructed the `IoManager`, runs
`loop()`: wait in `EPoller::poll`, call `handleEvent` of each event of the batch,
run the functors other threads have left in `pendingFunctors`. Every other
thread reaches the loop's objects through `runInIoThread` only, which pushes a
functor under `mtx` and writes the eventfd to end the wait; `quit` sets an
atomic flag and writes the eventfd. Timers are one more descriptor of the loop:
the queue keeps the handlers, the timerfd the time of the first of them, and
handler callbacks may add and cancel handlers while the queue is being served.

What is hard, and what would make each part correct:

- **Wake-ups.** The vector and the eventfd are two pieces of state written and
  drained in separate steps by different threads. Correct means: no interleaving
  leaves the loop asleep with a functor or a `quit()` nobody will wake it for.
- **Functors.** Each runs once, in the order queued, under no lock; those given
  on the I/O thread run at once.
- **Non-blocking descriptors read later than polled.** Every failed system call
  ends the process (`HANDLE_ERROR`), so a read must find what the poll promised,
  although other callbacks of the batch run in between.
- **Timers.** The timerfd is armed for the first handler only, is not re-armed by
  a cancel, forgets its expiration when it is set, and counts another clock than
  the one deadlines are taken from. Correct means: no handler early, late without
  bound, lost, run twice, or run after its cancel.
- **Lifetimes in a batch.** The batch holds plain `Event` pointers, epoll holds
  another for each descriptor, and both descriptors and addresses are used again.
  Correct means: each open descriptor has one live object that will deregister
  and close it, in this order; nobody is called back on a report that another
  object's socket gave; no pointer is followed after its object is gone.
- **Which callback a report triggers.** A report has several bits and triggers one
  callback. Correct means: a hang-up leads to the removal and a reset to the error
  callback whatever else is reported, and each queued connection is accepted.
- **Log files.** Levels share streams, streams are kept across configurations, a
  file that cannot be opened changes what is configured. Correct means: a level
  does what was asked last, and lines are neither reordered, lost nor held back
  beyond the flush threshold.

`PROJECT.json` lists every hazard at its line with the properties that cover it.

## Modules

| Module | What it is |
|---|---|
| `FunctorQueue` | abstract: what `runInIoThread` promises |
| `IoManager` | the loop, the eventfd, the vector and its mutex, any number of calling threads |
| `IoManagerProofs` | its proofs |
| `MCIoManager` | symmetry for TLC |
| `TimerPromise` | abstract: what the timers promise |
| `TimerQueue` | handler queue, timerfd, wall clock, re-entrant callbacks |
| `TimerQueueProofs` | its proofs |
| `MCTimerQueue` | sets of delays, intervals and clock jumps for TLC |
| `IoTimers` | composition: `runAfter`, `runEvery` and `cancelTimerHandler` of any thread, through a queue of functors, over `TimerQueue` |
| `IoTimersProofs` | its proofs, on top of those of `TimerQueueProofs` |
| `MCIoTimers` | sets of delays, intervals and clock jumps, symmetry for TLC |
| `Event` | the masks of `Event`, its five operations on the interest, the choice `handleEvent` makes |
| `EventInterest` | one `Event` and what its owner has asked for |
| `ConnectionLife` | abstract: what cbee promises about sockets and callbacks |
| `Reactor` | registrations, batch, `Acceptor`, `Connection`, `SocketFd`, descriptor table, peers |
| `ReactorProofs` | its proofs |
| `MCReactor` | the instance for TLC |
| `TimeArithmetic` | deadline to `timespec`, with its theorems |
| `FoldTheorems` | what a fold over a sequence computes, for the proofs about the logger |
| `LogConfigurations` | `el::Configurations` and the maps of `TypedConfigurations`, as operators |
| `LogConfigurationsProofs` | its proofs |
| `Logging` | the default logger, its streams and files |
| `LoggingProofs` | its proofs, on top of those of `LogConfigurationsProofs` |
| `MCLogging` | calls that build configurations, for TLC |

Definitions whose comment begins with *Seeded fault* are never used by a
specification. Each is a plausible mistake in the operator defined after it,
with which TLC must find a property violated; `PROJECT.json` ("mutants") pairs
them. They show that the properties are able to fail.

### IoManager

A step is what one thread does between two points where another thread can see
or disturb it. The I/O thread's place in the code is `ioPc`:

| `ioPc` | code (`internal/IoManager.cpp`) |
|---|---|
| `before`, `returned` | outside `loop()` |
| `check` | `while(!quitFlag)`, line 25 |
| `poll` | inside `epoll_wait`, line 27 |
| `dispatch` | the loop over `activeEvents`, 28-31 |
| `source` | inside the callback of a descriptor other than the eventfd |
| `lock`, `swap` | the lock_guard's scope of `runPendingFunctors`, 76-80 |
| `run`, `functor` | the loop over `functors`, 82-86, and inside a functor |

A client's call goes `ready - lock - push - trigger - ready` in `runInIoThread`
and `ready - quitTrigger - gone` in `quit`. `push_back` is two steps, a read of
the vector (`LockPost`, into `snapshot`) and a write (`PushPost`), so that two
unprotected calls would lose a functor: mutual exclusion is a result here.
`IoThread`'s own calls are inline (`RunInline`), from any callback or functor or
outside `loop()`. Failing system calls set `process` and nothing happens after.

Readiness of the other descriptors is not constrained: any subset of `Sources`
may be ready at any poll. Their callbacks are user code, which may run functors
inline or block. The eventfd is level-triggered, as `EPoller` registers it.

### TimerQueue

All of it runs on the I/O thread. `pc` is `loop` (functors and other callbacks),
`batch` (the poll has reported the timerfd, its callback has not been called
yet), `read` (`handleRead` has taken the time, `TakeNow`, and has not read the timerfd
yet), `run` (inside `handleRead`, between callbacks) and `callback`. User code may
call `addHandler` and `cancelHandler` in `loop`, `callback` and, if
`BatchCallbacks`, in `batch`. `clock` is `gettimeofday`; `armed` counts down
independently of it; `SetClock` makes the two disagree. Handlers of one deadline
are run in any order, where the multimap would take them in the order they were
added. `Delays` includes negative values since a deadline is computed by the
caller and the functor that adds the handler may run late. `added` is history, the
ids ever given to `addHandler`: it keeps an id from being added twice, as
`s_numberOfCreated` does. `cancelHandler` may be given any id, added or not.

### IoTimers

`TimerQueue` lets anybody add any handler; `IoTimers` says who calls and how the
call gets there. A client's `runAfter` or `runEvery` takes the time, draws an id
and builds the functor (`CreateHandler`, into `call`), then queues it and returns
the id (`Post`); only then is the handler in `known`, from where any thread may
take it to cancel it. `CancelTimerHandler` has the same two steps. Between the two
steps the clock may move and other threads may queue theirs. The I/O thread runs
the oldest functor (`RunPending`) or calls inline (`IoRunTimer`,
`IoCancelTimerHandler`), which overtakes the queue. `ServeTimers`, `TimePasses` and
`SetClock` are the steps of `TimerQueue`.

`pendingFunctors` is one sequence here where the code has the vector and the local
copy of `runPendingFunctors`: that the two together are a FIFO queue, with inline
functors that overtake it, is what `IoManager` is proved to implement
(`FunctorQueue`). The eventfd, the mutex and `quit` are left to that module.

A handler is cancelled at most once, since a second cancel fails for sure
(`cancelHandler` ends the process when it finds nothing). Two switches say which
other calls the instance contains: `CancelsOneShots`, whether handlers that run
once may be cancelled, and `CancelsInline`, whether code on the I/O thread cancels.
With either of them `CancelFinds` fails (findings below); with neither it is proved.

### Event and EventInterest

A mask is the set of the bits that are 1. The operators return a member's new
value and keep no state, so `Reactor` uses them for as many `Event`s as it has;
`EventInterest` adds one `Event` next to the directions its owner has enabled and
not disabled since.

### Reactor

A handler is an address: `Listener`'s `Event` lives in the `Acceptor`, the others
in `Connection`s. `fdOf[h]` is the descriptor of the live object there, `Nothing`
when there is none; a new `Connection` may be allocated at any free address and
gets the lowest free descriptor, so both kinds of reuse happen within one batch.
`registered[fd]` is `data.ptr` of the epoll entry, `pollContainer` what `epoll_wait` has
written (the bits, by pointer) and `containerSize` its size, `batch` the vector that
`EPoller::poll` returns, less what has been handled. `ioPc` is `poll`, `collect` (the
loop over the container, `EPoller.cpp:38-51`), `dispatch` (`IoManager.cpp:28-31`) or
`functors`.

`EpollWait` reports what is true then, and `Collect` follows each pointer it has
reported to tell the `Event` what is active. The report waits in `pollContainer`, and
then in `activeEvents`, while peers, callbacks and other threads go on. `DispatchConnection` is the callbacks that
`Connection` handles with empty bodies, `DispatchRemove` the owner's
`removeCallback`, `AcceptConnection` `Acceptor::handleRead` with a
`newConnectionCallback` that makes a `Connection`, `AcceptUnwatched` one that keeps a
`SocketFd` of its own, as `AcceptorTest.cpp:20-23`. `Destroy` is both destructors
with those of their members, in order. Who else may destroy a `Connection` is the
constant `Destroyers`: its own `removeCallback` (`EPollerTest.cpp:137-142`), the
accept callback, any other thread. A functor always may.

Of a connection `sign` keeps the state the kernel reports: `idle`, `data` (unread
bytes), `closed` (the peer has), `shut` (this side has shut down both directions),
`reset`. `ShownBy` is the table of the epoll bits of each.

Abstractions: a callback is one step (what runs between its statements is in
`IoManager` and, for timers, `TimerQueue`), and so is the loop over the container: each
of its turns touches one `Event` only, so an `Event` that a thread destroys between
two turns is one destroyed before the loop, if its own turn was still to come, or
after it. The eventfd and the timerfd take no place in the container. `activeEvents`
is forgotten once it was handled, since nothing reads it again. An `Acceptor` is made
between batches.

`process` says how the process ends. `refused`: the kernel refuses `socket`, `accept` or
`EPOLL_CTL_ADD` (`Refused`: no descriptor, which is certain when `Fds` are used up, no
memory, no watch left, the connection aborted), which it may do at any such call.
`nothing to accept`, `not registered`: the call finds the reactor in a state it was not
made for. `dangling`: a call on a destroyed object (`FollowDangling`), undefined
behaviour, whether poll's `setActiveEvents` or the loop's `handleEvent`. Left out are
failures of `bind`, `listen`, `fcntl` and `setsockopt`, which depend on arguments only,
and of `shutdown` on a connection the peer has already reset.

### TimeArithmetic

`Now` and `GetRelativeTimeFromNow` over unbounded integers: 64-bit microseconds
overflow in 292,000 years.

### LogConfigurations and Logging

`LogConfigurations` has the two forms in which the library keeps what is
configured: `Configurations`, a value for each level and type with `Level::Global` as
one more level, and the maps built from it, which leave out a level that agrees
with `Level::Global`. `Logging` is the logger on top: `ReconfigureLogger` flushes,
merges and builds anew, `Log` and `LogFatal` write a line to the level's stream and
flush it when its level's count reaches the threshold. `LogFatal` ends with `abort()`,
which runs no destructor: the buffers are emptied without being written, and
`dropped` (history) keeps the lines they held. `streams` never shrinks, as
`LogStreamsReferenceMap`. `Init` is the state after `Storage` has registered the
default logger, `Logger::config` being one of the calls that may follow.

Abstractions: one thread logs; the buffer of a stream is not flushed by being
full, so a write fails when it is flushed, not when a line is added; one disk for
all files; a file that can be opened once can be opened later (`unusable` only
shrinks). Formats, standard output, rolling (`MaxLogFileSize`, 0 in
every configuration of cbee), verbose levels, occasional logging and further
loggers are left out.

## Runs

| Run | Question | Bounds |
|---|---|---|
| `io_safety` | are wake-ups, reads and the invariant kept in every interleaving, and is it one FIFO queue? | 2 clients, 3 functors, one of which quits, 1 source, eventfd limit 3, container of 1, signals |
| `io_live` | does what is posted run and does quit end the loop, without the 10 s time-out? does a poster ever wait for user code? | 2 clients, 2 functors, one of which quits; callbacks and functors may block |
| `io_early_quit` | does quit always stop the loop? **No** (finding below) | 2 clients |
| `timer_safety` | is the timerfd always in time, are the promises of `TimerPromise` kept? | 3 handlers, delays -1 to 3, intervals 0 and 2, time to 5, clock set back by 2 |
| `timer_batch` | does the read of the timerfd always succeed? **No** (finding below) | 2 handlers |
| `timers_refines` | does what is proved of `TimerQueue` hold under real callers, and are promises kept counted from `runAfter` and `runEvery`? | 2 clients, 2 handlers, any cancelled from anywhere, time to 3, clock set by 2 forth and back |
| `timers_cancel` | does every cancel find its handler and take effect, if only periodic ones are cancelled and by other threads? does a started timer reach the queue and leave it when due? | 2 clients, 2 handlers, time to 3, clock set forward by 2 |
| `timers_oneshot` | may a one-shot timer be cancelled? **No** (finding below) | 2 clients, 2 handlers |
| `timers_inline` | may code on the I/O thread cancel? **No** (finding below) | 2 clients, 2 handlers |
| `reactor` | is every callback justified, every descriptor owned and closed once, every connection accepted, every hang-up and reset announced? which pointers can dangle? | 2 peers, 3 descriptors, 2 addresses, a container of 1 that doubles; everybody destroys |
| `event_mask` | does the interest follow the calls? **No** (finding below) | one `Event`, no bound |
| `logging` | does each level do what was asked, are lines in order, kept but for failed writes and the abort, and not held back? | 2 levels and `Global`, 3 files, each of which may not open, all configurations of up to 2 of 7 calls, 3 lines, a disk that fills |

Why the bounds are enough: two clients are the least that race each other and
the loop at once, and the third thread is the loop; three functors let two be
queued while one runs, and one overtake the queue inline. A container of 1 is
full with one event, leaves out the other, and doubles (16 in the code); a limit
of 3 lets the eventfd saturate after three undrained writes. Three handlers are
one being run, one added or cancelled from its callback and one waiting; delays
cover deadlines past, present and future, equal deadlines and both orders.
In `IoTimers` two clients are the one
that starts a timer and another that cancels it, or two that start at once; two
handlers are one on its way and one running. `Delays` of its instances holds every
delay a wait in the queue or a clock set back can produce (`DelaysAssumption`).
In `Reactor` three descriptors are the listening socket and two connections: a third
peer in need of a descriptor meets `EMFILE`, which `AcceptUnwatched` brings about
with two; two connections are one that is handled and one that it closes, or
whose number and address it takes. A container of 1 is full with any event, and one of
2 holds a second pointer while the first is followed. In
`Logging` two levels and `Global` are the least for a level that differs from
another and from `Global`; three files let the library's default, cbee's and a
level's own differ; thresholds are 0 and 2.
One unit of time stands for `kMinimalTimerIntervalUs`. The proofs remove all
these bounds for the safety properties.

Other bounds: each functor is given once; a client that has quit makes no
further call; ids are drawn from `Ids`, so `|Ids|` handlers are created; `clock` stops at `MaxTime`
while the timerfd goes on, so `HandlerStarts` speaks of deadlines up to `MaxTime`.

### Findings

- `io_early_quit`: `loop()` clears `quitFlag` on entry (`IoManager.cpp:22`). A
  thread whose `quit()` comes before that (its thread started first, as the one
  in `IoManagerTest.cpp:48-62`, only sooner) is ignored: the loop wakes once for
  the eventfd and goes on for ever. `IoManager.h:18` asks that member functions
  be thread safe.
- `timer_batch`: `addHandler` from a callback that is served before the timerfd
  in the same batch re-arms the timerfd, which forgets the expiration epoll has
  reported. `cleanEvent` then fails with `EAGAIN` and ends the process, where
  `EventTimerFd.cpp:31` asserts that there is exactly one event.
- `timers_oneshot`: a thread that cancels a handler that runs once cannot know
  whether the I/O thread has just run it. If it has, `cancelHandler` finds nothing
  and `HANDLE_ERROR` ends the process (`EventTimerHandlerQueue.cpp:46`).
- `timers_inline`: `runEvery` on a client returns the id while its `addHandler` waits
  in the vector. `cancelTimerHandler` with that id on the I/O thread is run at once
  (`IoManager.cpp:61-65`, 111), overtakes the add, finds nothing and ends the
  process. The same happens to a handler that cancels itself from its callback:
  while it runs it is out of the queue.
- `event_mask`: `disableWriteEvent` (`Event.cpp:60`) has `&=` where
  `disableReadEvent` has `&= ~`: it keeps the write interest and drops the read
  interest. `Event.h:57` calls the member the events configured to epoll.

Three things that the models show and no text of the repository rules out: `DoesAsAsked`
has to except a logger whose `Global` file could not be opened, since
`Logger.cpp:10` leaves that file at the library's `logs/myeasylog.log`, and where that
cannot be created no level writes to a file, although `/tmp/logs` is fine;
`DanglingOnlyStrays` has to except connections destroyed by another callback or
thread while they wait in the container, where `EPoller.cpp:42` then writes through
the pointer, or in the batch; and `NoCallInVain` speaks of calls that the reactor's
own state makes fail, since a kernel that refuses a call (`accept` at the limit of
descriptors, say) ends the process with every connection it has.

## Fairness

- The I/O thread keeps moving through `loop()` (`WF` of `LoopSteps`), but a poll
  is owed only if the eventfd is readable: liveness never rests on a ready
  socket or on `kPollTimeoutMs`.
- Callbacks and functors may block for ever in `FairSpec`. That they return
  (`CallbacksReturn`) is the premise of `FunctorRuns` and `QuitReturns`, which are
  false without it, and not of `PosterProgress`. A callback runs finitely many inline functors.
- A client inside a call keeps moving (`WF`). For `mtx` it has strong fairness:
  the loop takes and releases the mutex again and again, and a thread asking for
  it is assumed not to be passed over for ever, as a futex-based mutex makes so.
- Nobody is obliged to call `loop()`, `runInIoThread` or `quit()`; only
  `LoopedSpec` (for `io_early_quit`) lets the application enter `loop()`.
- Timers: the loop and the callbacks progress and time passes. In `IoTimers` a
  client inside a call keeps moving, and `RunPending` has strong fairness: the code
  runs `runPendingFunctors` in every iteration of the loop, but the I/O thread is
  in callbacks in between, where `RunPending` is disabled. No client is obliged to
  start or cancel anything.
- Reactor: the I/O thread progresses (`WF` of `LoopNext`), which says that callbacks
  return. Peers, owners and other threads need not do anything. It is enough
  since a level-triggered epoll reports again what was left out or not acted upon.
- `EventInterest` and `Logging` have safety properties only.

## Proofs

`tlapm` on `IoManagerProofs.tla`, `TimerQueueProofs.tla`, `IoTimersProofs.tla`,
`ReactorProofs.tla`, `TimeArithmetic.tla`, `FoldTheorems.tla`,
`LogConfigurationsProofs.tla` and `LoggingProofs.tla` checks all of it. The
assumptions are those named in the modules: threads, functors and sources are
distinct, limits are positive, times and intervals are integers, the levels are
finitely many with `Level::Global` not one of them, and a call of `set` gives a
type one of its values. Every safety property of a run that passes is a theorem.

**IoManager.** `WakeupNotLost` speaks of the loop in `poll` only and is not
inductive: one must know that between the swap of the vector and the next drain
of the eventfd nothing goes missing either (`WakeupInv`), that a client past
`push` still carries its functor (`HandInv`), and that the vector a client writes
back is the one it has read, which is where the mutex comes in (`LockInv`). That
the eventfd's read succeeds needs `BatchInv`: its event leaves the batch in the
step that lowers the counter, and nobody else lowers it. `PlaceInv`, each functor
in one place only, gives the guards of `FunctorQueue`. `IndInv` is their
conjunction; one lemma per conjunct shows that every step preserves it.
`Implementation` then maps each step: `CallRunInIoThread` to `Hand`, `PushPost` to
`Enqueue`, `RunFunctor` to `RunOldest`, `RunInline` to `RunAtOnce`, all else to a
stutter, with `queue <- functors \o pendingFunctors`, so that the swap moves
nothing.

**TimerQueue.** `NotStalled` and `Punctual` hold at the points where the loop may
sleep; `TriggerEvent` re-establishes both whatever callbacks have done to the
timerfd. `Punctual` assumes that nobody sets the clock forward; everything else holds for
any jumps. For `Implementation`, `OnePlace` (no id is in two places), `LocalsEmpty` and
`DueInv` (what is to run was due at `handleTime`, which is not later than the
latest time shown; the time is taken before the timerfd is read, and the clock may
have moved on) give the guards of `TimerPromise`; a handler that has run is
already waiting again in its mapping (`Renewed`), so `RunHandler` is the abstract
run and the re-insertion in `TriggerEvent` a stutter.

**IoTimers.** `CallsImplementation` shows that `CallsSpec` implies the `Spec` of
`TimerQueue`, so all of `TimerQueueProofs` holds for these callers
(`CallersNeverStall` is one instance). The step that needs an argument is an add
from the queue: `TimerQueue` wants an id that was not added before and a delay in
`Delays`. The first is `OnceInv` (no two functors, in calls or queued, add or cancel
the same handler) with `ScheduledInv` (what is on its way was created and not added);
the second is that part of `ScheduledInv` which says that the deadline is some
moment's now plus a requested delay. `CallersPromise` maps a handler on its way
to one that waits already, so that `CreateHandler` is the abstract add and the
functor that adds it a stutter; `AskedInv` gives the guard of the abstract cancel.
`CancelsFind` assumes that both switches are off. `CancelInv` strengthens it by the
position in the queue: each cancel finds its handler among those in the queue
and those that functors *before it* will add, and so will each cancel still to
come, because a handler is `known` only once its add is queued.

**Reactor.** `OneOwner` is inductive by itself and carries the rest: a pointer in epoll
is that of a live object, so `EpollWait` never takes a dangling one into the
container, and `deletePollerEvent` finds its entry, which is half of `NoCallInVain`. The
other half needs to know that `accept` is never called without a connection to accept:
that is `ReportStillTrue` for the listener, whose backlog is shortened only by the
callback that its report leads to. `ReportStillTrue` itself is stable under the peers
because no sign loses a bit, and under reuse because a new `Event` starts with
nothing active; it needs `PeerInOnePlace`, that an accepted connection is not still
queued or served twice. `DanglingOnlyStrays` records in `strays` who was destroyed in
the container or the batch by somebody else, and the loop runs into a destroyed object
only if there was one (`OwnDiscipline`). With `Destroyers` at most `{"remove"}` there
never is (`StraysStayEmpty`): that is `NeverDangling`. `IndInv` is their conjunction.
`Implementation` maps every step to a step of `ConnectionLife` (`Dispatch...` to
`Callback`, whose `Announces` is `ReportStillTrue` read through `HandleEvent`) or, for
registration and the batch, to a stutter.

**TimeArithmetic.** `RelativeTimeArms` is what the timer model takes for granted when
it counts in units of the least interval: the `timespec` is never zero or malformed.

**Folds.** The logger goes over all its levels to merge, to build its maps and to
flush. In the model these are folds, whose definition recurs over sets of indices.
The library's induction theorems take an operator, so `FoldTheorems` proves
induction for sets of naturals instead, from their least elements, and with it
`FoldHistory`: there is a function `h` with `h[0]` the base, `h[k]` one step after
`h[k - 1]`, and the fold its last value. `Step` has two parameters more than it
uses, for what a folded `LAMBDA` takes from around it. What is to be shown of a fold
is then shown of every `h[k]` by `LevelInduction`, for the levels in whatever order
they are registered, `Level::Global` first.

**LogConfigurations.** `MergeReplaces`: merging configurations that set everything
gives these, although setting `Level::Global` on the way overwrites the rest; after
`k` levels a level has its own new value if it has been copied and the new value of
`Global` if not. `MapsGiveBack`: the maps that leave out what agrees with
`Level::Global` answer a lookup as the configurations do. `DoesAsAsked` rests on both.

**Logging.** `BuildGivesWhatIsAsked` is the same for the maps of files and streams,
where a level that cannot open its file has `ToFile` taken from it during the fold.
`IndInv` then has these parts. `StreamsOK`: each file has at most one stream, under
its name. `ConfiguredInv`: what a lookup in the maps gives, against `asked`;
`DoesAsAsked` follows. `InOrderOn`: for each file its content followed by the buffer of
its stream is in order, and no number is greater than `lines`, or a new line
could break the order. `NothingLostOn` is `NothingLost` without the abort. None of these is enough for
`NothingHeldBack`: `flush` of a level resets its count, so it must empty every buffer
that has a line of it. That is `OwnStreams`: a line that waits, waits in the stream
its level writes to now. It survives `configure` only because all levels are flushed
before the maps change, so that every stream that has not failed is empty
(`FlushFoldQuiets`), and `Fresh` says what new maps over such streams are; it
serves `Init` too. `CountsOK` bounds the lines a level holds by its count, and the
count by its threshold. All these are claims about the disk the lines have made, `d`
in `LinesInv`: while the process runs it is the one there is, and after `abort()` the
one there is has lost `d`'s buffers, to `dropped` (`LeftBy`). So what `NothingHeldBack`
counts after the abort is what the buffers held before it.

Only model-checked: the liveness properties (TLAPS does not handle fairness and
`ENABLED`), and the findings, which are counterexamples. `FunctorRuns`, `QuitReturns`,
`PosterProgress`, `HandlerStarts`, `HandlerReachesQueue`, `CancelTakesEffect`,
`BacklogServed`, `HangUpServed` and `ErrorServed` are of the first kind.

## Not modelled

- `Buffer` (a constructor only), `Server` (setters nobody calls), `Sockaddr`
  (conversion of addresses by library calls), and of `SocketFd` what only tests
  call: `connect`, `read`, `write`, `shutdownRead`, `shutdownWrite`, the addresses.
- `Timestamp::addSeconds`: a product of doubles, truncated.
- Construction and destruction of an `IoManager` while other threads use it.
- Logging from several threads. The library is built without `ELPP_THREAD_SAFE`,
  so its mutexes do nothing, and two loops that log race on one `stringstream` and
  its file: undefined behaviour whose outcomes cannot be enumerated.
- The rest of easylogging++, which is three quarters of the lines of the repository:
  macros, templates and platform sections that are not compiled here (asynchronous
  logging, crash handling, performance tracking, syslog, Windows), string and
  date formatting, the parser of configuration files and command lines, which
  cbee does not use. Modelled is the part with state that cbee's process runs.
  That is why the map covers most of cbee's own code and a small share of all lines.
- That the process exits on a signal during `epoll_wait` is in the model
  (`PollInterrupted`), but no text of the repository says what should happen.

## Plan

The loop, the timers, their composition, the sockets, the masks, the arithmetic
and the logger are done, with proofs of their safety. What could follow, in order:

1. `DanglingOnlyStrays` in a `Reactor` whose callbacks have several steps.
2. The life of an `IoManager`: construction, `loop`, `quit` and destruction between
   threads.

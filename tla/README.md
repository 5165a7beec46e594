# Formal models of bbtools-coroutine

TLA+ specifications of the concurrency core of the stackful coroutine library in
`src/bbt/coroutine`, model-checked with TLC on small instances and, where marked,
proved with TLAPS for all instances. Paths below are relative to `src/bbt/`.

## 1. The system and its parts

Coroutines run on *worker threads* (`detail/Processer`), which take them from a local
run queue, from a global queue or from each other. A coroutine that has to wait
publishes a one-shot *event* (`detail/CoPollEvent`) and yields; the event loop
(`pollevent/*`, driven by the scheduler thread), another coroutine, a canceller or a
closer of the descriptor decides the event and hands the coroutine back to
`Scheduler::OnActiveCoroutine`. Everything under `sync/` is built from `CoWaiter`, a
reusable slot around such an event.

| Part | State | Operations | What makes it correct |
|---|---|---|---|
| `detail/CoPollEvent` | phase word (phase and trigger flags in one atomic), listener below, per-descriptor slot (epoch, closing flag, waiters) | `Init*Event`, `Regist`, `Trigger`, `CommitPark`, `_Complete`, `BeginFdClose`/`EndFdClose` | the first trigger wins; the coroutine is resumed once, after it is switched out; nobody acts on a reused descriptor number; nobody hangs on a closed one |
| `detail/Coroutine` | run status, `m_await_event`, cancel flag, last resume reason | `YieldUntil*`, `RegistCustom`, `_RegistAwaitEvent`, `RequestCancel`, `CommitYield`, `OnCoPollEvent` | a cancel before, during or after registration ends the wait |
| `sync/CoWaiter` | slot (event of the current waiter), run status, payload | `Wait*` (older int interface, narrow, combined with a descriptor), `Notify`, `Cancel` | no waiter is orphaned, an accepted notify reaches its waiter with its payload, deadlines hold, the slot is released |
| `sync/CoRWMutex` | status, reader count, count of waiting writers, two wait queues | `RLock`, `WLock`, timed and immediate tries, unlocks | exclusion, writer preference, no lost wakeup |
| `detail/Processer` | local run queue, admission gate with in-flight count, sleep latch, lifecycle, retire flag | `_Run`, `_EnqueueAdmitted`, `_TryGetCoroutineFromGlobal`, `Steal`, `_WaitForWork`, `_BeginRetire`, `_DrainLocalToGlobal` | no coroutine is lost or duplicated; nothing is left in a retired queue; nobody sleeps on work |
| `detail/Scheduler` | global queues, processer map, active snapshot, worker records, target, mode | `RegistCoroutineTask[On]`, `OnActiveCoroutine`, `TryWorkSteal`, `SetProcesserNum`, auto-scaling tick, reaper | dispatch never fails while a worker is active; a resize commits wholly or not at all; retired threads are joined once |
| driver binding (`Processer.cc`, `DriverWakeDeferral`) | single slot with generation, lease count, deferred wakes | bind, tick, wait, wake, fail, unregister | no callback after unregistration returns; no self-deadlock |
| `detail/CfsRunQueue` | virtual runtimes, floor, running entity | `Enqueue`, `Pick`, `Account`, `Take` | unique membership, bounded unfairness |
| `sync/CoMutex`, `sync/CoCond` | queues of waiters | lock, unlock, wait, notify | exclusion, no lost wakeup |
| `sync/__TChan`, `sync/CoSelect` | buffer, reader flag, writer conditions, watchers | write, read, close, select | nothing enters a closed channel, nobody sleeps although it could go on, one operation per select |
| `sync/CoLockGuard`, `sync/CoEventValue` | owned lock; type identifier and bytes | construct, move, lock, unlock; store, read | an acquisition has one owner; a payload is read as the type it was written as |
| `pool/CoPool` | work queue, running count, latch | submit, worker, monitor, release | every accepted work is handled, release ends and leaves nothing running |
| `detail/Hook` | saved flags, timeouts | intercepted system calls | retry only on the same object, errno, time conversions |
| `detail/StackPool`, `Context`, `Stack` | buckets of free stacks, counters | apply, release, trim | counts agree with what is lent |
| `detail/DnsResolver` | bounded job queue, one thread | `Await`, `AwaitBounded` | work stays inside its caller's life; refused work never runs |
| stall scan (`Scheduler::_FixTimingScan`) | published run of each worker, last report | scan, report | a report is true and made once |
| `object/*` | index of members, counters | create, query, destroy | index and counts agree with what lives |
| pollevent backend, `detail/CoPoller` | rounds, listeners, deferred destruction | `StartListen`, `Trigger`, `CancelListen`, loop | no delivery from an earlier round, descriptors accounted for |

What is hard: the phases of a wait are advanced by up to five threads without a common
lock; a descriptor may be closed and its number reused between any two steps; cancel
flags and clocks are read outside the mutexes; wait queues keep entries of waits that
have already ended; gates are closed while enqueues are under way; a worker may go to
sleep while its work is being published. `PROJECT.json` lists these places (`hazards`)
with the properties that cover them; what the models show beyond them is in section 3.

## 2. Modules

| Module | Models | Checked in |
|---|---|---|
| `OneShotWait` | abstract: a wait is decided once and delivered once | refinement target of `CoPollEvent` |
| `CoPollEvent` | `detail/CoPollEvent.cc`, wait side of `detail/Coroutine.cc`, `Hook_Close` | `MCIo`, `MCWakeups`, `CoPollEventProofs` |
| `CoWaiter` | `sync/CoWaiter.cc` over events at the level of `OneShotWait` | `MCParts`, `MCRuntime`, `MCCoWaiter`, `CoWaiterProofs` |
| `CoRWMutex` | `sync/CoRWMutex.cc` over CoWaiters that are decided once | `MCParts`, `MCCoRWMutex`, `CoRWMutexProofs` |
| `CoMutex` | `sync/CoMutex.cc` on one worker | `MCRuntime`, `SyncProofs` |
| `CoCond` | `sync/CoCond.cc` | `MCParts`, `SyncProofs` |
| `CoPool` | `pool/CoPool.cc`, `pool/Work.hpp`, the latch; extends `CoCond` | `MCCoPool`, `SyncProofs` |
| `Chan` | `sync/__TChan.hpp`, `sync/Chan.hpp` | through `CoSelect`, `ChanProofs` |
| `CoSelect` | `sync/CoSelect.hpp`; extends `Chan` | `MCWakeups`, `MCCoSelect`, `ChanProofs` |
| `CoLockGuard`, `CoEventValue` | `sync/CoLockGuard.hpp`, `sync/StdLockWapper.hpp`; `sync/CoEventValue.hpp` | `MCParts`; `CoLockGuard` in `SyncProofs`, `CoEventValue` in `CoWaiterProofs` |
| `Processer` | `detail/Processer.cc` and the dispatching half of `detail/Scheduler.cc` | `MCProcesser`, `ProcesserProofs` |
| `ProcesserDriver` | driver slot, `DriverWakeDeferral`, the worker's Tick and Wait | `MCRuntime`, `WorkerProofs` |
| `ProcesserScaling` | resizing, auto-scaling, reaper of `detail/Scheduler.cc` | `MCRuntime`, `WorkerProofs` |
| `CfsRunQueue` | `detail/CfsRunQueue.hpp` and its use by `_Run` and stealing | `MCIo`, `WorkerProofs` |
| `WorkerStall` | `_FixTimingScan` and what a worker publishes for it | `MCIo`, `IoProofs` |
| `HookIo`, `HookTime`, `HookPoll` | `detail/Hook.cc`: descriptor calls; durations; poll and select | `MCIo`, `IoProofs` |
| `DnsResolver` | `detail/DnsResolver.cc` and the resolver calls of `Hook.cc` | `MCIo`, `MCDnsResolver`, `IoProofs` |
| `Event` | `pollevent/Event.cc`, `detail/CoPoller.cc` | `MCIo`, `IoProofs` |
| `StackPool` | `detail/StackPool.cc`, sizes of `detail/Stack.cc`, the borrowing of `detail/Context.cc` | `MCIo`, `IoProofs` |
| `ObjectRegistry` | `object/ManagerBase.hpp`, `MemberBase`, `CoObjectStats` | `MCIo`, `SyncProofs` |

The layers meet at their promises: `CoPollEvent` is shown to implement `OneShotWait`;
`CoWaiter` takes its events to be one-shot waits; the locks, the condition, channels and the
resolver take their waiters to be one-shot and notifiable until decided; `CoPool` is composed
with `CoCond` and `CoSelect` with `Chan` by extending them; `Processer` sees a coroutine only
as running, parked, runnable or finished, and `ProcesserScaling` sees a retiring worker only
until its thread ends. Every definition that stands for code has an entry with its source
lines in `PROJECT.json` (`map`).

`MCIo`, `MCWakeups`, `MCParts` and `MCRuntime` each hold several independent components. One
behaviour is one of them: a variable `part`, chosen in the initial state, says which, and the
variables of the others stay as they are. The components do not interact there.

### CoPollEvent

One step is one compare-and-swap on the phase word, one section under the table mutex
of the descriptor slots, or one plain store another thread can observe.

* `phase`, `mask` are the two halves of `m_state`; `Trigger` latches (`PENDING`) while
  the owner is still registering and completes (`TRIGGERING`) once it is parked.
  `tasks` are the threads inside `_Complete`, which takes three steps.
* `epoch`, `closing`, `waiters` are the slot of a descriptor; `waitEpoch` the generation
  sampled by `InitFdEvent`; `obj` (external) the kernel object behind the number, which
  changes when `close(2)` is issued.
* `pc` follows the waiting coroutine: `YieldUntil*` → `Init*Event` → publication of
  `m_await_event` → `Regist` (arm, listen, armed, track) → switch-out → `CommitPark`.
  `OnException` is the allocation failure of a registration.
* `cpc`, `kpc` follow `RequestCancel` and `Hook_Close`.
* `won`, `cur`, `estObj`, `claimObj` are history variables for the properties.

READABLE and WRITEABLE are one mask. The events are pollevent objects that deliver at
most once per armed round and may deliver until they are destroyed.

### CoWaiter

`m_notify_mutex` (`holder`) covers the entry checks up to the binding of the slot, all
of `Notify` and the unbinding; the clock, the cancel flag, the timer and the resumption
are outside it. The clock of a call is *ahead*, *just over* (by less than a
millisecond) or *past*; `rest` is `remain_ms`, read a second time in the source, or, in a timed
call of the older interface, the sign of the caller's `ms` (`FirstRest`): zero is accepted and
arms no timer, negative is refused by `InitFdEvent`.
`Unbind` clears the slot only if it still holds the caller's event, because a later
waiter may have evicted a decided residue. `YieldThrows` and the failing branch of
`InitAndBind` are the exception and failure paths, `Unwind` their roll-back.

### CoRWMutex, CoMutex, CoCond

The mutex of a primitive is held from the entry of an operation until it returns or, through
the yield callback, until the coroutine is switched out, so each such section is one action.
Queue entries whose wait has ended without a notify become `Dead` (`Gone` in `CoCond`): the
code leaves them in the queue and `Notify` on them fails. `CoCond` queues a waiter only in the
callback, so a wait takes three steps. `NotifyAll` takes two steps per entry, the pop under the
lock and the notify outside it, and each of the `Notifiers` may be in one at the same time. `CoMutex` puts all
coroutines on one worker: a coroutine that retries without yielding keeps it (`Retry`).

### CoLockGuard, CoEventValue

The four guards share one shape and differ in the side of the lock they acquire; a failing
`RLock` or `WLock` throws before ownership is set. Direct acquisitions (`raw`) feed
`adopt_lock`. A payload type is a base identifier and the qualifiers of each pointer level; the
32-bit identifier is two halves, since TLC's integers are 32 bits wide themselves.

### Chan, CoSelect

Each section under `m_item_queue_mutex` and each access to `m_run_status` or `m_is_reading`
outside it is a step; a wait is bound, its callback runs once the coroutine is switched out,
and it is decided by the first notify, timeout or cancel in between. A queue is its length.
The unbuffered channel keeps the queue of its base class (used by the inherited `Try*`) and a
second one of references, as the code does. A select watches, tries and unwatches one channel
at a time.

### CoPool

Work coroutines, monitor and Release share a number of worker threads (`onCpu`): a coroutine
keeps its thread from `Dispatch` to its next suspension, and Release in a coroutine keeps it
while it blocks on the latch. `fate` follows each task; `SubmitCheck`, `SubmitEnqueue` and
`SubmitNotify` are the three steps of a submission that a Release may fall between.

### Processer, ProcesserDriver, ProcesserScaling

In `Processer` actors are worker threads and other threads. One step is one atomic access or
one section under a mutex; the admission gate takes four steps (load, register, load again,
insert), publication of a wakeup one step per worker. `m_global_queue_mutex`,
`m_processer_map_mutex` and `m_run_cond_mutex` are modelled because the order of those locks
matters to who can interleave. Queues are sets. `MaxSteals` bounds successful takes, since two
idle workers may steal one coroutine from each other for ever. The atomics are sequentially
consistent, as the gate's own comment requires.

`ProcesserDriver` has one worker and its slot. `binding` is the record of each generation
(state, leases, terminal wake, detached); threads read the slot, ask for a lease and call in
separate steps, and may run `Unregister` from inside their own callback. The driver is external:
it remembers a Wake that comes before Wait blocks.

`ProcesserScaling` holds `m_lifecycle_mutex` from the entry of a request to its end, except
while a failed batch is cancelled, where the code releases it (`CancelBatch`). The tick is
three steps (gate without lock, claim and sample, decide); reapers claim, join and erase.

### CfsRunQueue, WorkerStall

Virtual time is counted in multiples of 1/`Unit`, so that the division by the weight is exact.
A coroutine is in a queue, running, or in somebody's hand with its debt; `hand` records who may
queue it next. The stall scan reads the clock first and then one worker's group at a time, while
workers begin and end runs.

### HookIo, HookTime, HookPoll, DnsResolver

The hooked descriptor calls of `Hook.cc` have one shape (set non-blocking, call, wait on EAGAIN,
look at the generation, call again, restore), so `HookIo` has it once, and its definitions are
mapped to different ones of these functions. `HookTime` computes the conversions with an `int`
whose largest value is `IntMax`; an I/O call under a socket timeout (`IoWaits`) looks at
`remain_ms` before each of its waits, at times that `WaitTimes` lists in microseconds. `HookPoll` looks, gathers, waits and looks again; what the kernel does is
external (`Happen`, `Withdraw`, `EpReadable`). `DnsResolver` distinguishes `Await`, whose job
writes into the caller's frame, and `AwaitBounded`, whose job owns what it writes.

### Event, StackPool, ObjectRegistry

`Event` is one object with a descriptor, a timer or both, started, triggered and cancelled by
any thread; the io_context (external) moves ended waits to a queue that the loop runs.
`StackPool` allocates between two locked sections; sizes are computed with a `size_t` and a
`ptrdiff_t` whose largest value is `PointerDiffLimit`. In `ObjectRegistry` an object's destructor runs at whoever drops the last reference, in
the steps of `MemberBase` and `ManagerBase`.

## 3. Runs

All runs use two TLC workers and finish within five minutes. What a component promises is one
property, the conjunction of its type invariant and the named parts in parentheses, which its
module states and comments one by one. "live" marks temporal properties.

| Run | Instance | Checks |
|---|---|---|
| `io` | event: 1 coroutine, 2 events, 1 descriptor, 2 closers, 2 generations | `TypeOK`, `ExclusiveCoroutine`, `FirstWin`, `CloseOwnObject`, `NothingStale` (`RetrySameObject`, `NoLeakedWaiter`) |
| | hooked calls: 2 coroutines, 2 objects behind one number | `DescriptorKept` (`StaleUntouched`, `FlagsKept`, `NeverBlocks`) |
| | poll: 2 descriptors, one of which epoll refuses (not asked for writing alone there); times: 16-bit int, values around every carry, waits begun before, in and after the last millisecond | `PollReports` (`PollAwake`, `PollNotEarly`); `LastsAsAsked` |
| | resolver: 2 `Await`, 2 cancellable `AwaitBounded`, queue of 2 | `DnsSound` (`WorkInScope`, `DnsNotStranded`, `RefusedNeverRuns`) |
| | event object: 2 restarts or cancels, 1 trigger under way; a descriptor watched only for writing is left out, it is treated as one watched only for reading | `EventSound` (`NoLateDelivery`, `DupAccounted`, `PersistKeepsWaiting`) |
| | stacks: 3 contexts, 4 sizes, capacity 2, 8-bit words | `StackSound` (`CountsTrue`, `CapacityHeld`, `StackAsAsked`) |
| | run queues: 2 coroutines, 2 workers, weights 1 and 2, 4 runs, 1 migration | `FairShare` (`OvertakingBounded`, `NoCredit`) |
| | stalls: 1 worker, 2 coroutines, clock to 6 | `StallReports` (`StallIsReal`, `StallReportedOnce`) |
| | objects: 3 objects, 2 keys, 2 threads | `RegistrySound` (`IndexNamesMembers`, `CountsLiveObjects`, `DestroysUnlocked`) |
| `wakeups` | event: 1 coroutine, 2 events, 1 closer, no timers | live: `WaitsEnd` (`ClosedWaitReturns`, `CancelEndsWait`), `ImplementsOneShotWait` |
| | channels: 3 coroutines; contention, batch, unbuffered and select scenarios | `ChanSound` (`ReaderNotStranded`, `WriterNotStranded`, `SelectNotStranded`, `SelectOnce`), live: `CloseEndsCalls` |
| `parts` | `CoWaiter`: 2 coroutines, 2 events, timed narrow, untimed combined and older calls | `WaiterSafe` (`WaiterReachable`, `NotifyCredit`, `SlotReleased`) |
| | `CoRWMutex`: 3 coroutines, queues up to 3, all operations | `LockConsistent` (`Exclusion`, `WriterCount`), `WriterPreference`, `UntimedNotStranded` (`WriterNotStranded`, `NoStranded`) |
| | `CoCond`: 3 coroutines, 2 callers of `NotifyAll`; guards: 3 over 2 locks; payloads: 5 base types, 0 to 7 pointers | `CondAllReached`; `GuardBalance`; `ReadAsWritten` |
| `runtime` | driver: 2 threads, 2 generations, 1 task | `DriverSafe` (`QuietAfterUnregister`, `OnlyAskedDetach`), live: `DriverReturns` (`UnregisterEnds`, `WorkIsRun`) |
| | scaling: 1 to 2 workers out of 4 identities, 1 caller, the loop, 1 failing join | `ScalingSafe` (`TargetIsActive`, `DriverPinned`, `RetireBounded`, `ManualStands`, `EveryThreadAccounted`), live: `RetiredJoined` |
| | `CoMutex`: 3 coroutines, one cancellable | `MutexSafe` (`MutexExclusion`, `MutexNotStranded`), live: `MutexProgress` |
| | `CoWaiter`: timed calls of all three interfaces, older ones with any `ms`; no payloads | live: `WaiterReturns` (`TimerReturns`, `CancelReturns`) |
| `pool` | 2 work coroutines, 1 task, Release in a thread (1 worker) or a coroutine (2 workers) | `PoolSound` (`ReleasedQuiet`), live: `AcceptedHandled`, `ReleaseReturns` |
| `processer_safety` | 2 workers (one added later), 2 threads, 1 coroutine, 1 steal | `NothingLost` (`Conserved`, `RetiredEmpty`), `RegistAccepted`, `NoSleepOnWork` |
| `processer_live` | 2 workers, 1 thread, 1 coroutine | live: `RunnableRuns`, `RetireExits` |
| `waiter_narrow_deadline` | 1 coroutine, timed narrow call | `DeadlineReturns` — **violated** |
| `rwmutex_timed_writer` | 3 coroutines with `TryWLock(ms)` | `NoStranded` — **violated** |
| `pool_release` | Release in a coroutine of the only worker | `ReleaseReturns` — **violated** |
| `chan_closed` | 1 writer, 1 reader that also closes | `NothingEntersClosed` — **violated** |
| `dns_cancelled` | 1 cancellable `Await`, 1 `AwaitBounded` | `WorkInScope` — **violated** |

Why these bounds. Two events let a late trigger of a finished wait meet the next wait of the
same coroutine; two closers and two generations let a number be closed, reused and closed again
while a waiter still remembers the first. Three coroutines give a lock a holder, a waiter and
one behind it; three queue entries leave room for dead ones in front of a live one. Two callers
of `NotifyAll` let one find the queue empty while the other holds an entry. Two workers and two
threads give an enqueuer, a retirer, a thief and its victim at the same time. Two generations
and two control threads give a leader, a joiner and a stale token. Capacity 2 and three
contexts make the last place contended while one stack is still being allocated. Four runs let
a coroutine be passed as often as its debt allows and once more if the accounting were wrong;
one migration takes a debt to another queue. The scenarios of the channels fix which coroutine
makes which calls, because all calls by all coroutines are out of TLC's reach; each scenario
has the contention of one group of hazards.

Deadlock checking is off where a system may rest: an event nobody triggers, a lock
nobody uses. In `Processer` it is on, since a worker always has a next step.

### Fairness

* `CoPollEvent`: threads inside a registration, `_Complete`, `RequestCancel` or
  `Hook_Close` finish, a queued coroutine is resumed. A descriptor, a timer or a notifier
  need never fire, so what is shown does not rest on them.
* `CoWaiter`: in addition time passes, an armed timer fires once its time has come, and
  the mutex is handed out fairly (strong fairness of unbinding). Nobody needs to notify.
* `Chan`, `CoSelect`: a coroutine inside a call goes on when it can; timers, cancels and other
  calls need not come.
* `CoMutex`: a coroutine that can go on again and again does (the worker's queue is fair), and
  a holder unlocks. `CoPool`: threads and runnable coroutines go on, sleeps end, a coroutine
  that again and again could get the condition's mutex or a worker does.
* `Processer`: threads run, a mutex that is free again and again is obtained, a resumed
  coroutine yields some time. The time-out of a sleeping worker is possible and *not*
  fair: no wakeup may depend on it.
* `ProcesserDriver`: the worker and each control thread take their next step; callbacks return.
  Timeouts of waits are not fair. `ProcesserScaling`: the loop thread turns, requests proceed, a
  retiring worker's thread ends.

### What the violated runs show

* `waiter_narrow_deadline`: the narrow wait computes the remaining time from a second
  clock reading and does not check it. If the deadline passes in between by less than a
  millisecond, no timer is armed and the wait lasts until somebody notifies. The combined
  wait has the check and a comment that explains it. `TimerReturns` (`runtime`) shows that a rest
  of 0 ms is the only way a wait with a deadline fails to return.
* `rwmutex_timed_writer`: a `TryWLock(ms)` that gives up wakes none of the readers it
  held back; on a free lock they stay suspended until another operation comes along.
  `UntimedNotStranded` shows that this is the only way: writers are not stranded by it, and
  before the first timed writer has waited nobody is (the history variable `timedWriter`).
* `pool_release`: `Release` takes a running count of 0 for an empty pool, also before the
  pool's coroutines have started; it then blocks the thread they need.
* `chan_closed`: a writer that was suspended tests for a close before it takes the lock again,
  and its element enters a channel closed in between.
* `dns_cancelled`: a cancelled `Await` returns while its job is under way, and the job
  writes into the caller's frame. `AwaitBounded` is not affected (`io`).

Not runs, but visible in the models:

* `WaitWithTimeout(0)`, and `CoCond::WaitFor(0)` with it, has no deadline: `InitFdEvent` refuses
  only negative times (`CoPollEvent.cc:313`) and `Event::StartListen` arms a timer only for
  positive ones (`Event.cc:182`, `:188`), so it sleeps until somebody notifies or cancels, while
  `CoWaiter.hpp:40-46` promises 1 on a timeout. It is the second of the two cases `TimerReturns`
  leaves out (`Untimed`); `DeadlineReturns` would fail on it as on the narrow wait;
* a call under `SO_RCVTIMEO` or `SO_SNDTIMEO` may end up to a millisecond early, and one of 1 ms
  may return `EAGAIN` without having waited: `remain_ms` rounds down (`Hook.cc:194`) what
  is left when the first system call has returned, although the comment at `Hook.cc:175` speaks of
  rounding up. `LastsAsAsked` states the bound of one millisecond;
* a `NotifyAll` may return before somebody it found queued has been woken, when another one has
  popped that entry and not yet notified it (`CoCond.cc:61-63`); `CoCond.hpp:49` says that it wakes
  everybody in the queue. `CondAllReached` leaves out exactly those, and the other call wakes them;
* a combined wait whose descriptor is closed by `Hook_Close` returns `Cancelled` although
  nobody requested a cancel, because `POLL_EVENT_CLOSED` falls through to the last line of
  `CoWaiter::Wait`;
* a cancel between the publication of the event and `InitCustomEvent` is reported as
  `RuntimeUnavailable`, not `Cancelled`;
* two coroutines on one *blocking* descriptor may make each other's call block or leave its
  flags changed, as the source says itself; `FlagsKept` and `NeverBlocks` are stated for the rest;
* `poll` without a timeout may return 0 when what woke it is withdrawn, and does not watch
  descriptors with `events = 0`; durations beyond the range of `int` milliseconds wrap or are
  refused;
* the average of `StackPool::OnUpdate` is rounded down and cannot rise before the number in use
  exceeds it by 8; in `CfsRunQueue` a stream of newcomers can keep a coroutine with debt waiting;
* writers of an unbuffered channel enter the queue of conditions in the order of their callbacks,
  not of their elements, so a read may wake a writer whose element is still there;
  `WriterNotStranded` is about buffered channels;
* two drivers whose callbacks unregister each other's driver would wait for each other's leases:
  the check against detaching oneself is per binding. `ProcesserDriver` has one slot;
* the `hostent` of a hooked look-up is in thread-local storage, which the next look-up on that
  worker overwrites. The contents of results are outside the model;
* a select sleeps on an element when its channel has a second reader: that reader found the queue
  empty and still holds `m_is_reading` when the element comes (`__TChan.hpp:266`), the try in the
  select's callback fails on the flag (`:263`), and the reset of the flag notifies nobody.
  `CoSelect.hpp:21-24` promises otherwise. `SelectNotStranded` is stated for a sole reader;
* a `const`-qualified pointer counts as depth 0 in `CoEventValuePointerDepth`, so the limit that
  keeps identifiers from wrapping does not see the levels below it; the run and the theorem about
  `ReadAsWritten` are about types of at most seven levels.

## 4. Proofs

Every theorem is about the component's own specification (`Spec`, `MutexSpec`, ...) and holds
for every value of the constants that satisfies the named assumption of its module. The
shape is always the same: an invariant that is inductive (its parts were checked by TLC first),
one lemma per action or group of actions, and the property as a consequence. None of the
properties is inductive by itself; what has to be added is the interesting part.

`CoPollEventProofs` (any sets of coroutines, events, descriptors and closers, any waits and
any bound on the generations; `CoPollEventAssumption`):

* `TypeCorrect`, `ExclusiveCoroutineHolds`, `FirstWinHolds`. That a coroutine is queued once
  depends on where its registration stands, which phase its event is in, and that only one
  thread is inside `_Complete` for it. `IInv` adds `AwaitOwn` (an awaited event belongs to its
  awaiter), `PcPhase` (program point against phase), `LiveAwaited` (an event that can still
  complete is awaited), `TasksAlone` (one completing thread per event), `MaskWon` (the flags
  are the first accepted mask) and `Delivered` (a queued or resumed coroutine carries it).
* `CloseOwnObjectHolds`, from `ClaimAlone`: while a claimant is between its claim and
  `close(2)` the slot is marked closing and it is the only one.
* `NothingStaleHolds`, from `StaleInv`: a wait's recorded epoch is never ahead of the slot's,
  and as long as the two agree and the wait was not ended by a close, the slot is not closing
  and the object is the one the wait was established on (`EpochSince`); the coroutine that
  returns carries the descriptor and epoch of that wait (`EpochDelivered`); events are filed
  under their own descriptor only (`FiledOwn`) and an event is out of the table and of the
  loop before its phase is final (`QuietOutside`).
* `OneShotSafety`: `Spec => OneShot!Spec`, the safety part of `ImplementsOneShotWait`. The
  mapping takes a coroutine to running, waiting, ready or ended, and the cause to the latched
  mask of its event. Each step is shown to be an abstract step of one coroutine (`AbsMove`) or
  none (`AbsStill`); `IInv` excludes the steps that would decide or deliver a wait twice.

`CoRWMutexProofs` (any finite set of coroutines, queues of any length; `CoRWMutexAssumption`):

* `ExclusionHolds`, `WriterCountHolds` and, together, `LockConsistentHolds`. Exclusion, the
  writer count and the types of the lock's own variables are inductive together; the queues are
  not needed, because a resumed coroutine looks at the lock again. Cardinalities are handled by
  lemmas about a coroutine joining and leaving a set.
* `WriterPreferenceHolds`, an action property: whoever gets the read lock has seen
  `m_wait_wlock_num = 0`, and `WriterCount` says that then no writer waits.
* `NotStrandedHolds`: no writer is stranded, whatever operations are used, and no reader before
  the first `TryWLock(ms)` has waited (after that it is false, see `rwmutex_timed_writer`).
  Needed are `Queued` (the live entries of the queues are exactly the undecided waits, once
  each), which is why an unlock that finds no live entry may leave, `WriterComing` (a free
  lock with waiting writers has a writer on the way that will take it) and `ReaderServed` (a
  free lock with waiting readers has somebody on the way). The last breaks with a timed writer
  that gave up: it holds readers back by being counted, and is not on the way.

`SyncProofs`:

* `MutexSafeHolds` (any finite set of coroutines; `CoMutexAssumption`): exclusion and no lost wakeup.
  Added: a live entry of the queue is a suspended coroutine whose wait is undecided
  (`MutexQueued`), and it is there once (`MutexQueuedOnce`).
* `CondAllReachedHolds` (any finite set of coroutines, any number of callers of `NotifyAll`;
  `CoCondAssumption`): whoever a `NotifyAll` found and has not been woken is in somebody's hand, or
  is still queued and the call goes on; a hand is filled only during a call (`CondPending`). Every
  other step keeps who is not woken where it is (`CondKept`).
* `GuardBalanceHolds` (any finite set of guards, any locks; `CoLockGuardAssumption`): the count
  of acquisitions of a lock is the number of guards that own it, through moves and failures.
* `PoolSoundHolds` (any coroutines, tasks and rounds; `CoPoolAssumption`). `m_running_co_num` is
  the number of coroutines inside their function and the latch the number of those that have not
  left it for good (`PoolCounts`); a task is in the queue, in one hand or settled (`TaskPlaces`).
  `ReleasedQuiet` follows from the latch at zero.
* `RegistrySoundHolds` (any callers, finitely many objects, any keys and kinds;
  `RegistryAssumption`). What is missing from the property is who holds what: the mutex is held
  exactly between the two countings and during a query (`MutexHeld`), a reference exactly by the
  calls that will drop it (`RefsHeld`), an object is destroyed by one call (`EndAlone`) that
  nobody's reference precedes (`CallRight`), an entry is under the key of its object (`OwnKey`) and
  the kind of a live object has its bucket (`ObjectRight`). The counts are then those of two sets
  that differ from the live objects by the calls between two countings (`InManager`, `InKind`).

`CoWaiterProofs` (any coroutines, events, payloads and calls; `CoWaiterAssumption`, in which
`"none"` is not a payload; any types of payloads, `CoEventValueAssumption`):

* `WaiterSafeHolds`. Added: who holds `m_notify_mutex` and what the slot is then (`SlotLock`),
  an event belongs to one call (`OwnEvent`), the slot's event is that of a call that will come
  back for it (`SlotOwned`), the latched mask and its payload are not replaced (`MaskLatched`)
  and are what the kind of call can meet (`MaskOfCall`), a cancel leaves its flag (`CancelFlag`).
* `ReadAsWrittenHolds`, under the hypothesis that no type has more than seven levels of pointers
  (`LevelsLimited`), which the static assertion does not quite ensure (section 3). A pointer's
  identifier is shown to give back the identifier and the qualifiers it was made from as long as
  nothing wraps (`PointerIdInjective`), the upper half grows to at most 5460 below the last of
  seven levels (`Levels`), and two types with one identifier agree level by level (`SameType`).
  The recursion has at most seven steps, so they are written out where induction would be used.

`ProcesserProofs` (any finite sets of workers, threads and coroutines; `ProcesserAssumption`):

* `NothingLostHolds`, `RegistAcceptedHolds`, `NoSleepOnWorkHolds`, from one invariant. A
  coroutine is in exactly one of local queue, global queue, hand, current, parked and finished
  (`InOnePlace`). That a retired queue stays empty rests on the protocol of the gate:
  `InflightCounts` (the counter is the number of enqueues past their registration) and
  `DrainHolds` (after the gate is closed and the counter was seen at zero nobody is about to
  insert). The load balancer's success rests on `MapLock` (nobody closes a gate while another
  holds the map mutex). Sleep is covered by `LocalAnnounced` and `GlobalCovered`: whoever put
  work into a queue is still to notify, or the latch is set, or somebody is awake to look.

`WorkerProofs`:

* `DriverSafeHolds` (any finite set of control threads, any number of generations; `ProcesserDriverAssumption`): the lease
  count of a binding is the number of callbacks under way (`LeaseCount`), a slot is detached only
  after a reservation and with no lease (`SlotShape`), and what an unregistering thread may
  conclude at each point (`UnregisterShape`).
* `ScalingSafeHolds` (any finite sets of callers and workers, any limits;
  `ProcesserScalingAssumption`): the section under `m_lifecycle_mutex` belongs to its holder
  (`LockHeld`), batches in preparation are disjoint and not active (`Gates`), before the first
  commit only the starter works (`StartPhase`), a thread is joined by the one that claimed it
  (`Joins`). There is always a fresh identity for a worker: the assumption asks for
  as many as the largest active set, the outstanding retirements and one failed batch per
  caller can use up, since identities stand for objects the code allocates.
* `FairShareHolds` (any sets of coroutines and processors, any weights that divide `Unit`,
  any lengths of runs; `CfsAssumption`): a coroutine is in one queue, once, or running, or in a
  hand (`CfsPlaces`), queues are sorted (`CfsSorted`), nobody is behind the floor of its queue or
  carries a credit (`FloorHeld`), and what another has run past a waiting coroutine moved that one
  forward by as much (`PassedPaid`), so the coroutine's own debt bounds it.

`ChanProofs` (any coroutines, channels, buffer sizes and scenarios of calls; `ChanAssumption`,
`CasesAssumption`):

* `ChanSoundHolds`, from `ChanInv`. It says where each call stands (`Posture`, `RunLocal`), that
  `m_is_reading` is set exactly while one call holds it (`FlagHeld`), that live entries of the
  queue of conditions are suspended writers nobody has woken, once each (`WritersQueued`), that a
  select is registered with every case its callback has reached (`Watchers`), and that what the
  callback has passed is not ready or the select has been woken (`CallbackSound`): this is what
  closes the gap between the tries and the suspension. Each step is put into one of a few forms of
  effect on a channel, and the parts are shown for the forms.

`IoProofs`:

* `EventSoundHolds` (any number of rounds and posts; `EventAssumption`): a handler of an older
  round was past its check when the round ended, or will find no callback (`StaleExcused`).
* `PollReportsHolds` (any finite set of descriptors; `HookPollAssumption`): what a sleeping call
  watches is what it asked for (`Watching`), and a woken one has its reason (`WokenFor`).
* `DnsSoundHolds` (any calls, any queue length; `DnsAssumption`) under the hypothesis that
  no `Await` is cancelled, without which it is false (`dns_cancelled`): one job per call
  (`OneJob`) and what the job's place says about the call (`JobPhase`, `CallPhase`).
* `StallReportsHolds` (any workers, coroutines, threshold; `StallAssumption`, the clock
  runs to at least 1): times of a worker only grow, the last report is not later than the
  current run, and what a scan has passed and was overdue is reported (`Passed`).
* `DescriptorKeptHolds` (any coroutines, any number of objects behind the number;
  `HookIoAssumption`): a call that met no close works on its own object (`OwnObject`), whoever
  will restore flags restores the owner's (`WillRestore`), and the flags differ from the
  owner's only while somebody is about to restore them (`FlagsDue`).
* `LastsAsAskedHolds` (any requests, any clock, any largest `int`, any times of the waits;
  `HookTimeAssumption`): the sleeps, `select` and `pselect` compute the time asked for, rounded up,
  with no overflow on the way as long as the result fits; an I/O call under a socket timeout sets
  its timer, each time it waits, for its deadline or less than a millisecond before, and gives up
  only in its last millisecond or later (`WithinDeadline`).
* `StackSoundHolds` (any finite sets of contexts and of sizes, any limits; `StackPoolAssumption`).
  For each key the live stacks of its bucket are the stacks there are with that size and
  protection, and with the pending ones they stay within the limit (`BucketCounts`); the idle ones
  are distinct, of the bucket's key and in nobody's hand (`PoolRight`); a Context's stack has the
  key it asked for and is nobody else's (`FrameRight`); every stack came out of the constructor
  (`MemoryRight`), whose sizes do not wrap. The bound on what one tick trims needs an injection
  of the stacks into keys and places.

Only model-checked: every liveness property (`WaitsEnd`, `CloseEndsCalls`, `DriverReturns`,
`RetiredJoined`, `MutexProgress`, `WaiterReturns`, `AcceptedHandled`, `ReleaseReturns`,
`RunnableRuns`, `RetireExits`) and the fairness part of `ImplementsOneShotWait`. Fairness and
`ENABLED` are outside the prover's reach. Every invariant and every action property of the
passing runs is a theorem.

## 5. Plan

1. Done: all modules of section 2, with the safety and liveness properties of section 3; the
   proofs of section 4.
2. Done: the safety of every component as a theorem.
3. Compositions that are left: `ProcesserDriver` with the whole wait of `Processer`; unbuffered
   channels with a progress property for writers that are overtaken.

## 6. Not modelled

* Context switching, stack memory and guard pages, dlsym: machine level.
* Asio, the kernel and libc beyond what the models' external actions say.
* The vendored lock-free queue (an atomic set); `EvThread`, `IoExecutor`: threads and calls
  around what is modelled.
* Names, descriptions, logging, profiling, the debug manager, configuration: nothing depends on
  their order.
* Macros and syntax helpers, which expand to the calls modelled here.
* Examples, benchmarks and tests: users of the library.
* The contents of messages: elements of channels, results of the resolver, bytes read and
  written.
* Weak memory: atomics are sequentially consistent.

`PROJECT.json` (`components`) gives the status of every part.

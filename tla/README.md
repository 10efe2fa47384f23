# TLA+ models of the Sewing-Server fiber runtime

This directory holds TLA+ models of the concurrency core in `src/server/`:
fibers, the multi-threaded fiber scheduler, the timer manager, the epoll-based
IOManager and the syscall hook layer. Each model is checked with TLC.
`PROJECT.json` lists the components, the runs, the mutants that show each
property can fail, the map from every model definition to the source lines it
translates, the findings, and the hazards the properties target.

## 1. Inventory of the system

### Components, their state and their operations

| Component | Source | State | Operations |
|---|---|---|---|
| Fiber | `fiber.{h,cpp}` | `m_state` ∈ {INIT, HOLD, EXEC, TERM, READY, EXCEPT}, saved `ucontext`, stack, closure; thread-locals `t_fiber` (current fiber) and `t_main_fiber` | `swapIn`/`swapOut` (to and from the scheduler's main fiber), `call`/`back` (to and from the thread's root fiber), `YieldToReady`, `YieldToHold`, `reset`, trampoline `MainFunc` (sets TERM or EXCEPT) |
| Scheduler | `scheduler.{h,cpp}` | `fiberQueue` (vector of `FiberAndCb` = fiber or callback plus thread affinity), `m_mutex`, `activate_threads`, `wait_threads`, `m_stopping`, worker threads, root fiber (use_caller) | `scheduler(task, thread)`, batch `scheduler(begin, end)`, `start`, `stop`, per-thread `MainFunc` loop, `idle`, `stopping`, `tickle` |
| TimerManager | `timer.{h,cpp}` | `m_timers`, a `std::set` ordered by (`m_next`, address); each Timer has `m_interval`, `m_next`, `m_recurring`, `m_cb`; `m_tickled`; one RW lock | `addTimer`, `addConditionTimer`, `cancel`, `refresh`, `reset`, `getNextTimer`, `listExpiredCb`, `hasTimer` |
| IOManager | `iomanager.{h,cpp}` | epoll fd, tickle pipe, `m_fdContexts` (per fd: registered event mask, READ and WRITE `EventContext` = scheduler, fiber, callback; per-fd mutex), `m_pendingEventCount`; inherits Scheduler and TimerManager | `addEvent`, `delEvent`, `cancelEvent`, `cancelAll`, `tickle` (pipe write if a thread is idle), `stopping` (no timers, no events, base stopping), `idle` (epoll_wait with timer deadline, drain timers, trigger ready waiters) |
| Hook layer | `hook.{h,cpp}` | thread-local `t_hook_enble`; global `s_connect_timeout` | `do_io` (retry on EINTR, on EAGAIN arm a condition timer, addEvent, YieldToHold, on resume cancel timer and report ETIMEDOUT or retry), `connect_with_timeout`, `sleep`/`usleep`/`nanosleep` (timer that re-schedules the fiber), `socket`, `close` (cancelAll then real close), `fcntl`/`ioctl`/`setsockopt` (user non-block flag, timeouts) |
| FdManager / FdCtx | `fd_manager.{h,cpp}` | vector of `FdCtx` (is socket, sys/user non-block, closed, recv/send timeouts), RW lock | `add`, `get(fd, auto_create)`, `del` |
| Thread, Mutex, Semaphore | `thread.*`, `mutex.*` | pthread handles | thin wrappers; they give the other components their atomic sections |
| ByteArray | `bytearray.{h,cpp}`, `socket_stream.cpp` | node list, `m_position`, `m_size`, `m_capacity`, cached node `m_cur` | `write`/`read`, typed writers, `toString`, `setPosition`, `clear`, `getWriteBuffers`/`getReadBuffers` (used by `SocketStream::read`/`write`) |
| Socket | `socket.{h,cpp}` | `m_sock`, `m_isConnected`, family/type, cached local and remote addresses | `newSock`/`initSock`, `bind`, `listen`, `accept`/`init`, `connect`, `close` (also `~Socket`), `setRecvTimeout`/`setOption`, `send`/`recv` (an `isConnected` test, then the hooked call) |
| TcpServer | `tcp_server.{h,cpp}` | `m_socks` (listening Sockets), `m_isStop`, worker and accept-worker IOManagers, `m_recvTimeout` | `bind` (socket, bind, listen per address; a non-empty `fails` clears `m_socks`), `start` (schedule `startAccept` per socket), `startAccept` (accept loop handing clients to `handleClient` on the worker), `stop` (set `m_isStop`, schedule a task that cancels and closes the sockets) |
| Out of scope | address, http/*, config, log, util | — | plumbing that only calls `scheduler()`, hooked syscalls and `cancelEvent`/`cancelAll` |

### How the components interact

* A worker thread runs `Scheduler::MainFunc`: it pops a task from the shared
  queue under `m_mutex`, `swapIn`s the fiber (or a scratch fiber for a
  callback), and when the fiber yields it re-queues it (READY), leaves it
  parked (HOLD), or drops it (TERM/EXCEPT). With nothing to run it resumes its
  idle fiber.
* The IOManager's idle fiber blocks in `epoll_wait`, bounded by the first
  timer deadline (`getNextTimer`) and a 3000 ms cap, then drains expired timer
  callbacks into the queue (`listExpiredCb` + batch `scheduler`) and triggers
  the waiter of every ready fd direction (`triggerEvent` → `scheduler`).
* `scheduler()` tickles when the queue was empty; the IOManager tickle writes
  the pipe only when some thread is in idle (`wait_threads > 0`).
* A hooked blocking call inside a fiber (`do_io`) registers the current fiber
  with `addEvent`, arms a condition timer for the socket timeout, and
  `YieldToHold`s. Readiness (epoll) or the timer (`cancelEvent`) re-schedules it.
* `close` cancels every registration of the fd, waking its waiters.

### What makes it hard

* Shared state across threads without a common lock: a fiber's `m_state` is
  written by the fiber itself, by the worker after `swapIn` returns, and read
  by other workers' queue scans; the yield writes the state before
  `swapcontext` saves the context.
* Callbacks from other threads: triggerEvent, timer callbacks and
  cancelEvent re-schedule a fiber that may not yet have finished parking.
* Stale reads: epoll results are processed after other threads may have
  changed the registration; a timer callback drained before `cancel` still
  runs; `getNextTimer` is computed before a new earlier timer is added.
* Counters that decide termination (`activate_threads`, `wait_threads`,
  `m_pendingEventCount`) are updated in many places.
* Timeouts racing readiness in `do_io`, with retries that re-register.
* Integer edges: size_t counters, the `(int)` cast of the epoll timeout, the
  `fd > size` growth test.

### What makes each component correct

* Fiber/Scheduler: a fiber runs on at most one worker and only from a saved
  context; no unfinished fiber is lost (always queued, registered with a
  waker, or held by a worker); every task eventually completes; `stop()`
  returns after the queue drains.
* TimerManager: `listExpiredCb` returns exactly the timers due, each
  non-recurring timer once; a cancelled timer does not fire; the first
  deadline bounds the poller's wait.
* IOManager: at most one waiter per (fd, direction); a waiter is triggered at
  most once per registration and only for a registered direction;
  `m_pendingEventCount` equals the number of registrations; a registered
  waiter whose fd becomes ready is eventually triggered; a deleted
  registration leaves no waiter behind.
* Hook: `do_io` returns ETIMEDOUT only when its own timeout expired; it
  returns with no event registered and no timer armed.

## 2. Plan

Modules in the order they are built (most important behaviour first):

1. **Scheduler** (done): worker loop, queue, fiber states, idle, stop.
   `MCScheduler` instantiates it.
2. **IOManager** (done): per-fd event contexts, the kernel's epoll registration and
   readiness, `addEvent`/`delEvent`/`cancelEvent`/`cancelAll` by fibers on
   several threads, and the idle loop that takes an epoll snapshot and
   triggers waiters under the fd lock. Waiters are re-scheduled into a queue
   as in Scheduler. Properties: single waiter per direction, trigger only
   registered directions, at-most-once trigger, pending count, no stale
   context after delEvent, eventual trigger of ready waiters.
3. **Timer** (done): TimerManager over a millisecond clock; timers ordered by
   (deadline, address) with addresses as a fixed order of model timers and
   the temporary `now_timer` placed anywhere in it. An abstract
   **TimerQueue** (atomic drain between two clock readings) that Timer
   is checked to implement via `INSTANCE`; the spec's stronger
   "all equal deadlines in one batch" is the property `SameDeadlineSameBatch`,
   violated with the clock to 3 ms (no run kept; see Timer).
4. **Hook** (done for `do_io` and `connect_with_timeout`): one or two fibers in `do_io` on a socket with a receive timeout,
   composing the IOManager event state, a condition timer and the
   scheduler queue; properties about spurious timeouts, leftover
   registrations and leftover timers.
5. **IOWake** (done): tickle/pipe/`wait_threads` with `epoll_wait`'s bounded
   sleep, `getNextTimer` and the `(int)` timeout conversion: when all workers
   sleep, nothing is queued and some worker wakes by the first deadline.
6. **FdTable** (done): FdManager's table and the hooked calls that create,
   change and drop its entries, over a small fd range with the table's
   initial size scaled down.
   **SocketServer** (done): Socket and TcpServer over FdTable, the
   program of `test_tcp_server.cpp` on separate threads for run(), the
   accept loop, the worker and an outgoing client.
7. **ByteArray** (done for the writers, `read`, `toString`, `setPosition`,
   `clear` and the two SocketStream transfers): the node list and its cached
   node pointer, checked against the flat buffer `ByteBuffer`.

Runs and bounds for each module are chosen so that every branch of the code
is reached: two workers for every race (one for the single-thread baseline),
three tasks, two yields per fiber, a frequency limit of 2 (the code uses 10;
2 is the smallest value at which the limit cuts a non-empty queue with three
tasks).

## 3. Modules and runs

### Scheduler (`Scheduler.tla`, `MCScheduler.tla`)

State ↔ code: `queue` = `fiberQueue`, entries `[fib, cb, thread]` =
`FiberAndCb` (`thread = AnyThread` is -1); `fstate` = each fiber's `m_state`;
`pc[w]` is the control point of worker `w` in `MainFunc` (see the module
header); `cur[w]` = `ret`; `workTimes` = `work_times`; `activate` =
`activate_threads`; `waiting` = `wait_threads`; `idleState` = the idle
fiber's state; `stopFlag` = `m_stopping`; `armed[f]` = the fiber has
registered with something that will call `scheduler(f)` (an IOManager event,
a timer, another thread) and `Wake(f)` is that call. `mainPc` is the
main thread in `start()` (`"start"` at the top of its loop, `"ctor"` in a
Thread constructor holding `m_mutex`, `"started"` once it has returned),
`spawned` its loop index, and `sem[w]` the count of worker `w`'s
`Thread::m_semaphor`.

`start()` and Thread (`thread.cpp`, `mutex.cpp`): a spawned worker starts
`"unborn"`. `Start` locks `m_mutex` and constructs the next Thread, and
its `pthread_create` makes the worker `"born"`. `ThreadRun` is
`Thread::run` on the new thread: it posts the semaphore (`SemPost`) and
goes on into `MainFunc` (`"pick"`). `StartWait` is the constructor's
`SemWait` returning, after which `start()` unlocks and loops. While
`start()` holds `m_mutex` (`MutexFree` is false), nothing that takes the
mutex can step: the scan in `Pick`, `scheduler()` in `Post` and `Wake`.
`Stop` comes only after `start()` has returned, as on the main thread.
`StartReturns` says that `start()` returns. The mutant `ThreadRunCbFirst`
runs the callback before the post: the new thread's `MainFunc` then
blocks on the `m_mutex` that `start()` holds while it waits for the post,
and `StartReturns` fails in both runs.

Actions: `Pick` (lock, scan, pop, dispatch, swapIn; or the idle branch),
`RunBody` (the fiber's closure up to YieldToReady, up to its registration
with a waker, or to its end), `YieldToHold` (`m_state = HOLD` after
the registration; a waker may already have re-queued the fiber while it
was still EXEC, which is the skip at `scheduler.cpp:138`),
`SwapOut` (swapcontext completing), `Post` (MainFunc after swapIn returns),
`IdleStep` (one turn of `Scheduler::idle`'s loop), `Wake`, `Stop`,
`SpawnTask` (a running task calls `scheduler(cb)`, as `test()` in
`test_scheduler.cpp` reschedules itself; `EnqueueCb` is the push and
`tickle` under the lock) and with use_caller `CallRoot`. The constant
`Parent` says which fiber a task enqueues: `Parent[c] = f` means `c` does
not exist until `f` schedules it, and `f` cannot finish before it has
(`ToSpawn`). Both passing runs use `F1SpawnsF2` (f1 schedules f2); the
violation runs use `NoParents`, which keeps their traces as short as before. The constant `Root` is `m_rootThreadId`: a
member of `Workers` when the scheduler was built with use_caller (that
worker starts at control point `"caller"` and runs `MainFunc` only when
`stop()` calls the root fiber, unless `stopping()` already holds), another
model value (-1) otherwise. `MainFuncReturns` is the end of the loop: a
spawned thread's `Thread::run` ends, the root fiber's `CallMainFunc` sets
TERM and `back()` resumes `stop()`.

Abstractions: a callback task gets its own fiber identity, standing for the
scratch fiber while it runs that callback. `activate_threads` is a size_t:
a negative model value `x` stands for `2^64 + x`, saturated at
`-(|Workers|+1)` where it can no longer return to 0 (see `DecActive`).
Fiber bodies are nondeterministic: each resume ends in READY or HOLD (at most
`MaxYields` times) or TERM/EXCEPT.

`NoLostFiber` is about `~Fiber` (`fiber.cpp` 34-48): a fiber is
`Dropped` when nothing holds a `Fiber::ptr` to it any more (no queue
entry, no waker, no worker between swapIn and the post-swap code), and
it must then be finished, as `~Fiber`'s assertion on `m_state` requires.

Fairness: weak fairness per worker (OS threads keep getting CPU; a new
thread's `Thread::run` is one of its steps), per waker (readiness and
timeouts eventually arrive), and for the main thread's steps through
`start()`, its `stop()` call and its `call()` of the root fiber (the main thread runs on through `stop()`).

| Run | Config | Checks | Result |
|---|---|---|---|
| sched_single | 1 worker, 3 tasks (one pinned), HOLD and READY yields | TypeOK, NoLostFiber, AllTasksComplete, StartReturns | pass (≈84k states) |
| sched_pool | 2 workers, w2 the caller thread (use_caller), 3 tasks (f3 pinned to w2), READY yields only | AllTasksComplete | pass (≈375k states) |
| sched_hold_race | 2 workers, HOLD yields | NoDoubleResume | violation: a fiber woken between `m_state = HOLD` and `swapcontext` is resumed by the second worker |
| sched_stop | 2 workers | StopReturns | violation: `is_active = true` makes the idle branch decrement `activate_threads`, which wraps; `stopping()` never holds again and `stop()` never returns |

The pool run checks only `AllTasksComplete`. Its tasks never park, so
`NoDoubleResume` there would only restate `Pick`'s erase, and use_caller
does not change what `TypeOK`, `NoLostFiber` or `StartReturns` say in the
single-worker run. With HOLD yields and two workers, the hold race is
reached (sched_hold_race). That is also the only configuration in which a
second worker scans the queue while a re-queued fiber is still EXEC, so
the skip at `scheduler.cpp:138` is exercised only there, before the
violation.

Why the bounds suffice: two workers are the minimum for any cross-thread
race; three tasks with frequency 2 make the frequency break happen with work
still queued; two yields per fiber let a fiber be re-queued and parked again.

### IOManager (`IOManager.tla`, `MCIOManager.tla`)

State ↔ code: FdContext objects are named `<<fd, g>>`, the `g`-th one
`contextResize` created for `fd`; `tsize` = `m_fdContexts.size()` (the
constant `InitSize` stands for the constructor's `contextResize(32)`),
and the table holds `Cur(fd) = <<fd, gen[fd]>>` for every fd whose number
`FdNo[fd]` is below `tsize`. `events[o]` = `FdContext::events`;
`ctx[o][d]` = the fiber held by the READ/WRITE `EventContext` (`NoWaiter`
when reset); `pending` = `m_pendingEventCount`; `held[f]` = the `fd_ctx`
an `addEvent` of fiber `f` looked up. The kernel is modelled beside it, since
the races are between the code and epoll: `kreg` = the epoll interest list,
`kmask[fd]` = the mask of the last successful `epoll_ctl`, `devReady[fd]` =
the directions in which the socket would not block, `hup[fd]` = a reset or
hang-up, `rdlist` = the ready list, `kptr[fd]` = the `data.ptr` epoll
returns with the fd (the FdContext of the last ADD/MOD). Edge-triggered semantics: a readiness
edge on a registered direction, or an ADD/MOD that finds the socket ready,
puts the fd on the ready list; `epoll_wait` reports `readiness ∩ mask`
plus EPOLLHUP and empties the list; DEL removes the fd from it. `snap[t]`
is what idle thread `t` got from its last `epoll_wait`. `fpc[f]`, `ops[f]`
are a fiber in `do_io`'s retry loop (run → registered by `addEvent` →
parked by `YieldToHold` → run when resumed → done after `MaxOps`
operations); `runq` is the scheduler queue, whose pick skips a fiber still
executing. `crashed` names the function whose ASSERT (or null-pointer
call) ended the process.

Actions: `Attempt` (one pass of `do_io`: succeed if ready, else
`addEvent`'s lookup under the read lock, `AddLookup`), `AddResize`
(`contextResize(fd * 1.5)` and the lookup under the write lock, with no
second size check), `AddRegister` (the rest of `addEvent` under
`fd_ctx->mutex`), `Yield`, `Withdraw` (a fiber tears its registration down with
`delEvent`; no code under `src/` calls `delEvent`, so this is the
public API's operation as a client would use it, kept so that every
state-changing operation of IOManager is an action), `Resume` (the scheduler's pick), `EpollWait` and `Process`
(the two halves of one turn of `idle()`: the snapshot, then one result
handled under the lock of the FdContext its `data.ptr` names),
`CancelEvent` and `CancelAll` (called by other
fibers: timeouts, `Socket::cancelRead`, `close`), and the environment's
`BecomeReady` and `Hangup`. `delEvent`, `cancelEvent` and `cancelAll`
return false for an fd beyond the table and otherwise work on `Cur(fd)`;
their lookup and their work under the FdContext's mutex are one step,
since nothing else they read can change in between; `epoll_ctl` success and failure are computed from
the interest list, and each failure branch is the code's (`return -1`,
`return false`, or log-and-continue in `idle()`).

Build: the constant `NDEBUG` says whether `assert()` is compiled out. A
debug build aborts on a failing ASSERT; with `NDEBUG`, addEvent goes on
and overwrites the context, and triggerEvent goes on to call through the
empty context's null scheduler pointer (a crash) unless a stale waiter was
left in it. The repository has no build files, so the runs use a debug
build.

Fairness: weak fairness per fiber, per idle thread, for the scheduler's
pick, and for each socket direction becoming ready. The last is an
assumption about the peer: if the socket never becomes ready, the
operation cannot complete. `cancelEvent`, `cancelAll`, `delEvent` and
hang-ups are not fair.

| Run | Config | Checks | Result |
|---|---|---|---|
| iom_apart | 2 sockets, one waiter each (f1 reads fd1, f2 writes fd2), 2 idle threads, 2 cancels, delEvent teardown, 2 operations per fiber | ParkedHasOneWaker, PendingMatches, TriggerOnlyRegistered, AddEventSlotFree, AllOpsComplete | pass (≈50k states) |
| iom_hup | one fiber waiting for WRITE (a connect), the peer resets | TriggerOnlyRegistered | violation: EPOLLHUP is widened to READ\|WRITE, and READ was never registered |

Why the bounds suffice: two sockets and two idle threads give every
cross-thread ordering of a snapshot and its handling. Two operations per
fiber make a fiber re-register after a wake, genuine or spurious. Two
cancels let a cancel hit each of the registered, parked and re-registered
states. A reader and a writer sharing one socket reach the stale-result abort
described next, whether through cancels, a second idle thread, or (in
the Hook module's `hook_shared` run) a timer callback's `cancelEvent` on
another worker. `hook_shared` therefore states its properties up to an
abort (see Hook).

The skip test at `iomanager.cpp:355` only asks whether some reported
direction is still registered, and then it triggers every reported
direction. A reader and a writer on one socket with two idle threads
violate `TriggerOnlyRegistered`. Both threads get the fd from
`epoll_wait`. The first triggers READ, and the second's older result
triggers READ again, so `triggerEvent` aborts. The configuration is
`MCIOManager_hup.cfg` with `Fibers = {f1, f2}`, `Threads = {t1, t2}`,
`Role <- RolesShared`, `MaxOps = 2` and `SPECIFICATION Spec`. It used to
be the run `iom_stale`. That run was given up for `fdtable` under the
twelve-run budget, and `iom_hup` remains the violation run of the same
property.

`Hangup` is a disjunct only of `NextHangup`/`SpecHangup`, which the
`iom_hup` run uses: with the code as written, a hang-up on a socket that
is awaited in one direction always aborts, so no passing run can include
it.

`KernelPtrInTable` says that every fd in epoll's interest list is
registered with the FdContext `m_fdContexts` holds for it. `delEvent`,
`cancelEvent` and `cancelAll` (so timeouts and `close`) look the fd up in
the table, so a registration on any other FdContext is out of their
reach. In `iom_apart` (`FdNo <- FdNoOneGrower`, `InitSize = 2`) fd1 is
inside the initial table and fd2 just past it, so f2's first `addEvent`
takes the resize path and grows the table to 3. The run does not check
the property: with a single grower the race below cannot happen, so it
would hold because of the bound. `TypeOK` is not checked by a run either.
Its only bounds are the model's own counters (`MaxOps`, `MaxCancels`),
which no change to the code could push out of range.

`addEvent` drops the read lock before it takes the write lock, and it
resizes without checking the size again (`iomanager.cpp:99-104`). With
two fds past the table (`FdNo <- FdNoTwoGrowers`: numbers 3 and 2) TLC
violates `KernelPtrInTable` in 5 steps:
1. both `addEvent`s find size 2 too small;
2. the one for fd 3 resizes to 4 and registers;
3. the one for fd 2 resizes to 3.

The second resize drops the pointer to fd 3's FdContext. That FdContext
stays allocated and epoll still returns it, so `idle()` wakes the waiter
when the socket becomes ready. `cancelEvent`, `cancelAll` and `close`
see fd 3 beyond the table and return false. A later `addEvent` for fd 3
grows the table again and gets a new, empty FdContext. While the old one
still has a direction registered, that `addEvent` issues an ADD, epoll
refuses it with EEXIST, and the call returns -1. The real table starts at 32, so this
needs two concurrent first waits on fds above 32 whose resize targets
are in the opposite order of the fd numbers.
This configuration is not one of the project's runs, because the run
budget is spent. The hazard at `iomanager.cpp:102` records it.

`AddEventSlotFree` says that every `addEvent` finds the `EventContext` of its
direction empty, which the assertion at `iomanager.cpp:137` requires. The
`iom_apart` run checks it, with one direction per socket. `delEvent` clears
only the event bit (line 185) and leaves the context. With a reader and a
writer on one socket, `delEvent(READ)` followed by `addEvent(READ)` therefore
aborts after four steps. No run keeps that configuration, because nothing in
the repository calls `delEvent`. The mutant `DelEventKeepsCtx` leaves out the
context reset, and `iom_apart` catches it.

### Timer (`Timer.tla`, `TimerQueue.tla`, `MCTimer.tla`)

State ↔ code (`timer.h`, `timer.cpp`): `timers` is `m_timers`; `next`,
`interval`, `recurring` are the Timer fields; `cb[t]` says whether `m_cb`
is non-null; `tickled` is `m_tickled`; `clock` is `GetCurrentMS()`. The
set order is `Comparetor`: `KeyLess` on `<<m_next, address>>`, with the
constant `Addr` giving each timer a distinct address. `lpc[w]`/`nowMs[w]`
say where worker `w` is inside `listExpiredCb` and what it read into
`now_ms`. `queued[t]` counts the callbacks of `t` that `listExpiredCb`
put into `cbs` and the scheduler has not yet run; `cancelled` records the
timers whose `cancel()` returned true (a history variable).

Actions: `AddTimer` (constructor and `addTimer`; `at_front` only sets
`m_tickled` because `onTimerInsertedAtFront()` is commented out),
`Cancel`, `Refresh`, `Reset` (with the unlocked early return), and
`GetNextTimer` (clears `m_tickled`; how its result bounds `epoll_wait` is
IOWake). Each holds the write lock for its whole body, so each is one
step. `listExpiredCb` is three steps, split where other threads can get in:
`ListExpiredBegin` reads `now_ms` (line 151), `ListExpiredCheck` returns on
an empty set under the read lock, and `ListExpiredEnd` takes the write
lock, builds `now_timer` from a *second* clock reading, does `lower_bound`,
runs the sweep over `m_next == now_ms`, and drains and re-arms. `now_timer` is a
fresh allocation, so its address is any position `pos` among the live
timers. `RunCallback` is the scheduler running one drained callback.
`Tick` advances the clock by 1 ms up to `MaxTime`.

`TimerQueue` is the contract: `QDrain(lo, hi)` takes every timer due at `lo`,
none that is not due at `hi`, with `lo <= hi <= clock`, and re-arms
recurring timers at `lo + interval`. `QMove` moves an armed timer to `start + iv`
with `start` some past clock reading. `Timer` uses its `QInit`, `QTick`,
`QAdd` and `QRun` directly and is checked against `QSpec` as a `PROPERTY`
(the variables map one to one; `cb`, `tickled`, `lpc`, `nowMs` are hidden).

Fairness: weak fairness of each worker's `listExpiredCb` steps.
`IOManager::idle` calls `listExpiredCb` after every `epoll_wait`, which
returns within `MAX_TIMEOUT`. Nothing else is fair: user calls and clock
ticks may stop.

| Run | Config | Checks | Result |
|---|---|---|---|
| timer_queue | 2 timers, intervals {1,2}, recurring or not, 1 worker, clock to 2 ms | QueueSpec, NoDrainAfterCancel, DueTimersDrain | pass (≈52k states) |

`SameDeadlineSameBatch` (in `Timer.tla`) states the spec's rule that all
timers with the deadline at the cutoff are drained in one batch. With the
clock to 3 ms TLC violates it: both timers due at 1 ms, `now_ms` = 0, a
tick, then `now_timer` = (1, an address between the two) drains only one
(`timer.cpp:161`). The split-off timer is drained by the next call, so
`QueueSpec` and `DueTimersDrain` still hold. The run was given up for
`iowake` because of the twelve-run budget; the hazard list records the
divergence.

Why the bounds suffice: two timers give both orders of equal deadlines and
`now_timer` between, before or after them. Intervals 1 and 2 let `reset`
move a deadline both ways and let a recurring timer be re-armed into the
past after a delayed `ListExpiredEnd`. Three clock values (0..2) let a worker's
two readings differ and still leave due timers. One worker is enough: a
second one only adds drains interleaved between another's readings,
which a single worker delayed across ticks already produces; it multiplies
the state space by ~5.

### FdTable (`FdTable.tla`)

FdTable models FdManager's vector of `FdCtx` and the hooked calls that
use it, run by several threads at once. `slot[0 .. size-1]` is `m_fds`.
An FdCtx is reduced to the settings the hooks read:

* `unb` is `m_userNonblock`;
* `to[d]` says whether the timeout of direction `d` is set (it is not -1).

Every fd here is a socket, so `m_isSocket` and `m_sysNonblock` are true.
`m_isClosed` is never set by the code. `kopen` is the kernel's set of
open fds. The kernel hands out the lowest free number.

`FdManager::add` takes three steps, because it reads `m_fds.size()`
without the lock:

1. `AddCheck`: `fd > size`, deciding whether to resize to `fd * 1.5`,
   truncated.
2. `AddResize`: `resizeFds` under the write lock. A shrink destroys the
   entries at the end.
3. `AddStore`: the store under the write lock.

An index past the end is undefined behaviour in the code. The model takes
its quiet outcome:

* `slot[fd]` for `fd >= size` is the memory just past the vector's buffer.
* A store there (`add` with `fd == size`) is kept.
* `get` reads it back unchecked, and `del` resets it.
* The next `resizeFds` drops it. Growing from capacity == size
  reallocates, so the new buffer holds null pointers from the old size
  on. A shrink destroys the entries from the new length on.

The calls:

* `Socket` and `Accept`. Accept's `get(fd, true)` is followed by a second
  add from `Socket::init`.
* `SetSockOpt`, which uses `FdCtx::setTimeout`.
* `Fcntl(F_SETFL)` and `Ioctl(FIONBIO)`, which use `setUserNonblock`.
* `Connect`: connect_with_timeout's `add`.
* `Close`, which calls `del`.

The ghost `want[fd]` holds the settings the program applied.
`IoPath` is do_io's decision (`hook.cpp:73-100`) from the FdCtx it gets:

* without an FdCtx, or when user non-blocking is set: the plain syscall;
* otherwise a fiber wait, timed when the direction's timeout is set.

Property `HookedIoFollowsSettings`: for every socket a thread opened
through the hooks and has not closed, `IoPath` of the table's FdCtx equals
`IoPath` of `want`, in both directions.

| Run | Config | Checks | Result |
|---|---|---|---|
FdTable's `Next` is `CallStep` (a thread starts a hooked call of its own
choosing) or `AddStep` (a step of the add it is in). Its run is the
SocketServer run below, where a thread `t1` of `Callers` makes calls of
its own next to the server's threads.

Scaling: the table starts with 2 entries (code: 64). The boundary
`fd == size` is then reached by the second socket (code: fd 64).

TLC finds three defects, each reported once the earlier ones are fixed
in a scratch copy:

1. **Unlocked size check** (`fd_manager.cpp:87-88`, reported, depth 8).
   fd 3 and fd 4 both read size 2 and decide to resize to 4 and to 6. The
   larger resize runs first and fd 4 is stored. The smaller resize then
   shrinks the table back and destroys fd 4's FdCtx. do_io then finds no
   FdCtx and runs `read`/`write` directly on a socket that `FdCtx::init`
   made non-blocking. The caller gets EAGAIN instead of a fiber wait, and
   its timeouts are ignored.
2. **connect replaces the FdCtx** (`hook.cpp:252`, with the resize made
   grow-only, depth 9). `socket`, `fcntl(O_NONBLOCK)` and `connect` run
   in that order. `connect_with_timeout` calls `add`, which installs a
   fresh FdCtx, and the user's non-blocking flag and timeouts are lost.
3. **Boundary** (`fd_manager.cpp:87`, with connect keeping an existing
   FdCtx as well, depth 10). `add` grows only for `fd > size`, so fd 64
   is stored at `m_fds[64]`, past the end. `get(64)` reads it back until
   the next socket's `add` grows the table, and the reallocation drops it.
   From then on the listening socket has no FdCtx, with the outcome
   described in item 1. `del` has the same boundary (`size < fd`).

Why the bounds suffice: two sockets reach the boundary and the race, and
three calls per thread fit socket, a setting and connect. Two threads are
the least that race. With all three defects fixed in a scratch copy, the
fdtable configuration passes (7.9M states, 7 min; with deadlock checking
off, since every thread stops at its call bound). FdTable has no pass run:
each of the three defects above violates its only property.

### SocketServer (`SocketServer.tla`, `MCSocketServer.tla`)

SocketServer extends FdTable with the `Socket` and `TcpServer` code that
drives those hooked calls. The program is the one in `test_tcp_server.cpp`
and `echo_server.cpp`. Each server thread has a control point `spc[t]`
and steps only between hooked calls (`At`), since a fiber is not
preempted between them:

* `Main` runs `run()`. `BindSocket` is `Socket::bind` → `newSock` (the
  hooked socket). `BindDone(ok)` is the rest of `TcpServer::bind`: `::bind`
  and `listen` succeed or not. The socket is kept only if the `fails`
  vector is empty; `failed` is that vector. In `test_tcp_server.cpp`,
  `run()` passes its own vector to every try and never clears it; in
  `echo_server.cpp`, `bind(addr)` makes a fresh one per call. The constant
  `StickyFails` chooses between them (`FailsAtStart`), and a failed try
  goes back to `bind` (`RetryBind`, run()'s `sleep(2)` loop). A dropped
  Socket is closed by `~Socket` (`DropSocket`). Then come `Start`, `Stop`,
  and stop's `CloseTask` (`cancelAll` and `close` of the listening socket).
  `Restart` is `start()` called again after `stop()`, before or after the
  close task has run. `TcpStart` is their common body: clear `m_isStop`
  and queue one `startAccept` per socket still in `m_socks`.
  `acceptTasks` counts the queued `startAccept` tasks, and
  `RunStartAccept` runs one on the accept worker. A restart before the
  close task queues a `startAccept` on the socket that the task is about
  to close. In a scratch run, TLC reaches the accept loop running on that
  closed fd with `m_isStop` clear after 12 steps. This is the hazard at
  `tcp_server.cpp:82`. No run checks it, because the one SocketServer run
  checks `HookedIoFollowsSettings`.
* `Acceptor` runs `startAccept`. `AcceptLoop` tests `m_isStop`, then calls
  `Socket::accept`. The hooked accept returns a new fd (`SocketAccept`,
  with `Socket::init`'s second add) or fails. Then come `AcceptInit`
  (`m_sock`, `m_isConnected`), `SetRecvTimeout` (the hooked `setsockopt`
  with `SO_RCVTIMEO`), and `Schedule` (the client goes to the worker's
  queue `clients`).
* `Worker` runs EchoServer's `handleClient`: `HandleClient` enters the
  receive loop, and `EchoRecv` is its `recv`, taken once the fd is ready
  (`SockIo`). The test client sends one message and then closes, so the
  loop's second `recv` returns 0, the loop breaks and `~Socket` closes
  the client.
* `Client` runs `test_socket`: `Socket::connect` (`newSock`, then
  `connect_with_timeout`'s add, then success or `close()`), then
  `ClientSend` and `ClientRecv`. A failed send closes the socket.

The fdtable run checks FdTable's `HookedIoFollowsSettings` on this
composition: every socket opened through the hooks, by the server, the
client or `t1`, must be served the way its settings say.

| Run | Config | Checks | Result |
|---|---|---|---|
| fdtable | threads main, acc, wrk, cli and t1 (`Callers`), 3 hooked calls each, fds 0-2 preopen, fds up to 5, initial size 2, `StickyFails` TRUE | HookedIoFollowsSettings | violation (depth 8): `t1`'s socket fd 3 and the server's listening socket fd 4 both read size 2; fd 4's resize to 6 and its store run first, then `t1`'s resize to 4 destroys the listening socket's FdCtx; do_io on it would call the non-blocking syscall directly |

In the code, the listening socket meets this race when another thread's
socket is below it and both are past the table's size; an accepted
client or the connecting Socket meets it the same way. With all
call bounds used, every thread stops, so the explored space ends in
deadlock states; TLC reports the invariant first.

With FdTable's three defects patched in a scratch copy, this
configuration passes with deadlock checking off (`StickyFails` TRUE,
7.9M states, about 7 minutes).

Not modelled here: the cached addresses, the bytes of
`send`/`recv` (the path they take is `IoPath`), and the wait inside the
hooked `accept` (Hook's `do_io`).

### IOWake (`IOWake.tla`, `MCIOWake.tla`)

How workers go to sleep and how they are woken. It composes three pieces of
code: the idle branch of `Scheduler::MainFunc` (`++wait_threads` before
`idle_fiber->swapIn()`), `IOManager::idle` (`getNextTimer`, the timeout
cap, `epoll_wait`, `listExpiredCb`, `scheduler(cbs)`, the pipe read) and
`IOManager::tickle` (the pipe is written only while `wait_threads > 0`).
A producer thread calls `scheduler(cb)` and `addTimer`. Tasks are callbacks
that run to completion. Only the tickle pipe is watched, and `stop()` is
not called.

State: `queue` is `fiberQueue`. `wpc[w]` is the worker's control point:

* `pick`: the scan under the lock;
* `run`;
* `toidle`: after `work_times = 0`;
* `idle`: top of `idle`'s loop;
* `epoll`;
* `drain`: before `listExpiredCb`;
* `dispatch`: `scheduler(cbs)`, the pipe read, `swapOut`, `--wait_threads`.

`scheduler(cbs)` is the batch `scheduler(begin, end)` (`ScheduleBatch`).
It appends the expired callbacks in any order, because `listExpiredCb`
collects them from a set. It tickles only when the queue was empty,
which is the same test the single-task `scheduler` makes.

`waiting` is `wait_threads`. `wakeAt[w]` is the time at which the worker's
`epoll_wait` times out, with `Never` for a negative timeout. `pipeEdge`
means the pipe is on epoll's ready list. It is edge-triggered, so one
worker's return consumes it. `armed` and `deadline` are `m_timers` and
`m_next`, `tickled` is `m_tickled`, and `now` is `GetCurrentMS()`.
`ppc = "tickle"` is the producer between the push and `tickle()`, whose
`need_tickle` was computed under the lock.

The casts are kept. `getNextTimer` returns a `uint64_t`. `idle` compares
`(int)next_timeout` with `MAX_TIMEOUT` and passes `(int)next_timeout` to
`epoll_wait`. `IntCast` is that conversion at width `IntBits`. TLC's
integers are 32-bit, so the cfg scales the widths down:

| Quantity | Model | Code |
|---|---|---|
| int width | 5 bits | 32 bits |
| `MAX_TIMEOUT` | 3 | 3000 ms |
| delay that casts to a negative int | 17 | 2^31 ms and more |
| `frequency` | 2 | 10 |

Property `PollerWakesForWork` (spec.md 4.4: wait until the nearest timer,
capped, and a tickle reaches a sleeping thread) applies when every worker
is in `epoll_wait`, no pipe event is pending and the producer owes no
tickle. It requires that nothing is queued and that some worker's timeout
is no later than the first deadline.

| Run | Config | Checks | Result |
|---|---|---|---|
| iowake | 2 workers, 3 tasks, 1 timer with delay 1 or 17, clock to 4 | PollerWakesForWork | violation (depth 8): both workers wait with timeout 3; `addTimer(1)` lands at the front and only sets `m_tickled`; nobody wakes at 1 |

Three defects violate the property. TLC reports the shortest, and scratch
runs that restrict the constants show the other two:

1. **Front timer** (`timer.cpp:58`, the reported trace).
   `onTimerInsertedAtFront()` is commented out and IOManager does not
   override it. A timer earlier than every other one waits for the next
   `MAX_TIMEOUT` expiry.
2. **Tickle race** (`iomanager.cpp:276`, `Timers = {}`, depth 9). Both
   workers scan an empty queue. The producer pushes and calls `tickle()`
   before either has done `++wait_threads`, so `hasIdleThreads()` is false
   and no byte is written. Both workers then sleep with a task queued until
   the cap.
3. **Cast** (`iomanager.cpp:309`, `Tasks = {}`, `Delays = {17}`, depth 8).
   A timer 2^31 ms or more away casts to a negative int and is not capped.
   `epoll_wait` is then given a negative timeout and waits forever. From
   then on only a tickle wakes the worker, so a timer added later at the
   front is never served.

Why the bounds suffice. Two workers let both be asleep while one is on the
path to sleep. Three tasks with frequency 2 reach the branch where a worker
goes idle with tasks still queued. The delays 1 and 17 give a timer earlier
than the cap and one whose cast is negative. A clock to 4 passes the cap
of 3.

### Hook (`Hook.tla`, `MCHook.tla`)

`Hook` models `do_io` (`hook.cpp` 73-154), `sleep` (184-199) and
`connect_with_timeout` (248-322) with their condition timer, on top of the IOManager: `IOM == INSTANCE IOManager WITH ...` shares all of
IOManager's variables, and Hook's actions use its `AddEvent`, `Yield`,
`CancelEvent`, `EpollWait`, `Process` and `Complete`. Only
`cancelEvent` is a cancel operation here, and only the timer callback
calls it. The sockets' fds (`FdNo` 3) lie below the 32 FdContexts the
constructor creates, so `addEvent` never resizes the table and its lookup
and registration are one step (`IOM!AddEvent`).

State ↔ code: `fpc[f]` is where fiber `f` is in the retry loop (`run`
before `fun()`, `add` after the timer is armed and before `addEvent`,
`registered`, `parked` in `YieldToHold`, `woken` after resumption,
`done`); `ops[f]` counts completed calls and identifies the current one;
`timer[f]` says whether the condition timer is in `m_timers`;
`tcancel[f]` is `tinfo->cancelled` of the current call (a fresh `tinfo`
per call, line 100); `cbs` holds the timer callbacks that
`listExpiredCb` handed to the scheduler, each naming the call whose
`tinfo` its `weak_ptr` refers to and whether it is at the check (116-119)
or at `cancelEvent` (121).

Actions: `Try` (`fun()` succeeds on a ready socket and returns, or fails
with EAGAIN and arms the timer if the fd has a timeout), `Connect` (the
first call of a fiber in `Connectors`: `connect()` returns at once, or
reports EINPROGRESS and the timer, always set for connect, is armed),
`Register`
(`addEvent`; on failure the timer is cancelled and -1 returned), `Yield`,
`Resume` (the scheduler's pick), `AfterWake` (`cancel(timer)`, then
ETIMEDOUT if `tinfo->cancelled`, else retry), `ConnectWake` (connect
after the wake-up: cancel the timer and return, with ETIMEDOUT or the
socket's `SO_ERROR`), `TimerFire` (the timer is
drained), `CbCheck` (the weak pointer has expired, or the flag is
already set: nothing; otherwise set the flag), `CbCancel`
(`cancelEvent`, which finds nothing when the direction is not
registered), `Poll` (`idle`'s `epoll_wait` and result handling) and
`BecomeReady` (the peer). A fiber in `Sleepers` first calls `sleep`:
`Sleep` arms the timer and yields, `TimerFire` hands the callback to the
scheduler at `wake`, `CbWake` is its `iom->scheduler(fiber)`, and
`SleepWake` returns after the resumption. `IoEvent` is the table of the
ten I/O wrappers (`read` ... `sendmsg`, 332-372) and the event each
passes to `do_io`.

`TimeoutEndsWait` applies to a waiting fiber whose expired timer's callback
has still to call `cancelEvent` (`CancelStillToCome`). It then says
that this `cancelEvent` wakes the fiber. It does not cover a callback
that ran its `cancelEvent` before the fiber's `addEvent`. That callback
finds nothing to cancel and the wait hangs, which is the `hook_silent`
violation.

Both `hook_shared` properties hold only while the process has not
aborted (`crashed = "none"`), and the run does reach an abort. With
the properties replaced by `crashed = "none"` as an invariant, TLC
finds it at depth 18:

1. The read and the connect are both registered on the socket.
2. `epoll_wait` returns it with IN|OUT.
3. Before the idle thread handles that result, the connect timer's
   callback runs its `cancelEvent(WRITE)` and triggers WRITE.
4. The idle thread's older result still has READ registered, so it
   passes the skip at `iomanager.cpp:355` and triggers both directions.
5. `triggerEvent(WRITE)` then aborts on its assertion.

The callback runs on a worker other than the one in `idle`, so this
needs an IOManager with two or more threads. This is the stale-result
hazard at `iomanager.cpp:355`. `iom_hup` reports the same assertion
through a hang-up.

Fairness: weak fairness of each fiber's steps, the scheduler's pick, each
idle thread, each scheduled callback, and of `TimerFire`: an armed timer
is eventually drained, which Timer's `timer_queue` run checks as
`DueTimersDrain`. Readiness is not fair: the peer may never send.

| Run | Config | Checks | Result |
|---|---|---|---|
| hook_shared | a client socket: f2 connects it and then sends twice, f1 sleeps and then reads it twice with a timeout (a read during the connect gets EAGAIN), 3 calls each, 1 idle thread | NothingLeftArmed, TimeoutEndsWait | pass (≈87k states, 1 min) |
| hook_silent | f1 reads with a timeout, the peer never sends, 2 calls | AllOpsReturn | violation: the timer fires between `addConditionTimer` and `addEvent`; its `cancelEvent` finds nothing, and the fiber waits forever |

Why the bounds suffice: the sleep puts a wake-up callback in the
scheduler's queue next to the connect's timer callbacks, and two calls
per fiber after it make a stale callback of the
first call meet the second call's `tinfo` (it must find the weak pointer
expired). Two timed waits on one socket (the connect and the read) make
the two callbacks' `cancelEvent`s, readiness and the epoll result
handling interleave on one `FdContext`, and with one idle thread the
result handling interleaves with both callback steps. `MaxCancels` is
`MaxOps` times the number of fibers: every timed call can make one
`cancelEvent`, and a smaller cap would stop callbacks the code runs.
A third fiber on a second socket (2.9M states without the liveness
property) adds no ordering that two fibers on one socket lack.

### ByteArray (`ByteBuffer.tla`, `ByteArray.tla`, `MCByteArray.tla`)

`ByteBuffer` is the abstract specification. It describes what
`bytearray.h` promises: a flat byte string `data` with a cursor `position`.
`BWrite` overwrites from the cursor and extends the string. `BTake` covers
`read` and a socket send, which take bytes from the cursor. `BPeek` covers
`toString`, which returns the rest without moving. `BSeek` covers
`setPosition`, which exposes unspecified bytes past the end. `BClear`
empties the string. No call faults.

`ByteArray` models the implementation:

* **State.** The linked list of `m_baseSize`-byte nodes is one sequence
  `mem`, and `Len(mem)` is `m_capacity`. This flattening is exact because
  `addCapacity` only appends nodes and `clear` only cuts back to the root.
  `m_cur` is a node number, and 0 stands for nullptr. `m_position` and
  `m_size` are kept as they are.
* **Calls as record operators.** Each call is an operator on a record of
  these fields: `AddCapacity`, `Write`, `Read` and its loop `ReadChain`,
  `ToString`, `SetPosition`, `Clear`, `RecvInto` (`getWriteBuffers` plus
  `recv`), and `SendFrom` (`getReadBuffers` plus `send`). Because they are
  operators, a caller that makes several calls is one action. Examples are
  `writeStringF16`, which writes the length and then the bytes, and
  `SocketStream::read`, which calls `getWriteBuffers`, `recv` and then
  `setPosition`.
* **Readers.** `VarintRead` is the loop of `readUint32`/`readUint64`: one
  `readFuint8` per byte while its top bit is set (the byte values of the
  constant `HighBytes`), at most `VarintBytes(bits)` of them.
  `StringRead` is `readStringF16` ... `readStringVint`: the length field,
  then a read of that many bytes. The decoded length is any number up to
  the capacity, and a reader that throws after consuming some bytes is
  taken with those bytes consumed.
* **Fixed-size loops.** `FixRead` and `FixWrite` are the loops of
  `Stream::readFixSize`/`writeFixSize(ByteArray)` over
  `SocketStream::read`/`write`, with up to `StreamCalls` calls and each
  call's result chosen from -1, 0 and the byte counts. The loops keep the
  `int` result in a `size_t`, so a -1 makes `left` wrap to `left + 1`,
  and the model does the same.
* **Crashes.** A nullptr dereference sets `crashed`, and a crashed process
  makes no further calls.
* **Abstracted encodings.** The fixed-width and varint encodings are kept
  only as the number of bytes they write. `VarintLen` counts the 7-bit
  groups, and `EncodeZigzag` is the signed mapping.
* **Refinement.** `Buffer == INSTANCE ByteBuffer WITH data <- SubSeq(mem, 1,
  m_size), position <- m_position, faulted <- crashed`, and the property
  `BufferSpec` is `Buffer!BSpec`.
* **Observed bytes.** The auxiliary variables `arg` and `out` hold the bytes
  the last call was given and the bytes it returned. This makes a read of
  the wrong node a visible step of the refinement.

| Run | Config | Checks | Result |
|---|---|---|---|
| bytearray_boundary | 2-byte nodes, capacity up to 6, fixed writes of 1 and 2 bytes, strings and transfers of 1 and 3 bytes, F16 and varint length fields, byte `b2` with its top bit set, 2 calls per fixed-size loop | BufferSpec | violation |

TLC finds four defects, each one once the earlier ones are patched in a
scratch copy of the model:

1. **`write` at a node end** (`bytearray.cpp` 388). When a copy ends
   exactly at the end of a node, `write` leaves `m_cur` on the full node.
   The next write then lands at offset 0 of that node and overwrites it.
   The counterexample takes two calls. First, `SocketStream::read`
   receives 0 bytes; `getWriteBuffers` has added a node and `setPosition`
   has kept `m_cur`. Then `writeStringF16` writes its 2-byte length and
   overwrites it with the string.
2. **`getReadBuffers` loop bound** (line 599). The loop compares the
   node's capacity with the total `size`, not with the remaining `len`.
   The loop then runs past the last node and dereferences nullptr. The
   trace is two writes, `setPosition(0)` and a 3-byte send.
3. **`toString` moves `m_cur`** (line 437). `toString` goes through `read`
   from `m_cur`, which is left on nullptr at the end of the data, so the
   next write crashes.
4. **`read` of 0 bytes** (line 405). `read` computes `m_cur->size` before
   it looks at `size`. After a read that ends at the end of the last
   node, `m_cur` is nullptr, and `readStringF16` of an empty string there
   crashes.

With all four patched, the refinement holds at `MaxCapacity` 4: 353k
distinct states, 57 minutes with the fixed-size loops (8 minutes without
them; the loops reach no new state, only new paths to one). That is
longer than a run may take, so it is not kept as a run.

`BufferSpec` does not catch the `size_t` wrap of the fixed-size loops:
the bytes they receive or send are a legal `BWrite` or `BTake` of the
flat buffer, and only the count they return is wrong. That is listed as
a hazard (`stream.cpp:21`).

Why the bounds are enough:

* With 2-byte nodes, writes of 1 and 2 bytes end both inside a node and
  on a node end.
* 3-byte strings and transfers span a node boundary.
* A capacity of 6 (three nodes) lets a loop cross two boundaries.
* A capacity of 6 also leaves room for the `setPosition` past `m_size`
  that `SocketStream::read` performs.

## 4. Not modelled (yet)

* `YieldToReadyBack`/`YieldToHoldBack`, which nothing calls.
* Thread and the locks: the thread name, `t_thread` and the ids that
  `start()` pushes to `threadIdQueue` (nothing reads them); `sem_init`,
  `sem_wait` and `pthread_create` failing (they throw). The `Mutex`,
  `RWMutex`, `Spinlock` and `CASLock` wrappers are not actions of their
  own: every critical section of the other modules is one step, or is
  split where the code releases the lock (addEvent's read lock, the
  Thread constructor's wait under `m_mutex`).
* IOManager: callback waiters (`cb`), which behave like fibers for these
  properties; `stopping()` once `stop()` has been called
  (IOWake has no `stop()`, Scheduler.tla covers it). IOWake does not model
  fd events (IOManager.tla does).
* Hook: the intervals of `sleep`/`usleep`/`nanosleep` (Hook's timers fire
  or not; `usleep` and `nanosleep` share `sleep`'s control flow, which is
  modelled); `fcntl(F_GETFL)` and `getsockopt` (reads) and
  the other `fcntl` commands (passed through); the `dlsym` table and the
  per-thread hook switch. Hook.tla takes the FdCtx settings as the
  constants `HasTimeout` and `Connectors`. FdTable models how `socket`,
  `accept`, `close`, `fcntl`, `ioctl`, `setsockopt` and
  `connect_with_timeout` change those settings. Also not modelled are return
  values: when `addEvent` fails, `connect_with_timeout` returns
  `SO_ERROR`, 0 while the connect is in progress.
* ByteArray: `readDouble` (`bytearray.cpp:289`) copies the 8 bytes of a
  `uint64_t` into a 4-byte `float`, overrunning it: memory layout, which
  TLC cannot observe, so it is left to code review rather than the hazard
  list. The decoded values of the varint and string readers (only
  the top bit of a byte and the number of bytes read are modelled);
  `read(buf, size, position)`;
  `getReadBuffers` at an explicit position; `writeToFile` and
  `readFromFile` (file I/O); `toHexString`; the byte-order swaps of the
  fixed-width writers. Stream's `readFixSize`/`writeFixSize` overloads
  for plain buffers (the same loops as the `ByteArray` ones) are not
  modelled either.
* Timer: `cancel()` of a recurring timer whose callback `listExpiredCb`
  has already copied returns true, and the copy still runs once
  afterwards; the spec does not say whether it may. `NoDrainAfterCancel`
  checks only that no new copy is handed out.
* `GetCurrentMS` is `gettimeofday`, a wall clock that can step back; the
  Timer model's clock only advances.
* Everything listed as out of scope above: plain formatting, parsing and I/O.
* `sleep`/`usleep`/`nanosleep` unit errors in hook.cpp (missing `return`
  after `sleep_f`, `sleep_f(usec)`, `timeout_ms / 1000`): ordinary unit
  bugs, not concurrency; listed as a hazard, not modelled.
* Socket/TcpServer: the bytes of `send`/`recv` and `sendTo`/`recvFrom`
  (an `isConnected` test and the hooked call; the echo handler's and the
  test client's calls are modelled as steps), the address caches, `getOption`/`getError`,
  the `cancel*` wrappers; TcpServer keeps its
  IOManagers in `shared_ptr`s made from raw pointers (the default
  arguments are `IOManager::GetThis()`), so destroying the server would
  delete an IOManager it does not own. That is object lifetime, which the
  model does not represent.

----------------------------- MODULE Scheduler -----------------------------
(***************************************************************************)
(* The fiber scheduler of src/server/scheduler.{h,cpp} together with the  *)
(* parts of src/server/fiber.cpp that change scheduler-visible state:     *)
(* Fiber::swapIn, YieldToReady, YieldToHold, Fiber::MainFunc, and with    *)
(* use_caller the root fiber's Fiber::call / back / CallMainFunc.         *)
(*                                                                         *)
(* Each worker thread runs Scheduler::MainFunc.  Its control points:      *)
(*   "pick"    top of the while(true) loop: lock, scan fiberQueue         *)
(*   "run"     a task fiber is executing its closure on this worker       *)
(*   "hold"    the fiber has registered with a waker and is about to call *)
(*             YieldToHold; it is still EXEC                              *)
(*   "swapout" the fiber has written its new state (READY/HOLD/TERM/      *)
(*             EXCEPT) but swapcontext has not yet saved its context      *)
(*   "post"    swapIn has returned to MainFunc, state not yet inspected   *)
(*   "idle"    the idle fiber (Scheduler::idle) is resumed                *)
(*   "done"    MainFunc has left its loop (thread finished)               *)
(*   "caller"  use_caller only: the thread that built the scheduler, whose *)
(*             root fiber runs MainFunc only once stop() calls it         *)
(*                                                                         *)
(* A callback task is run in the per-worker scratch fiber `tmp`; the      *)
(* model gives every callback task its own fiber identity, which stands   *)
(* for the scratch fiber while it runs that callback (reset(cb) / new     *)
(* Fiber(cb)); reuse of the same stack for the next callback is the next  *)
(* callback's identity.                                                    *)
(*                                                                         *)
(* start() runs on the main thread: for each spawned worker it locks     *)
(* m_mutex and constructs a Thread (src/server/thread.cpp), whose        *)
(* constructor waits on a Semaphore until Thread::run on the new thread  *)
(* has posted it; Thread::run then calls MainFunc.  The spawned workers  *)
(* start "unborn", are "born" by pthread_create, and reach "pick" in     *)
(* Thread::run.                                                           *)
(*                                                                         *)
(* Something outside the scheduler (an IOManager event, a timer callback, *)
(* another thread) re-schedules a fiber that parked itself in HOLD: the   *)
(* fiber registers that interest ("armed") before it yields, and Wake     *)
(* models the later Scheduler::scheduler(fiber) call.                      *)
(***************************************************************************)
EXTENDS Integers, Sequences, SequencesExt, FiniteSets

CONSTANTS
    Workers,     \* worker thread ids (model values)
    Fibers,      \* tasks; initially each is a scheduled callback
    AnyThread,   \* the thread id -1 of FiberAndCb: no affinity
    NoTask,      \* FiberAndCb after reset(): neither m_cb nor m_fiber
    Affinity,    \* [Fibers -> Workers \cup {AnyThread}] of the initial schedule
    Parent,      \* Parent[f]: the task whose closure calls scheduler(f's
                 \* callback), or NoTask if f was scheduled before start()
    Frequency,   \* `frequency`: tasks a worker runs before it goes idle
    MaxYields,   \* bound on the yields of one fiber
    MayHold,     \* whether fiber bodies park themselves with YieldToHold
    Root         \* m_rootThreadId: a member of Workers with use_caller,
                 \* any other model value (-1) without

ASSUME /\ Workers # {} /\ Fibers # {}
       /\ AnyThread \notin Workers /\ NoTask \notin Fibers
       /\ Affinity \in [Fibers -> Workers \cup {AnyThread}]
       /\ Parent \in [Fibers -> Fibers \cup {NoTask}]
       /\ \A f \in Fibers : Parent[f] # f /\ (Parent[f] # NoTask => Parent[Parent[f]] = NoTask)
       /\ Frequency \in Nat \ {0} /\ MaxYields \in Nat /\ MayHold \in BOOLEAN
       /\ Root \notin Fibers \cup {AnyThread}

(* Fiber::State *)
FiberStates == {"INIT", "HOLD", "EXEC", "TERM", "READY", "EXCEPT"}
Finished == {"TERM", "EXCEPT"}

(* activate_threads is a std::atomic<size_t>; a decrement below 0 wraps   *)
(* to 2^64 - k.  A negative value x stands for 2^64 + x.  Increments are *)
(* balanced by decrements and at most Cardinality(Workers) tasks run at  *)
(* once, so once the true value is at or below ActiveFloor it can never  *)
(* return to 0 within 2^64 steps: saturating there keeps "= 0" exact.    *)
ActiveFloor == -(Cardinality(Workers) + 1)
DecActive(x) == IF x - 1 < ActiveFloor THEN ActiveFloor ELSE x - 1

Entry == [fib : Fibers, cb : BOOLEAN, thread : Workers \cup {AnyThread}]

VARIABLES
    queue,       \* fiberQueue: Seq(Entry)
    fstate,      \* m_state of every task fiber
    armed,       \* the fiber is registered with a waker (event / timer)
    yields,      \* yields the fiber has made (bounded by MaxYields)
    pc,          \* control point of each worker's MainFunc
    cur,         \* `ret`: the entry the worker popped, or NoTask
    workTimes,   \* work_times, local to MainFunc
    activate,    \* activate_threads
    waiting,     \* wait_threads
    idleState,   \* state of each worker's idle_fiber
    stopFlag,    \* m_stopping
    mainPc,      \* the main thread in start(): "start", "ctor", "started"
    spawned,     \* the loop index i of start(): Threads constructed so far
    sem          \* sem[w]: the count of w's Thread::m_semaphor

\* The Scheduler's own members: fiberQueue, activate_threads, wait_threads
\* and m_stopping (threadQueue and the root fiber are Workers and Root).
schedVars == <<queue, activate, waiting, stopFlag>>

\* start()'s loop and the Threads' semaphores.
startVars == <<mainPc, spawned, sem>>

vars == <<schedVars, fstate, armed, yields, pc, cur, workTimes, idleState,
          startVars>>

Queued(f) == \E i \in DOMAIN queue : queue[i].fib = f

(* The workers that are executing on the stack of fiber f. *)
RunnersOf(f) == {w \in Workers : pc[w] \in {"run", "hold", "swapout"} /\ cur[w].fib = f}

TypeOK ==
    /\ queue \in Seq(Entry)
    /\ fstate \in [Fibers -> FiberStates]
    /\ armed \in [Fibers -> BOOLEAN]
    /\ yields \in [Fibers -> 0..MaxYields]
    /\ pc \in [Workers -> {"unborn", "born", "pick", "run", "hold", "swapout", "post",
                          "idle", "done", "caller"}]
    /\ cur \in [Workers -> Entry \cup {NoTask}]
    /\ workTimes \in [Workers -> 0..Frequency]
    /\ activate \in ActiveFloor..Cardinality(Workers)
    /\ waiting \in 0..Cardinality(Workers)
    /\ idleState \in [Workers -> {"INIT", "HOLD", "TERM"}]
    /\ stopFlag \in BOOLEAN
    /\ mainPc \in {"start", "ctor", "started"}
    /\ spawned \in 0 .. Cardinality(Workers)
    /\ sem \in [Workers -> Nat]

(* Scheduler(threads, use_caller): with use_caller the calling thread is  *)
(* one of the threads (--threads) and m_rootFiber, made on it with        *)
(* CallMainFunc as entry, will run MainFunc there; start() spawns a       *)
(* Thread running MainFunc for each of the other m_threadsNum.            *)
UseCaller == Root \in Workers
RootStart(w) == IF w = Root THEN "caller" ELSE "unborn"

(* threadQueue[i] for i in 0 .. m_threadsNum - 1: the spawned workers in  *)
(* the order start() creates them.                                        *)
SpawnOrder == SetToSeq(Workers \ {Root})

(* The tasks were scheduled with scheduler(cb, thread) before start().    *)
(* Their order in the queue is one fixed enumeration of them.  The        *)
(* others are scheduled later by their parent task's closure.             *)
Init ==
    /\ queue = LET order == SetToSeq({f \in Fibers : Parent[f] = NoTask})
               IN [i \in DOMAIN order |->
                     [fib |-> order[i], cb |-> TRUE, thread |-> Affinity[order[i]]]]
    /\ fstate = [f \in Fibers |-> "INIT"]
    /\ armed = [f \in Fibers |-> FALSE]
    /\ yields = [f \in Fibers |-> 0]
    /\ pc = [w \in Workers |-> RootStart(w)]
    /\ cur = [w \in Workers |-> NoTask]
    /\ workTimes = [w \in Workers |-> 0]
    /\ activate = 0
    /\ waiting = 0
    /\ idleState = [w \in Workers |-> "INIT"]
    /\ stopFlag = FALSE
    /\ mainPc = "start"
    /\ spawned = 0
    /\ sem = [w \in Workers |-> 0]

(* m_mutex is free of start(), which holds it across each Thread         *)
(* constructor; the other holders (the scan, scheduler()) are atomic     *)
(* steps.                                                                 *)
MutexFree == mainPc # "ctor"

-----------------------------------------------------------------------------
(* Scheduler::scheduler(fcb, -1): push_back under m_mutex.  The base     *)
(* tickle() only logs.                                                    *)
Enqueue(f) == queue' = Append(queue, [fib |-> f, cb |-> FALSE, thread |-> AnyThread])

(* scheduler(cb) from a running task's closure, as test_scheduler.cpp's *)
(* test() does: a callback entry with no affinity, pushed under m_mutex. *)
EnqueueCb(c) == queue' = Append(queue, [fib |-> c, cb |-> TRUE, thread |-> AnyThread])

(* Task c has not been scheduled yet: a callback task is EXEC from the   *)
(* moment a worker pops it, so INIT and not queued means never pushed.   *)
Unscheduled(c) == fstate[c] = "INIT" /\ ~Queued(c)

(* The children of f its closure has not scheduled yet.                  *)
ToSpawn(f) == {c \in Fibers : Parent[c] = f /\ Unscheduled(c)}

(* Defect variant: the `it->m_thread != -1` test is dropped, so          *)
(* unpinned tasks count as pinned elsewhere.                              *)
EligibleIgnoresAny(w, e) ==
    /\ e.thread = w
    /\ ~(~e.cb /\ fstate[e.fib] = "EXEC")

(* The scan of fiberQueue in MainFunc: entries pinned to another thread   *)
(* are skipped, and so is a fiber entry whose fiber is still EXEC.        *)
Eligible(w, e) ==
    /\ e.thread \in {AnyThread, w}
    /\ ~(~e.cb /\ fstate[e.fib] = "EXEC")

(* Defect variant: the `work_times == frequency` break is dropped.        *)
PickIndexNoLimit(w) == SelectInSeq(queue, LAMBDA e : Eligible(w, e))

PickIndex(w) ==
    IF workTimes[w] = Frequency THEN 0
    ELSE SelectInSeq(queue, LAMBDA e : Eligible(w, e))

(* Scheduler::stopping() *)
Stopping == stopFlag /\ queue = <<>> /\ activate = 0

(* MainFunc breaks out of its loop and returns: on a spawned thread,      *)
(* Thread::run ends; on the root fiber, CallMainFunc sets it TERM and     *)
(* back() resumes stop() just after its m_rootFiber->call().              *)
MainFuncReturns(w) == pc' = [pc EXCEPT ![w] = "done"]

(* The else-branch of MainFunc: nothing runnable.  is_active is          *)
(* initialised to true, so activate_threads is decremented even though   *)
(* nothing was popped.  A finished idle fiber ends the loop; otherwise   *)
(* the idle fiber is swapped in.                                          *)
IdleBranch(w) ==
    /\ workTimes' = [workTimes EXCEPT ![w] = 0]
    /\ IF idleState[w] = "TERM"
       THEN /\ MainFuncReturns(w)
            /\ UNCHANGED waiting
       ELSE /\ pc' = [pc EXCEPT ![w] = "idle"]
            /\ waiting' = waiting + 1

(* Defect variant: the popped entry is not erased from fiberQueue.      *)
PickKeepsEntry(w) ==
    /\ pc[w] = "pick"
    /\ MutexFree
    /\ LET i == PickIndex(w)
           e == queue[i]
       IN IF i = 0
          THEN /\ activate' = DecActive(activate)
               /\ IdleBranch(w)
               /\ UNCHANGED <<queue, fstate, cur>>
          ELSE /\ activate' = activate + 1
               /\ workTimes' = [workTimes EXCEPT ![w] = @ + 1]
               /\ fstate' = [fstate EXCEPT ![e.fib] = "EXEC"]
               /\ cur' = [cur EXCEPT ![w] = e]
               /\ pc' = [pc EXCEPT ![w] = "run"]
               /\ UNCHANGED <<queue, waiting>>
    /\ UNCHANGED <<armed, yields, idleState, stopFlag>>
    /\ UNCHANGED startVars

(* One iteration of MainFunc up to the swapIn: the locked scan, the pop  *)
(* (++activate_threads), and the dispatch on what was popped.  A popped  *)
(* fiber that is already TERM/EXCEPT falls through to the idle branch.   *)
Pick(w) ==
    /\ pc[w] = "pick"
    /\ MutexFree
    /\ LET i == PickIndex(w)
           e == queue[i]
       IN IF i = 0
          THEN /\ activate' = DecActive(activate)
               /\ IdleBranch(w)
               /\ UNCHANGED <<queue, fstate, cur>>
          ELSE /\ queue' = RemoveAt(queue, i)
               /\ IF ~e.cb /\ fstate[e.fib] \in Finished
                  THEN /\ activate' = DecActive(activate + 1)
                       /\ IdleBranch(w)
                       /\ UNCHANGED <<fstate, cur>>
                  ELSE \* ++work_times; swapIn(): ASSERT(m_state != EXEC); m_state = EXEC
                       /\ activate' = activate + 1
                       /\ workTimes' = [workTimes EXCEPT ![w] = @ + 1]
                       /\ fstate' = [fstate EXCEPT ![e.fib] = "EXEC"]
                       /\ cur' = [cur EXCEPT ![w] = e]
                       /\ pc' = [pc EXCEPT ![w] = "run"]
                       /\ UNCHANGED waiting
    /\ UNCHANGED <<armed, yields, idleState, stopFlag>>
    /\ UNCHANGED startVars

(* The fiber body runs up to its next suspension point:                  *)
(*  YieldToReady:  m_state = READY                                        *)
(*  register with a waker (addEvent, addTimer) while still EXEC, and go  *)
(*                 on to YieldToHold below                                *)
(*  end of closure in Fiber::MainFunc: TERM, or EXCEPT if it threw        *)
(* the first and the last followed by swapOut().                          *)
RunBody(w) ==
    /\ pc[w] = "run"
    /\ LET f == cur[w].fib
       IN \/ /\ yields[f] < MaxYields
             /\ fstate' = [fstate EXCEPT ![f] = "READY"]
             /\ yields' = [yields EXCEPT ![f] = @ + 1]
             /\ pc' = [pc EXCEPT ![w] = "swapout"]
             /\ UNCHANGED armed
          \/ /\ MayHold /\ yields[f] < MaxYields
             /\ armed' = [armed EXCEPT ![f] = TRUE]
             /\ yields' = [yields EXCEPT ![f] = @ + 1]
             /\ pc' = [pc EXCEPT ![w] = "hold"]
             /\ UNCHANGED fstate
          \/ /\ ToSpawn(f) = {}
             /\ \E s \in Finished : fstate' = [fstate EXCEPT ![f] = s]
             /\ pc' = [pc EXCEPT ![w] = "swapout"]
             /\ UNCHANGED <<armed, yields>>
    /\ UNCHANGED <<queue, cur, workTimes, activate, waiting, idleState, stopFlag>>
    /\ UNCHANGED startVars

(* Fiber::YieldToHold: m_state = HOLD, then swapOut().  The waker may    *)
(* already have re-queued the fiber while it was EXEC.                    *)
YieldToHold(w) ==
    /\ pc[w] = "hold"
    /\ fstate' = [fstate EXCEPT ![cur[w].fib] = "HOLD"]
    /\ pc' = [pc EXCEPT ![w] = "swapout"]
    /\ UNCHANGED <<queue, armed, yields, cur, workTimes, activate, waiting,
                   idleState, stopFlag>>
    /\ UNCHANGED startVars

(* The running closure calls Scheduler::GetThis()->scheduler(cb) for one *)
(* of its children and goes on running.                                  *)
SpawnTask(w) ==
    /\ pc[w] = "run"
    /\ MutexFree
    /\ \E c \in ToSpawn(cur[w].fib) : EnqueueCb(c)
    /\ UNCHANGED <<fstate, armed, yields, pc, cur, workTimes, activate,
                   waiting, idleState, stopFlag>>
    /\ UNCHANGED startVars

(* swapcontext in Fiber::swapOut saves the fiber's context and returns   *)
(* to the worker's MainFunc.                                              *)
SwapOut(w) ==
    /\ pc[w] = "swapout"
    /\ pc' = [pc EXCEPT ![w] = "post"]
    /\ UNCHANGED <<queue, fstate, armed, yields, cur, workTimes, activate,
                   waiting, idleState, stopFlag>>
    /\ UNCHANGED startVars

(* Defect variant: a READY fiber is parked like a HOLD one instead of   *)
(* being re-scheduled.                                                    *)
PostDropsReady(w) ==
    /\ pc[w] = "post"
    /\ LET f == cur[w].fib
       IN IF fstate[f] \in Finished
          THEN UNCHANGED fstate
          ELSE fstate' = [fstate EXCEPT ![f] = "HOLD"]
    /\ activate' = DecActive(activate)
    /\ cur' = [cur EXCEPT ![w] = NoTask]
    /\ pc' = [pc EXCEPT ![w] = "pick"]
    /\ UNCHANGED <<queue, armed, yields, workTimes, waiting, idleState, stopFlag>>
    /\ UNCHANGED startVars

(* MainFunc after swapIn returns: --activate_threads, then the state of  *)
(* the fiber is read again: READY is re-scheduled, any other unfinished  *)
(* state is overwritten with HOLD.  For the scratch fiber, tmp.reset()   *)
(* or tmp->reset(nullptr) follows (see the module header).               *)
Post(w) ==
    /\ pc[w] = "post"
    /\ LET f == cur[w].fib
       IN \/ /\ fstate[f] = "READY"
             /\ MutexFree
             /\ Enqueue(f)
             /\ UNCHANGED fstate
          \/ /\ fstate[f] \in Finished
             /\ UNCHANGED <<queue, fstate>>
          \/ /\ fstate[f] \notin Finished \cup {"READY"}
             /\ fstate' = [fstate EXCEPT ![f] = "HOLD"]
             /\ UNCHANGED queue
    /\ activate' = DecActive(activate)
    /\ cur' = [cur EXCEPT ![w] = NoTask]
    /\ pc' = [pc EXCEPT ![w] = "pick"]
    /\ UNCHANGED <<armed, yields, workTimes, waiting, idleState, stopFlag>>
    /\ UNCHANGED startVars

(* The idle fiber resumes inside Scheduler::idle's loop                  *)
(* `while (!stopping()) YieldToHold();`: either stopping() holds and the *)
(* fiber ends (TERM), or it yields HOLD.  Back in MainFunc:              *)
(* --wait_threads and setState(HOLD) unless it ended.                    *)
IdleStep(w) ==
    /\ pc[w] = "idle"
    /\ idleState' = [idleState EXCEPT ![w] = IF Stopping THEN "TERM" ELSE "HOLD"]
    /\ waiting' = waiting - 1
    /\ pc' = [pc EXCEPT ![w] = "pick"]
    /\ UNCHANGED <<queue, fstate, armed, yields, cur, workTimes, activate, stopFlag>>
    /\ UNCHANGED startVars

(* A waker (triggerEvent, a timer callback) calls scheduler(fiber).      *)
Wake(f) ==
    /\ armed[f]
    /\ MutexFree
    /\ armed' = [armed EXCEPT ![f] = FALSE]
    /\ Enqueue(f)
    /\ UNCHANGED <<fstate, yields, pc, cur, workTimes, activate, waiting,
                   idleState, stopFlag>>
    /\ UNCHANGED startVars

(* Scheduler::stop(), called once start() has returned: m_stopping =    *)
(* true, one tickle per thread (a log line); with use_caller CallRoot    *)
(* follows; then join every worker.                                       *)
(* stop() returns when every worker is "done" (Joined below).            *)
Stop ==
    /\ mainPc = "started"
    /\ ~stopFlag
    /\ stopFlag' = TRUE
    /\ UNCHANGED <<queue, fstate, armed, yields, pc, cur, workTimes, activate,
                   waiting, idleState>>
    /\ UNCHANGED startVars

(* stop() with use_caller, after the tickles: if !stopping(), Fiber::call *)
(* on the root fiber (m_state = EXEC, swapcontext into CallMainFunc), so  *)
(* the root thread becomes a worker until MainFunc returns; otherwise it  *)
(* goes on to the joins.  With m_threadsNum == 0 the early return at the *)
(* top of stop() has the same effect as the stopping() branch here.       *)
CallRoot ==
    /\ UseCaller
    /\ pc[Root] = "caller"
    /\ stopFlag
    /\ pc' = [pc EXCEPT ![Root] = IF Stopping THEN "done" ELSE "pick"]
    /\ UNCHANGED <<queue, fstate, armed, yields, cur, workTimes, activate,
                   waiting, idleState, stopFlag>>
    /\ UNCHANGED startVars

(* Thread::join: pthread_join returns once Thread::run has returned,     *)
(* that is, once MainFunc has left its loop on that thread.              *)
Joinable(w) == pc[w] = "done"

Joined == \A w \in Workers : Joinable(w)

-----------------------------------------------------------------------------
(* start() and Thread                                                     *)

(* Semaphore::notify: sem_post.                                          *)
SemPost(w) == sem' = [sem EXCEPT ![w] = @ + 1]

(* Semaphore::wait: sem_wait blocks until the count is positive and      *)
(* takes one.                                                             *)
SemWait(w) == sem[w] > 0 /\ sem' = [sem EXCEPT ![w] = @ - 1]

(* One turn of start()'s loop: lock m_mutex and construct the next        *)
(* Thread, whose pthread_create starts the new thread; once every thread  *)
(* is constructed, start() returns.                                       *)
Start ==
    /\ mainPc = "start"
    /\ IF spawned < Len(SpawnOrder)
       THEN /\ pc' = [pc EXCEPT ![SpawnOrder[spawned + 1]] = "born"]
            /\ mainPc' = "ctor"
       ELSE /\ mainPc' = "started"
            /\ UNCHANGED pc
    /\ UNCHANGED <<schedVars, fstate, armed, yields, cur, workTimes,
                   idleState, spawned, sem>>

(* Defect variant: Thread::run calls the callback (MainFunc) before it    *)
(* posts the semaphore.                                                   *)
ThreadRunCbFirst(w) ==
    /\ pc[w] = "born"
    /\ pc' = [pc EXCEPT ![w] = "pick"]
    /\ UNCHANGED <<schedVars, fstate, armed, yields, cur, workTimes,
                   idleState, startVars>>

(* Thread::run on the new thread: t_thread, the name and m_id are set,   *)
(* m_cb is swapped out, the semaphore is posted, and then the callback,  *)
(* Scheduler::MainFunc, runs.                                             *)
ThreadRun(w) ==
    /\ pc[w] = "born"
    /\ SemPost(w)
    /\ pc' = [pc EXCEPT ![w] = "pick"]
    /\ UNCHANGED <<schedVars, fstate, armed, yields, cur, workTimes,
                   idleState, mainPc, spawned>>

(* The Thread constructor's m_semaphor->wait() returns; start() pushes   *)
(* the thread's id to threadIdQueue and unlocks m_mutex at the end of    *)
(* the loop body.                                                         *)
StartWait ==
    LET w == SpawnOrder[spawned + 1]
    IN  /\ mainPc = "ctor"
        /\ SemWait(w)
        /\ spawned' = spawned + 1
        /\ mainPc' = "start"
        /\ UNCHANGED <<schedVars, fstate, armed, yields, pc, cur, workTimes,
                       idleState>>

WorkerStep(w) ==
    \/ ThreadRun(w) \/ Pick(w) \/ RunBody(w) \/ YieldToHold(w) \/ SpawnTask(w)
    \/ SwapOut(w) \/ Post(w) \/ IdleStep(w)

MainStep == Start \/ StartWait

Next ==
    \/ \E w \in Workers : WorkerStep(w)
    \/ \E f \in Fibers : Wake(f)
    \/ MainStep
    \/ Stop
    \/ CallRoot

(* Worker threads are OS threads: each keeps getting CPU time.  A waker  *)
(* eventually delivers (readiness/timeouts arrive), and the main thread  *)
(* goes on through start(), then eventually calls stop() and goes on     *)
(* through it.                                                            *)
Fairness ==
    /\ \A w \in Workers : WF_vars(WorkerStep(w))
    /\ \A f \in Fibers : WF_vars(Wake(f))
    /\ WF_vars(MainStep)
    /\ WF_vars(Stop)
    /\ WF_vars(CallRoot)

Spec == Init /\ [][Next]_vars /\ Fairness

-----------------------------------------------------------------------------
(* No fiber executes on two workers at once: a second swapIn of a fiber  *)
(* whose context another worker has not yet saved (or is still running)  *)
(* resumes a stale context.  This is what the EXEC check in the queue    *)
(* scan of MainFunc and the ASSERT in Fiber::swapIn are there to prevent.*)
NoDoubleResume == \A f \in Fibers : Cardinality(RunnersOf(f)) <= 1

(* The last Fiber::ptr to f is gone: no queue entry, no waker and no     *)
(* worker running it or in MainFunc's post-swap code holds it, so ~Fiber *)
(* runs, and ASSERTs that a fiber with a stack is TERM, INIT or EXCEPT.  *)
Dropped(f) ==
    /\ ~Queued(f)
    /\ ~armed[f]
    /\ ~\E w \in Workers : pc[w] \in {"run", "hold", "swapout", "post"} /\ cur[w].fib = f

(* No unfinished fiber is lost: a fiber is dropped only once it has       *)
(* finished, so ~Fiber's ASSERT holds and no fiber parked in HOLD or     *)
(* yielded READY is forgotten by MainFunc's post-swap code.               *)
NoLostFiber ==
    \A f \in Fibers : Dropped(f) => fstate[f] \in Finished \cup {"INIT"}

(* Every scheduled task eventually runs to completion (spec: a batch of  *)
(* callbacks all execute), through READY re-queues and HOLD wake-ups.    *)
AllTasksComplete == <>(\A f \in Fibers : fstate[f] \in Finished)

(* start() returns: every Thread constructor's semaphore wait ends,      *)
(* although start() holds m_mutex across it and each new thread goes     *)
(* straight on into MainFunc, whose scan takes m_mutex.                   *)
StartReturns == <>(mainPc = "started")

(* stop() returns: once m_stopping is set, every worker eventually leaves *)
(* MainFunc so that the joins complete (Scheduler::stop, stopping()).    *)
StopReturns == stopFlag ~> Joined
=============================================================================

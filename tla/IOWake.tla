------------------------------ MODULE IOWake ------------------------------
(***************************************************************************)
(* How IOManager worker threads go to sleep in epoll_wait and how they are *)
(* woken: Scheduler::MainFunc's idle branch and wait_threads               *)
(* (src/server/scheduler.cpp), IOManager::idle, tickle and the tickle pipe *)
(* (src/server/iomanager.cpp), and the timer calls the poller depends on:  *)
(* addTimer, getNextTimer, listExpiredCb (src/server/timer.cpp).           *)
(*                                                                         *)
(* Tasks are callbacks that run to completion.  A producer thread (the     *)
(* main thread of a test or server, or a fiber on another IOManager)       *)
(* schedules tasks and adds timers.  No fd other than the pipe is watched  *)
(* and stop() is never called (IOManager.tla and Scheduler.tla cover       *)
(* those), so IOManager::stopping() is false and only its getNextTimer     *)
(* call matters.                                                           *)
(*                                                                         *)
(* Worker control points:                                                  *)
(*   "pick"     top of MainFunc's loop: lock, scan fiberQueue              *)
(*   "run"      a task executes                                            *)
(*   "toidle"   the scan found nothing (or the frequency limit was hit);   *)
(*              ++wait_threads is next                                     *)
(*   "idle"     IOManager::idle at the top of its loop                     *)
(*   "epoll"    blocked in epoll_wait until wakeAt[w] or a pipe event      *)
(*   "drain"    epoll_wait returned; listExpiredCb is next                 *)
(*   "dispatch" scheduler(cbs), the pipe read, swapOut, --wait_threads     *)
(*                                                                         *)
(* The clock is GetCurrentMS in milliseconds.  uint64 timeouts are cast to *)
(* int before the comparison with MAX_TIMEOUT and again for epoll_wait;    *)
(* IntBits is the width of that int.                                       *)
(***************************************************************************)
EXTENDS Integers, Sequences, FiniteSets

CONSTANTS
    Workers,      \* IOManager worker threads
    Tasks,        \* callbacks the producer schedules
    Timers,       \* timers the producer adds
    Delays,       \* the intervals addTimer may be given (ms)
    Frequency,    \* `frequency`: tasks a worker runs before it goes idle
    MaxTimeout,   \* MAX_TIMEOUT of IOManager::idle
    IntBits,      \* width of int
    MaxTime,      \* bound: the clock stops here
    NoTask        \* a worker runs no task

ASSUME /\ Frequency \in Nat \ {0}
       /\ MaxTimeout \in Nat /\ MaxTimeout < 2^(IntBits - 1)
       /\ Delays \subseteq Nat /\ MaxTime \in Nat
       /\ NoTask \notin Tasks \cup Timers

\* Later than every deadline and every finite epoll_wait timeout.
Never == MaxTime + MaxTimeout + 1
         + (IF Delays = {} THEN 0 ELSE CHOOSE d \in Delays : \A e \in Delays : d >= e)

\* The int a uint64 value becomes on a cast (two's complement, IntBits wide).
IntCast(x) ==
    LET m == x % 2^IntBits
    IN  IF m >= 2^(IntBits - 1) THEN m - 2^IntBits ELSE m

VARIABLES
    queue,        \* fiberQueue: tasks and timer callbacks
    wpc,          \* control point of each worker
    cur,          \* the task a worker runs
    workTimes,    \* work_times of each worker's MainFunc
    waiting,      \* wait_threads
    wakeAt,       \* when a worker's epoll_wait times out (Never: no timeout)
    cbs,          \* the timer callbacks a worker's listExpiredCb returned
    pipeEdge,     \* the pipe's read end is on epoll's ready list
    armed,        \* timers in m_timers
    deadline,     \* m_next of each timer
    tickled,      \* m_tickled
    now,          \* GetCurrentMS()
    ppc,          \* the producer: "free", or "tickle" after a push into an empty queue
    submitted,    \* tasks the producer has scheduled
    added         \* timers the producer has added

vars == <<queue, wpc, cur, workTimes, waiting, wakeAt, cbs, pipeEdge,
          armed, deadline, tickled, now, ppc, submitted, added>>

TypeOK ==
    /\ queue \in Seq(Tasks \cup Timers)
    /\ wpc \in [Workers -> {"pick", "run", "toidle", "idle", "epoll", "drain", "dispatch"}]
    /\ cur \in [Workers -> Tasks \cup Timers \cup {NoTask}]
    /\ workTimes \in [Workers -> 0 .. Frequency]
    /\ waiting \in 0 .. Cardinality(Workers)
    /\ wakeAt \in [Workers -> 0 .. Never]
    /\ cbs \in [Workers -> SUBSET Timers]
    /\ pipeEdge \in BOOLEAN /\ tickled \in BOOLEAN
    /\ armed \subseteq Timers /\ deadline \in [Timers -> Nat]
    /\ now \in 0 .. MaxTime
    /\ ppc \in {"free", "tickle"}
    /\ submitted \subseteq Tasks /\ added \subseteq Timers

\* After the IOManager constructor and start(): the pipe is registered
\* with EPOLLIN | EPOLLET and nothing is queued.
Init ==
    /\ queue = <<>>
    /\ wpc = [w \in Workers |-> "pick"]
    /\ cur = [w \in Workers |-> NoTask]
    /\ workTimes = [w \in Workers |-> 0]
    /\ waiting = 0
    /\ wakeAt = [w \in Workers |-> 0]
    /\ cbs = [w \in Workers |-> {}]
    /\ pipeEdge = FALSE
    /\ armed = {} /\ deadline = [t \in Timers |-> 0] /\ tickled = FALSE
    /\ now = 0
    /\ ppc = "free" /\ submitted = {} /\ added = {}

-----------------------------------------------------------------------------
(* Timers and the wait timeout                                             *)

\* The first deadline in m_timers, Never when it is empty.
FirstDeadline ==
    IF armed = {} THEN Never
    ELSE CHOOSE d \in {deadline[t] : t \in armed} : \A u \in armed : d <= deadline[u]

\* ~0ull, which getNextTimer returns without timers.
NoNext == -1

\* getNextTimer: ~0ull without timers, 0 when the first is due, otherwise
\* the milliseconds until it.
NextTimer ==
    IF armed = {} THEN NoNext
    ELSE IF now >= FirstDeadline THEN 0 ELSE FirstDeadline - now

\* IOManager::idle: cap the timeout at MAX_TIMEOUT after a cast to int, and
\* pass epoll_wait the timeout cast to int again.
EpollTimeout(nt) ==
    LET capped == IF nt = NoNext THEN MaxTimeout
                  ELSE IF IntCast(nt) > MaxTimeout THEN MaxTimeout ELSE nt
    IN  IntCast(capped)

\* A negative epoll_wait timeout waits without limit.
WakeTime(t) == IF t < 0 THEN Never ELSE now + t

\* IOManager::tickle: write the pipe only when some thread is in idle.
Tickle == pipeEdge' = (pipeEdge \/ waiting > 0)

-----------------------------------------------------------------------------
(* Worker threads                                                          *)

\* MainFunc's scan under m_mutex: with work_times == frequency, or nothing
\* queued, no task is taken and the idle branch (work_times = 0) follows.
Pick(w) ==
    /\ wpc[w] = "pick"
    /\ IF workTimes[w] = Frequency \/ queue = <<>>
       THEN /\ workTimes' = [workTimes EXCEPT ![w] = 0]
            /\ wpc' = [wpc EXCEPT ![w] = "toidle"]
            /\ UNCHANGED <<queue, cur>>
       ELSE /\ cur' = [cur EXCEPT ![w] = Head(queue)]
            /\ queue' = Tail(queue)
            /\ workTimes' = [workTimes EXCEPT ![w] = @ + 1]
            /\ wpc' = [wpc EXCEPT ![w] = "run"]
    /\ UNCHANGED <<waiting, wakeAt, cbs, pipeEdge, armed, deadline, tickled,
                   now, ppc, submitted, added>>

\* The task runs to completion in the scratch fiber and swapIn returns.
RunTask(w) ==
    /\ wpc[w] = "run"
    /\ cur' = [cur EXCEPT ![w] = NoTask]
    /\ wpc' = [wpc EXCEPT ![w] = "pick"]
    /\ UNCHANGED <<queue, workTimes, waiting, wakeAt, cbs, pipeEdge, armed,
                   deadline, tickled, now, ppc, submitted, added>>

\* ++wait_threads, then swapIn of the idle fiber.
Park(w) ==
    /\ wpc[w] = "toidle"
    /\ waiting' = waiting + 1
    /\ wpc' = [wpc EXCEPT ![w] = "idle"]
    /\ UNCHANGED <<queue, cur, workTimes, wakeAt, cbs, pipeEdge, armed,
                   deadline, tickled, now, ppc, submitted, added>>

\* Top of IOManager::idle's loop: stopping(next_timeout) runs getNextTimer
\* (which clears m_tickled) and is false; epoll_wait is entered with the
\* capped timeout.
IdleWait(w) ==
    /\ wpc[w] = "idle"
    /\ tickled' = FALSE
    /\ wakeAt' = [wakeAt EXCEPT ![w] = WakeTime(EpollTimeout(NextTimer))]
    /\ wpc' = [wpc EXCEPT ![w] = "epoll"]
    /\ UNCHANGED <<queue, cur, workTimes, waiting, cbs, pipeEdge, armed,
                   deadline, now, ppc, submitted, added>>

\* epoll_wait returns: with the pipe's event, which takes the fd off the
\* ready list, or on its timeout with no events.
EpollReturn(w) ==
    /\ wpc[w] = "epoll"
    /\ pipeEdge \/ now >= wakeAt[w]
    /\ pipeEdge' = FALSE
    /\ wpc' = [wpc EXCEPT ![w] = "drain"]
    /\ UNCHANGED <<queue, cur, workTimes, waiting, wakeAt, cbs, armed,
                   deadline, tickled, now, ppc, submitted, added>>

\* listExpiredCb: the timers due at now leave m_timers (none recurs here).
ListExpiredCb(w) ==
    LET due == {t \in armed : deadline[t] <= now}
    IN  /\ wpc[w] = "drain"
        /\ cbs' = [cbs EXCEPT ![w] = due]
        /\ armed' = armed \ due
        /\ wpc' = [wpc EXCEPT ![w] = "dispatch"]
        /\ UNCHANGED <<queue, cur, workTimes, waiting, wakeAt, pipeEdge,
                       deadline, tickled, now, ppc, submitted, added>>

\* Scheduler::scheduler(begin, end): under m_mutex, need_tickle =
\* fiberQueue.empty(), then every callback is pushed with no affinity, in
\* the order listExpiredCb put them in the vector; tickle() if need_tickle.
ScheduleBatch(cs) ==
    /\ \E order \in [1 .. Cardinality(cs) -> cs] :
          /\ \A i, j \in DOMAIN order : i # j => order[i] # order[j]
          /\ queue' = queue \o order
    /\ IF queue = <<>> THEN Tickle ELSE UNCHANGED pipeEdge

\* The rest of the loop: if cbs is not empty, scheduler(cbs.begin(),
\* cbs.end()) (this thread still counts in wait_threads); the pipe is
\* drained; the idle fiber swaps out and MainFunc does --wait_threads.
Dispatch(w) ==
    /\ wpc[w] = "dispatch"
    /\ IF cbs[w] # {} THEN ScheduleBatch(cbs[w]) ELSE UNCHANGED <<queue, pipeEdge>>
    /\ cbs' = [cbs EXCEPT ![w] = {}]
    /\ waiting' = waiting - 1
    /\ wpc' = [wpc EXCEPT ![w] = "pick"]
    /\ UNCHANGED <<cur, workTimes, wakeAt, armed, deadline, tickled, now,
                   ppc, submitted, added>>

-----------------------------------------------------------------------------
(* The producer and the clock                                              *)

\* scheduler(cb): push_back under m_mutex; need_tickle if the queue was empty.
Submit(t) ==
    /\ ppc = "free"
    /\ t \notin submitted
    /\ submitted' = submitted \cup {t}
    /\ queue' = Append(queue, t)
    /\ ppc' = IF queue = <<>> THEN "tickle" ELSE "free"
    /\ UNCHANGED <<wpc, cur, workTimes, waiting, wakeAt, cbs, pipeEdge, armed,
                   deadline, tickled, now, added>>

\* ... then tickle() after the lock is released.
SubmitTickle ==
    /\ ppc = "tickle"
    /\ Tickle
    /\ ppc' = "free"
    /\ UNCHANGED <<queue, wpc, cur, workTimes, waiting, wakeAt, cbs, armed,
                   deadline, tickled, now, submitted, added>>

\* addTimer: insert under the write lock; m_tickled is set when the timer
\* lands at the front (ties with an equal deadline are ordered by address,
\* either way); onTimerInsertedAtFront() is commented out, so nothing else.
AddTimer(t, d) ==
    /\ ppc = "free"
    /\ t \notin added
    /\ added' = added \cup {t}
    /\ armed' = armed \cup {t}
    /\ deadline' = [deadline EXCEPT ![t] = now + d]
    /\ \E beforeTies \in BOOLEAN :
          LET front == \A u \in armed : now + d < deadline[u]
                                        \/ (now + d = deadline[u] /\ beforeTies)
          IN  tickled' = (tickled \/ front)
    /\ UNCHANGED <<queue, wpc, cur, workTimes, waiting, wakeAt, cbs, pipeEdge,
                   now, ppc, submitted>>

Tick ==
    /\ now < MaxTime
    /\ now' = now + 1
    /\ UNCHANGED <<queue, wpc, cur, workTimes, waiting, wakeAt, cbs, pipeEdge,
                   armed, deadline, tickled, ppc, submitted, added>>

WorkerStep(w) ==
    Pick(w) \/ RunTask(w) \/ Park(w) \/ IdleWait(w) \/ EpollReturn(w)
    \/ ListExpiredCb(w) \/ Dispatch(w)

Next ==
    \/ \E w \in Workers : WorkerStep(w)
    \/ \E t \in Tasks : Submit(t)
    \/ SubmitTickle
    \/ \E t \in Timers, d \in Delays : AddTimer(t, d)
    \/ Tick

Spec == Init /\ [][Next]_vars

-----------------------------------------------------------------------------
(* Properties                                                              *)

\* spec.md 4.4: the poller waits at most until the first timer deadline,
\* and a task scheduled from another thread reaches a thread inside the
\* wait through the tickle.  So whenever every worker is blocked in
\* epoll_wait with no pipe event pending and the producer owes no tickle,
\* nothing is queued and some worker's timeout is no later than the first
\* deadline in m_timers.
PollerWakesForWork ==
    (\A w \in Workers : wpc[w] = "epoll") /\ ~pipeEdge /\ ppc = "free" =>
        /\ queue = <<>>
        /\ \E w \in Workers : wakeAt[w] <= FirstDeadline
=============================================================================

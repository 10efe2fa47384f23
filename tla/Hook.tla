-------------------------------- MODULE Hook --------------------------------
(***************************************************************************)
(* do_io (src/server/hook.cpp) with its condition timer, on top of the     *)
(* IOManager's event registration and epoll loop (IOManager.tla, used      *)
(* through INSTANCE with the same variables).                              *)
(*                                                                         *)
(* A fiber's pass through do_io's retry loop is                            *)
(*   run        fun() fails with EAGAIN, or succeeds and do_io returns     *)
(*   add        the condition timer is armed (if the fd has a timeout);    *)
(*              next is addEvent                                           *)
(*   registered addEvent succeeded; next is YieldToHold                    *)
(*   parked     held; a trigger or cancelEvent puts it on the run queue    *)
(*   woken      resumed: cancel(timer), then return ETIMEDOUT if           *)
(*              tinfo->cancelled is set, otherwise retry                   *)
(* timer[f] is the armed condition timer of f's current wait.  When it     *)
(* expires listExpiredCb hands its callback to the scheduler: a record in  *)
(* cbs naming the fiber and the do_io call (ops[f]) whose tinfo the weak   *)
(* pointer refers to.  The callback runs in two steps on a worker: the     *)
(* check-and-set of tinfo->cancelled, then cancelEvent under the fd lock.  *)
(* tcancel[f] is tinfo->cancelled of f's current call.                     *)
(*                                                                         *)
(* The first call of a fiber in Connectors is connect_with_timeout (lines  *)
(* 248-318): the same timer-then-addEvent(WRITE) wait, entered only when   *)
(* connect() reports EINPROGRESS and left after one wake-up, with or       *)
(* without the timeout, instead of looping.                                *)
(*                                                                         *)
(* The first call of a fiber in Sleepers is sleep (lines 184-199; usleep   *)
(* and nanosleep differ only in the interval): addTimer with a callback    *)
(* that schedules the fiber, then YieldToHold; the call returns 0 when the *)
(* fiber is resumed.                                                       *)
(***************************************************************************)
EXTENDS Naturals, Sequences, SequencesExt, FiniteSets

CONSTANTS
    Fds, Fibers, Threads, Role, NoWaiter, MaxOps, NDEBUG,
    HasTimeout,     \* fibers whose fd has SO_RCVTIMEO/SO_SNDTIMEO set
    Connectors,     \* fibers whose first call is connect_with_timeout
    Sleepers        \* fibers whose first call is sleep

ASSUME /\ HasTimeout \subseteq Fibers
       /\ Connectors \subseteq Fibers
       /\ \A f \in Connectors : Role[f].dir = "WRITE"
       /\ Sleepers \cap Connectors = {}

VARIABLES
    events, ctx, pending, kreg, kmask, devReady, hup, rdlist, kptr,
    tsize, gen, held, snap,
    fpc, ops, runq, cancels, crashed,
    timer,          \* timer[f]: "armed" while f's condition timer is in m_timers
    cbs,            \* timer callbacks handed to the scheduler, not yet finished
    tcancel         \* tcancel[f]: tinfo->cancelled of f's current do_io call

hookVars == <<timer, cbs, tcancel>>
vars == <<events, ctx, pending, kreg, kmask, devReady, hup, rdlist, kptr,
          tsize, gen, held, snap, fpc, ops, runq, cancels, crashed, hookVars>>

\* At most one callback per call gets past its check (see CbCheck), so
\* MaxOps calls of each fiber bound the cancelEvent calls.  The sockets'
\* fds lie below the 32 FdContexts the IOManager constructor creates, so
\* addEvent never takes its resize path and is one step (IOM!AddEvent).
IOM == INSTANCE IOManager WITH CancelOps <- {"cancelEvent"},
                              MaxCancels <- MaxOps * Cardinality(Fibers),
                              MayWithdraw <- FALSE,
                              FdNo <- [fd \in Fds |-> 3],
                              InitSize <- 32

\* A do_io timer callback before its check or before its cancelEvent; a
\* sleep timer callback before its scheduler(fiber).
CbPCs == {"check", "cancel", "wake"}

\* The hooked I/O functions (lines 332-372): each is do_io with the event it
\* waits for, and with SO_RCVTIMEO for READ and SO_SNDTIMEO for WRITE.
IoEvent == [read |-> "READ", readv |-> "READ", recv |-> "READ",
            recvfrom |-> "READ", recvmsg |-> "READ",
            write |-> "WRITE", writev |-> "WRITE", send |-> "WRITE",
            sendto |-> "WRITE", sendmsg |-> "WRITE"]

Callback == [f : Fibers, call : 0 .. MaxOps - 1, pc : CbPCs]

TypeOK ==
    /\ events \in [IOM!Objs -> SUBSET IOM!Dirs]
    /\ ctx \in [IOM!Objs -> [IOM!Dirs -> Fibers \cup {NoWaiter}]]
    /\ runq \in Seq(Fibers)
    /\ ops \in [Fibers -> 0 .. MaxOps]
    /\ fpc \in [Fibers -> {"run", "add", "registered", "parked", "woken", "done"}]
    /\ timer \in [Fibers -> {"none", "armed"}]
    /\ cbs \subseteq Callback
    /\ tcancel \in [Fibers -> BOOLEAN]

Init ==
    /\ IOM!Init
    /\ timer = [f \in Fibers |-> "none"]
    /\ cbs = {}
    /\ tcancel = [f \in Fibers |-> FALSE]

\* f is in connect_with_timeout.
Connecting(f) == f \in Connectors /\ ops[f] = 0

\* f is in sleep.
Sleeping(f) == f \in Sleepers /\ ops[f] = 0

\* do_io returns: the next call gets a fresh tinfo (hook.cpp:100).
Return(f) ==
    /\ IOM!Complete(f)
    /\ tcancel' = [tcancel EXCEPT ![f] = FALSE]

\* Lines 103-113 and 152: fun() succeeds when the socket is ready (using up
\* the readiness or not) and do_io returns; on EAGAIN the condition timer
\* is armed when the fd has a timeout (addConditionTimer, 113-123).
Try(f) ==
    LET fd == Role[f].fd
        d == Role[f].dir
    IN  /\ crashed = "none"
        /\ fpc[f] = "run"
        /\ ~Connecting(f) /\ ~Sleeping(f)
        /\ \/ /\ d \in devReady[fd]
              /\ Return(f)
              /\ \E drained \in BOOLEAN :
                    devReady' = IF drained /\ ~hup[fd]
                                THEN [devReady EXCEPT ![fd] = @ \ {d}]
                                ELSE devReady
              /\ UNCHANGED <<timer, cbs>>
           \/ /\ d \notin devReady[fd]
              /\ fpc' = [fpc EXCEPT ![f] = "add"]
              /\ timer' = IF f \in HasTimeout THEN [timer EXCEPT ![f] = "armed"]
                                      ELSE timer
              /\ UNCHANGED <<ops, devReady, cbs, tcancel>>
        /\ UNCHANGED <<events, ctx, pending, kreg, kmask, hup,
                       rdlist, kptr, tsize, gen, held, snap,
                       runq, cancels, crashed>>

\* connect_with_timeout, lines 252-285: FdMgr add(fd) gives a fresh FdCtx
\* (a socket, not user-nonblocking); connect() succeeds or fails at once
\* and the call returns, or it reports EINPROGRESS and the timer is armed:
\* timeout_ms is s_connect_timeout (tcp.connect.timeout, 5000 ms), never -1.
Connect(f) ==
    /\ crashed = "none"
    /\ fpc[f] = "run"
    /\ Connecting(f)
    /\ \/ /\ Return(f)
          /\ UNCHANGED timer
       \/ /\ fpc' = [fpc EXCEPT ![f] = "add"]
          /\ timer' = [timer EXCEPT ![f] = "armed"]
          /\ UNCHANGED <<ops, tcancel>>
    /\ UNCHANGED <<events, ctx, pending, kreg, kmask, devReady, hup,
                   rdlist, kptr, tsize, gen, held,
                   snap, runq, cancels, crashed, cbs>>

\* Lines 124-134: addEvent; when it fails the timer is cancelled and
\* do_io returns -1.  connect_with_timeout (287, 299-304) cancels the timer
\* and returns getsockopt's SO_ERROR.
Register(f) ==
    /\ crashed = "none"
    /\ fpc[f] = "add"
    /\ IOM!AddEvent(f)
    /\ IF ops'[f] # ops[f]
          THEN /\ timer' = [timer EXCEPT ![f] = "none"]
               /\ tcancel' = [tcancel EXCEPT ![f] = FALSE]
          ELSE UNCHANGED <<timer, tcancel>>
    /\ UNCHANGED <<snap, cancels, cbs>>

\* sleep, lines 184-199: addTimer(seconds * 1000, cb) where cb schedules
\* the fiber; YieldToHold is next.  usleep (202-218) and nanosleep
\* (221-236) are the same steps with another interval, and timers here
\* fire whatever their interval.  (The hook is enabled on IOManager
\* threads, so the sleep_f / nanosleep_f branches are not taken.)
Sleep(f) ==
    /\ crashed = "none"
    /\ fpc[f] = "run"
    /\ Sleeping(f)
    /\ fpc' = [fpc EXCEPT ![f] = "registered"]
    /\ timer' = [timer EXCEPT ![f] = "armed"]
    /\ UNCHANGED <<events, ctx, pending, kreg, kmask, devReady, hup,
                   rdlist, kptr, tsize, gen, held,
                   snap, ops, runq, cancels, crashed, cbs, tcancel>>

\* Resumed by the timer's callback, sleep returns 0.
SleepWake(f) ==
    /\ crashed = "none"
    /\ fpc[f] = "woken"
    /\ Sleeping(f)
    /\ Return(f)
    /\ UNCHANGED <<events, ctx, pending, kreg, kmask, devReady, hup,
                   rdlist, kptr, tsize, gen, held,
                   snap, runq, cancels, crashed, timer, cbs>>

\* Line 137: Fiber::YieldToHold.
Yield(f) ==
    /\ IOM!Yield(f)
    /\ UNCHANGED hookVars

\* Scheduler::MainFunc's pick: the first queued fiber not executing; a
\* parked fiber is resumed, a finished one dropped.
Resume ==
    LET i == SelectInSeq(runq, LAMBDA g : fpc[g] \in {"parked", "done"})
    IN  /\ crashed = "none"
        /\ i # 0
        /\ runq' = RemoveAt(runq, i)
        /\ fpc' = IF fpc[runq[i]] = "parked"
                  THEN [fpc EXCEPT ![runq[i]] = "woken"] ELSE fpc
        /\ UNCHANGED <<events, ctx, pending, kreg, kmask, devReady, hup,
                       rdlist, kptr, tsize, gen, held, snap, ops, cancels, crashed, hookVars>>

\* Mutant: the timer is not cancelled after the fiber is resumed.
AfterWakeKeepsTimer(f) ==
    /\ crashed = "none"
    /\ fpc[f] = "woken"
    /\ ~Connecting(f) /\ ~Sleeping(f)
    /\ IF tcancel[f]
          THEN Return(f)
          ELSE /\ fpc' = [fpc EXCEPT ![f] = "run"]
               /\ UNCHANGED <<ops, tcancel>>
    /\ UNCHANGED <<events, ctx, pending, kreg, kmask, devReady, hup,
                   rdlist, kptr, tsize, gen, held,
                   snap, runq, cancels, crashed, timer, cbs>>

\* Lines 139-147: cancel(timer) (false if it has expired already), then
\* ETIMEDOUT if the timer callback set tinfo->cancelled, else retry.
AfterWake(f) ==
    /\ crashed = "none"
    /\ fpc[f] = "woken"
    /\ timer' = [timer EXCEPT ![f] = "none"]
    /\ ~Connecting(f) /\ ~Sleeping(f)
    /\ IF tcancel[f]
          THEN Return(f)
          ELSE /\ fpc' = [fpc EXCEPT ![f] = "run"]
               /\ UNCHANGED <<ops, tcancel>>
    /\ UNCHANGED <<events, ctx, pending, kreg, kmask, devReady, hup,
                   rdlist, kptr, tsize, gen, held,
                   snap, runq, cancels, crashed, cbs>>

\* connect_with_timeout after YieldToHold, lines 290-317: cancel(timer),
\* then ETIMEDOUT if the callback set tinfo->cancelled, otherwise the
\* connection's SO_ERROR from getsockopt; either way the call returns.
ConnectWake(f) ==
    /\ crashed = "none"
    /\ fpc[f] = "woken"
    /\ Connecting(f)
    /\ timer' = [timer EXCEPT ![f] = "none"]
    /\ Return(f)
    /\ UNCHANGED <<events, ctx, pending, kreg, kmask, devReady, hup,
                   rdlist, kptr, tsize, gen, held,
                   snap, runq, cancels, crashed, cbs>>

\* The condition timer expires: listExpiredCb takes it out of m_timers and
\* IOManager::idle schedules its callback.
TimerFire(f) ==
    /\ crashed = "none"
    /\ timer[f] = "armed"
    /\ timer' = [timer EXCEPT ![f] = "none"]
    /\ cbs' = cbs \cup {[f |-> f, call |-> ops[f],
                          pc |-> IF Sleeping(f) THEN "wake" ELSE "check"]}
    /\ UNCHANGED <<events, ctx, pending, kreg, kmask, devReady, hup,
                   rdlist, kptr, tsize, gen, held,
                   snap, fpc, ops, runq, cancels, crashed, tcancel>>

\* OnTimer (timer.cpp:122-127) and lines 116-120: the callback does nothing
\* if its do_io call has returned (the weak pointer has expired) or
\* tinfo->cancelled is already set; otherwise it sets it.
CbCheck(c) ==
    /\ crashed = "none"
    /\ c \in cbs
    /\ c.pc = "check"
    /\ IF ops[c.f] # c.call \/ tcancel[c.f]
          THEN /\ cbs' = cbs \ {c}
               /\ UNCHANGED tcancel
          ELSE /\ tcancel' = [tcancel EXCEPT ![c.f] = TRUE]
               /\ cbs' = (cbs \ {c}) \cup {[c EXCEPT !.pc = "cancel"]}
    /\ UNCHANGED <<events, ctx, pending, kreg, kmask, devReady, hup,
                   rdlist, kptr, tsize, gen, held,
                   snap, fpc, ops, runq, cancels, crashed, timer>>

\* Mutant: the callback sets the flag but never calls cancelEvent.
CbCancelNoEvent(c) ==
    /\ crashed = "none"
    /\ c \in cbs
    /\ c.pc = "cancel"
    /\ cbs' = cbs \ {c}
    /\ UNCHANGED <<events, ctx, pending, kreg, kmask, devReady, hup,
                   rdlist, kptr, tsize, gen, held,
                   snap, fpc, ops, runq, cancels, crashed, timer, tcancel>>

\* Line 121: cancelEvent(fd, event), which returns false when the direction
\* is no longer (or not yet) registered.
CbCancel(c) ==
    LET fd == Role[c.f].fd
        d == Role[c.f].dir
        o == IOM!Cur(fd)
        left == events[o] \ {d}
    IN  /\ crashed = "none"
        /\ c \in cbs
        /\ c.pc = "cancel"
        /\ cbs' = cbs \ {c}
        /\ IF IOM!Present(fd) /\ d \in events[o] /\ IOM!CtlOk(fd, IOM!ModOrDel(left))
              THEN IOM!CancelEvent(fd, d)
              ELSE UNCHANGED <<events, ctx, pending, kreg, kmask,
                               rdlist, kptr, tsize, gen, held,
                               runq, cancels, crashed>>
        /\ UNCHANGED <<devReady, hup, snap, fpc, ops, timer, tcancel>>

\* sleep's callback: iom->scheduler(fiber).  The fiber may not have
\* yielded yet; MainFunc's scan then skips it until it has.
CbWake(c) ==
    /\ crashed = "none"
    /\ c \in cbs
    /\ c.pc = "wake"
    /\ cbs' = cbs \ {c}
    /\ runq' = Append(runq, c.f)
    /\ UNCHANGED <<events, ctx, pending, kreg, kmask, devReady, hup,
                   rdlist, kptr, tsize, gen, held,
                   snap, fpc, ops, cancels, crashed, timer, tcancel>>

\* IOManager::idle: epoll_wait, or the handling of one of its results.
Poll(t) ==
    /\ IOM!EpollWait(t) \/ IOM!Process(t)
    /\ UNCHANGED hookVars

\* The peer sends, or the send buffer drains.
BecomeReady(fd, d) ==
    /\ IOM!BecomeReady(fd, d)
    /\ UNCHANGED hookVars

Next ==
    \/ \E f \in Fibers : Try(f) \/ Connect(f) \/ Sleep(f) \/ Register(f)
                         \/ Yield(f) \/ AfterWake(f) \/ ConnectWake(f)
                         \/ SleepWake(f) \/ TimerFire(f)
    \/ Resume
    \/ \E t \in Threads : Poll(t)
    \/ \E fd \in Fds, d \in IOM!Dirs : BecomeReady(fd, d)
    \/ \E c \in cbs : CbCheck(c) \/ CbCancel(c) \/ CbWake(c)

\* A callback, once handed to the scheduler, keeps getting a worker.
CbStep(f, k) ==
    \E c \in cbs : c.f = f /\ c.call = k /\ (CbCheck(c) \/ CbCancel(c) \/ CbWake(c))

\* Fibers, the scheduler's pick, idle threads and scheduled callbacks keep
\* running; an armed timer eventually expires and is drained (the clock
\* advances and idle() calls listExpiredCb, Timer.tla's DueTimersDrain).
\* The peer is not assumed to send: readiness is not fair.
Fairness ==
    /\ \A f \in Fibers : WF_vars(Try(f) \/ Connect(f) \/ Sleep(f) \/ Register(f)
                                \/ Yield(f) \/ AfterWake(f) \/ ConnectWake(f)
                                \/ SleepWake(f))
    /\ \A f \in Fibers : WF_vars(TimerFire(f))
    /\ WF_vars(Resume)
    /\ \A t \in Threads : WF_vars(Poll(t))
    /\ \A f \in Fibers, k \in 0 .. MaxOps - 1 : WF_vars(CbStep(f, k))

Spec == Init /\ [][Next]_vars /\ Fairness

-----------------------------------------------------------------------------
(* Properties *)

\* Between two passes of do_io's loop, and after it has returned, the fiber
\* holds no armed condition timer and no registration or queued wake-up:
\* do_io leaves zero pending timers and events behind (spec.md 7).
NothingLeftArmed ==
    crashed = "none" =>
        \A f \in Fibers : fpc[f] \in {"run", "done"} =>
            timer[f] = "none" /\ IOM!Wakers(f) = 0

\* An expired timer's callback for f's current call that has not yet made
\* its move: a condition-timer callback at its cancelEvent or still before
\* its check (so its cancelEvent will come after the registration), or
\* sleep's callback.  A callback that already ran its cancelEvent, before
\* addEvent, is not one of them.
CancelStillToCome(f) ==
    \E c \in cbs : c.f = f /\ c.call = ops[f] /\ (c.pc = "cancel" \/ ~tcancel[f])

\* A fiber waiting in do_io (registered with addEvent) whose expired
\* condition timer's callback has still to call cancelEvent is woken by
\* that cancelEvent, as long as the process has not aborted; a fiber in
\* sleep is woken by its callback's scheduler(fiber), even when the callback
\* ran before the fiber yielded.  The callback that ran its cancelEvent
\* before the fiber's addEvent (hook.cpp:113-124) is outside the premise:
\* that wait hangs, which hook_silent shows with AllOpsReturn.
TimeoutEndsWait ==
    \A f \in Fibers :
        (fpc[f] \in {"registered", "parked"} /\ CancelStillToCome(f))
            ~> (fpc[f] \notin {"registered", "parked"} \/ crashed # "none")

\* spec.md 4.5/7: do_io with a timeout returns (with the data or with
\* ETIMEDOUT) even if the peer never sends.
AllOpsReturn ==
    <>(crashed = "none" => \A f \in Fibers : fpc[f] = "done")
=============================================================================

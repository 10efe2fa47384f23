----------------------------- MODULE IOManager -----------------------------
(***************************************************************************)
(* The IOManager's per-fd event registration (src/server/iomanager.cpp)   *)
(* together with the kernel's edge-triggered epoll instance it drives.     *)
(*                                                                         *)
(*  - FdContext objects are named <<fd, g>>: the g-th one contextResize   *)
(*    created for fd.  tsize is m_fdContexts.size(); the table holds       *)
(*    <<fd, gen[fd]>> for every fd whose number is below tsize.            *)
(*    events[o] is FdContext::events, ctx[o][d] the waiter held by the     *)
(*    EventContext of direction d, pending is m_pendingEventCount.  Each   *)
(*    of delEvent, cancelEvent, cancelAll and the handling of one epoll    *)
(*    result runs under the fd's mutex, so each is one step; addEvent      *)
(*    takes the table lookup (and the resize under the write lock) and     *)
(*    the registration under the FdContext's mutex as separate steps.      *)
(*  - The kernel: kreg is the epoll interest list, kmask[fd] the mask of   *)
(*    the last successful epoll_ctl, devReady[fd] the directions in which  *)
(*    the socket would not block, hup[fd] a hang-up or error condition,    *)
(*    rdlist the ready list, kptr[fd] the data.ptr stored with fd.         *)
(*    Edge-triggered: a readiness edge or an ADD/MOD that finds the fd     *)
(*    ready puts it on the ready list, and epoll_wait reports (readiness   *)
(*    /\ mask) plus HUP and empties it.                                    *)
(*  - Idle threads take a snapshot with epoll_wait (snap[t]) and then     *)
(*    handle its entries one at a time, each under the mutex of the        *)
(*    FdContext its data.ptr names; other threads may change the         *)
(*    registration in between.                                             *)
(*  - Fibers run the retry loop of do_io (hook.cpp) on their own           *)
(*    (fd, direction): try the operation, on EAGAIN addEvent and           *)
(*    YieldToHold, and retry when resumed.  Resumption goes through the    *)
(*    scheduler queue runq, which skips fibers still executing (EXEC).     *)
(*  - crashed names the function whose ASSERT aborted the process.         *)
(***************************************************************************)
EXTENDS Integers, Sequences, SequencesExt, FiniteSets, FiniteSetsExt

CONSTANTS
    Fds,          \* the file descriptors in use
    Fibers,       \* fibers doing blocking-style I/O through do_io
    Threads,      \* IOManager threads that can be in idle()
    Role,         \* Role[f] = [fd |-> ..., dir |-> ...]: what fiber f waits for
    NoWaiter,     \* an empty EventContext
    MaxOps,       \* operations each fiber performs
    CancelOps,    \* which of cancelEvent, cancelAll other fibers call
    MaxCancels,   \* bound on those calls
    MayWithdraw,  \* whether a fiber may tear down its registration with delEvent
    NDEBUG,       \* whether the build compiles assert() out
    FdNo,         \* FdNo[fd]: the descriptor's number
    InitSize      \* m_fdContexts' size after the constructor's contextResize(32)

ASSUME /\ NoWaiter \notin Fibers
       /\ Role \in [Fibers -> [fd : Fds, dir : {"READ", "WRITE"}]]
       /\ MaxOps \in Nat \ {0} /\ MaxCancels \in Nat
       /\ CancelOps \subseteq {"cancelEvent", "cancelAll"}
       /\ MayWithdraw \in BOOLEAN /\ NDEBUG \in BOOLEAN
       /\ FdNo \in [Fds -> Nat] /\ InitSize \in Nat \ {0, 1}

Dirs == {"READ", "WRITE"}

\* Event -> EPOLLIN / EPOLLOUT
EpollBit == [d \in Dirs |-> IF d = "READ" THEN "IN" ELSE "OUT"]

\* "resize": addEvent found fd beyond the table and waits for the write
\* lock; "locking": it holds fd_ctx and waits for the FdContext's mutex.
FiberPCs == {"run", "resize", "locking", "registered", "parked", "done"}

\* Every addEvent call resizes the table at most once, so no fd gets more
\* FdContexts than there are calls.
Gens == 0 .. MaxOps * Cardinality(Fibers)

Objs == Fds \X Gens

AssertSites == {"none", "addEvent", "triggerEvent"}

VARIABLES
    events, ctx, pending,             \* FdContext state and m_pendingEventCount
    kreg, kmask, devReady, hup, rdlist, kptr, \* the kernel's epoll instance and sockets
    tsize, gen, held,                 \* m_fdContexts; held[f] is addEvent's fd_ctx
    snap,                             \* snap[t]: results of t's last epoll_wait
    fpc, ops, runq,                   \* fibers and the scheduler queue
    cancels, crashed

\* FdContext's events and read/write EventContexts, and m_pendingEventCount.
fdVars == <<events, ctx, pending>>
kernelVars == <<kreg, kmask, devReady, hup, rdlist, kptr>>
tableVars == <<tsize, gen, held>>
fiberVars == <<fpc, ops, runq>>
vars == <<fdVars, kernelVars, tableVars, snap, fiberVars, cancels, crashed>>

TypeOK ==
    /\ events \in [Objs -> SUBSET Dirs]
    /\ ctx \in [Objs -> [Dirs -> Fibers \cup {NoWaiter}]]
    /\ pending \in Int
    /\ kreg \subseteq Fds /\ kmask \in [Fds -> SUBSET Dirs]
    /\ devReady \in [Fds -> SUBSET Dirs] /\ hup \in [Fds -> BOOLEAN]
    /\ rdlist \subseteq Fds /\ kptr \in [Fds -> Objs]
    /\ tsize \in Nat /\ gen \in [Fds -> Gens] /\ held \in [Fibers -> Objs]
    /\ snap \in [Threads -> SUBSET [fd : Fds, ptr : Objs, ev : SUBSET {"IN", "OUT", "HUP"}]]
    /\ fpc \in [Fibers -> FiberPCs] /\ ops \in [Fibers -> 0..MaxOps]
    /\ runq \in Seq(Fibers \cup {NoWaiter})
    /\ cancels \in 0..MaxCancels /\ crashed \in AssertSites

\* A new FdContext has no events and no fiber or callback on either direction.
NewFdContext == [d \in Dirs |-> NoWaiter]

\* m_fdContexts[fd] is not past the end of the table.
Present(fd) == FdNo[fd] < tsize

\* The FdContext m_fdContexts[fd] points to.
Cur(fd) == <<fd, gen[fd]>>

\* contextResize(len): m_fdContexts.resize(len) drops the pointers at len
\* and beyond (the FdContexts stay allocated), and every null slot below
\* len gets a new FdContext.
ContextResize(len) ==
    /\ tsize' = len
    /\ gen' = [fd \in Fds |-> IF FdNo[fd] < len /\ ~Present(fd) THEN gen[fd] + 1 ELSE gen[fd]]

Init ==
    /\ events = [o \in Objs |-> {}]
    /\ ctx = [o \in Objs |-> NewFdContext]
    /\ pending = 0
    /\ kreg = {} /\ kmask = [fd \in Fds |-> {}]
    /\ devReady = [fd \in Fds |-> {}] /\ hup = [fd \in Fds |-> FALSE]
    /\ rdlist = {} /\ kptr = [fd \in Fds |-> <<fd, 0>>]
    /\ tsize = InitSize /\ gen = [fd \in Fds |-> 0]
    /\ held = [f \in Fibers |-> <<Role[f].fd, 0>>]
    /\ snap = [t \in Threads |-> {}]
    /\ fpc = [f \in Fibers |-> "run"] /\ ops = [f \in Fibers |-> 0]
    /\ runq = <<>>
    /\ cancels = 0 /\ crashed = "none"

-----------------------------------------------------------------------------
(* The kernel                                                              *)

\* The events epoll reports for fd under mask: readiness within the mask,
\* and EPOLLHUP whatever the mask.
Poll(fd, mask) ==
    {EpollBit[d] : d \in mask \cap devReady[fd]} \cup (IF hup[fd] THEN {"HUP"} ELSE {})

\* epoll_ctl(op, fd) succeeds: ADD needs fd outside the interest list, MOD
\* and DEL need it inside.
CtlOk(fd, op) == IF op = "ADD" THEN fd \notin kreg ELSE fd \in kreg

\* The effect of a successful epoll_ctl(op, fd, EPOLLET | mask) whose
\* data.ptr is the FdContext o.  DEL drops fd from the ready list; ADD and
\* MOD re-poll and queue fd if it is ready, and store o as fd's data.
EpollCtl(fd, o, op, mask) ==
    IF op = "DEL"
    THEN /\ kreg' = kreg \ {fd}
         /\ kmask' = [kmask EXCEPT ![fd] = {}]
         /\ rdlist' = rdlist \ {fd}
         /\ UNCHANGED kptr
    ELSE /\ kreg' = kreg \cup {fd}
         /\ kmask' = [kmask EXCEPT ![fd] = mask]
         /\ rdlist' = IF Poll(fd, mask) # {} THEN rdlist \cup {fd} ELSE rdlist
         /\ kptr' = [kptr EXCEPT ![fd] = o]

\* MOD while a direction is left, DEL otherwise.
ModOrDel(mask) == IF mask = {} THEN "DEL" ELSE "MOD"

\* The socket becomes ready in direction d (data arrives, buffer drains).
BecomeReady(fd, d) ==
    /\ crashed = "none"
    /\ ~hup[fd] /\ d \notin devReady[fd]
    /\ devReady' = [devReady EXCEPT ![fd] = @ \cup {d}]
    /\ rdlist' = IF fd \in kreg /\ d \in kmask[fd] THEN rdlist \cup {fd} ELSE rdlist
    /\ UNCHANGED <<fdVars, kreg, kmask, hup, kptr, tableVars, snap, fiberVars, cancels, crashed>>

\* The peer resets or hangs up: every operation stops blocking and epoll
\* reports EPOLLHUP for a registered fd whatever its mask.
Hangup(fd) ==
    /\ crashed = "none"
    /\ ~hup[fd]
    /\ hup' = [hup EXCEPT ![fd] = TRUE]
    /\ devReady' = [devReady EXCEPT ![fd] = Dirs]
    /\ rdlist' = IF fd \in kreg THEN rdlist \cup {fd} ELSE rdlist
    /\ UNCHANGED <<fdVars, kreg, kmask, kptr, tableVars, snap, fiberVars, cancels, crashed>>

-----------------------------------------------------------------------------
(* FdContext operations, each under the fd's mutex                         *)

\* The waiters of the directions ds of FdContext o in the order triggered:
\* READ, WRITE.
Wakes(o, ds) ==
    (IF "READ" \in ds THEN <<ctx[o]["READ"]>> ELSE <<>>)
    \o (IF "WRITE" \in ds THEN <<ctx[o]["WRITE"]>> ELSE <<>>)

\* triggerEvent(d) on a direction no longer registered: ASSERT(event &
\* events) aborts a debug build; with NDEBUG it goes on and dereferences
\* the context's null scheduler pointer unless a stale waiter is left in it.
TriggerAborts(o, ds) ==
    \E d \in ds \ events[o] : ~NDEBUG \/ ctx[o][d] = NoWaiter

\* A triggerEvent that hands the scheduler a copy of the waiter (as
\* scheduler(ctx.fiber) would) instead of swapping it out of the context.
TriggerEventsCopiesWaiter(o, ds) ==
    IF ~TriggerAborts(o, ds)
    THEN /\ events' = [events EXCEPT ![o] = @ \ ds]
         /\ runq' = runq \o Wakes(o, ds)
         /\ pending' = pending - Cardinality(ds)
         /\ UNCHANGED <<ctx, crashed>>
    ELSE /\ crashed' = "triggerEvent"
         /\ UNCHANGED <<events, ctx, runq, pending>>

\* A triggerEvent whose caller leaves m_pendingEventCount alone.
TriggerEventsNoCount(o, ds) ==
    IF ~TriggerAborts(o, ds)
    THEN /\ events' = [events EXCEPT ![o] = @ \ ds]
         /\ ctx' = [ctx EXCEPT ![o] = [d \in Dirs |-> IF d \in ds THEN NoWaiter ELSE @[d]]]
         /\ runq' = runq \o Wakes(o, ds)
         /\ UNCHANGED <<pending, crashed>>
    ELSE /\ crashed' = "triggerEvent"
         /\ UNCHANGED <<events, ctx, runq, pending>>

\* A triggerEvent that only hands over callbacks: a waiting fiber is
\* cleared from its context but never scheduled.
TriggerEventsDropsWaiter(o, ds) ==
    IF ~TriggerAborts(o, ds)
    THEN /\ events' = [events EXCEPT ![o] = @ \ ds]
         /\ ctx' = [ctx EXCEPT ![o] = [d \in Dirs |-> IF d \in ds THEN NoWaiter ELSE @[d]]]
         /\ pending' = pending - Cardinality(ds)
         /\ UNCHANGED <<runq, crashed>>
    ELSE /\ crashed' = "triggerEvent"
         /\ UNCHANGED <<events, ctx, runq, pending>>

\* triggerEvent(d) for each d of ds, READ first, each followed by
\* --m_pendingEventCount: ASSERT(event & events), clear d from events, hand
\* the waiter to the scheduler (the swap empties the context).  See
\* TriggerAborts for a direction that is not registered.
TriggerEvents(o, ds) ==
    IF ~TriggerAborts(o, ds)
    THEN /\ events' = [events EXCEPT ![o] = @ \ ds]
         /\ ctx' = [ctx EXCEPT ![o] = [d \in Dirs |-> IF d \in ds THEN NoWaiter ELSE @[d]]]
         /\ runq' = runq \o Wakes(o, ds)
         /\ pending' = pending - Cardinality(ds)
         /\ UNCHANGED crashed
    ELSE /\ crashed' = "triggerEvent"
         /\ UNCHANGED <<events, ctx, runq, pending>>

\* addEvent(fd, d) from fiber f on the FdContext o it looked up, under o's
\* mutex, handing epoll_ctl the given mask with data.ptr = o.
\* ASSERT(!(events & event)) on a direction already registered and the
\* ASSERT that the EventContext is empty abort a debug build; with NDEBUG
\* they only log and the registration goes ahead, overwriting the context.
\* A failed epoll_ctl returns -1 and do_io returns -1, which ends that
\* operation.
AddEventWith(f, o, mask) ==
    LET fd == Role[f].fd
        d == Role[f].dir
        op == IF events[o] = {} THEN "ADD" ELSE "MOD"
        register ==
            /\ EpollCtl(fd, o, op, mask)
            /\ pending' = pending + 1
            /\ events' = [events EXCEPT ![o] = @ \cup {d}]
            /\ ctx' = [ctx EXCEPT ![o][d] = f]
            /\ fpc' = [fpc EXCEPT ![f] = "registered"]
            /\ UNCHANGED <<devReady, hup, ops, runq, crashed>>
        abort ==
            /\ crashed' = "addEvent"
            /\ UNCHANGED <<fdVars, kernelVars, fiberVars>>
    IN  /\ IF d \in events[o] /\ ~NDEBUG THEN abort
           ELSE IF ~CtlOk(fd, op)
           THEN /\ ops' = [ops EXCEPT ![f] = @ + 1]
                /\ fpc' = [fpc EXCEPT ![f] = IF ops[f] + 1 = MaxOps THEN "done" ELSE "run"]
                /\ UNCHANGED <<fdVars, kernelVars, runq, crashed>>
           ELSE IF ctx[o][d] # NoWaiter /\ ~NDEBUG THEN abort
           ELSE register
        /\ UNCHANGED tableVars

\* addEvent on an fd below the table's initial size, which no resize
\* drops: the lookup and the registration with epevent.events =
\* fd_ctx->events | event, as one step.
AddEvent(f) ==
    LET o == Cur(Role[f].fd)
    IN  AddEventWith(f, o, events[o] \cup {Role[f].dir})

\* addEvent's lookup under the read lock: fd_ctx = m_fdContexts[fd] and
\* unlock when fd is inside the table; otherwise unlock and go for the
\* write lock.
AddLookup(f) ==
    LET fd == Role[f].fd
    IN  /\ IF Present(fd)
           THEN /\ held' = [held EXCEPT ![f] = Cur(fd)]
                /\ fpc' = [fpc EXCEPT ![f] = "locking"]
           ELSE /\ fpc' = [fpc EXCEPT ![f] = "resize"]
                /\ UNCHANGED held
        /\ UNCHANGED <<fdVars, kernelVars, tsize, gen, ops, runq, crashed>>


\* addEvent's growth path under the write lock: contextResize(fd * 1.5)
\* (the conversion to size_t truncates), then fd_ctx = m_fdContexts[fd].
\* The size is not checked again, so a resize by another addEvent that
\* also found its fd beyond the old size may run in between, in either
\* order.
AddResize(f) ==
    LET fd == Role[f].fd
    IN  /\ crashed = "none"
        /\ fpc[f] = "resize"
        /\ ContextResize((3 * FdNo[fd]) \div 2)
        /\ held' = [held EXCEPT ![f] = <<fd, gen'[fd]>>]
        /\ fpc' = [fpc EXCEPT ![f] = "locking"]
        /\ UNCHANGED <<fdVars, kernelVars, snap, ops, runq, cancels, crashed>>

\* addEvent under lock2(fd_ctx->mutex): epevent.events = fd_ctx->events |
\* event | EPOLLET on the FdContext the lookup or the resize returned.
AddRegister(f) ==
    /\ crashed = "none"
    /\ fpc[f] = "locking"
    /\ AddEventWith(f, held[f], events[held[f]] \cup {Role[f].dir})
    /\ UNCHANGED <<snap, cancels>>

\* A delEvent that never resets the deleted direction's EventContext.
DelEventKeepsCtx(fd, d) ==
    LET o == Cur(fd)
        left == events[o] \ {d}
    IN  /\ Present(fd)
        /\ d \in events[o]
        /\ CtlOk(fd, ModOrDel(left))
        /\ EpollCtl(fd, o, ModOrDel(left), left)
        /\ pending' = pending - 1
        /\ events' = [events EXCEPT ![o] = left]
        /\ UNCHANGED <<ctx, tableVars>>

\* delEvent(fd, d): false when fd is beyond the table or d is not
\* registered on m_fdContexts[fd]; otherwise deregister d without waking
\* its waiter.  The EventContext of d is reset only when no direction is
\* left.
DelEvent(fd, d) ==
    LET o == Cur(fd)
        left == events[o] \ {d}
    IN  /\ Present(fd)
        /\ d \in events[o]
        /\ CtlOk(fd, ModOrDel(left))
        /\ EpollCtl(fd, o, ModOrDel(left), left)
        /\ pending' = pending - 1
        /\ events' = [events EXCEPT ![o] = left]
        /\ ctx' = IF left = {} THEN [ctx EXCEPT ![o][d] = NoWaiter] ELSE ctx
        /\ UNCHANGED tableVars

\* cancelEvent(fd, d): false when fd is beyond the table or d is not
\* registered on m_fdContexts[fd]; otherwise deregister d and wake its
\* waiter once.
CancelEvent(fd, d) ==
    LET o == Cur(fd)
        left == events[o] \ {d}
    IN  /\ crashed = "none"
        /\ "cancelEvent" \in CancelOps /\ cancels < MaxCancels
        /\ Present(fd)
        /\ d \in events[o]
        /\ CtlOk(fd, ModOrDel(left))
        /\ EpollCtl(fd, o, ModOrDel(left), left)
        /\ TriggerEvents(o, {d})
        /\ cancels' = cancels + 1
        /\ UNCHANGED <<devReady, hup, tableVars, snap, fpc, ops>>

\* cancelAll(fd): false when fd is beyond the table or m_fdContexts[fd]
\* has no events; otherwise remove fd from epoll and wake every waiter
\* (close()).
CancelAll(fd) ==
    LET o == Cur(fd)
    IN  /\ crashed = "none"
        /\ "cancelAll" \in CancelOps /\ cancels < MaxCancels
        /\ Present(fd)
        /\ events[o] # {}
        /\ CtlOk(fd, "DEL")
        /\ EpollCtl(fd, o, "DEL", {})
        /\ TriggerEvents(o, events[o])
        /\ cancels' = cancels + 1
        /\ UNCHANGED <<devReady, hup, tableVars, snap, fpc, ops>>

-----------------------------------------------------------------------------
(* Fibers in do_io and the scheduler queue                                 *)

\* The fiber's operation has returned: it starts its next one or is done.
Complete(f) ==
    /\ ops' = [ops EXCEPT ![f] = @ + 1]
    /\ fpc' = [fpc EXCEPT ![f] = IF ops[f] + 1 = MaxOps THEN "done" ELSE "run"]

\* One pass of do_io's retry loop: the operation succeeds when the socket is
\* ready in the fiber's direction (a read or write may or may not use up the
\* readiness), otherwise it fails with EAGAIN and the fiber calls addEvent.
Attempt(f) ==
    LET fd == Role[f].fd
        d == Role[f].dir
    IN  /\ crashed = "none"
        /\ fpc[f] = "run"
        /\ \/ /\ d \in devReady[fd]
              /\ Complete(f)
              /\ \E drained \in BOOLEAN :
                    devReady' = IF drained /\ ~hup[fd]
                                THEN [devReady EXCEPT ![fd] = @ \ {d}]
                                ELSE devReady
              /\ UNCHANGED <<fdVars, kreg, kmask, hup, rdlist, kptr, tableVars, runq, crashed>>
           \/ /\ d \notin devReady[fd]
              /\ AddLookup(f)
        /\ UNCHANGED <<snap, cancels>>

\* Fiber::YieldToHold after a successful addEvent.
Yield(f) ==
    /\ crashed = "none"
    /\ fpc[f] = "registered"
    /\ fpc' = [fpc EXCEPT ![f] = "parked"]
    /\ UNCHANGED <<fdVars, kernelVars, tableVars, snap, ops, runq, cancels, crashed>>

\* A fiber whose operation completed after all tears its registration down
\* with delEvent before yielding (delEvent returned true).  No code under src/
\* calls delEvent; this is how a client of IOManager's public API uses it.
Withdraw(f) ==
    /\ crashed = "none"
    /\ MayWithdraw
    /\ fpc[f] = "registered"
    /\ DelEvent(Role[f].fd, Role[f].dir)
    /\ Complete(f)
    /\ UNCHANGED <<devReady, hup, snap, runq, cancels, crashed>>

\* A worker's pick from the queue: the first entry whose fiber is not
\* executing is removed; a held fiber is resumed, a finished one dropped.
Resume ==
    LET i == SelectInSeq(runq, LAMBDA f : f \in Fibers /\ fpc[f] \notin {"run", "registered"})
    IN  /\ crashed = "none"
        /\ i # 0
        /\ runq' = RemoveAt(runq, i)
        /\ fpc' = IF fpc[runq[i]] = "parked"
                  THEN [fpc EXCEPT ![runq[i]] = "run"] ELSE fpc
        /\ UNCHANGED <<fdVars, kernelVars, tableVars, snap, ops, cancels, crashed>>

-----------------------------------------------------------------------------
(* IOManager::idle                                                         *)

\* epoll_wait returns the ready list's fds with the events they have under
\* their masks and their data.ptr, and empties the ready list
\* (edge-triggered).
EpollWait(t) ==
    LET got == {x \in rdlist : Poll(x, kmask[x]) # {}}
    IN  /\ crashed = "none"
        /\ snap[t] = {}
        /\ rdlist # {}
        /\ snap' = [snap EXCEPT ![t] = {[fd |-> x, ptr |-> kptr[x], ev |-> Poll(x, kmask[x])] : x \in got}]
        /\ rdlist' = {}
        /\ UNCHANGED <<fdVars, kreg, kmask, devReady, hup, kptr, tableVars, fiberVars, cancels, crashed>>

\* EPOLLERR/EPOLLHUP count as both directions; EPOLLIN is READ, EPOLLOUT WRITE.
RealEvents(ev) ==
    IF "HUP" \in ev THEN Dirs ELSE {d \in Dirs : EpollBit[d] \in ev}

\* Result handling without the `continue` for an fd none of whose reported
\* directions is still registered.
ProcessNoSkip(t) ==
    \E e \in snap[t] :
        LET fd == e.fd
            o == e.ptr
            real == RealEvents(e.ev)
            left == events[o] \ real
        IN  /\ crashed = "none"
            /\ snap' = [snap EXCEPT ![t] = @ \ {e}]
            /\ IF CtlOk(fd, ModOrDel(left))
               THEN EpollCtl(fd, o, ModOrDel(left), left)
               ELSE UNCHANGED <<kreg, kmask, rdlist, kptr>>
            /\ TriggerEvents(o, real)
            /\ UNCHANGED <<devReady, hup, tableVars, fpc, ops, cancels>>

\* Result handling that triggers the reported directions without
\* deregistering them from epoll (the epoll_ctl MOD/DEL left out).
ProcessKeepsKernelMask(t) ==
    \E e \in snap[t] :
        LET o == e.ptr
            real == RealEvents(e.ev)
        IN  /\ crashed = "none"
            /\ snap' = [snap EXCEPT ![t] = @ \ {e}]
            /\ IF events[o] \cap real = {}
               THEN UNCHANGED <<fdVars, kernelVars, runq, crashed>>
               ELSE /\ TriggerEvents(o, real)
                    /\ UNCHANGED kernelVars
            /\ UNCHANGED <<tableVars, fpc, ops, cancels>>

\* One epoll result handled under the mutex of the FdContext its
\* data.ptr names (not looked up in the table): skipped if none of its
\* directions is registered any more; otherwise the reported directions
\* are deregistered (MOD/DEL; a failing epoll_ctl is only logged) and
\* triggered.
Process(t) ==
    \E e \in snap[t] :
        LET fd == e.fd
            o == e.ptr
            real == RealEvents(e.ev)
            left == events[o] \ real
        IN  /\ crashed = "none"
            /\ snap' = [snap EXCEPT ![t] = @ \ {e}]
            /\ IF events[o] \cap real = {}
               THEN UNCHANGED <<fdVars, kernelVars, runq, crashed>>
               ELSE /\ IF CtlOk(fd, ModOrDel(left))
                       THEN EpollCtl(fd, o, ModOrDel(left), left)
                       ELSE UNCHANGED <<kreg, kmask, rdlist, kptr>>
                    /\ TriggerEvents(o, real)
                    /\ UNCHANGED <<devReady, hup>>
            /\ UNCHANGED <<tableVars, fpc, ops, cancels>>

-----------------------------------------------------------------------------

Next ==
    \/ \E f \in Fibers : Attempt(f) \/ AddResize(f) \/ AddRegister(f) \/ Yield(f) \/ Withdraw(f)
    \/ Resume
    \/ \E t \in Threads : EpollWait(t) \/ Process(t)
    \/ \E fd \in Fds, d \in Dirs : CancelEvent(fd, d) \/ BecomeReady(fd, d)
    \/ \E fd \in Fds : CancelAll(fd)

\* The same system where peers may also reset or hang up their sockets.
NextHangup == Next \/ \E fd \in Fds : Hangup(fd)

\* Every fiber and every idle thread keeps getting CPU time, the workers
\* keep draining the queue, and a socket that would block eventually
\* becomes ready (the peer sends, the send buffer drains).  cancelEvent,
\* cancelAll, delEvent and hang-ups may or may not happen.
Fairness ==
    /\ \A f \in Fibers : WF_vars(Attempt(f) \/ AddResize(f) \/ AddRegister(f) \/ Yield(f))
    /\ WF_vars(Resume)
    /\ \A t \in Threads : WF_vars(EpollWait(t)) /\ WF_vars(Process(t))
    /\ \A fd \in Fds, d \in Dirs : WF_vars(BecomeReady(fd, d))

Spec == Init /\ [][Next]_vars /\ Fairness

SpecHangup == Init /\ [][NextHangup]_vars /\ Fairness

-----------------------------------------------------------------------------
(* Properties                                                              *)

\* The entries that will resume f: its places in the queue and the event
\* contexts that hold it.
Wakers(f) ==
    Len(SelectSeq(runq, LAMBDA x : x = f))
    + Cardinality({p \in Objs \X Dirs : ctx[p[1]][p[2]] = f})

\* A fiber that registered a wait (addEvent, then YieldToHold) is resumed
\* by exactly one party: one queue entry or one event context, never both
\* and never none, whichever of idle(), cancelEvent and cancelAll gets to
\* the registration; a fiber that is not waiting has no waker at all.
ParkedHasOneWaker ==
    crashed = "none" =>
        \A f \in Fibers :
            Wakers(f) = IF fpc[f] \in {"registered", "parked"} THEN 1 ELSE 0

\* m_pendingEventCount, which IOManager::stopping() compares with 0,
\* equals the number of registered (fd, direction) pairs after every
\* addEvent, delEvent, cancelEvent, cancelAll and idle() trigger.
PendingMatches ==
    pending = MapThenSumSet(LAMBDA o : Cardinality(events[o]), Objs)

\* triggerEvent's ASSERT(event & events) never fails: idle() triggers
\* only directions that are still registered.
TriggerOnlyRegistered == crashed # "triggerEvent"

\* addEvent's ASSERTs never fail: the direction is not registered and its
\* EventContext is empty.
AddEventSlotFree == crashed # "addEvent"

\* Every fd registered with epoll is registered with the FdContext that
\* m_fdContexts holds for it, so delEvent, cancelEvent and cancelAll
\* (close) find its waiters: no contextResize by one addEvent drops the
\* FdContext another addEvent has registered or is about to register.
KernelPtrInTable ==
    \A fd \in kreg : Present(fd) /\ kptr[fd] = Cur(fd)

\* Every fiber's operations eventually complete: no registered waiter is
\* forgotten once its socket becomes ready.
AllOpsComplete == <>(\A f \in Fibers : fpc[f] = "done")

=============================================================================

------------------------------- MODULE FdTable -------------------------------
(***************************************************************************)
(* FdManager's table of FdCtx (src/server/fd_manager.cpp) and the hooked   *)
(* calls that create, change and drop its entries (src/server/hook.cpp):   *)
(* socket, accept, connect_with_timeout, setsockopt, fcntl(F_SETFL),       *)
(* ioctl(FIONBIO) and close, with Socket::init (src/server/socket.cpp).    *)
(*                                                                         *)
(* Several threads run these calls at once.  FdManager::add reads          *)
(* m_fds.size() without the lock, then resizes under the write lock, then  *)
(* stores the new FdCtx under it again: three steps.  The kernel hands out *)
(* the lowest free fd number.                                              *)
(*                                                                         *)
(* m_fds is slot[0 .. size-1].  An access past its end (add, get or del  *)
(* with fd >= size) is undefined behaviour in the code.  The model takes   *)
(* its quiet outcome: slot[fd] for fd >= size is the memory just past the  *)
(* vector's buffer, which a store writes and a later get reads back, until *)
(* resizeFds drops it (growing from capacity == size reallocates, so the   *)
(* new buffer holds null pointers from the old size on; shrinking destroys *)
(* the entries from the new length on).                                   *)
(*                                                                         *)
(* Every fd the threads create is a socket (fstat reports S_ISSOCK), so    *)
(* FdCtx::init sets m_isSocket and m_sysNonblock; m_isClosed is never set  *)
(* to true anywhere, so an FdCtx is just its user settings: m_userNonblock *)
(* and whether m_recvTimeout / m_sendTimeout differ from -1.               *)
(***************************************************************************)
EXTENDS Naturals, FiniteSets

CONSTANTS
    Threads,    \* threads making hooked calls
    Preopen,    \* fds open before any hooked call (stdin, stdout, stderr)
    MaxFd,      \* bound: the kernel has no fd above this one (EMFILE)
    InitSize,   \* FdManager(): resizeFds(64)
    MaxCalls,   \* bound: hooked calls each thread makes
    Null        \* an empty shared_ptr

Fds == 0 .. MaxFd
Dirs == {"READ", "WRITE"}

\* FdCtx as far as the hooks read it; to[d] is the timeout of direction d
\* (SO_RCVTIMEO for READ, SO_SNDTIMEO for WRITE) being set.
Ctx == [unb : BOOLEAN, to : [Dirs -> BOOLEAN]]

\* new FdCtx(fd): FdCtx::FdCtx and FdCtx::init for a socket.
NewCtx == [unb |-> FALSE, to |-> [d \in Dirs |-> FALSE]]

ASSUME /\ Preopen \subseteq Fds /\ InitSize \in Nat /\ MaxCalls \in Nat
       /\ Null \notin Ctx

VARIABLES
    kopen,      \* fd numbers open in the kernel
    size,       \* m_fds.size()
    slot,       \* slot[i]: m_fds[i] for i < size
    pc,         \* "idle", or inside add: "check", "resize", "store"
    op,         \* the call add is part of: "socket", "accept", "init", "connect"
    afd,        \* the fd add was given
    asz,        \* the length add's resizeFds was given
    owned,      \* owned[t]: fds thread t opened and has not closed
    ready,      \* ready[t]: those whose creating call has returned
    want,       \* want[fd]: the settings the program applied to fd
    calls       \* hooked calls each thread has made

\* FdManager's m_fds: its size and its entries.
tableVars == <<size, slot>>

vars == <<kopen, tableVars, pc, op, afd, asz, owned, ready, want, calls>>

TypeOK ==
    /\ kopen \subseteq Fds
    /\ size \in Nat
    /\ slot \in [Fds -> Ctx \cup {Null}]
    /\ pc \in [Threads -> {"idle", "check", "resize", "store"}]
    /\ op \in [Threads -> {"socket", "accept", "init", "connect"}]
    /\ afd \in [Threads -> Fds] /\ asz \in [Threads -> Nat]
    /\ owned \in [Threads -> SUBSET Fds] /\ ready \in [Threads -> SUBSET Fds]
    /\ want \in [Fds -> Ctx]
    /\ calls \in [Threads -> 0 .. MaxCalls]

\* The FdMgr singleton has been constructed (resizeFds(64)); only the
\* preopened fds exist and none of them is in the table.
Init ==
    /\ kopen = Preopen
    /\ size = InitSize
    /\ slot = [i \in Fds |-> Null]
    /\ pc = [t \in Threads |-> "idle"]
    /\ op = [t \in Threads |-> "socket"]
    /\ afd = [t \in Threads |-> 0] /\ asz = [t \in Threads |-> 0]
    /\ owned = [t \in Threads |-> {}] /\ ready = [t \in Threads |-> {}]
    /\ want = [i \in Fds |-> NewCtx]
    /\ calls = [t \in Threads |-> 0]

-----------------------------------------------------------------------------
(* FdManager                                                               *)

\* FdManager::get(fd): m_fds[fd] under the read lock, unchecked.
Get(fd) == slot[fd]

\* The lowest fd the kernel has free, for socket_f and accept_f.
LowestFree == CHOOSE fd \in Fds \ kopen : \A g \in Fds \ kopen : fd <= g

\* add(fd) begins: the caller enters the unlocked size check.
BeginAdd(t, fd, call) ==
    /\ pc' = [pc EXCEPT ![t] = "check"]
    /\ op' = [op EXCEPT ![t] = call]
    /\ afd' = [afd EXCEPT ![t] = fd]

\* add, line 87: if (fd > m_fds.size()) resizeFds(fd * 1.5), the size
\* read without the lock; the double is truncated to size_t.
AddCheck(t) ==
    /\ pc[t] = "check"
    /\ IF afd[t] > size
          THEN /\ pc' = [pc EXCEPT ![t] = "resize"]
               /\ asz' = [asz EXCEPT ![t] = (afd[t] * 3) \div 2]
          ELSE /\ pc' = [pc EXCEPT ![t] = "store"]
               /\ UNCHANGED asz
    /\ UNCHANGED <<kopen, size, slot, op, afd, owned, ready, want, calls>>

\* resizeFds: m_fds.resize(len) under the write lock.  Growing appends
\* null pointers; shrinking destroys the entries from len on.
AddResize(t) ==
    /\ pc[t] = "resize"
    /\ size' = asz[t]
    /\ slot' = [i \in Fds |-> IF i < size /\ i < asz[t] THEN slot[i] ELSE Null]
    /\ pc' = [pc EXCEPT ![t] = "store"]
    /\ UNCHANGED <<kopen, op, afd, asz, owned, ready, want, calls>>

\* add, lines 91-94: m_fds[fd] = new FdCtx(fd) under the write lock, and
\* the caller continues.  accept's get(fd, true) is followed by
\* Socket::init's add(sock) (socket.cpp:124); socket, init and connect
\* return to the program.
AddStore(t) ==
    LET fd == afd[t]
    IN  /\ pc[t] = "store"
        /\ slot' = [slot EXCEPT ![fd] = NewCtx]
        /\ IF op[t] = "accept"
              THEN /\ pc' = [pc EXCEPT ![t] = "check"]
                   /\ op' = [op EXCEPT ![t] = "init"]
                   /\ UNCHANGED ready
              ELSE /\ pc' = [pc EXCEPT ![t] = "idle"]
                   /\ ready' = [ready EXCEPT ![t] = @ \cup {fd}]
                   /\ UNCHANGED op
        /\ UNCHANGED <<kopen, size, afd, asz, owned, want, calls>>

-----------------------------------------------------------------------------
(* Hooked calls                                                            *)

\* A thread not inside a call starts its next one.
Call(t) ==
    /\ pc[t] = "idle"
    /\ calls[t] < MaxCalls
    /\ calls' = [calls EXCEPT ![t] = @ + 1]

\* socket (hook.cpp:238-246): socket_f, then FdMgr add(fd).  The kernel's
\* EMFILE past MaxFd is a bound of the model, so the call needs a free fd.
Socket(t) ==
    LET fd == LowestFree
    IN  /\ Call(t)
        /\ Fds \ kopen # {}
        /\ kopen' = kopen \cup {fd}
        /\ owned' = [owned EXCEPT ![t] = @ \cup {fd}]
        /\ want' = [want EXCEPT ![fd] = NewCtx]
        /\ BeginAdd(t, fd, "socket")
        /\ UNCHANGED <<size, slot, asz, ready>>

\* Socket::accept: the hooked accept (hook.cpp:324-330) returns a new fd
\* from accept_f and calls get(fd, true), which is add(fd); Socket::init
\* then calls add(sock) again (AddStore).  The wait on the listening socket
\* is do_io (Hook.tla); the listening socket is not one of Fds.
Accept(t) ==
    LET fd == LowestFree
    IN  /\ Call(t)
        /\ Fds \ kopen # {}
        /\ kopen' = kopen \cup {fd}
        /\ owned' = [owned EXCEPT ![t] = @ \cup {fd}]
        /\ want' = [want EXCEPT ![fd] = NewCtx]
        /\ BeginAdd(t, fd, "accept")
        /\ UNCHANGED <<size, slot, asz, ready>>

\* FdCtx::setTimeout: SO_RCVTIMEO sets m_recvTimeout, any other type
\* m_sendTimeout.
SetTimeout(c, d, v) == [c EXCEPT !.to[d] = v]

\* setsockopt (hook.cpp:498-514) with SOL_SOCKET and SO_RCVTIMEO or
\* SO_SNDTIMEO: FdCtx::setTimeout on the fd's FdCtx if get(fd) finds one.
\* v is FALSE for a timeval that converts to -1.
SetSockOpt(t, fd, d, v) ==
    /\ Call(t)
    /\ fd \in ready[t]
    /\ slot' = IF Get(fd) = Null THEN slot
               ELSE [slot EXCEPT ![fd] = SetTimeout(@, d, v)]
    /\ want' = [want EXCEPT ![fd].to[d] = v]
    /\ UNCHANGED <<kopen, size, pc, op, afd, asz, owned, ready>>

\* FdCtx::setUserNonblock through get(fd), skipped without an FdCtx
\* (isClose() is never true, and every fd here is a socket).
SetUserNonblock(t, fd, v) ==
    /\ Call(t)
    /\ fd \in ready[t]
    /\ slot' = IF Get(fd) = Null THEN slot
               ELSE [slot EXCEPT ![fd].unb = v]
    /\ want' = [want EXCEPT ![fd].unb = v]
    /\ UNCHANGED <<kopen, size, pc, op, afd, asz, owned, ready>>

\* fcntl(fd, F_SETFL, arg) (hook.cpp:393-410): user non-blocking is
\* arg & O_NONBLOCK; the kernel flag keeps O_NONBLOCK (m_sysNonblock).
Fcntl(t, fd, v) == SetUserNonblock(t, fd, v)

\* ioctl(fd, FIONBIO, &v) (hook.cpp:475-491).
Ioctl(t, fd, v) == SetUserNonblock(t, fd, v)

\* connect_with_timeout (hook.cpp:252): FdMgr add(fd) on an fd that is
\* already in the table.  What follows (the connect and its wait) is
\* Hook.tla's Connect.
Connect(t, fd) ==
    /\ Call(t)
    /\ fd \in ready[t]
    /\ BeginAdd(t, fd, "connect")
    /\ UNCHANGED <<kopen, size, slot, asz, owned, ready, want>>

\* FdManager::del: return if m_fds.size() < fd, otherwise m_fds[fd].reset()
\* (past the end when fd == size).
Del(fd) ==
    IF size < fd THEN slot ELSE [slot EXCEPT ![fd] = Null]

\* close (hook.cpp:374-387): with an FdCtx, cancelAll(fd) (no event is
\* registered here) and del(fd); then close_f frees the number.
Close(t, fd) ==
    /\ Call(t)
    /\ fd \in ready[t]
    /\ slot' = IF Get(fd) # Null THEN Del(fd) ELSE slot
    /\ kopen' = kopen \ {fd}
    /\ owned' = [owned EXCEPT ![t] = @ \ {fd}]
    /\ ready' = [ready EXCEPT ![t] = @ \ {fd}]
    /\ UNCHANGED <<size, pc, op, afd, asz, want>>

\* Thread t starts a hooked call of its own choosing.
CallStep(t) ==
    \/ Socket(t) \/ Accept(t)
    \/ \E fd \in Fds : \/ Connect(t, fd) \/ Close(t, fd)
                       \/ \E v \in BOOLEAN : Fcntl(t, fd, v) \/ Ioctl(t, fd, v)
                       \/ \E d \in Dirs, v \in BOOLEAN : SetSockOpt(t, fd, d, v)

\* Thread t takes the next step of the add it is in.
AddStep(t) == AddCheck(t) \/ AddResize(t) \/ AddStore(t)

Next == \E t \in Threads : CallStep(t) \/ AddStep(t)

Spec == Init /\ [][Next]_vars

-----------------------------------------------------------------------------
(* Properties                                                              *)

\* The path do_io (hook.cpp:73-100) takes for direction d given the FdCtx
\* get(fd) returned: without one, or when the user made the socket
\* non-blocking, the plain syscall; otherwise a wait in the IOManager, with
\* the condition timer when the direction's timeout is set.
IoPath(ctx, d) ==
    IF ctx = Null \/ ctx.unb THEN "syscall"
    ELSE IF ctx.to[d] THEN "timed" ELSE "wait"

\* A read or write on a socket a thread opened through the hooks (socket
\* or accept) and has not closed takes the path the program's own settings
\* call for: the plain syscall after it made the socket non-blocking,
\* otherwise a wait on the IOManager, timed exactly when it set a timeout.
\* This fails if FdManager loses or replaces the socket's FdCtx.
HookedIoFollowsSettings ==
    \A t \in Threads : \A fd \in ready[t] : \A d \in Dirs :
        IoPath(Get(fd), d) = IoPath(want[fd], d)
=============================================================================

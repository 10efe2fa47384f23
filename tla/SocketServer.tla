---------------------------- MODULE SocketServer ----------------------------
(***************************************************************************)
(* Socket (src/server/socket.cpp) and TcpServer (src/server/tcp_server.cpp)*)
(* on top of FdManager's table and the hooked calls of FdTable.tla.        *)
(*                                                                         *)
(* The program is the one of test_tcp_server.cpp and echo_server.cpp: a    *)
(* fiber run() calls TcpServer::bind until it succeeds and then start();   *)
(* startAccept loops on Socket::accept on the accept worker, handing each  *)
(* client to handleClient on the worker, which receives until the peer    *)
(* closes or fails (EchoServer) and drops the client Socket (~Socket      *)
(* closes it).  stop() may be called once the server serves, and start()  *)
(* once more after it; start() schedules startAccept as a task the accept *)
(* worker's thread runs in turn (acceptTasks).  A client                  *)
(* thread runs test_socket.cpp: Socket::connect, one send, one recv, and  *)
(* the Socket is dropped.                                                  *)
(*                                                                         *)
(* Threads are the OS threads the fibers run on; a fiber runs without      *)
(* preemption between hooked calls, so each Socket / TcpServer step below  *)
(* is atomic apart from FdManager::add, whose three steps are FdTable's.   *)
(* A Socket's cached addresses (getLocalAddress, getRemoteAddress) and    *)
(* the options initSock sets (SO_REUSEADDR, TCP_NODELAY, which the hooked  *)
(* setsockopt passes through) leave the table alone and are not state.     *)
(***************************************************************************)
EXTENDS FdTable, Sequences

CONSTANTS
    Callers,    \* threads making hooked calls of their own (FdTable)
    Main,       \* the thread running run(), stop() and stop's close task
    Acceptor,   \* the accept worker's thread, running startAccept
    Worker,     \* the worker's thread, running handleClient
    Client,     \* a thread connecting out with Socket::connect
    StickyFails,\* run() passes its own fails vector to every bind call
    NoFd        \* m_sock == -1

ServerThreads == {Main, Acceptor, Worker, Client}

ASSUME /\ ServerThreads \subseteq Threads /\ Callers \subseteq Threads
       /\ Callers \cap ServerThreads = {} /\ NoFd \notin Fds
       /\ StickyFails \in BOOLEAN

VARIABLES
    spc,        \* spc[t]: where server thread t is in the Socket/TcpServer code
    lsock,      \* m_sock of the listening Socket in m_socks, NoFd if none
    isStop,     \* TcpServer::m_isStop
    failed,     \* the fails vector bind is filling is not empty
    client,     \* m_sock of the client Socket startAccept holds
    clients,    \* the handleClient tasks queued on the worker (client fds)
    acceptTasks \* startAccept tasks queued on the accept worker, not yet run

\* TcpServer's m_socks (its one listening Socket) and m_isStop.
tcpVars == <<lsock, isStop>>

serverVars == <<spc, tcpVars, failed, client, clients, acceptTasks>>
allVars == <<vars, serverVars>>

\* TcpServer(): m_isStop(true); run() is about to bind, the accept loop is
\* not scheduled, the client has not made its Socket.
SInit ==
    /\ Init
    /\ spc = [t \in ServerThreads |->
                CASE t = Main -> "bind" [] t = Acceptor -> "wait"
                  [] t = Worker -> "serve" [] t = Client -> "new"]
    /\ lsock = NoFd
    /\ isStop = TRUE
    /\ failed = FALSE
    /\ client = NoFd
    /\ clients = <<>>
    /\ acceptTasks = 0

\* Thread t is between hooked calls at control point p.
At(t, p) == spc[t] = p /\ pc[t] = "idle"

Goto(t, p) == spc' = [spc EXCEPT ![t] = p]

\* Socket::newSock: m_sock = the hooked socket(); initSock's options pass
\* through the hooked setsockopt.  The call fails when no fd is free.
NewSock(t) == Socket(t)
NewSockFails(t) == Call(t) /\ Fds \subseteq kopen

\* Socket::close (also ~Socket): m_isConnected = false and, with a valid
\* m_sock, the hooked close and m_sock = -1.
SockClose(t, fd) == Close(t, fd)

\* The last Socket::ptr to a Socket is released: ~Socket calls close().
DropSocket(t, fd) == SockClose(t, fd)

\* The fails vector a bind call starts from: test_tcp_server.cpp's run()
\* passes its own to bind(addrs, fails) on every try, so it keeps what
\* earlier tries pushed; echo_server.cpp calls bind(addr), which makes a
\* fresh one per call.
FailsAtStart == StickyFails /\ failed

\* Socket::accept: a new Socket, the hooked accept, then init (AcceptInit).
SocketAccept(t) == Accept(t)

\* Socket::send / recv (buffer and iovec forms) on a connected Socket: the
\* hooked send / recvmsg on m_sock, which is do_io on the fd's FdCtx
\* (FdTable's IoPath) and changes no table entry.  Without m_isConnected
\* they return -1; every Socket that reaches them here is connected.
SockIo(t, fd) == pc[t] = "idle" /\ fd \in ready[t]

-----------------------------------------------------------------------------
(* run(): while (!bind(...)) sleep(2); start();                            *)

\* run(): bind returned false; sleep(2) and call bind again.
RetryBind == Goto(Main, "bind")

\* TcpServer::bind -> Socket::bind -> newSock: the hooked socket().  When
\* it fails (no free fd), newSock logs, bind returns false, the address is
\* pushed on fails and run() retries.
BindSocket ==
    /\ At(Main, "bind")
    /\ \/ /\ NewSock(Main)
          /\ Goto(Main, "bound")
          /\ failed' = FailsAtStart
       \/ /\ NewSockFails(Main)
          /\ failed' = TRUE
          /\ UNCHANGED <<kopen, size, slot, pc, op, afd, asz, owned, ready,
                         want, spc>>
    /\ UNCHANGED <<lsock, isStop, client, clients, acceptTasks>>

\* The rest of TcpServer::bind once newSock's add has returned: ::bind and
\* listen succeed or not (ok); on failure the address goes on fails.  The
\* socket is kept in m_socks only when fails is empty at the end.  With
\* StickyFails, fails belongs to run() and is never cleared, so after one
\* failure every later bind clears m_socks and returns false.  A Socket dropped from
\* m_socks (or never pushed) is destroyed: ~Socket -> close().
BindDone(ok) ==
    LET fd == afd[Main]
    IN  /\ At(Main, "bound")
        /\ IF ok /\ ~failed
              THEN /\ lsock' = fd
                   /\ Goto(Main, "start")
                   /\ UNCHANGED <<kopen, slot, owned, ready, calls, failed>>
              ELSE /\ DropSocket(Main, fd)
                   /\ failed' = (failed \/ ~ok)
                   /\ RetryBind
                   /\ UNCHANGED lsock
        /\ UNCHANGED <<size, pc, op, afd, asz, want, isStop, client, clients, acceptTasks>>

\* TcpServer::start with m_isStop set (a start() while serving returns at
\* once): m_isStop = false and startAccept(sock) is scheduled on the accept
\* worker for each of m_socks, which stop's close task may not have
\* cleared yet.
TcpStart ==
    /\ isStop
    /\ isStop' = FALSE
    /\ acceptTasks' = acceptTasks + (IF lsock # NoFd THEN 1 ELSE 0)

\* run() calls start() once bind has succeeded.
Start ==
    /\ At(Main, "start")
    /\ TcpStart
    /\ Goto(Main, "serving")
    /\ UNCHANGED <<vars, lsock, failed, client, clients>>

\* TcpServer::stop: m_isStop = true and the close task is scheduled on
\* the accept worker.
Stop ==
    /\ At(Main, "serving")
    /\ isStop' = TRUE
    /\ Goto(Main, "stopping")
    /\ UNCHANGED <<vars, lsock, failed, client, clients, acceptTasks>>

\* start() again after stop() has returned, before ("restart") or after
\* ("served") the close task has run.  The server is restarted once.
Restart ==
    /\ spc[Main] \in {"stopping", "stopped"} /\ pc[Main] = "idle"
    /\ TcpStart
    /\ Goto(Main, IF spc[Main] = "stopping" THEN "restart" ELSE "served")
    /\ UNCHANGED <<vars, lsock, failed, client, clients>>

\* stop's task: sock->cancelAll() (the acceptor's wait is Hook.tla's) and
\* sock->close() for each of m_socks, then m_socks.clear().  It runs
\* whether or not start() was called again in between, after the
\* startAccept tasks scheduled before it (the accept worker runs its
\* queue in order; a restart's task comes after it).
CloseTask ==
    /\ spc[Main] \in {"stopping", "restart"} /\ pc[Main] = "idle"
    /\ acceptTasks <= IF spc[Main] = "restart" THEN 1 ELSE 0
    /\ SockClose(Main, lsock)
    /\ lsock' = NoFd
    /\ Goto(Main, IF spc[Main] = "stopping" THEN "stopped" ELSE "served")
    /\ UNCHANGED <<size, pc, op, afd, asz, want, isStop, failed, client,
                   clients, acceptTasks>>

-----------------------------------------------------------------------------
(* startAccept(sock): while (!m_isStop) { client = sock->accept(); ... }   *)

\* The accept worker's thread runs the next startAccept task once the
\* previous one has returned (it is blocked in no hooked call here).
RunStartAccept ==
    /\ spc[Acceptor] \in {"wait", "exit"} /\ pc[Acceptor] = "idle"
    /\ acceptTasks > 0
    /\ acceptTasks' = acceptTasks - 1
    /\ Goto(Acceptor, "loop")
    /\ UNCHANGED <<vars, lsock, isStop, failed, client, clients>>

\* The loop test.  Past it, Socket::accept: the hooked accept returns a new
\* fd (FdTable's Accept: get(fd, true), then Socket::init's add), or -1
\* (an aborted connection, EMFILE, a closed listening socket), when accept
\* returns nullptr and the loop logs the error and goes round.
AcceptLoop ==
    /\ At(Acceptor, "loop")
    /\ IF isStop
          THEN /\ Goto(Acceptor, "exit")
               /\ UNCHANGED vars
          ELSE \/ /\ lsock # NoFd
                  /\ SocketAccept(Acceptor)
                  /\ Goto(Acceptor, "init")
               \/ /\ Call(Acceptor)
                  /\ UNCHANGED <<kopen, size, slot, pc, op, afd, asz, owned,
                                 ready, want, spc>>
    /\ UNCHANGED <<lsock, isStop, failed, client, clients, acceptTasks>>

\* Socket::init, once its add has returned: the FdCtx add returned is never
\* null, is a socket and is not closed, so m_sock = sock and m_isConnected
\* = true; initSock and the address lookups follow.
AcceptInit ==
    /\ At(Acceptor, "init")
    /\ client' = afd[Acceptor]
    /\ Goto(Acceptor, "timeout")
    /\ UNCHANGED <<vars, lsock, isStop, failed, clients, acceptTasks>>

\* client->setRecvTimeout(m_recvTimeout): the hooked setsockopt with
\* SO_RCVTIMEO (tcp_server.read_timeout, two minutes).
SetRecvTimeout ==
    /\ At(Acceptor, "timeout")
    /\ SetSockOpt(Acceptor, client, "READ", TRUE)
    /\ Goto(Acceptor, "schedule")
    /\ UNCHANGED <<lsock, isStop, failed, client, clients, acceptTasks>>

\* m_worker->scheduler(bind(&handleClient, self, client)): the client
\* Socket now belongs to the task on the worker.
Schedule ==
    /\ At(Acceptor, "schedule")
    /\ clients' = Append(clients, client)
    /\ owned' = [owned EXCEPT ![Acceptor] = @ \ {client},
                              ![Worker] = @ \cup {client}]
    /\ ready' = [ready EXCEPT ![Acceptor] = @ \ {client},
                              ![Worker] = @ \cup {client}]
    /\ client' = NoFd
    /\ Goto(Acceptor, "loop")
    /\ UNCHANGED <<kopen, size, slot, pc, op, afd, asz, want, calls, lsock,
                   isStop, failed, acceptTasks>>

\* The worker runs the next handleClient task: EchoServer::handleClient
\* clears its ByteArray, takes getWriteBuffers(1024) (ByteArray.tla) and
\* calls client->recv.  TcpServer::handleClient only logs and returns.
HandleClient ==
    /\ At(Worker, "serve")
    /\ clients # <<>>
    /\ Goto(Worker, "recv")
    /\ UNCHANGED <<vars, lsock, isStop, failed, client, clients, acceptTasks>>

\* client->recv returns 0 (the peer closed) or < 0 (an error, the receive
\* timeout): the loop breaks, the task returns and drops the last
\* reference to the client, and ~Socket -> Socket::close() closes the fd.
\* A recv that returns data (printed with toString) leaves this state as
\* it was and is not a step here; so is TcpServer::handleClient's return.
EchoRecv ==
    /\ At(Worker, "recv")
    /\ SockIo(Worker, Head(clients))
    /\ DropSocket(Worker, Head(clients))
    /\ clients' = Tail(clients)
    /\ Goto(Worker, "serve")
    /\ UNCHANGED <<size, pc, op, afd, asz, want, lsock, isStop, failed,
                   client, acceptTasks>>

-----------------------------------------------------------------------------
(* Socket::connect(addr, timeout_ms) on a new Socket                       *)

\* !isValid(), so newSock(): the hooked socket(); if it fails, connect
\* returns false.
ClientSocket ==
    /\ At(Client, "new")
    /\ \/ /\ NewSock(Client)
          /\ Goto(Client, "connect")
       \/ /\ NewSockFails(Client)
          /\ Goto(Client, "done")
          /\ UNCHANGED <<kopen, size, slot, pc, op, afd, asz, owned, ready,
                         want>>
    /\ UNCHANGED <<lsock, isStop, failed, client, clients, acceptTasks>>

\* connect_with_timeout, directly or through the hooked connect when
\* timeout_ms == -1: it starts with FdMgr add(fd) (FdTable's Connect).
ClientConnect ==
    /\ At(Client, "connect")
    /\ Connect(Client, afd[Client])
    /\ Goto(Client, "connected")
    /\ UNCHANGED <<lsock, isStop, failed, client, clients, acceptTasks>>

\* The connect succeeds (m_isConnected = true, addresses cached) or fails,
\* when Socket::connect calls close() and returns false, and test_socket
\* returns.
ClientDone(ok) ==
    /\ At(Client, "connected")
    /\ IF ok THEN /\ UNCHANGED vars
                  /\ Goto(Client, "send")
             ELSE /\ DropSocket(Client, afd[Client])
                  /\ Goto(Client, "done")
    /\ UNCHANGED <<size, pc, op, afd, asz, want, lsock, isStop, failed,
                   client, clients, acceptTasks>>

\* sock->send(buff): rt < 0 makes test_socket return, dropping the Socket
\* (~Socket -> close()); otherwise it goes on to recv.
ClientSend(ok) ==
    /\ At(Client, "send")
    /\ SockIo(Client, afd[Client])
    /\ IF ok THEN /\ UNCHANGED vars
                  /\ Goto(Client, "recv")
             ELSE /\ DropSocket(Client, afd[Client])
                  /\ Goto(Client, "done")
    /\ UNCHANGED <<size, pc, op, afd, asz, want, lsock, isStop, failed,
                   client, clients, acceptTasks>>

\* sock->recv(&buffs[0], 4096): whatever it returns, test_socket returns
\* and the Socket is dropped: ~Socket -> close().
ClientRecv ==
    /\ At(Client, "recv")
    /\ SockIo(Client, afd[Client])
    /\ DropSocket(Client, afd[Client])
    /\ Goto(Client, "done")
    /\ UNCHANGED <<size, pc, op, afd, asz, want, lsock, isStop, failed,
                   client, clients, acceptTasks>>

-----------------------------------------------------------------------------
ServerStep ==
    \/ BindSocket \/ \E ok \in BOOLEAN : BindDone(ok)
    \/ Start \/ Stop \/ Restart \/ CloseTask
    \/ RunStartAccept \/ AcceptLoop \/ AcceptInit \/ SetRecvTimeout \/ Schedule
    \/ HandleClient \/ EchoRecv
    \/ ClientSocket \/ ClientConnect \/ \E ok \in BOOLEAN : ClientDone(ok)
    \/ \E ok \in BOOLEAN : ClientSend(ok) \/ ClientRecv

SNext ==
    \/ \E t \in Callers : CallStep(t) /\ UNCHANGED serverVars
    \/ \E t \in Threads : AddStep(t) /\ UNCHANGED serverVars
    \/ ServerStep

SSpec == SInit /\ [][SNext]_allVars
=============================================================================

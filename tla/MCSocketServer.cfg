\* The server of test_tcp_server.cpp on three threads (run() and stop on
\* main, startAccept on acc, handleClient on wrk), a client thread
\* connecting out, and a thread t1 making hooked calls of its own; three
\* hooked calls per thread.  fds 0-2 are open from the start; the table
\* starts with 2 entries (code: 64), so the boundary fd == size is reached
\* at fd 4 (code: fd 64) and the first growth comes from fd 3; the kernel
\* has fds up to 5.
CONSTANTS
    t1 = t1
    main = main
    acc = acc
    wrk = wrk
    cli = cli
    Null = Null
    NoFd = NoFd
    Threads = {t1, main, acc, wrk, cli}
    Callers = {t1}
    Main = main
    Acceptor = acc
    Worker = wrk
    Client = cli
    StickyFails = TRUE
    Preopen = {0, 1, 2}
    MaxFd = 5
    InitSize = 2
    MaxCalls = 3
SPECIFICATION SSpec
INVARIANT HookedIoFollowsSettings

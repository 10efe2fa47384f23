\* A client socket: f2 connects fd1 (connect_with_timeout) and then sends
\* on it twice, while f1 sleeps and then reads it twice with a receive
\* timeout (a read during the connect gets EAGAIN).  Three calls per
\* fiber, one idle thread.  The system stops
\* when every call has returned: idle threads then block in epoll_wait, so
\* deadlock is not checked.
CONSTANTS
    fd1 = fd1
    f1 = f1
    f2 = f2
    t1 = t1
    NoWaiter = NoWaiter
    Fds = {fd1}
    Fibers = {f1, f2}
    Threads = {t1}
    Role <- RoleShared
    MaxOps = 3
    NDEBUG = FALSE
    HasTimeout = {f1}
    Connectors = {f2}
    Sleepers = {f1}
SPECIFICATION Spec
INVARIANT NothingLeftArmed
PROPERTY TimeoutEndsWait
CHECK_DEADLOCK FALSE

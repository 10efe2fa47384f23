CONSTANTS
    fd1 = fd1
    fd2 = fd2
    f1 = f1
    f2 = f2
    t1 = t1
    t2 = t2
    NoWaiter = NoWaiter
    Fds = {fd1, fd2}
    Fibers = {f1, f2}
    Threads = {t1, t2}
    Role <- RolesApart
    MaxOps = 2
    CancelOps = {"cancelEvent", "cancelAll"}
    MaxCancels = 2
    MayWithdraw = TRUE
    NDEBUG = FALSE
    FdNo <- FdNoOneGrower
    InitSize = 2
SPECIFICATION Spec
\* Once every fiber is done the idle threads wait in epoll_wait for good.
CHECK_DEADLOCK FALSE
INVARIANT ParkedHasOneWaker PendingMatches TriggerOnlyRegistered AddEventSlotFree
PROPERTY AllOpsComplete

CONSTANTS
    fd1 = fd1
    fd2 = fd2
    f1 = f1
    f2 = f2
    t1 = t1
    t2 = t2
    NoWaiter = NoWaiter
    Fds = {fd1}
    Fibers = {f1}
    Threads = {t1}
    Role <- RoleConnect
    MaxOps = 1
    CancelOps = {}
    MaxCancels = 0
    MayWithdraw = FALSE
    NDEBUG = FALSE
    FdNo <- FdNoOneGrower
    InitSize = 2
SPECIFICATION SpecHangup
CHECK_DEADLOCK FALSE
INVARIANT TriggerOnlyRegistered

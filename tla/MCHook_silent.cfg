\* One fiber reading a socket with a receive timeout from a peer that
\* never sends; every read should end in ETIMEDOUT.
CONSTANTS
    fd1 = fd1
    f1 = f1
    f2 = f2
    t1 = t1
    NoWaiter = NoWaiter
    Fds = {fd1}
    Fibers = {f1}
    Threads = {t1}
    Role <- RoleRead
    MaxOps = 2
    NDEBUG = FALSE
    HasTimeout = {f1}
    Connectors = {}
    Sleepers = {}
SPECIFICATION Spec
PROPERTY AllOpsReturn
CHECK_DEADLOCK FALSE

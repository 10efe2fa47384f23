\* One worker thread, three callback tasks that yield READY and park in
\* HOLD until a waker re-schedules them.
CONSTANTS
    w1 = w1
    w2 = w2
    f1 = f1
    f2 = f2
    f3 = f3
    Workers = {w1}
    Fibers = {f1, f2, f3}
    AnyThread = AnyThread
    NoTask = NoTask
    Parent <- F1SpawnsF2
    Affinity <- PinnedToW1
    Frequency = 2
    MaxYields = 2
    MayHold = TRUE
    Root = NoRoot
SPECIFICATION Spec
INVARIANT TypeOK
INVARIANT NoLostFiber
PROPERTY AllTasksComplete
PROPERTY StartReturns

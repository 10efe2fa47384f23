\* Two workers and tasks that park in HOLD: a waker re-schedules a fiber
\* between YieldToHold's state write and its swapcontext.
CONSTANTS
    w1 = w1
    w2 = w2
    f1 = f1
    f2 = f2
    f3 = f3
    Workers = {w1, w2}
    Fibers = {f1, f2, f3}
    AnyThread = AnyThread
    NoTask = NoTask
    Parent <- NoParents
    Affinity <- PinnedToW2
    Frequency = 2
    MaxYields = 1
    MayHold = TRUE
    Root = NoRoot
SPECIFICATION Spec
INVARIANT NoDoubleResume

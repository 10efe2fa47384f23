\* Two workers and tasks that only yield READY: does stop() return?
CONSTANTS
    w1 = w1
    w2 = w2
    f1 = f1
    f2 = f2
    f3 = f3
    Workers = {w1, w2}
    Fibers = {f1, f2, f3}
    AnyThread = AnyThread
    NoTask = NoTask
    Parent <- NoParents
    Affinity <- PinnedToW2
    Frequency = 2
    MaxYields = 1
    MayHold = FALSE
    Root = NoRoot
SPECIFICATION Spec
PROPERTY StopReturns

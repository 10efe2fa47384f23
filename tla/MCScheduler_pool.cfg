\* Two workers, three callback tasks that yield READY before finishing;
\* f3 is pinned to w2, the caller thread (use_caller): it runs only after
\* stop() calls the root fiber.  TypeOK, NoLostFiber and StartReturns are
\* checked by the single-worker configuration; with no HOLD yields here,
\* NoDoubleResume is the hold-race configuration's question.
CONSTANTS
    w1 = w1
    w2 = w2
    f1 = f1
    f2 = f2
    f3 = f3
    Workers = {w1, w2}
    Fibers = {f1, f2, f3}
    AnyThread = AnyThread
    NoTask = NoTask
    Parent <- F1SpawnsF2
    Affinity <- PinnedToW2
    Frequency = 2
    MaxYields = 2
    MayHold = FALSE
    Root = w2
SPECIFICATION Spec
PROPERTY AllTasksComplete

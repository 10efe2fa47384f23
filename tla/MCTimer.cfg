\* Two timers, intervals of 1 and 2 ms, one worker in listExpiredCb and a
\* clock that runs to 2 ms.  Workers never stop calling listExpiredCb, so
\* the model has no terminal state and deadlock is checked.
CONSTANTS
    ta = ta
    tb = tb
    w1 = w1
    Timers = {ta, tb}
    Addr <- AddrTwo
    Intervals = {1, 2}
    Listers = {w1}
    MaxTime = 2
SPECIFICATION Spec
PROPERTY QueueSpec NoDrainAfterCancel DueTimersDrain

\* Two workers, three tasks scheduled by the producer, one timer added with
\* a short delay or one past the int range.  The widths are scaled to fit
\* TLC's integers: int is 5 bits wide (code: 32) and MAX_TIMEOUT is 3 ms
\* (code: 3000), so a 17 ms delay plays the role of one of 2^31 ms or more;
\* frequency is 2 (code: 10).
CONSTANTS
    w1 = w1
    w2 = w2
    a = a
    b = b
    c = c
    t1 = t1
    NoTask = NoTask
    Workers = {w1, w2}
    Tasks = {a, b, c}
    Timers = {t1}
    Delays = {1, 17}
    Frequency = 2
    MaxTimeout = 3
    IntBits = 5
    MaxTime = 4
SPECIFICATION Spec
INVARIANT PollerWakesForWork

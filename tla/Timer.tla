-------------------------------- MODULE Timer --------------------------------
(***************************************************************************)
(* The TimerManager of src/server/timer.cpp.                               *)
(*                                                                         *)
(* m_timers is a std::set ordered by Comparetor: by m_next, then by the    *)
(* address of the Timer object.  Addresses are the constant Addr, a        *)
(* distinct number per timer.  Every operation holds m_mutex in write mode *)
(* and is one action, except listExpiredCb, which a worker calls from      *)
(* IOManager::idle and which is split where it lets others in:             *)
(*   ListExpiredBegin  reads the clock into now_ms             (line 151)  *)
(*   ListExpiredCheck  returns if m_timers is empty, read lock (153-158)   *)
(*   ListExpiredEnd    takes the write lock, builds now_timer with a       *)
(*                     second clock reading, drains and re-arms (159-182)  *)
(* now_timer is a fresh allocation: its address falls anywhere among the   *)
(* live timers' addresses, a choice pos in 0..Cardinality(Timers).         *)
(*                                                                         *)
(* A drained callback is queued for the scheduler (queued[t]) and runs     *)
(* later (RunCallback).  cancelled records the timers whose cancel()       *)
(* returned true.                                                          *)
(***************************************************************************)
EXTENDS Naturals, FiniteSets

CONSTANTS
    Timers,         \* the Timer objects the program creates
    Addr,           \* Addr[t]: the address of t, distinct per timer
    Intervals,      \* the intervals addTimer and reset are called with
    Listers,        \* worker threads running IOManager::idle
    MaxTime         \* the last millisecond the clock reaches

ASSUME /\ Addr \in [Timers -> 1 .. Cardinality(Timers)]
       /\ \A t, u \in Timers : t # u => Addr[t] # Addr[u]
       /\ Intervals \subseteq Nat \ {0}

VARIABLES
    clock,          \* GetCurrentMS()
    created,        \* timers returned by addTimer
    timers,         \* m_timers
    next,           \* next[t]: t->m_next
    interval,       \* interval[t]: t->m_interval
    recurring,      \* recurring[t]: t->m_recurring
    cb,             \* cb[t]: t->m_cb is not null
    tickled,        \* m_tickled
    lpc,            \* lpc[w]: where worker w is in listExpiredCb
    nowMs,          \* nowMs[w]: its local now_ms
    cancelled,      \* timers whose cancel() returned true
    queued          \* queued[t]: callbacks of t in cbs or the run queue

\* The fields of each Timer: m_next, m_interval, m_recurring, m_cb.
timerVars == <<next, interval, recurring, cb>>

\* TimerManager's m_timers and m_tickled.
managerVars == <<timers, tickled>>

vars == <<clock, created, timerVars, managerVars, lpc, nowMs, cancelled,
          queued>>

Q == INSTANCE TimerQueue

TypeOK ==
    /\ clock \in 0 .. MaxTime
    /\ created \subseteq Timers
    /\ timers \subseteq created
    /\ next \in [Timers -> Q!Deadline]
    /\ interval \in [Timers -> {0} \cup Intervals]
    /\ recurring \in [Timers -> BOOLEAN]
    /\ cb \in [Timers -> BOOLEAN]
    /\ tickled \in BOOLEAN
    /\ lpc \in [Listers -> {"idle", "check", "write"}]
    /\ nowMs \in [Listers -> 0 .. MaxTime]
    /\ cancelled \subseteq created
    /\ queued \in [Timers -> Nat]

Init ==
    /\ Q!QInit
    /\ cb = [t \in Timers |-> FALSE]
    /\ tickled = FALSE
    /\ lpc = [w \in Listers |-> "idle"]
    /\ nowMs = [w \in Listers |-> 0]

\* Comparetor (lines 6-24) on keys <<m_next, address>>.
KeyLess(k, l) == k[1] < l[1] \/ (k[1] = l[1] /\ k[2] < l[2])

Key(t) == <<next[t], Addr[t]>>

\* The clock advances one millisecond.
Tick ==
    /\ Q!QTick
    /\ UNCHANGED <<cb, tickled, lpc, nowMs>>

\* addTimer (lines 44-62), with the Timer constructor (30-34).
\* onTimerInsertedAtFront() is commented out: at_front only sets m_tickled.
AddTimer(t, iv, rec) ==
    /\ Q!QAdd(t, iv, rec)
    /\ cb' = [cb EXCEPT ![t] = TRUE]
    /\ LET atFront == \A u \in timers : KeyLess(<<clock + iv, Addr[t]>>, Key(u))
       IN  tickled' = (tickled \/ atFront)
    /\ UNCHANGED <<lpc, nowMs>>

\* Mutant: cancel clears m_cb and reports success without erasing.
CancelKeepsInSet(t) ==
    /\ t \in created
    /\ cb[t]
    /\ cb' = [cb EXCEPT ![t] = FALSE]
    /\ cancelled' = IF t \in timers THEN cancelled \cup {t} ELSE cancelled
    /\ UNCHANGED <<clock, created, timers, next, interval, recurring, tickled,
                   lpc, nowMs, queued>>

\* cancel (lines 64-76).
Cancel(t) ==
    /\ t \in created
    /\ cb[t]
    /\ cb' = [cb EXCEPT ![t] = FALSE]
    /\ IF t \in timers
          THEN /\ timers' = timers \ {t}
               /\ cancelled' = cancelled \cup {t}
          ELSE UNCHANGED <<timers, cancelled>>
    /\ UNCHANGED <<clock, created, next, interval, recurring, tickled, lpc,
                   nowMs, queued>>

\* refresh (lines 78-92): the early returns change nothing.
Refresh(t) ==
    /\ cb[t]
    /\ t \in timers
    /\ next' = [next EXCEPT ![t] = clock + interval[t]]
    /\ UNCHANGED <<clock, created, timers, interval, recurring, cb, tickled,
                   lpc, nowMs, cancelled, queued>>

\* reset (lines 94-120).  The first early return reads m_interval before
\* the lock; only reset writes it, so it reads one of the values written.
Reset(t, iv, fromNow) ==
    /\ ~(interval[t] = iv /\ ~fromNow)
    /\ cb[t]
    /\ t \in timers
    /\ LET start == IF fromNow THEN clock ELSE next[t] - interval[t]
       IN  /\ interval' = [interval EXCEPT ![t] = iv]
           /\ next' = [next EXCEPT ![t] = start + iv]
    /\ UNCHANGED <<clock, created, timers, recurring, cb, tickled, lpc,
                   nowMs, cancelled, queued>>

\* getNextTimer (lines 134-148), called by IOManager::stopping before every
\* epoll_wait: its only effect on state is to clear m_tickled.
GetNextTimer ==
    /\ tickled
    /\ tickled' = FALSE
    /\ UNCHANGED <<clock, created, timers, next, interval, recurring, cb,
                   lpc, nowMs, cancelled, queued>>

\* listExpiredCb, line 151: now_ms = GetCurrentMS().
ListExpiredBegin(w) ==
    /\ lpc[w] = "idle"
    /\ lpc' = [lpc EXCEPT ![w] = "check"]
    /\ nowMs' = [nowMs EXCEPT ![w] = clock]
    /\ UNCHANGED <<clock, created, timers, next, interval, recurring, cb,
                   tickled, cancelled, queued>>

\* Lines 153-158: return if m_timers is empty, under the read lock.
ListExpiredCheck(w) ==
    /\ lpc[w] = "check"
    /\ lpc' = [lpc EXCEPT ![w] = IF timers = {} THEN "idle" ELSE "write"]
    /\ UNCHANGED <<clock, created, timers, next, interval, recurring, cb,
                   tickled, nowMs, cancelled, queued>>

\* Mutant: no sweep of the timers whose m_next equals now_ms.
ExpiredNoSweep(now_ms, now2, pos) ==
    {t \in timers : KeyLess(<<next[t], Addr[t]>>, <<now2, pos + 1>>)}

\* Mutant: lower_bound on m_next alone, leaving out timers due now.
ExpiredStrict(now_ms, now2, pos) == {t \in timers : next[t] < now2}

\* The timers listExpiredCb takes (lines 161-169).  now_timer's key is the
\* second clock reading with an address above those of the timers whose
\* address is at most pos; lower_bound stops at the first timer not below
\* it, and the loop at 165 then skips the following timers whose m_next
\* equals now_ms.
Expired(now_ms, now2, pos) ==
    LET below == {t \in timers : KeyLess(<<next[t], Addr[t]>>, <<now2, pos + 1>>)}
        rest  == timers \ below
        swept == {t \in rest : \A u \in rest :
                     ~KeyLess(Key(u), Key(t)) \/ next[u] = now_ms}
                 \cap {t \in rest : next[t] = now_ms}
    IN  below \cup swept

\* Lines 172-182: recurring timers go back at now_ms + m_interval, the others
\* lose their callback; every callback is handed to the scheduler.
Drained(w, exp) ==
    /\ timers' = (timers \ exp) \cup {t \in exp : recurring[t]}
    /\ next' = [t \in Timers |->
                   IF t \in exp /\ recurring[t] THEN nowMs[w] + interval[t]
                                              ELSE next[t]]
    /\ cb' = [t \in Timers |-> IF t \in exp /\ ~recurring[t] THEN FALSE ELSE cb[t]]
    /\ queued' = [t \in Timers |-> IF t \in exp THEN queued[t] + 1 ELSE queued[t]]

\* Lines 159-182 under the write lock.
ListExpiredEnd(w) ==
    /\ lpc[w] = "write"
    /\ \E pos \in 0 .. Cardinality(Timers) :
          Drained(w, Expired(nowMs[w], clock, pos))
    /\ lpc' = [lpc EXCEPT ![w] = "idle"]
    /\ UNCHANGED <<clock, created, interval, recurring, tickled, nowMs,
                   cancelled>>

\* The scheduler runs one drained callback (IOManager::idle, 327-330).
RunCallback(t) ==
    /\ Q!QRun(t)
    /\ UNCHANGED <<cb, tickled, lpc, nowMs>>

Next ==
    \/ Tick
    \/ \E t \in Timers, iv \in Intervals, rec \in BOOLEAN : AddTimer(t, iv, rec)
    \/ \E t \in Timers : Cancel(t) \/ Refresh(t) \/ RunCallback(t)
    \/ \E t \in Timers, iv \in Intervals, fromNow \in BOOLEAN : Reset(t, iv, fromNow)
    \/ GetNextTimer
    \/ \E w \in Listers : ListExpiredBegin(w) \/ ListExpiredCheck(w) \/ ListExpiredEnd(w)

\* IOManager::idle calls listExpiredCb after every epoll_wait, and
\* epoll_wait returns within MAX_TIMEOUT (3000 ms): every worker keeps
\* making progress through listExpiredCb.
Fairness ==
    \A w \in Listers : WF_vars(ListExpiredBegin(w) \/ ListExpiredCheck(w)
                                \/ ListExpiredEnd(w))

Spec == Init /\ [][Next]_vars /\ Fairness

-----------------------------------------------------------------------------
(* Properties *)

\* listExpiredCb, split at its locks and with its two clock readings,
\* implements an atomic drain: each call takes every timer due at its
\* first reading now_ms and none not due at its second, and re-arms the
\* recurring ones at now_ms + interval (TimerQueue).
QueueSpec == Q!QSpec

\* A timer that is due is eventually taken out by listExpiredCb, or moved
\* (refresh, reset, cancel): no due timer stays behind lower_bound forever.
DueTimersDrain ==
    \A t \in Timers, d \in 0 .. MaxTime :
        (t \in timers /\ next[t] = d /\ d <= clock)
            ~> ~(t \in timers /\ next[t] = d)

\* Once cancel(t) has returned true, listExpiredCb never hands out a
\* callback of t again.
NoDrainAfterCancel ==
    [][\A t \in cancelled : queued'[t] <= queued[t]]_vars

\* spec.md 7: two timers with identical deadlines appear in the same
\* listExpiredCb batch.
SameDeadlineSameBatch ==
    [][\A t, u \in timers :
          (next[t] = next[u] /\ queued'[t] > queued[t]) => queued'[u] > queued[u]]_vars
=============================================================================

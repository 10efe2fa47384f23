----------------------------- MODULE TimerQueue -----------------------------
(***************************************************************************)
(* What the TimerManager promises its callers (src/server/timer.h): an     *)
(* ordered collection of armed timers, each with a deadline, an interval   *)
(* and a recurring flag.  addTimer arms, cancel disarms, refresh and reset *)
(* move a deadline, and one atomic Drain hands out the callbacks of the    *)
(* timers that are due and re-arms the recurring ones.                     *)
(*                                                                         *)
(* Drain(lo, hi) is the contract of listExpiredCb: every timer due at the  *)
(* reading lo of the clock is drained, none that is not due by the later   *)
(* reading hi is, and recurring timers are re-armed one interval after lo. *)
(* Timer.tla, which splits listExpiredCb at its locks and clock reads, is  *)
(* checked to implement this module.                                       *)
(***************************************************************************)
EXTENDS Naturals

CONSTANTS
    Timers,         \* the Timer objects the program creates
    Intervals,      \* the intervals addTimer and reset are called with
    MaxTime         \* the last millisecond the clock reaches

VARIABLES
    clock,          \* GetCurrentMS()
    created,        \* timers returned by addTimer
    timers,         \* the armed timers (the members of m_timers)
    next,           \* next[t]: the deadline of t (m_next)
    interval,       \* interval[t]: m_interval
    recurring,      \* recurring[t]: m_recurring
    cancelled,      \* timers whose cancel() returned true
    queued          \* queued[t]: callbacks of t handed out and not yet run

qvars == <<clock, created, timers, next, interval, recurring, cancelled, queued>>

MaxTimerInterval == CHOOSE i \in Intervals : \A j \in Intervals : j <= i

Deadline == 0 .. MaxTime + MaxTimerInterval

QInit ==
    /\ clock = 0
    /\ created = {}
    /\ timers = {}
    /\ next = [t \in Timers |-> 0]
    /\ interval = [t \in Timers |-> 0]
    /\ recurring = [t \in Timers |-> FALSE]
    /\ cancelled = {}
    /\ queued = [t \in Timers |-> 0]

QTick ==
    /\ clock < MaxTime
    /\ clock' = clock + 1
    /\ UNCHANGED <<created, timers, next, interval, recurring, cancelled, queued>>

QAdd(t, iv, rec) ==
    /\ t \notin created
    /\ created' = created \cup {t}
    /\ timers' = timers \cup {t}
    /\ next' = [next EXCEPT ![t] = clock + iv]
    /\ interval' = [interval EXCEPT ![t] = iv]
    /\ recurring' = [recurring EXCEPT ![t] = rec]
    /\ UNCHANGED <<clock, cancelled, queued>>

QCancel(t) ==
    /\ t \in timers
    /\ timers' = timers \ {t}
    /\ cancelled' = cancelled \cup {t}
    /\ UNCHANGED <<clock, created, next, interval, recurring, queued>>

\* refresh() and reset() move the deadline of an armed timer.
QMove(t) ==
    /\ t \in timers
    /\ \E iv \in Intervals, start \in 0 .. clock :
          /\ next' = [next EXCEPT ![t] = start + iv]
          /\ interval' = [interval EXCEPT ![t] = iv]
    /\ UNCHANGED <<clock, created, timers, recurring, cancelled, queued>>

QDrain(lo, hi) ==
    /\ lo <= hi
    /\ hi <= clock
    /\ \E D \in SUBSET timers :
          /\ {t \in timers : next[t] <= lo} \subseteq D
          /\ \A t \in D : next[t] <= hi
          /\ timers' = timers \ {t \in D : ~recurring[t]}
          /\ next' = [t \in Timers |->
                        IF t \in D /\ recurring[t] THEN lo + interval[t]
                                                   ELSE next[t]]
          /\ queued' = [t \in Timers |-> IF t \in D THEN queued[t] + 1
                                                    ELSE queued[t]]
    /\ UNCHANGED <<clock, created, interval, recurring, cancelled>>

QRun(t) ==
    /\ queued[t] > 0
    /\ queued' = [queued EXCEPT ![t] = @ - 1]
    /\ UNCHANGED <<clock, created, timers, next, interval, recurring, cancelled>>

QNext ==
    \/ QTick
    \/ \E t \in Timers, iv \in Intervals, rec \in BOOLEAN : QAdd(t, iv, rec)
    \/ \E t \in Timers : QCancel(t) \/ QMove(t) \/ QRun(t)
    \/ \E lo, hi \in 0 .. MaxTime : QDrain(lo, hi)

QSpec == QInit /\ [][QNext]_qvars
=============================================================================

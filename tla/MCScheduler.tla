---------------------------- MODULE MCScheduler ----------------------------
(* Instantiation of Scheduler for TLC.  The worker and task ids are model *)
(* values given in the .cfg files; Affinity is defined per run here.     *)
EXTENDS Scheduler

CONSTANTS w1, w2, f1, f2, f3

(* every task may run on any worker *)
NoAffinity == [f \in Fibers |-> AnyThread]

(* f3 was scheduled with scheduler(cb, w2): pinned to the second worker   *)
PinnedToW2 == [f \in Fibers |-> IF f = f3 THEN w2 ELSE AnyThread]

(* single worker: f3 pinned to it, the others free *)
PinnedToW1 == [f \in Fibers |-> IF f = f3 THEN w1 ELSE AnyThread]
(* every task was scheduled before start() *)
NoParents == [f \in Fibers |-> NoTask]

(* f2 is scheduled by f1's closure, as test_scheduler.cpp's test()       *)
(* schedules the next test() from inside the callback                    *)
F1SpawnsF2 == [f \in Fibers |-> IF f = f2 THEN f1 ELSE NoTask]
=============================================================================

------------------------------ MODULE MCIOWake ------------------------------
(* Instantiation of IOWake for TLC: worker, task and timer ids are model   *)
(* values given in MCIOWake.cfg.                                            *)
EXTENDS IOWake

CONSTANTS w1, w2, a, b, c, t1
=============================================================================

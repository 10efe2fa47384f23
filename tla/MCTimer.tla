------------------------------- MODULE MCTimer -------------------------------
EXTENDS Timer

CONSTANTS ta, tb, w1

\* Timer objects at increasing addresses.
AddrTwo == [t \in {ta, tb} |-> IF t = ta THEN 1 ELSE 2]
=============================================================================

---------------------------- MODULE MCIOManager ----------------------------
(* Instances of IOManager for TLC: two sockets, two fibers, two idle threads. *)
EXTENDS IOManager

CONSTANTS fd1, fd2, f1, f2, t1, t2

\* f1 reads fd1 while f2 writes fd2: no fd has two waiters.
RolesApart == (f1 :> [fd |-> fd1, dir |-> "READ"]) @@ (f2 :> [fd |-> fd2, dir |-> "WRITE"])

\* f1 reads and f2 writes the same socket (test_iomanager.cpp's pattern).
RolesShared == (f1 :> [fd |-> fd1, dir |-> "READ"]) @@ (f2 :> [fd |-> fd1, dir |-> "WRITE"])

\* fd1 is inside the initial table (size 2) and fd2 just past it: f2's
\* first addEvent grows the table to 3, and nothing ever shrinks it.
FdNoOneGrower == [fd \in Fds |-> IF fd = fd1 THEN 1 ELSE 2]

\* Both fds past the initial table: two addEvents may grow it at once, to
\* 4 for fd1 and to 3 for fd2.
FdNoTwoGrowers == [fd \in Fds |-> IF fd = fd1 THEN 3 ELSE 2]

\* A lone fiber waiting for its non-blocking connect to finish (WRITE).
RoleConnect == f1 :> [fd |-> fd1, dir |-> "WRITE"]
=============================================================================

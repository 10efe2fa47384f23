-------------------------------- MODULE MCHook --------------------------------
EXTENDS Hook

CONSTANTS fd1, f1, f2, t1

\* f1 reads fd1 with recv.
RoleRead == [f \in {f1} |-> [fd |-> fd1, dir |-> IoEvent["recv"]]]

\* f1 reads and f2 writes the same socket (in MCHook.cfg f2 connects it first).
RoleShared == [f \in {f1, f2} |->
                  [fd |-> fd1, dir |-> IF f = f1 THEN IoEvent["read"] ELSE IoEvent["send"]]]
=============================================================================

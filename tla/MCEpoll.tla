------------------------------ MODULE MCEpoll ------------------------------
(* Small instances of CmEpoll for TLC.                                     *)
EXTENDS CmEpoll, TLC

\* Events, signals and timeouts together, for the invariants.
AllSetups == {[items |-> Items, signalled |-> Tasks, timed |-> Tasks,
               polling |-> Tasks]}

\* Events without timeouts, or one task with a timeout and no event, for
\* liveness.
LiveSetups == {[items |-> Items, signalled |-> {}, timed |-> {}, polling |-> {}],
               [items |-> {}, signalled |-> {}, timed |-> {CHOOSE t \in Tasks : TRUE},
                polling |-> {}]}

\* Nothing but calls of epoll_wait.
QuietSetups == {[items |-> {}, signalled |-> {}, timed |-> {}, polling |-> {}]}

Symmetry == Permutations(Tasks) \cup Permutations(Items)
=============================================================================

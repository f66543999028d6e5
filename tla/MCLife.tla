------------------------------- MODULE MCLife -------------------------------
(* Small instances of CmLife for TLC.                                      *)
EXTENDS CmLife, TLC

CONSTANTS g1, g2, ep1, ctx1

\* One group, with an epoll and an AIO context; two groups and an epoll.
MCSetups == {[groups |-> {g1}, objects |-> {ep1, ctx1}, retuned |-> {g1}, opening |-> {g1},
              closed |-> {g1}],
             [groups |-> {g1, g2}, objects |-> {ep1}, retuned |-> {}, opening |-> {g1},
              closed |-> {g1}]}

TaskletSetups == {[groups |-> {g1}, objects |-> {ep1}, retuned |-> {g1}, opening |-> {g1},
                   closed |-> {g1}]}

Symmetry == Permutations(Threads)
=============================================================================

------------------------------ MODULE MCGroups ------------------------------
(***************************************************************************)
(* What concerns groups of tasks: thread groups and families, and the CPU  *)
(* bandwidth of a group.  They share no state here: a behaviour is one of  *)
(* one of them, with the other at rest.                                    *)
(***************************************************************************)
EXTENDS CmProcess, CmBandwidth, TLC

VARIABLE part \* which of them

Symmetry == Permutations(BwCpus)

\* Those at rest have one initial state.
Init ==
    /\ part \in {"process", "bandwidth"}
    /\ PInit
    /\ BwInit /\ (part # "bandwidth" => cfs_b.quota = INF)

Next ==
    \/ part = "process" /\ PNext /\ UNCHANGED <<part, bwVars>>
    \/ part = "bandwidth" /\ BwNext /\ UNCHANGED <<part, pVars>>
=============================================================================

----------------------------- MODULE MCPolicies -----------------------------
(***************************************************************************)
(* The mechanisms that decide what a scheduling class may run: which       *)
(* real-time task where, how much of a period, and when.  They share no    *)
(* state here: a behaviour is one of one of them, with the others at rest. *)
(***************************************************************************)
EXTENDS CmRealtime, CmRtRuntime, CmDeadline, TLC

CONSTANTS r1, r2, r3

VARIABLE policy \* which of them

MCFirst == {[t \in RtTasks |-> IF t = r1 THEN 1 ELSE IF t = r2 THEN 2 ELSE i] : i \in {3, 4}}

MCParams == {[runtime |-> 1, deadline |-> 2, period |-> 2],
             [runtime |-> 2, deadline |-> 3, period |-> 3]}

MCMaxClock == <<7, 3>>

Symmetry == Permutations(DlTasks)

\* Those at rest have one initial state.
Init ==
    /\ policy \in {"realtime", "runtime", "deadline"}
    /\ RtInit /\ (policy # "realtime" => sys.task[r3].prio = Fair)
    /\ RrInit
    /\ DlInit /\ (policy # "deadline" => /\ dl.bw = BwUnit
                                         /\ \A t \in DlTasks : dl.task[t].alive /\ ~dl.task[t].dl)

Next ==
    \/ policy = "realtime" /\ RtNext /\ UNCHANGED <<policy, rrVars, dlVars>>
    \/ policy = "runtime" /\ RrNext /\ UNCHANGED <<policy, rtVars, dlVars>>
    \/ policy = "deadline" /\ DlNext /\ UNCHANGED <<policy, rtVars, rrVars>>
=============================================================================

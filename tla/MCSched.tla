------------------------------- MODULE MCSched -------------------------------
(* Small instance of CmSched for TLC.                                      *)
EXTENDS CmSched

MCScripts ==
    { <<"group", "nice">>, <<"group", "group">>, <<"group", "exit", "fork">>, <<"retune">>,
      <<"numa">>, <<"cgroup">>, <<"boost">>, <<"policy", "sysrq">>,
      <<"affinity">>, <<"unplug">>, <<"exec">>, <<"swap">>, <<"balance">> }

Symmetry == Permutations(Tasks) \cup Permutations(Cpus)
=============================================================================

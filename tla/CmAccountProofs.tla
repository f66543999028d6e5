-------------------------- MODULE CmAccountProofs --------------------------
(***************************************************************************)
(* The accounting theorems of CmAccount for any finite set of tasks, any   *)
(* groups and any largest concurrency value.                               *)
(***************************************************************************)
EXTENDS CmAccount, FiniteSetTheorems, TLAPS

\* The runnable members of a group are finitely many, at most all tasks.
LEMMA RunnableInFinite ==
    ASSUME NEW g \in Groups
    PROVE  /\ IsFiniteSet(RunnableIn(g))
           /\ Cardinality(RunnableIn(g)) \in Nat
           /\ Cardinality(RunnableIn(g)) <= Cardinality(Tasks)
           /\ Cardinality(Tasks) \in Nat
  <1>1. RunnableIn(g) \subseteq Tasks
    BY DEF RunnableIn
  <1> QED
    BY <1>1, TasksAssumption, FS_Subset, FS_CardinalityType

\* A task that joins the runnable members of a group raises their number by one.
LEMMA MemberJoins ==
    ASSUME NEW g \in Groups, NEW t, t \notin RunnableIn(g),
           RunnableIn(g)' = RunnableIn(g) \cup {t}
    PROVE  Cardinality(RunnableIn(g))' = Cardinality(RunnableIn(g)) + 1
  BY RunnableInFinite, FS_AddElement

\* A task that leaves them lowers it by one.
LEMMA MemberLeaves ==
    ASSUME NEW g \in Groups, NEW t, t \in RunnableIn(g),
           RunnableIn(g)' = RunnableIn(g) \ {t}
    PROVE  Cardinality(RunnableIn(g))' = Cardinality(RunnableIn(g)) - 1
  BY RunnableInFinite, FS_RemoveElement

\* No group has a runnable member at the start.
LEMMA InitIInv == Init => IInv
  <1> SUFFICES ASSUME Init PROVE IInv
    OBVIOUS
  <1>1. TypeOK /\ RequeueWindow /\ ChargedIffRunnable
    BY MaxConcurrencyAssumption
       DEF Init, TypeOK, RequeueWindow, ChargedIffRunnable
  <1>2. ASSUME NEW g \in Groups
        PROVE  available[g] = concurrency_value[g] - Cardinality(RunnableIn(g))
    <2>1. RunnableIn(g) = {}
      BY NullAssumption DEF Init, RunnableIn
    <2>2. Cardinality(RunnableIn(g)) = 0
      BY <2>1, FS_EmptySet
    <2> QED
      BY <2>2 DEF Init
  <1> QED
    BY <1>1, <1>2 DEF IInv, Accounting

\* Every step but the change of the limit keeps the accounts balanced when
\* available moves, in each group, against the number of runnable members.
LEMMA Balanced ==
    ASSUME IInv, available' \in [Groups -> Int],
           UNCHANGED concurrency_value,
           \A g \in Groups :
               available'[g] - available[g]
                   = Cardinality(RunnableIn(g)) - Cardinality(RunnableIn(g))'
    PROVE  Accounting'
  <1> SUFFICES ASSUME NEW g \in Groups
               PROVE  available'[g] = concurrency_value'[g] - Cardinality(RunnableIn(g))'
    BY DEF Accounting
  <1>1. Cardinality(RunnableIn(g)) \in Nat
    BY RunnableInFinite
  <1>2. Cardinality(RunnableIn(g))' \in Nat
    <2>1. RunnableIn(g)' \subseteq Tasks
      BY DEF RunnableIn
    <2> QED
      BY <2>1, TasksAssumption, FS_Subset, FS_CardinalityType
  <1>3. available[g] = concurrency_value[g] - Cardinality(RunnableIn(g))
    BY DEF IInv, Accounting
  <1>4. available[g] \in Int /\ available'[g] \in Int /\ concurrency_value[g] \in Int
    BY MaxConcurrencyAssumption DEF IInv, TypeOK
  <1>5. concurrency_value'[g] = concurrency_value[g]
    OBVIOUS
  <1>6. available'[g] - available[g]
            = Cardinality(RunnableIn(g)) - Cardinality(RunnableIn(g))'
    OBVIOUS
  <1> QED
    BY <1>1, <1>2, <1>3, <1>4, <1>5, <1>6

\* The scheduler hooks keep the types of the two variables they assign.
LEMMA HookTypes ==
    ASSUME TypeOK, NEW t \in Tasks, NEW b \in BOOLEAN,
           cmgroup_task_enqueued(t, b) \/ cmgroup_task_dequeued(t, b)
    PROVE  /\ charged' \subseteq Tasks
           /\ available' \in [Groups -> Int]
  <1>1. cmgroup[t] # NULL => cmgroup[t] \in Groups
    BY DEF TypeOK
  <1>2. CASE cmgroup_task_enqueued(t, b)
    <2>1. CASE cmgroup[t] # NULL /\ ~b /\ t \notin charged
      <3>1. charged' = charged \cup {t}
        BY <1>2, <2>1 DEF cmgroup_task_enqueued
      <3>2. available' = [available EXCEPT ![cmgroup[t]] = @ - 1]
        BY <1>2, <2>1 DEF cmgroup_task_enqueued
      <3> QED
        BY <1>1, <2>1, <3>1, <3>2 DEF TypeOK
    <2>2. CASE ~(cmgroup[t] # NULL /\ ~b /\ t \notin charged)
      BY <1>2, <2>2 DEF cmgroup_task_enqueued, TypeOK
    <2> QED
      BY <2>1, <2>2
  <1>3. CASE cmgroup_task_dequeued(t, b)
    <2>1. CASE cmgroup[t] # NULL /\ ~b /\ t \in charged
      <3>1. charged' = charged \ {t}
        BY <1>3, <2>1 DEF cmgroup_task_dequeued
      <3>2. available' = [available EXCEPT ![cmgroup[t]] = @ + 1]
        BY <1>3, <2>1 DEF cmgroup_task_dequeued
      <3> QED
        BY <1>1, <2>1, <3>1, <3>2 DEF TypeOK
    <2>2. CASE ~(cmgroup[t] # NULL /\ ~b /\ t \in charged)
      BY <1>3, <2>2 DEF cmgroup_task_dequeued, TypeOK
    <2> QED
      BY <2>1, <2>2
  <1> QED
    BY <1>2, <1>3

\* A group whose runnable members and whose counter a step leaves alone.
LEMMA Untouched ==
    ASSUME TypeOK, NEW g \in Groups,
           RunnableIn(g)' = RunnableIn(g), available'[g] = available[g]
    PROVE  available'[g] - available[g]
               = Cardinality(RunnableIn(g)) - Cardinality(RunnableIn(g))'
  <1>1. Cardinality(RunnableIn(g)) \in Nat
    BY RunnableInFinite
  <1>2. available[g] \in Int
    BY DEF TypeOK
  <1> QED
    BY <1>1, <1>2

\* Going to sleep: the charge is given back as the task stops being runnable.
LEMMA DeactivateInv ==
    ASSUME IInv, NEW t \in Tasks, Deactivate(t)
    PROVE  IInv'
  <1> USE DEF IInv
  <1>1. TypeOK'
    BY HookTypes DEF Deactivate, TypeOK
  <1>2. RequeueWindow'
    BY DEF Deactivate, TypeOK, RequeueWindow
  <1>3. ChargedIffRunnable'
    BY DEF Deactivate, cmgroup_task_dequeued, TypeOK, RequeueWindow,
           ChargedIffRunnable, Runnable
  <1>4. ASSUME NEW g \in Groups
        PROVE  available'[g] - available[g]
                   = Cardinality(RunnableIn(g)) - Cardinality(RunnableIn(g))'
    <2>1. CASE cmgroup[t] = g
      <3>1. t \in charged /\ t \in RunnableIn(g)
        BY <2>1, NullAssumption
           DEF Deactivate, ChargedIffRunnable, RunnableIn, Runnable
      <3>2. RunnableIn(g)' = RunnableIn(g) \ {t}
        BY <2>1 DEF Deactivate, RunnableIn, Runnable, RequeueWindow, TypeOK
      <3>3. available'[g] = available[g] + 1
        BY <2>1, <3>1, NullAssumption DEF Deactivate, cmgroup_task_dequeued, TypeOK
      <3>4. Cardinality(RunnableIn(g))' = Cardinality(RunnableIn(g)) - 1
        BY <3>1, <3>2, MemberLeaves
      <3> QED
        BY <3>3, <3>4, RunnableInFinite DEF TypeOK
    <2>2. CASE cmgroup[t] # g
      <3>1. RunnableIn(g)' = RunnableIn(g)
        BY <2>2 DEF Deactivate, RunnableIn, Runnable, TypeOK
      <3>2. available'[g] = available[g]
        BY <2>2 DEF Deactivate, cmgroup_task_dequeued, TypeOK
      <3> QED
        BY <3>1, <3>2, Untouched
    <2> QED
      BY <2>1, <2>2
  <1> QED
    BY <1>1, <1>2, <1>3, <1>4, Balanced DEF TypeOK, Deactivate

\* Waking up: the task is charged as it becomes runnable.
LEMMA ActivateInv ==
    ASSUME IInv, NEW t \in Tasks, Activate(t)
    PROVE  IInv'
  <1> USE DEF IInv
  <1>1. TypeOK'
    BY HookTypes DEF Activate, TypeOK
  <1>2. RequeueWindow'
    BY DEF Activate, TypeOK, RequeueWindow
  <1>3. ChargedIffRunnable'
    BY DEF Activate, cmgroup_task_enqueued, TypeOK, RequeueWindow,
           ChargedIffRunnable, Runnable
  <1>4. ASSUME NEW g \in Groups
        PROVE  available'[g] - available[g]
                   = Cardinality(RunnableIn(g)) - Cardinality(RunnableIn(g))'
    <2>1. CASE cmgroup[t] = g
      <3>1. t \notin charged /\ t \notin RunnableIn(g)
        BY <2>1, NullAssumption
           DEF Activate, ChargedIffRunnable, RunnableIn, Runnable
      <3>2. RunnableIn(g)' = RunnableIn(g) \cup {t}
        BY <2>1 DEF Activate, RunnableIn, Runnable, TypeOK
      <3>3. available'[g] = available[g] - 1
        BY <2>1, <3>1, NullAssumption DEF Activate, cmgroup_task_enqueued, TypeOK
      <3>4. Cardinality(RunnableIn(g))' = Cardinality(RunnableIn(g)) + 1
        BY <3>1, <3>2, MemberJoins
      <3> QED
        BY <3>3, <3>4, RunnableInFinite DEF TypeOK
    <2>2. CASE cmgroup[t] # g
      <3>1. RunnableIn(g)' = RunnableIn(g)
        BY <2>2 DEF Activate, RunnableIn, Runnable, TypeOK
      <3>2. available'[g] = available[g]
        BY <2>2 DEF Activate, cmgroup_task_enqueued, TypeOK
      <3> QED
        BY <3>1, <3>2, Untouched
    <2> QED
      BY <2>1, <2>2
  <1> QED
    BY <1>1, <1>2, <1>3, <1>4, Balanced DEF TypeOK, Activate

\* A requeue with NOCMGROUP changes neither the charge nor who is runnable.
LEMMA RequeueOutInv ==
    ASSUME IInv, NEW t \in Tasks, RequeueOut(t)
    PROVE  IInv'
  <1> USE DEF IInv
  <1>1. TypeOK'
    BY HookTypes DEF RequeueOut, TypeOK
  <1>2. RequeueWindow'
    BY DEF RequeueOut, TypeOK, RequeueWindow
  <1>3. ChargedIffRunnable'
    BY DEF RequeueOut, cmgroup_task_dequeued, TypeOK, RequeueWindow,
           ChargedIffRunnable, Runnable
  <1>4. ASSUME NEW g \in Groups
        PROVE  available'[g] - available[g]
                   = Cardinality(RunnableIn(g)) - Cardinality(RunnableIn(g))'
    <2>1. RunnableIn(g)' = RunnableIn(g)
      BY DEF RequeueOut, RunnableIn, Runnable, RequeueWindow, TypeOK
    <2>2. available'[g] = available[g]
      BY DEF RequeueOut, cmgroup_task_dequeued
    <2> QED
      BY <2>1, <2>2, Untouched
  <1> QED
    BY <1>1, <1>2, <1>3, <1>4, Balanced DEF TypeOK, RequeueOut

\* The way back, likewise.
LEMMA RequeueInInv ==
    ASSUME IInv, NEW t \in Tasks, RequeueIn(t)
    PROVE  IInv'
  <1> USE DEF IInv
  <1>1. TypeOK'
    BY HookTypes DEF RequeueIn, TypeOK
  <1>2. RequeueWindow'
    BY DEF RequeueIn, TypeOK, RequeueWindow
  <1>3. ChargedIffRunnable'
    BY DEF RequeueIn, cmgroup_task_enqueued, TypeOK, RequeueWindow,
           ChargedIffRunnable, Runnable
  <1>4. ASSUME NEW g \in Groups
        PROVE  available'[g] - available[g]
                   = Cardinality(RunnableIn(g)) - Cardinality(RunnableIn(g))'
    <2>1. RunnableIn(g)' = RunnableIn(g)
      BY DEF RequeueIn, RunnableIn, Runnable, RequeueWindow, TypeOK
    <2>2. available'[g] = available[g]
      BY DEF RequeueIn, cmgroup_task_enqueued
    <2> QED
      BY <2>1, <2>2, Untouched
  <1> QED
    BY <1>1, <1>2, <1>3, <1>4, Balanced DEF TypeOK, RequeueIn

\* cmgroup_dissociate keeps the types of the variables it assigns.
LEMMA GiveUpGroupTypes ==
    ASSUME TypeOK, NEW t \in Tasks, GiveUpGroup(t)
    PROVE  /\ cmgroup' \in [Tasks -> Groups \cup {NULL}]
           /\ charged' \subseteq Tasks
           /\ available' \in [Groups -> Int]
  <1>1. cmgroup' \in [Tasks -> Groups \cup {NULL}]
    BY DEF GiveUpGroup, TypeOK
  <1>2. CASE cmgroup[t] # NULL /\ t \in charged
    <2>1. charged' = charged \ {t}
      BY <1>2 DEF GiveUpGroup
    <2>2. available' = [available EXCEPT ![cmgroup[t]] = @ + 1]
      BY <1>2 DEF GiveUpGroup
    <2>3. cmgroup[t] \in Groups
      BY <1>2 DEF TypeOK
    <2> QED
      BY <1>1, <2>1, <2>2, <2>3 DEF TypeOK
  <1>3. CASE ~(cmgroup[t] # NULL /\ t \in charged)
    BY <1>1, <1>3 DEF GiveUpGroup, TypeOK
  <1> QED
    BY <1>2, <1>3

\* A runnable task that leaves its group gives back the charge it holds.
LEMMA cmgroup_dissociateInv ==
    ASSUME IInv, NEW t \in Tasks, cmgroup_dissociate(t)
    PROVE  IInv'
  <1> USE DEF IInv
  <1>1. TypeOK'
    BY GiveUpGroupTypes DEF cmgroup_dissociate, TypeOK
  <1>2. RequeueWindow'
    BY DEF cmgroup_dissociate, TypeOK, RequeueWindow
  <1>3. ChargedIffRunnable'
    BY DEF cmgroup_dissociate, GiveUpGroup, TypeOK, ChargedIffRunnable, Runnable
  <1>4. ASSUME NEW g \in Groups
        PROVE  available'[g] - available[g]
                   = Cardinality(RunnableIn(g)) - Cardinality(RunnableIn(g))'
    <2>1. CASE cmgroup[t] = g
      <3>1. t \in charged /\ t \in RunnableIn(g)
        BY <2>1, NullAssumption
           DEF cmgroup_dissociate, ChargedIffRunnable, RunnableIn, Runnable
      <3>2. RunnableIn(g)' = RunnableIn(g) \ {t}
        BY <2>1, NullAssumption DEF cmgroup_dissociate, GiveUpGroup, RunnableIn, Runnable, TypeOK
      <3>3. available'[g] = available[g] + 1
        BY <2>1, <3>1, NullAssumption DEF cmgroup_dissociate, GiveUpGroup, TypeOK
      <3>4. Cardinality(RunnableIn(g))' = Cardinality(RunnableIn(g)) - 1
        BY <3>1, <3>2, MemberLeaves
      <3> QED
        BY <3>3, <3>4, RunnableInFinite DEF TypeOK
    <2>2. CASE cmgroup[t] # g
      <3>1. RunnableIn(g)' = RunnableIn(g)
        BY <2>2, NullAssumption DEF cmgroup_dissociate, GiveUpGroup, RunnableIn, Runnable, TypeOK
      <3>2. available'[g] = available[g]
        BY <2>2 DEF cmgroup_dissociate, GiveUpGroup, TypeOK
      <3> QED
        BY <3>1, <3>2, Untouched
    <2> QED
      BY <2>1, <2>2
  <1> QED
    BY <1>1, <1>2, <1>3, <1>4, Balanced DEF TypeOK, cmgroup_dissociate

\* So does a task that exits.
LEMMA ExitInv ==
    ASSUME IInv, NEW t \in Tasks, Exit(t)
    PROVE  IInv'
  <1> USE DEF IInv
  <1>1. TypeOK'
    BY GiveUpGroupTypes DEF Exit, TypeOK
  <1>2. RequeueWindow'
    BY DEF Exit, TypeOK, RequeueWindow
  <1>3. ChargedIffRunnable'
    BY DEF Exit, GiveUpGroup, TypeOK, ChargedIffRunnable, Runnable
  <1>4. ASSUME NEW g \in Groups
        PROVE  available'[g] - available[g]
                   = Cardinality(RunnableIn(g)) - Cardinality(RunnableIn(g))'
    <2>1. CASE cmgroup[t] = g
      <3>1. t \in charged /\ t \in RunnableIn(g)
        BY <2>1, NullAssumption
           DEF Exit, ChargedIffRunnable, RunnableIn, Runnable
      <3>2. RunnableIn(g)' = RunnableIn(g) \ {t}
        BY <2>1, NullAssumption DEF Exit, GiveUpGroup, RunnableIn, Runnable, TypeOK
      <3>3. available'[g] = available[g] + 1
        BY <2>1, <3>1, NullAssumption DEF Exit, GiveUpGroup, TypeOK
      <3>4. Cardinality(RunnableIn(g))' = Cardinality(RunnableIn(g)) - 1
        BY <3>1, <3>2, MemberLeaves
      <3> QED
        BY <3>3, <3>4, RunnableInFinite DEF TypeOK
    <2>2. CASE cmgroup[t] # g
      <3>1. RunnableIn(g)' = RunnableIn(g)
        BY <2>2, NullAssumption DEF Exit, GiveUpGroup, RunnableIn, Runnable, TypeOK
      <3>2. available'[g] = available[g]
        BY <2>2 DEF Exit, GiveUpGroup, TypeOK
      <3> QED
        BY <3>1, <3>2, Untouched
    <2> QED
      BY <2>1, <2>2
  <1> QED
    BY <1>1, <1>2, <1>3, <1>4, Balanced DEF TypeOK, Exit

\* A task that joins a group is charged there, and no longer in its old one.
LEMMA cmgroup_associateInv ==
    ASSUME IInv, NEW t \in Tasks, NEW j \in Groups, cmgroup_associate(t, j)
    PROVE  IInv'
  <1> USE DEF IInv
  <1>1. TypeOK'
    BY DEF cmgroup_associate, TypeOK
  <1>2. RequeueWindow'
    BY DEF cmgroup_associate, TypeOK, RequeueWindow
  <1>3. ChargedIffRunnable'
    BY DEF cmgroup_associate, TypeOK, ChargedIffRunnable, Runnable
  <1>4. ASSUME NEW g \in Groups
        PROVE  available'[g] - available[g]
                   = Cardinality(RunnableIn(g)) - Cardinality(RunnableIn(g))'
    <2>1. CASE g = j
      <3>1. t \notin RunnableIn(g)
        BY <2>1 DEF cmgroup_associate, RunnableIn
      <3>2. RunnableIn(g)' = RunnableIn(g) \cup {t}
        BY <2>1 DEF cmgroup_associate, RunnableIn, Runnable, TypeOK
      <3>3. available'[g] = available[g] - 1
        BY <2>1 DEF cmgroup_associate
      <3>4. Cardinality(RunnableIn(g))' = Cardinality(RunnableIn(g)) + 1
        BY <3>1, <3>2, MemberJoins
      <3> QED
        BY <3>3, <3>4, RunnableInFinite DEF TypeOK
    <2>2. CASE g # j /\ g = cmgroup[t]
      <3>1. t \in charged /\ t \in RunnableIn(g)
        BY <2>2, NullAssumption
           DEF cmgroup_associate, ChargedIffRunnable, RunnableIn
      <3>2. RunnableIn(g)' = RunnableIn(g) \ {t}
        BY <2>2 DEF cmgroup_associate, RunnableIn, Runnable, TypeOK
      <3>3. available'[g] = available[g] + 1
        BY <2>2, <3>1 DEF cmgroup_associate
      <3>4. Cardinality(RunnableIn(g))' = Cardinality(RunnableIn(g)) - 1
        BY <3>1, <3>2, MemberLeaves
      <3> QED
        BY <3>3, <3>4, RunnableInFinite DEF TypeOK
    <2>3. CASE g # j /\ g # cmgroup[t]
      <3>1. RunnableIn(g)' = RunnableIn(g)
        BY <2>3 DEF cmgroup_associate, RunnableIn, Runnable, TypeOK
      <3>2. available'[g] = available[g]
        BY <2>3 DEF cmgroup_associate
      <3> QED
        BY <3>1, <3>2, Untouched
    <2> QED
      BY <2>1, <2>2, <2>3
  <1> QED
    BY <1>1, <1>2, <1>3, <1>4, Balanced DEF TypeOK, cmgroup_associate

\* A forked child is runnable but in no group; the stale charge it inherits
\* is not looked at until it joins one.
LEMMA ForkInv ==
    ASSUME IInv, NEW p \in Tasks, NEW c \in Tasks, Fork(p, c)
    PROVE  IInv'
  <1> USE DEF IInv
  <1>1. TypeOK'
    BY DEF Fork, TypeOK
  <1>2. RequeueWindow'
    BY DEF Fork, TypeOK, RequeueWindow
  <1>3. ChargedIffRunnable'
    BY DEF Fork, TypeOK, ChargedIffRunnable, Runnable
  <1>4. ASSUME NEW g \in Groups
        PROVE  available'[g] - available[g]
                   = Cardinality(RunnableIn(g)) - Cardinality(RunnableIn(g))'
    <2>1. RunnableIn(g)' = RunnableIn(g)
      BY NullAssumption DEF Fork, RunnableIn, Runnable, TypeOK
    <2> QED
      BY <2>1, Untouched DEF Fork
  <1> QED
    BY <1>1, <1>2, <1>3, <1>4, Balanced DEF TypeOK, Fork

\* A new limit moves available by the same amount.
LEMMA cmgroup_set_concurrency_valueInv ==
    ASSUME IInv, NEW j \in Groups, NEW n \in 1..MaxConcurrency,
           cmgroup_set_concurrency_value(j, n)
    PROVE  IInv'
  <1> USE DEF IInv
  <1>0. concurrency_value[j] \in Int /\ n \in Int
    BY MaxConcurrencyAssumption DEF TypeOK
  <1>1. TypeOK'
    BY <1>0 DEF cmgroup_set_concurrency_value, TypeOK
  <1>2. RequeueWindow'
    BY DEF cmgroup_set_concurrency_value, RequeueWindow
  <1>3. ChargedIffRunnable'
    BY DEF cmgroup_set_concurrency_value, ChargedIffRunnable, Runnable
  <1>4. ASSUME NEW g \in Groups
        PROVE  available'[g] = concurrency_value'[g] - Cardinality(RunnableIn(g))'
    <2>1. RunnableIn(g)' = RunnableIn(g)
      BY DEF cmgroup_set_concurrency_value, RunnableIn, Runnable
    <2>2. available[g] = concurrency_value[g] - Cardinality(RunnableIn(g))
      BY DEF Accounting
    <2>3. Cardinality(RunnableIn(g)) \in Nat
      BY RunnableInFinite
    <2>4. available'[g] - available[g] = concurrency_value'[g] - concurrency_value[g]
      BY <1>0, MaxConcurrencyAssumption DEF cmgroup_set_concurrency_value, TypeOK
    <2>5. /\ available[g] \in Int /\ available'[g] \in Int
          /\ concurrency_value[g] \in Int /\ concurrency_value'[g] \in Int
      BY <1>1, MaxConcurrencyAssumption DEF TypeOK
    <2> QED
      BY <2>1, <2>2, <2>3, <2>4, <2>5
  <1> QED
    BY <1>1, <1>2, <1>3, <1>4 DEF Accounting

\* The invariant is inductive: one case per action.
LEMMA StepIInv == IInv /\ [Next]_vars => IInv'
  <1> SUFFICES ASSUME IInv, [Next]_vars PROVE IInv'
    OBVIOUS
  <1>1. ASSUME NEW t \in Tasks, Deactivate(t) PROVE IInv'
    BY <1>1, DeactivateInv
  <1>2. ASSUME NEW t \in Tasks, Activate(t) PROVE IInv'
    BY <1>2, ActivateInv
  <1>3. ASSUME NEW t \in Tasks, RequeueOut(t) PROVE IInv'
    BY <1>3, RequeueOutInv
  <1>4. ASSUME NEW t \in Tasks, RequeueIn(t) PROVE IInv'
    BY <1>4, RequeueInInv
  <1>5. ASSUME NEW t \in Tasks, cmgroup_dissociate(t) PROVE IInv'
    BY <1>5, cmgroup_dissociateInv
  <1>6. ASSUME NEW t \in Tasks, Exit(t) PROVE IInv'
    BY <1>6, ExitInv
  <1>7. ASSUME NEW t \in Tasks, NEW g \in Groups, cmgroup_associate(t, g) PROVE IInv'
    BY <1>7, cmgroup_associateInv
  <1>8. ASSUME NEW p \in Tasks, NEW c \in Tasks, Fork(p, c) PROVE IInv'
    BY <1>8, ForkInv
  <1>9. ASSUME NEW g \in Groups, NEW n \in 1..MaxConcurrency,
               cmgroup_set_concurrency_value(g, n)
        PROVE  IInv'
    BY <1>9, cmgroup_set_concurrency_valueInv
  <1>10. CASE UNCHANGED vars
    BY <1>10 DEF vars, IInv, TypeOK, RequeueWindow, ChargedIffRunnable,
                 Accounting, RunnableIn, Runnable
  <1> QED
    BY <1>1, <1>2, <1>3, <1>4, <1>5, <1>6, <1>7, <1>8, <1>9, <1>10 DEF Next

\* The inductive invariant holds in every behaviour.
THEOREM AccountInvariant == Spec => []IInv
  BY InitIInv, StepIInv, PTL DEF Spec

\* The counter available of every group equals its concurrency value minus
\* the number of its runnable tasks, always, for any number of tasks and
\* groups: what struct cmgroup says of the field.
THEOREM AccountingCorrect == Spec => []Accounting
  <1>1. IInv => Accounting
    BY DEF IInv
  <1> QED
    BY AccountInvariant, <1>1, PTL

\* A member of a group carries a charge exactly while it is runnable: the
\* charge flag that the hooks test never goes stale for a member.
THEOREM ChargedCorrect == Spec => []ChargedIffRunnable
  <1>1. IInv => ChargedIffRunnable
    BY DEF IInv
  <1> QED
    BY AccountInvariant, <1>1, PTL

\* The counter stays between minus the number of tasks and the largest limit.
THEOREM AvailableCannotWrap == Spec => []AvailableBounded
  <1>1. ASSUME IInv PROVE AvailableBounded
    <2> SUFFICES ASSUME NEW g \in Groups
                 PROVE  available[g] \in (1 - Cardinality(Tasks))..MaxConcurrency
      BY DEF AvailableBounded
    <2>1. available[g] = concurrency_value[g] - Cardinality(RunnableIn(g))
      BY <1>1 DEF IInv, Accounting
    <2>2. concurrency_value[g] \in 1..MaxConcurrency
      BY <1>1 DEF IInv, TypeOK
    <2> QED
      BY <2>1, <2>2, RunnableInFinite, MaxConcurrencyAssumption
  <1> QED
    BY AccountInvariant, <1>1, PTL
=============================================================================

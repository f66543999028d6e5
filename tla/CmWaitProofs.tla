---------------------------- MODULE CmWaitProofs ----------------------------
(***************************************************************************)
(* No wakeup is lost in cmgroup_wait, for any number of tasks, any limit   *)
(* and any number of passes of the tasklet.                                *)
(***************************************************************************)
EXTENDS CmWait, TLAPS

\* The queue's entries are pairwise distinct.
Distinct == \A i, j \in 1..Len(wq) : wq[i] = wq[j] => i = j

\* What is left of the queue when one entry is unlinked.
LEMMA UnlinkedSeq ==
    ASSUME wq \in Seq(Tasks), NEW i \in 1..Len(wq), wq' = Unlinked(i)
    PROVE  /\ wq' \in Seq(Tasks)
           /\ Len(wq') = Len(wq) - 1
           /\ \A j \in 1..(Len(wq) - 1) :
                  wq'[j] = IF j < i THEN wq[j] ELSE wq[j + 1]
  <1>1. Len(wq) \in Nat /\ Len(wq) - 1 \in Nat /\ i \in Nat
    OBVIOUS
  <1>2. \A j \in 1..(Len(wq) - 1) : (IF j < i THEN wq[j] ELSE wq[j + 1]) \in Tasks
    BY <1>1
  <1>3. Unlinked(i) \in [1..(Len(wq) - 1) -> Tasks]
    BY <1>2 DEF Unlinked
  <1>4. Unlinked(i) \in Seq(Tasks) /\ Len(Unlinked(i)) = Len(wq) - 1
    BY <1>1, <1>3
  <1> QED
    BY <1>4 DEF Unlinked

\* Unlinking an entry removes its task and nobody else.
LEMMA UnlinkedQueued ==
    ASSUME wq \in Seq(Tasks), Distinct, NEW i \in 1..Len(wq), wq' = Unlinked(i)
    PROVE  /\ Distinct'
           /\ \A t : Queued(t)' <=> (Queued(t) /\ t # wq[i])
  <1>1. Len(wq) \in Nat /\ i \in Nat
    OBVIOUS
  <1>2. /\ wq' \in Seq(Tasks)
        /\ Len(wq') = Len(wq) - 1
        /\ \A j \in 1..(Len(wq) - 1) :
               wq'[j] = IF j < i THEN wq[j] ELSE wq[j + 1]
    BY UnlinkedSeq
  <1>3. Distinct'
    BY <1>1, <1>2 DEF Distinct
  <1>4. ASSUME NEW t, Queued(t)' PROVE Queued(t) /\ t # wq[i]
    <2>1. PICK j \in 1..Len(wq') : wq'[j] = t
      BY <1>4 DEF Queued
    <2>2. PICK k \in 1..Len(wq) : k # i /\ wq[k] = t
      BY <1>1, <1>2, <2>1
    <2> QED
      BY <2>2 DEF Queued, Distinct
  <1>5. ASSUME NEW t, Queued(t), t # wq[i] PROVE Queued(t)'
    <2>1. PICK k \in 1..Len(wq) : wq[k] = t
      BY <1>5 DEF Queued
    <2>2. k # i
      BY <1>5, <2>1
    <2>3. CASE k < i
      <3>1. k \in 1..Len(wq') /\ wq'[k] = t
        BY <1>1, <1>2, <2>1, <2>3
      <3> QED
        BY <3>1 DEF Queued
    <2>4. CASE k > i
      <3>1. k - 1 \in 1..Len(wq') /\ wq'[k - 1] = t
        BY <1>1, <1>2, <2>1, <2>4
      <3> QED
        BY <3>1 DEF Queued
    <2> QED
      BY <1>1, <2>1, <2>2, <2>3, <2>4
  <1> QED
    BY <1>3, <1>4, <1>5

\* Queueing at the tail adds one task that was not there.
LEMMA AppendQueued ==
    ASSUME wq \in Seq(Tasks), Distinct, NEW u \in Tasks, ~Queued(u),
           wq' = Append(wq, u)
    PROVE  /\ wq' \in Seq(Tasks)
           /\ Distinct'
           /\ \A t : Queued(t)' <=> (Queued(t) \/ t = u)
  <1>1. /\ Len(wq) \in Nat
        /\ wq' \in Seq(Tasks)
        /\ Len(wq') = Len(wq) + 1
        /\ wq'[Len(wq) + 1] = u
        /\ \A j \in 1..Len(wq) : wq'[j] = wq[j]
    OBVIOUS
  <1>2. Distinct'
    BY <1>1 DEF Distinct, Queued
  <1>3. ASSUME NEW t PROVE Queued(t)' <=> (Queued(t) \/ t = u)
    BY <1>1 DEF Queued
  <1> QED
    BY <1>1, <1>2, <1>3

\* Every step of the specification, action by action: first the types.
LEMMA StepTypeOK ==
    TypeOK /\ [Next]_vars
        => TypeOK'
  <1> SUFFICES ASSUME TypeOK, [Next]_vars
               PROVE  TypeOK'
    OBVIOUS
  <1> USE DEF groupVars, taskletVars, schedVars, coreVars, waitVars, TypeOK,
         CoreTypeOK, TaskletPcs, TaskletOwned, TaskletLocked, Actions, TaskStates,
         WaitPcs
  <1>1. ASSUME TaskletStart, UNCHANGED waitVars
        PROVE  TypeOK'
    <2>1. 0 \in 0..MaxPasses
      BY MaxPassesAssumption
    <2>2. scheduled' \in BOOLEAN /\ pass' = 0 /\ tpc' = "again"
      BY <1>1 DEF TaskletStart
    <2> QED
      BY <1>1, <2>1, <2>2 DEF TaskletStart
  <1>2. ASSUME TaskletLock, UNCHANGED waitVars
        PROVE  TypeOK'
    BY <1>2 DEF TaskletLock
  <1>3. ASSUME TaskletTestWakeall, UNCHANGED waitVars
        PROVE  TypeOK'
    BY <1>3, MaxConcurrencyAssumption, MaxPassesAssumption DEF TaskletTestWakeall
  <1>4. ASSUME TaskletHandOver, UNCHANGED waitVars
        PROVE  TypeOK'
    BY <1>4 DEF TaskletHandOver
  <1>5. ASSUME TaskletWake, UNCHANGED waitVars
        PROVE  TypeOK'
    BY <1>5, UnlinkedSeq DEF TaskletWake, Woken
  <1>6. ASSUME TaskletClear, UNCHANGED waitVars
        PROVE  TypeOK'
    BY <1>6 DEF TaskletClear
  <1>7. ASSUME TaskletRecheck, UNCHANGED waitVars
        PROVE  TypeOK'
    BY <1>7 DEF TaskletRecheck
  <1>8. ASSUME TaskletReread, UNCHANGED waitVars
        PROVE  TypeOK'
    BY <1>8 DEF TaskletReread
  <1>9. ASSUME TaskletReassert, UNCHANGED waitVars
        PROVE  TypeOK'
    BY <1>9 DEF TaskletReassert
  <1>10. ASSUME NEW t \in Tasks, Activate(t), UNCHANGED waitVars
        PROVE  TypeOK'
    BY <1>10 DEF Activate
  <1>11. ASSUME NEW t \in Tasks, fire_tasklet(t), UNCHANGED waitVars
        PROVE  TypeOK'
    BY <1>11 DEF fire_tasklet
  <1>12. ASSUME NEW t \in Tasks, WaitLoop(t)
        PROVE  TypeOK'
    BY <1>12 DEF WaitLoop, Return, Goto
  <1>13. ASSUME NEW t \in Tasks, WaitNoTime(t)
        PROVE  TypeOK'
    BY <1>13 DEF WaitNoTime, Return, Goto
  <1>14. ASSUME NEW t \in Tasks, WaitEnqueue(t)
        PROVE  TypeOK'
    <2>1. CASE available >= 0
      BY <1>14, <2>1 DEF WaitEnqueue, Return, Goto
    <2>2. CASE ~(available >= 0)
      <3>1. wq' = Append(wq, t)
        BY <1>14, <2>2 DEF WaitEnqueue
      <3>2. wq' \in Seq(Tasks)
        BY <3>1 DEF TypeOK, CoreTypeOK
      <3> QED
        BY <1>14, <2>2, <3>2 DEF WaitEnqueue, Return, Goto
    <2> QED
      BY <2>1, <2>2
  <1>15. ASSUME NEW t \in Tasks, WaitSignalCheck(t)
        PROVE  TypeOK'
    BY <1>15 DEF WaitSignalCheck, Goto
  <1>16. ASSUME NEW t \in Tasks, WaitSchedule(t)
        PROVE  TypeOK'
    BY <1>16 DEF WaitSchedule, Goto, Dequeue, OneLessRunnable
  <1>17. ASSUME NEW t \in Tasks, WaitFinish(t)
        PROVE  TypeOK'
    BY <1>17, UnlinkedSeq DEF WaitFinish, Return, Goto
  <1>18. ASSUME NEW t \in Tasks, cmgroup_associate(t)
        PROVE  TypeOK'
    BY <1>18 DEF cmgroup_associate, Associate
  <1>19. ASSUME NEW t \in Tasks, cmgroup_dissociate(t)
        PROVE  TypeOK'
    BY <1>19 DEF cmgroup_dissociate, Dissociate, OneLessRunnable
  <1>20. ASSUME NEW t \in Tasks, NEW n \in 1..MaxConcurrency,
              cmgroup_set_concurrency_value(t, n)
        PROVE  TypeOK'
    <2>1. concurrency_value \in Int /\ n \in Int /\ available \in Int
      BY MaxConcurrencyAssumption DEF TypeOK, CoreTypeOK
    <2>2. available' \in Int /\ concurrency_value' \in 1..MaxConcurrency
      BY <1>20, <2>1 DEF cmgroup_set_concurrency_value, SetConcurrencyValue
    <2>3. firing' \subseteq Tasks /\ lock' \in Tasks \cup {"free", "tasklet"}
      BY <1>20 DEF cmgroup_set_concurrency_value, SetConcurrencyValue, TypeOK, CoreTypeOK
    <2> QED
      BY <1>20, <2>2, <2>3 DEF cmgroup_set_concurrency_value
  <1>21. ASSUME NEW t \in Tasks, Block(t)
        PROVE  TypeOK'
    BY <1>21 DEF Block, Dequeue, OneLessRunnable
  <1>22. ASSUME NEW t \in Tasks, NEW r \in {"infinite", "left", "spent"},
              cmgroup_wait(t, r)
        PROVE  TypeOK'
    BY <1>22 DEF cmgroup_wait, Goto
  <1>23. ASSUME NEW t \in Tasks, Unblock(t)
        PROVE  TypeOK'
    BY <1>23 DEF Unblock, try_to_wake_up, Woken
  <1>24. ASSUME NEW t \in Tasks, Signal(t)
        PROVE  TypeOK'
    BY <1>24 DEF Signal, try_to_wake_up, Woken
  <1>25. ASSUME NEW t \in Tasks, Expire(t)
        PROVE  TypeOK'
    BY <1>25 DEF Expire, try_to_wake_up, Woken
  <1>26. CASE UNCHANGED vars
    BY <1>26 DEF vars
  <1> QED
    BY <1>1, <1>2, <1>3, <1>4, <1>5, <1>6, <1>7, <1>8, <1>9, <1>10, <1>11, <1>12,
           <1>13, <1>14, <1>15, <1>16, <1>17, <1>18, <1>19, <1>20, <1>21, <1>22,
           <1>23, <1>24, <1>25, <1>26
       DEF Next, TaskletStep, SchedStep, WaitStep, UserStep

\* Then the tasklet's control state: who holds the lock and tasklet_active.
LEMMA StepTasklet ==
    TypeOK /\ AioTasklet /\ TaskletOwnership /\ LockHeld /\ [Next]_vars
        => (AioTasklet /\ TaskletOwnership /\ LockHeld)'
  <1> SUFFICES ASSUME TypeOK /\ AioTasklet /\ TaskletOwnership /\ LockHeld, [Next]_vars
               PROVE  (AioTasklet /\ TaskletOwnership /\ LockHeld)'
    OBVIOUS
  <1> USE DEF groupVars, taskletVars, schedVars, coreVars, waitVars, AioTasklet,
         TaskletOwnership, LockHeld, TaskletOwned, TaskletLocked, TypeOK,
         CoreTypeOK, TaskletPcs
  <1>1. ASSUME TaskletStart, UNCHANGED waitVars
        PROVE  (AioTasklet /\ TaskletOwnership /\ LockHeld)'
    BY <1>1 DEF TaskletStart
  <1>2. ASSUME TaskletLock, UNCHANGED waitVars
        PROVE  (AioTasklet /\ TaskletOwnership /\ LockHeld)'
    BY <1>2 DEF TaskletLock
  <1>3. ASSUME TaskletTestWakeall, UNCHANGED waitVars
        PROVE  (AioTasklet /\ TaskletOwnership /\ LockHeld)'
    BY <1>3 DEF TaskletTestWakeall
  <1>4. ASSUME TaskletHandOver, UNCHANGED waitVars
        PROVE  (AioTasklet /\ TaskletOwnership /\ LockHeld)'
    BY <1>4 DEF TaskletHandOver
  <1>5. ASSUME TaskletWake, UNCHANGED waitVars
        PROVE  (AioTasklet /\ TaskletOwnership /\ LockHeld)'
    BY <1>5 DEF TaskletWake, Woken
  <1>6. ASSUME TaskletClear, UNCHANGED waitVars
        PROVE  (AioTasklet /\ TaskletOwnership /\ LockHeld)'
    BY <1>6 DEF TaskletClear
  <1>7. ASSUME TaskletRecheck, UNCHANGED waitVars
        PROVE  (AioTasklet /\ TaskletOwnership /\ LockHeld)'
    BY <1>7 DEF TaskletRecheck
  <1>8. ASSUME TaskletReread, UNCHANGED waitVars
        PROVE  (AioTasklet /\ TaskletOwnership /\ LockHeld)'
    BY <1>8 DEF TaskletReread
  <1>9. ASSUME TaskletReassert, UNCHANGED waitVars
        PROVE  (AioTasklet /\ TaskletOwnership /\ LockHeld)'
    BY <1>9 DEF TaskletReassert
  <1>10. ASSUME NEW t \in Tasks, Activate(t), UNCHANGED waitVars
        PROVE  (AioTasklet /\ TaskletOwnership /\ LockHeld)'
    BY <1>10 DEF Activate
  <1>11. ASSUME NEW t \in Tasks, fire_tasklet(t), UNCHANGED waitVars
        PROVE  (AioTasklet /\ TaskletOwnership /\ LockHeld)'
    BY <1>11, HolderAssumption DEF fire_tasklet
  <1>12. ASSUME NEW t \in Tasks, WaitLoop(t)
        PROVE  (AioTasklet /\ TaskletOwnership /\ LockHeld)'
    BY <1>12 DEF WaitLoop, Return, Goto
  <1>13. ASSUME NEW t \in Tasks, WaitNoTime(t)
        PROVE  (AioTasklet /\ TaskletOwnership /\ LockHeld)'
    BY <1>13 DEF WaitNoTime, Return, Goto
  <1>14. ASSUME NEW t \in Tasks, WaitEnqueue(t)
        PROVE  (AioTasklet /\ TaskletOwnership /\ LockHeld)'
    BY <1>14 DEF WaitEnqueue, Return, Goto
  <1>15. ASSUME NEW t \in Tasks, WaitSignalCheck(t)
        PROVE  (AioTasklet /\ TaskletOwnership /\ LockHeld)'
    BY <1>15 DEF WaitSignalCheck, Goto
  <1>16. ASSUME NEW t \in Tasks, WaitSchedule(t)
        PROVE  (AioTasklet /\ TaskletOwnership /\ LockHeld)'
    BY <1>16 DEF WaitSchedule, Goto, Dequeue, OneLessRunnable
  <1>17. ASSUME NEW t \in Tasks, WaitFinish(t)
        PROVE  (AioTasklet /\ TaskletOwnership /\ LockHeld)'
    BY <1>17 DEF WaitFinish, Return, Goto
  <1>18. ASSUME NEW t \in Tasks, cmgroup_associate(t)
        PROVE  (AioTasklet /\ TaskletOwnership /\ LockHeld)'
    BY <1>18 DEF cmgroup_associate, Associate
  <1>19. ASSUME NEW t \in Tasks, cmgroup_dissociate(t)
        PROVE  (AioTasklet /\ TaskletOwnership /\ LockHeld)'
    BY <1>19 DEF cmgroup_dissociate, Dissociate, OneLessRunnable
  <1>20. ASSUME NEW t \in Tasks, NEW n \in 1..MaxConcurrency,
              cmgroup_set_concurrency_value(t, n)
        PROVE  (AioTasklet /\ TaskletOwnership /\ LockHeld)'
    BY <1>20, HolderAssumption DEF cmgroup_set_concurrency_value,
           SetConcurrencyValue
  <1>21. ASSUME NEW t \in Tasks, Block(t)
        PROVE  (AioTasklet /\ TaskletOwnership /\ LockHeld)'
    BY <1>21 DEF Block, Dequeue, OneLessRunnable
  <1>22. ASSUME NEW t \in Tasks, NEW r \in {"infinite", "left", "spent"},
              cmgroup_wait(t, r)
        PROVE  (AioTasklet /\ TaskletOwnership /\ LockHeld)'
    BY <1>22 DEF cmgroup_wait, Goto
  <1>23. ASSUME NEW t \in Tasks, Unblock(t)
        PROVE  (AioTasklet /\ TaskletOwnership /\ LockHeld)'
    BY <1>23 DEF Unblock, try_to_wake_up, Woken
  <1>24. ASSUME NEW t \in Tasks, Signal(t)
        PROVE  (AioTasklet /\ TaskletOwnership /\ LockHeld)'
    BY <1>24 DEF Signal, try_to_wake_up, Woken
  <1>25. ASSUME NEW t \in Tasks, Expire(t)
        PROVE  (AioTasklet /\ TaskletOwnership /\ LockHeld)'
    BY <1>25 DEF Expire, try_to_wake_up, Woken
  <1>26. CASE UNCHANGED vars
    BY <1>26 DEF vars
  <1> QED
    BY <1>1, <1>2, <1>3, <1>4, <1>5, <1>6, <1>7, <1>8, <1>9, <1>10, <1>11, <1>12,
           <1>13, <1>14, <1>15, <1>16, <1>17, <1>18, <1>19, <1>20, <1>21, <1>22,
           <1>23, <1>24, <1>25, <1>26
       DEF Next, TaskletStep, SchedStep, WaitStep, UserStep

\* Then the queue: its entries are distinct and live, and hold every sleeper.
LEMMA StepQueue ==
    TypeOK /\ NoDanglingEntry /\ SleeperQueued /\ [Next]_vars
        => (NoDanglingEntry /\ SleeperQueued)'
  <1> SUFFICES ASSUME TypeOK /\ NoDanglingEntry /\ SleeperQueued, [Next]_vars
               PROVE  (NoDanglingEntry /\ SleeperQueued)'
    OBVIOUS
  <1> USE DEF groupVars, taskletVars, schedVars, coreVars, waitVars,
         NoDanglingEntry, SleeperQueued, Queued, InUser, TypeOK, CoreTypeOK
  <1>1. ASSUME TaskletStart, UNCHANGED waitVars
        PROVE  (NoDanglingEntry /\ SleeperQueued)'
    BY <1>1 DEF TaskletStart
  <1>2. ASSUME TaskletLock, UNCHANGED waitVars
        PROVE  (NoDanglingEntry /\ SleeperQueued)'
    BY <1>2 DEF TaskletLock
  <1>3. ASSUME TaskletTestWakeall, UNCHANGED waitVars
        PROVE  (NoDanglingEntry /\ SleeperQueued)'
    BY <1>3 DEF TaskletTestWakeall
  <1>4. ASSUME TaskletHandOver, UNCHANGED waitVars
        PROVE  (NoDanglingEntry /\ SleeperQueued)'
    BY <1>4 DEF TaskletHandOver
  <1>5. ASSUME TaskletWake, UNCHANGED waitVars
        PROVE  (NoDanglingEntry /\ SleeperQueued)'
    <2>1. wq \in Seq(Tasks) /\ Distinct
      BY DEF TypeOK, CoreTypeOK, NoDanglingEntry, Distinct
    <2>2. CASE \E i \in 1..Len(wq) :
              FirstWakeable(i) /\ state' = Woken(wq[i]) /\ wq' = Unlinked(i)
      <3>1. PICK i \in 1..Len(wq) : state' = Woken(wq[i]) /\ wq' = Unlinked(i)
        BY <2>2
      <3>2. Distinct' /\ \A u : Queued(u)' <=> (Queued(u) /\ u # wq[i])
        BY <2>1, <3>1, UnlinkedQueued
      <3>3. NoDanglingEntry'
        BY <1>5, <3>2 DEF waitVars, NoDanglingEntry, Distinct
      <3>4. wq[i] \in Tasks /\ state'[wq[i]] # "INTERRUPTIBLE"
            /\ \A u \in Tasks : u # wq[i] => state'[u] = state[u]
        BY <2>1, <3>1 DEF Woken, TypeOK, CoreTypeOK
      <3>5. SleeperQueued'
        BY <1>5, <3>2, <3>4 DEF waitVars, SleeperQueued
      <3> QED
        BY <3>3, <3>5
    <2>3. CASE UNCHANGED <<state, wq>>
      BY <1>5, <2>3 DEF waitVars, NoDanglingEntry, SleeperQueued, Queued
    <2> QED
      BY <1>5, <2>2, <2>3 DEF TaskletWake
  <1>6. ASSUME TaskletClear, UNCHANGED waitVars
        PROVE  (NoDanglingEntry /\ SleeperQueued)'
    BY <1>6 DEF TaskletClear
  <1>7. ASSUME TaskletRecheck, UNCHANGED waitVars
        PROVE  (NoDanglingEntry /\ SleeperQueued)'
    BY <1>7 DEF TaskletRecheck
  <1>8. ASSUME TaskletReread, UNCHANGED waitVars
        PROVE  (NoDanglingEntry /\ SleeperQueued)'
    BY <1>8 DEF TaskletReread
  <1>9. ASSUME TaskletReassert, UNCHANGED waitVars
        PROVE  (NoDanglingEntry /\ SleeperQueued)'
    BY <1>9 DEF TaskletReassert
  <1>10. ASSUME NEW t \in Tasks, Activate(t), UNCHANGED waitVars
        PROVE  (NoDanglingEntry /\ SleeperQueued)'
    BY <1>10 DEF Activate
  <1>11. ASSUME NEW t \in Tasks, fire_tasklet(t), UNCHANGED waitVars
        PROVE  (NoDanglingEntry /\ SleeperQueued)'
    BY <1>11 DEF fire_tasklet
  <1>12. ASSUME NEW t \in Tasks, WaitLoop(t)
        PROVE  (NoDanglingEntry /\ SleeperQueued)'
    BY <1>12 DEF WaitLoop, Return, Goto
  <1>13. ASSUME NEW t \in Tasks, WaitNoTime(t)
        PROVE  (NoDanglingEntry /\ SleeperQueued)'
    BY <1>13 DEF WaitNoTime, Return, Goto
  <1>14. ASSUME NEW t \in Tasks, WaitEnqueue(t)
        PROVE  (NoDanglingEntry /\ SleeperQueued)'
    <2>1. wq \in Seq(Tasks) /\ Distinct /\ ~Queued(t)
      BY <1>14 DEF WaitEnqueue, TypeOK, CoreTypeOK, NoDanglingEntry, Distinct
    <2>2. CASE available >= 0
      <3>1. UNCHANGED <<wq, state>> /\ pc' = [pc EXCEPT ![t] = "user"]
        BY <1>14, <2>2 DEF WaitEnqueue, Return, Goto
      <3> QED
        BY <2>1, <3>1 DEF NoDanglingEntry, SleeperQueued, Queued, TypeOK, WaitPcs
    <2>3. CASE ~(available >= 0)
      <3>1. /\ wq' = Append(wq, t)
            /\ state' = [state EXCEPT ![t] = "INTERRUPTIBLE"]
            /\ pc' = [pc EXCEPT ![t] = "queued"]
        BY <1>14, <2>3 DEF WaitEnqueue, Goto
      <3>2. Distinct' /\ \A u : Queued(u)' <=> (Queued(u) \/ u = t)
        BY <2>1, <3>1, AppendQueued
      <3>3. NoDanglingEntry'
        BY <3>1, <3>2 DEF NoDanglingEntry, Distinct, TypeOK
      <3>4. SleeperQueued'
        BY <3>1, <3>2 DEF SleeperQueued, TypeOK, CoreTypeOK
      <3> QED
        BY <3>3, <3>4
    <2> QED
      BY <2>2, <2>3
  <1>15. ASSUME NEW t \in Tasks, WaitSignalCheck(t)
        PROVE  (NoDanglingEntry /\ SleeperQueued)'
    BY <1>15 DEF WaitSignalCheck, Goto
  <1>16. ASSUME NEW t \in Tasks, WaitSchedule(t)
        PROVE  (NoDanglingEntry /\ SleeperQueued)'
    BY <1>16 DEF WaitSchedule, Goto, Dequeue, OneLessRunnable
  <1>17. ASSUME NEW t \in Tasks, WaitFinish(t)
        PROVE  (NoDanglingEntry /\ SleeperQueued)'
    <2>1. wq \in Seq(Tasks) /\ Distinct
      BY DEF TypeOK, CoreTypeOK, NoDanglingEntry, Distinct
    <2>2. PICK l \in {"user", "loop"} : pc' = [pc EXCEPT ![t] = l]
      BY <1>17 DEF WaitFinish, Return, Goto
    <2>3. Distinct' /\ \A u : Queued(u)' <=> (Queued(u) /\ u # t)
      <3>1. CASE ~Queued(t) /\ UNCHANGED wq
        BY <2>1, <3>1 DEF Queued, Distinct
      <3>2. CASE \E i \in 1..Len(wq) : wq[i] = t /\ wq' = Unlinked(i)
        BY <2>1, <3>2, UnlinkedQueued
      <3> QED
        BY <1>17, <3>1, <3>2 DEF WaitFinish
    <2>4. NoDanglingEntry'
      BY <2>2, <2>3 DEF NoDanglingEntry, Distinct, TypeOK
    <2>5. UNCHANGED state
      BY <1>17 DEF WaitFinish, schedVars
    <2>6. SleeperQueued'
      BY <2>2, <2>3, <2>5 DEF SleeperQueued, TypeOK
    <2> QED
      BY <2>4, <2>6
  <1>18. ASSUME NEW t \in Tasks, cmgroup_associate(t)
        PROVE  (NoDanglingEntry /\ SleeperQueued)'
    BY <1>18 DEF cmgroup_associate, Associate
  <1>19. ASSUME NEW t \in Tasks, cmgroup_dissociate(t)
        PROVE  (NoDanglingEntry /\ SleeperQueued)'
    BY <1>19 DEF cmgroup_dissociate, Dissociate, OneLessRunnable
  <1>20. ASSUME NEW t \in Tasks, NEW n \in 1..MaxConcurrency,
              cmgroup_set_concurrency_value(t, n)
        PROVE  (NoDanglingEntry /\ SleeperQueued)'
    BY <1>20 DEF cmgroup_set_concurrency_value, SetConcurrencyValue
  <1>21. ASSUME NEW t \in Tasks, Block(t)
        PROVE  (NoDanglingEntry /\ SleeperQueued)'
    BY <1>21 DEF Block, Dequeue, OneLessRunnable
  <1>22. ASSUME NEW t \in Tasks, NEW r \in {"infinite", "left", "spent"},
              cmgroup_wait(t, r)
        PROVE  (NoDanglingEntry /\ SleeperQueued)'
    BY <1>22 DEF cmgroup_wait, Goto
  <1>23. ASSUME NEW t \in Tasks, Unblock(t)
        PROVE  (NoDanglingEntry /\ SleeperQueued)'
    BY <1>23 DEF Unblock, try_to_wake_up, Woken
  <1>24. ASSUME NEW t \in Tasks, Signal(t)
        PROVE  (NoDanglingEntry /\ SleeperQueued)'
    BY <1>24 DEF Signal, try_to_wake_up, Woken
  <1>25. ASSUME NEW t \in Tasks, Expire(t)
        PROVE  (NoDanglingEntry /\ SleeperQueued)'
    BY <1>25 DEF Expire, try_to_wake_up, Woken
  <1>26. CASE UNCHANGED vars
    BY <1>26 DEF vars
  <1> QED
    BY <1>1, <1>2, <1>3, <1>4, <1>5, <1>6, <1>7, <1>8, <1>9, <1>10, <1>11, <1>12,
           <1>13, <1>14, <1>15, <1>16, <1>17, <1>18, <1>19, <1>20, <1>21, <1>22,
           <1>23, <1>24, <1>25, <1>26
       DEF Next, TaskletStep, SchedStep, WaitStep, UserStep

\* A task that is being woken is not on a run queue yet.
LEMMA StepWaking ==
    TypeOK /\ WakingAsleep /\ [Next]_vars
        => WakingAsleep'
  <1> SUFFICES ASSUME TypeOK /\ WakingAsleep, [Next]_vars
               PROVE  WakingAsleep'
    OBVIOUS
  <1> USE DEF groupVars, taskletVars, schedVars, coreVars, waitVars, WakingAsleep,
         InUser, Running, TypeOK, CoreTypeOK
  <1>1. ASSUME TaskletStart, UNCHANGED waitVars
        PROVE  WakingAsleep'
    BY <1>1 DEF TaskletStart
  <1>2. ASSUME TaskletLock, UNCHANGED waitVars
        PROVE  WakingAsleep'
    BY <1>2 DEF TaskletLock
  <1>3. ASSUME TaskletTestWakeall, UNCHANGED waitVars
        PROVE  WakingAsleep'
    BY <1>3 DEF TaskletTestWakeall
  <1>4. ASSUME TaskletHandOver, UNCHANGED waitVars
        PROVE  WakingAsleep'
    BY <1>4 DEF TaskletHandOver
  <1>5. ASSUME TaskletWake, UNCHANGED waitVars
        PROVE  WakingAsleep'
    BY <1>5 DEF TaskletWake, Woken
  <1>6. ASSUME TaskletClear, UNCHANGED waitVars
        PROVE  WakingAsleep'
    BY <1>6 DEF TaskletClear
  <1>7. ASSUME TaskletRecheck, UNCHANGED waitVars
        PROVE  WakingAsleep'
    BY <1>7 DEF TaskletRecheck
  <1>8. ASSUME TaskletReread, UNCHANGED waitVars
        PROVE  WakingAsleep'
    BY <1>8 DEF TaskletReread
  <1>9. ASSUME TaskletReassert, UNCHANGED waitVars
        PROVE  WakingAsleep'
    BY <1>9 DEF TaskletReassert
  <1>10. ASSUME NEW t \in Tasks, Activate(t), UNCHANGED waitVars
        PROVE  WakingAsleep'
    BY <1>10 DEF Activate
  <1>11. ASSUME NEW t \in Tasks, fire_tasklet(t), UNCHANGED waitVars
        PROVE  WakingAsleep'
    BY <1>11 DEF fire_tasklet
  <1>12. ASSUME NEW t \in Tasks, WaitLoop(t)
        PROVE  WakingAsleep'
    BY <1>12 DEF WaitLoop, Return, Goto
  <1>13. ASSUME NEW t \in Tasks, WaitNoTime(t)
        PROVE  WakingAsleep'
    BY <1>13 DEF WaitNoTime, Return, Goto
  <1>14. ASSUME NEW t \in Tasks, WaitEnqueue(t)
        PROVE  WakingAsleep'
    BY <1>14 DEF WaitEnqueue, Return, Goto
  <1>15. ASSUME NEW t \in Tasks, WaitSignalCheck(t)
        PROVE  WakingAsleep'
    BY <1>15 DEF WaitSignalCheck, Goto
  <1>16. ASSUME NEW t \in Tasks, WaitSchedule(t)
        PROVE  WakingAsleep'
    BY <1>16 DEF WaitSchedule, Goto, Dequeue, OneLessRunnable
  <1>17. ASSUME NEW t \in Tasks, WaitFinish(t)
        PROVE  WakingAsleep'
    BY <1>17 DEF WaitFinish, Return, Goto
  <1>18. ASSUME NEW t \in Tasks, cmgroup_associate(t)
        PROVE  WakingAsleep'
    BY <1>18 DEF cmgroup_associate, Associate
  <1>19. ASSUME NEW t \in Tasks, cmgroup_dissociate(t)
        PROVE  WakingAsleep'
    BY <1>19 DEF cmgroup_dissociate, Dissociate, OneLessRunnable
  <1>20. ASSUME NEW t \in Tasks, NEW n \in 1..MaxConcurrency,
              cmgroup_set_concurrency_value(t, n)
        PROVE  WakingAsleep'
    BY <1>20 DEF cmgroup_set_concurrency_value, SetConcurrencyValue
  <1>21. ASSUME NEW t \in Tasks, Block(t)
        PROVE  WakingAsleep'
    BY <1>21 DEF Block, Dequeue, OneLessRunnable
  <1>22. ASSUME NEW t \in Tasks, NEW r \in {"infinite", "left", "spent"},
              cmgroup_wait(t, r)
        PROVE  WakingAsleep'
    BY <1>22 DEF cmgroup_wait, Goto
  <1>23. ASSUME NEW t \in Tasks, Unblock(t)
        PROVE  WakingAsleep'
    BY <1>23 DEF Unblock, try_to_wake_up, Woken
  <1>24. ASSUME NEW t \in Tasks, Signal(t)
        PROVE  WakingAsleep'
    BY <1>24 DEF Signal, try_to_wake_up, Woken
  <1>25. ASSUME NEW t \in Tasks, Expire(t)
        PROVE  WakingAsleep'
    BY <1>25 DEF Expire, try_to_wake_up, Woken
  <1>26. CASE UNCHANGED vars
    BY <1>26 DEF vars
  <1> QED
    BY <1>1, <1>2, <1>3, <1>4, <1>5, <1>6, <1>7, <1>8, <1>9, <1>10, <1>11, <1>12,
           <1>13, <1>14, <1>15, <1>16, <1>17, <1>18, <1>19, <1>20, <1>21, <1>22,
           <1>23, <1>24, <1>25, <1>26
       DEF Next, TaskletStep, SchedStep, WaitStep, UserStep

\* One runnable task less: if that makes an opening, the tasklet is fired.
LEMMA OpeningFires ==
    ASSUME available \in Int, NEW t \in Tasks,
           OneLessRunnable(t) \/ UNCHANGED <<available, firing>>
    PROVE  /\ available' > 0 => available > 0 \/ firing' # {}
           /\ firing # {} => firing' # {}
  <1>1. CASE OneLessRunnable(t)
    <2>1. CASE available + 1 = 1
      BY <1>1, <2>1 DEF OneLessRunnable
    <2>2. CASE available + 1 # 1
      BY <1>1, <2>2 DEF OneLessRunnable
    <2> QED
      BY <2>1, <2>2
  <1>2. CASE UNCHANGED <<available, firing>>
    BY <1>2
  <1> QED
    BY <1>1, <1>2

\* Last the covering of the waiters, from all of the above.
LEMMA StepCovered ==
    IInv /\ [Next]_vars
        => (NobodyLeft /\ WaitersCovered)'
  <1> SUFFICES ASSUME IInv, [Next]_vars
               PROVE  (NobodyLeft /\ WaitersCovered)'
    OBVIOUS
  <1> USE DEF IInv
  <1>1. ASSUME TaskletStart, UNCHANGED waitVars
        PROVE  (NobodyLeft /\ WaitersCovered)'
    BY <1>1 DEF TaskletStart, groupVars, taskletVars, schedVars, coreVars, waitVars,
           NobodyLeft, WaitersCovered, Covered, Waiting, Queued, InUser, TypeOK,
           CoreTypeOK
  <1>2. ASSUME TaskletLock, UNCHANGED waitVars
        PROVE  (NobodyLeft /\ WaitersCovered)'
    BY <1>2 DEF TaskletLock, groupVars, taskletVars, schedVars, coreVars, waitVars,
           NobodyLeft, WaitersCovered, Covered, Waiting, Queued, InUser, TypeOK,
           CoreTypeOK
  <1>3. ASSUME TaskletTestWakeall, UNCHANGED waitVars
        PROVE  (NobodyLeft /\ WaitersCovered)'
    <2>1. CASE wq = <<>>
      <3>1. \A u \in Tasks : ~Waiting(u)'
        BY <1>3, <2>1 DEF TaskletTestWakeall, Waiting, Queued
      <3> QED
        BY <3>1 DEF NobodyLeft, WaitersCovered
    <2>2. CASE wq # <<>>
      <3>1. tpc' \in {"wake", "recheck"}
        BY <1>3, <2>2 DEF TaskletTestWakeall
      <3> QED
        BY <3>1 DEF NobodyLeft, WaitersCovered, Covered
    <2> QED
      BY <2>1, <2>2
  <1>4. ASSUME TaskletHandOver, UNCHANGED waitVars
        PROVE  (NobodyLeft /\ WaitersCovered)'
    BY <1>4 DEF TaskletHandOver, groupVars, taskletVars, schedVars, coreVars,
           waitVars, NobodyLeft, WaitersCovered, Covered, Waiting, Queued, InUser,
           TypeOK, CoreTypeOK
  <1>5. ASSUME TaskletWake, UNCHANGED waitVars
        PROVE  (NobodyLeft /\ WaitersCovered)'
    <2>1. CASE \E i \in 1..Len(wq) : Wakeable(i) /\ tpc' = "test"
      BY <1>5, <2>1 DEF NobodyLeft, WaitersCovered, Covered
    <2>2. CASE (\A i \in 1..Len(wq) : ~Wakeable(i)) /\ UNCHANGED <<state, wq>>
      <3>1. \A u \in Tasks : ~Waiting(u)'
        BY <2>2 DEF Waiting, Queued, Wakeable
      <3> QED
        BY <3>1 DEF NobodyLeft, WaitersCovered
    <2> QED
      BY <1>5, <2>1, <2>2 DEF TaskletWake, FirstWakeable
  <1>6. ASSUME TaskletClear, UNCHANGED waitVars
        PROVE  (NobodyLeft /\ WaitersCovered)'
    BY <1>6 DEF TaskletClear, groupVars, taskletVars, schedVars, coreVars, waitVars,
           NobodyLeft, WaitersCovered, Covered, Waiting, Queued, InUser, TypeOK,
           CoreTypeOK
  <1>7. ASSUME TaskletRecheck, UNCHANGED waitVars
        PROVE  (NobodyLeft /\ WaitersCovered)'
    BY <1>7 DEF TaskletRecheck, groupVars, taskletVars, schedVars, coreVars,
           waitVars, NobodyLeft, WaitersCovered, Covered, Waiting, Queued, InUser,
           TypeOK, CoreTypeOK
  <1>8. ASSUME TaskletReread, UNCHANGED waitVars
        PROVE  (NobodyLeft /\ WaitersCovered)'
    <2>1. CASE available <= 0
      BY <1>8, <2>1 DEF TaskletReread, NobodyLeft, WaitersCovered, TypeOK, CoreTypeOK
    <2>2. CASE ~(available <= 0)
      BY <1>8, <2>2 DEF TaskletReread, NobodyLeft, WaitersCovered, Covered
    <2> QED
      BY <2>1, <2>2
  <1>9. ASSUME TaskletReassert, UNCHANGED waitVars
        PROVE  (NobodyLeft /\ WaitersCovered)'
    <2>1. tasklet_active => scheduled
      BY <1>9 DEF TaskletReassert, TaskletOwnership, TaskletOwned, TaskletLocked
    <2> QED
      BY <1>9, <2>1 DEF TaskletReassert, NobodyLeft, WaitersCovered, Covered,
            TypeOK, CoreTypeOK
  <1>10. ASSUME NEW t \in Tasks, Activate(t), UNCHANGED waitVars
        PROVE  (NobodyLeft /\ WaitersCovered)'
    <2>1. \A u \in Tasks : Waiting(u)' => Waiting(u)
      BY <1>10 DEF Activate, Waiting, Queued, TypeOK, CoreTypeOK
    <2> QED
      BY <1>10, <2>1 DEF Activate, groupVars, taskletVars, NobodyLeft, WaitersCovered,
            Covered, TypeOK, CoreTypeOK
  <1>11. ASSUME NEW t \in Tasks, fire_tasklet(t), UNCHANGED waitVars
        PROVE  (NobodyLeft /\ WaitersCovered)'
    <2>1. \A u \in Tasks : Waiting(u)' <=> Waiting(u)
      BY <1>11 DEF fire_tasklet, schedVars, Waiting, Queued
    <2>2. NobodyLeft'
      BY <1>11, <2>1 DEF fire_tasklet, NobodyLeft
    <2>3. CASE tasklet_active
      <3>1. scheduled \/ tpc \in {"again", "test", "wake", "recheck", "clear"}
        BY <2>3 DEF TaskletOwnership, TaskletOwned, TaskletLocked, AioTasklet
      <3>2. CASE scheduled
        BY <1>11, <2>2, <3>2 DEF fire_tasklet, WaitersCovered, Covered
      <3>3. CASE tpc \in {"again", "test", "wake", "recheck"}
        BY <1>11, <2>2, <3>3 DEF fire_tasklet, WaitersCovered, Covered
      <3>4. CASE tpc = "clear"
        BY <2>1, <2>2, <3>4 DEF NobodyLeft, WaitersCovered
      <3> QED
        BY <3>1, <3>2, <3>3, <3>4
    <2>4. CASE ~tasklet_active
      <3>1. scheduled'
        BY <1>11, <2>4 DEF fire_tasklet
      <3> QED
        BY <2>2, <3>1 DEF WaitersCovered, Covered
    <2> QED
      BY <2>3, <2>4
  <1>12. ASSUME NEW t \in Tasks, WaitLoop(t)
        PROVE  (NobodyLeft /\ WaitersCovered)'
    BY <1>12 DEF WaitLoop, Return, Goto, groupVars, taskletVars, schedVars,
           coreVars, waitVars, NobodyLeft, WaitersCovered, Covered, Waiting, Queued,
           InUser, TypeOK, CoreTypeOK
  <1>13. ASSUME NEW t \in Tasks, WaitNoTime(t)
        PROVE  (NobodyLeft /\ WaitersCovered)'
    BY <1>13 DEF WaitNoTime, Return, Goto, groupVars, taskletVars, schedVars,
           coreVars, waitVars, NobodyLeft, WaitersCovered, Covered, Waiting, Queued,
           InUser, TypeOK, CoreTypeOK
  <1>14. ASSUME NEW t \in Tasks, WaitEnqueue(t)
        PROVE  (NobodyLeft /\ WaitersCovered)'
    <2>1. tpc # "clear"
      BY <1>14 DEF WaitEnqueue, LockHeld, TaskletLocked
    <2>2. CASE available >= 0
      <3>1. UNCHANGED <<wq, state>>
        BY <1>14, <2>2 DEF WaitEnqueue
      <3> QED
        BY <1>14, <2>1, <3>1 DEF WaitEnqueue, taskletVars, NobodyLeft, WaitersCovered,
              Covered, Waiting, Queued
    <2>3. CASE ~(available >= 0)
      BY <1>14, <2>1, <2>3 DEF WaitEnqueue, taskletVars, NobodyLeft, WaitersCovered,
            TypeOK, CoreTypeOK
    <2> QED
      BY <2>2, <2>3
  <1>15. ASSUME NEW t \in Tasks, WaitSignalCheck(t)
        PROVE  (NobodyLeft /\ WaitersCovered)'
    <2>1. \A u \in Tasks : Waiting(u)' => Waiting(u)
      BY <1>15 DEF WaitSignalCheck, Waiting, Queued, TypeOK, CoreTypeOK
    <2> QED
      BY <1>15, <2>1 DEF WaitSignalCheck, groupVars, taskletVars, NobodyLeft, WaitersCovered,
            Covered, TypeOK, CoreTypeOK
  <1>16. ASSUME NEW t \in Tasks, WaitSchedule(t)
        PROVE  (NobodyLeft /\ WaitersCovered)'
    <2>1. \A u \in Tasks : Waiting(u)' => Waiting(u)
      BY <1>16 DEF WaitSchedule, Waiting, Queued, TypeOK, CoreTypeOK
    <2>2. NobodyLeft'
      BY <1>16, <2>1 DEF WaitSchedule, taskletVars, NobodyLeft
    <2>3. OneLessRunnable(t) \/ UNCHANGED <<available, firing>>
      BY <1>16 DEF WaitSchedule, Dequeue
    <2>4. /\ available' > 0 => available > 0 \/ firing' # {}
          /\ firing # {} => firing' # {}
      BY <2>3, OpeningFires DEF TypeOK, CoreTypeOK
    <2> QED
      BY <1>16, <2>1, <2>2, <2>4
         DEF WaitSchedule, taskletVars, WaitersCovered, Covered
  <1>17. ASSUME NEW t \in Tasks, WaitFinish(t)
        PROVE  (NobodyLeft /\ WaitersCovered)'
    <2>1. \A u \in Tasks : Queued(u)' => Queued(u)
      <3>1. CASE UNCHANGED wq
        BY <3>1 DEF Queued
      <3>2. CASE \E i \in 1..Len(wq) : wq' = Unlinked(i)
        BY <3>2, UnlinkedQueued DEF TypeOK, CoreTypeOK, NoDanglingEntry, Distinct
      <3> QED
        BY <1>17, <3>1, <3>2 DEF WaitFinish
    <2>2. \A u \in Tasks : Waiting(u)' => Waiting(u)
      BY <1>17, <2>1 DEF WaitFinish, schedVars, Waiting
    <2> QED
      BY <1>17, <2>2 DEF WaitFinish, taskletVars, NobodyLeft, WaitersCovered, Covered
  <1>18. ASSUME NEW t \in Tasks, cmgroup_associate(t)
        PROVE  (NobodyLeft /\ WaitersCovered)'
    BY <1>18 DEF cmgroup_associate, Associate, groupVars, taskletVars, schedVars,
           coreVars, waitVars, NobodyLeft, WaitersCovered, Covered, Waiting, Queued,
           InUser, TypeOK, CoreTypeOK
  <1>19. ASSUME NEW t \in Tasks, cmgroup_dissociate(t)
        PROVE  (NobodyLeft /\ WaitersCovered)'
    <2>1. \A u \in Tasks : Waiting(u)' => Waiting(u)
      BY <1>19 DEF cmgroup_dissociate, Waiting, Queued, TypeOK, CoreTypeOK
    <2>2. NobodyLeft'
      BY <1>19, <2>1 DEF cmgroup_dissociate, taskletVars, NobodyLeft
    <2>3. OneLessRunnable(t) \/ UNCHANGED <<available, firing>>
      BY <1>19 DEF cmgroup_dissociate, Dissociate
    <2>4. /\ available' > 0 => available > 0 \/ firing' # {}
          /\ firing # {} => firing' # {}
      BY <2>3, OpeningFires DEF TypeOK, CoreTypeOK
    <2> QED
      BY <1>19, <2>1, <2>2, <2>4
         DEF cmgroup_dissociate, taskletVars, WaitersCovered, Covered
  <1>20. ASSUME NEW t \in Tasks, NEW n \in 1..MaxConcurrency,
              cmgroup_set_concurrency_value(t, n)
        PROVE  (NobodyLeft /\ WaitersCovered)'
    <2>1. \A u \in Tasks : Waiting(u)' => Waiting(u)
      BY <1>20 DEF cmgroup_set_concurrency_value, schedVars, Waiting, Queued
    <2>2. NobodyLeft'
      BY <1>20, <2>1 DEF cmgroup_set_concurrency_value, taskletVars, NobodyLeft
    <2>3. concurrency_value \in Int /\ n \in Int /\ available \in Int
      BY MaxConcurrencyAssumption DEF TypeOK, CoreTypeOK
    <2>4. available' > 0 => available > 0 \/ firing' # {}
      BY <1>20, <2>3 DEF cmgroup_set_concurrency_value, SetConcurrencyValue
    <2>5. firing # {} => firing' # {}
      BY <1>20 DEF cmgroup_set_concurrency_value, SetConcurrencyValue
    <2> QED
      BY <1>20, <2>1, <2>2, <2>4, <2>5
         DEF cmgroup_set_concurrency_value, taskletVars, WaitersCovered, Covered
  <1>21. ASSUME NEW t \in Tasks, Block(t)
        PROVE  (NobodyLeft /\ WaitersCovered)'
    <2>1. \A u \in Tasks : Waiting(u)' => Waiting(u)
      BY <1>21 DEF Block, InUser, NoDanglingEntry, Waiting, Queued, TypeOK, CoreTypeOK
    <2>2. NobodyLeft'
      BY <1>21, <2>1 DEF Block, taskletVars, NobodyLeft
    <2>3. OneLessRunnable(t) \/ UNCHANGED <<available, firing>>
      BY <1>21 DEF Block, Dequeue
    <2>4. /\ available' > 0 => available > 0 \/ firing' # {}
          /\ firing # {} => firing' # {}
      BY <2>3, OpeningFires DEF TypeOK, CoreTypeOK
    <2> QED
      BY <1>21, <2>1, <2>2, <2>4
         DEF Block, taskletVars, WaitersCovered, Covered
  <1>22. ASSUME NEW t \in Tasks, NEW r \in {"infinite", "left", "spent"},
              cmgroup_wait(t, r)
        PROVE  (NobodyLeft /\ WaitersCovered)'
    BY <1>22 DEF cmgroup_wait, Goto, groupVars, taskletVars, schedVars, coreVars,
           waitVars, NobodyLeft, WaitersCovered, Covered, Waiting, Queued, InUser,
           TypeOK, CoreTypeOK
  <1>23. ASSUME NEW t \in Tasks, Unblock(t)
        PROVE  (NobodyLeft /\ WaitersCovered)'
    <2>1. \A u \in Tasks : Waiting(u)' => Waiting(u)
      BY <1>23 DEF Unblock, try_to_wake_up, Woken, Waiting, Queued, TypeOK, CoreTypeOK
    <2> QED
      BY <1>23, <2>1 DEF Unblock, groupVars, taskletVars, NobodyLeft, WaitersCovered,
            Covered, TypeOK, CoreTypeOK
  <1>24. ASSUME NEW t \in Tasks, Signal(t)
        PROVE  (NobodyLeft /\ WaitersCovered)'
    <2>1. \A u \in Tasks : Waiting(u)' => Waiting(u)
      BY <1>24 DEF Signal, try_to_wake_up, Woken, Waiting, Queued, TypeOK, CoreTypeOK
    <2> QED
      BY <1>24, <2>1 DEF Signal, groupVars, taskletVars, NobodyLeft, WaitersCovered,
            Covered, TypeOK, CoreTypeOK
  <1>25. ASSUME NEW t \in Tasks, Expire(t)
        PROVE  (NobodyLeft /\ WaitersCovered)'
    <2>1. \A u \in Tasks : Waiting(u)' => Waiting(u)
      BY <1>25 DEF Expire, try_to_wake_up, Woken, Waiting, Queued, TypeOK, CoreTypeOK
    <2> QED
      BY <1>25, <2>1 DEF Expire, groupVars, taskletVars, NobodyLeft, WaitersCovered,
            Covered, TypeOK, CoreTypeOK
  <1>26. CASE UNCHANGED vars
    BY <1>26 DEF vars, groupVars, taskletVars, schedVars, coreVars, waitVars,
           NobodyLeft, WaitersCovered, Covered, Waiting, Queued, InUser, TypeOK,
           CoreTypeOK
  <1> QED
    BY <1>1, <1>2, <1>3, <1>4, <1>5, <1>6, <1>7, <1>8, <1>9, <1>10, <1>11, <1>12,
           <1>13, <1>14, <1>15, <1>16, <1>17, <1>18, <1>19, <1>20, <1>21, <1>22,
           <1>23, <1>24, <1>25, <1>26
       DEF Next, TaskletStep, SchedStep, WaitStep, UserStep

\* The initial state: no tasklet, an empty queue.
LEMMA InitIInv == Init => IInv
  <1> SUFFICES ASSUME Init PROVE IInv
    OBVIOUS
  <1> USE DEF Init, CoreInit
  <1>0. 0 \in 0..MaxPasses /\ available \in Int /\ wq \in Seq(Tasks)
    BY MaxConcurrencyAssumption, MaxPassesAssumption
  <1>1. TypeOK
    BY <1>0
       DEF TypeOK, CoreTypeOK, TaskletPcs, TaskletOwned, TaskletLocked, Actions,
           TaskStates, WaitPcs
  <1>2. AioTasklet /\ TaskletOwnership /\ LockHeld
    BY DEF AioTasklet, TaskletOwnership, LockHeld, TaskletOwned, TaskletLocked
  <1>3. \A t \in Tasks : ~Queued(t)
    BY DEF Queued
  <1>4. NoDanglingEntry /\ SleeperQueued /\ WakingAsleep
    BY <1>3 DEF NoDanglingEntry, SleeperQueued, WakingAsleep
  <1>5. NobodyLeft /\ WaitersCovered
    BY <1>3 DEF NobodyLeft, WaitersCovered, Waiting
  <1> QED
    BY <1>1, <1>2, <1>4, <1>5 DEF IInv

\* The invariant is inductive.
LEMMA StepIInv == IInv /\ [Next]_vars => IInv'
  BY StepTypeOK, StepTasklet, StepQueue, StepWaking, StepCovered DEF IInv

\* The inductive invariant of the waits and the tasklet holds in every behaviour.
THEOREM WaitInvariant == Spec => []IInv
  BY InitIInv, StepIInv, PTL DEF Spec

\* Whenever the group has an opening and a task sleeps in cmgroup_wait, the
\* tasklet is scheduled, running towards another look at the queue or about
\* to be fired: for any number of tasks, limit and number of passes.
THEOREM NoWakeupIsLost == Spec => []NoLostWakeup
  <1>1. ASSUME IInv PROVE NoLostWakeup
    <2>1. \A t \in Tasks : Parked(t) => Waiting(t)
      BY <1>1 DEF IInv, SleeperQueued, Parked, Waiting
    <2> QED
      BY <1>1, <2>1 DEF IInv, WaitersCovered, NoLostWakeup
  <1> QED
    BY WaitInvariant, <1>1, PTL

\* One instance of the tasklet at a time owns tasklet_active.
THEOREM OneTaskletInstance == Spec => []TaskletOwnership
  <1>1. IInv => TaskletOwnership
    BY DEF IInv
  <1> QED
    BY WaitInvariant, <1>1, PTL

\* No wait entry stays linked after its stack frame is gone.
THEOREM EntriesUnlinked == Spec => []NoDanglingEntry
  <1>1. IInv => NoDanglingEntry
    BY DEF IInv
  <1> QED
    BY WaitInvariant, <1>1, PTL

\* The steps that leave the accounting alone.
LEMMA AccountStutter ==
    ASSUME UNCHANGED <<available, concurrency_value, members, charged, on_rq>>
    PROVE  UNCHANGED Account!vars
  BY DEF Account!vars

\* Initially nobody is a member, and everybody is runnable.
LEMMA RefinesInit == Init => Account!Init
  <1> SUFFICES ASSUME Init PROVE Account!Init
    OBVIOUS
  <1> USE DEF Init, CoreInit
  <1>1. available = concurrency_value /\ concurrency_value \in 1..MaxConcurrency
    OBVIOUS
  <1> QED
    BY <1>1 DEF Account!Init

\* A task that leaves its run queue is deactivated.
LEMMA RefinesDequeue ==
    ASSUME NEW t \in Tasks, t \in on_rq, Dequeue(t),
           UNCHANGED <<concurrency_value, members>>
    PROVE  Account!Deactivate(t)
  <1>0. on_rq' = on_rq \ {t}
    BY DEF Dequeue
  <1>1. CASE t \in members /\ t \in charged
    <2>1. charged' = charged \ {t} /\ available' = available + 1
      BY <1>1 DEF Dequeue, OneLessRunnable
    <2>2. [g \in {"cmgroup"} |-> available']
            = [[g \in {"cmgroup"} |-> available] EXCEPT !["cmgroup"] = @ + 1]
      BY <2>1
    <2>3. Account!cmgroup_task_dequeued(t, FALSE)
      BY <1>1, <2>1, <2>2 DEF Account!cmgroup_task_dequeued
    <2> QED
      BY <1>0, <2>3 DEF Account!Deactivate
  <1>2. CASE ~(t \in members /\ t \in charged)
    <2>1. UNCHANGED <<charged, available>>
      BY <1>2 DEF Dequeue
    <2>2. Account!cmgroup_task_dequeued(t, FALSE)
      BY <1>2, <2>1 DEF Account!cmgroup_task_dequeued
    <2> QED
      BY <1>0, <2>2 DEF Account!Deactivate
  <1> QED
    BY <1>1, <1>2

\* A task that is enqueued is activated.
LEMMA RefinesActivate ==
    ASSUME WakingAsleep, NEW t \in Tasks, Activate(t)
    PROVE  Account!Activate(t)
  <1>0. t \notin on_rq /\ on_rq' = on_rq \cup {t} /\ UNCHANGED <<concurrency_value, members>>
    BY DEF Activate, WakingAsleep, groupVars
  <1>1. CASE t \in members /\ t \notin charged
    <2>1. charged' = charged \cup {t} /\ available' = available - 1
      BY <1>1 DEF Activate
    <2>2. [g \in {"cmgroup"} |-> available']
            = [[g \in {"cmgroup"} |-> available] EXCEPT !["cmgroup"] = @ - 1]
      BY <2>1
    <2>3. Account!cmgroup_task_enqueued(t, FALSE)
      BY <1>1, <2>1, <2>2 DEF Account!cmgroup_task_enqueued
    <2> QED
      BY <1>0, <2>3 DEF Account!Activate
  <1>2. CASE ~(t \in members /\ t \notin charged)
    <2>1. UNCHANGED <<charged, available>>
      BY <1>2 DEF Activate
    <2>2. Account!cmgroup_task_enqueued(t, FALSE)
      BY <1>2, <2>1 DEF Account!cmgroup_task_enqueued
    <2> QED
      BY <1>0, <2>2 DEF Account!Activate
  <1> QED
    BY <1>1, <1>2

\* Joining and leaving the group, and the new limit.
LEMMA RefinesAssociate ==
    ASSUME NEW t \in Tasks, cmgroup_associate(t)
    PROVE  Account!cmgroup_associate(t, "cmgroup")
  BY DEF cmgroup_associate, InUser, Running, Associate, groupVars,
         Account!cmgroup_associate, Account!Runnable

\* Leaving the group gives back the charge, as cmgroup_dissociate does there.
LEMMA RefinesDissociate ==
    ASSUME NEW t \in Tasks, cmgroup_dissociate(t)
    PROVE  Account!cmgroup_dissociate(t)
  <1>0. /\ t \in on_rq /\ t \in members /\ members' = members \ {t}
        /\ UNCHANGED <<concurrency_value, on_rq>>
    BY DEF cmgroup_dissociate, Dissociate, InUser, Running, groupVars
  <1>1. [u \in Tasks |-> IF u \in members' THEN "cmgroup" ELSE "NULL"]
          = [[u \in Tasks |-> IF u \in members THEN "cmgroup" ELSE "NULL"]
                EXCEPT ![t] = "NULL"]
    BY <1>0
  <1>2. Account!GiveUpGroup(t)
    <2>1. CASE t \in charged
      <3>1. charged' = charged \ {t} /\ available' = available + 1
        BY <2>1 DEF cmgroup_dissociate, Dissociate, OneLessRunnable
      <3>2. [g \in {"cmgroup"} |-> available']
              = [[g \in {"cmgroup"} |-> available] EXCEPT !["cmgroup"] = @ + 1]
        BY <3>1
      <3> QED
        BY <1>0, <1>1, <2>1, <3>1, <3>2 DEF Account!GiveUpGroup
    <2>2. CASE t \notin charged
      <3>1. UNCHANGED <<charged, available>>
        BY <2>2 DEF cmgroup_dissociate, Dissociate
      <3> QED
        BY <1>1, <2>2, <3>1 DEF Account!GiveUpGroup
    <2> QED
      BY <2>1, <2>2
  <1> QED
    BY <1>0, <1>2 DEF Account!cmgroup_dissociate, Account!Runnable

\* A new limit moves the counter by the same amount there.
LEMMA RefinesSetConcurrencyValue ==
    ASSUME NEW t \in Tasks, NEW n \in 1..MaxConcurrency,
           cmgroup_set_concurrency_value(t, n)
    PROVE  Account!cmgroup_set_concurrency_value("cmgroup", n)
  <1>1. /\ concurrency_value' = n
        /\ available' = available + (n - concurrency_value)
        /\ UNCHANGED <<members, charged, on_rq>>
    BY DEF cmgroup_set_concurrency_value, SetConcurrencyValue, schedVars
  <1> QED
    BY <1>1 DEF Account!cmgroup_set_concurrency_value

\* Every step is a step of the accounting or leaves it alone.
LEMMA RefinesStep == IInv /\ [Next]_vars => [Account!Next]_(Account!vars)
  <1> SUFFICES ASSUME IInv, [Next]_vars
               PROVE  Account!Next \/ UNCHANGED Account!vars
    OBVIOUS
  <1> DEFINE Still == UNCHANGED <<available, concurrency_value, members, charged, on_rq>>
  <1>1. ASSUME TaskletStep PROVE Still
    BY <1>1 DEF TaskletStep, TaskletStart, TaskletLock, TaskletTestWakeall,
         TaskletHandOver, TaskletWake, TaskletClear, TaskletRecheck, TaskletReread,
         TaskletReassert, groupVars, schedVars
  <1>2. ASSUME NEW t \in Tasks,
               \/ fire_tasklet(t) \/ WaitLoop(t) \/ WaitNoTime(t) \/ WaitEnqueue(t)
               \/ WaitSignalCheck(t) \/ WaitFinish(t)
               \/ Unblock(t) \/ Signal(t) \/ Expire(t)
               \/ \E r \in {"infinite", "left", "spent"} : cmgroup_wait(t, r)
        PROVE  Still
    BY <1>2 DEF fire_tasklet, WaitLoop, WaitNoTime, WaitEnqueue, WaitSignalCheck,
         WaitFinish, Unblock, Signal, Expire, cmgroup_wait, groupVars, schedVars, coreVars
  <1>3. ASSUME NEW t \in Tasks, WaitSchedule(t)
        PROVE  Account!Deactivate(t) \/ Still
    BY <1>3, RefinesDequeue DEF WaitSchedule, Running, groupVars
  <1>4. ASSUME NEW t \in Tasks, Block(t) PROVE Account!Deactivate(t)
    BY <1>4, RefinesDequeue DEF Block, InUser, Running, groupVars
  <1>5. ASSUME NEW t \in Tasks, Activate(t) PROVE Account!Activate(t)
    BY <1>5, RefinesActivate DEF IInv
  <1>6. CASE UNCHANGED vars
    BY <1>6, AccountStutter DEF vars, coreVars
  <1>7. ASSUME NEW t \in Tasks, Account!Deactivate(t) \/ Account!Activate(t)
                               \/ Account!cmgroup_dissociate(t)
        PROVE  Account!Next
    BY <1>7 DEF Account!Next
  <1>8. ASSUME NEW t \in Tasks, Account!cmgroup_associate(t, "cmgroup") PROVE Account!Next
    BY <1>8 DEF Account!Next
  <1>9. ASSUME NEW n \in 1..MaxConcurrency,
               Account!cmgroup_set_concurrency_value("cmgroup", n)
        PROVE  Account!Next
    BY <1>9 DEF Account!Next
  <1>10. Still => UNCHANGED Account!vars
    BY AccountStutter
  <1>11. ASSUME NEW t \in Tasks, SchedStep(t)
         PROVE  Account!Next \/ UNCHANGED Account!vars
    BY <1>2, <1>5, <1>7, <1>10, <1>11 DEF SchedStep
  <1>12. ASSUME NEW t \in Tasks, WaitStep(t)
         PROVE  Account!Next \/ UNCHANGED Account!vars
    BY <1>2, <1>3, <1>7, <1>10, <1>12 DEF WaitStep
  <1>13. ASSUME NEW t \in Tasks, UserStep(t)
         PROVE  Account!Next \/ UNCHANGED Account!vars
    BY <1>2, <1>4, <1>7, <1>8, <1>9, <1>10, <1>13, RefinesAssociate,
       RefinesDissociate, RefinesSetConcurrencyValue DEF UserStep
  <1>14. ASSUME NEW t \in Tasks, Unblock(t) \/ Signal(t) \/ Expire(t)
         PROVE  UNCHANGED Account!vars
    BY <1>2, <1>10, <1>14
  <1> HIDE DEF Still
  <1> QED
    BY <1>1, <1>6, <1>10, <1>11, <1>12, <1>13, <1>14 DEF Next

\* The group at work implements the accounting of CmAccount.
THEOREM WaitRefinesAccount == Spec => AccountSpec
  BY WaitInvariant, RefinesInit, RefinesStep, PTL DEF Spec, AccountSpec, Account!Spec
=============================================================================

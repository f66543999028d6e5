----------------------------- MODULE CmEpollProofs -----------------------------
(***************************************************************************)
(* No event is stranded and no signal swallows one in epoll_wait, for any  *)
(* number of tasks and of items, any limit and any number of passes of the *)
(* tasklet.                                                                *)
(***************************************************************************)
EXTENDS CmEpoll, TLAPS

\* Where a task has its entry on ep->wq.
QueuedPcs == {"avail_loop", "avail_sched", "avail_wake",
              "sleep_loop", "sleep_sched", "sleep_wake"}

\* The entries of a queue are pairwise distinct.
Distinct(q) == \A i, j \in 1..Len(q) : q[i] = q[j] => i = j

\* A task has an entry on the queue.
On(t, q) == \E i \in 1..Len(q) : q[i] = t

\* A task has one entry on ep->wq from the first look at the loop to the last,
\* and none outside: ep_wake_wq and the tasklet wake only tasks that will look
\* for events.
QueueTrue == Distinct(wq) /\ \A t \in Tasks : On(t, wq) <=> pc[t] \in QueuedPcs

\* tasklet_active has an owner, the instance that is scheduled or running; one
\* that is going to give it up without another look has left no request behind.
TaskletOwner ==
    /\ tasklet_active => scheduled \/ tpc \in TaskletOwned
    /\ tpc \in {"wake", "wakeone", "clear"} => action # "RESET_WAKEONE"

\* ep->lock is held by who is inside it, and ep->mtx by who scans.
LocksHeld ==
    /\ tpc \in TaskletLocked => lock = "tasklet"
    /\ \A t \in Tasks : pc[t] \in LockedPcs => lock = t /\ t \notin firing
    /\ \A t \in Tasks : pc[t] \in {"send", "merge"} => scanner = t

\* Once res = -EINTR there is no event, and ep->lock is not released before
\* check_events.
EintrHeld ==
    \A t \in eintr :
        /\ pc[t] \in {"avail_loop", "sleep_loop", "check"}
        /\ t \in sig /\ t \notin over
        /\ ~ep_events_available

\* A task that has gone to sleep on ep->wq or is about to.
Waiting(t) ==
    /\ pc[t] \in {"avail_sched", "avail_wake", "sleep_sched", "sleep_wake"}
    /\ state[t] = "INTERRUPTIBLE"

\* Somebody will look for events, is being woken to, or has been asked to.
EventCovered ==
    \/ \E t \in Tasks : Heading(t)
    \/ tpc \in {"wake", "wakeone"}
    \/ action = "RESET_WAKEONE" /\ (available > 0 => TaskletComing)

EventsCovered == rdllist # {} /\ (\E t \in Tasks : Waiting(t)) => EventCovered

EpollInv ==
    TypeOK /\ TaskletOwner /\ LocksHeld /\ EintrHeld /\ QueueTrue /\ EventsCovered

-----------------------------------------------------------------------------
(* The queue.                                                              *)

\* Unlinking an entry removes its task and nobody else.
LEMMA UnlinkedQueue ==
    ASSUME wq \in Seq(Tasks), NEW i \in 1..Len(wq)
    PROVE  /\ Unlinked(i) \in Seq(Tasks)
           /\ Distinct(wq) =>
                /\ Distinct(Unlinked(i))
                /\ \A t : On(t, Unlinked(i)) <=> (On(t, wq) /\ t # wq[i])
  <1> DEFINE q == Unlinked(i)
  <1>1. Len(wq) \in Nat /\ Len(wq) - 1 \in Nat /\ i \in Nat
    OBVIOUS
  <1>2. \A j \in 1..(Len(wq) - 1) : (IF j < i THEN wq[j] ELSE wq[j + 1]) \in Tasks
    BY <1>1
  <1>3. q \in [1..(Len(wq) - 1) -> Tasks]
    BY <1>2 DEF Unlinked
  <1>4. q \in Seq(Tasks) /\ Len(q) = Len(wq) - 1
    BY <1>1, <1>3
  <1>5. \A j \in 1..(Len(wq) - 1) : q[j] = IF j < i THEN wq[j] ELSE wq[j + 1]
    BY DEF Unlinked
  <1> HIDE DEF q
  <1>6. ASSUME Distinct(wq) PROVE Distinct(q)
    BY <1>1, <1>4, <1>5, <1>6 DEF Distinct
  <1>7. ASSUME Distinct(wq), NEW t, On(t, q) PROVE On(t, wq) /\ t # wq[i]
    <2>1. PICK j \in 1..Len(q) : q[j] = t
      BY <1>7 DEF On
    <2>2. PICK k \in 1..Len(wq) : k # i /\ wq[k] = t
      BY <1>1, <1>4, <1>5, <2>1
    <2> QED
      BY <1>7, <2>2 DEF On, Distinct
  <1>8. ASSUME NEW t, On(t, wq), t # wq[i] PROVE On(t, q)
    <2>1. PICK k \in 1..Len(wq) : wq[k] = t
      BY <1>8 DEF On
    <2>2. k # i
      BY <1>8, <2>1
    <2>3. CASE k < i
      <3>1. k \in 1..Len(q) /\ q[k] = t
        BY <1>1, <1>4, <1>5, <2>1, <2>3
      <3> QED
        BY <3>1 DEF On
    <2>4. CASE k > i
      <3>1. k - 1 \in 1..Len(q) /\ q[k - 1] = t
        BY <1>1, <1>4, <1>5, <2>1, <2>4
      <3> QED
        BY <3>1 DEF On
    <2> QED
      BY <1>1, <2>1, <2>2, <2>3, <2>4
  <1> QED
    BY <1>4, <1>6, <1>7, <1>8 DEF q

\* Queueing at the head adds one task that was not there.
LEMMA HeadQueue ==
    ASSUME NEW q \in Seq(Tasks), NEW u \in Tasks
    PROVE  /\ <<u>> \o q \in Seq(Tasks)
           /\ Distinct(q) /\ ~On(u, q) =>
                /\ Distinct(<<u>> \o q)
                /\ \A t : On(t, <<u>> \o q) <=> (On(t, q) \/ t = u)
  <1> DEFINE p == <<u>> \o q
  <1>1. /\ Len(q) \in Nat
        /\ p \in Seq(Tasks)
        /\ Len(p) = Len(q) + 1
        /\ p[1] = u
        /\ \A j \in 2..(Len(q) + 1) : p[j] = q[j - 1]
    OBVIOUS
  <1> HIDE DEF p
  <1>2. ASSUME Distinct(q), ~On(u, q) PROVE Distinct(p)
    <2> SUFFICES ASSUME NEW i \in 1..Len(p), NEW j \in 1..Len(p), p[i] = p[j], i < j
                 PROVE  FALSE
      BY <1>1 DEF Distinct
    <2>1. j - 1 \in 1..Len(q) /\ p[j] = q[j - 1]
      BY <1>1
    <2>2. CASE i = 1
      BY <1>1, <1>2, <2>1, <2>2 DEF On
    <2>3. CASE i # 1
      <3>1. i - 1 \in 1..Len(q) /\ p[i] = q[i - 1]
        BY <1>1, <2>3
      <3> QED
        BY <1>2, <2>1, <3>1 DEF Distinct
    <2> QED
      BY <2>2, <2>3
  <1>3. ASSUME NEW t, On(t, p) PROVE On(t, q) \/ t = u
    BY <1>1, <1>3 DEF On
  <1>4. ASSUME NEW t, On(t, q) PROVE On(t, p)
    <2>1. PICK j \in 1..Len(q) : q[j] = t
      BY <1>4 DEF On
    <2>2. j + 1 \in 1..Len(p) /\ p[j + 1] = t
      BY <1>1, <2>1
    <2> QED
      BY <2>2 DEF On
  <1>5. On(u, p)
    BY <1>1 DEF On
  <1> QED
    BY <1>1, <1>2, <1>3, <1>4, <1>5 DEF p

\* What a task does, or has done to it, outside ep_poll.
OtherStep(t) ==
    SchedStep(t) \/ UserStep(t) \/ Unblock(t) \/ Signal(t) \/ Expire(t)

\* Every step of the specification, action by action: first the types.
LEMMA TypesTasklet ==
    ASSUME TypeOK, TaskletStep, setup' = setup
    PROVE  TypeOK'
  <1> wq \in Seq(Tasks)
    BY DEF TypeOK, CoreTypeOK
  <1> USE DEF groupVars, taskletVars, schedVars, coreVars, pollVars, readyVars, epVars,
    TypeOK, CoreTypeOK, TaskletPcs, TaskletOwned, TaskletLocked, Actions, TaskStates, EpPcs,
    LockedPcs
  <1> UNCHANGED epVars
    BY DEF TaskletStep
  <1>1. CASE TaskletStart
    <2>1. 0 \in 0..MaxPasses
      BY MaxPassesAssumption
    <2>2. scheduled' \in BOOLEAN /\ pass' = 0 /\ tpc' = "again"
      BY <1>1, Zenon DEF TaskletStart
    <2> QED
      BY <1>1, <2>1, <2>2 DEF TaskletStart
  <1>2. CASE TaskletLock
    BY <1>2 DEF TaskletLock
  <1>3. CASE TaskletTestNeutral
    BY <1>3 DEF TaskletTestNeutral
  <1>4. CASE TaskletTestWakeone
    BY <1>4 DEF TaskletTestWakeone
  <1>5. CASE TaskletTestWakeall
    BY <1>5, MaxPassesAssumption DEF TaskletTestWakeall
  <1>6. CASE TaskletHandOver
    BY <1>6 DEF TaskletHandOver
  <1>7. CASE TaskletWakeOne
    BY <1>7 DEF TaskletWakeOne, wake_up_locked, Woken
  <1>8. CASE TaskletClear
    BY <1>8, Zenon DEF TaskletClear
  <1>9. CASE TaskletRecheck
    BY <1>9, Zenon DEF TaskletRecheck
  <1>10. CASE TaskletReread
    BY <1>10 DEF TaskletReread
  <1>11. CASE TaskletReassert
    BY <1>11 DEF TaskletReassert
  <1> QED
    BY <1>1, <1>2, <1>3, <1>4, <1>5, <1>6, <1>7, <1>8, <1>9, <1>10, <1>11, Zenon
       DEF TaskletStep

\* The types, in ep_poll.
LEMMA TypesPoll ==
    ASSUME TypeOK, NEW t \in Tasks, PollStep(t), setup' = setup
    PROVE  TypeOK'
  <1> wq \in Seq(Tasks)
    BY DEF TypeOK, CoreTypeOK
  <1> USE DEF groupVars, taskletVars, schedVars, coreVars, pollVars, readyVars, epVars,
    TypeOK, CoreTypeOK, TaskletPcs, TaskletOwned, TaskletLocked, Actions, TaskStates, EpPcs,
    LockedPcs
  <1>1. CASE EpFetch(t)
    <2>1. members' \subseteq Tasks /\ charged' \subseteq Tasks /\ available' \in Int
      BY <1>1 DEF EpFetch, AssociateCurrent, Associate
    <2> QED
      BY <1>1, <2>1 DEF EpFetch, Lock, Goto
  <1>2. CASE EpCmCheck(t)
    <2>1. wq' = wq \/ wq' = <<t>> \o wq
      BY <1>2 DEF EpCmCheck, fetch_events_locked
    <2>2. <<t>> \o wq \in Seq(Tasks)
      BY HeadQueue, Zenon
    <2>3. wq' \in Seq(Tasks)
      BY <2>1, <2>2, Zenon
    <2>4. pc' \in [Tasks -> EpPcs]
      BY <1>2 DEF EpCmCheck, Goto, fetch_events_locked
    <2> QED
      BY <1>2, <2>3, <2>4 DEF EpCmCheck
  <1>3. CASE EpAvailSleep(t)
    BY <1>3 DEF EpAvailSleep, AtAvailLoop, Unlock, Goto
  <1>4. CASE EpAvailRoom(t)
    <2>1. PICK i \in 1..Len(wq) : wq' = Unlinked(i) \/ wq' = <<t>> \o Unlinked(i)
      BY <1>4 DEF EpAvailRoom, fetch_events_locked
    <2>2. Unlinked(i) \in Seq(Tasks)
      BY UnlinkedQueue
    <2>3. <<t>> \o Unlinked(i) \in Seq(Tasks)
      BY <2>2, HeadQueue, Zenon
    <2>4. wq' \in Seq(Tasks)
      BY <2>1, <2>2, <2>3, Zenon
    <2>5. pc' \in [Tasks -> EpPcs]
      BY <1>4 DEF EpAvailRoom, AtAvailLoop, Withdrawn, fetch_events_locked, Goto
    <2> QED
      BY <1>4, <2>4, <2>5 DEF EpAvailRoom, Withdrawn
  <1>5. CASE EpAvailTimeout(t)
    <2>1. PICK i \in 1..Len(wq) : wq' = Unlinked(i) \/ wq' = <<t>> \o Unlinked(i)
      BY <1>5 DEF EpAvailTimeout, fetch_events_locked
    <2>2. Unlinked(i) \in Seq(Tasks)
      BY UnlinkedQueue
    <2>3. <<t>> \o Unlinked(i) \in Seq(Tasks)
      BY <2>2, HeadQueue, Zenon
    <2>4. wq' \in Seq(Tasks)
      BY <2>1, <2>2, <2>3, Zenon
    <2>5. pc' \in [Tasks -> EpPcs]
      BY <1>5 DEF EpAvailTimeout, AtAvailLoop, Withdrawn, Goto
    <2> QED
      BY <1>5, <2>4, <2>5 DEF EpAvailTimeout, Withdrawn
  <1>6. CASE EpSchedule(t)
    BY <1>6 DEF EpSchedule, Goto, Dequeue, OneLessRunnable
  <1>7. CASE EpSleep(t)
    BY <1>7 DEF EpSleep, AtSleepLoop, Unlock, Goto
  <1>8. CASE EpSleepBreak(t)
    <2>1. PICK i \in 1..Len(wq) : wq' = Unlinked(i) \/ wq' = <<t>> \o Unlinked(i)
      BY <1>8 DEF EpSleepBreak, fetch_events_locked
    <2>2. Unlinked(i) \in Seq(Tasks)
      BY UnlinkedQueue
    <2>3. <<t>> \o Unlinked(i) \in Seq(Tasks)
      BY <2>2, HeadQueue, Zenon
    <2>4. wq' \in Seq(Tasks)
      BY <2>1, <2>2, <2>3, Zenon
    <2>5. pc' \in [Tasks -> EpPcs]
      BY <1>8 DEF EpSleepBreak, AtSleepLoop, Slept, Goto
    <2> QED
      BY <1>8, <2>4, <2>5 DEF EpSleepBreak, Withdrawn
  <1>9. CASE EpCheck(t)
    BY <1>9 DEF EpCheck, Unlock, Return, Goto
  <1>10. CASE EpSteal(t)
    BY <1>10 DEF EpSteal, Goto
  <1>11. CASE ep_send_events_proc(t)
    BY <1>11 DEF ep_send_events_proc, Goto
  <1>12. CASE EpMerge(t)
    BY <1>12, Zenon DEF EpMerge, ep_wake_wq, wake_up_locked, Woken, Return, Goto
  <1> QED
    BY <1>1, <1>2, <1>3, <1>4, <1>5, <1>6, <1>7, <1>8, <1>9, <1>10, <1>11, <1>12, Zenon
       DEF PollStep

\* The types, outside ep_poll.
LEMMA TypesOther ==
    ASSUME TypeOK, NEW t \in Tasks, OtherStep(t), setup' = setup
    PROVE  TypeOK'
  <1> wq \in Seq(Tasks)
    BY DEF TypeOK, CoreTypeOK
  <1> USE DEF groupVars, taskletVars, schedVars, coreVars, pollVars, readyVars, epVars,
    TypeOK, CoreTypeOK, TaskletPcs, TaskletOwned, TaskletLocked, Actions, TaskStates, EpPcs,
    LockedPcs
  <1>1. CASE Activate(t) /\ UNCHANGED epVars
    BY <1>1 DEF Activate
  <1>2. CASE fire_tasklet(t) /\ UNCHANGED epVars
    BY <1>2 DEF fire_tasklet
  <1>3. CASE cmgroup_dissociate(t)
    BY <1>3 DEF cmgroup_dissociate, InUser, Dissociate, OneLessRunnable
  <1>4. ASSUME NEW n \in 1..MaxConcurrency, cmgroup_set_concurrency_value(t, n)
        PROVE  TypeOK'
    <2>1. concurrency_value \in Int /\ n \in Int /\ available \in Int
      BY MaxConcurrencyAssumption DEF TypeOK, CoreTypeOK
    <2>2. available' \in Int /\ concurrency_value' \in 1..MaxConcurrency
      BY <1>4, <2>1 DEF cmgroup_set_concurrency_value, SetConcurrencyValue
    <2>3. firing' \subseteq Tasks /\ lock' \in Tasks \cup {"free", "tasklet"}
      BY <1>4, Zenon DEF cmgroup_set_concurrency_value, SetConcurrencyValue, TypeOK, CoreTypeOK
    <2> QED
      BY <1>4, <2>2, <2>3 DEF cmgroup_set_concurrency_value
  <1>5. CASE Block(t)
    BY <1>5 DEF Block, Dequeue, OneLessRunnable
  <1>6. CASE EpPollZero(t)
    <2>1. members' \subseteq Tasks /\ charged' \subseteq Tasks /\ available' \in Int
      BY <1>6 DEF EpPollZero, AssociateCurrent, Associate
    <2> QED
      BY <1>6, <2>1 DEF EpPollZero, Lock, Goto
  <1>7. ASSUME NEW finite \in BOOLEAN, epoll_wait(t, finite)
        PROVE  TypeOK'
    BY <1>7 DEF epoll_wait, InUser, Goto
  <1>8. CASE Unblock(t)
    BY <1>8 DEF Unblock, Woken
  <1>9. CASE Signal(t)
    BY <1>9 DEF Signal, try_to_wake_up, Woken
  <1>10. CASE Expire(t)
    BY <1>10 DEF Expire, try_to_wake_up, Woken
  <1> QED
    BY <1>1, <1>2, <1>3, <1>4, <1>5, <1>6, <1>7, <1>8, <1>9, <1>10, Zenon
       DEF OtherStep, SchedStep, UserStep

\* Types are kept.
LEMMA StepTypeOK ==
    TypeOK /\ [Next]_<<vars, setup>>
        => TypeOK'
  <1> SUFFICES ASSUME TypeOK, [Next]_<<vars, setup>>
               PROVE  TypeOK'
    OBVIOUS
  <1> setup' = setup
    BY DEF Next
  <1> USE DEF groupVars, taskletVars, schedVars, coreVars, pollVars, readyVars, epVars,
    TypeOK, CoreTypeOK, TaskletPcs, TaskletOwned, TaskletLocked, Actions, TaskStates, EpPcs,
    LockedPcs
  <1>1. CASE TaskletStep
    BY <1>1, TypesTasklet, Zenon
  <1>2. ASSUME NEW t \in Tasks, PollStep(t)
        PROVE  TypeOK'
    BY <1>2, TypesPoll, Zenon
  <1>3. ASSUME NEW t \in Tasks, OtherStep(t)
        PROVE  TypeOK'
    BY <1>3, TypesOther, Zenon
  <1>4. ASSUME NEW epi \in setup.items, ep_poll_callback(epi)
        PROVE  TypeOK'
    <2>1. epi \in Items
      BY <1>4, EpollAssumption
    <2> QED
      BY <1>4, <2>1 DEF ep_poll_callback, ep_wake_wq, wake_up_locked, Woken
  <1>5. CASE UNCHANGED <<vars, setup>>
    BY <1>5 DEF vars
  <1> QED
    BY <1>1, <1>2, <1>3, <1>4, <1>5, Zenon DEF Next, OtherStep

\* Then who holds ep->lock, ep->mtx and tasklet_active: the tasklet ...
LEMMA LocksTasklet ==
    ASSUME TypeOK, TaskletOwner, LocksHeld, TaskletStep
    PROVE  (TaskletOwner /\ LocksHeld)'
  <1> USE DEF groupVars, taskletVars, schedVars, coreVars, pollVars, readyVars, epVars,
    TypeOK, CoreTypeOK, TaskletOwned, TaskletLocked, LockedPcs, TaskletOwner, LocksHeld,
    Running
  <1> UNCHANGED epVars
    BY DEF TaskletStep
  <1>1. CASE TaskletStart
    BY <1>1 DEF TaskletStart
  <1>2. CASE TaskletLock
    BY <1>2, HolderAssumption DEF TaskletLock
  <1>3. CASE TaskletTestNeutral
    BY <1>3 DEF TaskletTestNeutral
  <1>4. CASE TaskletTestWakeone
    BY <1>4 DEF TaskletTestWakeone
  <1>5. CASE TaskletTestWakeall
    BY <1>5 DEF TaskletTestWakeall
  <1>6. CASE TaskletHandOver
    BY <1>6, HolderAssumption DEF TaskletHandOver
  <1>7. CASE TaskletWakeOne
    BY <1>7 DEF TaskletWakeOne, wake_up_locked, Woken
  <1>8. CASE TaskletClear
    BY <1>8, HolderAssumption DEF TaskletClear
  <1>9. CASE TaskletRecheck
    BY <1>9, HolderAssumption DEF TaskletRecheck
  <1>10. CASE TaskletReread
    BY <1>10 DEF TaskletReread
  <1>11. CASE TaskletReassert
    BY <1>11 DEF TaskletReassert
  <1> QED
    BY <1>1, <1>2, <1>3, <1>4, <1>5, <1>6, <1>7, <1>8, <1>9, <1>10, <1>11, Zenon
       DEF TaskletStep

\* ... a task in ep_poll ...
LEMMA LocksPoll ==
    ASSUME TypeOK, TaskletOwner, LocksHeld, NEW t \in Tasks, PollStep(t)
    PROVE  (TaskletOwner /\ LocksHeld)'
  <1> USE DEF groupVars, taskletVars, schedVars, coreVars, pollVars, readyVars, epVars,
    TypeOK, CoreTypeOK, TaskletOwned, TaskletLocked, LockedPcs, TaskletOwner, LocksHeld,
    Running
  <1>1. CASE EpFetch(t)
    BY <1>1, HolderAssumption DEF EpFetch, Lock, AssociateCurrent, Associate, Goto
  <1>2. CASE EpCmCheck(t)
    BY <1>2 DEF EpCmCheck, fetch_events_locked, Goto
  <1>3. CASE EpAvailSleep(t)
    BY <1>3, HolderAssumption DEF EpAvailSleep, AtAvailLoop, Unlock, Goto
  <1>4. CASE EpAvailRoom(t)
    BY <1>4, HolderAssumption DEF EpAvailRoom, AtAvailLoop, Withdrawn, fetch_events_locked,
      Goto
  <1>5. CASE EpAvailTimeout(t)
    BY <1>5, HolderAssumption DEF EpAvailTimeout, AtAvailLoop, Withdrawn, Goto
  <1>6. CASE EpSchedule(t)
    BY <1>6 DEF EpSchedule, Goto, Dequeue, OneLessRunnable
  <1>7. CASE EpSleep(t)
    BY <1>7, HolderAssumption DEF EpSleep, AtSleepLoop, Unlock, Goto
  <1>8. CASE EpSleepBreak(t)
    BY <1>8, HolderAssumption DEF EpSleepBreak, AtSleepLoop, Slept, Goto
  <1>9. CASE EpCheck(t)
    BY <1>9, HolderAssumption DEF EpCheck, Unlock, Return, Goto
  <1>10. CASE EpSteal(t)
    BY <1>10, ScannerAssumption DEF EpSteal, Goto
  <1>11. CASE ep_send_events_proc(t)
    BY <1>11 DEF ep_send_events_proc, Goto
  <1>12. CASE EpMerge(t)
    BY <1>12, HolderAssumption, ScannerAssumption DEF EpMerge, ep_wake_wq, wake_up_locked,
      Woken, Return, Goto
  <1> QED
    BY <1>1, <1>2, <1>3, <1>4, <1>5, <1>6, <1>7, <1>8, <1>9, <1>10, <1>11, <1>12, Zenon
       DEF PollStep

\* ... and one outside.
LEMMA LocksOther ==
    ASSUME TypeOK, TaskletOwner, LocksHeld, NEW t \in Tasks, OtherStep(t)
    PROVE  (TaskletOwner /\ LocksHeld)'
  <1> USE DEF groupVars, taskletVars, schedVars, coreVars, pollVars, readyVars, epVars,
    TypeOK, CoreTypeOK, TaskletOwned, TaskletLocked, LockedPcs, TaskletOwner, LocksHeld,
    Running
  <1>1. CASE Activate(t) /\ UNCHANGED epVars
    BY <1>1 DEF Activate
  <1>2. CASE fire_tasklet(t) /\ UNCHANGED epVars
    BY <1>2, Zenon, HolderAssumption DEF fire_tasklet
  <1>3. CASE cmgroup_dissociate(t)
    BY <1>3 DEF cmgroup_dissociate, InUser, Dissociate, OneLessRunnable
  <1>4. ASSUME NEW n \in 1..MaxConcurrency, cmgroup_set_concurrency_value(t, n)
        PROVE  (TaskletOwner /\ LocksHeld)'
    BY <1>4, HolderAssumption DEF cmgroup_set_concurrency_value, InUser, SetConcurrencyValue
  <1>5. CASE Block(t)
    BY <1>5 DEF Block, Dequeue, OneLessRunnable
  <1>6. CASE EpPollZero(t)
    BY <1>6, HolderAssumption DEF EpPollZero, InUser, Lock, AssociateCurrent, Associate,
      Goto
  <1>7. ASSUME NEW finite \in BOOLEAN, epoll_wait(t, finite)
        PROVE  (TaskletOwner /\ LocksHeld)'
    BY <1>7 DEF epoll_wait, InUser, Goto
  <1>8. CASE Unblock(t)
    BY <1>8 DEF Unblock, Woken
  <1>9. CASE Signal(t)
    BY <1>9 DEF Signal, try_to_wake_up, Woken
  <1>10. CASE Expire(t)
    BY <1>10 DEF Expire, try_to_wake_up, Woken
  <1> QED
    BY <1>1, <1>2, <1>3, <1>4, <1>5, <1>6, <1>7, <1>8, <1>9, <1>10, Zenon
       DEF OtherStep, SchedStep, UserStep

\* Locks and tasklet_active are held by who should.
LEMMA StepLocks ==
    TypeOK /\ TaskletOwner /\ LocksHeld /\ [Next]_<<vars, setup>>
        => (TaskletOwner /\ LocksHeld)'
  <1> SUFFICES ASSUME TypeOK /\ TaskletOwner /\ LocksHeld, [Next]_<<vars, setup>>
               PROVE  (TaskletOwner /\ LocksHeld)'
    OBVIOUS
  <1> USE DEF groupVars, taskletVars, schedVars, coreVars, pollVars, readyVars, epVars,
    TypeOK, CoreTypeOK, TaskletOwned, TaskletLocked, LockedPcs, TaskletOwner, LocksHeld,
    Running
  <1>1. CASE TaskletStep
    BY <1>1, LocksTasklet, Zenon
  <1>2. ASSUME NEW t \in Tasks, PollStep(t)
        PROVE  (TaskletOwner /\ LocksHeld)'
    BY <1>2, LocksPoll, Zenon
  <1>3. ASSUME NEW t \in Tasks, OtherStep(t)
        PROVE  (TaskletOwner /\ LocksHeld)'
    BY <1>3, LocksOther, Zenon
  <1>4. ASSUME NEW epi \in setup.items, ep_poll_callback(epi)
        PROVE  (TaskletOwner /\ LocksHeld)'
    BY <1>4, HolderAssumption DEF ep_poll_callback, ep_wake_wq, wake_up_locked, Woken
  <1>5. CASE UNCHANGED <<vars, setup>>
    BY <1>5 DEF vars
  <1> QED
    BY <1>1, <1>2, <1>3, <1>4, <1>5, Zenon DEF Next, OtherStep

\* Then the signal: nothing changes between -EINTR and check_events, in ep_poll ...
LEMMA EintrPoll ==
    ASSUME TypeOK, LocksHeld, EintrHeld, NEW t \in Tasks, PollStep(t)
    PROVE  EintrHeld'
  <1> USE DEF groupVars, taskletVars, schedVars, coreVars, pollVars, readyVars, epVars,
    TypeOK, CoreTypeOK, LockedPcs, LocksHeld, EintrHeld, ep_events_available, ovf_active
  <1>1. CASE EpFetch(t)
    BY <1>1 DEF EpFetch, Lock, AssociateCurrent, Associate, Goto
  <1>2. CASE EpCmCheck(t)
    BY <1>2 DEF EpCmCheck, fetch_events_locked, Goto
  <1>3. CASE EpAvailSleep(t)
    BY <1>3 DEF EpAvailSleep, AtAvailLoop, Unlock, Goto
  <1>4. CASE EpAvailRoom(t)
    BY <1>4 DEF EpAvailRoom, AtAvailLoop, Withdrawn, fetch_events_locked, Goto
  <1>5. CASE EpAvailTimeout(t)
    BY <1>5 DEF EpAvailTimeout, AtAvailLoop, Withdrawn, Goto
  <1>6. CASE EpSchedule(t)
    BY <1>6 DEF EpSchedule, Goto, Dequeue, OneLessRunnable
  <1>7. CASE EpSleep(t)
    BY <1>7 DEF EpSleep, AtSleepLoop, Unlock, Goto
  <1>8. CASE EpSleepBreak(t)
    BY <1>8 DEF EpSleepBreak, AtSleepLoop, Slept, Goto
  <1>9. CASE EpCheck(t)
    BY <1>9 DEF EpCheck, Unlock, Return, Goto
  <1>10. CASE EpSteal(t)
    BY <1>10, HolderAssumption, ScannerAssumption DEF EpSteal, Goto
  <1>11. CASE ep_send_events_proc(t)
    BY <1>11, HolderAssumption, ScannerAssumption DEF ep_send_events_proc, Goto
  <1>12. CASE EpMerge(t)
    BY <1>12, Zenon, HolderAssumption, ScannerAssumption DEF EpMerge, ep_wake_wq,
      wake_up_locked, Woken, Return, Goto
  <1> QED
    BY <1>1, <1>2, <1>3, <1>4, <1>5, <1>6, <1>7, <1>8, <1>9, <1>10, <1>11, <1>12, Zenon
       DEF PollStep

\* ... and outside.
LEMMA EintrOther ==
    ASSUME TypeOK, LocksHeld, EintrHeld, NEW t \in Tasks, OtherStep(t)
    PROVE  EintrHeld'
  <1> USE DEF groupVars, taskletVars, schedVars, coreVars, pollVars, readyVars, epVars,
    TypeOK, CoreTypeOK, LockedPcs, LocksHeld, EintrHeld, ep_events_available, ovf_active
  <1>1. CASE Activate(t) /\ UNCHANGED epVars
    BY <1>1 DEF Activate
  <1>2. CASE fire_tasklet(t) /\ UNCHANGED epVars
    BY <1>2 DEF fire_tasklet
  <1>3. CASE cmgroup_dissociate(t)
    BY <1>3 DEF cmgroup_dissociate, InUser, Dissociate, OneLessRunnable
  <1>4. ASSUME NEW n \in 1..MaxConcurrency, cmgroup_set_concurrency_value(t, n)
        PROVE  EintrHeld'
    BY <1>4 DEF cmgroup_set_concurrency_value, InUser, SetConcurrencyValue
  <1>5. CASE Block(t)
    BY <1>5 DEF Block, Dequeue, OneLessRunnable
  <1>6. CASE EpPollZero(t)
    BY <1>6 DEF EpPollZero, InUser, Lock, AssociateCurrent, Associate, Goto
  <1>7. ASSUME NEW finite \in BOOLEAN, epoll_wait(t, finite)
        PROVE  EintrHeld'
    BY <1>7 DEF epoll_wait, InUser, Goto
  <1>8. CASE Unblock(t)
    BY <1>8 DEF Unblock, Woken
  <1>9. CASE Signal(t)
    BY <1>9 DEF Signal, try_to_wake_up, Woken
  <1>10. CASE Expire(t)
    BY <1>10 DEF Expire, try_to_wake_up, Woken
  <1> QED
    BY <1>1, <1>2, <1>3, <1>4, <1>5, <1>6, <1>7, <1>8, <1>9, <1>10, Zenon
       DEF OtherStep, SchedStep, UserStep

\* No event comes between -EINTR and check_events.
LEMMA StepEintr ==
    TypeOK /\ LocksHeld /\ EintrHeld /\ [Next]_<<vars, setup>>
        => EintrHeld'
  <1> SUFFICES ASSUME TypeOK /\ LocksHeld /\ EintrHeld, [Next]_<<vars, setup>>
               PROVE  EintrHeld'
    OBVIOUS
  <1> USE DEF groupVars, taskletVars, schedVars, coreVars, pollVars, readyVars, epVars,
    TypeOK, CoreTypeOK, LockedPcs, LocksHeld, EintrHeld, ep_events_available, ovf_active
  <1>1. CASE TaskletStep
    BY <1>1 DEF TaskletStep
  <1>2. ASSUME NEW t \in Tasks, PollStep(t)
        PROVE  EintrHeld'
    BY <1>2, EintrPoll, Zenon
  <1>3. ASSUME NEW t \in Tasks, OtherStep(t)
        PROVE  EintrHeld'
    BY <1>3, EintrOther, Zenon
  <1>4. ASSUME NEW epi \in setup.items, ep_poll_callback(epi)
        PROVE  EintrHeld'
    BY <1>4, HolderAssumption, ScannerAssumption DEF ep_poll_callback, ep_wake_wq,
      wake_up_locked, Woken
  <1>5. CASE UNCHANGED <<vars, setup>>
    BY <1>5 DEF vars
  <1> QED
    BY <1>1, <1>2, <1>3, <1>4, <1>5, Zenon DEF Next, OtherStep

\* Then the queue: a task links and unlinks its own entry, in ep_poll ...
LEMMA QueuePoll ==
    ASSUME TypeOK, QueueTrue, NEW t \in Tasks, PollStep(t)
    PROVE  QueueTrue'
  <1> USE DEF groupVars, taskletVars, schedVars, coreVars, pollVars, readyVars, epVars,
    QueueTrue, TypeOK, CoreTypeOK, QueuedPcs, Running
  <1>1. CASE EpFetch(t)
    BY <1>1 DEF EpFetch, Goto
  <1>2. CASE EpCmCheck(t)
    <2>1. pc[t] = "cmcheck" /\ ~On(t, wq) /\ Distinct(wq)
      BY <1>2 DEF EpCmCheck
    <2>2. CASE wq' = wq /\ Goto(t, "check")
      BY <2>1, <2>2 DEF Goto
    <2>3. CASE wq' = <<t>> \o wq /\ (Goto(t, "avail_loop") \/ Goto(t, "sleep_loop"))
      <3>1. Distinct(wq') /\ \A u : On(u, wq') <=> (On(u, wq) \/ u = t)
        BY <2>1, <2>3, HeadQueue
      <3> QED
        BY <2>3, <3>1 DEF Goto
    <2> QED
      BY <1>2, <2>2, <2>3 DEF EpCmCheck, fetch_events_locked
  <1>3. CASE EpAvailSleep(t)
    BY <1>3 DEF EpAvailSleep, AtAvailLoop, Unlock, Goto
  <1>4. CASE EpAvailRoom(t)
    <2>1. PICK i \in 1..Len(wq) :
            /\ wq[i] = t /\ pc[t] \in {"avail_loop", "avail_wake"}
            /\ \/ wq' = Unlinked(i) /\ Goto(t, "check")
               \/ wq' = <<t>> \o Unlinked(i) /\ Goto(t, "sleep_loop")
      BY <1>4 DEF EpAvailRoom, AtAvailLoop, fetch_events_locked
    <2>2. /\ Unlinked(i) \in Seq(Tasks) /\ Distinct(Unlinked(i))
          /\ \A u : On(u, Unlinked(i)) <=> (On(u, wq) /\ u # t)
      BY <2>1, UnlinkedQueue
    <2>3. CASE wq' = Unlinked(i) /\ Goto(t, "check")
      BY <2>1, <2>2, <2>3 DEF Goto
    <2>4. CASE /\ wq' = <<t>> \o Unlinked(i)
               /\ Goto(t, "sleep_loop")
      <3>1. Distinct(wq') /\ \A u : On(u, wq') <=> (On(u, Unlinked(i)) \/ u = t)
        BY <2>1, <2>2, <2>4, HeadQueue
      <3> QED
        BY <2>1, <2>2, <2>4, <3>1, Zenon DEF Goto
    <2> QED
      BY <2>1, <2>3, <2>4
  <1>5. CASE EpAvailTimeout(t)
    <2>1. PICK i \in 1..Len(wq) :
            /\ wq[i] = t /\ pc[t] \in {"avail_loop", "avail_wake"}
            /\ \/ wq' = Unlinked(i) /\ Goto(t, "check")
      BY <1>5 DEF EpAvailTimeout, AtAvailLoop, fetch_events_locked
    <2>2. /\ Unlinked(i) \in Seq(Tasks) /\ Distinct(Unlinked(i))
          /\ \A u : On(u, Unlinked(i)) <=> (On(u, wq) /\ u # t)
      BY <2>1, UnlinkedQueue
    <2>3. CASE wq' = Unlinked(i) /\ Goto(t, "check")
      BY <2>1, <2>2, <2>3 DEF Goto
    <2> QED
      BY <2>1, <2>3
  <1>6. CASE EpSchedule(t)
    BY <1>6 DEF EpSchedule, Goto
  <1>7. CASE EpSleep(t)
    BY <1>7 DEF EpSleep, AtSleepLoop, Unlock, Goto
  <1>8. CASE EpSleepBreak(t)
    <2>1. PICK i \in 1..Len(wq) :
            /\ wq[i] = t /\ pc[t] \in {"sleep_loop", "sleep_wake"}
            /\ \/ wq' = Unlinked(i) /\ Goto(t, "check")
               \/ wq' = <<t>> \o Unlinked(i) /\ Goto(t, "avail_loop")
      BY <1>8 DEF EpSleepBreak, AtSleepLoop, fetch_events_locked
    <2>2. /\ Unlinked(i) \in Seq(Tasks) /\ Distinct(Unlinked(i))
          /\ \A u : On(u, Unlinked(i)) <=> (On(u, wq) /\ u # t)
      BY <2>1, UnlinkedQueue
    <2>3. CASE wq' = Unlinked(i) /\ Goto(t, "check")
      BY <2>1, <2>2, <2>3 DEF Goto
    <2>4. CASE /\ wq' = <<t>> \o Unlinked(i)
               /\ Goto(t, "avail_loop")
      <3>1. Distinct(wq') /\ \A u : On(u, wq') <=> (On(u, Unlinked(i)) \/ u = t)
        BY <2>1, <2>2, <2>4, HeadQueue
      <3> QED
        BY <2>1, <2>2, <2>4, <3>1, Zenon DEF Goto
    <2> QED
      BY <2>1, <2>3, <2>4
  <1>9. CASE EpCheck(t)
    BY <1>9 DEF EpCheck, Unlock, Return, Goto
  <1>10. CASE EpSteal(t)
    BY <1>10 DEF EpSteal, Goto
  <1>11. CASE ep_send_events_proc(t)
    BY <1>11 DEF ep_send_events_proc, Goto
  <1>12. CASE EpMerge(t)
    BY <1>12 DEF EpMerge, Return, Goto
  <1> QED
    BY <1>1, <1>2, <1>3, <1>4, <1>5, <1>6, <1>7, <1>8, <1>9, <1>10, <1>11, <1>12, Zenon
       DEF PollStep

\* The queue holds who waits.
LEMMA StepQueue ==
    TypeOK /\ QueueTrue /\ [Next]_<<vars, setup>>
        => QueueTrue'
  <1> SUFFICES ASSUME TypeOK /\ QueueTrue, [Next]_<<vars, setup>>
               PROVE  QueueTrue'
    OBVIOUS
  <1> USE DEF groupVars, taskletVars, schedVars, coreVars, pollVars, readyVars, epVars,
    QueueTrue, TypeOK, CoreTypeOK, QueuedPcs, Running
  <1>1. CASE TaskletStep
    <2>1. UNCHANGED <<pc, wq>>
      BY <1>1, Zenon DEF TaskletStep, TaskletStart, TaskletLock, TaskletTestNeutral,
        TaskletTestWakeone, TaskletTestWakeall, TaskletHandOver, TaskletWakeOne,
        TaskletClear, TaskletRecheck, TaskletReread, TaskletReassert
    <2> QED
      BY <2>1
  <1>2. ASSUME NEW t \in Tasks, PollStep(t)
        PROVE  QueueTrue'
    BY <1>2, QueuePoll, Zenon
  <1>3. ASSUME NEW t \in Tasks, OtherStep(t)
        PROVE  QueueTrue'
    <2>1. CASE UNCHANGED <<pc, wq>>
      BY <2>1
    <2>2. CASE EpPollZero(t)
      BY <2>2 DEF EpPollZero, InUser, Goto
    <2>3. ASSUME NEW finite \in BOOLEAN, epoll_wait(t, finite)
          PROVE  QueueTrue'
      BY <2>3 DEF epoll_wait, InUser, Goto
    <2>4. UNCHANGED <<pc, wq>> \/ EpPollZero(t) \/ \E finite \in BOOLEAN : epoll_wait(t, finite)
      BY <1>3, Zenon DEF OtherStep, SchedStep, UserStep, Activate, fire_tasklet,
        cmgroup_dissociate, cmgroup_set_concurrency_value, Block, Unblock, Signal, Expire
    <2> QED
      BY <2>1, <2>2, <2>3, <2>4
  <1>4. ASSUME NEW epi \in setup.items, ep_poll_callback(epi)
        PROVE  QueueTrue'
    BY <1>4 DEF ep_poll_callback
  <1>5. CASE UNCHANGED <<vars, setup>>
    BY <1>5 DEF vars
  <1> QED
    BY <1>1, <1>2, <1>3, <1>4, <1>5, Zenon DEF Next, OtherStep

-----------------------------------------------------------------------------
(* The events.                                                             *)

\* What becomes of the queue when somebody is to be woken: a task that will
\* look for events is found, or nobody waits.
LEMMA WakeFinds ==
    ASSUME TypeOK, QueueTrue, wake_up_locked,
           \A u \in Tasks : pc[u] \in QueuedPcs \/ pc'[u] \in QueuedPcs => pc'[u] = pc[u]
    PROVE  (\E u \in Tasks : Heading(u)') \/ (\A u \in Tasks : ~Waiting(u)')
  <1>1. /\ wq \in Seq(Tasks) /\ state \in [Tasks -> TaskStates]
        /\ \A u \in Tasks : On(u, wq) <=> pc[u] \in QueuedPcs
    BY DEF TypeOK, CoreTypeOK, QueueTrue
  <1>2. CASE \E i \in 1..Len(wq) : state' = Woken(wq[i])
    <2>1. PICK w \in Tasks : pc[w] \in QueuedPcs /\ state' = Woken(w)
      BY <1>1, <1>2 DEF On
    <2>2. state'[w] # "INTERRUPTIBLE" /\ pc'[w] \in QueuedPcs
      BY <1>1, <2>1 DEF Woken
    <2>3. Heading(w)'
      BY <2>2 DEF Heading, QueuedPcs
    <2> QED
      BY <2>3
  <1>3. CASE (\A i \in 1..Len(wq) : ~Wakeable(i)) /\ UNCHANGED state
    <2>1. ASSUME NEW u \in Tasks, Waiting(u)' PROVE FALSE
      <3>1. pc[u] \in QueuedPcs /\ state[u] = "INTERRUPTIBLE"
        BY <1>3, <2>1 DEF Waiting, QueuedPcs
      <3>2. PICK i \in 1..Len(wq) : wq[i] = u
        BY <1>1, <3>1 DEF On
      <3> QED
        BY <1>3, <3>1, <3>2 DEF Wakeable
    <2> QED
      BY <2>1
  <1> QED
    BY <1>2, <1>3 DEF wake_up_locked

\* ep_wake_wq covers the event it is called for.
LEMMA WakeCovers ==
    ASSUME TypeOK, QueueTrue, ep_wake_wq, UNCHANGED <<available, wq>>,
           \A u \in Tasks : pc[u] \in QueuedPcs \/ pc'[u] \in QueuedPcs => pc'[u] = pc[u]
    PROVE  EventsCovered'
  <1>1. CASE wq = <<>> /\ UNCHANGED state
    <2>1. \A u \in Tasks : pc'[u] \notin QueuedPcs
      BY <1>1 DEF QueueTrue, On
    <2> QED
      BY <2>1 DEF EventsCovered, Waiting, QueuedPcs
  <1>2. CASE available <= 0 /\ action' = "RESET_WAKEONE"
    <2>1. available \in Int
      BY DEF TypeOK, CoreTypeOK
    <2> QED
      BY <1>2, <2>1 DEF EventsCovered, EventCovered
  <1>3. CASE wake_up_locked
    <2>1. (\E u \in Tasks : Heading(u)') \/ (\A u \in Tasks : ~Waiting(u)')
      BY <1>3, WakeFinds
    <2> QED
      BY <2>1 DEF EventsCovered, EventCovered
  <1> QED
    BY <1>1, <1>2, <1>3 DEF ep_wake_wq

\* An opening that a step makes is one that fires the tasklet.
OpeningFired ==
    /\ available' > 0 => available > 0 \/ firing' # {}
    /\ firing # {} => firing' # {}

\* A task that stops being runnable makes openings only so.
LEMMA OneLessFires ==
    ASSUME available \in Int, NEW t \in Tasks,
           OneLessRunnable(t) \/ UNCHANGED <<available, firing>>
    PROVE  OpeningFired
  <1>1. CASE available + 1 = 1 /\ OneLessRunnable(t)
    <2>1. t \in firing'
      BY <1>1 DEF OneLessRunnable
    <2> QED
      BY <2>1 DEF OpeningFired
  <1>2. CASE available + 1 # 1 /\ OneLessRunnable(t)
    BY <1>2 DEF OneLessRunnable, OpeningFired
  <1> QED
    BY <1>1, <1>2 DEF OpeningFired

\* A step that keeps who heads for the events, sends nobody to sleep and
\* leaves the request alone keeps the events covered.
LEMMA CoveredKept ==
    ASSUME EventsCovered, OpeningFired,
           UNCHANGED <<action, scheduled, tpc>>,
           rdllist' # {} => rdllist # {} /\ \A u \in Tasks : Heading(u) => Heading(u)',
           \A u \in Tasks : Waiting(u)' => Waiting(u)
    PROVE  EventsCovered'
  <1> SUFFICES ASSUME rdllist' # {}, NEW w \in Tasks, Waiting(w)' PROVE EventCovered'
    BY DEF EventsCovered
  <1>1. EventCovered
    BY DEF EventsCovered
  <1>2. CASE \E t \in Tasks : Heading(t)
    BY <1>2 DEF EventCovered
  <1>3. CASE tpc \in {"wake", "wakeone"}
    BY <1>3 DEF EventCovered
  <1>4. CASE action = "RESET_WAKEONE" /\ (available > 0 => TaskletComing)
    <2>1. available' > 0 => TaskletComing'
      BY <1>4 DEF OpeningFired, TaskletComing
    <2> QED
      BY <1>4, <2>1 DEF EventCovered
  <1> QED
    BY <1>1, <1>2, <1>3, <1>4 DEF EventCovered

\* Last the covering of the events, from all of the above: by the tasklet ...
LEMMA CoveredTasklet ==
    ASSUME EpollInv, TaskletStep
    PROVE  EventsCovered'
  <1> /\ TypeOK /\ TaskletOwner /\ LocksHeld /\ EintrHeld /\ QueueTrue /\ EventsCovered
      /\ available \in Int /\ pc \in [Tasks -> EpPcs] /\ state \in [Tasks -> TaskStates]
    BY DEF EpollInv, TypeOK, CoreTypeOK
  <1> USE DEF groupVars, taskletVars, schedVars, coreVars, pollVars, readyVars, epVars
  <1> UNCHANGED epVars
    BY DEF TaskletStep
  <1>1. CASE TaskletStart
    <2>1. \A u \in Tasks : (Heading(u) <=> Heading(u)') /\ (Waiting(u) <=> Waiting(u)')
      BY <1>1 DEF TaskletStart, Heading, Waiting
    <2> QED
      BY <1>1, <2>1 DEF TaskletStart, EventsCovered, EventCovered, TaskletComing
  <1>2. CASE TaskletLock
    <2>1. \A u \in Tasks : (Heading(u) <=> Heading(u)') /\ (Waiting(u) <=> Waiting(u)')
      BY <1>2 DEF TaskletLock, Heading, Waiting
    <2> QED
      BY <1>2, <2>1 DEF TaskletLock, EventsCovered, EventCovered, TaskletComing
  <1>3. CASE TaskletTestNeutral
    <2>1. \A u \in Tasks : (Heading(u) <=> Heading(u)') /\ (Waiting(u) <=> Waiting(u)')
      BY <1>3 DEF TaskletTestNeutral, Heading, Waiting
    <2> QED
      BY <1>3, <2>1 DEF TaskletTestNeutral, EventsCovered, EventCovered, TaskletComing
  <1>4. CASE TaskletTestWakeone
    <2>1. \A u \in Tasks : (Heading(u) <=> Heading(u)') /\ (Waiting(u) <=> Waiting(u)')
      BY <1>4 DEF TaskletTestWakeone, Heading, Waiting
    <2> QED
      BY <1>4, <2>1 DEF TaskletTestWakeone, EventsCovered, EventCovered, TaskletComing
  <1>5. CASE TaskletTestWakeall
    <2>1. CASE wq = <<>>
      <3>1. \A u \in Tasks : pc'[u] \notin QueuedPcs
        BY <1>5, <2>1 DEF QueueTrue, On
      <3> QED
        BY <3>1 DEF EventsCovered, Waiting, QueuedPcs
    <2>2. CASE wq # <<>>
      <3>1. \A u \in Tasks : (Heading(u) <=> Heading(u)') /\ (Waiting(u) <=> Waiting(u)')
        BY <1>5 DEF TaskletTestWakeall, Heading, Waiting
      <3> QED
        BY <1>5, <2>2, <3>1 DEF TaskletTestWakeall, EventsCovered, EventCovered
    <2> QED
      BY <2>1, <2>2
  <1>6. CASE TaskletHandOver
    <2>1. \A u \in Tasks : (Heading(u) <=> Heading(u)') /\ (Waiting(u) <=> Waiting(u)')
      BY <1>6 DEF TaskletHandOver, Heading, Waiting
    <2> QED
      BY <1>6, <2>1 DEF TaskletHandOver, EventsCovered, EventCovered, TaskletComing
  <1>7. CASE TaskletWakeOne
    <2>1. wake_up_locked /\ UNCHANGED pc
      BY <1>7 DEF TaskletWakeOne
    <2>2. (\E u \in Tasks : Heading(u)') \/ (\A u \in Tasks : ~Waiting(u)')
      BY <2>1, WakeFinds DEF EpollInv
    <2> QED
      BY <2>2 DEF EventsCovered, EventCovered
  <1>8. CASE TaskletClear
    <2>1. \A u \in Tasks : (Heading(u) <=> Heading(u)') /\ (Waiting(u) <=> Waiting(u)')
      BY <1>8 DEF TaskletClear, Heading, Waiting
    <2> QED
      BY <1>8, <2>1 DEF TaskletClear, EventsCovered, EventCovered, TaskletComing, TaskletOwner
  <1>9. CASE TaskletRecheck
    <2>1. \A u \in Tasks : (Heading(u) <=> Heading(u)') /\ (Waiting(u) <=> Waiting(u)')
      BY <1>9 DEF TaskletRecheck, Heading, Waiting
    <2> QED
      BY <1>9, <2>1 DEF TaskletRecheck, EventsCovered, EventCovered, TaskletComing
  <1>10. CASE TaskletReread
    <2>1. \A u \in Tasks : (Heading(u) <=> Heading(u)') /\ (Waiting(u) <=> Waiting(u)')
      BY <1>10 DEF TaskletReread, Heading, Waiting
    <2> QED
      BY <1>10, <2>1 DEF TaskletReread, EventsCovered, EventCovered, TaskletComing
  <1>11. CASE TaskletReassert
    <2>1. \A u \in Tasks : (Heading(u) <=> Heading(u)') /\ (Waiting(u) <=> Waiting(u)')
      BY <1>11 DEF TaskletReassert, Heading, Waiting
    <2> QED
      BY <1>11, <2>1 DEF TaskletReassert, EventsCovered, EventCovered, TaskletComing, TaskletOwner, TaskletOwned, TaskletLocked
  <1> QED
    BY <1>1, <1>2, <1>3, <1>4, <1>5, <1>6, <1>7, <1>8, <1>9, <1>10, <1>11, Zenon
       DEF TaskletStep

\* ... by the tasks in ep_poll ...
LEMMA CoveredPoll ==
    ASSUME EpollInv, NEW t \in Tasks, PollStep(t)
    PROVE  EventsCovered'
  <1> /\ TypeOK /\ TaskletOwner /\ LocksHeld /\ EintrHeld /\ QueueTrue /\ EventsCovered
      /\ available \in Int /\ pc \in [Tasks -> EpPcs] /\ state \in [Tasks -> TaskStates]
    BY DEF EpollInv, TypeOK, CoreTypeOK
  <1> USE DEF groupVars, taskletVars, schedVars, coreVars, pollVars, readyVars, epVars
  <1>1. CASE EpFetch(t)
    <2>1. OpeningFired
      BY <1>1 DEF EpFetch, AssociateCurrent, Associate, OpeningFired
    <2>2. /\ UNCHANGED <<action, scheduled, tpc>>
          /\ rdllist' # {} => rdllist # {} /\ \A u \in Tasks : Heading(u) => Heading(u)'
          /\ \A u \in Tasks : Waiting(u)' => Waiting(u)
      BY <1>1 DEF EpFetch, Goto, Heading, Waiting
    <2> QED
      BY <2>1, <2>2, CoveredKept DEF EpollInv
  <1>2. CASE EpCmCheck(t)
    <2>1. t \notin eintr
      BY <1>2 DEF EpCmCheck, EintrHeld
    <2>2. Heading(t)'
      BY <1>2, <2>1 DEF EpCmCheck, fetch_events_locked, Goto, Heading
    <2> QED
      BY <2>2 DEF EventsCovered, EventCovered
  <1>3. CASE EpAvailSleep(t)
    <2>1. action' = "RESET_WAKEONE" /\ ~(available' > 0)
      BY <1>3 DEF EpAvailSleep
    <2> QED
      BY <2>1 DEF EventsCovered, EventCovered
  <1>4. CASE EpAvailRoom(t)
    <2>0. PICK q : fetch_events_locked(t, q)
      BY <1>4 DEF EpAvailRoom
    <2>1. (pc'[t] = "sleep_loop") \/ (pc'[t] = "check" /\ ep_events_available)
      BY <2>0 DEF fetch_events_locked, Goto
    <2>2. ep_events_available => t \notin eintr
      BY DEF EintrHeld
    <2>3. Heading(t)'
      BY <1>4, <2>1, <2>2 DEF EpAvailRoom, Heading
    <2> QED
      BY <2>3 DEF EventsCovered, EventCovered
  <1>5. CASE EpAvailTimeout(t)
    <2>1. t \notin eintr
      BY <1>5 DEF EpAvailTimeout, EintrHeld
    <2>2. Heading(t)'
      BY <1>5, <2>1 DEF EpAvailTimeout, Goto, Heading
    <2> QED
      BY <2>2 DEF EventsCovered, EventCovered
  <1>6. CASE EpSchedule(t)
    <2>1. OpeningFired
      BY <1>6, OneLessFires DEF EpSchedule, Dequeue
    <2>2. /\ UNCHANGED <<action, scheduled, tpc>>
          /\ rdllist' # {} => rdllist # {} /\ \A u \in Tasks : Heading(u) => Heading(u)'
          /\ \A u \in Tasks : Waiting(u)' => Waiting(u)
      BY <1>6 DEF EpSchedule, Goto, Heading, Waiting
    <2> QED
      BY <2>1, <2>2, CoveredKept DEF EpollInv
  <1>7. CASE EpSleep(t)
    <2>1. rdllist' = {}
      BY <1>7 DEF EpSleep, ep_events_available
    <2> QED
      BY <2>1 DEF EventsCovered
  <1>8. CASE EpSleepBreak(t)
    <2>1. rdllist' = rdllist /\ pc'[t] \in {"avail_loop", "check"}
      BY <1>8 DEF EpSleepBreak, Goto
    <2>2. rdllist # {} => t \notin eintr'
      BY <1>8 DEF EpSleepBreak, EintrHeld, ep_events_available
    <2>3. rdllist' # {} => Heading(t)'
      BY <2>1, <2>2 DEF Heading
    <2> QED
      BY <2>3 DEF EventsCovered, EventCovered
  <1>9. CASE EpCheck(t)
    <2>1. OpeningFired
      BY <1>9 DEF EpCheck, OpeningFired
    <2>2. /\ UNCHANGED <<action, scheduled, tpc>>
          /\ rdllist' # {} => rdllist # {} /\ \A u \in Tasks : Heading(u) => Heading(u)'
          /\ \A u \in Tasks : Waiting(u)' => Waiting(u)
      BY <1>9 DEF EpCheck, Return, Goto, ep_events_available, Heading, Waiting
    <2> QED
      BY <2>1, <2>2, CoveredKept DEF EpollInv
  <1>10. CASE EpSteal(t)
    <2>1. OpeningFired
      BY <1>10 DEF EpSteal, OpeningFired
    <2>2. /\ UNCHANGED <<action, scheduled, tpc>>
          /\ rdllist' # {} => rdllist # {} /\ \A u \in Tasks : Heading(u) => Heading(u)'
          /\ \A u \in Tasks : Waiting(u)' => Waiting(u)
      BY <1>10 DEF EpSteal, Goto, Heading, Waiting
    <2> QED
      BY <2>1, <2>2, CoveredKept DEF EpollInv
  <1>11. CASE ep_send_events_proc(t)
    <2>1. Heading(t)'
      BY <1>11 DEF ep_send_events_proc, Goto, Heading
    <2> QED
      BY <2>1 DEF EventsCovered, EventCovered
  <1>12. CASE EpMerge(t)
    <2>1. CASE rdllist' = {}
      BY <2>1 DEF EventsCovered
    <2>2. CASE rdllist' # {}
      <3>1. ep_wake_wq /\ UNCHANGED <<available, wq>>
        BY <1>12, <2>2 DEF EpMerge
      <3>2. \A u \in Tasks : pc[u] \in QueuedPcs \/ pc'[u] \in QueuedPcs => pc'[u] = pc[u]
        BY <1>12 DEF EpMerge, Return, Goto, QueuedPcs
      <3> QED
        BY <3>1, <3>2, WakeCovers DEF EpollInv
    <2> QED
      BY <2>1, <2>2
  <1> QED
    BY <1>1, <1>2, <1>3, <1>4, <1>5, <1>6, <1>7, <1>8, <1>9, <1>10, <1>11, <1>12, Zenon
       DEF PollStep

\* ... and against what makes openings outside.
LEMMA CoveredOther ==
    ASSUME EpollInv, NEW t \in Tasks, OtherStep(t)
    PROVE  EventsCovered'
  <1> /\ TypeOK /\ TaskletOwner /\ LocksHeld /\ EintrHeld /\ QueueTrue /\ EventsCovered
      /\ available \in Int /\ pc \in [Tasks -> EpPcs] /\ state \in [Tasks -> TaskStates]
    BY DEF EpollInv, TypeOK, CoreTypeOK
  <1> USE DEF groupVars, taskletVars, schedVars, coreVars, pollVars, readyVars, epVars
  <1>1. CASE Activate(t) /\ UNCHANGED epVars
    <2>1. OpeningFired
      BY <1>1 DEF Activate, OpeningFired
    <2>2. /\ UNCHANGED <<action, scheduled, tpc>>
          /\ rdllist' # {} => rdllist # {} /\ \A u \in Tasks : Heading(u) => Heading(u)'
          /\ \A u \in Tasks : Waiting(u)' => Waiting(u)
      BY <1>1 DEF Activate, Heading, Waiting
    <2> QED
      BY <2>1, <2>2, CoveredKept DEF EpollInv
  <1>2. CASE fire_tasklet(t) /\ UNCHANGED epVars
    <2>1. UNCHANGED <<rdllist, action, available, tpc>>
      BY <1>2 DEF fire_tasklet
    <2>2. \A u \in Tasks : (Heading(u) <=> Heading(u)') /\ (Waiting(u) <=> Waiting(u)')
      BY <1>2 DEF fire_tasklet, Heading, Waiting
    <2>3. scheduled' \/ tpc \in TaskletOwned
      BY <1>2, Zenon DEF fire_tasklet, TaskletOwner
    <2>4. action = "RESET_WAKEONE" => TaskletComing' \/ tpc \in {"wake", "wakeone"}
      BY <2>1, <2>3 DEF TaskletOwner, TaskletComing, TaskletOwned, TaskletLocked
    <2> QED
      BY <2>1, <2>2, <2>4 DEF EventsCovered, EventCovered
  <1>3. CASE cmgroup_dissociate(t)
    <2>1. OpeningFired
      BY <1>3, OneLessFires DEF cmgroup_dissociate, Dissociate
    <2>2. /\ UNCHANGED <<action, scheduled, tpc>>
          /\ rdllist' # {} => rdllist # {} /\ \A u \in Tasks : Heading(u) => Heading(u)'
          /\ \A u \in Tasks : Waiting(u)' => Waiting(u)
      BY <1>3 DEF cmgroup_dissociate, Heading, Waiting
    <2> QED
      BY <2>1, <2>2, CoveredKept DEF EpollInv
  <1>4. ASSUME NEW n \in 1..MaxConcurrency, cmgroup_set_concurrency_value(t, n)
        PROVE  EventsCovered'
    <2>1. OpeningFired
      <3>1. concurrency_value \in Int /\ n \in Int /\ available \in Int
        BY MaxConcurrencyAssumption DEF TypeOK, CoreTypeOK
      <3> QED
        BY <1>4, <3>1 DEF cmgroup_set_concurrency_value, SetConcurrencyValue, OpeningFired
    <2>2. /\ UNCHANGED <<action, scheduled, tpc>>
          /\ rdllist' # {} => rdllist # {} /\ \A u \in Tasks : Heading(u) => Heading(u)'
          /\ \A u \in Tasks : Waiting(u)' => Waiting(u)
      BY <1>4 DEF cmgroup_set_concurrency_value, Heading, Waiting
    <2> QED
      BY <2>1, <2>2, CoveredKept DEF EpollInv
  <1>5. CASE Block(t)
    <2>1. OpeningFired
      BY <1>5, OneLessFires DEF Block, Dequeue
    <2>2. /\ UNCHANGED <<action, scheduled, tpc>>
          /\ rdllist' # {} => rdllist # {} /\ \A u \in Tasks : Heading(u) => Heading(u)'
          /\ \A u \in Tasks : Waiting(u)' => Waiting(u)
      BY <1>5 DEF Block, Running, Heading, Waiting
    <2> QED
      BY <2>1, <2>2, CoveredKept DEF EpollInv
  <1>6. CASE EpPollZero(t)
    <2>1. OpeningFired
      BY <1>6 DEF EpPollZero, AssociateCurrent, Associate, OpeningFired
    <2>2. /\ UNCHANGED <<action, scheduled, tpc>>
          /\ rdllist' # {} => rdllist # {} /\ \A u \in Tasks : Heading(u) => Heading(u)'
          /\ \A u \in Tasks : Waiting(u)' => Waiting(u)
      BY <1>6 DEF EpPollZero, InUser, Goto, Heading, Waiting
    <2> QED
      BY <2>1, <2>2, CoveredKept DEF EpollInv
  <1>7. ASSUME NEW finite \in BOOLEAN, epoll_wait(t, finite)
        PROVE  EventsCovered'
    <2>1. OpeningFired
      BY <1>7 DEF epoll_wait, OpeningFired
    <2>2. /\ UNCHANGED <<action, scheduled, tpc>>
          /\ rdllist' # {} => rdllist # {} /\ \A u \in Tasks : Heading(u) => Heading(u)'
          /\ \A u \in Tasks : Waiting(u)' => Waiting(u)
      BY <1>7 DEF epoll_wait, InUser, Goto, Heading, Waiting
    <2> QED
      BY <2>1, <2>2, CoveredKept DEF EpollInv
  <1>8. CASE Unblock(t)
    <2>1. OpeningFired
      BY <1>8 DEF Unblock, OpeningFired
    <2>2. /\ UNCHANGED <<action, scheduled, tpc>>
          /\ rdllist' # {} => rdllist # {} /\ \A u \in Tasks : Heading(u) => Heading(u)'
          /\ \A u \in Tasks : Waiting(u)' => Waiting(u)
      BY <1>8 DEF Unblock, Woken, Heading, Waiting
    <2> QED
      BY <2>1, <2>2, CoveredKept DEF EpollInv
  <1>9. CASE Signal(t)
    <2>1. OpeningFired
      BY <1>9 DEF Signal, OpeningFired
    <2>2. /\ UNCHANGED <<action, scheduled, tpc>>
          /\ rdllist' # {} => rdllist # {} /\ \A u \in Tasks : Heading(u) => Heading(u)'
          /\ \A u \in Tasks : Waiting(u)' => Waiting(u)
      BY <1>9 DEF Signal, try_to_wake_up, Woken, Heading, Waiting
    <2> QED
      BY <2>1, <2>2, CoveredKept DEF EpollInv
  <1>10. CASE Expire(t)
    <2>1. OpeningFired
      BY <1>10 DEF Expire, OpeningFired
    <2>2. /\ UNCHANGED <<action, scheduled, tpc>>
          /\ rdllist' # {} => rdllist # {} /\ \A u \in Tasks : Heading(u) => Heading(u)'
          /\ \A u \in Tasks : Waiting(u)' => Waiting(u)
      BY <1>10 DEF Expire, try_to_wake_up, Woken, Heading, Waiting
    <2> QED
      BY <2>1, <2>2, CoveredKept DEF EpollInv
  <1> QED
    BY <1>1, <1>2, <1>3, <1>4, <1>5, <1>6, <1>7, <1>8, <1>9, <1>10, Zenon
       DEF OtherStep, SchedStep, UserStep

\* A ready event stays covered.
LEMMA StepCovered ==
    EpollInv /\ [Next]_<<vars, setup>>
        => EventsCovered'
  <1> SUFFICES ASSUME EpollInv, [Next]_<<vars, setup>>
               PROVE  EventsCovered'
    OBVIOUS
  <1> /\ TypeOK /\ TaskletOwner /\ LocksHeld /\ EintrHeld /\ QueueTrue /\ EventsCovered
      /\ available \in Int /\ pc \in [Tasks -> EpPcs] /\ state \in [Tasks -> TaskStates]
    BY DEF EpollInv, TypeOK, CoreTypeOK
  <1> USE DEF groupVars, taskletVars, schedVars, coreVars, pollVars, readyVars, epVars
  <1>1. CASE TaskletStep
    BY <1>1, CoveredTasklet, Zenon
  <1>2. ASSUME NEW t \in Tasks, PollStep(t)
        PROVE  EventsCovered'
    BY <1>2, CoveredPoll, Zenon
  <1>3. ASSUME NEW t \in Tasks, OtherStep(t)
        PROVE  EventsCovered'
    BY <1>3, CoveredOther, Zenon
  <1>4. ASSUME NEW epi \in setup.items, ep_poll_callback(epi)
        PROVE  EventsCovered'
    <2>1. CASE ovf_active
      <3>1. OpeningFired
        BY <1>4 DEF ep_poll_callback, OpeningFired
      <3>2. UNCHANGED <<rdllist, action, scheduled, tpc, pc, state, eintr>>
        BY <1>4, <2>1 DEF ep_poll_callback
      <3> QED
        BY <3>1, <3>2, CoveredKept DEF EpollInv, Heading, Waiting
    <2>2. CASE ~ovf_active
      <3>1. ep_wake_wq /\ UNCHANGED <<available, wq, pc>>
        BY <1>4, <2>2 DEF ep_poll_callback
      <3> QED
        BY <3>1, WakeCovers DEF EpollInv
    <2> QED
      BY <2>1, <2>2
  <1>5. CASE UNCHANGED <<vars, setup>>
    BY <1>5 DEF vars, EventsCovered, EventCovered, TaskletComing, Heading, Waiting
  <1> QED
    BY <1>1, <1>2, <1>3, <1>4, <1>5, Zenon DEF Next, OtherStep

\* The initial state: nobody waits and nothing is ready.
LEMMA InitEpoll == Init => EpollInv
  <1> SUFFICES ASSUME Init PROVE EpollInv
    OBVIOUS
  <1>1. TypeOK
    <2>1. 0 \in 0..MaxPasses /\ available \in Int /\ wq \in Seq(Tasks)
      BY MaxPassesAssumption, MaxConcurrencyAssumption DEF Init, CoreInit
    <2>2. CoreTypeOK
      BY <2>1, Zenon DEF Init, CoreInit, CoreTypeOK, TaskletPcs, Actions, TaskStates
    <2> QED
      BY <2>2, Zenon DEF Init, TypeOK, EpPcs
  <1>2. TaskletOwner /\ LocksHeld /\ EintrHeld /\ EventsCovered
    BY DEF Init, CoreInit, TaskletOwner, LocksHeld, EintrHeld, EventsCovered,
           TaskletLocked, LockedPcs
  <1>3. QueueTrue
    BY DEF Init, CoreInit, QueueTrue, Distinct, On, QueuedPcs
  <1> QED
    BY <1>1, <1>2, <1>3 DEF EpollInv

\* The inductive invariant holds in every behaviour.
THEOREM EpollInvariant == Spec => []EpollInv
  <1>1. EpollInv /\ [Next]_<<vars, setup>> => EpollInv'
    BY StepTypeOK, StepLocks, StepEintr, StepQueue, StepCovered DEF EpollInv
  <1> QED
    BY <1>1, InitEpoll, PTL DEF Spec

\* Whenever an event is ready and a task sleeps in epoll_wait, some task is on
\* its way to the ready list, or the tasklet is waking one, or it has a request
\* to and is coming if the group has an opening: for any number of tasks and
\* items, whatever the signals, timeouts, limits and events.
THEOREM NoEventStranded == Spec => []NoStrandedEvent
  <1>1. EpollInv => NoStrandedEvent
    <2>1. \A t \in Tasks : Asleep(t) => Waiting(t)
      BY DEF Asleep, Waiting
    <2> QED
      BY <2>1 DEF EpollInv, EventsCovered, EventCovered, NoStrandedEvent
  <1> QED
    BY <1>1, EpollInvariant, PTL

\* ep_poll returns -EINTR only when no event is ready and no scan under way.
THEOREM EintrWithoutEvents == Spec => []EintrMeansNoEvents
  <1>1. EpollInv => EintrMeansNoEvents
    BY DEF EpollInv, EintrHeld, EintrMeansNoEvents
  <1> QED
    BY <1>1, EpollInvariant, PTL
=============================================================================

------------------------------- MODULE CmWait -------------------------------
(***************************************************************************)
(* A group attached to an AIO context: its tasks fetch completions with    *)
(* io_getevents and then pass through cmgroup_wait, which holds them back  *)
(* on the group's own queue while more tasks are runnable than the limit   *)
(* allows (fs/cmgroup.c, cmgroup_wait and __cmgroup_wait).                 *)
(*                                                                         *)
(* Outside cmgroup_wait a task is at pc "user": in user mode, or anywhere  *)
(* in the kernel that has nothing to do with the group, running or asleep. *)
(***************************************************************************)
EXTENDS CmCore

VARIABLES
    pc,      \* [Tasks -> WaitPcs]: where the task is in cmgroup_wait
    sig,     \* tasks with a pending signal
    fin,     \* tasks waiting with a finite `remaining'
    over     \* of these, the ones with remaining <= slack

waitVars == <<pc, sig, fin, over>>
vars == <<coreVars, waitVars>>

\* user: not in cmgroup_wait;  loop: top of the for (;;);
\* enter: __cmgroup_wait before the lock;  queued: on wq, before the test for
\* signals;  sched: about to call schedule();  finish: inside or after
\* schedule(), next is finish_wait;  sigout: finish_wait because of a signal.
WaitPcs == {"user", "loop", "enter", "queued", "sched", "finish", "sigout"}

TypeOK ==
    /\ CoreTypeOK
    /\ pc \in [Tasks -> WaitPcs]
    /\ sig \subseteq Tasks
    /\ fin \subseteq Tasks
    /\ over \subseteq fin

Init ==
    /\ CoreInit
    /\ pc = [t \in Tasks |-> "user"]
    /\ sig = {}
    /\ fin = {}
    /\ over = {}

Goto(t, l) == pc' = [pc EXCEPT ![t] = l]

\* Return from cmgroup_wait and from the system call: pending signals are
\* handled on the way to user mode, and the timer of the call is gone.
Return(t) ==
    /\ Goto(t, "user")
    /\ sig' = sig \ {t}
    /\ fin' = fin \ {t}
    /\ over' = over \ {t}

-----------------------------------------------------------------------------
(* A task outside cmgroup_wait.                                            *)

InUser(t) == Running(t) /\ pc[t] = "user"

\* It joins the group: sys_cmgroup_associate, or io_getevents on the attached
\* context when current->cmgroup is not the group yet.
cmgroup_associate(t) ==
    /\ InUser(t)
    /\ Associate(t)
    /\ UNCHANGED <<groupVars, tasklet_active, wq, lock, taskletVars, on_rq, state,
                   firing, waitVars>>

cmgroup_dissociate(t) ==
    /\ InUser(t)
    /\ Dissociate(t)
    /\ UNCHANGED <<groupVars, tasklet_active, wq, lock, taskletVars, on_rq, state,
                   waitVars>>

cmgroup_set_concurrency_value(t, nthreads) ==
    /\ InUser(t)
    /\ SetConcurrencyValue(t, nthreads)
    /\ UNCHANGED <<action, tasklet_active, wq, taskletVars, schedVars, waitVars>>

\* It blocks on anything else: disk, a mutex, the completion ring.
Block(t) ==
    /\ InUser(t)
    /\ state' = [state EXCEPT ![t] = "INTERRUPTIBLE"]
    /\ Dequeue(t)
    /\ UNCHANGED <<groupVars, tasklet_active, wq, lock, taskletVars, members, waitVars>>

\* What it was blocked on comes about.
Unblock(t) ==
    /\ pc[t] = "user" /\ state[t] = "INTERRUPTIBLE"
    /\ try_to_wake_up(t)
    /\ UNCHANGED <<groupVars, available, tasklet_active, wq, lock, taskletVars,
                   members, charged, on_rq, firing, waitVars>>

\* io_getevents has a result to return: cmgroup_wait with no timeout, with
\* time left or with a timeout already used up.  With a zero timeout, no
\* events or an interrupted wait it returns at once, and nothing changes.
cmgroup_wait(t, remaining) ==
    /\ InUser(t) /\ t \in members
    /\ Goto(t, "loop")
    /\ fin' = IF remaining = "infinite" THEN fin ELSE fin \cup {t}
    /\ over' = IF remaining = "spent" THEN over \cup {t} ELSE over
    /\ UNCHANGED <<coreVars, sig>>

-----------------------------------------------------------------------------
(* cmgroup_wait and __cmgroup_wait.                                        *)

\* The top of the loop: signal_pending and the fast check, without the lock.
WaitLoop(t) ==
    /\ Running(t) /\ pc[t] = "loop"
    /\ IF t \in sig \/ available >= 0
       THEN Return(t)
       ELSE Goto(t, "enter") /\ UNCHANGED <<sig, fin, over>>
    /\ UNCHANGED coreVars

\* No time remains.
WaitNoTime(t) ==
    /\ Running(t) /\ pc[t] = "enter" /\ t \in over
    /\ Return(t)
    /\ UNCHANGED coreVars

\* The critical section: check again under the lock, which the tasklet holds
\* when it looks at the queue, and queue at the tail.
WaitEnqueue(t) ==
    /\ Running(t) /\ pc[t] = "enter" /\ t \notin over
    /\ lock = "free"
    /\ IF available >= 0
       THEN Return(t) /\ UNCHANGED <<wq, state>>
       ELSE /\ wq' = Append(wq, t)
            /\ state' = [state EXCEPT ![t] = "INTERRUPTIBLE"]
            /\ Goto(t, "queued")
            /\ UNCHANGED <<sig, fin, over>>
    /\ UNCHANGED <<groupVars, available, tasklet_active, lock, taskletVars, members,
                   charged, on_rq, firing>>

\* signal_pending after queueing; finish_wait makes the task TASK_RUNNING.
\* Otherwise the timer, if any, is started.
WaitSignalCheck(t) ==
    /\ Running(t) /\ pc[t] = "queued"
    /\ IF t \in sig
       THEN Goto(t, "sigout") /\ state' = [state EXCEPT ![t] = "RUNNING"]
       ELSE Goto(t, "sched") /\ UNCHANGED state
    /\ UNCHANGED <<groupVars, available, tasklet_active, wq, lock, taskletVars,
                   members, charged, on_rq, firing, sig, fin, over>>

\* schedule(): leave the run queue unless woken or signalled before.
WaitSchedule(t) ==
    /\ Running(t) /\ pc[t] = "sched"
    /\ Goto(t, "finish")
    /\ IF state[t] = "INTERRUPTIBLE" /\ t \notin sig
       THEN Dequeue(t) /\ UNCHANGED state
       ELSE /\ state' = [state EXCEPT ![t] = "RUNNING"]
            /\ UNCHANGED <<on_rq, charged, available, firing>>
    /\ UNCHANGED <<groupVars, tasklet_active, wq, lock, taskletVars, members, sig,
                   fin, over>>

\* Fault: a task that was woken forgets that it may still be linked.
FinishLeavesEntry(t) ==
    /\ Running(t) /\ pc[t] \in {"finish", "sigout"}
    /\ IF pc[t] = "sigout" \/ t \in over
       THEN Return(t)
       ELSE Goto(t, "loop") /\ UNCHANGED <<sig, fin, over>>
    /\ UNCHANGED coreVars

\* finish_wait takes the lock only if the task is still linked.  Then around
\* the loop, or out of it after a signal or when no time remains.
WaitFinish(t) ==
    /\ Running(t) /\ pc[t] \in {"finish", "sigout"}
    /\ \/ ~Queued(t) /\ UNCHANGED wq
       \/ \E i \in 1..Len(wq) : wq[i] = t /\ lock = "free" /\ wq' = Unlinked(i)
    /\ IF pc[t] = "sigout" \/ t \in over
       THEN Return(t)
       ELSE Goto(t, "loop") /\ UNCHANGED <<sig, fin, over>>
    /\ UNCHANGED <<groupVars, available, tasklet_active, lock, taskletVars, schedVars,
                   firing>>

-----------------------------------------------------------------------------
(* Signals and timers, which reach a task anywhere in cmgroup_wait.        *)

Signal(t) ==
    /\ pc[t] # "user" /\ t \notin sig
    /\ sig' = sig \cup {t}
    /\ try_to_wake_up(t)
    /\ UNCHANGED <<groupVars, available, tasklet_active, wq, lock, taskletVars,
                   members, charged, on_rq, firing, pc, fin, over>>

\* The time of a finite wait runs out; the hrtimer wakes its task.
Expire(t) ==
    /\ t \in fin /\ t \notin over /\ pc[t] \in {"sched", "finish"}
    /\ over' = over \cup {t}
    /\ try_to_wake_up(t)
    /\ UNCHANGED <<groupVars, available, tasklet_active, wq, lock, taskletVars,
                   members, charged, on_rq, firing, pc, sig, fin>>

-----------------------------------------------------------------------------
WaitStep(t) ==
    \/ WaitLoop(t) \/ WaitNoTime(t) \/ WaitEnqueue(t) \/ WaitSignalCheck(t)
    \/ WaitSchedule(t) \/ WaitFinish(t)

UserStep(t) ==
    \/ cmgroup_associate(t) \/ cmgroup_dissociate(t)
    \/ \E n \in 1..MaxConcurrency : cmgroup_set_concurrency_value(t, n)
    \/ Block(t)
    \/ \E remaining \in {"infinite", "left", "spent"} : cmgroup_wait(t, remaining)

SchedStep(t) == (Activate(t) \/ fire_tasklet(t)) /\ UNCHANGED waitVars

TaskletStep ==
    /\ \/ TaskletStart \/ TaskletLock \/ TaskletTestWakeall \/ TaskletHandOver
       \/ TaskletWake \/ TaskletClear \/ TaskletRecheck \/ TaskletReread
       \/ TaskletReassert
    /\ UNCHANGED waitVars

Next ==
    \/ TaskletStep
    \/ \E t \in Tasks :
        \/ SchedStep(t) \/ WaitStep(t) \/ UserStep(t)
        \/ Unblock(t) \/ Signal(t) \/ Expire(t)

Spec == Init /\ [][Next]_vars

\* Softirqs and runnable tasks make progress, strongly so because each is at
\* one place at a time, where at most a lock it must queue for (a fair ticket
\* spinlock) is in its way; wakeups are completed, and time passes.  Nothing
\* is assumed of what tasks do outside cmgroup_wait or of what unblocks them.
Fairness ==
    /\ SF_vars(TaskletStep)
    /\ \A t \in Tasks :
        /\ WF_vars(SchedStep(t))
        /\ SF_vars(WaitStep(t))
        /\ SF_vars(Expire(t))

FairSpec == Spec /\ Fairness

-----------------------------------------------------------------------------
(* Properties.                                                             *)

\* A task asleep in cmgroup_wait that nobody has woken.
Parked(t) == pc[t] = "finish" /\ t \notin on_rq /\ state[t] = "INTERRUPTIBLE"

\* Somebody is still going to look at the queue: a tasklet that is scheduled,
\* running and not yet on its way out, or about to be fired.
Covered ==
    \/ scheduled
    \/ tpc \in {"again", "test", "wake", "recheck", "reread", "reassert"}
    \/ firing # {}

\* No wakeup is lost: whenever the group has an opening and a task sleeps in
\* cmgroup_wait, the tasklet is on its way to it.  The opening may appear at
\* any point of the waiter's way to sleep and of the tasklet's way out.
NoLostWakeup == available > 0 /\ (\E t \in Tasks : Parked(t)) => Covered

\* tasklet_active is set exactly while one instance of the tasklet is
\* scheduled or owns it, never two: otherwise instances would share the
\* flag, and an opening reported to neither would be lost.
TaskletOwnership ==
    /\ tasklet_active <=> (scheduled \/ tpc \in TaskletOwned)
    /\ ~(scheduled /\ tpc \in TaskletOwned)

\* The wait entry lives on the stack of __cmgroup_wait: it is linked at most
\* once and never when its task has left that function.
NoDanglingEntry ==
    /\ \A i, j \in 1..Len(wq) : wq[i] = wq[j] => i = j
    /\ \A t \in Tasks : Queued(t) => pc[t] \in {"queued", "sched", "finish", "sigout"}

\* The strengthening that makes NoLostWakeup inductive: the queue does not
\* change under a tasklet that holds the lock; who is asleep in the group is
\* on the queue, and who is being woken is not yet runnable; a tasklet on its
\* way out leaves nobody it could wake; and the covering holds for whoever is
\* queued, on the way to sleep included.
AioTasklet == action = "WAKEALL" /\ tpc # "wakeone"
LockHeld == lock = "tasklet" <=> tpc \in TaskletLocked
Waiting(t) == Queued(t) /\ state[t] = "INTERRUPTIBLE"
SleeperQueued ==
    \A t \in Tasks : pc[t] \in {"queued", "sched", "finish"}
                       /\ state[t] = "INTERRUPTIBLE" => Queued(t)
WakingAsleep == \A t \in Tasks : state[t] = "WAKING" => t \notin on_rq
NobodyLeft == tpc = "clear" => \A t \in Tasks : ~Waiting(t)
WaitersCovered == available > 0 /\ (\E t \in Tasks : Waiting(t)) => Covered

IInv ==
    /\ TypeOK /\ AioTasklet /\ TaskletOwnership /\ LockHeld
    /\ NoDanglingEntry /\ SleeperQueued /\ WakingAsleep
    /\ NobodyLeft /\ WaitersCovered

\* The group's counters, as the accounting of CmAccount sees them.
Account == INSTANCE CmAccount WITH
    Groups <- {"cmgroup"},
    NULL <- "NULL",
    available <- [g \in {"cmgroup"} |-> available],
    concurrency_value <- [g \in {"cmgroup"} |-> concurrency_value],
    cmgroup <- [t \in Tasks |-> IF t \in members THEN "cmgroup" ELSE "NULL"],
    moving <- {},
    live <- Tasks

\* Every step of the group at work is a step of the accounting: the waits and
\* the tasklet add no way to change the counter or a charge.
AccountSpec == Account!Spec

\* A sleeping waiter does not stay asleep while the group has an opening.
WaiterReleased ==
    \A t \in Tasks :
        (Parked(t) /\ available > 0) ~> (~Parked(t) \/ available <= 0)
=============================================================================

------------------------------- MODULE CmCore -------------------------------
(***************************************************************************)
(* One concurrency management group at work: its counter, its tasklet, and *)
(* the tasks that it charges (fs/cmgroup.c with the scheduler's hooks).    *)
(*                                                                         *)
(* The counter `available' is updated without any lock; the wait queue and *)
(* `action' are only touched under the group's lock; `tasklet_active' is a *)
(* compare-and-swap flag.  Each step below performs at most one access to  *)
(* a location that others change without holding the lock, so the steps    *)
(* interleave as the atomic operations of the code do.                     *)
(*                                                                         *)
(* The module gives the parts shared by the two kinds of waiting: CmWait   *)
(* (AIO, local queue) and CmEpoll (queue and lock of an epoll descriptor)  *)
(* add what their tasks do.  What wq and lock name is the queue and the    *)
(* spinlock that cmgroup->wq and cmgroup->lock point to.                   *)
(***************************************************************************)
EXTENDS Integers, Sequences, FiniteSets

CONSTANTS
    Tasks,             \* tasks that may join the group
    MaxConcurrency,    \* CMGROUP_MAX_CONCURRENCY_VALUE
    MaxPasses          \* max_passes of cmgroup_tasklet

ASSUME TasksAssumption == IsFiniteSet(Tasks)
ASSUME HolderAssumption == Tasks \cap {"free", "tasklet"} = {}
ASSUME MaxConcurrencyAssumption == MaxConcurrency \in Nat \ {0}
ASSUME MaxPassesAssumption == MaxPasses \in Nat \ {0}

VARIABLES
    \* struct cmgroup
    concurrency_value, available, action, tasklet_active,
    wq,          \* cmgroup->wq, as the sequence of the queued tasks
    lock,        \* holder of cmgroup->lock: "free", "tasklet" or a task
    \* the tasklet
    scheduled,   \* TASKLET_STATE_SCHED
    tpc,         \* where cmgroup_tasklet is; "idle" when not running
    pass,        \* its local variable
    \* the tasks
    members,     \* tasks whose task->cmgroup is this group
    charged,     \* tasks with task->cmgroup_charged
    on_rq,       \* tasks on a run queue
    state,       \* [Tasks -> TaskStates]: task->state
    firing       \* tasks between the update of available that calls for
                 \* fire_tasklet and that call

groupVars == <<concurrency_value, action>>
taskletVars == <<scheduled, tpc, pass>>
schedVars == <<members, charged, on_rq, state>>
coreVars == <<concurrency_value, available, action, tasklet_active, wq, lock,
              scheduled, tpc, pass, members, charged, on_rq, state, firing>>

Actions == {"NEUTRAL", "WAKEALL", "RESET_WAKEONE"}
TaskStates == {"RUNNING", "INTERRUPTIBLE", "UNINTERRUPTIBLE", "WAKING"}

\* Where the tasklet holds the lock, and where it owns tasklet_active.
TaskletLocked == {"test", "wake", "wakeone", "clear", "recheck"}
TaskletOwned == TaskletLocked \cup {"again"}
TaskletPcs == TaskletOwned \cup {"idle", "reread", "reassert"}

CoreTypeOK ==
    /\ concurrency_value \in 1..MaxConcurrency
    /\ available \in Int
    /\ action \in Actions
    /\ tasklet_active \in BOOLEAN
    /\ wq \in Seq(Tasks)
    /\ lock \in Tasks \cup {"free", "tasklet"}
    /\ scheduled \in BOOLEAN
    /\ tpc \in TaskletPcs
    /\ pass \in 0..MaxPasses
    /\ members \subseteq Tasks
    /\ charged \subseteq Tasks
    /\ on_rq \subseteq Tasks
    /\ state \in [Tasks -> TaskStates]
    /\ firing \subseteq Tasks

\* cmgroup_alloc: all openings free, nobody associated, nothing scheduled.
CoreInit ==
    /\ concurrency_value \in 1..MaxConcurrency
    /\ available = concurrency_value
    /\ action = "WAKEALL"
    /\ tasklet_active = FALSE
    /\ wq = <<>>
    /\ lock = "free"
    /\ scheduled = FALSE
    /\ tpc = "idle"
    /\ pass = 0
    /\ members = {}
    /\ charged = {}
    /\ on_rq = Tasks
    /\ state = [t \in Tasks |-> "RUNNING"]
    /\ firing = {}

\* A task that can execute its next step.
Running(t) == t \in on_rq /\ t \notin firing

Queued(t) == \E i \in 1..Len(wq) : wq[i] = t

\* The queue without the i-th entry: __remove_wait_queue, list_del_init.
Unlinked(i) == [j \in 1..(Len(wq) - 1) |-> IF j < i THEN wq[j] ELSE wq[j + 1]]

-----------------------------------------------------------------------------
(* The scheduler's side.                                                   *)

\* try_to_wake_up on a task in TASK_INTERRUPTIBLE.  A task still on its run
\* queue just runs on; one that left it becomes TASK_WAKING, and is enqueued
\* by Activate, at once or by the CPU the wakeup was queued to.  A task whose
\* dequeue is not over holds its run queue lock and cannot be woken yet.
Woken(t) == [state EXCEPT ![t] = IF t \in on_rq THEN "RUNNING" ELSE "WAKING"]

try_to_wake_up(t) ==
    IF state[t] = "INTERRUPTIBLE"
    THEN t \notin firing /\ state' = Woken(t)
    ELSE UNCHANGED state

\* Fault: the tasklet is fired on the transition to 0, not to 1.
OneLessFiresEarly(t) ==
    /\ charged' = charged \ {t}
    /\ available' = available + 1
    /\ firing' = IF available + 1 = 0 THEN firing \cup {t} ELSE firing

\* cmgroup_one_less_runnable up to the call of fire_tasklet.
OneLessRunnable(t) ==
    /\ charged' = charged \ {t}
    /\ available' = available + 1
    /\ firing' = IF available + 1 = 1 THEN firing \cup {t} ELSE firing

\* __schedule with task->state # TASK_RUNNING: deactivate_task.
Dequeue(t) ==
    /\ on_rq' = on_rq \ {t}
    /\ IF t \in members /\ t \in charged
       THEN OneLessRunnable(t)
       ELSE UNCHANGED <<charged, available, firing>>

\* ttwu_do_activate: the task is enqueued, charged, and TASK_RUNNING.
Activate(t) ==
    /\ state[t] = "WAKING"
    /\ state' = [state EXCEPT ![t] = "RUNNING"]
    /\ on_rq' = on_rq \cup {t}
    /\ IF t \in members /\ t \notin charged
       THEN /\ charged' = charged \cup {t}
            /\ available' = available - 1
       ELSE UNCHANGED <<charged, available>>
    /\ UNCHANGED <<groupVars, tasklet_active, wq, lock, taskletVars, members, firing>>

\* fire_tasklet, the end of a step that set `firing'.  A caller that holds
\* the group's lock (cmgroup_set_concurrency_value) releases it afterwards.
fire_tasklet(t) ==
    /\ t \in firing
    /\ firing' = firing \ {t}
    /\ tasklet_active' = TRUE
    /\ scheduled' = (scheduled \/ ~tasklet_active)
    /\ lock' = IF lock = t THEN "free" ELSE lock
    /\ UNCHANGED <<groupVars, available, wq, tpc, pass, schedVars>>

-----------------------------------------------------------------------------
(* Association and the limit.                                              *)

\* Fault: the task is marked charged but the counter is left alone.
AssociateUncounted(t) ==
    /\ t \notin members
    /\ members' = members \cup {t}
    /\ charged' = charged \cup {t}
    /\ UNCHANGED available

\* cmgroup_associate of the current task, not yet a member.
Associate(t) ==
    /\ t \notin members
    /\ members' = members \cup {t}
    /\ charged' = charged \cup {t}
    /\ available' = available - 1

\* cmgroup_dissociate, by the syscall, on exit or for another group.
Dissociate(t) ==
    /\ t \in members
    /\ members' = members \ {t}
    /\ IF t \in charged
       THEN OneLessRunnable(t)
       ELSE UNCHANGED <<charged, available, firing>>

\* sys_cmgroup_set_concurrency_value, under the lock.
SetConcurrencyValue(t, nthreads) ==
    LET change == nthreads - concurrency_value
        new == available + change
        old == new - change
    IN  /\ lock = "free"
        /\ concurrency_value' = nthreads
        /\ available' = new
        /\ IF old < 1 /\ new >= 1
           THEN firing' = firing \cup {t} /\ lock' = t
           ELSE UNCHANGED <<firing, lock>>

-----------------------------------------------------------------------------
(* cmgroup_tasklet.  The reference it holds is the subject of CmLife.      *)

\* tasklet_action: clear SCHED, then run the function.
TaskletStart ==
    /\ scheduled /\ tpc = "idle"
    /\ scheduled' = FALSE
    /\ tpc' = "again"
    /\ pass' = 0
    /\ UNCHANGED <<groupVars, available, tasklet_active, wq, lock, schedVars, firing>>

\* again: cmgroup_lock_irqsave.
TaskletLock ==
    /\ tpc = "again" /\ lock = "free"
    /\ lock' = "tasklet"
    /\ tpc' = "test"
    /\ UNCHANGED <<groupVars, available, tasklet_active, wq, scheduled, pass,
                   schedVars, firing>>

\* The dispatch on action up to the decision, and the tests of again_wakeall.
TaskletTestNeutral ==
    /\ tpc = "test" /\ action = "NEUTRAL"
    /\ tpc' = "clear"
    /\ UNCHANGED <<groupVars, available, tasklet_active, wq, lock, scheduled, pass,
                   schedVars, firing>>

\* Fault: the request is reset even if there is no opening to serve it with.
TestWakeoneResets ==
    /\ tpc = "test" /\ action = "RESET_WAKEONE"
    /\ tpc' = IF available > 0 THEN "wakeone" ELSE "recheck"
    /\ action' = "NEUTRAL"
    /\ UNCHANGED <<concurrency_value, available, tasklet_active, wq, lock, scheduled,
                   pass, schedVars, firing>>

TaskletTestWakeone ==
    /\ tpc = "test" /\ action = "RESET_WAKEONE"
    /\ IF available > 0
       THEN tpc' = "wakeone" /\ action' = "NEUTRAL"
       ELSE tpc' = "recheck" /\ UNCHANGED action
    /\ UNCHANGED <<concurrency_value, available, tasklet_active, wq, lock, scheduled,
                   pass, schedVars, firing>>

TaskletTestWakeall ==
    /\ tpc = "test" /\ action = "WAKEALL"
    /\ IF wq = <<>> THEN tpc' = "clear" /\ UNCHANGED pass
       ELSE /\ pass < MaxPasses
            /\ pass' = pass + 1
            /\ tpc' = IF available > 0 THEN "wake" ELSE "recheck"
    /\ UNCHANGED <<groupVars, available, tasklet_active, wq, lock, scheduled,
                   schedVars, firing>>

\* Too many passes: schedule a new instance, which inherits tasklet_active.
TaskletHandOver ==
    /\ tpc = "test" /\ action = "WAKEALL" /\ wq # <<>> /\ pass = MaxPasses
    /\ scheduled' = TRUE
    /\ tpc' = "idle"
    /\ lock' = "free"
    /\ UNCHANGED <<groupVars, available, tasklet_active, wq, pass, schedVars, firing>>

\* wake_up_locked(cmgroup->wq): the first task in the queue that is wakeable.
Wakeable(i) == i \in 1..Len(wq) /\ state[wq[i]] = "INTERRUPTIBLE"
FirstWakeable(i) == Wakeable(i) /\ \A j \in 1..(i - 1) : ~Wakeable(j)

wake_up_locked ==
    \/ \E i \in 1..Len(wq) :
            FirstWakeable(i) /\ wq[i] \notin firing /\ state' = Woken(wq[i])
    \/ (\A i \in 1..Len(wq) : ~Wakeable(i)) /\ UNCHANGED state

\* ... with cmgroup_wake_function, which unlinks the entry and counts it in
\* n_waked: the tasklet goes on until nobody can be woken.
TaskletWake ==
    /\ tpc = "wake"
    /\ \/ \E i \in 1..Len(wq) :
            /\ FirstWakeable(i)
            /\ wq[i] \notin firing
            /\ state' = Woken(wq[i])
            /\ wq' = Unlinked(i)
            /\ tpc' = "test"
       \/ /\ \A i \in 1..Len(wq) : ~Wakeable(i)
          /\ tpc' = "clear"
          /\ UNCHANGED <<state, wq>>
    /\ UNCHANGED <<groupVars, available, tasklet_active, lock, scheduled, pass,
                   members, charged, on_rq, firing>>

\* ... with default_wake_function, on the queue of an epoll descriptor: the
\* entry stays linked and n_waked is not counted, so one wakeup is all.
TaskletWakeOne ==
    /\ tpc \in {"wake", "wakeone"}
    /\ tpc' = "clear"
    /\ wake_up_locked
    /\ UNCHANGED <<groupVars, available, tasklet_active, wq, lock, scheduled, pass,
                   members, charged, on_rq, firing>>

\* out_tasklet: give up tasklet_active under the lock, unlock and return.
TaskletClear ==
    /\ tpc = "clear"
    /\ tasklet_active' = FALSE
    /\ lock' = "free"
    /\ tpc' = "idle"
    /\ UNCHANGED <<groupVars, available, wq, scheduled, pass, schedVars, firing>>

\* Fault: the tasklet ends without looking for openings at the last instant.
RecheckSkipped ==
    /\ tpc = "recheck"
    /\ tasklet_active' = FALSE
    /\ lock' = "free"
    /\ tpc' = "idle"
    /\ UNCHANGED <<groupVars, available, wq, scheduled, pass, schedVars, firing>>

\* out_recheck: give up tasklet_active, unlock ...
TaskletRecheck ==
    /\ tpc = "recheck"
    /\ tasklet_active' = FALSE
    /\ lock' = "free"
    /\ tpc' = "reread"
    /\ UNCHANGED <<groupVars, available, wq, scheduled, pass, schedVars, firing>>

\* ... look again for openings that came at the last instant ...
TaskletReread ==
    /\ tpc = "reread"
    /\ tpc' = IF available <= 0 THEN "idle" ELSE "reassert"
    /\ UNCHANGED <<groupVars, available, tasklet_active, wq, lock, scheduled, pass,
                   schedVars, firing>>

\* Fault: the outcome of the compare-and-swap is ignored.
ReassertIgnoresCas ==
    /\ tpc = "reassert"
    /\ tasklet_active' = TRUE
    /\ tpc' = "again"
    /\ UNCHANGED <<groupVars, available, wq, lock, scheduled, pass, schedVars, firing>>

\* ... and reassert tasklet_active, unless another instance was spawned.
TaskletReassert ==
    /\ tpc = "reassert"
    /\ tasklet_active' = TRUE
    /\ tpc' = IF tasklet_active THEN "idle" ELSE "again"
    /\ UNCHANGED <<groupVars, available, wq, lock, scheduled, pass, schedVars, firing>>
=============================================================================

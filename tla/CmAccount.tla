------------------------------ MODULE CmAccount ------------------------------
(***************************************************************************)
(* Scheduler accounting of concurrency management groups.                  *)
(*                                                                         *)
(* Every group keeps an atomic counter, cmgroup->available, that is meant  *)
(* to equal concurrency_value minus the number of runnable tasks of the    *)
(* group.  The counter is maintained incrementally and without a lock: by  *)
(* the hooks in enqueue_task/dequeue_task (kernel/sched/core.c), by the    *)
(* association of a task with a group and its end (fs/cmgroup.c), by fork  *)
(* and exit, and by cmgroup_set_concurrency_value.  Each task carries its  *)
(* side of the bargain in task->cmgroup and task->cmgroup_charged.         *)
(*                                                                         *)
(* A task's two fields are only touched by the task itself while it is     *)
(* current and by the scheduler while it is not, so the field updates and  *)
(* the one atomic operation of a hook form one step here.                  *)
(***************************************************************************)
EXTENDS Integers, FiniteSets

CONSTANTS
    Tasks,             \* task_struct slots; a slot is reused after exit
    Groups,            \* concurrency management groups
    NULL,              \* task->cmgroup == NULL
    MaxConcurrency     \* CMGROUP_MAX_CONCURRENCY_VALUE

ASSUME TasksAssumption == IsFiniteSet(Tasks)
ASSUME NullAssumption == NULL \notin Groups
ASSUME MaxConcurrencyAssumption == MaxConcurrency \in Nat \ {0}

VARIABLES
    available,           \* [Groups -> Int]: cmgroup->available
    concurrency_value,   \* [Groups -> 1..MaxConcurrency]
    cmgroup,             \* [Tasks -> Groups \cup {NULL}]: task->cmgroup
    charged,             \* tasks with task->cmgroup_charged
    on_rq,               \* tasks on a run queue
    moving,              \* tasks dequeued with NOCMGROUP and not back yet
    live                 \* slots that hold a task

vars == <<available, concurrency_value, cmgroup, charged, on_rq, moving, live>>

\* A task that occupies a place on the run queues: on one, or carried from
\* one to another by a dequeue/enqueue pair under the run queue locks.
Runnable(t) == t \in live /\ (t \in on_rq \/ t \in moving)

TypeOK ==
    /\ available \in [Groups -> Int]
    /\ concurrency_value \in [Groups -> 1..MaxConcurrency]
    /\ cmgroup \in [Tasks -> Groups \cup {NULL}]
    /\ charged \subseteq Tasks
    /\ on_rq \subseteq Tasks
    /\ moving \subseteq Tasks
    /\ live \subseteq Tasks

\* cmgroup_newgroup: a new group has nobody in it and all of its openings
\* free.  The groups exist from the start; any initial size is possible.
Init ==
    /\ concurrency_value \in [Groups -> 1..MaxConcurrency]
    /\ available = concurrency_value
    /\ cmgroup = [t \in Tasks |-> NULL]
    /\ charged = {}
    /\ live \in SUBSET Tasks
    /\ on_rq = live
    /\ moving = {}

-----------------------------------------------------------------------------
(* The two hooks: __cmgroup_task_enqueued and __cmgroup_task_dequeued      *)
(* behind the tests of the cmgroup_task_enqueued/dequeued macros.          *)

cmgroup_task_enqueued(t, nocmgroup) ==
    IF cmgroup[t] # NULL /\ ~nocmgroup /\ t \notin charged
    THEN /\ charged' = charged \cup {t}
         /\ available' = [available EXCEPT ![cmgroup[t]] = @ - 1]
    ELSE UNCHANGED <<charged, available>>

cmgroup_task_dequeued(t, nocmgroup) ==
    IF cmgroup[t] # NULL /\ ~nocmgroup /\ t \in charged
    THEN /\ charged' = charged \ {t}
         /\ available' = [available EXCEPT ![cmgroup[t]] = @ + 1]
    ELSE UNCHANGED <<charged, available>>

-----------------------------------------------------------------------------
(* The scheduler.                                                          *)

\* __schedule: the current task goes to sleep, deactivate_task(DEQUEUE_SLEEP).
Deactivate(t) ==
    /\ t \in live /\ t \in on_rq
    /\ on_rq' = on_rq \ {t}
    /\ cmgroup_task_dequeued(t, FALSE)
    /\ UNCHANGED <<concurrency_value, cmgroup, moving, live>>

\* try_to_wake_up -> ttwu_activate: a sleeping task is put on a run queue.
Activate(t) ==
    /\ t \in live /\ t \notin on_rq /\ t \notin moving
    /\ on_rq' = on_rq \cup {t}
    /\ cmgroup_task_enqueued(t, FALSE)
    /\ UNCHANGED <<concurrency_value, cmgroup, moving, live>>

\* Fault: DEQUEUE_NOCMGROUP is forgotten on one side of a requeue.
RequeueOutUncharges(t) ==
    /\ t \in live /\ t \in on_rq
    /\ on_rq' = on_rq \ {t}
    /\ moving' = moving \cup {t}
    /\ cmgroup_task_dequeued(t, FALSE)
    /\ UNCHANGED <<concurrency_value, cmgroup, live>>

\* Migration, load balancing, a change of priority, class or task group: the
\* task leaves its queue with DEQUEUE_NOCMGROUP ...
RequeueOut(t) ==
    /\ t \in live /\ t \in on_rq
    /\ on_rq' = on_rq \ {t}
    /\ moving' = moving \cup {t}
    /\ cmgroup_task_dequeued(t, TRUE)
    /\ UNCHANGED <<concurrency_value, cmgroup, live>>

\* ... and comes back with ENQUEUE_NOCMGROUP.  It may be running meanwhile
\* (sched_setscheduler on the current task of another CPU).
RequeueIn(t) ==
    /\ t \in moving
    /\ on_rq' = on_rq \cup {t}
    /\ moving' = moving \ {t}
    /\ cmgroup_task_enqueued(t, TRUE)
    /\ UNCHANGED <<concurrency_value, cmgroup, live>>

-----------------------------------------------------------------------------
(* Association, by the current task for itself.                            *)

\* cmgroup_dissociate followed by the assignments of cmgroup_associate: the
\* task gives back its charge on the old group and takes one on the new.
\* Associating with the group the task is already in changes nothing.
cmgroup_associate(t, g) ==
    /\ Runnable(t)
    /\ g # cmgroup[t]
    /\ LET old == cmgroup[t] IN
       available' = [h \in Groups |->
           IF h = g THEN available[h] - 1
           ELSE IF h = old /\ t \in charged THEN available[h] + 1
           ELSE available[h]]
    /\ cmgroup' = [cmgroup EXCEPT ![t] = g]
    /\ charged' = charged \cup {t}
    /\ UNCHANGED <<concurrency_value, on_rq, moving, live>>

\* The state change of cmgroup_dissociate, shared by the syscall and by exit.
GiveUpGroup(t) ==
    /\ cmgroup' = [cmgroup EXCEPT ![t] = NULL]
    /\ IF cmgroup[t] # NULL /\ t \in charged
       THEN /\ charged' = charged \ {t}
            /\ available' = [available EXCEPT ![cmgroup[t]] = @ + 1]
       ELSE UNCHANGED <<charged, available>>

cmgroup_dissociate(t) ==
    /\ Runnable(t)
    /\ cmgroup[t] # NULL
    /\ GiveUpGroup(t)
    /\ UNCHANGED <<concurrency_value, on_rq, moving, live>>

-----------------------------------------------------------------------------
(* Fork, exit, and the change of the limit.                                *)

\* dup_task_struct: the child starts outside every group but with whatever
\* cmgroup_charged its parent had; wake_up_new_task puts it on a run queue.
Fork(parent, child) ==
    /\ Runnable(parent) /\ child \notin live
    /\ live' = live \cup {child}
    /\ cmgroup' = [cmgroup EXCEPT ![child] = NULL]
    /\ charged' = IF parent \in charged THEN charged \cup {child} ELSE charged \ {child}
    /\ on_rq' = on_rq \cup {child}
    /\ UNCHANGED <<available, concurrency_value, moving>>

\* do_exit: cmgroup_dissociate, TASK_DEAD and the last schedule(), whose
\* dequeue_task finds task->cmgroup == NULL.
Exit(t) ==
    /\ t \in live /\ t \in on_rq
    /\ GiveUpGroup(t)
    /\ live' = live \ {t}
    /\ on_rq' = on_rq \ {t}
    /\ UNCHANGED <<concurrency_value, moving>>

\* sys_cmgroup_set_concurrency_value, under attached_mtx and the group lock.
cmgroup_set_concurrency_value(g, nthreads) ==
    /\ concurrency_value' = [concurrency_value EXCEPT ![g] = nthreads]
    /\ available' = [available EXCEPT ![g] = @ + (nthreads - concurrency_value[g])]
    /\ UNCHANGED <<cmgroup, charged, on_rq, moving, live>>

Next ==
    \/ \E t \in Tasks :
        \/ Deactivate(t) \/ Activate(t)
        \/ RequeueOut(t) \/ RequeueIn(t)
        \/ cmgroup_dissociate(t)
        \/ Exit(t)
    \/ \E t \in Tasks, g \in Groups : cmgroup_associate(t, g)
    \/ \E p, c \in Tasks : Fork(p, c)
    \/ \E g \in Groups, n \in 1..MaxConcurrency :
        cmgroup_set_concurrency_value(g, n)

Spec == Init /\ [][Next]_vars

-----------------------------------------------------------------------------
(* Properties.                                                             *)

RunnableIn(g) == {t \in Tasks : Runnable(t) /\ cmgroup[t] = g}

\* The counter means what struct cmgroup says it means: at every moment
\* available equals the concurrency value minus the number of runnable tasks
\* of the group, whatever wakeups, sleeps, migrations, forks, exits, moves
\* between groups and changes of the limit happened before.
Accounting ==
    \A g \in Groups :
        available[g] = concurrency_value[g] - Cardinality(RunnableIn(g))

\* A task of a group carries a charge exactly while it is runnable, so no
\* charge is lost or taken twice; a task outside every group may have a stale
\* cmgroup_charged (fork copies it), and that is harmless.
ChargedIffRunnable ==
    \A t \in Tasks : cmgroup[t] # NULL => (t \in charged <=> Runnable(t))

\* The requeue window: a task in flight between two run queues is a live task
\* on neither.
RequeueWindow == \A t \in Tasks : t \in moving => t \in live /\ t \notin on_rq

\* The inductive invariant behind the properties.
IInv == TypeOK /\ RequeueWindow /\ ChargedIffRunnable /\ Accounting

\* available stays within the limit above and the number of task slots
\* below, so the 32-bit counter cannot wrap for any admissible limit.
AvailableBounded ==
    \A g \in Groups : available[g] \in (1 - Cardinality(Tasks))..MaxConcurrency
=============================================================================

------------------------------- MODULE CmSched -------------------------------
(***************************************************************************)
(* The core scheduler (kernel/sched/core.c) under the cmgroup hooks: run   *)
(* queues and their locks, the two locks of a wakeup, the switch between   *)
(* two tasks, the wake list and its interrupt, migration by the stopper    *)
(* threads, load balancing, changes of policy and affinity, fork, exit and *)
(* CPU hotplug.                                                            *)
(*                                                                         *)
(* CmAccount states what these paths may do to the counters; here every    *)
(* one of its steps is taken where the code takes it, on its variables, so *)
(* that SchedSpec implements CmAccount's Spec with the identity mapping.   *)
(*                                                                         *)
(* A region under one run queue lock is one step, except where the hooks   *)
(* make a difference inside it: a dequeue/enqueue pair is two steps, and   *)
(* crit[c] is the critical section CPU c is in.  p->on_rq is not cleared   *)
(* by such a pair, so it is Runnable(p).  Which of the eligible tasks or   *)
(* CPUs a class picks is left open.                                        *)
(***************************************************************************)
EXTENDS CmAccount, Sequences, SequencesExt

CONSTANTS
    Cpus,       \* the possible CPUs
    Wakers,     \* contexts that call try_to_wake_up
    First,      \* the tasks of the initial state
    Idle,       \* rq->idle
    Stopper,    \* rq->stop
    Scripts     \* sequences of system calls and hotplug operations

VARIABLES
    cpu,         \* [Tasks -> Cpus]: task_cpu
    state,       \* [Tasks -> {"running", "sleep", "waking", "dead"}]: p->state
    step,        \* [Tasks -> ...]: where a task is in its wait loop or exit
    cond,        \* tasks whose wait condition holds
    policy,      \* [Tasks -> {"fair", "rt"}]
    boosted,     \* tasks running at an inherited RT priority
    allowed,     \* [Tasks -> SUBSET Cpus]: p->cpus_allowed
    on_cpu,      \* tasks with p->on_cpu
    curr,        \* [Cpus -> task, Idle or Stopper]: rq->curr
    sched,       \* [Cpus -> ...]: where CPU c is in __schedule, and with which prev
    lock,        \* CPUs whose rq->lock is held
    pi_lock,     \* tasks whose pi_lock is held
    crit,        \* [Cpus -> section with dequeue/enqueue pairs, or NULL]
    wake_list,   \* [Cpus -> SUBSET Tasks]: rq->wake_list
    ipi,         \* CPUs with a reschedule interrupt on its way
    wk,          \* [Wakers -> [pc, task]]: progress of try_to_wake_up
    works,       \* [Cpus -> set of stopper works]
    online, active, \* cpu_online_mask, cpu_active_mask
    dying,       \* the CPU stop_machine takes down, or NULL
    ops          \* the operations to come, one of Scripts at first

cpuVars == <<curr, sched, on_cpu>>
lockVars == <<lock, pi_lock, crit>>
wakeVars == <<wake_list, ipi, wk>>
plugVars == <<online, active, dying>>
attrVars == <<policy, boosted, allowed>>
svars == <<vars, cpu, state, step, cond, attrVars, cpuVars, lockVars, wakeVars,
           works, plugVars, ops>>

Queued(c) == {t \in on_rq : cpu[t] = c}
Realtime(t) == policy[t] = "rt" \/ t \in boosted

\* CPU c executes neither the scheduler nor a critical section.
Open(c) == c \in online /\ sched[c].pc = "none" /\ crit[c] = NULL
\* t executes on c.
At(c, t) == curr[c] = t /\ Open(c)
\* stop_machine: every CPU sits in its stopper thread, with interrupts off.
Stopped ==
    /\ dying # NULL
    /\ \A c \in online : curr[c] = Stopper /\ sched[c].pc = "none"
    /\ \A c \in online \ {dying} : crit[c] = NULL
    /\ \A w \in Wakers : wk[w].pc \in {"idle", "lock"}
\* The stopper thread of c is runnable.
StopWork(c) == works[c] # {} \/ dying # NULL

\* The next operation of the script is op.
Call(op) == ops # <<>> /\ Head(ops) = op /\ ops' = Tail(ops)

\* sched_init: the idle task runs on every CPU, the first tasks are queued.
SchedInit ==
    /\ Init /\ live = First /\ concurrency_value = [g \in Groups |-> 1]
    /\ cpu \in [Tasks -> Cpus] /\ \A t, u \in Tasks : cpu[t] = cpu[u]
    /\ state = [t \in Tasks |-> "running"]
    /\ step = [t \in Tasks |-> "run"]
    /\ cond = {}
    /\ policy = [t \in Tasks |-> "fair"]
    /\ boosted = {}
    /\ allowed = [t \in Tasks |-> Cpus]
    /\ on_cpu = {}
    /\ curr = [c \in Cpus |-> Idle]
    /\ sched = [c \in Cpus |-> [pc |-> "none", prev |-> NULL]]
    /\ lock = {} /\ pi_lock = {}
    /\ crit = [c \in Cpus |-> NULL]
    /\ wake_list = [c \in Cpus |-> {}]
    /\ ipi = {}
    /\ wk = [w \in Wakers |-> [pc |-> "idle", task |-> NULL]]
    /\ works = [c \in Cpus |-> {}]
    /\ online = Cpus /\ active = Cpus
    /\ dying = NULL
    /\ ops \in Scripts

-----------------------------------------------------------------------------
(* __schedule.                                                             *)

SchedFrame == UNCHANGED <<cpu, cond, attrVars, pi_lock, crit, wakeVars, works,
                          plugVars, ops>>

\* The task calls schedule() itself (state set, condition checked), so the
\* switch is no preemption.
Voluntary(t) == t \in Tasks /\ step[t] \in {"call", "gone"}

\* for_each_class: the stopper first, then real-time, then fair, then idle.
pick_next_task(c, queue) ==
    LET rt == {t \in queue : Realtime(t)} IN
    IF StopWork(c) THEN {Stopper}
    ELSE IF rt # {} THEN rt
    ELSE IF queue # {} THEN queue ELSE {Idle}

\* rq->curr changes and the new task is marked on_cpu.  The lock stays held
\* until the new task has finished the switch; nothing is pending when the
\* old one was the idle task or the stopper.
context_switch(c, prev, next) ==
    /\ curr' = [curr EXCEPT ![c] = next]
    /\ on_cpu' = on_cpu \cup ({next} \cap Tasks)
    /\ IF prev \in Tasks \ {next}
       THEN /\ sched' = [sched EXCEPT ![c] = [pc |-> "switch", prev |-> prev]]
            /\ lock' = lock \cup {c}
       ELSE /\ sched' = [sched EXCEPT ![c] = [pc |-> "none", prev |-> NULL]]
            /\ UNCHANGED lock

\* A task that sleeps leaves the queue, one whose signal is pending does not.
\* With nothing left to run the lock is dropped for idle_balance.
__schedule(c) ==
    LET prev == curr[c]
        sleeps == Voluntary(prev) /\ state[prev] # "running" IN
    /\ Open(c) /\ c \notin lock /\ ~Stopped
    /\ prev = Stopper => ~StopWork(c)
    /\ \/ /\ sleeps /\ state[prev] = "sleep"
          /\ Deactivate(prev)
          /\ step' = [step EXCEPT ![prev] = "run"]
          /\ UNCHANGED state
       \/ /\ sleeps /\ state[prev] = "sleep"      \* signal_pending_state
          /\ state' = [state EXCEPT ![prev] = "running"]
          /\ step' = [step EXCEPT ![prev] = "run"]
          /\ UNCHANGED vars
       \/ /\ sleeps /\ state[prev] = "dead"
          /\ Exit(prev)
          /\ UNCHANGED <<state, step>>
       \/ /\ ~sleeps
          /\ step' = IF Voluntary(prev) THEN [step EXCEPT ![prev] = "run"] ELSE step
          /\ UNCHANGED <<vars, state>>
    /\ LET queue == {t \in on_rq' : cpu[t] = c} IN
       IF queue = {} /\ ~StopWork(c)
       THEN /\ sched' = [sched EXCEPT ![c] = [pc |-> "balance", prev |-> prev]]
            /\ UNCHANGED <<curr, on_cpu, lock>>
       ELSE \E next \in pick_next_task(c, queue) : context_switch(c, prev, next)
    /\ SchedFrame

\* The end of idle_balance: the lock is taken again.
BalanceDone(c) ==
    /\ sched[c].pc = "balance" /\ crit[c] = NULL /\ c \notin lock
    /\ \E next \in pick_next_task(c, Queued(c)) : context_switch(c, sched[c].prev, next)
    /\ UNCHANGED <<vars, state, step>>
    /\ SchedFrame

\* context_switch is over: the new task, on its own stack, clears the on_cpu
\* of the old one and releases the run queue.
finish_task_switch(c) ==
    /\ sched[c].pc = "switch"
    /\ on_cpu' = on_cpu \ {sched[c].prev}
    /\ lock' = lock \ {c}
    /\ sched' = [sched EXCEPT ![c] = [pc |-> "none", prev |-> NULL]]
    /\ UNCHANGED <<vars, state, step, curr>>
    /\ SchedFrame

-----------------------------------------------------------------------------
(* A task waits for its condition: ___wait_event.                          *)

TaskFrame == UNCHANGED <<cpu, attrVars, cpuVars, lockVars, wakeVars, works, plugVars>>

prepare_to_wait(c, t) ==
    /\ At(c, t) /\ step[t] = "run"
    /\ state' = [state EXCEPT ![t] = "sleep"]
    /\ step' = [step EXCEPT ![t] = "prepared"]
    /\ UNCHANGED <<vars, cond, ops>>
    /\ TaskFrame

\* The condition is tested with the state already set.
CheckCondition(c, t) ==
    /\ At(c, t) /\ step[t] = "prepared"
    /\ IF t \in cond
       THEN /\ state' = [state EXCEPT ![t] = "running"]
            /\ step' = [step EXCEPT ![t] = "run"]
            /\ cond' = cond \ {t}
       ELSE /\ step' = [step EXCEPT ![t] = "call"]
            /\ UNCHANGED <<state, cond>>
    /\ UNCHANGED <<vars, ops>>
    /\ TaskFrame

-----------------------------------------------------------------------------
(* try_to_wake_up.                                                         *)

WakeFrame == UNCHANGED <<step, policy, boosted, cpuVars, crit, works, plugVars, ops>>

Goto(w, pc) == wk' = [wk EXCEPT ![w].pc = pc]
\* The end of try_to_wake_up: pi_lock is released.
Unlock(w) ==
    /\ wk' = [wk EXCEPT ![w] = [pc |-> "idle", task |-> NULL]]
    /\ pi_lock' = pi_lock \ {wk[w].task}

\* The caller makes the condition true, then calls.
WakeUp(w, t) ==
    /\ wk[w].pc = "idle" /\ t \in live /\ t \notin cond
    /\ cond' = cond \cup {t}
    /\ wk' = [wk EXCEPT ![w] = [pc |-> "lock", task |-> t]]
    /\ UNCHANGED <<vars, cpu, state, allowed, lock, pi_lock, wake_list, ipi>>
    /\ WakeFrame

try_to_wake_up(w) ==
    LET t == wk[w].task IN
    /\ wk[w].pc = "lock" /\ t \notin pi_lock /\ ~Stopped
    /\ IF state[t] # "sleep"
       THEN /\ wk' = [wk EXCEPT ![w] = [pc |-> "idle", task |-> NULL]]
            /\ UNCHANGED pi_lock
       ELSE /\ Goto(w, IF Runnable(t) THEN "remote" ELSE "spin")
            /\ pi_lock' = pi_lock \cup {t}
    /\ UNCHANGED <<vars, cpu, state, cond, allowed, lock, wake_list, ipi>>
    /\ WakeFrame

ttwu_remote(w) ==
    LET t == wk[w].task IN
    /\ wk[w].pc = "remote" /\ cpu[t] \notin lock
    /\ IF Runnable(t)
       THEN /\ state' = [state EXCEPT ![t] = "running"]
            /\ Unlock(w)
       ELSE /\ Goto(w, "spin")
            /\ UNCHANGED <<state, pi_lock>>
    /\ UNCHANGED <<vars, cpu, cond, allowed, lock, wake_list, ipi>>
    /\ WakeFrame

\* A CPU for a task that is being placed: one its mask and the online mask
\* admit, or, when no active CPU is in the mask, any with the mask widened.
select_task_rq(t, n) ==
    \/ /\ n \in allowed[t] \cap online
       /\ UNCHANGED allowed
    \/ /\ allowed[t] \cap active = {} /\ n \in active
       /\ allowed' = [allowed EXCEPT ![t] = Cpus]

\* Fault: the waker does not wait for the old CPU to let go of the task.
PlaceWithoutSpin(w, n) ==
    LET t == wk[w].task IN
    /\ wk[w].pc = "spin"
    /\ state' = [state EXCEPT ![t] = "waking"]
    /\ select_task_rq(t, n)
    /\ cpu' = [cpu EXCEPT ![t] = n]
    /\ Goto(w, "queue")
    /\ UNCHANGED <<vars, cond, lock, pi_lock, wake_list, ipi>>
    /\ WakeFrame

\* The task is off its queue: wait until no CPU runs it, then choose a CPU.
PlaceTask(w, n) ==
    LET t == wk[w].task IN
    /\ wk[w].pc = "spin" /\ t \notin on_cpu
    /\ state' = [state EXCEPT ![t] = "waking"]
    /\ select_task_rq(t, n)
    /\ cpu' = [cpu EXCEPT ![t] = n]
    /\ Goto(w, "queue")
    /\ UNCHANGED <<vars, cond, lock, pi_lock, wake_list, ipi>>
    /\ WakeFrame

\* ttwu_queue: enqueue the task under the lock of its new run queue ...
ttwu_do_activate(w) ==
    LET t == wk[w].task IN
    /\ wk[w].pc = "queue" /\ cpu[t] \notin lock
    /\ Activate(t)
    /\ state' = [state EXCEPT ![t] = "running"]
    /\ Unlock(w)
    /\ UNCHANGED <<cpu, cond, allowed, lock, wake_list, ipi>>
    /\ WakeFrame

\* ... or leave it on the wake list of a CPU that shares no cache; only the
\* first one on an empty list sends the interrupt.
ttwu_queue_remote(w) ==
    LET t == wk[w].task
        c == cpu[t] IN
    /\ wk[w].pc = "queue"
    /\ wake_list' = [wake_list EXCEPT ![c] = @ \cup {t}]
    /\ ipi' = IF wake_list[c] = {} THEN ipi \cup {c} ELSE ipi
    /\ Unlock(w)
    /\ UNCHANGED <<vars, cpu, state, cond, allowed, lock>>
    /\ WakeFrame

\* scheduler_ipi, and the CPU_DYING call: the whole list is taken.
sched_ttwu_pending(c) ==
    /\ Open(c) /\ c \notin lock /\ wake_list[c] # {}
    /\ (c \in ipi /\ ~Stopped) \/ (dying = c /\ Stopped)
    /\ ipi' = ipi \ {c}
    /\ wake_list' = [wake_list EXCEPT ![c] = {}]
    /\ crit' = [crit EXCEPT ![c] = [pi |-> {}, rq |-> {c}, moves |-> <<>>,
                                    wakes |-> wake_list[c]]]
    /\ lock' = lock \cup {c}
    /\ UNCHANGED <<vars, cpu, state, step, cond, attrVars, cpuVars, pi_lock, wk,
                   works, plugVars, ops>>

-----------------------------------------------------------------------------
(* Critical sections: the tasks to wake or to requeue, one after another,  *)
(* under the locks taken when the section began.                           *)

CritFrame == UNCHANGED <<step, cond, attrVars, cpuVars, wakeVars, works, plugVars, ops>>

\* CPU c enters a section that requeues tasks, with double_rq_lock.
Enter(c, pis, rqs, moves) ==
    /\ crit[c] = NULL /\ pis \cap pi_lock = {} /\ rqs \cap lock = {}
    /\ crit' = [crit EXCEPT ![c] = [pi |-> pis, rq |-> rqs, moves |-> moves, wakes |-> {}]]
    /\ pi_lock' = pi_lock \cup pis
    /\ lock' = lock \cup rqs

\* What is left of the section, or its end with the release of the locks.
Leave(c, rest) ==
    IF rest.moves = <<>> /\ rest.wakes = {}
    THEN /\ crit' = [crit EXCEPT ![c] = NULL]
         /\ lock' = lock \ rest.rq
         /\ pi_lock' = pi_lock \ rest.pi
    ELSE /\ crit' = [crit EXCEPT ![c] = rest]
         /\ UNCHANGED <<lock, pi_lock>>

\* The loop of sched_ttwu_pending.
PendingActivate(c, t) ==
    /\ crit[c] # NULL /\ t \in crit[c].wakes
    /\ Activate(t)
    /\ state' = [state EXCEPT ![t] = "running"]
    /\ Leave(c, [crit[c] EXCEPT !.wakes = @ \ {t}])
    /\ UNCHANGED cpu
    /\ CritFrame

\* Fault: the task is dequeued without DEQUEUE_NOCMGROUP.
MoveOutCharges(c) ==
    /\ crit[c] # NULL /\ crit[c].moves # <<>>
    /\ LET m == Head(crit[c].moves) IN
       /\ m.task \notin moving
       /\ RequeueOutUncharges(m.task)
       /\ cpu' = [cpu EXCEPT ![m.task] = m.dst]
    /\ UNCHANGED <<state, lockVars>>
    /\ CritFrame

\* dequeue_task(DEQUEUE_NOCMGROUP), set_task_cpu ...
MoveOut(c) ==
    /\ crit[c] # NULL /\ crit[c].moves # <<>>
    /\ LET m == Head(crit[c].moves) IN
       /\ m.task \notin moving
       /\ RequeueOut(m.task)
       /\ cpu' = [cpu EXCEPT ![m.task] = m.dst]
    /\ UNCHANGED <<state, lockVars>>
    /\ CritFrame

\* ... enqueue_task(ENQUEUE_NOCMGROUP).
MoveIn(c) ==
    /\ crit[c] # NULL /\ crit[c].moves # <<>>
    /\ RequeueIn(Head(crit[c].moves).task)
    /\ Leave(c, [crit[c] EXCEPT !.moves = Tail(@)])
    /\ UNCHANGED <<cpu, state>>
    /\ CritFrame

Move(t, n) == <<[task |-> t, dst |-> n]>>

-----------------------------------------------------------------------------
(* Changes of a task in place, by a task on CPU c.                         *)

PlaceFrame == UNCHANGED <<vars, cpu, state, step, cond, allowed, cpuVars,
                          wakeVars, works, plugVars>>

\* task_rq_lock, and a requeue if the task is queued.
InPlace(c, t, op) ==
    /\ Open(c) /\ curr[c] \in Tasks /\ t \in live
    /\ t \notin pi_lock /\ cpu[t] \notin lock
    /\ IF Runnable(t) THEN Enter(c, {t}, {cpu[t]}, Move(t, cpu[t]))
                       ELSE UNCHANGED lockVars
    /\ Call(op)

\* The nice value of a real-time task is stored and no more.
set_user_nice(c, t) ==
    /\ policy[t] = "fair" /\ Runnable(t)
    /\ InPlace(c, t, "nice")
    /\ UNCHANGED <<policy, boosted>>
    /\ PlaceFrame

__sched_setscheduler(c, t, new) ==
    /\ new # policy[t]
    /\ InPlace(c, t, "policy")
    /\ policy' = [policy EXCEPT ![t] = new]
    /\ UNCHANGED boosted
    /\ PlaceFrame

\* A real-time waiter arrives at, or leaves, a lock the task owns.
rt_mutex_setprio(c, t) ==
    /\ InPlace(c, t, "boost")
    /\ boosted' = IF t \in boosted THEN boosted \ {t} ELSE boosted \cup {t}
    /\ UNCHANGED policy
    /\ PlaceFrame

\* Only the task itself sets its preferred node.
sched_setnuma(c, t) ==
    /\ At(c, t)
    /\ InPlace(c, t, "numa")
    /\ UNCHANGED <<policy, boosted>>
    /\ PlaceFrame

sched_move_task(c, t) ==
    /\ Runnable(t)
    /\ InPlace(c, t, "cgroup")
    /\ UNCHANGED <<policy, boosted>>
    /\ PlaceFrame

\* SysRq: every real-time task becomes a normal one.
normalize_task(c, t) ==
    /\ Realtime(t)
    /\ InPlace(c, t, "sysrq")
    /\ policy' = [policy EXCEPT ![t] = "fair"]
    /\ UNCHANGED boosted
    /\ PlaceFrame

-----------------------------------------------------------------------------
(* Migration by the stopper threads.                                       *)

WorkFrame == UNCHANGED <<vars, cpu, state, step, cond, policy, boosted, cpuVars,
                         wakeVars, plugVars>>

QueueWork(c, w) == works' = [works EXCEPT ![c] = @ \cup {w}]
MigrateWork(t, n) == [kind |-> "migrate", task |-> t, dst |-> n, other |-> NULL]

\* The mask changes at once; a queued task on a CPU outside of it is left to
\* the stopper of that CPU.
set_cpus_allowed_ptr(t, mask) ==
    /\ t \in live /\ ~Stopped /\ t \notin pi_lock /\ cpu[t] \notin lock
    /\ mask # allowed[t] /\ mask \cap active # {}
    /\ allowed' = [allowed EXCEPT ![t] = mask]
    /\ IF cpu[t] \notin mask /\ Runnable(t)
       THEN \E n \in mask \cap active : QueueWork(cpu[t], MigrateWork(t, n))
       ELSE UNCHANGED works
    /\ Call("affinity")
    /\ UNCHANGED lockVars
    /\ WorkFrame

\* exec balancing: the task asks to be moved away from its own CPU.
sched_exec(c, t, n) ==
    /\ At(c, t) /\ n \in (allowed[t] \cap active) \ {c}
    /\ QueueWork(c, MigrateWork(t, n))
    /\ Call("exec")
    /\ UNCHANGED <<allowed, lockVars>>
    /\ WorkFrame

\* Two tasks on different CPUs change places; both stoppers must take part.
migrate_swap(c, t, p) ==
    LET d == cpu[p] IN
    /\ At(c, t) /\ p \in live /\ d # c /\ {c, d} \subseteq active
    /\ d \in allowed[t] /\ c \in allowed[p]
    /\ works' = [works EXCEPT
           ![c] = @ \cup {[kind |-> "swap", task |-> t, dst |-> d, other |-> p]},
           ![d] = @ \cup {[kind |-> "peer", task |-> p, dst |-> c, other |-> t]}]
    /\ Call("swap")
    /\ UNCHANGED <<allowed, lockVars>>
    /\ WorkFrame

\* __migrate_task on the stopper: everything is looked at again under the
\* locks, and a task that is not queued is left to its next wakeup.
migration_cpu_stop(c, w) ==
    /\ At(c, Stopper) /\ ~Stopped /\ w \in works[c] /\ w.kind = "migrate"
    /\ {c, w.dst} \cap lock = {} /\ w.task \notin pi_lock
    /\ works' = [works EXCEPT ![c] = @ \ {w}]
    /\ IF /\ w.dst \in active \cap allowed[w.task]
          /\ cpu[w.task] = c /\ Runnable(w.task)
       THEN Enter(c, {w.task}, {c, w.dst}, Move(w.task, w.dst))
       ELSE UNCHANGED lockVars
    /\ UNCHANGED <<allowed, ops>>
    /\ WorkFrame

\* With both CPUs in their stoppers: each queued task moves to the other CPU.
migrate_swap_stop(c, w) ==
    LET d == w.dst
        peer == [kind |-> "peer", task |-> w.other, dst |-> c, other |-> w.task] IN
    /\ At(c, Stopper) /\ At(d, Stopper) /\ ~Stopped
    /\ w \in works[c] /\ w.kind = "swap"
    /\ {c, d} \cap lock = {} /\ {w.task, w.other} \cap pi_lock = {}
    /\ works' = [works EXCEPT ![c] = @ \ {w}, ![d] = @ \ {peer}]
    /\ LET moves == (IF Runnable(w.task) THEN Move(w.task, d) ELSE <<>>)
                    \o (IF Runnable(w.other) THEN Move(w.other, c) ELSE <<>>) IN
       IF /\ cpu[w.other] = d /\ cpu[w.task] = c
          /\ d \in allowed[w.task] /\ c \in allowed[w.other]
          /\ moves # <<>>
       THEN Enter(c, {w.task, w.other}, {c, d}, moves)
       ELSE UNCHANGED lockVars
    /\ UNCHANGED <<allowed, ops>>
    /\ WorkFrame

-----------------------------------------------------------------------------
(* Load balancing.                                                         *)

\* CPU c balances in its softirq, or on its way to idle.
Balancing(c) ==
    /\ c \in online /\ crit[c] = NULL /\ ~Stopped
    /\ sched[c].pc \in {"none", "balance"}

\* can_migrate_task, for the tasks of the source's cfs_tasks list.
can_migrate_task(t, src, dst) ==
    /\ t \in Queued(src) /\ ~Realtime(t)
    /\ dst \in allowed[t]
    /\ t \notin on_cpu

Movable(src, dst) == {t \in Tasks : can_migrate_task(t, src, dst)}

\* load_balance -> move_tasks: tasks of the busiest queue come to this one,
\* all under the same pair of locks.
load_balance(c, src) ==
    /\ Balancing(c) /\ src \in online \ {c}
    /\ {c, src} \cap lock = {}
    /\ \E S \in SUBSET Movable(src, c) \ {{}} :
        Enter(c, {}, {c, src}, SetToSeq({[task |-> t, dst |-> c] : t \in S}))
    /\ UNCHANGED <<works, allowed, ops>>
    /\ WorkFrame

\* Nothing could be moved for too long: the stopper of the busiest CPU will
\* push its current task.  rq->active_balance admits one request.
ActiveBalance(c, src) ==
    /\ Balancing(c) /\ src \in online \ {c} /\ src \notin lock
    /\ curr[src] \in Tasks /\ c \in allowed[curr[src]] /\ Movable(src, c) = {}
    /\ \A w \in works[src] : w.kind # "balance"
    /\ QueueWork(src, [kind |-> "balance", task |-> NULL, dst |-> c, other |-> NULL])
    /\ Call("balance")
    /\ UNCHANGED <<allowed, lockVars>>
    /\ WorkFrame

active_load_balance_cpu_stop(c, w) ==
    /\ At(c, Stopper) /\ ~Stopped /\ w \in works[c] /\ w.kind = "balance"
    /\ {c, w.dst} \cap lock = {}
    /\ works' = [works EXCEPT ![c] = @ \ {w}]
    /\ IF w.dst \in online /\ Movable(c, w.dst) # {}
       THEN \E t \in Movable(c, w.dst) : Enter(c, {}, {c, w.dst}, Move(t, w.dst))
       ELSE UNCHANGED lockVars
    /\ UNCHANGED <<allowed, ops>>
    /\ WorkFrame

\* A real-time task that waits is pushed to, or pulled by, another CPU.
MoveRealtime(c, src, dst) ==
    /\ Balancing(c) /\ c \in {src, dst} /\ src # dst /\ {src, dst} \subseteq online
    /\ \E t \in Queued(src) \ on_cpu :
        /\ Realtime(t) /\ dst \in allowed[t]
        /\ Enter(c, {}, {src, dst}, Move(t, dst))
    /\ UNCHANGED <<works, allowed, ops>>
    /\ WorkFrame

push_rt_task(c, dst) == MoveRealtime(c, c, dst)
pull_rt_task(c, src) == MoveRealtime(c, src, c)

-----------------------------------------------------------------------------
(* Fork, exit, and the group operations of the current task.               *)

GroupFrame == UNCHANGED <<state, cond>> /\ TaskFrame

\* sched_fork, whose writes nobody sees before wake_up_new_task: the child
\* starts on a CPU chosen under its pi_lock, without an inherited boost.
wake_up_new_task(c, parent, child, n) ==
    /\ At(c, parent) /\ step[parent] = "run"
    /\ child \notin on_cpu /\ \A w \in Wakers : wk[w].task # child
    /\ \A d \in Cpus : \A w \in works[d] : child \notin {w.task, w.other}
    /\ \/ /\ n \in allowed[parent] \cap online
          /\ allowed' = [allowed EXCEPT ![child] = allowed[parent]]
       \/ /\ allowed[parent] \cap active = {} /\ n \in active
          /\ allowed' = [allowed EXCEPT ![child] = Cpus]
    /\ n \notin lock
    /\ Fork(parent, child)
    /\ cpu' = [cpu EXCEPT ![child] = n]
    /\ state' = [state EXCEPT ![child] = "running"]
    /\ step' = [step EXCEPT ![child] = "run"]
    /\ policy' = [policy EXCEPT ![child] = policy[parent]]
    /\ boosted' = boosted \ {child}
    /\ cond' = cond \ {child}
    /\ Call("fork")
    /\ UNCHANGED <<cpuVars, lockVars, wakeVars, works, plugVars>>

\* Fault: do_exit goes on while a waker may still hold the pi_lock.
ExitWithoutWait(c, t) ==
    /\ At(c, t) /\ step[t] = "run"
    /\ step' = [step EXCEPT ![t] = "exit"]
    /\ Call("exit")
    /\ UNCHANGED vars
    /\ GroupFrame

\* do_exit: first wait until no waker is about to write the state ...
ExitWait(c, t) ==
    /\ At(c, t) /\ step[t] = "run" /\ t \notin pi_lock
    /\ step' = [step EXCEPT ![t] = "exit"]
    /\ Call("exit")
    /\ UNCHANGED vars
    /\ GroupFrame

\* ... then leave the group ...
ExitGroup(c, t) ==
    /\ At(c, t) /\ step[t] = "exit"
    /\ IF cmgroup[t] # NULL THEN cmgroup_dissociate(t) ELSE UNCHANGED vars
    /\ step' = [step EXCEPT ![t] = "left"]
    /\ UNCHANGED ops
    /\ GroupFrame

\* ... and set TASK_DEAD for the last schedule().
ExitDead(c, t) ==
    /\ At(c, t) /\ step[t] = "left"
    /\ state' = [state EXCEPT ![t] = "dead"]
    /\ step' = [step EXCEPT ![t] = "gone"]
    /\ UNCHANGED <<vars, cond, ops>>
    /\ TaskFrame

GroupCall(c, t) ==
    /\ At(c, t) /\ step[t] = "run"
    /\ \/ \E g \in Groups : cmgroup_associate(t, g)
       \/ cmgroup_dissociate(t)
    /\ UNCHANGED step
    /\ Call("group")
    /\ GroupFrame

SetConcurrency(g, n) ==
    /\ n # concurrency_value[g]
    /\ cmgroup_set_concurrency_value(g, n)
    /\ UNCHANGED step
    /\ Call("retune")
    /\ GroupFrame

-----------------------------------------------------------------------------
(* CPU hotplug.                                                            *)

PlugFrame == UNCHANGED <<vars, state, step, cond, policy, boosted, on_cpu, sched, wk>>

\* CPU_DOWN_PREPARE: no new task is to be placed on the CPU ...
sched_cpu_inactive(c) ==
    /\ c \in active /\ active # {c} /\ online = active /\ dying = NULL
    /\ active' = active \ {c}
    /\ Call("unplug")
    /\ UNCHANGED <<cpu, allowed, lockVars, wake_list, ipi, works, curr, online, dying>>
    /\ PlugFrame

\* ... CPU_DOWN_FAILED, or a CPU that comes (back) up.
sched_cpu_active(c) ==
    /\ c \notin active /\ dying = NULL
    /\ active' = active \cup {c}
    /\ online' = online \cup {c}
    /\ UNCHANGED <<cpu, allowed, lockVars, wake_list, ipi, works, curr, dying, ops>>
    /\ PlugFrame

\* stop_machine begins to bring every CPU into its stopper.
TakeDown(c) ==
    /\ c \in online \ active /\ dying = NULL
    /\ dying' = c
    /\ UNCHANGED <<cpu, allowed, lockVars, wake_list, ipi, works, curr, online, active, ops>>
    /\ PlugFrame

select_fallback_rq(t, n) ==
    /\ n \in active
    /\ \/ n \in allowed[t] /\ UNCHANGED allowed
       \/ allowed[t] \cap active = {} /\ allowed' = [allowed EXCEPT ![t] = Cpus]

\* CPU_DYING: with the wake list emptied, every queued task is moved away.
migrate_tasks(c, t, n) ==
    /\ dying = c /\ Stopped /\ crit[c] = NULL /\ wake_list[c] = {}
    /\ t \in Queued(c)
    /\ select_fallback_rq(t, n)
    /\ Enter(c, {t}, {c, n}, Move(t, n))
    /\ UNCHANGED <<cpu, wake_list, ipi, works, curr, online, active, dying, ops>>
    /\ PlugFrame

\* The CPU is gone; the works left for its stopper are signalled undone.
CpuDead(c) ==
    /\ dying = c /\ Stopped /\ crit[c] = NULL
    /\ Queued(c) = {} /\ wake_list[c] = {}
    /\ online' = online \ {c}
    /\ dying' = NULL
    /\ curr' = [curr EXCEPT ![c] = Idle]
    /\ ipi' = ipi \ {c}
    /\ works' = [d \in Cpus |-> IF d = c THEN {}
                  ELSE {w \in works[d] : ~(w.kind \in {"swap", "peer"} /\ w.dst = c)}]
    /\ UNCHANGED <<cpu, allowed, lockVars, wake_list, active, ops>>
    /\ PlugFrame

-----------------------------------------------------------------------------

TaskSteps(c, t) ==
    \/ prepare_to_wait(c, t) \/ CheckCondition(c, t)
    \/ set_user_nice(c, t) \/ rt_mutex_setprio(c, t) \/ sched_setnuma(c, t)
    \/ sched_move_task(c, t) \/ normalize_task(c, t)
    \/ __sched_setscheduler(c, t, "rt") \/ __sched_setscheduler(c, t, "fair")
    \/ \E n \in Cpus : sched_exec(c, t, n)
    \/ \E p \in Tasks : migrate_swap(c, t, p)
    \/ \E p \in Tasks, n \in Cpus : wake_up_new_task(c, t, p, n)
    \/ ExitWait(c, t) \/ ExitGroup(c, t) \/ ExitDead(c, t) \/ GroupCall(c, t)
    \/ PendingActivate(c, t)
    \/ \E n \in Cpus : migrate_tasks(c, t, n)

CpuSteps(c) ==
    \/ __schedule(c) \/ BalanceDone(c) \/ finish_task_switch(c)
    \/ sched_ttwu_pending(c) \/ MoveOut(c) \/ MoveIn(c)
    \/ \E d \in Cpus : \/ load_balance(c, d) \/ ActiveBalance(c, d)
                       \/ push_rt_task(c, d) \/ pull_rt_task(c, d)
    \/ \E w \in works[c] : \/ migration_cpu_stop(c, w) \/ migrate_swap_stop(c, w)
                           \/ active_load_balance_cpu_stop(c, w)
    \/ sched_cpu_inactive(c) \/ sched_cpu_active(c) \/ TakeDown(c) \/ CpuDead(c)

WakerSteps(w) ==
    \/ \E t \in Tasks : WakeUp(w, t)
    \/ try_to_wake_up(w) \/ ttwu_remote(w)
    \/ \E n \in Cpus : PlaceTask(w, n)
    \/ ttwu_do_activate(w) \/ ttwu_queue_remote(w)

SchedNext ==
    \/ \E c \in Cpus : CpuSteps(c)
    \/ \E c \in Cpus, t \in Tasks : TaskSteps(c, t)
    \/ \E w \in Wakers : WakerSteps(w)
    \/ \E t \in Tasks, mask \in SUBSET Cpus : set_cpus_allowed_ptr(t, mask)
    \/ \E g \in Groups, n \in 1..MaxConcurrency : SetConcurrency(g, n)

SchedSpec == SchedInit /\ [][SchedNext]_svars

-----------------------------------------------------------------------------
(* Properties.                                                             *)

\* Everything the scheduler does to the counters is a step of CmAccount: the
\* hooks are reached exactly once per sleep, wakeup, fork and exit and the
\* NOCMGROUP flags come in pairs on every path of core.c, fair.c and rt.c.
AccountSpec == Spec

\* A task is executed by one CPU at a time, the one it is queued on: p->on_cpu
\* holds from the switch to the task until the switch away from it is over,
\* and no task is queued on a CPU that is gone.  Waking a task whose old CPU
\* has not let go of it, or moving a running one, would break this.
RunsOnce ==
    /\ \A c \in Cpus : curr[c] \in Tasks => curr[c] \in on_cpu /\ cpu[curr[c]] = c
    /\ \A t \in on_cpu :
        Cardinality({c \in Cpus : curr[c] = t
                                  \/ (sched[c].pc = "switch" /\ sched[c].prev = t)}) = 1
    /\ \A t \in Tasks : Runnable(t) => cpu[t] \in online

\* A task that sleeps although its condition holds is on its way back: a waker
\* is at work on it, or it is on a wake list whose interrupt is pending, or
\* the handler of that interrupt has it.  A task that has set TASK_DEAD for
\* its last schedule() is not set running again by a waker that is late.
NoLostWakeup ==
    /\ \A t \in cond : t \in live /\ ~Runnable(t) =>
        \/ \E w \in Wakers : wk[w].task = t
        \/ \E c \in Cpus : \/ t \in wake_list[c] /\ (c \in ipi \/ dying = c)
                           \/ crit[c] # NULL /\ t \in crit[c].wakes
    /\ \A t \in live : step[t] = "gone" => state[t] = "dead"

\* set_cpus_allowed_ptr: "Migrate the thread to a proper CPU and schedule it
\* away if the CPU it's executing on is removed from the allowed bitmask": a
\* task executes outside its mask only while its migration is pending.  No run
\* checks it, for it does not hold: a task on the wake list of a CPU is not on
\* its queue yet, and set_cpus_allowed_ptr leaves it to be activated there.
RunsWhereAllowed ==
    \A c \in Cpus, t \in Tasks :
        At(c, t) /\ c \notin allowed[t] =>
            \E w \in works[c] : w.kind = "migrate" /\ w.task = t
=============================================================================

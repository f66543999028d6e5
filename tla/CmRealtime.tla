----------------------------- MODULE CmRealtime -----------------------------
(***************************************************************************)
(* The real-time scheduling class (kernel/sched/rt.c): the run queues of   *)
(* the CPUs and the pushing and pulling of tasks between them.             *)
(*                                                                         *)
(* A CPU whose queue holds more real-time tasks than it can run pushes the *)
(* others to CPUs that run something less urgent; a CPU that is about to   *)
(* run something less urgent than before pulls from the CPUs that are      *)
(* overloaded.  Both decide on values of other queues read without their   *)
(* locks (cpupri, highest_prio.next, rto_mask), and both may have to drop  *)
(* their own lock to take a second one (double_lock_balance).              *)
(*                                                                         *)
(* An actor is the CPU whose code runs; the queue it works on may be that  *)
(* of another CPU (a wakeup, sched_setscheduler).  A small number is an    *)
(* urgent priority, as in the kernel; a task or a CPU with no real-time    *)
(* priority is at Fair.  The order of tasks of one priority is a choice,   *)
(* which covers the round robin, yielding and requeueing.                  *)
(***************************************************************************)
EXTENDS Integers, FiniteSets, FiniteSetsExt

CONSTANTS
    RtCpus, RtTasks, RtNull,
    Prios,      \* the real-time priorities in use
    Fair,       \* MAX_RT_PRIO: no real-time priority
    FirstPrios, \* the priorities of the tasks at the start
    RtMaxOps    \* bound: changes of priorities and of affinities

ASSUME RtAssumption ==
    /\ RtNull \notin RtCpus \cup RtTasks
    /\ Prios \subseteq Nat /\ Fair \in Nat /\ RtMaxOps \in Nat
    /\ \A i \in Prios : i < Fair
    /\ FirstPrios \subseteq [RtTasks -> Prios \cup {Fair}]

RT_MAX_TRIES == 3

VARIABLES
    sys,     \* the tasks, the queues and the root domain (below)
    act,     \* CPU -> what its code is doing
    locked,  \* the queues whose lock is held
    touched, \* history: a waiting task's priority or mask was changed
    ops

rtVars == <<sys, act, locked, touched, ops>>

\* at: where the code is; rq: the queue it works on; p and other: the task and
\* the second queue of a push or a pull; then and who: what follows, for whom.
Running == [at |-> "run", rq |-> RtNull, p |-> RtNull, other |-> RtNull,
            todo |-> {}, tries |-> 0, then |-> "done", who |-> RtNull]

\* task: CPU, on_rq, priority, whether pinned to one CPU.  rq: the running task
\* (RtNull: the idle task), need_resched, and of struct rt_rq the pushable
\* list, highest_prio.curr and .next, and overloaded.  rto: rd->rto_mask, with
\* rd->rto_count its size.  cpupri: CPU -> the priority last set there.
RtInit ==
    /\ \E first \in FirstPrios :
          sys = [task |-> [t \in RtTasks |->
                              [cpu |-> CHOOSE c \in RtCpus : TRUE, on_rq |-> FALSE,
                               prio |-> first[t], pinned |-> FALSE]],
                 rq |-> [c \in RtCpus |->
                            [curr |-> RtNull, resched |-> FALSE, pushable |-> {},
                             highest |-> Fair, next |-> Fair, overloaded |-> FALSE]],
                 rto |-> {},
                 cpupri |-> [c \in RtCpus |-> Fair]]
    /\ act = [a \in RtCpus |-> Running]
    /\ locked = {}
    /\ touched = FALSE
    /\ ops = 0

(***************************************************************************)
(* The queues.  The operators map a value s of sys to the value after the  *)
(* call, which holds the lock of the queue.                                *)
(***************************************************************************)
Prio(s, t) == IF t = RtNull THEN Fair ELSE s.task[t].prio

CurrPrio(s, c) == Prio(s, s.rq[c].curr)

OnRq(s, c) == {t \in RtTasks : s.task[t].on_rq /\ s.task[t].cpu = c}

RtOn(s, c) == {t \in OnRq(s, c) : Prio(s, t) < Fair}

Highest(s, S) == Min({Prio(s, t) : t \in S} \cup {Fair})

MostUrgent(s, S) == {t \in S : Prio(s, t) = Highest(s, S)}

\* enqueue_pushable_task and dequeue_pushable_task: an entry may lower next, a
\* removal recomputes it.
enqueue_pushable_task(s, c, t) ==
    [s EXCEPT !.rq[c].pushable = @ \cup {t},
              !.rq[c].next = IF Prio(s, t) < @ THEN Prio(s, t) ELSE @]

\* Fault: the removal leaves next as it was.
DequeueKeepsNext(s, c, t) == [s EXCEPT !.rq[c].pushable = @ \ {t}]

dequeue_pushable_task(s, c, t) ==
    [s EXCEPT !.rq[c].pushable = @ \ {t},
              !.rq[c].next = Highest(s, s.rq[c].pushable \ {t})]

\* update_rt_migration, after inc_rt_migration or dec_rt_migration has counted.
update_rt_migration(s, c) ==
    LET over == (\E t \in RtOn(s, c) : ~s.task[t].pinned) /\ Cardinality(RtOn(s, c)) > 1
    IN  IF over = s.rq[c].overloaded THEN s
        ELSE [s EXCEPT !.rq[c].overloaded = over,
                       !.rto = IF over THEN @ \cup {c} ELSE @ \ {c}]

\* inc_rt_prio and dec_rt_prio: cpupri is set when highest_prio.curr changes.
inc_rt_prio(s, c, prio) ==
    IF prio < s.rq[c].highest
    THEN [s EXCEPT !.rq[c].highest = prio, !.cpupri[c] = prio] ELSE s

dec_rt_prio(s, c, prio) ==
    IF prio = s.rq[c].highest
    THEN LET h == Highest(s, RtOn(s, c))
         IN  [s EXCEPT !.rq[c].highest = h, !.cpupri[c] = h]
    ELSE s

enqueue_task(s, t, c) ==
    LET e == [s EXCEPT !.task[t].on_rq = TRUE, !.task[t].cpu = c]
        m == update_rt_migration(inc_rt_prio(e, c, Prio(s, t)), c)
    IN  IF Prio(s, t) = Fair THEN e
        ELSE IF s.rq[c].curr # t /\ ~s.task[t].pinned THEN enqueue_pushable_task(m, c, t)
        ELSE m

dequeue_task(s, t) ==
    LET c == s.task[t].cpu
        d == [s EXCEPT !.task[t].on_rq = FALSE]
        m == update_rt_migration(dec_rt_prio(d, c, Prio(s, t)), c)
    IN  IF Prio(s, t) = Fair THEN d ELSE dequeue_pushable_task(m, c, t)

resched_task(s, c) == [s EXCEPT !.rq[c].resched = TRUE]

\* cpupri_find (external): the CPUs t may use at the least urgent level that is
\* less urgent than t.
Weaker(s, t) ==
    {c \in RtCpus : s.cpupri[c] > Prio(s, t) /\ (s.task[t].pinned => c = s.task[t].cpu)}

cpupri_find(s, t) == {c \in Weaker(s, t) : \A d \in Weaker(s, t) : s.cpupri[c] >= s.cpupri[d]}

\* find_lowest_rq: the task's own CPU if it is among them, else any, by topology.
find_lowest_rq(s, t) ==
    IF s.task[t].pinned THEN {}
    ELSE IF s.task[t].cpu \in cpupri_find(s, t) THEN {s.task[t].cpu}
    ELSE cpupri_find(s, t)

(***************************************************************************)
(* Actors and locks.                                                       *)
(***************************************************************************)
Do(a, r) == act' = [act EXCEPT ![a] = r]

Free(c) == c \notin locked

\* What follows a push or a pull, by its caller: schedule() goes on to pick;
\* prio_changed_rt, switched_from_rt and switched_to_rt may reschedule the CPU;
\* and but for schedule() the lock is released.
Reschedules(a, s) ==
    LET c == act[a].rq
        t == act[a].who
    IN  CASE act[a].then = "prio_changed" -> s.rq[c].curr = t /\ Prio(s, t) > s.rq[c].highest
          [] act[a].then = "switched_from" -> act[a].p # RtNull \/ s.rq[c].curr = t
          [] act[a].then = "switched_to" -> s.task[t].cpu = c /\ Prio(s, t) < CurrPrio(s, c)
          [] OTHER -> FALSE

Finished(a, s) ==
    /\ sys' = IF Reschedules(a, s) THEN resched_task(s, act[a].rq) ELSE s
    /\ IF act[a].then = "switch"
       THEN Do(a, [Running EXCEPT !.at = "switch", !.rq = act[a].rq]) /\ UNCHANGED locked
       ELSE Do(a, Running) /\ locked' = locked \ {act[a].rq}

(***************************************************************************)
(* push_rt_tasks, the lock of act[a].rq held.                              *)
(***************************************************************************)
\* push_rt_task with next_task t, up to find_lock_lowest_rq.
TryPush(a, s, t) ==
    LET c == act[a].rq
    IN  IF Prio(s, t) < CurrPrio(s, c)
        THEN Finished(a, resched_task(s, c))
        ELSE sys' = s /\ Do(a, [act[a] EXCEPT !.at = "find", !.p = t, !.tries = 0])
                      /\ UNCHANGED locked

push_rt_task(a) ==
    LET c == act[a].rq
    IN  /\ act[a].at = "push"
        /\ IF ~sys.rq[c].overloaded \/ sys.rq[c].pushable = {}
           THEN Finished(a, sys)
           ELSE \E t \in MostUrgent(sys, sys.rq[c].pushable) : TryPush(a, sys, t)
        /\ UNCHANGED <<touched, ops>>

\* No queue was found: over, unless the lock was dropped and another task is now
\* the first to push.
PushFailed(a, s) ==
    LET c == act[a].rq
        first == MostUrgent(s, s.rq[c].pushable)
    IN  IF first = {} \/ (s.task[act[a].p].cpu = c /\ act[a].p \in first)
        THEN Finished(a, s)
        ELSE \E t \in first : TryPush(a, s, t)

\* find_lock_lowest_rq: find_lowest_rq reads cpupri without a lock.
find_lock_lowest_rq(a) ==
    LET found == find_lowest_rq(sys, act[a].p)
    IN  /\ act[a].at = "find"
        /\ IF found = {} \/ act[a].rq \in found \/ act[a].tries = RT_MAX_TRIES
           THEN PushFailed(a, sys)
           ELSE /\ \E c \in found : Do(a, [act[a] EXCEPT !.at = "pushlock", !.other = c])
                /\ UNCHANGED <<sys, locked>>
        /\ UNCHANGED <<touched, ops>>

\* double_lock_balance: the second lock is taken at once, or the first is
\* dropped and both are taken in order.
double_lock_balance(a) ==
    /\ act[a].at \in {"pushlock", "pulllock"}
    /\ Do(a, [act[a] EXCEPT !.at = IF @ = "pushlock" THEN "pushrelock" ELSE "pullrelock"])
    /\ locked' = locked \ {act[a].rq}
    /\ UNCHANGED <<sys, touched, ops>>

\* The task may still be pushed after the lock has been dropped.
StillPushable(s, t, c, d) ==
    /\ s.task[t].cpu = c /\ s.task[t].on_rq
    /\ s.task[t].pinned => d = c
    /\ s.rq[c].curr # t

Migrate(s, t, d) == enqueue_task(dequeue_task(s, t), t, d)

\* Both locks held: the queue is used if it is still suitable.
Push(a) ==
    LET t == act[a].p
        c == act[a].rq
        d == act[a].other
        again == [act[a] EXCEPT !.p = RtNull, !.other = RtNull, !.tries = 0]
    IN  /\ IF sys.rq[d].highest > Prio(sys, t)
           THEN /\ sys' = resched_task(Migrate(sys, t, d), d)
                /\ Do(a, [again EXCEPT !.at = IF act[a].then = "switched_to" THEN "end" ELSE "push"])
           ELSE /\ Do(a, [act[a] EXCEPT !.at = "find", !.other = RtNull, !.tries = @ + 1])
                /\ UNCHANGED sys
        /\ UNCHANGED <<touched, ops>>

PushAtOnce(a) ==
    /\ act[a].at = "pushlock"
    /\ Free(act[a].other)
    /\ Push(a)
    /\ UNCHANGED locked

PushRelocked(a) ==
    LET c == act[a].rq
    IN  /\ act[a].at = "pushrelock"
        /\ Free(c) /\ Free(act[a].other)
        /\ IF StillPushable(sys, act[a].p, c, act[a].other)
           THEN Push(a) /\ locked' = locked \cup {c}
           ELSE /\ Do(a, [act[a] EXCEPT !.at = "lost"])
                /\ locked' = locked \cup {c}
                /\ UNCHANGED <<sys, touched, ops>>

PushLost(a) ==
    /\ act[a].at = "lost"
    /\ PushFailed(a, sys)
    /\ UNCHANGED <<touched, ops>>

\* switched_to_rt pushes once; a pull has been through all its queues.
End(a) ==
    /\ act[a].at = "end"
    /\ Finished(a, sys)
    /\ UNCHANGED <<touched, ops>>

(***************************************************************************)
(* pull_rt_task, the lock of act[a].rq held.                               *)
(***************************************************************************)
\* rt_overloaded reads rto_count without a lock.
pull_rt_task(a) ==
    /\ act[a].at = "pull"
    /\ Do(a, [act[a] EXCEPT !.at = "pulling",
                            !.todo = IF sys.rto = {} THEN {} ELSE RtCpus \ {act[a].rq}])
    /\ UNCHANGED <<sys, locked, touched, ops>>

\* The next CPU of rto_mask: that bit, and highest_prio.next of its queue, are
\* read without its lock.
PullNext(a) ==
    /\ act[a].at = "pulling"
    /\ IF act[a].todo = {} THEN Finished(a, sys)
       ELSE /\ \E d \in act[a].todo :
                  Do(a, IF d \notin sys.rto \/ sys.rq[d].next >= sys.rq[act[a].rq].highest
                        THEN [act[a] EXCEPT !.todo = @ \ {d}]
                        ELSE [act[a] EXCEPT !.at = "pulllock", !.other = d])
            /\ UNCHANGED <<sys, locked>>
    /\ UNCHANGED <<touched, ops>>

\* Both locks held: the most urgent pushable task is pulled if it is more
\* urgent than all of this queue and not about to run where it is.
Pull(a) ==
    LET c == act[a].rq
        d == act[a].other
        next == [act[a] EXCEPT !.at = "pulling", !.other = RtNull, !.todo = @ \ {d}]
        able == {t \in sys.rq[d].pushable : sys.rq[d].curr # t /\ ~sys.task[t].pinned}
    IN  /\ \/ /\ able = {} \/ Highest(sys, able) >= sys.rq[c].highest
                         \/ Highest(sys, able) < CurrPrio(sys, d)
             /\ Do(a, next)
             /\ UNCHANGED sys
          \/ /\ Highest(sys, able) < sys.rq[c].highest
             /\ Highest(sys, able) >= CurrPrio(sys, d)
             /\ \E t \in MostUrgent(sys, able) :
                   /\ sys' = Migrate(sys, t, c)
                   /\ Do(a, [next EXCEPT !.p = t])
        /\ UNCHANGED <<touched, ops>>

PullAtOnce(a) ==
    /\ act[a].at = "pulllock"
    /\ Free(act[a].other)
    /\ Pull(a)
    /\ UNCHANGED locked

PullRelocked(a) ==
    /\ act[a].at = "pullrelock"
    /\ Free(act[a].rq) /\ Free(act[a].other)
    /\ Pull(a)
    /\ locked' = locked \cup {act[a].rq}

(***************************************************************************)
(* schedule(): the running task sleeps, or the CPU was asked to            *)
(* reschedule.  pre_schedule_rt pulls when the queue's priority falls below *)
(* that of prev.                                                           *)
(***************************************************************************)
\* Fault: nothing is pulled.
ScheduleWithoutPull(c, sleeps) ==
    LET prev == sys.rq[c].curr
    IN  /\ act[c].at = "run"
        /\ Free(c)
        /\ IF sleeps THEN prev # RtNull ELSE sys.rq[c].resched
        /\ sys' = IF sleeps THEN dequeue_task(sys, prev) ELSE sys
        /\ locked' = locked \cup {c}
        /\ Do(c, [Running EXCEPT !.at = "switch", !.rq = c])
        /\ UNCHANGED <<touched, ops>>

Schedule(c, sleeps) ==
    LET prev == sys.rq[c].curr
        s == IF sleeps THEN dequeue_task(sys, prev) ELSE sys
        pulls == Prio(sys, prev) < Fair /\ s.rq[c].highest > Prio(sys, prev)
    IN  /\ act[c].at = "run"
        /\ Free(c)
        /\ IF sleeps THEN prev # RtNull ELSE sys.rq[c].resched
        /\ sys' = s
        /\ locked' = locked \cup {c}
        /\ Do(c, [Running EXCEPT !.at = IF pulls THEN "pull" ELSE "switch", !.rq = c,
                                 !.then = "switch"])
        /\ UNCHANGED <<touched, ops>>

\* put_prev_task_rt, then pick_next_task_rt: a task still queued becomes
\* pushable, the one picked is not.  post_schedule_rt follows if a real-time
\* task runs and some task is pushable.
Picked(s, c, t) ==
    [(IF Prio(s, t) < Fair THEN dequeue_pushable_task(s, c, t) ELSE s)
        EXCEPT !.rq[c].curr = t, !.rq[c].resched = FALSE]

Switch(c) ==
    LET prev == sys.rq[c].curr
        put == IF prev \in RtOn(sys, c) /\ ~sys.task[prev].pinned
               THEN enqueue_pushable_task(sys, c, prev) ELSE sys
    IN  /\ act[c].at = "switch"
        /\ \E t \in (IF OnRq(put, c) = {} THEN {RtNull} ELSE MostUrgent(put, OnRq(put, c))) :
              LET s == Picked(put, c, t)
              IN  /\ sys' = s
                  /\ Do(c, [Running EXCEPT
                               !.at = IF Prio(s, t) < Fair /\ s.rq[c].pushable # {} THEN "post"
                                                                                 ELSE "run"])
        /\ locked' = locked \ {c}
        /\ UNCHANGED <<touched, ops>>

\* post_schedule(): the lock is taken anew.
post_schedule_rt(c) ==
    /\ act[c].at = "post"
    /\ Free(c)
    /\ IF CurrPrio(sys, c) < Fair
       THEN /\ Do(c, [Running EXCEPT !.at = "push", !.rq = c])
            /\ locked' = locked \cup {c}
       ELSE Do(c, Running) /\ UNCHANGED locked
    /\ UNCHANGED <<sys, touched, ops>>

(***************************************************************************)
(* try_to_wake_up of a real-time or other task by the code of CPU a.       *)
(***************************************************************************)
\* select_task_rq_rt, without a lock.
select_task_rq_rt(a, t) ==
    LET c == sys.task[t].cpu
        curr == sys.rq[c].curr
        asks == /\ ~sys.task[t].pinned /\ Prio(sys, t) < Fair
                /\ Prio(sys, curr) < Fair
                /\ sys.task[curr].pinned \/ Prio(sys, curr) <= Prio(sys, t)
        found == IF asks THEN find_lowest_rq(sys, t) ELSE {}
    IN  /\ act[a].at = "run"
        /\ ~sys.task[t].on_rq /\ sys.rq[c].curr # t
        /\ \A b \in RtCpus : act[b].who # t
        /\ \E d \in (IF found = {} THEN {c} ELSE found) :
              Do(a, [Running EXCEPT !.at = "place", !.rq = d, !.who = t])
        /\ UNCHANGED <<sys, locked, touched, ops>>

\* check_preempt_curr, with check_preempt_equal_prio.
Preempts(s, c, t) ==
    \/ Prio(s, t) < CurrPrio(s, c) \/ s.rq[c].curr = RtNull
    \/ /\ Prio(s, t) = CurrPrio(s, c) /\ Prio(s, t) < Fair
       /\ ~s.rq[c].resched /\ ~s.task[s.rq[c].curr].pinned
       /\ s.task[t].pinned \/ cpupri_find(s, t) = {}
       /\ cpupri_find(s, s.rq[c].curr) # {}

\* task_woken_rt: the tasks that will not run here soon are pushed.
Woken(s, c, t) ==
    /\ Prio(s, t) < Fair /\ ~s.rq[c].resched
    /\ s.rq[c].pushable # {} /\ ~s.task[t].pinned
    /\ CurrPrio(s, c) < Fair
    /\ s.task[s.rq[c].curr].pinned \/ CurrPrio(s, c) <= Prio(s, t)

ttwu_do_activate(a) ==
    LET c == act[a].rq
        t == act[a].who
        e == enqueue_task(sys, t, c)
        s == IF Preempts(e, c, t) THEN resched_task(e, c) ELSE e
    IN  /\ act[a].at = "place"
        /\ Free(c)
        /\ sys' = s
        /\ IF Woken(s, c, t)
           THEN Do(a, [Running EXCEPT !.at = "push", !.rq = c]) /\ locked' = locked \cup {c}
           ELSE Do(a, Running) /\ UNCHANGED locked
        /\ UNCHANGED <<touched, ops>>

(***************************************************************************)
(* Priorities and affinities change, by the code of CPU a, under the       *)
(* task's pi_lock and the lock of its queue.                               *)
(***************************************************************************)
Changeable(a, t) ==
    /\ act[a].at = "run" /\ ops < RtMaxOps
    /\ Free(sys.task[t].cpu)
    /\ \A b \in RtCpus : act[b].who # t
    /\ ops' = ops + 1

Waits(s, t) == s.task[t].on_rq /\ s.rq[s.task[t].cpu].curr # t

Touch(s, t) == touched' = (touched \/ Waits(s, t))

Requeued(t, prio) ==
    IF ~sys.task[t].on_rq THEN [sys EXCEPT !.task[t].prio = prio]
    ELSE enqueue_task([dequeue_task(sys, t) EXCEPT !.task[t].prio = prio], t, sys.task[t].cpu)

\* The lock is kept for a push or a pull, or released.
Balance(a, s, at, c, then, t) ==
    /\ sys' = s
    /\ Do(a, [Running EXCEPT !.at = at, !.rq = c, !.then = then, !.who = t])
    /\ locked' = locked \cup {c}

NoBalance(s) == sys' = s /\ UNCHANGED <<act, locked>>

\* __sched_setscheduler (and rt_mutex_setprio) with check_class_changed:
\* prio_changed_rt, switched_from_rt or switched_to_rt.
sched_setscheduler(a, t, prio) ==
    LET old == Prio(sys, t)
        c == sys.task[t].cpu
        s == Requeued(t, prio)
        running == s.rq[c].curr = t
    IN  /\ prio # old
        /\ Changeable(a, t)
        /\ Touch(s, t)
        /\ IF ~s.task[t].on_rq THEN NoBalance(s)
           ELSE IF prio = Fair
           THEN IF RtOn(s, c) = {} THEN Balance(a, s, "pull", c, "switched_from", t)
                ELSE NoBalance(IF running THEN resched_task(s, c) ELSE s)
           ELSE IF old = Fair
           THEN IF ~running /\ s.rq[c].overloaded THEN Balance(a, s, "push", c, "switched_to", t)
                ELSE NoBalance(IF prio < CurrPrio(s, c) THEN resched_task(s, c) ELSE s)
           ELSE IF running /\ old < prio THEN Balance(a, s, "pull", c, "prio_changed", t)
           ELSE NoBalance(IF (running /\ prio > s.rq[c].highest) \/ prio < CurrPrio(s, c)
                          THEN resched_task(s, c) ELSE s)

\* set_cpus_allowed_rt: the task becomes bound to its CPU, or free again.
set_cpus_allowed_rt(a, t) ==
    LET c == sys.task[t].cpu
        s == [sys EXCEPT !.task[t].pinned = ~@]
        queued == s.task[t].on_rq /\ Prio(s, t) < Fair
        p == IF ~queued \/ s.rq[c].curr = t THEN s
             ELSE IF s.task[t].pinned THEN dequeue_pushable_task(s, c, t)
             ELSE enqueue_pushable_task(s, c, t)
    IN  /\ Changeable(a, t)
        /\ Touch(s, t)
        /\ NoBalance(IF queued THEN update_rt_migration(p, c) ELSE p)

RtNext ==
    \E a \in RtCpus :
        \/ push_rt_task(a) \/ find_lock_lowest_rq(a) \/ double_lock_balance(a)
        \/ PushAtOnce(a) \/ PushRelocked(a) \/ PushLost(a) \/ End(a)
        \/ pull_rt_task(a) \/ PullNext(a) \/ PullAtOnce(a) \/ PullRelocked(a)
        \/ \E sleeps \in BOOLEAN : Schedule(a, sleeps)
        \/ Switch(a) \/ post_schedule_rt(a) \/ ttwu_do_activate(a)
        \/ \E t \in RtTasks :
              \/ select_task_rq_rt(a, t) \/ set_cpus_allowed_rt(a, t)
              \/ \E prio \in Prios \cup {Fair} : sched_setscheduler(a, t, prio)

RtSpec == RtInit /\ [][RtNext]_rtVars

(***************************************************************************)
(* Properties.                                                             *)
(***************************************************************************)
\* What push and pull decide on is true of every queue whose lock is free: the
\* pushable list holds exactly the queued tasks that could run elsewhere and do
\* not run here (the BUG_ONs of pick_next_pushable_task), highest_prio.curr and
\* .next and cpupri are the priorities of the queue and of that list, and the
\* queue is in rto_mask exactly when it is overloaded.
QueuesTrue ==
    \A c \in RtCpus \ locked :
        LET q == sys.rq[c]
        IN  /\ q.pushable = {t \in RtOn(sys, c) : t # q.curr /\ ~sys.task[t].pinned}
            /\ q.highest = Highest(sys, RtOn(sys, c))
            /\ q.next = Highest(sys, q.pushable)
            /\ sys.cpupri[c] = q.highest
            /\ q.overloaded <=> c \in sys.rto
            /\ q.pushable # {} /\ RtOn(sys, c) # q.pushable => q.overloaded

\* When every CPU has come to rest, no task that may run anywhere waits while
\* some CPU runs something less urgent (rt.c push_rt_task: "other cpus will pull
\* from us when ready"), whatever was read without a lock and however the locks
\* were dropped, and whatever priority a running or sleeping task is given.  A
\* change to a task that waits starts neither a push nor a pull (prio_changed_rt
\* balances for the running task only), so the property ends there.
AtRest == \A c \in RtCpus : act[c].at = "run" /\ ~sys.rq[c].resched

NoneStranded ==
    AtRest /\ ~touched =>
        \A c, d \in RtCpus : \A t \in sys.rq[c].pushable : Prio(sys, t) >= CurrPrio(sys, d)
=============================================================================

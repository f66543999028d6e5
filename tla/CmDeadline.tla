----------------------------- MODULE CmDeadline -----------------------------
(***************************************************************************)
(* The deadline scheduling class (kernel/sched/deadline.c and the          *)
(* admission control of kernel/sched/core.c) on a CPU that is a root       *)
(* domain of its own: earliest deadline first, each task confined to its   *)
(* bandwidth by a constant bandwidth server.  A task that has used up its  *)
(* runtime is taken off the queue and throttled until its timer replenishes *)
(* it at its deadline.  The callbacks of the timers and sched_setscheduler *)
(* run on other CPUs of the machine, so that a callback may have started   *)
(* and wait for the lock of the queue while that is held.                  *)
(*                                                                         *)
(* With a single CPU in the domain no task can move: nothing is ever       *)
(* pushable, and push_dl_task and pull_dl_task return at once.             *)
(***************************************************************************)
EXTENDS Integers, FiniteSets, FiniteSetsExt

CONSTANTS
    DlTasks, DlNull,
    Params,     \* the (runtime, deadline, period) a task may ask for
    DlBws,      \* the bandwidths the sysctl may give the class
    BwUnit,     \* a bandwidth of 1, as 1 << 20 in to_ratio
    MaxClock,   \* bound: the time, by the number of tasks
    MaxLag,     \* bound: time between two accountings of the running task
    DlMaxOps    \* bound: calls of sched_setscheduler and writes of the sysctl

ASSUME DlAssumption ==
    /\ DlNull \notin DlTasks
    /\ \A p \in Params : 0 < p.runtime /\ p.runtime <= p.deadline /\ p.deadline <= p.period
    /\ DlBws \subseteq Nat
    /\ BwUnit \in Nat /\ MaxClock \in [1..Cardinality(DlTasks) -> Nat] /\ MaxLag \in Nat /\ DlMaxOps \in Nat

U64 == 2^16 \* stands for the 2^64 of total_bw, which is unsigned

VARIABLES
    dl,      \* the queue, the clock, the tasks and their timers (below)
    dlTouched, \* history: a task that waits was given new parameters
    dlops

dlVars == <<dl, dlTouched, dlops>>

\* task: dl (a deadline task), on_rq, alive, reaped, and of struct
\* sched_dl_entity the parameters, dl_bw, deadline, runtime, dl_throttled,
\* dl_new and queued (on_dl_rq).  used, over and base are a history: the time it
\* has run since its parameters were last renewed, how much of it beyond its
\* runtime and not yet paid for, and when they were renewed.
NewTask == [dl |-> FALSE, on_rq |-> FALSE, alive |-> TRUE, reaped |-> FALSE,
            par |-> [runtime |-> 0, deadline |-> 0, period |-> 0], bw |-> 0,
            deadline |-> 0, runtime |-> 0, throttled |-> FALSE, new |-> FALSE,
            queued |-> FALSE, used |-> 0, over |-> 0, base |-> 0]

to_ratio(par) == (par.runtime * BwUnit) \div par.period

\* The tasks sleep at the start, with their parameters, if any, set before.  now:
\* the time; clock: rq->clock, the time last read; exec: exec_start of curr.
\* timer: armed for a time, and running: its callback has begun.  bug: a BUG_ON
\* of the class was hit.
DlInit ==
    /\ \E bw \in DlBws : \E born \in SUBSET DlTasks \ {{}} :
       \E first \in [born -> {{}} \cup {{p} : p \in Params}] :
          LET admitted == {t \in born : first[t] # {}}
              Par(t) == CHOOSE p \in first[t] : TRUE
              total == MapThenSumSet(LAMBDA t : to_ratio(Par(t)), admitted)
          IN  /\ total <= bw
              /\ dl = [now |-> 1, clock |-> 1, exec |-> 1, curr |-> DlNull, resched |-> FALSE,
                       task |-> [t \in DlTasks |->
                                   IF t \in admitted
                                   THEN [NewTask EXCEPT !.dl = TRUE, !.new = TRUE, !.par = Par(t),
                                                        !.bw = to_ratio(Par(t))]
                                   ELSE [NewTask EXCEPT !.alive = t \in born,
                                                        !.reaped = t \notin born]],
                       timer |-> [t \in DlTasks |-> [armed |-> FALSE, at |-> 0, running |-> FALSE]],
                       bw |-> bw, total |-> total, bug |-> FALSE,
                       end |-> MaxClock[Cardinality(born)]]
    /\ dlTouched = FALSE
    /\ dlops = 0

(***************************************************************************)
(* The constant bandwidth server.  The operators map a value s of dl to    *)
(* the value after the call, which holds the lock of the queue.            *)
(***************************************************************************)
update_rq_clock(s) == [s EXCEPT !.clock = s.now]

setup_new_dl_entity(s, t) ==
    [s EXCEPT !.task[t].deadline = s.clock + s.task[t].par.deadline,
              !.task[t].runtime = s.task[t].par.runtime,
              !.task[t].new = FALSE,
              !.task[t].used = 0, !.task[t].over = 0, !.task[t].base = s.clock]

\* The loop adds periods until some runtime is left.
Periods(e) == IF e.runtime > 0 THEN 0 ELSE (-e.runtime) \div e.par.runtime + 1

\* Fault: the runtime is refilled and the deadline stays where it is.
ReplenishInPlace(s, t) ==
    LET e == s.task[t]
        n == Periods(e)
    IN  [s EXCEPT !.task[t].runtime = @ + n * e.par.runtime]

replenish_dl_entity(s, t) ==
    LET e == s.task[t]
        n == Periods(e)
        deadline == e.deadline + n * e.par.period
    IN  IF deadline < s.clock
        THEN [s EXCEPT !.task[t].deadline = s.clock + e.par.deadline,
                       !.task[t].runtime = e.par.runtime, !.task[t].over = 0]
        ELSE [s EXCEPT !.task[t].deadline = deadline,
                       !.task[t].runtime = @ + n * e.par.runtime, !.task[t].over = 0]

dl_entity_overflow(s, t) ==
    LET e == s.task[t]
    IN  e.par.period * e.runtime > (e.deadline - s.clock) * e.par.runtime

update_dl_entity(s, t) ==
    LET e == s.task[t]
    IN  IF e.new THEN setup_new_dl_entity(s, t)
        ELSE IF e.deadline < s.clock \/ dl_entity_overflow(s, t)
        THEN [s EXCEPT !.task[t].deadline = s.clock + e.par.deadline,
                       !.task[t].runtime = e.par.runtime,
                       !.task[t].used = @ - e.over, !.task[t].over = 0]
        ELSE s

\* enqueue_dl_entity, with its BUG_ON(on_dl_rq(dl_se)).
enqueue_task_dl(s, t, replenish) ==
    LET e == s.task[t]
        r == IF ~e.new /\ replenish THEN replenish_dl_entity(s, t) ELSE update_dl_entity(s, t)
    IN  IF e.throttled THEN s
        ELSE IF e.queued THEN [s EXCEPT !.bug = TRUE]
        ELSE [r EXCEPT !.task[t].queued = TRUE]

__dequeue_task_dl(s, t) == [s EXCEPT !.task[t].queued = FALSE]

resched(s) == [s EXCEPT !.resched = TRUE]

Waiting(s) == {t \in DlTasks : s.task[t].queued}

\* is_leftmost of a task just put back: behind those of the same deadline.
is_leftmost(s, t) ==
    s.task[t].queued /\ \A u \in Waiting(s) \ {t} : s.task[t].deadline < s.task[u].deadline

\* dl_runtime_exceeded: what was run past the deadline belongs to the next
\* instance.
Exceeded(s, e) == e.runtime <= 0 \/ e.deadline < s.clock

Charged(s, e) ==
    IF e.deadline < s.clock
    THEN (IF e.runtime <= 0 THEN e.runtime ELSE 0) - (s.clock - e.deadline)
    ELSE e.runtime

\* The timer is set for the deadline, which comes from rq->clock.
start_dl_timer(s, t) ==
    [s EXCEPT !.timer[t].armed = TRUE, !.timer[t].at = s.task[t].deadline + s.now - s.clock]

\* start_dl_timer fails if the deadline has passed.
update_curr_dl(s) ==
    LET t == s.curr
        delta == s.clock - s.exec
        ran == [s EXCEPT !.task[t].runtime = @ - delta, !.task[t].used = @ + delta,
                         !.task[t].over = @ + Max({0, delta - Max({0, s.task[t].runtime})}),
                         !.exec = s.clock]
        e == ran.task[t]
        out == __dequeue_task_dl([ran EXCEPT !.task[t].runtime = Charged(s, e)], t)
        put == IF e.deadline >= s.clock
               THEN [start_dl_timer(out, t) EXCEPT !.task[t].throttled = TRUE]
               ELSE enqueue_task_dl(out, t, TRUE)
    IN  IF t = DlNull THEN s
        ELSE IF ~s.task[t].dl \/ ~s.task[t].queued THEN s
        ELSE IF ~Exceeded(s, e) THEN ran
        ELSE IF is_leftmost(put, t) THEN put ELSE resched(put)

dequeue_dl(s, t) ==
    LET f == update_rq_clock(s)
    IN  IF s.task[t].dl THEN __dequeue_task_dl(update_curr_dl(f), t) ELSE f

enqueue_dl(s, t) ==
    LET f == update_rq_clock(s)
    IN  IF s.task[t].dl THEN enqueue_task_dl(f, t, FALSE) ELSE f

\* check_preempt_curr, with check_preempt_curr_dl: curr is pinned to its CPU, so
\* that an equal deadline does not preempt.
check_preempt_curr(s, t) ==
    LET c == s.curr
    IN  IF s.task[t].dl /\ (c = DlNull \/ ~s.task[c].dl \/ s.task[t].deadline < s.task[c].deadline)
        THEN resched(s)
        ELSE IF c = DlNull THEN resched(s) ELSE s

(***************************************************************************)
(* Time, the tick and schedule().                                          *)
(***************************************************************************)
Set(s) == dl' = s

Runs(s) == ~s.bug

Time ==
    /\ Runs(dl) /\ dl.now < dl.end
    /\ dl.curr # DlNull /\ dl.task[dl.curr].queued => dl.now - dl.exec < MaxLag
    /\ Set([dl EXCEPT !.now = @ + 1])
    /\ UNCHANGED <<dlTouched, dlops>>

task_tick_dl ==
    /\ Runs(dl)
    /\ dl.now > dl.clock
    /\ Set(update_curr_dl(update_rq_clock(dl)))
    /\ UNCHANGED <<dlTouched, dlops>>

\* pick_next_task_dl: the leftmost; with no deadline task queued, another class
\* picks one of its own, or the idle task.
Candidates(s) ==
    LET queued == Waiting(s)
        others == {t \in DlTasks : s.task[t].on_rq /\ ~s.task[t].dl}
    IN  IF queued # {}
        THEN {t \in queued : \A u \in queued : s.task[t].deadline <= s.task[u].deadline}
        ELSE IF others # {} THEN others ELSE {DlNull}

\* put_prev_task_dl, and the switch to the task picked.
Switched(s) ==
    LET put == update_curr_dl(update_rq_clock(s))
    IN  {[put EXCEPT !.curr = t, !.exec = put.clock, !.resched = FALSE] : t \in Candidates(put)}

\* how: the running task is preempted, sleeps, or dies.
schedule(how) ==
    LET t == dl.curr
        out == [dequeue_dl(dl, t) EXCEPT !.task[t].on_rq = FALSE,
                                           !.task[t].alive = (how # "dies")]
    IN  /\ Runs(dl)
        /\ IF how = "preempted" THEN dl.resched ELSE t # DlNull
        /\ \E s \in Switched(IF how = "preempted" THEN dl ELSE out) : Set(s)
        /\ UNCHANGED <<dlTouched, dlops>>

\* sys_sched_yield, which does not read the clock, and the schedule() it ends with.
yield_task_dl ==
    LET t == dl.curr
        gone == IF dl.task[t].runtime > 0
                THEN [dl EXCEPT !.task[t].new = TRUE, !.task[t].runtime = 0] ELSE dl
    IN  /\ Runs(dl)
        /\ t # DlNull /\ dl.task[t].dl
        /\ \E s \in Switched(update_curr_dl(gone)) : Set(s)
        /\ UNCHANGED <<dlTouched, dlops>>

\* finish_task_switch of a task that died: task_dead_dl gives its bandwidth back
\* and cancels its timer, waiting for the callback.
task_dead_dl(t) ==
    LET e == dl.task[t]
    IN  /\ Runs(dl)
        /\ ~e.alive /\ ~e.reaped
        /\ ~dl.timer[t].running
        /\ Set([dl EXCEPT !.task[t].reaped = TRUE, !.task[t].dl = FALSE,
                          !.total = IF e.dl THEN (@ - e.bw) % U64 ELSE @,
                          !.timer[t].armed = FALSE, !.timer[t].at = 0])
        /\ UNCHANGED <<dlTouched, dlops>>

\* A task wakes up: ttwu_activate_dl.  One that is still throttled is left to
\* its timer.
ttwu_activate_dl(t) ==
    LET s == enqueue_dl([dl EXCEPT !.task[t].on_rq = TRUE], t)
    IN  /\ Runs(dl)
        /\ dl.task[t].alive /\ ~dl.task[t].on_rq
        /\ Set(check_preempt_curr(s, t))
        /\ UNCHANGED <<dlTouched, dlops>>

(***************************************************************************)
(* The timer of a throttled task.                                          *)
(***************************************************************************)
\* The interrupt: the callback begins, and waits for the lock.
TimerFires(t) ==
    /\ Runs(dl)
    /\ dl.timer[t].armed /\ ~dl.timer[t].running
    /\ dl.timer[t].at <= dl.now
    /\ Set([dl EXCEPT !.timer[t].armed = FALSE, !.timer[t].at = 0, !.timer[t].running = TRUE])
    /\ UNCHANGED <<dlTouched, dlops>>

\* Fault: the running task is not looked at when a task is put back.
TimerSilent(t) ==
    LET e == dl.task[t]
        freed == [update_rq_clock(dl) EXCEPT !.task[t].throttled = FALSE, !.timer[t].running = FALSE]
    IN  /\ Runs(dl)
        /\ dl.timer[t].running
        /\ Set(IF ~e.dl \/ e.new THEN [dl EXCEPT !.timer[t].running = FALSE]
               ELSE IF e.on_rq THEN enqueue_task_dl(freed, t, TRUE)
               ELSE freed)
        /\ UNCHANGED <<dlTouched, dlops>>

dl_task_timer(t) ==
    LET e == dl.task[t]
        freed == [update_rq_clock(dl) EXCEPT !.task[t].throttled = FALSE, !.timer[t].running = FALSE]
    IN  /\ Runs(dl)
        /\ dl.timer[t].running
        /\ Set(IF ~e.dl \/ e.new THEN [dl EXCEPT !.timer[t].running = FALSE]
               ELSE IF e.on_rq THEN check_preempt_curr(enqueue_task_dl(freed, t, TRUE), t)
               ELSE freed)
        /\ UNCHANGED <<dlTouched, dlops>>

(***************************************************************************)
(* sched_setscheduler and sched_setattr, with the admission control.       *)
(***************************************************************************)
\* dl_overflow: the new total_bw of those that are admitted.  A bandwidth equal
\* to the one the task has, or had, is not looked at.
dl_overflow(t, par) ==
    LET e == dl.task[t]
        new == IF par = {} THEN 0 ELSE to_ratio(CHOOSE p \in par : TRUE)
        total == (dl.total - (IF e.dl THEN e.bw ELSE 0) + new) % U64
    IN  IF new = e.bw THEN {dl.total}
        ELSE IF par = {} THEN (IF e.dl THEN {total} ELSE {})
        ELSE IF dl.bw < total THEN {} ELSE {total}

\* __setparam_dl, or another policy: the fields of the old one stay.  The timer
\* is cancelled unless its callback runs (init_dl_task_timer, switched_from_dl).
__setscheduler(s, t, par) ==
    LET p == CHOOSE q \in par : TRUE
    IN  IF par = {} THEN [s EXCEPT !.task[t].dl = FALSE, !.timer[t].armed = FALSE,
                                       !.timer[t].at = 0]
        ELSE [s EXCEPT !.timer[t].armed = FALSE, !.timer[t].at = 0,
                       !.task[t].dl = TRUE, !.task[t].par = p, !.task[t].bw = to_ratio(p),
                       !.task[t].throttled = FALSE, !.task[t].new = TRUE]

\* check_class_changed: switched_from_dl, switched_to_dl, prio_changed_dl.
switched_to_dl(s, t) ==
    IF s.curr = DlNull THEN s
    ELSE IF (s.task[t].on_rq \/ s.curr # t) /\ s.task[s.curr].dl
            /\ s.task[t].deadline < s.task[s.curr].deadline
    THEN resched(s) ELSE s

prio_changed_dl(s, t) ==
    IF ~s.task[t].on_rq /\ s.curr # t THEN switched_to_dl(s, t)
    ELSE IF s.curr = t /\ \E u \in Waiting(s) : s.task[u].deadline < s.task[t].deadline
    THEN resched(s) ELSE s

check_class_changed(s, t, was) ==
    IF ~s.task[t].dl THEN (IF s.curr = t THEN resched(s) ELSE s)
    ELSE IF was THEN prio_changed_dl(s, t) ELSE switched_to_dl(s, t)

\* par: the set of the parameters asked for, empty for another policy.
__sched_setscheduler(t, par) ==
    LET e == dl.task[t]
        out == IF e.on_rq THEN dequeue_dl(dl, t) ELSE dl
        set == __setscheduler(out, t, par)
        cur == IF dl.curr = t THEN [set EXCEPT !.exec = set.clock] ELSE set
        back == IF e.on_rq THEN enqueue_dl(cur, t) ELSE cur
    IN  /\ Runs(dl) /\ dlops < DlMaxOps
        /\ e.alive
        /\ e.dl \/ par # {}
        /\ \E total \in dl_overflow(t, par) :
              Set([check_class_changed(back, t, e.dl) EXCEPT !.total = total])
        /\ dlTouched' = (dlTouched \/ (par # {} /\ e.on_rq /\ dl.curr # t))
        /\ dlops' = dlops + 1

\* sched_rt_handler: sched_dl_global_constraints, then sched_dl_do_global.
sched_dl_do_global(bw) ==
    /\ Runs(dl) /\ dlops < DlMaxOps
    /\ bw # dl.bw /\ dl.total <= bw
    /\ Set([dl EXCEPT !.bw = bw])
    /\ dlops' = dlops + 1
    /\ UNCHANGED dlTouched

DlNext ==
    \/ Time \/ task_tick_dl \/ yield_task_dl
    \/ \E how \in {"preempted", "sleeps", "dies"} : schedule(how)
    \/ \E t \in DlTasks :
          \/ ttwu_activate_dl(t) \/ task_dead_dl(t) \/ TimerFires(t) \/ dl_task_timer(t)
          \/ \E par \in {{}} \cup {{p} : p \in Params} : __sched_setscheduler(t, par)
    \/ \E bw \in DlBws : sched_dl_do_global(bw)

DlSpec == DlInit /\ [][DlNext]_dlVars

(***************************************************************************)
(* Properties.                                                             *)
(***************************************************************************)
\* The server confines each task to its bandwidth (deadline.c:
\* replenish_dl_entity, "can't make them miss their deadlines"): what a task has
\* been charged since its parameters were renewed (set, or by sched_yield) and
\* what it may still run before its deadline never exceed the bandwidth runtime
\* / period times the time up to that deadline, whenever it slept, woke up,
\* overran or had its timer late.  Only an overrun between two ticks of a task
\* that then sleeps past its deadline is forgiven, by update_dl_entity.  For
\* tasks whose deadline is their period: dl_entity_overflow checks against the
\* period.
CbsBound ==
    \A t \in DlTasks :
        LET e == dl.task[t]
        IN  e.queued /\ e.par.deadline = e.par.period =>
                (e.used + e.runtime) * e.par.period <= (e.deadline - e.base) * e.par.runtime

\* Earliest deadline first: with no rescheduling due, the running task is a
\* deadline task with a deadline no later than any that is queued.  Parameters
\* given to a task that waits do not preempt (prio_changed_dl looks at the
\* running task only), so the property ends there.
EdfOrder ==
    ~dl.resched /\ ~dl.bug /\ ~dlTouched =>
        \A t \in Waiting(dl) :
            /\ dl.curr # DlNull
            /\ dl.task[dl.curr].queued
            /\ dl.task[dl.curr].deadline <= dl.task[t].deadline

\* The allocated bandwidth is that of the deadline tasks (core.c, dl_overflow:
\* "this function also accordingly updates the currently allocated bandwidth to
\* reflect the new situation").  No run checks it, for it does not hold: a task
\* that left the class keeps its dl_bw, and coming back with the same one is
\* taken for no change.
AdmissionExact ==
    dl.total = MapThenSumSet(LAMBDA t : dl.task[t].bw, {t \in DlTasks : dl.task[t].dl}) % U64

\* A throttled task is waited for by its timer (deadline.c, yield_task_dl: "the
\* bandwidth timer will wake it up and will give it new scheduling parameters").
\* No run checks it, for it does not hold: dl_task_timer turns back for a task
\* with dl_new set.
ThrottledTimed ==
    \A t \in DlTasks :
        dl.task[t].dl /\ dl.task[t].throttled => dl.timer[t].armed \/ dl.timer[t].running

\* No task is queued twice (deadline.c, enqueue_dl_entity: BUG_ON(on_dl_rq(dl_se))).
\* No run checks it, for it does not hold: a change of parameters queues a
\* throttled task while the callback of its timer waits for the run queue.
QueuedOnce == ~dl.bug
=============================================================================

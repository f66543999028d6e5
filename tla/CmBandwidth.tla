---------------------------- MODULE CmBandwidth ----------------------------
(***************************************************************************)
(* CFS bandwidth control (kernel/sched/fair.c, kernel/sched/core.c): one   *)
(* task group with a quota of CPU time per period, its pool cfs_b, and its *)
(* cfs_rq on every CPU.  A cfs_rq takes slices from the pool, is throttled *)
(* when the pool is empty, and is unthrottled by the period timer, by the  *)
(* slack timer, by a change of the quota or by the death of its CPU.       *)
(*                                                                         *)
(* Locks: a CPU's action holds its rq->lock; the pool is read and written  *)
(* under cfs_b->lock.  A step is one critical section of cfs_b->lock with  *)
(* the rq-local work around it.  __start_cfs_bandwidth is the exception:   *)
(* it may drop cfs_b->lock and spin, with rq->lock still held, until the   *)
(* callback of the period timer has returned; "spin" is that state.        *)
(*                                                                         *)
(* Time is abstract.  runtime_expires is the number of the refill that     *)
(* issued the time (epoch); whether a CPU's clock has passed a deadline,   *)
(* and whether a refresh is near, are choices.                             *)
(***************************************************************************)
EXTENDS Integers, FiniteSets, Sequences, SequencesExt, FiniteSetsExt

CONSTANTS
    BwCpus,     \* the possible CPUs
    INF,        \* RUNTIME_INF: no limit
    Quotas,     \* the quotas the group may be given, INF among them
    Slice,      \* sched_cfs_bandwidth_slice()
    MinRuntime, \* min_cfs_rq_runtime
    MaxEpoch,   \* bound: refills
    MaxDebt,    \* bound: ticks a group runs on before it is rescheduled
    MaxChanges  \* bound: quota changes and CPU removals

ASSUME BwAssumption ==
    /\ IsFiniteSet(BwCpus)
    /\ Quotas \ {INF} \subseteq Nat \ {0}
    /\ {Slice, MinRuntime, MaxEpoch, MaxDebt, MaxChanges} \subseteq Nat

VARIABLES
    cfs_b,   \* the group's struct cfs_bandwidth
    cfs_rq,  \* CPU -> the group's struct cfs_rq there
    period,  \* the callback of the period timer: where it is and its locals
    slack,   \* the callback of the slack timer
    setter,  \* the writer of cpu.cfs_quota_us, serialised by a mutex
    spent,   \* history: time of the current epoch the group has run
    upset,   \* history: the quota or the CPUs changed since the last refill
    changes  \* how many such changes there have been

bwVars == <<cfs_b, cfs_rq, period, slack, setter, spent, upset, changes>>

Callback == [at |-> "none", runtime |-> 0, expires |-> 0, todo |-> <<>>, idle |-> FALSE]

\* init_cfs_bandwidth and init_cfs_rq_runtime: a new group has no limit; or the
\* group has since been given a quota, and has not run yet.
BwInit ==
    /\ \E quota \in Quotas :
          /\ cfs_b = [quota |-> quota, runtime |-> IF quota = INF THEN 0 ELSE quota,
                      expires |-> IF quota = INF THEN 0 ELSE 1, idle |-> FALSE,
                      timer_active |-> FALSE, throttled |-> <<>>,
                      period_timer |-> "off", slack_timer |-> "off"]
          /\ cfs_rq = [c \in BwCpus |->
                          [remaining |-> 0, expires |-> 0, extended |-> FALSE,
                           enabled |-> quota # INF, throttled |-> FALSE, nr |-> 0,
                           curr |-> FALSE, spin |-> "no"]]
    /\ period = Callback
    /\ slack = Callback
    /\ setter = [at |-> "none", todo |-> {}]
    /\ spent = 0
    /\ upset = FALSE
    /\ changes = 0

Least(a, b) == IF a < b THEN a ELSE b

(***************************************************************************)
(* The pool.  The operators map a value of cfs_b (b) and of a CPU's cfs_rq *)
(* (q) to the value after the call.                                        *)
(***************************************************************************)
__refill_cfs_bandwidth_runtime(b) ==
    IF b.quota = INF THEN b
    ELSE [b EXCEPT !.runtime = b.quota, !.expires = @ + 1]

MayRefill(b) == b.expires < MaxEpoch

\* __start_cfs_bandwidth when the callback is not running: a queued timer is
\* cancelled, and the timer is programmed afresh.
start_bandwidth_timer(b) == [b EXCEPT !.timer_active = TRUE, !.period_timer = "armed"]

\* __start_cfs_bandwidth has to wait while the callback runs.
CannotCancel(b) == b.period_timer = "running"

\* assign_cfs_rq_runtime up to the call of __start_cfs_bandwidth: a pool whose
\* timer has stopped is refilled.
NeedsStart(b) == b.quota # INF /\ ~b.timer_active

\* assign_cfs_rq_runtime from there: min_amount is taken as far as it goes.
Amount(b, q) ==
    LET min_amount == Slice - q.remaining
    IN  IF b.quota = INF THEN min_amount ELSE Least(b.runtime, min_amount)

PoolAfter(b, q) ==
    IF b.quota = INF \/ b.runtime = 0 THEN b
    ELSE [b EXCEPT !.runtime = @ - Amount(b, q), !.idle = FALSE]

RqAfter(b, q) ==
    [q EXCEPT !.remaining = @ + Amount(b, q),
              !.expires = IF b.expires > @ THEN b.expires ELSE @,
              !.extended = @ /\ b.expires <= q.expires]

\* expire_cfs_rq_runtime: past its deadline (late) local time is void if the
\* pool has been refilled since; otherwise the CPU's clock is fast, and the
\* deadline is moved by a tick.
expire_cfs_rq_runtime(b, q, late) ==
    IF ~late \/ q.remaining < 0 THEN q
    ELSE IF q.expires >= b.expires THEN [q EXCEPT !.extended = TRUE]
    ELSE [q EXCEPT !.remaining = 0]

throttle_cfs_rq(b, c) == [b EXCEPT !.throttled = Append(@, c)]

unthrottle_cfs_rq(b, c) == [b EXCEPT !.throttled = Remove(@, c)]

\* __return_cfs_rq_runtime: time above the minimum goes back to the pool while
\* it is valid there.  A slack timer distributes it later, unless a refresh is
\* near (soon) or the period timer's callback is running.
Slack(q) == q.remaining - MinRuntime

\* Fault: time of an earlier period is returned to the pool as well.
ReturnStale(b, q, soon) ==
    IF Slack(q) <= 0 \/ b.quota = INF THEN b ELSE [b EXCEPT !.runtime = @ + Slack(q)]

ReturnPool(b, q, soon) ==
    IF Slack(q) <= 0 \/ b.quota = INF \/ q.expires # b.expires \/ q.extended THEN b
    ELSE LET r == [b EXCEPT !.runtime = @ + Slack(q)]
         IN  IF r.runtime > Slice /\ b.throttled # <<>> /\ ~soon /\ b.period_timer = "armed"
             THEN [r EXCEPT !.slack_timer = IF @ = "off" THEN "armed" ELSE @]
             ELSE r

ReturnRq(q) == IF Slack(q) <= 0 THEN q ELSE [q EXCEPT !.remaining = MinRuntime]

(***************************************************************************)
(* A CPU, under its rq->lock.                                              *)
(***************************************************************************)
\* What follows the assignment of time: without any, the path of the tick asks
\* for a reschedule (put_prev_entity may come at any time), and the path of a
\* wakeup or of put_prev_entity throttles at once.
\* throttle_cfs_rq restarts a stopped timer, and may have to spin for it.
\* Fault: a stopped timer is not restarted.
ThrottleSilently(c, b, q) ==
    /\ cfs_b' = throttle_cfs_rq(b, c)
    /\ cfs_rq' = [cfs_rq EXCEPT ![c] = [q EXCEPT !.throttled = TRUE, !.spin = "no"]]

Throttle(c, b, q) ==
    LET t == throttle_cfs_rq(b, c)
        u == [q EXCEPT !.throttled = TRUE]
    IN  IF t.timer_active
        THEN cfs_b' = t /\ cfs_rq' = [cfs_rq EXCEPT ![c] = [u EXCEPT !.spin = "no"]]
        ELSE IF CannotCancel(t)
        THEN cfs_b' = t /\ cfs_rq' = [cfs_rq EXCEPT ![c] = [u EXCEPT !.spin = "throttle"]]
        ELSE /\ cfs_b' = start_bandwidth_timer(t)
             /\ cfs_rq' = [cfs_rq EXCEPT ![c] = [u EXCEPT !.spin = "no"]]

Assigned(c, b, q, path) ==
    LET p == PoolAfter(b, q)
        r == RqAfter(b, q)
    IN  IF r.remaining > 0 \/ path = "tick"
        THEN /\ cfs_b' = p
             /\ cfs_rq' = [cfs_rq EXCEPT ![c] = [r EXCEPT !.spin = "no"]]
        ELSE Throttle(c, p, r)

\* __account_cfs_rq_runtime after the time has been docked and expired; run is
\* the history of time run, unless the pool is refilled.
__account_cfs_rq_runtime(c, q, path, run) ==
    IF q.remaining <= 0 /\ NeedsStart(cfs_b)
    THEN LET b == __refill_cfs_bandwidth_runtime(cfs_b)
         IN  /\ MayRefill(cfs_b)
             /\ spent' = 0
             /\ UNCHANGED upset
             /\ IF CannotCancel(b)
                THEN cfs_b' = b /\ cfs_rq' = [cfs_rq EXCEPT ![c] = [q EXCEPT !.spin = path]]
                ELSE Assigned(c, start_bandwidth_timer(b), q, path)
    ELSE /\ spent' = run
         /\ UNCHANGED upset
         /\ IF q.remaining > 0
            THEN cfs_rq' = [cfs_rq EXCEPT ![c] = q] /\ UNCHANGED cfs_b
            ELSE Assigned(c, cfs_b, q, path)

RqFree(c) == cfs_rq[c].spin = "no"

CpuUnchanged == UNCHANGED <<period, slack, setter, changes>>

\* account_cfs_rq_runtime of update_curr: the time run is docked before the quota
\* is expired.
Docked(c, q, path) ==
    LET docked == [q EXCEPT !.remaining = @ - 1]
        run == IF cfs_b.quota # INF /\ q.remaining > 0 /\ q.expires = cfs_b.expires
               THEN spent + 1 ELSE spent
    IN  /\ q.remaining > -MaxDebt
        /\ \E late \in BOOLEAN :
              __account_cfs_rq_runtime(c, expire_cfs_rq_runtime(cfs_b, docked, late), path, run)

\* entity_tick of the running group.
update_curr(c) ==
    LET q == cfs_rq[c]
    IN  /\ RqFree(c)
        /\ q.curr /\ q.nr = 1 /\ q.enabled
        /\ Docked(c, q, "tick")
        /\ CpuUnchanged

\* enqueue_entity of the group's first task there, with check_enqueue_throttle.
enqueue_entity(c) ==
    LET q == [cfs_rq[c] EXCEPT !.nr = 1]
    IN  /\ RqFree(c)
        /\ cfs_rq[c].nr = 0
        /\ IF ~q.enabled \/ q.curr \/ q.throttled
           THEN cfs_rq' = [cfs_rq EXCEPT ![c] = q] /\ UNCHANGED <<cfs_b, spent, upset>>
           ELSE \E late \in BOOLEAN :
                   __account_cfs_rq_runtime(c, expire_cfs_rq_runtime(cfs_b, q, late),
                                            "enqueue", spent)
        /\ CpuUnchanged

\* dequeue_entity of its last task, with return_cfs_rq_runtime.
return_cfs_rq_runtime(c, b, q, soon) ==
    /\ cfs_b' = IF q.enabled THEN ReturnPool(b, q, soon) ELSE b
    /\ cfs_rq' = [cfs_rq EXCEPT ![c] = IF q.enabled THEN ReturnRq(q) ELSE q]

dequeue_entity(c) ==
    /\ RqFree(c)
    /\ cfs_rq[c].nr = 1
    /\ \E soon \in BOOLEAN :
          return_cfs_rq_runtime(c, cfs_b, [cfs_rq[c] EXCEPT !.nr = 0], soon)
    /\ CpuUnchanged
    /\ UNCHANGED <<spent, upset>>

\* pick_next_task_fair: a throttled group is not on the run queue.
set_next_entity(c) ==
    /\ RqFree(c)
    /\ cfs_rq[c].nr = 1
    /\ ~cfs_rq[c].curr
    /\ ~cfs_rq[c].throttled
    /\ cfs_rq' = [cfs_rq EXCEPT ![c].curr = TRUE]
    /\ CpuUnchanged
    /\ UNCHANGED <<cfs_b, spent, upset>>

\* put_prev_entity: update_curr once more if the entity is still queued and has
\* run since, then check_cfs_rq_runtime.
put_prev_entity(c) ==
    LET q == [cfs_rq[c] EXCEPT !.curr = FALSE]
    IN  /\ RqFree(c)
        /\ cfs_rq[c].curr
        /\ \/ q.nr = 1 /\ q.enabled /\ Docked(c, q, "put")
           \/ /\ IF ~q.enabled \/ q.remaining > 0 \/ q.throttled
                 THEN cfs_rq' = [cfs_rq EXCEPT ![c] = q] /\ UNCHANGED cfs_b
                 ELSE Throttle(c, cfs_b, q)
              /\ UNCHANGED <<spent, upset>>
        /\ CpuUnchanged

\* The loop of __start_cfs_bandwidth in a CPU, rq->lock held: it ends when the
\* callback has returned or somebody else has restarted the timer.
__start_cfs_bandwidth(c) ==
    LET q == cfs_rq[c]
        b == IF cfs_b.timer_active THEN cfs_b ELSE start_bandwidth_timer(cfs_b)
    IN  /\ q.spin # "no"
        /\ cfs_b.timer_active \/ ~CannotCancel(cfs_b)
        /\ IF q.spin = "throttle"
           THEN cfs_b' = b /\ cfs_rq' = [cfs_rq EXCEPT ![c].spin = "no"]
           ELSE Assigned(c, b, q, q.spin)
        /\ CpuUnchanged
        /\ UNCHANGED <<spent, upset>>
(***************************************************************************)
(* The timers.  hrtimer itself is external: a queued timer may expire at   *)
(* any time, a callback runs on some CPU in interrupt context.             *)
(***************************************************************************)
TimersUnchanged == UNCHANGED <<setter, changes>>

\* sched_cfs_period_timer: the timer has expired.
sched_cfs_period_timer ==
    /\ cfs_b.period_timer = "armed"
    /\ cfs_b' = [cfs_b EXCEPT !.period_timer = "running"]
    /\ period' = [period EXCEPT !.at = "do"]
    /\ UNCHANGED <<cfs_rq, slack, spent, upset>> /\ TimersUnchanged

\* do_sched_cfs_period_timer: the pool is refilled.  With throttled queues the
\* new time is held back for them; without, the period may be the last.
do_sched_cfs_period_timer ==
    /\ period.at = "do"
    /\ LET idle == cfs_b.quota = INF \/ (cfs_b.idle /\ cfs_b.throttled = <<>>)
           b == [__refill_cfs_bandwidth_runtime(cfs_b) EXCEPT !.timer_active = TRUE]
       IN  IF idle
           THEN /\ cfs_b' = [cfs_b EXCEPT !.timer_active = FALSE]
                /\ period' = [Callback EXCEPT !.at = "forward", !.idle = TRUE]
                /\ UNCHANGED <<spent, upset>>
           ELSE /\ MayRefill(cfs_b)
                /\ spent' = 0
                /\ upset' = FALSE
                /\ IF b.throttled = <<>>
                   THEN /\ cfs_b' = [b EXCEPT !.idle = TRUE]
                        /\ period' = [Callback EXCEPT !.at = "forward"]
                   ELSE /\ cfs_b' = [b EXCEPT !.runtime = 0]
                        /\ period' = [Callback EXCEPT !.at = "distribute", !.runtime = b.runtime,
                                       !.expires = b.expires, !.todo = b.throttled]
    /\ UNCHANGED <<cfs_rq, slack>> /\ TimersUnchanged

\* distribute_cfs_runtime, one entry of the list, under its rq->lock: a
\* throttled queue gets what takes it just above zero.  cb is the callback
\* that distributes.
Grant(c, cb) == Least(1 - cfs_rq[c].remaining, cb.runtime)

distribute_cfs_runtime(cb) ==
    LET c == Head(cb.todo)
        q == [cfs_rq[c] EXCEPT !.remaining = @ + Grant(c, cb), !.expires = cb.expires,
                               !.extended = FALSE]
    IN  IF ~cfs_rq[c].throttled
        THEN UNCHANGED <<cfs_b, cfs_rq>>
        ELSE IF q.remaining > 0
        THEN /\ cfs_rq' = [cfs_rq EXCEPT ![c] = [q EXCEPT !.throttled = FALSE]]
             /\ cfs_b' = unthrottle_cfs_rq(cfs_b, c)
        ELSE cfs_rq' = [cfs_rq EXCEPT ![c] = q] /\ UNCHANGED cfs_b

Distributed(cb) ==
    LET left == IF cfs_rq[Head(cb.todo)].throttled THEN cb.runtime - Grant(Head(cb.todo), cb)
                                                   ELSE cb.runtime
    IN  [cb EXCEPT !.runtime = left,
                   !.todo = IF left = 0 THEN <<>> ELSE Tail(@)]

PeriodDistribute ==
    /\ period.at = "distribute" /\ period.todo # <<>>
    /\ RqFree(Head(period.todo))
    /\ distribute_cfs_runtime(period)
    /\ period' = Distributed(period)
    /\ UNCHANGED <<slack, spent, upset>> /\ TimersUnchanged

\* The check is repeated, as queues may have been throttled meanwhile; what is
\* left goes to the pool.
PeriodReturn ==
    /\ period.at = "distribute" /\ period.todo = <<>>
    /\ IF cfs_b.throttled # <<>> /\ period.runtime > 0
       THEN period' = [period EXCEPT !.todo = cfs_b.throttled] /\ UNCHANGED cfs_b
       ELSE /\ period' = [Callback EXCEPT !.at = "forward"]
            /\ cfs_b' = [cfs_b EXCEPT !.runtime = period.runtime, !.idle = FALSE]
    /\ UNCHANGED <<cfs_rq, slack, spent, upset>> /\ TimersUnchanged

\* The loop of sched_cfs_period_timer: another period may have elapsed;
\* otherwise the callback returns, and an idle timer is not restarted.
PeriodForward ==
    /\ period.at = "forward"
    /\ \/ period' = [period EXCEPT !.at = "do"] /\ UNCHANGED cfs_b
       \/ /\ period' = Callback
          /\ cfs_b' = [cfs_b EXCEPT !.period_timer = IF period.idle THEN "off" ELSE "armed"]
    /\ UNCHANGED <<cfs_rq, slack, spent, upset>> /\ TimersUnchanged

\* do_sched_cfs_slack_timer: not at a refresh boundary (soon), a pool of more
\* than a slice is taken to be distributed.
do_sched_cfs_slack_timer ==
    /\ cfs_b.slack_timer = "armed"
    /\ \E soon \in BOOLEAN :
          IF soon \/ cfs_b.period_timer # "armed" \/ cfs_b.quota = INF \/ cfs_b.runtime <= Slice
          THEN cfs_b' = [cfs_b EXCEPT !.slack_timer = "off"] /\ UNCHANGED slack
          ELSE /\ cfs_b' = [cfs_b EXCEPT !.slack_timer = "running", !.runtime = 0]
               /\ slack' = [Callback EXCEPT !.at = "distribute", !.runtime = cfs_b.runtime,
                               !.expires = cfs_b.expires, !.todo = cfs_b.throttled]
    /\ UNCHANGED <<cfs_rq, period, spent, upset>> /\ TimersUnchanged

SlackDistribute ==
    /\ slack.at = "distribute" /\ slack.todo # <<>>
    /\ RqFree(Head(slack.todo))
    /\ distribute_cfs_runtime(slack)
    /\ slack' = Distributed(slack)
    /\ UNCHANGED <<period, spent, upset>> /\ TimersUnchanged

SlackReturn ==
    /\ slack.at = "distribute" /\ slack.todo = <<>>
    /\ slack' = Callback
    /\ cfs_b' = [cfs_b EXCEPT !.slack_timer = "off",
                              !.runtime = IF slack.expires = cfs_b.expires THEN slack.runtime ELSE @]
    /\ UNCHANGED <<cfs_rq, period, spent, upset>> /\ TimersUnchanged
(***************************************************************************)
(* The quota and the CPUs change.                                          *)
(***************************************************************************)
\* tg_set_cfs_bandwidth: the new quota is in force at once, and a running timer
\* is programmed afresh (which may have to wait for its callback).
tg_set_cfs_bandwidth ==
    /\ setter.at = "none"
    /\ changes < MaxChanges
    /\ \E quota \in Quotas :
          LET b == __refill_cfs_bandwidth_runtime([cfs_b EXCEPT !.quota = quota])
          IN  /\ quota # INF => MayRefill(cfs_b)
              /\ IF quota # INF /\ b.timer_active
                 THEN IF CannotCancel(b)
                      THEN /\ cfs_b' = [b EXCEPT !.timer_active = FALSE]
                           /\ setter' = [at |-> "spin", todo |-> BwCpus]
                      ELSE /\ cfs_b' = start_bandwidth_timer(b)
                           /\ setter' = [at |-> "visit", todo |-> BwCpus]
                 ELSE cfs_b' = b /\ setter' = [at |-> "visit", todo |-> BwCpus]
    /\ spent' = 0
    /\ upset' = TRUE
    /\ changes' = changes + 1
    /\ UNCHANGED <<cfs_rq, period, slack>>

SetterStart ==
    /\ setter.at = "spin"
    /\ cfs_b.timer_active \/ ~CannotCancel(cfs_b)
    /\ cfs_b' = IF cfs_b.timer_active THEN cfs_b ELSE start_bandwidth_timer(cfs_b)
    /\ setter' = [setter EXCEPT !.at = "visit"]
    /\ UNCHANGED <<cfs_rq, period, slack, spent, upset, changes>>

\* Its loop over the CPUs, one under its rq->lock: the local time is dropped
\* and a throttled queue released.
SetterVisit(c) ==
    /\ setter.at = "visit" /\ c \in setter.todo
    /\ RqFree(c)
    /\ cfs_rq' = [cfs_rq EXCEPT ![c].enabled = cfs_b.quota # INF, ![c].remaining = 0,
                                ![c].throttled = FALSE]
    /\ cfs_b' = IF cfs_rq[c].throttled THEN unthrottle_cfs_rq(cfs_b, c) ELSE cfs_b
    /\ setter' = IF setter.todo = {c} THEN [at |-> "none", todo |-> {}]
                                      ELSE [setter EXCEPT !.todo = @ \ {c}]
    /\ UNCHANGED <<period, slack, spent, upset, changes>>

\* A dying CPU, with every other CPU stopped (external: stop_machine):
\* unthrottle_offline_cfs_rqs, then migrate_tasks dequeues the group's tasks.
unthrottle_offline_cfs_rqs(c) ==
    LET q == cfs_rq[c]
        given == IF ~q.enabled THEN q
                 ELSE [q EXCEPT !.remaining = IF cfs_b.quota = INF THEN -1 ELSE cfs_b.quota,
                                !.throttled = FALSE]
        b == IF q.throttled THEN unthrottle_cfs_rq(cfs_b, c) ELSE cfs_b
    IN  IF q.nr = 0
        THEN cfs_b' = b /\ cfs_rq' = [cfs_rq EXCEPT ![c] = given]
        ELSE \E soon \in BOOLEAN :
                return_cfs_rq_runtime(c, b, [given EXCEPT !.nr = 0, !.curr = FALSE], soon)

CpuDying(c) ==
    /\ changes < MaxChanges
    /\ period.at = "none" /\ slack.at = "none"
    /\ \A d \in BwCpus : RqFree(d)
    /\ unthrottle_offline_cfs_rqs(c)
    /\ upset' = TRUE
    /\ changes' = changes + 1
    /\ UNCHANGED <<period, slack, setter, spent>>

BwNext ==
    \/ \E c \in BwCpus :
          \/ update_curr(c) \/ enqueue_entity(c) \/ dequeue_entity(c)
          \/ set_next_entity(c) \/ put_prev_entity(c) \/ __start_cfs_bandwidth(c)
          \/ SetterVisit(c) \/ CpuDying(c)
    \/ sched_cfs_period_timer \/ do_sched_cfs_period_timer \/ PeriodDistribute
    \/ PeriodReturn \/ PeriodForward
    \/ do_sched_cfs_slack_timer \/ SlackDistribute \/ SlackReturn
    \/ tg_set_cfs_bandwidth \/ SetterStart

BwSpec == BwInit /\ [][BwNext]_bwVars

(***************************************************************************)
(* Properties.                                                             *)
(***************************************************************************)
\* Time of the current epoch a CPU holds.
Valid(c) == IF cfs_rq[c].expires = cfs_b.expires /\ cfs_rq[c].remaining > 0
            THEN cfs_rq[c].remaining ELSE 0

\* Time of the current epoch a callback holds.
Held(cb) == IF cb.at = "distribute" /\ cb.expires = cfs_b.expires THEN cb.runtime ELSE 0

\* A group never gets more than its quota in a period: what it has run, what
\* its CPUs and the timer callbacks hold and what is left in the pool add up
\* to no more than the quota, through slices taken, slack returned and
\* distributed, races of the two timers and restarts of a stopped timer (fair.c
\* assign_cfs_rq_runtime, __return_cfs_rq_runtime, distribute_cfs_runtime).
\* A period in which the quota or the CPUs changed is exempt.
QuotaRespected ==
    cfs_b.quota # INF /\ ~upset =>
        cfs_b.runtime + Held(period) + Held(slack) + spent
            + MapThenSumSet(Valid, BwCpus) <= cfs_b.quota

\* A throttled queue is never forgotten: it is on the list of its pool, and the
\* period timer is queued, or its callback will restart it, or somebody is
\* about to start it, or a change of the quota is about to release the queue
\* (fair.c: "Forcing the timer to remain active while there are any throttled
\* entities").
Spinning == setter.at = "spin" \/ \E c \in BwCpus : cfs_rq[c].spin # "no"

ThrottledRemembered ==
    \A c \in BwCpus : cfs_rq[c].throttled =>
        /\ c \in ToSet(cfs_b.throttled)
        /\ \/ cfs_b.period_timer = "armed"
           \/ cfs_b.period_timer = "running" /\ ~(period.at = "forward" /\ period.idle)
           \/ Spinning
           \/ setter.at = "visit" /\ c \in setter.todo

\* A CPU that waits in __start_cfs_bandwidth for the period timer's callback
\* does not hold the rq->lock the callback needs (fair.c: "bounce the lock to
\* allow do_sched_cfs_period_timer to run").  No run checks it, for it does not
\* hold: the loop drops cfs_b->lock, not the rq->lock of its caller.
CallbackCanFinish ==
    ~\E c \in BwCpus : /\ cfs_rq[c].spin # "no" /\ ~cfs_b.timer_active
                       /\ period.at = "distribute" /\ period.todo # <<>>
                       /\ Head(period.todo) = c
=============================================================================

---------------------------- MODULE CmRtRuntime ----------------------------
(***************************************************************************)
(* The throttling of real-time tasks (kernel/sched/rt.c, and the sysctl in *)
(* kernel/sched/core.c), in the build without real-time group scheduling:  *)
(* every CPU may run real-time tasks for rt_runtime of each rt_period.  A  *)
(* CPU that has used up its share borrows from the others; a CPU that goes *)
(* offline takes back what it lent, or returns what it borrowed.           *)
(*                                                                         *)
(* A CPU's step holds its rq->lock; update_curr_rt drops rt_runtime_lock   *)
(* around do_balance_runtime, and is therefore three steps.  The share of  *)
(* a CPU that is offline is INF ("pretending we have inf runtime").        *)
(***************************************************************************)
EXTENDS Integers, FiniteSets, Sequences, SequencesExt, FiniteSetsExt

CONSTANTS
    NCpus,      \* the CPUs are 1..NCpus, visited in this order
    RtPeriod,   \* rt_period
    Runtimes,   \* the values written to sched_rt_runtime_us
    FirstRuntime,
    NoRuntime,  \* RUNTIME_INF as the share of an offline CPU
    MaxWrites,  \* bound: writes of the sysctl
    MaxUnplugs  \* bound: CPUs taken offline

Cpu == 1..NCpus

ASSUME RtRuntimeAssumption ==
    /\ {NCpus, RtPeriod, MaxWrites, MaxUnplugs} \subseteq Nat
    /\ Runtimes \cup {FirstRuntime} \subseteq 1..RtPeriod

VARIABLES
    rt_b,    \* def_rt_bandwidth.rt_runtime
    rt_rq,   \* CPU -> struct rt_rq; at: where update_curr_rt is
    timer,   \* rt_period_timer and the locals of its callback
    writer,  \* sched_rt_handler: where it is and the value written
    left,    \* what the last CPU to go offline was left wanting
    writes, unplugs

rrVars == <<rt_b, rt_rq, timer, writer, left, writes, unplugs>>

NoTimer == [at |-> "off", todo |-> <<>>, idle |-> TRUE]

RrInit ==
    /\ rt_b = FirstRuntime
    /\ rt_rq = [c \in Cpu |-> [runtime |-> FirstRuntime, time |-> 0, throttled |-> FALSE,
                               nr |-> 0, online |-> TRUE, at |-> "run"]]
    /\ timer = NoTimer
    /\ writer = [at |-> "none", value |-> FirstRuntime]
    /\ left = 0
    /\ writes = 0
    /\ unplugs = 0

Online == {c \in Cpu : rt_rq[c].online}

(***************************************************************************)
(* Borrowing.  q is a value of rt_rq.                                      *)
(***************************************************************************)
\* rd->span: the CPUs of the domain, those online; in the order of their numbers.
Span(q) == SelectSeq([i \in Cpu |-> i], LAMBDA i : q[i].online)

\* Fault: the lender gives what was cut off at the period too.
BorrowUncapped(q, c, i) ==
    LET spare == (q[i].runtime - q[i].time) \div Len(Span(q))
        diff == IF q[c].runtime + spare > RtPeriod THEN RtPeriod - q[c].runtime ELSE spare
    IN  IF i = c \/ q[i].runtime = NoRuntime \/ q[c].runtime = RtPeriod THEN q
        ELSE IF q[i].runtime <= q[i].time THEN q
        ELSE [q EXCEPT ![i].runtime = @ - spare, ![c].runtime = @ + diff]

\* do_balance_runtime, one neighbour: a part of its spare time, and no more
\* than fills the period.
Borrow(q, c, i) ==
    LET spare == (q[i].runtime - q[i].time) \div Len(Span(q))
        diff == IF q[c].runtime + spare > RtPeriod THEN RtPeriod - q[c].runtime ELSE spare
    IN  IF i = c \/ q[i].runtime = NoRuntime \/ q[c].runtime = RtPeriod THEN q
        ELSE IF q[i].runtime <= q[i].time THEN q
        ELSE [q EXCEPT ![i].runtime = @ - diff, ![c].runtime = @ + diff]

do_balance_runtime(q, c) == FoldLeft(LAMBDA r, i : Borrow(r, c, i), q, Span(q))

\* __disable_runtime: want is what CPU c lent (or, negative, borrowed); the
\* others give it back in turn, greedily.
Reclaim(w, c, i) ==
    IF i = c \/ w.q[i].runtime = NoRuntime \/ w.want = 0 THEN w
    ELSE LET diff == IF w.want > 0 /\ w.q[i].runtime < w.want THEN w.q[i].runtime ELSE w.want
         IN  [q |-> [w.q EXCEPT ![i].runtime = @ - diff], want |-> w.want - diff]

Reclaimed(q, c) ==
    FoldLeft(LAMBDA w, i : Reclaim(w, c, i),
             [q |-> q, want |-> IF q[c].runtime = NoRuntime THEN 0 ELSE rt_b - q[c].runtime],
             Span(q))

\* CPU_DYING: set_rq_offline with every other CPU stopped, then the tasks leave.
__disable_runtime(c) ==
    LET w == Reclaimed(rt_rq, c)
    IN  /\ unplugs < MaxUnplugs
        /\ c \in Online /\ Online # {c}
        /\ \A d \in Cpu : rt_rq[d].at = "run"
        /\ timer.at \notin {"visit", "end"}
        /\ left' = w.want
        /\ rt_rq' = [w.q EXCEPT ![c].runtime = NoRuntime, ![c].throttled = FALSE,
                                ![c].nr = 0, ![c].online = FALSE]
        /\ unplugs' = unplugs + 1
        /\ UNCHANGED <<rt_b, timer, writer, writes>>

\* CPU_ONLINE: set_rq_online.
__enable_runtime(c) ==
    /\ c \notin Online
    /\ rt_rq' = [rt_rq EXCEPT ![c].runtime = rt_b, ![c].time = 0, ![c].throttled = FALSE,
                              ![c].online = TRUE]
    /\ UNCHANGED <<rt_b, timer, writer, left, writes, unplugs>>

(***************************************************************************)
(* A CPU, under its rq->lock.                                              *)
(***************************************************************************)
CpuOnly == UNCHANGED <<rt_b, writer, left, writes, unplugs>>

\* A real-time task is enqueued, or the last one dequeued: inc_rt_group starts
\* the timer, unless it is active, which it also is while its callback runs.
start_rt_bandwidth(c) ==
    /\ c \in Online
    /\ rt_rq[c].at = "run"
    /\ rt_rq[c].nr = 0
    /\ rt_rq' = [rt_rq EXCEPT ![c].nr = 1]
    /\ timer' = IF timer.at = "off" THEN [timer EXCEPT !.at = "armed"] ELSE timer
    /\ CpuOnly

dequeue_rt(c) ==
    /\ c \in Online
    /\ rt_rq[c].at = "run"
    /\ rt_rq[c].nr = 1
    /\ rt_rq' = [rt_rq EXCEPT ![c].nr = 0]
    /\ UNCHANGED timer /\ CpuOnly

\* update_curr_rt: the time is added, and sched_rt_runtime_exceeded called; a
\* share as large as the period is never exceeded.  time stops at the bound.
update_curr_rt(c) ==
    LET q == rt_rq[c]
    IN  /\ c \in Online
        /\ q.at = "run" /\ q.nr = 1 /\ ~q.throttled
        /\ q.time <= RtPeriod
        /\ rt_rq' = [rt_rq EXCEPT ![c].time = @ + 1,
                        ![c].at = IF q.runtime < RtPeriod /\ q.time + 1 > q.runtime
                                  THEN "balance" ELSE "run"]
        /\ UNCHANGED timer /\ CpuOnly

balance_runtime(c) ==
    /\ rt_rq[c].at = "balance"
    /\ rt_rq' = [do_balance_runtime(rt_rq, c) EXCEPT ![c].at = "check"]
    /\ UNCHANGED timer /\ CpuOnly

sched_rt_runtime_exceeded(c) ==
    /\ rt_rq[c].at = "check"
    /\ rt_rq' = [rt_rq EXCEPT ![c].at = "run", ![c].throttled = rt_rq[c].time > rt_rq[c].runtime]
    /\ UNCHANGED timer /\ CpuOnly

(***************************************************************************)
(* The period timer.                                                       *)
(***************************************************************************)
sched_rt_period_timer ==
    /\ timer.at = "armed"
    /\ timer' = [at |-> "visit", todo |-> Span(rt_rq), idle |-> TRUE]
    /\ UNCHANGED rt_rq /\ CpuOnly

\* do_sched_rt_period_timer, one CPU under its rq->lock: a throttled CPU borrows
\* first; then a period's share of its time is forgiven, and it is released
\* once it has used less than its share.
do_sched_rt_period_timer ==
    LET c == Head(timer.todo)
        b == IF rt_rq[c].throttled /\ rt_rq[c].time > rt_rq[c].runtime
             THEN do_balance_runtime(rt_rq, c) ELSE rt_rq
        runtime == b[c].runtime
        time == IF runtime = NoRuntime \/ b[c].time <= runtime THEN 0 ELSE b[c].time - runtime
    IN  /\ timer.at = "visit" /\ timer.todo # <<>>
        /\ rt_rq[c].at = "run"
        /\ IF rt_rq[c].time = 0 THEN UNCHANGED rt_rq
           ELSE rt_rq' = [b EXCEPT ![c].time = time,
                             ![c].throttled = @ /\ runtime # NoRuntime /\ time >= runtime]
        /\ timer' = [timer EXCEPT !.todo = Tail(@),
                        !.idle = @ /\ rt_rq[c].nr = 0 /\ (rt_rq[c].time = 0 \/ time = 0)]
        /\ CpuOnly

\* The callback returns: an idle timer is not restarted.
PeriodEnd ==
    /\ timer.at = "visit" /\ timer.todo = <<>>
    /\ timer' = IF timer.idle THEN NoTimer ELSE [NoTimer EXCEPT !.at = "armed"]
    /\ UNCHANGED rt_rq /\ CpuOnly

(***************************************************************************)
(* sched_rt_handler: the shares of all possible CPUs are set first; then   *)
(* the deadline class may refuse the value, and only the sysctl is undone; *)
(* otherwise def_rt_bandwidth follows.                                     *)
(***************************************************************************)
sched_rt_global_constraints ==
    /\ writer.at = "none"
    /\ writes < MaxWrites
    /\ \E value \in Runtimes :
          /\ writer' = [at |-> "set", value |-> value]
          /\ rt_rq' = [c \in Cpu |-> [rt_rq[c] EXCEPT !.runtime = value]]
    /\ writes' = writes + 1
    /\ UNCHANGED <<rt_b, timer, left, unplugs>>

sched_rt_do_global ==
    /\ writer.at = "set"
    /\ \/ rt_b' = writer.value
       \/ UNCHANGED rt_b
    /\ writer' = [writer EXCEPT !.at = "none"]
    /\ UNCHANGED <<rt_rq, timer, left, writes, unplugs>>

RrNext ==
    \/ \E c \in Cpu :
          \/ __disable_runtime(c) \/ __enable_runtime(c)
          \/ start_rt_bandwidth(c) \/ dequeue_rt(c)
          \/ update_curr_rt(c) \/ balance_runtime(c) \/ sched_rt_runtime_exceeded(c)
    \/ sched_rt_period_timer \/ do_sched_rt_period_timer \/ PeriodEnd
    \/ sched_rt_global_constraints \/ sched_rt_do_global

RrSpec == RrInit /\ [][RrNext]_rrVars

(***************************************************************************)
(* Properties.                                                             *)
(***************************************************************************)
\* Borrowing neither makes nor loses time: as long as the sysctl has not been
\* written, the shares of the CPUs online add up to as many times rt_runtime,
\* none is negative or longer than the period, and a CPU that goes offline gets
\* back exactly what it lent (rt.c do_balance_runtime, __disable_runtime).
SharesConserved ==
    writes = 0 =>
        /\ MapThenSumSet(LAMBDA c : rt_rq[c].runtime, Online) = Cardinality(Online) * rt_b
        /\ \A c \in Online : rt_rq[c].runtime \in 0..RtPeriod
        /\ left = 0

\* A CPU that goes offline is never left wanting (rt.c __disable_runtime: "We
\* cannot be left wanting - that would mean some runtime leaked out of the
\* system", BUG_ON(want)).  No run checks it, for it does not hold: a write of
\* the sysctl that fails half way leaves shares that no CPU can give back.
NeverLeftWanting == left = 0
=============================================================================

------------------------------ MODULE CmSoftirq ------------------------------
(***************************************************************************)
(* Softirqs and tasklets per CPU (kernel/softirq.c, linux/interrupt.h):    *)
(* what runs the tasklet of a group once fire_tasklet has scheduled it,    *)
(* from the middle of the scheduler and without waking ksoftirqd.          *)
(*                                                                         *)
(* A CPU runs a task, ksoftirqd, a softirq over either, or an interrupt    *)
(* over all of them.  Interrupts that neither raise nor find a softirq are *)
(* left out: they change nothing here.                                     *)
(***************************************************************************)
EXTENDS Integers, Sequences, FiniteSets

CONSTANTS
    Cpus, Tasklets,
    Hi,          \* the tasklets scheduled with tasklet_hi_schedule
    NoCpu,
    MaxRestart,  \* MAX_SOFTIRQ_RESTART (10 in the code)
    Requests     \* bound: tasklet_schedule calls, tasklet_disable, tasklet_kill, CPUs down

ASSUME SoftAssumption == NoCpu \notin Cpus /\ Hi \subseteq Tasklets /\ MaxRestart \in Nat

VARIABLES
    pending,     \* [Cpus -> SUBSET Vecs]: local_softirq_pending
    vec,         \* [Cpus -> [Vecs -> Seq(Tasklets)]]: tasklet_vec, tasklet_hi_vec
    irq,         \* CPUs in a hard interrupt
    bh,          \* CPUs whose task has disabled softirqs
    soft,        \* [Cpus -> {"off", "next", "list", "locked", "func"}]: __do_softirq
    left,        \* [Cpus -> SUBSET Vecs]: softirqs still to do in this pass
    list,        \* [Cpus -> Seq(Tasklets)]: the list tasklet_action has taken
    restarts,    \* [Cpus -> 0..MaxRestart]
    current,     \* [Cpus -> {"task", "new", "resumed", "ksoftirqd"}]: a new task has
                 \* never been in __schedule, one just resumed is still there
    daemon,      \* CPUs whose ksoftirqd is runnable
    online,
    force_irqthreads,
    sched,       \* tasklets with TASKLET_STATE_SCHED
    run,         \* [Tasklets -> Cpus \cup {NoCpu}]: who set TASKLET_STATE_RUN
    count,       \* tasklets disabled
    user,        \* [Tasklets -> what tasklet_disable or tasklet_kill is doing to it]
    requests,
    due          \* tasklets scheduled and not started since

softVars == <<pending, vec, irq, bh, soft, left, list, restarts, current, daemon, online,
              force_irqthreads, sched, run, count, user, requests, due>>
cpuVars == <<irq, bh, soft, left, list, restarts, current, online, force_irqthreads>>
taskletVars == <<sched, run, count, user, due>>

Vecs == {"HI", "TASKLET"}
VecOf(t) == IF t \in Hi THEN "HI" ELSE "TASKLET"

SoftInit ==
    /\ pending = [c \in Cpus |-> {}]
    /\ vec = [c \in Cpus |-> [v \in Vecs |-> <<>>]]
    /\ irq = {} /\ bh = {} /\ daemon = {}
    /\ soft = [c \in Cpus |-> "off"] /\ left = [c \in Cpus |-> {}]
    /\ list = [c \in Cpus |-> <<>>] /\ restarts = [c \in Cpus |-> 0]
    /\ current = [c \in Cpus |-> "task"]
    /\ online = Cpus /\ force_irqthreads \in BOOLEAN
    /\ sched = {} /\ run = [t \in Tasklets |-> NoCpu] /\ count = {}
    /\ user = [t \in Tasklets |-> "none"]
    /\ requests = 0 /\ due = {}

in_interrupt(c) == c \in irq \/ c \in bh \/ soft[c] # "off"
InTask(c) == ~in_interrupt(c) /\ current[c] \in {"task", "new"}

-----------------------------------------------------------------------------
(* Raising.                                                                *)

\* wakeup_softirqd
Woken(c) == daemon \cup {c}

\* raise_softirq_irqoff: ksoftirqd is woken unless an interrupt or a softirq
\* is to end here; raise_softirq_irqoff_nosoftirqd_wake never wakes it.
raise_softirq_irqoff(c, vs) ==
    /\ pending' = [pending EXCEPT ![c] = @ \cup vs]
    /\ daemon' = IF in_interrupt(c) THEN daemon ELSE Woken(c)

raise_softirq_irqoff_nosoftirqd_wake(c, vs) ==
    /\ pending' = [pending EXCEPT ![c] = @ \cup vs]
    /\ UNCHANGED daemon

\* tasklet_schedule and tasklet_hi_schedule up to the raise: the bit is set
\* and the tasklet linked, unless the bit was set already.
Link(c, t) ==
    /\ requests < Requests /\ requests' = requests + 1
    /\ c \in online /\ t \notin sched /\ user[t] \notin {"kill", "spin", "dead"}
    /\ sched' = sched \cup {t} /\ due' = due \cup {t}
    /\ vec' = [vec EXCEPT ![c][VecOf(t)] = Append(@, t)]

\* By a task, a softirq or an interrupt handler.
tasklet_schedule(c, t) ==
    /\ Link(c, t)
    /\ current[c] # "resumed" \/ in_interrupt(c)
    /\ raise_softirq_irqoff(c, {VecOf(t)})
    /\ UNCHANGED <<cpuVars, run, count, user>>

\* __schedule when the task sleeps and fire_tasklet is called under the
\* runqueue lock: the next task resumes inside __schedule, or is new.
tasklet_schedule_nosoftirqd_wake(c, t) ==
    /\ Link(c, t) /\ t \notin Hi
    /\ InTask(c)
    /\ raise_softirq_irqoff_nosoftirqd_wake(c, {VecOf(t)})
    /\ \E next \in {"new", "resumed"} : current' = [current EXCEPT ![c] = next]
    /\ UNCHANGED <<irq, bh, soft, left, list, restarts, online, force_irqthreads, run, count,
                   user>>

-----------------------------------------------------------------------------
(* Where softirqs start.                                                   *)

\* The head of __do_softirq.
Start(c) ==
    /\ soft' = [soft EXCEPT ![c] = "next"]
    /\ left' = [left EXCEPT ![c] = pending[c]]
    /\ pending' = [pending EXCEPT ![c] = {}]
    /\ restarts' = [restarts EXCEPT ![c] = MaxRestart]

StartIf(c, b) == IF b /\ pending[c] # {} THEN Start(c)
                 ELSE UNCHANGED <<soft, left, pending, restarts>>

irq_enter(c) ==
    /\ c \in online \ irq /\ (pending[c] # {} \/ requests < Requests)
    /\ irq' = irq \cup {c}
    /\ UNCHANGED <<pending, vec, bh, soft, left, list, restarts, current, daemon, online,
                   force_irqthreads, taskletVars, requests>>

\* irq_exit and invoke_softirq.
irq_exit(c) ==
    /\ c \in irq /\ irq' = irq \ {c}
    /\ LET idle == c \notin bh /\ soft[c] = "off"
       IN  /\ StartIf(c, idle /\ ~force_irqthreads)
           /\ daemon' = IF idle /\ force_irqthreads /\ pending[c] # {} THEN Woken(c) ELSE daemon
    /\ UNCHANGED <<vec, bh, list, current, online, force_irqthreads, taskletVars, requests>>

local_bh_disable(c) ==
    /\ c \in online /\ InTask(c) /\ requests < Requests
    /\ bh' = bh \cup {c}
    /\ UNCHANGED <<pending, vec, irq, soft, left, list, restarts, current, daemon, online,
                   force_irqthreads, taskletVars, requests>>

\* __local_bh_enable_ip
local_bh_enable(c) ==
    /\ c \in bh \ irq /\ soft[c] = "off" /\ bh' = bh \ {c}
    /\ StartIf(c, TRUE)
    /\ UNCHANGED <<vec, irq, list, current, daemon, online, force_irqthreads, taskletVars,
                   requests>>

\* Fault: the softirqs are left to whoever comes next.
ExecuteNothing(c) ==
    /\ current[c] = "resumed" /\ ~in_interrupt(c)
    /\ current' = [current EXCEPT ![c] = "task"]
    /\ UNCHANGED <<soft, left, pending, restarts, vec, irq, bh, list, daemon, online,
                   force_irqthreads, taskletVars, requests>>

\* The end of __schedule, in a task that was switched to before.
cmgroup_execute_softirq(c) ==
    /\ current[c] = "resumed" /\ ~in_interrupt(c)
    /\ StartIf(c, TRUE)
    /\ current' = [current EXCEPT ![c] = "task"]
    /\ UNCHANGED <<vec, irq, bh, list, daemon, online, force_irqthreads, taskletVars, requests>>

\* The scheduler picks ksoftirqd, which leaves __schedule too.
ksoftirqd(c) ==
    /\ c \in daemon \cap online /\ InTask(c)
    /\ current' = [current EXCEPT ![c] = "ksoftirqd"]
    /\ StartIf(c, TRUE)
    /\ UNCHANGED <<vec, irq, bh, list, daemon, online, force_irqthreads, taskletVars, requests>>

\* It goes on while something is pending (ksoftirqd_should_run), then sleeps.
run_ksoftirqd(c) ==
    /\ current[c] = "ksoftirqd" /\ ~in_interrupt(c)
    /\ StartIf(c, TRUE)
    /\ IF pending[c] # {} THEN UNCHANGED <<daemon, current>>
       ELSE /\ daemon' = daemon \ {c}
            /\ current' = [current EXCEPT ![c] = "resumed"]
    /\ UNCHANGED <<vec, irq, bh, list, online, force_irqthreads, taskletVars, requests>>

-----------------------------------------------------------------------------
(* __do_softirq and the tasklet actions.                                   *)

Running(c, at) == soft[c] = at /\ c \notin irq

\* The lowest bit first; tasklet_action and tasklet_hi_action take the list.
TakeList(c) ==
    /\ Running(c, "next") /\ left[c] # {}
    /\ LET v == IF "HI" \in left[c] THEN "HI" ELSE "TASKLET"
       IN  /\ left' = [left EXCEPT ![c] = @ \ {v}]
           /\ list' = [list EXCEPT ![c] = vec[c][v]]
           /\ vec' = [vec EXCEPT ![c][v] = <<>>]
    /\ soft' = [soft EXCEPT ![c] = "list"]
    /\ UNCHANGED <<pending, irq, bh, restarts, current, daemon, online, force_irqthreads,
                   taskletVars, requests>>

\* Back to the list of this CPU, for another pass.
Requeue(c) ==
    LET t == Head(list[c]) IN
    /\ vec' = [vec EXCEPT ![c][VecOf(t)] = Append(@, t)]
    /\ pending' = [pending EXCEPT ![c] = @ \cup {VecOf(t)}]
    /\ list' = [list EXCEPT ![c] = Tail(@)]

\* tasklet_trylock
TryLock(c) ==
    /\ Running(c, "list") /\ list[c] # <<>>
    /\ LET t == Head(list[c]) IN
        IF run[t] = NoCpu
        THEN /\ run' = [run EXCEPT ![t] = c] /\ soft' = [soft EXCEPT ![c] = "locked"]
             /\ UNCHANGED <<vec, pending, list>>
        ELSE Requeue(c) /\ UNCHANGED <<run, soft>>
    /\ UNCHANGED <<irq, bh, left, restarts, current, daemon, online, force_irqthreads, sched,
                   count, user, requests, due>>

\* The function starts, or the tasklet is disabled and goes back.
tasklet_action(c) ==
    /\ Running(c, "locked")
    /\ LET t == Head(list[c]) IN
        IF t \in count
        THEN /\ Requeue(c) /\ run' = [run EXCEPT ![t] = NoCpu]
             /\ soft' = [soft EXCEPT ![c] = "list"] /\ UNCHANGED <<sched, due>>
        ELSE /\ sched' = sched \ {t} /\ due' = due \ {t}
             /\ soft' = [soft EXCEPT ![c] = "func"] /\ UNCHANGED <<vec, pending, list, run>>
    /\ UNCHANGED <<irq, bh, left, restarts, current, daemon, online, force_irqthreads, count,
                   user, requests>>

\* The function returns: tasklet_unlock.
FuncEnd(c) ==
    /\ Running(c, "func")
    /\ run' = [run EXCEPT ![Head(list[c])] = NoCpu]
    /\ list' = [list EXCEPT ![c] = Tail(@)]
    /\ soft' = [soft EXCEPT ![c] = "list"]
    /\ UNCHANGED <<vec, pending, irq, bh, left, restarts, current, daemon, online,
                   force_irqthreads, sched, count, user, requests, due>>

ActionEnd(c) ==
    /\ Running(c, "list") /\ list[c] = <<>>
    /\ soft' = [soft EXCEPT ![c] = "next"]
    /\ UNCHANGED <<pending, vec, irq, bh, left, list, restarts, current, daemon, online,
                   force_irqthreads, taskletVars, requests>>

\* The end of a pass: again if something was raised meanwhile and there is
\* time, else ksoftirqd is woken for it.
__do_softirq(c) ==
    /\ Running(c, "next") /\ left[c] = {}
    /\ \/ /\ pending[c] # {} /\ restarts[c] > 1
          /\ left' = [left EXCEPT ![c] = pending[c]]
          /\ pending' = [pending EXCEPT ![c] = {}]
          /\ restarts' = [restarts EXCEPT ![c] = @ - 1]
          /\ UNCHANGED <<soft, daemon>>
       \/ /\ daemon' = IF pending[c] # {} THEN Woken(c) ELSE daemon
          /\ soft' = [soft EXCEPT ![c] = "off"] /\ restarts' = [restarts EXCEPT ![c] = 0]
          /\ UNCHANGED <<left, pending>>
    /\ UNCHANGED <<vec, irq, bh, list, current, online, force_irqthreads, taskletVars, requests>>

-----------------------------------------------------------------------------
(* tasklet_disable, tasklet_kill, and a CPU that goes down.                *)

\* tasklet_disable_nosync, then tasklet_unlock_wait.
tasklet_disable(t) ==
    /\ \/ /\ user[t] = "none" /\ requests < Requests /\ requests' = requests + 1
          /\ count' = count \cup {t} /\ user' = [user EXCEPT ![t] = "wait"]
       \/ /\ user[t] = "wait" /\ run[t] = NoCpu
          /\ user' = [user EXCEPT ![t] = "disabled"] /\ UNCHANGED <<count, requests>>
    /\ UNCHANGED <<pending, vec, cpuVars, daemon, sched, run, due>>

tasklet_enable(t) ==
    /\ user[t] = "disabled"
    /\ count' = count \ {t} /\ user' = [user EXCEPT ![t] = "none"]
    /\ UNCHANGED <<pending, vec, cpuVars, daemon, sched, run, due, requests>>

\* The bit taken when it is free, the function waited for, the bit cleared.
\* Nobody schedules the tasklet any more.
tasklet_kill(t) ==
    /\ \/ /\ user[t] = "none" /\ requests < Requests /\ requests' = requests + 1
          /\ user' = [user EXCEPT ![t] = "kill"] /\ UNCHANGED sched
       \/ /\ user[t] = "kill" /\ t \notin sched
          /\ sched' = sched \cup {t} /\ user' = [user EXCEPT ![t] = "spin"]
          /\ UNCHANGED requests
       \/ /\ user[t] = "spin" /\ run[t] = NoCpu
          /\ sched' = sched \ {t} /\ user' = [user EXCEPT ![t] = "dead"]
          /\ UNCHANGED requests
    /\ UNCHANGED <<pending, vec, cpuVars, daemon, run, count, due>>

\* A CPU stops between tasks, with whatever is on its lists.
CpuDown(c) ==
    /\ c \in online /\ online # {c} /\ requests < Requests
    /\ InTask(c)
    /\ online' = online \ {c} /\ daemon' = daemon \ {c}
    /\ requests' = requests + 1
    /\ UNCHANGED <<pending, vec, irq, bh, soft, left, list, restarts, current,
                   force_irqthreads, taskletVars>>

\* Fault: the lists come over, but no softirq is raised for them.
TakeoverSilent(c, to) ==
    /\ c \notin online /\ to \in online /\ InTask(to)
    /\ \E v \in Vecs : vec[c][v] # <<>>
    /\ vec' = [vec EXCEPT ![to] = [v \in Vecs |-> @[v] \o vec[c][v]],
                          ![c] = [v \in Vecs |-> <<>>]]
    /\ UNCHANGED <<pending, daemon, cpuVars, taskletVars, requests>>

takeover_tasklets(c, to) ==
    /\ c \notin online /\ to \in online /\ InTask(to)
    /\ \E v \in Vecs : vec[c][v] # <<>>
    /\ vec' = [vec EXCEPT ![to] = [v \in Vecs |-> @[v] \o vec[c][v]],
                          ![c] = [v \in Vecs |-> <<>>]]
    /\ raise_softirq_irqoff(to, Vecs)
    /\ UNCHANGED <<cpuVars, taskletVars, requests>>

\* An entry taken out of a list.
Unlinked(s, i) == SubSeq(s, 1, i - 1) \o SubSeq(s, i + 1, Len(s))

\* Before that, a tasklet may be taken off the list of the dead CPU; its bit stays.
tasklet_kill_immediate(t, c) ==
    /\ c \notin online /\ run[t] = NoCpu /\ user[t] = "none"
    /\ \E i \in 1..Len(vec[c]["TASKLET"]) :
          /\ vec[c]["TASKLET"][i] = t
          /\ vec' = [vec EXCEPT ![c]["TASKLET"] = Unlinked(@, i)]
    /\ user' = [user EXCEPT ![t] = "dead"] /\ due' = due \ {t}
    /\ UNCHANGED <<pending, cpuVars, daemon, sched, run, count, requests>>

-----------------------------------------------------------------------------
Softirq(c) == TakeList(c) \/ TryLock(c) \/ tasklet_action(c) \/ FuncEnd(c) \/ ActionEnd(c)
              \/ __do_softirq(c)

SoftNext ==
    \/ \E c \in Cpus :
         \/ Softirq(c) \/ irq_enter(c) \/ irq_exit(c) \/ local_bh_disable(c)
         \/ local_bh_enable(c) \/ cmgroup_execute_softirq(c) \/ ksoftirqd(c)
         \/ run_ksoftirqd(c) \/ CpuDown(c)
         \/ \E t \in Tasklets : \/ tasklet_schedule(c, t)
                                \/ tasklet_schedule_nosoftirqd_wake(c, t)
                                \/ tasklet_kill_immediate(t, c)
         \/ \E to \in Cpus : takeover_tasklets(c, to)
    \/ \E t \in Tasklets : tasklet_disable(t) \/ tasklet_enable(t) \/ tasklet_kill(t)

\* Interrupts end and keep coming (the tick at least), and do not keep a CPU
\* from the code below them; a runnable ksoftirqd is picked again and again;
\* the hotplug notifier runs; who disabled a tasklet enables it.
SoftFairness ==
    /\ \A c \in Cpus : /\ SF_softVars(Softirq(c) \/ local_bh_enable(c)
                                      \/ cmgroup_execute_softirq(c) \/ run_ksoftirqd(c))
                       /\ WF_softVars(irq_enter(c) \/ irq_exit(c))
                       /\ SF_softVars(ksoftirqd(c))
                       /\ SF_softVars(\E to \in Cpus : takeover_tasklets(c, to))
    /\ \A t \in Tasklets : SF_softVars(tasklet_disable(t)) /\ WF_softVars(tasklet_enable(t))

SoftSpec == SoftInit /\ [][SoftNext]_softVars /\ SoftFairness

-----------------------------------------------------------------------------
(* Properties.                                                             *)

\* The list of a running CPU is never left without its softirq: the bit is
\* pending or in the pass under way.  And a task never runs on over a pending
\* softirq unless ksoftirqd has been woken for it: __schedule, which raises
\* without waking it, leaves that only to a new task, whose first interrupt
\* finds the softirq.
NoneForgotten ==
    \A c \in online :
        /\ \A v \in Vecs : vec[c][v] # <<>> => v \in pending[c] \cup left[c]
        /\ current[c] = "task" /\ ~in_interrupt(c) /\ pending[c] # {} => c \in daemon

\* A scheduled tasklet is executed: on whatever CPU, with ksoftirqd or
\* without, under force_irqthreads, and when its CPU goes down first.
TaskletsRun == []<>(due = {})
=============================================================================

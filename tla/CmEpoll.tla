------------------------------ MODULE CmEpoll ------------------------------
(***************************************************************************)
(* A group attached to an epoll descriptor: its tasks fetch events with    *)
(* epoll_wait (fs/eventpoll.c).  cmgroup->wq and cmgroup->lock point to    *)
(* ep->wq and ep->lock.  A task waits on ep->wq for one of two things: an  *)
(* event (ep_poll) or room in the group (ep_cmgroup_wait_available), and   *)
(* whoever makes an event ready wakes a task at once if the group has an   *)
(* opening or else leaves a request, CMGROUP_ACTION_RESET_WAKEONE, for the *)
(* tasklet that the next opening will fire.                                *)
(*                                                                         *)
(* Items stand for the watched files; the order of the ready list does not *)
(* matter here and the lists are sets.  Nested epoll is left out.          *)
(***************************************************************************)
EXTENDS CmCore

CONSTANTS
    Items,     \* struct epitem of the descriptor
    Setups     \* bounds, one of which holds for a behaviour: the items that get
               \* ready, the tasks that may receive signals, and those that may
               \* call epoll_wait with a finite timeout or with timeout zero

ASSUME EpollAssumption ==
    Setups \subseteq [items : SUBSET Items, signalled : SUBSET Tasks, timed : SUBSET Tasks,
                      polling : SUBSET Tasks]
ASSUME ScannerAssumption == "none" \notin Tasks

VARIABLES
    pc,        \* [Tasks -> EpPcs]: where the task is in ep_poll
    sig,       \* tasks with a pending signal
    fin,       \* tasks in an ep_poll with a finite timeout
    over,      \* tasks with timed_out set, or whose timer has fired
    eintr,     \* tasks with res = -EINTR
    rdllist,   \* items on ep->rdllist
    ovflist,   \* items on ep->ovflist
    txlist,    \* items on the private list of the scanning task
    scanner,   \* task that holds ep->mtx in ep_scan_ready_list, or "none"
    fetched,   \* the scan has a result to return, events or a fault
    setup      \* the bounds of this behaviour

pollVars == <<pc, sig, fin, over, eintr>>
readyVars == <<rdllist, ovflist, txlist, scanner, fetched>>
epVars == <<pollVars, readyVars>>
vars == <<coreVars, epVars>>

\* fetch: about to take ep->lock;  cmcheck: the label in ep_poll;
\* avail_*: in ep_cmgroup_wait_available;  sleep_*: in the for (;;) of
\* ep_poll;  *_sched: about to call schedule_hrtimeout_range;  *_wake: inside
\* it or after it, about to retake the lock;  check: check_events;
\* scan, send, merge: the three parts of ep_scan_ready_list.
LockedPcs == {"cmcheck", "avail_loop", "sleep_loop", "check"}
EpPcs == LockedPcs \cup {"user", "fetch", "avail_sched", "avail_wake",
                         "sleep_sched", "sleep_wake", "scan", "send", "merge"}

TypeOK ==
    /\ CoreTypeOK
    /\ pc \in [Tasks -> EpPcs]
    /\ sig \subseteq Tasks
    /\ fin \subseteq Tasks
    /\ over \subseteq Tasks
    /\ eintr \subseteq Tasks
    /\ rdllist \subseteq Items
    /\ ovflist \subseteq Items
    /\ txlist \subseteq Items
    /\ scanner \in Tasks \cup {"none"}
    /\ fetched \in BOOLEAN
    /\ setup \in Setups

\* The group is attached; the tasklet fired by cmgroup_end_attach has run.
\* Attaching does not change action (cmgroup_do_attach_epoll).
Init ==
    /\ CoreInit
    /\ pc = [t \in Tasks |-> "user"]
    /\ sig = {} /\ fin = {} /\ over = {} /\ eintr = {}
    /\ rdllist = {} /\ ovflist = {} /\ txlist = {}
    /\ scanner = "none"
    /\ fetched = FALSE
    /\ setup \in Setups

Goto(t, l) == pc' = [pc EXCEPT ![t] = l]

\* ep->ovflist # EP_UNACTIVE_PTR: from the first to the last part of a scan.
ovf_active == scanner # "none"
ep_events_available == rdllist # {} \/ ovf_active

\* Return from epoll_wait to user mode, where signals are handled.
Return(t) ==
    /\ Goto(t, "user")
    /\ sig' = sig \ {t}
    /\ fin' = fin \ {t}
    /\ over' = over \ {t}
    /\ eintr' = eintr \ {t}

\* ep_wake_wq, under ep->lock: wake a task, or leave a request for the tasklet.
ep_wake_wq ==
    IF wq = <<>> THEN UNCHANGED <<action, state>>
    ELSE IF available <= 0 THEN action' = "RESET_WAKEONE" /\ UNCHANGED state
    ELSE wake_up_locked /\ UNCHANGED action

-----------------------------------------------------------------------------
(* Tasks outside ep_poll, and blocking that has nothing to do with ep->wq. *)

InUser(t) == Running(t) /\ pc[t] = "user"

cmgroup_dissociate(t) ==
    /\ InUser(t)
    /\ Dissociate(t)
    /\ UNCHANGED <<groupVars, tasklet_active, wq, lock, taskletVars, on_rq, state, epVars>>

cmgroup_set_concurrency_value(t, nthreads) ==
    /\ InUser(t)
    /\ SetConcurrencyValue(t, nthreads)
    /\ UNCHANGED <<action, tasklet_active, wq, taskletVars, schedVars, epVars>>

\* In user mode or while copying events to user memory; or on ep->mtx.
Block(t) ==
    /\ Running(t)
    /\ pc[t] \in {"user", "send"} \/ (pc[t] = "scan" /\ scanner # "none")
    /\ state' = [state EXCEPT ![t] = "UNINTERRUPTIBLE"]
    /\ Dequeue(t)
    /\ UNCHANGED <<groupVars, tasklet_active, wq, lock, taskletVars, members, epVars>>

Unblock(t) ==
    /\ state[t] = "UNINTERRUPTIBLE" /\ t \notin firing
    /\ pc[t] = "scan" => scanner = "none"
    /\ state' = Woken(t)
    /\ UNCHANGED <<groupVars, available, tasklet_active, wq, lock, taskletVars, members,
                   charged, on_rq, firing, epVars>>

-----------------------------------------------------------------------------
(* ep_poll up to the check for events.  From here on a task that is at one *)
(* of LockedPcs holds ep->lock.                                            *)

Lock(t) == lock = "free" /\ lock' = t
Unlock(t) == lock' = "free"

AssociateCurrent(t) ==
    IF t \in members THEN UNCHANGED <<members, charged, available>> ELSE Associate(t)

\* epoll_wait with a timeout other than zero.
epoll_wait(t, finite) ==
    /\ InUser(t)
    /\ Goto(t, "fetch")
    /\ finite => t \in setup.timed
    /\ fin' = IF finite THEN fin \cup {t} ELSE fin
    /\ UNCHANGED <<coreVars, sig, over, eintr, readyVars>>

\* ... and with timeout zero, which is never held back.
EpPollZero(t) ==
    /\ InUser(t) /\ t \in setup.polling
    /\ Lock(t) /\ AssociateCurrent(t)
    /\ Goto(t, "check")
    /\ over' = over \cup {t}
    /\ UNCHANGED <<groupVars, tasklet_active, wq, taskletVars, on_rq, state, firing,
                   sig, fin, eintr, readyVars>>

\* fetch_events
EpFetch(t) ==
    /\ Running(t) /\ pc[t] = "fetch"
    /\ Lock(t) /\ AssociateCurrent(t)
    /\ Goto(t, "cmcheck")
    /\ UNCHANGED <<groupVars, tasklet_active, wq, taskletVars, on_rq, state, firing,
                   sig, fin, over, eintr, readyVars>>

\* fetch_events_locked, with q for ep->wq: if there is no event, queue at the
\* head to wait for one.
fetch_events_locked(t, q) ==
    IF ep_events_available
    THEN Goto(t, "check") /\ wq' = q
    ELSE Goto(t, "sleep_loop") /\ wq' = <<t>> \o q

\* fetch_events_locked_cmcheck: if there is no room, queue at the head to wait.
EpCmCheck(t) ==
    /\ Running(t) /\ pc[t] = "cmcheck"
    /\ IF available < 0
       THEN Goto(t, "avail_loop") /\ wq' = <<t>> \o wq
       ELSE fetch_events_locked(t, wq)
    /\ UNCHANGED <<groupVars, available, tasklet_active, lock, taskletVars, schedVars,
                   firing, sig, fin, over, eintr, readyVars>>

\* ep_cmgroup_wait_available: at the head of the loop, with the lock held from
\* before or retaken after schedule_hrtimeout_range; in the latter case the
\* request to the tasklet is withdrawn.
AtAvailLoop(t) ==
    /\ Running(t)
    /\ pc[t] = "avail_loop" \/ (pc[t] = "avail_wake" /\ lock = "free")

Withdrawn(t) == IF pc[t] = "avail_wake" THEN "NEUTRAL" ELSE action

\* No room: leave a request to the tasklet and sleep.
EpAvailSleep(t) ==
    /\ AtAvailLoop(t) /\ t \notin over
    /\ available < 0 /\ t \notin sig
    /\ state' = [state EXCEPT ![t] = "INTERRUPTIBLE"]
    /\ action' = "RESET_WAKEONE"
    /\ Unlock(t)
    /\ Goto(t, "avail_sched")
    /\ UNCHANGED <<concurrency_value, available, tasklet_active, wq, taskletVars,
                   members, charged, on_rq, firing, sig, fin, over, eintr, readyVars>>

\* Room, or a signal: go on and look for events.
EpAvailRoom(t) ==
    /\ AtAvailLoop(t) /\ t \notin over
    /\ available >= 0 \/ t \in sig
    /\ action' = Withdrawn(t)
    /\ lock' = t
    /\ \E i \in 1..Len(wq) : wq[i] = t /\ fetch_events_locked(t, Unlinked(i))
    /\ UNCHANGED <<concurrency_value, available, tasklet_active, taskletVars, schedVars,
                   firing, sig, fin, over, eintr, readyVars>>

\* Fault: the result of the wait is not looked at.
AvailTimeoutIgnored(t) ==
    /\ AtAvailLoop(t) /\ t \in over
    /\ action' = Withdrawn(t)
    /\ lock' = t
    /\ \E i \in 1..Len(wq) : wq[i] = t /\ wq' = Unlinked(i)
    /\ Goto(t, "cmcheck")
    /\ UNCHANGED <<concurrency_value, available, tasklet_active, taskletVars, schedVars,
                   firing, sig, fin, over, eintr, readyVars>>

\* Out of time: check_events once more and return.
EpAvailTimeout(t) ==
    /\ AtAvailLoop(t) /\ t \in over
    /\ action' = Withdrawn(t)
    /\ lock' = t
    /\ \E i \in 1..Len(wq) : wq[i] = t /\ wq' = Unlinked(i)
    /\ Goto(t, "check")
    /\ UNCHANGED <<concurrency_value, available, tasklet_active, taskletVars, schedVars,
                   firing, sig, fin, over, eintr, readyVars>>

\* schedule_hrtimeout_range, in either loop.
EpSchedule(t) ==
    /\ Running(t) /\ pc[t] \in {"avail_sched", "sleep_sched"}
    /\ Goto(t, IF pc[t] = "avail_sched" THEN "avail_wake" ELSE "sleep_wake")
    /\ IF state[t] = "INTERRUPTIBLE" /\ t \notin sig
       THEN Dequeue(t) /\ UNCHANGED state
       ELSE /\ state' = [state EXCEPT ![t] = "RUNNING"]
            /\ UNCHANGED <<on_rq, charged, available, firing>>
    /\ UNCHANGED <<groupVars, tasklet_active, wq, lock, taskletVars, members, sig, fin,
                   over, eintr, readyVars>>

\* The wait for an event, with the lock held from before or (having slept)
\* retaken: sleep ...
AtSleepLoop(t) ==
    /\ Running(t)
    /\ pc[t] = "sleep_loop" \/ (pc[t] = "sleep_wake" /\ lock = "free")

Slept(t) == pc[t] = "sleep_wake"

EpSleep(t) ==
    /\ AtSleepLoop(t)
    /\ ~ep_events_available /\ t \notin over /\ t \notin sig
    /\ state' = [state EXCEPT ![t] = "INTERRUPTIBLE"]
    /\ Goto(t, "sleep_sched")
    /\ Unlock(t)
    /\ UNCHANGED <<groupVars, available, tasklet_active, wq, taskletVars, members,
                   charged, on_rq, firing, sig, fin, over, eintr, readyVars>>

\* Fault: the signal is tested for before the events.
SleepBreakSignalFirst(t) ==
    /\ AtSleepLoop(t)
    /\ ep_events_available \/ t \in over \/ t \in sig
    /\ eintr' = IF t \in sig THEN eintr \cup {t} ELSE eintr
    /\ lock' = t
    /\ \E i \in 1..Len(wq) :
        /\ wq[i] = t
        /\ IF t \notin over /\ Slept(t) /\ available < 0
           THEN Goto(t, "avail_loop") /\ wq' = <<t>> \o Unlinked(i)
           ELSE Goto(t, "check") /\ wq' = Unlinked(i)
    /\ UNCHANGED <<groupVars, available, tasklet_active, taskletVars, schedVars,
                   firing, sig, fin, over, readyVars>>

\* ... or leave the loop, for an event, a timeout or a signal; having slept,
\* look at the limit again, and if there is no room wait for it.
EpSleepBreak(t) ==
    /\ AtSleepLoop(t)
    /\ ep_events_available \/ t \in over \/ t \in sig
    /\ eintr' = IF ep_events_available \/ t \in over THEN eintr ELSE eintr \cup {t}
    /\ lock' = t
    /\ \E i \in 1..Len(wq) :
        /\ wq[i] = t
        /\ IF t \notin over /\ Slept(t) /\ available < 0
           THEN Goto(t, "avail_loop") /\ wq' = <<t>> \o Unlinked(i)
           ELSE Goto(t, "check") /\ wq' = Unlinked(i)
    /\ UNCHANGED <<groupVars, available, tasklet_active, taskletVars, schedVars,
                   firing, sig, fin, over, readyVars>>

\* check_events
EpCheck(t) ==
    /\ Running(t) /\ pc[t] = "check"
    /\ Unlock(t)
    /\ IF ep_events_available /\ t \notin eintr
       THEN Goto(t, "scan") /\ UNCHANGED <<sig, fin, over, eintr>>
       ELSE Return(t)
    /\ UNCHANGED <<groupVars, available, tasklet_active, wq, taskletVars, schedVars,
                   firing, readyVars>>

-----------------------------------------------------------------------------
(* ep_send_events: ep_scan_ready_list with ep_send_events_proc.            *)

\* Take ep->mtx; steal the ready list under ep->lock, and divert callbacks.
EpSteal(t) ==
    /\ Running(t) /\ pc[t] = "scan"
    /\ scanner = "none" /\ lock = "free"
    /\ scanner' = t
    /\ txlist' = rdllist
    /\ rdllist' = {}
    /\ Goto(t, "send")
    /\ UNCHANGED <<coreVars, sig, fin, over, eintr, ovflist, fetched>>

\* Poll the items: some are ready and delivered, and of these the level-
\* triggered ones go back to the ready list; some are not ready after all and
\* are dropped; some are left when the buffer is full.  A fault on the first
\* item that is ready leaves it and the rest.
ep_send_events_proc(t) ==
    /\ Running(t) /\ pc[t] = "send"
    /\ \E delivered \in SUBSET txlist : \E left \in SUBSET (txlist \ delivered) :
        /\ txlist' = left
        /\ fetched' = (delivered # {} \/ left # {})
        /\ \E level \in SUBSET delivered : rdllist' = rdllist \cup level
    /\ Goto(t, "merge")
    /\ UNCHANGED <<coreVars, sig, fin, over, eintr, ovflist, scanner>>

\* Fault: the wakeup is not passed on after a scan.
MergeWakesNobody(t) ==
    /\ Running(t) /\ pc[t] = "merge"
    /\ lock = "free"
    /\ rdllist' = rdllist \cup ovflist \cup txlist
    /\ ovflist' = {} /\ txlist' = {} /\ scanner' = "none" /\ fetched' = FALSE
    /\ IF fetched \/ t \in over
       THEN Return(t)
       ELSE Goto(t, "fetch") /\ UNCHANGED <<sig, fin, over, eintr>>
    /\ UNCHANGED coreVars

\* Put back what arrived meanwhile and what is left, pass on the wakeup, and
\* release both locks.  With nothing fetched and time left, start over.
EpMerge(t) ==
    /\ Running(t) /\ pc[t] = "merge"
    /\ lock = "free"
    /\ rdllist' = rdllist \cup ovflist \cup txlist
    /\ ovflist' = {} /\ txlist' = {} /\ scanner' = "none" /\ fetched' = FALSE
    /\ IF rdllist' # {} THEN ep_wake_wq ELSE UNCHANGED <<action, state>>
    /\ IF fetched \/ t \in over
       THEN Return(t)
       ELSE Goto(t, "fetch") /\ UNCHANGED <<sig, fin, over, eintr>>
    /\ UNCHANGED <<concurrency_value, available, tasklet_active, wq, lock, taskletVars,
                   members, charged, on_rq, firing>>

\* A watched file reports an event, in any context.
ep_poll_callback(epi) ==
    /\ lock = "free"
    /\ IF ovf_active
       THEN /\ ovflist' = ovflist \cup {epi}
            /\ UNCHANGED <<rdllist, action, state>>
       ELSE /\ rdllist' = rdllist \cup {epi}
            /\ ep_wake_wq
            /\ UNCHANGED ovflist
    /\ UNCHANGED <<concurrency_value, available, tasklet_active, wq, lock, taskletVars,
                   members, charged, on_rq, firing, pollVars, txlist, scanner, fetched>>

-----------------------------------------------------------------------------
Signal(t) ==
    /\ t \in setup.signalled
    /\ pc[t] # "user" /\ t \notin sig
    /\ sig' = sig \cup {t}
    /\ try_to_wake_up(t)
    /\ UNCHANGED <<groupVars, available, tasklet_active, wq, lock, taskletVars, members,
                   charged, on_rq, firing, pc, fin, over, eintr, readyVars>>

\* The hrtimer of a finite wait fires.
Expire(t) ==
    /\ t \in fin /\ t \notin over
    /\ pc[t] \in {"avail_sched", "avail_wake", "sleep_sched", "sleep_wake"}
    /\ over' = over \cup {t}
    /\ try_to_wake_up(t)
    /\ UNCHANGED <<groupVars, available, tasklet_active, wq, lock, taskletVars, members,
                   charged, on_rq, firing, pc, sig, fin, eintr, readyVars>>

PollStep(t) ==
    \/ EpFetch(t) \/ EpCmCheck(t) \/ EpAvailSleep(t) \/ EpAvailRoom(t)
    \/ EpAvailTimeout(t) \/ EpSchedule(t) \/ EpSleep(t) \/ EpSleepBreak(t) \/ EpCheck(t)
    \/ EpSteal(t) \/ ep_send_events_proc(t) \/ EpMerge(t)

UserStep(t) ==
    \/ cmgroup_dissociate(t)
    \/ \E n \in 1..MaxConcurrency : cmgroup_set_concurrency_value(t, n)
    \/ Block(t)
    \/ EpPollZero(t)
    \/ \E finite \in BOOLEAN : epoll_wait(t, finite)

SchedStep(t) == (Activate(t) \/ fire_tasklet(t)) /\ UNCHANGED epVars

TaskletStep ==
    /\ \/ TaskletStart \/ TaskletLock
       \/ TaskletTestNeutral \/ TaskletTestWakeone \/ TaskletTestWakeall
       \/ TaskletHandOver \/ TaskletWakeOne \/ TaskletClear \/ TaskletRecheck \/ TaskletReread
       \/ TaskletReassert
    /\ UNCHANGED epVars

Next ==
    /\ \/ TaskletStep
       \/ \E t \in Tasks :
            \/ SchedStep(t) \/ PollStep(t) \/ UserStep(t)
            \/ Unblock(t) \/ Signal(t) \/ Expire(t)
       \/ \E epi \in setup.items : ep_poll_callback(epi)
    /\ UNCHANGED setup

Spec == Init /\ [][Next]_<<vars, setup>>

\* Spinlocks are ticket locks, softirqs are executed, a runnable task runs, and
\* a task blocked inside the kernel is unblocked.  Nothing is assumed of user
\* code, of the arrival of events or of signals.
Fairness ==
    /\ SF_vars(TaskletStep)
    /\ \A t \in Tasks :
        /\ WF_vars(SchedStep(t))
        /\ SF_vars(PollStep(t))
        /\ WF_vars(pc[t] # "user" /\ Unblock(t))

FairSpec == Spec /\ Fairness

-----------------------------------------------------------------------------
(* Properties.                                                             *)

\* A task asleep on ep->wq that nobody has woken.
Asleep(t) ==
    /\ pc[t] \in {"avail_wake", "sleep_wake"}
    /\ t \notin on_rq /\ state[t] = "INTERRUPTIBLE"

\* A task in ep_poll that is going to look at the ready list again: not on
\* its way to sleep unless woken, not on its way out.
Heading(t) ==
    \/ pc[t] \in {"fetch", "cmcheck", "avail_loop", "sleep_loop", "scan",
                  "send", "merge"}
    \/ pc[t] = "check" /\ t \notin eintr
    \/ pc[t] \in {"avail_sched", "avail_wake", "sleep_sched", "sleep_wake"}
       /\ state[t] # "INTERRUPTIBLE"

\* The tasklet is going to look at action, and at available after that.
TaskletComing ==
    \/ scheduled
    \/ tpc \in {"again", "test", "recheck", "reread", "reassert"}
    \/ firing # {}

\* No event is stranded: while an event is ready and a task sleeps in
\* epoll_wait, some task is on its way to fetch it, or the tasklet is about to
\* wake one, or has a request to -- and if the group has an opening it is coming.
NoStrandedEvent ==
    rdllist # {} /\ (\E t \in Tasks : Asleep(t)) =>
        \/ \E t \in Tasks : Heading(t)
        \/ tpc \in {"wake", "wakeone"}
        \/ action = "RESET_WAKEONE" /\ (available > 0 => TaskletComing)

\* ep_poll fails with EINTR only if no event is ready at that moment, so no
\* wakeup meant for an event is swallowed by the signal.
EintrMeansNoEvents ==
    \A t \in Tasks : pc[t] = "check" /\ t \in eintr => ~ep_events_available

\* An opening, a ready event and a task asleep in epoll_wait do not coexist
\* for ever: the opening is taken or the event is fetched.
OpeningTaken ==
    (rdllist # {} /\ available > 0 /\ \E t \in Tasks : Asleep(t))
        ~> (available <= 0 \/ scanner # "none")

\* A task whose timeout has expired leaves both waits, whatever the state of the
\* group: it returns, or at most contends for ep->mtx to look for events once.
TimeoutEndsWait == \A t \in Tasks : t \in over ~> pc[t] \in {"user", "scan"}

\* A task that waits without a timeout, is not signalled and has no events to
\* fetch from some time on, ends up asleep: only events wake it.
IdleWorkerSleeps ==
    \A t \in Tasks :
        <>[](pc[t] # "user" /\ rdllist = {} /\ scanner = "none"
             /\ t \notin sig /\ t \notin over)
        => <>[]Asleep(t)
=============================================================================

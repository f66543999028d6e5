----------------------------- MODULE CmProcess -----------------------------
(***************************************************************************)
(* Threads and processes (kernel/fork.c, kernel/exit.c): copy_process puts *)
(* a task into its thread group or among the children of its parent;       *)
(* do_exit gives the children of a task to another one, tells its parent   *)
(* and leaves a zombie, or releases the task at once; do_wait finds and    *)
(* reaps the zombies.  All of it under tasklist_lock, which is dropped and *)
(* taken again between the steps.                                          *)
(*                                                                         *)
(* Not here: ptrace, stopped and continued children, process groups and    *)
(* PID namespaces other than the first.                                    *)
(***************************************************************************)
EXTENDS Naturals, FiniteSets

CONSTANTS
    PTasks, PNull,
    Reaper,     \* init, the first child_reaper
    Born,       \* the tasks there are at the start, children of init
    Ignoring,   \* the choices of processes that ignore SIGCHLD
    Subreapers  \* the processes with PR_SET_CHILD_SUBREAPER

ASSUME ProcessAssumption ==
    /\ PNull \notin PTasks /\ Reaper \in PTasks /\ Born \subseteq PTasks \ {Reaper}
    /\ Ignoring \subseteq SUBSET PTasks
    /\ Subreapers \subseteq PTasks

VARIABLES
    proc,         \* task -> its record (below)
    child_reaper, \* pid_ns->child_reaper
    readers,      \* the tasks that hold tasklist_lock for reading
    ignores       \* the processes that ignore SIGCHLD, by their leaders

pVars == <<proc, child_reaper, readers, ignores>>

\* at: where the task is; leader, parent (real_parent); exiting (PF_EXITING);
\* state (exit_state); released (unhashed); release: the tasks it is about to
\* release; wants: the child it waits for, PNull any; asleep:
\* TASK_INTERRUPTIBLE; killed: a signal is pending.
NoTask == [at |-> "none", leader |-> PNull, parent |-> PNull, exiting |-> FALSE,
           state |-> "alive", released |-> FALSE, release |-> {}, wants |-> PNull,
           asleep |-> FALSE, killed |-> FALSE]

PInit ==
    /\ proc = [t \in PTasks |->
                 IF t \notin Born \cup {Reaper} THEN NoTask
                 ELSE [NoTask EXCEPT !.at = "run", !.leader = t,
                                     !.parent = IF t = Reaper THEN PNull ELSE Reaper]]
    /\ child_reaper = Reaper
    /\ readers = {}
    /\ ignores \in Ignoring

(***************************************************************************)
(* Groups and families, of a value s of proc.                              *)
(***************************************************************************)
Hashed(s) == {t \in PTasks : s[t].at # "none" /\ ~s[t].released}

Threads(s, t) == {u \in Hashed(s) : s[u].leader = s[t].leader}

thread_group_empty(s, p) == Threads(s, p) \subseteq {p}

\* father->children: the leaders among them.
Children(s, father) == {p \in Hashed(s) : s[p].parent = father /\ s[p].leader = p}

\* child_wait_callback: those who wait in the group of parent, for p or anyone.
__wake_up_parent(s, p, parent) ==
    [t \in PTasks |->
        IF t \in Threads(s, parent) /\ s[t].asleep /\ s[t].wants \in {PNull, p}
        THEN [s[t] EXCEPT !.asleep = FALSE] ELSE s[t]]

\* do_notify_parent (external): wakes the parent; TRUE if it does not want to
\* reap.
do_notify_parent(s, p) == __wake_up_parent(s, p, s[p].parent)

Autoreaps(s, p) == s[s[p].parent].leader \in ignores

Unlocked == readers = {}

(***************************************************************************)
(* copy_process, its part under tasklist_lock.  Which unused task_struct   *)
(* it gets makes no difference.                                            *)
(***************************************************************************)
copy_process(t, how) ==
    LET e == proc[t]
        c == CHOOSE u \in PTasks : proc[u].at = "none"
        thread == how = "CLONE_THREAD"
    IN  /\ Unlocked
        /\ e.at = "run" /\ \E u \in PTasks : proc[u].at = "none"
        /\ ~e.killed
        /\ how = "CLONE_PARENT" => e.leader # Reaper
        /\ proc' = [proc EXCEPT
                      ![c] = [NoTask EXCEPT !.at = "run",
                                            !.leader = IF thread THEN e.leader ELSE c,
                                            !.parent = IF how = "fork" THEN t ELSE e.parent]]
        /\ UNCHANGED <<child_reaper, readers, ignores>>

(***************************************************************************)
(* do_exit.                                                                *)
(***************************************************************************)
\* exit_signals sets PF_EXITING.  The last thread of init does not exit: that
\* panics.
do_exit(t) ==
    /\ proc[t].at = "run"
    /\ \E u \in Threads(proc, Reaper) \ {t} : ~proc[u].exiting
    /\ proc' = [proc EXCEPT ![t].at = "exit", ![t].exiting = TRUE]
    /\ UNCHANGED <<child_reaper, readers, ignores>>

\* do_group_exit: zap_other_threads, then do_exit.
do_group_exit(t) ==
    /\ proc[t].at = "run" /\ ~proc[t].killed
    /\ proc[t].leader # Reaper
    /\ proc' = [u \in PTasks |->
                  IF u = t THEN [proc[u] EXCEPT !.at = "exit", !.exiting = TRUE]
                  ELSE IF u \in Threads(proc, t) /\ ~proc[u].exiting
                  THEN [proc[u] EXCEPT !.killed = TRUE, !.asleep = FALSE]
                  ELSE proc[u]]
    /\ UNCHANGED <<child_reaper, readers, ignores>>

\* find_new_reaper: a thread of the group that is not exiting; else the first
\* ancestor that is a subreaper and has such a thread; else init.
RECURSIVE Subreaper(_)
Subreaper(r) ==
    IF r = PNull THEN child_reaper
    ELSE IF proc[r].leader = proc[child_reaper].leader THEN child_reaper
    ELSE IF proc[r].leader \in Subreapers /\ \E u \in Threads(proc, r) : ~proc[u].exiting
    THEN r ELSE Subreaper(proc[r].parent)

\* Fault: a thread that is exiting too may get the children.
ReaperExiting(father) ==
    LET others == Threads(proc, father) \ {father}
    IN  IF others # {} THEN others ELSE {Subreaper(proc[father].parent)}

find_new_reaper(father) ==
    LET others == {u \in Threads(proc, father) \ {father} : ~proc[u].exiting}
    IN  IF others # {} THEN others ELSE {Subreaper(proc[father].parent)}

\* reparent_leader: a zombie is reported to its new parent, and is dead if that
\* does not want it.
Reported(s, father, reaper, p) ==
    IF s[reaper].leader = s[father].leader THEN s
    ELSE IF s[p].state = "zombie" /\ thread_group_empty(s, p)
    THEN LET n == do_notify_parent(s, p)
         IN  IF Autoreaps(s, p)
             THEN [n EXCEPT ![p].state = "dead", ![father].release = @ \cup {p}] ELSE n
    ELSE s

RECURSIVE Reparented(_, _, _, _)
Reparented(s, father, reaper, children) ==
    IF children = {} THEN s
    ELSE LET p == CHOOSE q \in children : TRUE
             given == [u \in PTasks |-> IF u \in Threads(s, p) THEN [s[u] EXCEPT !.parent = reaper]
                                                               ELSE s[u]]
         IN  Reparented(Reported(given, father, reaper, p), father, reaper, children \ {p})

forget_original_parent(father) ==
    /\ Unlocked
    /\ proc[father].at = "exit"
    /\ \E reaper \in find_new_reaper(father) :
          /\ proc' = [Reparented(proc, father, reaper, Children(proc, father))
                        EXCEPT ![father].at = "forgot"]
          /\ child_reaper' = IF child_reaper = father THEN reaper ELSE child_reaper
    /\ UNCHANGED <<readers, ignores>>

\* exit_notify, once the dead children are released: the second time under the
\* lock.
exit_notify(t) ==
    LET leader == proc[t].leader = t
        told == IF leader /\ thread_group_empty(proc, t) THEN do_notify_parent(proc, t) ELSE proc
        autoreap == ~leader \/ (thread_group_empty(proc, t) /\ Autoreaps(proc, t))
    IN  /\ Unlocked
        /\ proc[t].at = "forgot" /\ proc[t].release = {}
        /\ proc' = [told EXCEPT ![t].at = "gone",
                                ![t].state = IF autoreap THEN "dead" ELSE "zombie",
                                ![t].release = IF autoreap THEN {t} ELSE {}]
        /\ UNCHANGED <<child_reaper, readers, ignores>>

\* Fault: the last thread to go does not tell the parent of its zombie leader.
ReleaseSilently(t, p) ==
    /\ Unlocked
    /\ p \in proc[t].release
    /\ proc' = [proc EXCEPT ![p].released = TRUE, ![t].release = @ \ {p}]
    /\ UNCHANGED <<child_reaper, readers, ignores>>

\* release_task, one round of its loop: the last thread to go tells the parent
\* of its zombie leader, and releases it next if the parent does not want it.
release_task(t, p) ==
    LET leader == proc[p].leader
        out == [proc EXCEPT ![p].released = TRUE, ![t].release = @ \ {p}]
        last == leader # p /\ thread_group_empty(out, leader) /\ out[leader].state = "zombie"
    IN  /\ Unlocked
        /\ p \in proc[t].release
        /\ proc' = IF ~last THEN out
                   ELSE IF Autoreaps(out, leader)
                   THEN [do_notify_parent(out, leader) EXCEPT ![leader].state = "dead",
                                                              ![t].release = @ \cup {leader}]
                   ELSE do_notify_parent(out, leader)
        /\ UNCHANGED <<child_reaper, readers, ignores>>

(***************************************************************************)
(* do_wait.                                                                *)
(***************************************************************************)
\* wait4, waitid: the entry is on wait_chldexit, and the state is set before the
\* children are looked at.
do_wait(t) ==
    /\ proc[t].at = "run"
    /\ \E p \in {PNull} \cup (Hashed(proc) \ {t}) :
          proc' = [proc EXCEPT ![t].at = "wait", ![t].wants = p, ![t].asleep = TRUE]
    /\ UNCHANGED <<child_reaper, readers, ignores>>

\* Under the lock: the children, of all threads of the group, that may be meant.
Eligible(s, t) ==
    {p \in Hashed(s) :
        /\ s[p].leader = p /\ s[p].parent # PNull
        /\ s[p].parent \in Threads(s, t)
        /\ s[t].wants \in {PNull, p}}

Ripe(s, t) == {p \in Eligible(s, t) : s[p].state = "zombie" /\ thread_group_empty(s, p)}

\* do_wait_thread, wait_consider_task: a zombie is taken next; or there is
\* something to wait for; or nothing (-ECHILD).
wait_consider_task(t) ==
    /\ proc[t].at \in {"wait", "again"}
    /\ \/ /\ \E p \in Ripe(proc, t) : proc' = [proc EXCEPT ![t].at = "take", ![t].release = {p}]
          /\ readers' = readers \cup {t}
       \/ /\ Ripe(proc, t) = {}
          /\ proc' = [proc EXCEPT
                        ![t] = IF \E p \in Eligible(proc, t) : proc[p].state # "dead"
                               THEN [@ EXCEPT !.at = "sleep"]
                               ELSE [@ EXCEPT !.at = "run", !.wants = PNull, !.asleep = FALSE]]
          /\ readers' = readers \ {t}
    /\ UNCHANGED <<child_reaper, ignores>>

\* Fault: the zombie is taken on the strength of the state seen before.
TakeUnchecked(t) ==
    /\ proc[t].at = "take"
    /\ \E p \in proc[t].release :
          proc' = [proc EXCEPT ![p].state = "dead", ![t].at = "reap", ![t].asleep = FALSE]
    /\ readers' = readers \ {t}
    /\ UNCHANGED <<child_reaper, ignores>>

\* wait_task_zombie: only the one whose xchg finds EXIT_ZOMBIE goes on to
\* release_task; another looks further.
wait_task_zombie(t) ==
    /\ proc[t].at = "take"
    /\ \E p \in proc[t].release :
          IF proc[p].state = "zombie"
          THEN /\ proc' = [proc EXCEPT ![p].state = "dead", ![t].at = "reap", ![t].asleep = FALSE]
               /\ readers' = readers \ {t}
          ELSE /\ proc' = [proc EXCEPT ![t].at = "again", ![t].release = {}]
               /\ UNCHANGED readers
    /\ UNCHANGED <<child_reaper, ignores>>

WaitReturns(t) ==
    /\ proc[t].at = "reap" /\ proc[t].release = {}
    /\ proc' = [proc EXCEPT ![t].at = "run", ![t].wants = PNull]
    /\ UNCHANGED <<child_reaper, readers, ignores>>

\* schedule() returns once the task is woken, and the search begins again; or a
\* signal, or WNOHANG, ends the call.
WaitAgain(t) ==
    /\ proc[t].at = "sleep"
    /\ ~proc[t].asleep /\ ~proc[t].killed
    /\ proc' = [proc EXCEPT ![t].at = "wait", ![t].asleep = TRUE]
    /\ UNCHANGED <<child_reaper, readers, ignores>>

WaitEnds(t) ==
    /\ proc[t].at = "sleep"
    /\ proc' = [proc EXCEPT ![t].at = "run", ![t].wants = PNull, ![t].asleep = FALSE]
    /\ UNCHANGED <<child_reaper, readers, ignores>>

PNext ==
    \E t \in PTasks :
        \/ do_exit(t) \/ do_group_exit(t) \/ forget_original_parent(t) \/ exit_notify(t)
        \/ do_wait(t) \/ wait_consider_task(t) \/ wait_task_zombie(t)
        \/ WaitReturns(t) \/ WaitAgain(t) \/ WaitEnds(t)
        \/ \E p \in PTasks : release_task(t, p)
        \/ \E how \in {"fork", "CLONE_PARENT", "CLONE_THREAD"} : copy_process(t, how)

PSpec == PInit /\ [][PNext]_pVars

(***************************************************************************)
(* Properties.                                                             *)
(***************************************************************************)
\* No task is left behind by its parent (exit.c, forget_original_parent,
\* BUG_ON(!list_empty(&father->children))): the parent of every task that has
\* not been released is one that has not given its children away yet, and so
\* neither a zombie nor freed; whichever of its threads exit together with it,
\* and whoever forks with CLONE_PARENT meanwhile.
NoOrphan ==
    \A p \in Hashed(proc) \ Threads(proc, Reaper) :
        proc[p].parent # PNull /\ proc[proc[p].parent].at \notin {"forgot", "gone"}

\* A task is released by one other or by itself, once, when it is EXIT_DEAD, and
\* a leader after its threads (exit.c, wait_task_zombie: "no other thread can
\* reap it because we set its state to EXIT_DEAD"; release_task's zap_leader).
ReapedOnce ==
    \A t \in PTasks : \A p \in proc[t].release :
        proc[t].at # "take" =>
            /\ ~proc[p].released /\ proc[p].state = "dead"
            /\ \A u \in PTasks \ {t} : p \in proc[u].release => proc[u].at = "take"
            /\ proc[p].leader = p => thread_group_empty(proc, p)

\* A task asleep in wait is not overlooked (exit.c, do_wait): there is a child
\* it may still wait for, and no zombie it could reap, whoever reaps the others,
\* however the children change their parents, and whenever it fell asleep.
NoLostChild ==
    \A t \in PTasks :
        proc[t].at = "sleep" /\ proc[t].asleep /\ Unlocked =>
            /\ Ripe(proc, t) = {}
            /\ \E p \in Eligible(proc, t) : proc[p].state # "dead"
=============================================================================

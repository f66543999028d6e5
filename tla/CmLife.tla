------------------------------- MODULE CmLife -------------------------------
(***************************************************************************)
(* The life of struct cmgroup (fs/cmgroup.c, include/linux/cmgroup.h): its *)
(* reference count, its attachment to an epoll descriptor or AIO context,  *)
(* the redirection of cmgroup->lock and cmgroup->wq that comes with it,    *)
(* and the tasklet, which runs on its own reference and must be locked out *)
(* while those pointers change.                                            *)
(*                                                                         *)
(* How many tasks are runnable is the subject of CmAccount, who waits and  *)
(* is woken that of CmWait and CmEpoll.  Here every step that may fire the *)
(* tasklet, or at which the tasklet may end, may do so or not.             *)
(***************************************************************************)
EXTENDS Integers, FiniteSets

CONSTANTS
    Groups,     \* struct cmgroup, each allocated at most once
    Epolls,     \* struct eventpoll
    Ioctxs,     \* struct kioctx
    Threads,    \* tasks, and the worker that runs free_ioctx
    Setups,     \* bounds, one of which holds for a behaviour: the groups and
                \* objects there are, the groups whose concurrency value is set,
                \* whose openings fire the tasklet, and whose descriptor is closed
    NULL

Objects == Epolls \cup Ioctxs
Locks == Groups \cup Epolls     \* g stands for cmgroup->__wq.lock, o for ep->lock
Holders == Threads \cup Groups  \* g stands for the tasklet of g

ASSUME LifeAssumption ==
    /\ IsFiniteSet(Groups) /\ IsFiniteSet(Objects) /\ IsFiniteSet(Threads)
    /\ Groups \cap Objects = {} /\ Groups \cap Threads = {} /\ Objects \cap Threads = {}
    /\ Epolls \cap Ioctxs = {}
    /\ Setups \subseteq [groups : SUBSET Groups, objects : SUBSET Objects,
                         retuned : SUBSET Groups, opening : SUBSET Groups, closed : SUBSET Groups]
    /\ NULL \notin Groups \cup Objects \cup Threads

VARIABLES
    memory,         \* [Groups -> {"unused", "live", "free_work", "freed"}]
    kref,           \* [Groups -> Int]
    fds,            \* groups with an open file
    attached,       \* [Groups -> Objects or NULL]: attached_epoll, attached_aio
    lockptr,        \* [Groups -> Locks]: cmgroup->lock, and wq with it
    attached_mtx,   \* [Groups -> Threads or NULL]: its holder
    tasklet_active, \* groups with tasklet_active set
    scheduled,      \* groups with TASKLET_STATE_SCHED set
    tpc,            \* [Groups -> TaskletPcs]
    holder,         \* [Locks -> Holders or NULL]: spinlocks
    object,         \* [Objects -> {"open", "dying", "freed"}]
    obj_cmgroup,    \* [Objects -> Groups or NULL]: ep->cmgroup, ioctx->cmgroup
    task_cmgroup,   \* [Threads -> Groups or NULL]: current->cmgroup
    pc,             \* [Threads -> Pcs]
    cg,             \* [Threads -> Groups or NULL]: local variable cmgroup
    ob,             \* [Threads -> Objects or NULL]: object in use by a system call
    ret,            \* where lockout, unlockout and fire_tasklet return to
    after,          \* where cmgroup_dissociate returns to
    setup           \* the bounds of this behaviour

groupVars == <<memory, kref, fds>>
attachVars == <<attached, lockptr, obj_cmgroup>>
taskletVars == <<tasklet_active, scheduled, tpc>>
callVars == <<cg, ob, ret, after>>
vars == <<groupVars, attachVars, taskletVars, callVars, attached_mtx, holder, object,
          task_cmgroup, pc, setup>>

TaskletPcs == {"idle", "again", "body", "unlock", "unlock_recheck", "unlock_passed",
               "reread", "unref", "run"}
FirePcs == {"fire", "fire_sched"}
LockoutPcs == {"lockout", "lockout_lock", "unlockout"}
Pcs == FirePcs \cup LockoutPcs \cup
       {"idle", "assoc", "assoc_set", "dissoc_unref",
        "cv_mtx", "cv_lock", "cv_unlock",
        "attach_mtx", "attach", "attach_end", "attach_fail", "attach_unref",
        "detach_mtx", "detach", "detach_end",
        "fetch_set", "wait_lock", "wait_unlock"}

TypeOK ==
    /\ memory \in [Groups -> {"unused", "live", "free_work", "freed"}]
    /\ kref \in [Groups -> Nat]
    /\ fds \subseteq Groups
    /\ attached \in [Groups -> Objects \cup {NULL}]
    /\ lockptr \in [Groups -> Locks]
    /\ attached_mtx \in [Groups -> Threads \cup {NULL}]
    /\ tasklet_active \subseteq Groups
    /\ scheduled \subseteq Groups
    /\ tpc \in [Groups -> TaskletPcs]
    /\ holder \in [Locks -> Holders \cup {NULL}]
    /\ object \in [Objects -> {"open", "dying", "freed"}]
    /\ obj_cmgroup \in [Objects -> Groups \cup {NULL}]
    /\ task_cmgroup \in [Threads -> Groups \cup {NULL}]
    /\ pc \in [Threads -> Pcs]
    /\ cg \in [Threads -> Groups \cup {NULL}]
    /\ ob \in [Threads -> Objects \cup {NULL}]
    /\ ret \in [Threads -> Pcs]
    /\ after \in [Threads -> Pcs]

Init ==
    /\ memory = [g \in Groups |-> "unused"]
    /\ kref = [g \in Groups |-> 0]
    /\ fds = {}
    /\ attached = [g \in Groups |-> NULL]
    /\ lockptr = [g \in Groups |-> g]
    /\ attached_mtx = [g \in Groups |-> NULL]
    /\ tasklet_active = {} /\ scheduled = {}
    /\ tpc = [g \in Groups |-> "idle"]
    /\ holder = [l \in Locks |-> NULL]
    /\ object = [o \in Objects |-> "open"]
    /\ obj_cmgroup = [o \in Objects |-> NULL]
    /\ task_cmgroup = [t \in Threads |-> NULL]
    /\ pc = [t \in Threads |-> "idle"]
    /\ cg = [t \in Threads |-> NULL]
    /\ ob = [t \in Threads |-> NULL]
    /\ ret = [t \in Threads |-> "idle"]
    /\ after = [t \in Threads |-> "idle"]
    /\ setup \in Setups

-----------------------------------------------------------------------------
Goto(t, l) == pc' = [pc EXCEPT ![t] = l]
Call(t, l, back) == Goto(t, l) /\ ret' = [ret EXCEPT ![t] = back]
Return(t) == Goto(t, ret[t]) /\ ret' = [ret EXCEPT ![t] = "idle"]

\* The system call is over: its locals are gone.
Exit(t) ==
    /\ Goto(t, "idle")
    /\ cg' = [cg EXCEPT ![t] = NULL]
    /\ ob' = [ob EXCEPT ![t] = NULL]

cmgroup_ref(g) == kref' = [kref EXCEPT ![g] = @ + 1] /\ UNCHANGED memory

\* cmgroup_unref with cmgroup_kref_release: in an interrupt, or with interrupts
\* off, the memory is freed by a work item.
cmgroup_unref(g, atomic) ==
    /\ kref' = [kref EXCEPT ![g] = @ - 1]
    /\ memory' = IF kref[g] = 1
                 THEN [memory EXCEPT ![g] = IF atomic THEN "free_work" ELSE "freed"]
                 ELSE memory

__cmgroup_free_work(g) ==
    /\ memory[g] = "free_work"
    /\ memory' = [memory EXCEPT ![g] = "freed"]
    /\ UNCHANGED <<kref, fds, attachVars, taskletVars, callVars, attached_mtx, holder,
                   object, task_cmgroup, pc>>

Acquire(l, who) == holder[l] = NULL /\ holder' = [holder EXCEPT ![l] = who]
Release(l) == holder' = [holder EXCEPT ![l] = NULL]

-----------------------------------------------------------------------------
(* The file descriptor.                                                    *)

\* sys_cmgroup_newgroup with cmgroup_alloc.  When no descriptor can be had the
\* group is freed again before anybody has seen it, and nothing has happened.
cmgroup_newgroup(t, g) ==
    /\ pc[t] = "idle" /\ memory[g] = "unused" /\ g \in setup.groups
    /\ memory' = [memory EXCEPT ![g] = "live"]
    /\ kref' = [kref EXCEPT ![g] = 1]
    /\ fds' = fds \cup {g}
    /\ UNCHANGED <<attachVars, taskletVars, callVars, attached_mtx, holder, object,
                   task_cmgroup, pc>>

cmgroup_fop_release(t, g) ==
    /\ pc[t] = "idle" /\ g \in fds /\ g \in setup.closed
    /\ fds' = fds \ {g}
    /\ cmgroup_unref(g, FALSE)
    /\ UNCHANGED <<attachVars, taskletVars, callVars, attached_mtx, holder, object,
                   task_cmgroup, pc>>

\* cmgroup_from_fd, the start of several system calls.
cmgroup_from_fd(t, g, l) ==
    /\ pc[t] = "idle" /\ g \in fds
    /\ cmgroup_ref(g)
    /\ cg' = [cg EXCEPT ![t] = g]
    /\ Goto(t, l)
    /\ UNCHANGED fds

-----------------------------------------------------------------------------
(* fire_tasklet: the winner of the compare-and-swap takes a reference for  *)
(* the tasklet, then schedules it.                                         *)

\* The group it is about: that of the current task when an opening appears or
\* on dissociation, otherwise that of the system call.
Fired(t) == IF ret[t] \in {"idle", "dissoc_unref"} THEN task_cmgroup[t] ELSE cg[t]

\* Fault: the tasklet gets no reference of its own.
FireWithoutRef(t) ==
    /\ pc[t] = "fire"
    /\ tasklet_active' = tasklet_active \cup {Fired(t)}
    /\ IF Fired(t) \in tasklet_active
       THEN Return(t)
       ELSE Goto(t, "fire_sched") /\ UNCHANGED ret
    /\ UNCHANGED <<groupVars, attachVars, scheduled, tpc, cg, ob, after, attached_mtx,
                   holder, object, task_cmgroup>>

FireCas(t) ==
    /\ pc[t] = "fire"
    /\ tasklet_active' = tasklet_active \cup {Fired(t)}
    /\ IF Fired(t) \in tasklet_active
       THEN Return(t) /\ UNCHANGED <<kref, memory>>
       ELSE cmgroup_ref(Fired(t)) /\ Goto(t, "fire_sched") /\ UNCHANGED ret
    /\ UNCHANGED <<fds, attachVars, scheduled, tpc, cg, ob, after, attached_mtx, holder,
                   object, task_cmgroup>>

FireSchedule(t) ==
    /\ pc[t] = "fire_sched"
    /\ scheduled' = scheduled \cup {Fired(t)}
    /\ Return(t)
    /\ UNCHANGED <<groupVars, attachVars, tasklet_active, tpc, cg, ob, after, attached_mtx,
                   holder, object, task_cmgroup>>

\* __cmgroup_task_dequeued: a member blocks, available goes from 0 to 1.
Opening(t) ==
    /\ pc[t] = "idle" /\ task_cmgroup[t] \in setup.opening
    /\ Call(t, "fire", "idle")
    /\ UNCHANGED <<groupVars, attachVars, taskletVars, cg, ob, after, attached_mtx, holder,
                   object, task_cmgroup>>

-----------------------------------------------------------------------------
(* Association.                                                            *)

\* cmgroup_dissociate, to go on at l: the charge goes back, which may be an
\* opening ...
cmgroup_dissociate(t, l) ==
    /\ \/ task_cmgroup[t] \in setup.opening /\ Call(t, "fire", "dissoc_unref")
       \/ Goto(t, "dissoc_unref") /\ UNCHANGED ret
    /\ after' = [after EXCEPT ![t] = l]

\* ... and the reference.  Inside ep_poll the caller holds ep->lock.
DissociateUnref(t) ==
    /\ pc[t] = "dissoc_unref"
    /\ task_cmgroup' = [task_cmgroup EXCEPT ![t] = NULL]
    /\ cmgroup_unref(task_cmgroup[t], ob[t] \in Epolls)
    /\ Goto(t, after[t])
    /\ after' = [after EXCEPT ![t] = "idle"]
    /\ UNCHANGED <<fds, attachVars, taskletVars, cg, ob, ret, attached_mtx, holder, object>>

\* sys_cmgroup_dissociate, and do_exit.
sys_cmgroup_dissociate(t) ==
    /\ pc[t] = "idle" /\ task_cmgroup[t] # NULL
    /\ cmgroup_dissociate(t, "idle")
    /\ UNCHANGED <<groupVars, attachVars, taskletVars, cg, ob, attached_mtx, holder, object,
                   task_cmgroup>>

sys_cmgroup_associate(t, g) ==
    /\ cmgroup_from_fd(t, g, "assoc")
    /\ UNCHANGED <<attachVars, taskletVars, ob, ret, after, attached_mtx, holder, object,
                   task_cmgroup>>

\* Fault: the reference from cmgroup_from_fd is kept.
AssociateSameLeaks(t) ==
    /\ pc[t] = "assoc" /\ task_cmgroup[t] = cg[t]
    /\ Exit(t)
    /\ UNCHANGED <<groupVars, attachVars, taskletVars, ret, after, attached_mtx, holder,
                   object, task_cmgroup>>

\* cmgroup_associate with addref = false: the task keeps the reference, unless
\* it has one to the same group already.
AssociateSame(t) ==
    /\ pc[t] = "assoc" /\ task_cmgroup[t] = cg[t]
    /\ cmgroup_unref(cg[t], FALSE)
    /\ Exit(t)
    /\ UNCHANGED <<fds, attachVars, taskletVars, ret, after, attached_mtx, holder, object,
                   task_cmgroup>>

AssociateOther(t) ==
    /\ pc[t] = "assoc" /\ task_cmgroup[t] \notin {NULL, cg[t]}
    /\ cmgroup_dissociate(t, "assoc_set")
    /\ UNCHANGED <<groupVars, attachVars, taskletVars, cg, ob, attached_mtx, holder, object,
                   task_cmgroup>>

AssociateSet(t) ==
    /\ pc[t] = "assoc_set" \/ (pc[t] = "assoc" /\ task_cmgroup[t] = NULL)
    /\ task_cmgroup' = [task_cmgroup EXCEPT ![t] = cg[t]]
    /\ Exit(t)
    /\ UNCHANGED <<groupVars, attachVars, taskletVars, ret, after, attached_mtx, holder,
                   object>>

\* A call that fetches events from an object, epoll_wait or io_getevents, has
\* no effect here if the object has no group.  Otherwise the task joins it:
\* cmgroup_associate with addref = true, under ep->lock in ep_poll.
FetchAssociate(t, o) ==
    LET g == obj_cmgroup[o] IN
    /\ pc[t] = "idle" /\ object[o] = "open"
    /\ g \notin {NULL, task_cmgroup[t]}
    /\ IF o \in Epolls THEN Acquire(o, t) ELSE UNCHANGED holder
    /\ cmgroup_ref(g)
    /\ cg' = [cg EXCEPT ![t] = g]
    /\ ob' = [ob EXCEPT ![t] = o]
    /\ IF task_cmgroup[t] = NULL
       THEN Goto(t, "fetch_set") /\ UNCHANGED <<ret, after>>
       ELSE cmgroup_dissociate(t, "fetch_set")
    /\ UNCHANGED <<fds, attachVars, taskletVars, attached_mtx, object, task_cmgroup>>

\* io_getevents, in the group already.
FetchSame(t, o) ==
    /\ pc[t] = "idle" /\ object[o] = "open" /\ o \in Ioctxs
    /\ obj_cmgroup[o] # NULL /\ obj_cmgroup[o] = task_cmgroup[t]
    /\ cg' = [cg EXCEPT ![t] = obj_cmgroup[o]]
    /\ ob' = [ob EXCEPT ![t] = o]
    /\ Goto(t, "wait_lock")
    /\ UNCHANGED <<groupVars, attachVars, taskletVars, ret, after, attached_mtx, holder,
                   object, task_cmgroup>>

FetchSet(t) ==
    /\ pc[t] = "fetch_set"
    /\ task_cmgroup' = [task_cmgroup EXCEPT ![t] = cg[t]]
    /\ IF ob[t] \in Epolls
       THEN Release(ob[t]) /\ Exit(t)
       ELSE Goto(t, "wait_lock") /\ UNCHANGED <<holder, cg, ob>>
    /\ UNCHANGED <<groupVars, attachVars, taskletVars, ret, after, attached_mtx, object>>

\* cmgroup_wait at the end of io_getevents, before the context is let go.
WaitLock(t) ==
    /\ pc[t] = "wait_lock"
    /\ Acquire(lockptr[cg[t]], t)
    /\ Goto(t, "wait_unlock")
    /\ UNCHANGED <<groupVars, attachVars, taskletVars, callVars, attached_mtx, object,
                   task_cmgroup>>

WaitUnlock(t) ==
    /\ pc[t] = "wait_unlock"
    /\ Release(lockptr[cg[t]])
    /\ Exit(t)
    /\ UNCHANGED <<groupVars, attachVars, taskletVars, ret, after, attached_mtx, object,
                   task_cmgroup>>

-----------------------------------------------------------------------------
(* sys_cmgroup_set_concurrency_value.                                      *)

cmgroup_set_concurrency_value(t, g) ==
    /\ g \in setup.retuned
    /\ cmgroup_from_fd(t, g, "cv_mtx")
    /\ UNCHANGED <<attachVars, taskletVars, ob, ret, after, attached_mtx, holder, object,
                   task_cmgroup>>

MutexLock(t) ==
    /\ attached_mtx[cg[t]] = NULL
    /\ attached_mtx' = [attached_mtx EXCEPT ![cg[t]] = t]
MutexUnlock(t) == attached_mtx' = [attached_mtx EXCEPT ![cg[t]] = NULL]

SetCvMutex(t) ==
    /\ pc[t] = "cv_mtx"
    /\ MutexLock(t)
    /\ Goto(t, "cv_lock")
    /\ UNCHANGED <<groupVars, attachVars, taskletVars, callVars, holder, object,
                   task_cmgroup>>

SetCvLock(t) ==
    /\ pc[t] = "cv_lock"
    /\ Acquire(lockptr[cg[t]], t)
    /\ Call(t, "fire", "cv_unlock") \/ (Goto(t, "cv_unlock") /\ UNCHANGED ret)
    /\ UNCHANGED <<groupVars, attachVars, taskletVars, cg, ob, after, attached_mtx, object,
                   task_cmgroup>>

SetCvUnlock(t) ==
    /\ pc[t] = "cv_unlock"
    /\ Release(lockptr[cg[t]])
    /\ MutexUnlock(t)
    /\ cmgroup_unref(cg[t], FALSE)
    /\ Exit(t)
    /\ UNCHANGED <<fds, attachVars, taskletVars, ret, after, object, task_cmgroup>>

-----------------------------------------------------------------------------
(* Lock-out of the tasklet.                                                *)

\* Take tasklet_active (until then, msleep and retry) ...
cmgroup_lockout_tasklet(t) ==
    /\ pc[t] = "lockout" /\ cg[t] \notin tasklet_active
    /\ tasklet_active' = tasklet_active \cup {cg[t]}
    /\ Goto(t, "lockout_lock")
    /\ UNCHANGED <<groupVars, attachVars, scheduled, tpc, callVars, attached_mtx, holder,
                   object, task_cmgroup>>

\* Fault: a tasklet on its way out is not waited for.
LockoutNoLock(t) ==
    /\ pc[t] = "lockout_lock"
    /\ Return(t)
    /\ UNCHANGED <<groupVars, attachVars, taskletVars, cg, ob, after, attached_mtx, holder,
                   object, task_cmgroup>>

\* ... and lock and unlock, so that a tasklet on its way out has unlocked.
LockoutLock(t) ==
    /\ pc[t] = "lockout_lock" /\ holder[lockptr[cg[t]]] = NULL
    /\ Return(t)
    /\ UNCHANGED <<groupVars, attachVars, taskletVars, cg, ob, after, attached_mtx, holder,
                   object, task_cmgroup>>

\* Let the tasklet in again, and fire it for what it may have missed.
cmgroup_unlockout_tasklet(t) ==
    /\ pc[t] = "unlockout"
    /\ tasklet_active' = tasklet_active \ {cg[t]}
    /\ Goto(t, "fire")
    /\ UNCHANGED <<groupVars, attachVars, scheduled, tpc, callVars, attached_mtx, holder,
                   object, task_cmgroup>>

-----------------------------------------------------------------------------
(* ep_attach_cmgroup and io_set_cmgroup.  The object cannot go away before *)
(* the call is over: the caller has its file, or a count in ioctx->users.  *)

Attach(t, g, o) ==
    /\ object[o] = "open" /\ o \in setup.objects
    /\ cmgroup_from_fd(t, g, "attach_mtx")
    /\ ob' = [ob EXCEPT ![t] = o]
    /\ UNCHANGED <<attachVars, taskletVars, ret, after, attached_mtx, holder, object,
                   task_cmgroup>>

\* cmgroup_begin_attach_epoll, cmgroup_begin_attach_aio: -EALREADY and -EBUSY.
AttachRefused(t) ==
    /\ pc[t] = "attach_mtx"
    /\ attached_mtx[cg[t]] = NULL /\ attached[cg[t]] # NULL
    /\ Goto(t, "attach_unref")
    /\ UNCHANGED <<groupVars, attachVars, taskletVars, callVars, attached_mtx, holder,
                   object, task_cmgroup>>

\* Fault: a group that is attached already is attached again.
AttachTwice(t) ==
    /\ pc[t] = "attach_mtx"
    /\ MutexLock(t)
    /\ Call(t, "lockout", "attach")
    /\ UNCHANGED <<groupVars, attachVars, taskletVars, cg, ob, after, holder, object,
                   task_cmgroup>>

AttachBegin(t) ==
    /\ pc[t] = "attach_mtx"
    /\ MutexLock(t) /\ attached[cg[t]] = NULL
    /\ Call(t, "lockout", "attach")
    /\ UNCHANGED <<groupVars, attachVars, taskletVars, cg, ob, after, holder, object,
                   task_cmgroup>>

\* Under the lock of the object; cmgroup_do_attach_epoll, cmgroup_do_attach_aio.
AttachDo(t) ==
    LET g == cg[t]
        o == ob[t]
    IN  /\ pc[t] = "attach"
        /\ o \in Epolls => holder[o] = NULL
        /\ IF obj_cmgroup[o] = NULL
           THEN /\ obj_cmgroup' = [obj_cmgroup EXCEPT ![o] = g]
                /\ attached' = [attached EXCEPT ![g] = o]
                /\ lockptr' = IF o \in Epolls THEN [lockptr EXCEPT ![g] = o] ELSE lockptr
                /\ Call(t, "unlockout", "attach_end")
           ELSE Call(t, "unlockout", "attach_fail") /\ UNCHANGED attachVars
        /\ UNCHANGED <<groupVars, taskletVars, cg, ob, after, attached_mtx, holder, object,
                       task_cmgroup>>

\* Success: the object keeps the reference.
AttachEnd(t) ==
    /\ pc[t] = "attach_end"
    /\ MutexUnlock(t)
    /\ Exit(t)
    /\ UNCHANGED <<groupVars, attachVars, taskletVars, ret, after, holder, object,
                   task_cmgroup>>

AttachFail(t) ==
    /\ pc[t] = "attach_fail"
    /\ MutexUnlock(t)
    /\ Goto(t, "attach_unref")
    /\ UNCHANGED <<groupVars, attachVars, taskletVars, callVars, holder, object,
                   task_cmgroup>>

AttachUnref(t) ==
    /\ pc[t] = "attach_unref"
    /\ cmgroup_unref(cg[t], FALSE)
    /\ Exit(t)
    /\ UNCHANGED <<fds, attachVars, taskletVars, ret, after, attached_mtx, holder, object,
                   task_cmgroup>>

-----------------------------------------------------------------------------
(* ep_free and free_ioctx: nobody uses the object any more.                *)

Destroy(t, o) ==
    /\ pc[t] = "idle" /\ object[o] = "open" /\ o \in setup.objects
    /\ \A u \in Threads : ob[u] # o
    /\ IF obj_cmgroup[o] = NULL
       THEN object' = [object EXCEPT ![o] = "freed"] /\ UNCHANGED <<pc, cg, ob>>
       ELSE /\ object' = [object EXCEPT ![o] = "dying"]
            /\ cg' = [cg EXCEPT ![t] = obj_cmgroup[o]]
            /\ ob' = [ob EXCEPT ![t] = o]
            /\ Goto(t, "detach_mtx")
    /\ UNCHANGED <<groupVars, attachVars, taskletVars, ret, after, attached_mtx, holder,
                   task_cmgroup>>

\* cmgroup_detach: the mutex, then the lock to see that no task is queued.
DetachBegin(t) ==
    /\ pc[t] = "detach_mtx"
    /\ MutexLock(t) /\ holder[lockptr[cg[t]]] = NULL
    /\ Call(t, "lockout", "detach")
    /\ UNCHANGED <<groupVars, attachVars, taskletVars, cg, ob, after, holder, object,
                   task_cmgroup>>

DetachDo(t) ==
    /\ pc[t] = "detach"
    /\ attached' = [attached EXCEPT ![cg[t]] = NULL]
    /\ lockptr' = [lockptr EXCEPT ![cg[t]] = cg[t]]
    /\ Call(t, "unlockout", "detach_end")
    /\ UNCHANGED <<groupVars, obj_cmgroup, taskletVars, cg, ob, after, attached_mtx, holder,
                   object, task_cmgroup>>

DetachEnd(t) ==
    /\ pc[t] = "detach_end"
    /\ MutexUnlock(t)
    /\ cmgroup_unref(cg[t], FALSE)
    /\ object' = [object EXCEPT ![ob[t]] = "freed"]
    /\ obj_cmgroup' = [obj_cmgroup EXCEPT ![ob[t]] = NULL]
    /\ Exit(t)
    /\ UNCHANGED <<fds, attached, lockptr, taskletVars, ret, after, holder, task_cmgroup>>

-----------------------------------------------------------------------------
(* The tasklet: tasklet_action and cmgroup_tasklet.                        *)

TaskletGoto(g, l) == tpc' = [tpc EXCEPT ![g] = l]

\* tasklet_trylock, clear SCHED, call the function.
TaskletStart(g) ==
    /\ g \in scheduled /\ tpc[g] = "idle"
    /\ scheduled' = scheduled \ {g}
    /\ TaskletGoto(g, "again")
    /\ UNCHANGED <<groupVars, attachVars, tasklet_active, callVars, attached_mtx, holder,
                   object, task_cmgroup, pc>>

TaskletLock(g) ==
    /\ tpc[g] = "again"
    /\ Acquire(lockptr[g], g)
    /\ TaskletGoto(g, "body")
    /\ UNCHANGED <<groupVars, attachVars, tasklet_active, scheduled, callVars, attached_mtx,
                   object, task_cmgroup, pc>>

\* out_tasklet and out_recheck: give up tasklet_active, still under the lock.
TaskletClear(g) ==
    /\ tpc[g] = "body"
    /\ tasklet_active' = tasklet_active \ {g}
    /\ TaskletGoto(g, "unlock") \/ TaskletGoto(g, "unlock_recheck")
    /\ UNCHANGED <<groupVars, attachVars, scheduled, callVars, attached_mtx, holder, object,
                   task_cmgroup, pc>>

\* Too many passes: a new instance gets the reference and tasklet_active.
TaskletHandOver(g) ==
    /\ tpc[g] = "body"
    /\ scheduled' = scheduled \cup {g}
    /\ TaskletGoto(g, "unlock_passed")
    /\ UNCHANGED <<groupVars, attachVars, tasklet_active, callVars, attached_mtx, holder,
                   object, task_cmgroup, pc>>

\* cmgroup_unlock_irqrestore: of whatever cmgroup->lock now points to.
TaskletUnlock(g) ==
    /\ \/ tpc[g] = "unlock" /\ TaskletGoto(g, "unref")
       \/ tpc[g] = "unlock_recheck" /\ TaskletGoto(g, "reread")
       \/ tpc[g] = "unlock_passed" /\ TaskletGoto(g, "run")
    /\ Release(lockptr[g])
    /\ UNCHANGED <<groupVars, attachVars, tasklet_active, scheduled, callVars, attached_mtx,
                   object, task_cmgroup, pc>>

\* No more openings, or another instance has been spawned.
TaskletGiveUp(g) ==
    /\ tpc[g] = "reread"
    /\ TaskletGoto(g, "unref")
    /\ UNCHANGED <<groupVars, attachVars, tasklet_active, scheduled, callVars, attached_mtx,
                   holder, object, task_cmgroup, pc>>

TaskletReassert(g) ==
    /\ tpc[g] = "reread" /\ g \notin tasklet_active
    /\ tasklet_active' = tasklet_active \cup {g}
    /\ TaskletGoto(g, "again")
    /\ UNCHANGED <<groupVars, attachVars, scheduled, callVars, attached_mtx, holder, object,
                   task_cmgroup, pc>>

TaskletUnref(g) ==
    /\ tpc[g] = "unref"
    /\ cmgroup_unref(g, TRUE)
    /\ TaskletGoto(g, "run")
    /\ UNCHANGED <<fds, attachVars, tasklet_active, scheduled, callVars, attached_mtx,
                   holder, object, task_cmgroup, pc>>

\* tasklet_unlock, in tasklet_action: clear TASKLET_STATE_RUN.
TaskletReturn(g) ==
    /\ tpc[g] = "run"
    /\ TaskletGoto(g, "idle")
    /\ UNCHANGED <<groupVars, attachVars, tasklet_active, scheduled, callVars, attached_mtx,
                   holder, object, task_cmgroup, pc>>

-----------------------------------------------------------------------------
ThreadStep(t) ==
    \/ FireCas(t) \/ FireSchedule(t) \/ Opening(t)
    \/ DissociateUnref(t) \/ sys_cmgroup_dissociate(t)
    \/ AssociateSame(t) \/ AssociateOther(t) \/ AssociateSet(t)
    \/ FetchSet(t) \/ WaitLock(t) \/ WaitUnlock(t)
    \/ SetCvMutex(t) \/ SetCvLock(t) \/ SetCvUnlock(t)
    \/ cmgroup_lockout_tasklet(t) \/ LockoutLock(t) \/ cmgroup_unlockout_tasklet(t)
    \/ AttachRefused(t) \/ AttachBegin(t) \/ AttachDo(t)
    \/ AttachEnd(t) \/ AttachFail(t) \/ AttachUnref(t)
    \/ DetachBegin(t) \/ DetachDo(t) \/ DetachEnd(t)

CallStep(t) ==
    \/ \E g \in Groups :
        \/ cmgroup_newgroup(t, g) \/ cmgroup_fop_release(t, g)
        \/ sys_cmgroup_associate(t, g) \/ cmgroup_set_concurrency_value(t, g)
        \/ \E o \in Objects : Attach(t, g, o)
    \/ \E o \in Objects : FetchAssociate(t, o) \/ FetchSame(t, o) \/ Destroy(t, o)

TaskletStep(g) ==
    \/ TaskletStart(g) \/ TaskletLock(g) \/ TaskletClear(g) \/ TaskletHandOver(g)
    \/ TaskletUnlock(g) \/ TaskletGiveUp(g) \/ TaskletReassert(g) \/ TaskletUnref(g)
    \/ TaskletReturn(g)

\* Everything created has been destroyed again.
Over ==
    /\ \A t \in Threads : pc[t] = "idle"
    /\ \A g \in setup.groups : memory[g] = "freed" \/ g \notin setup.closed
    /\ \A o \in setup.objects : object[o] = "freed"
    /\ UNCHANGED vars

Next ==
    \/ /\ \/ \E t \in Threads : ThreadStep(t) \/ CallStep(t)
          \/ \E g \in Groups : TaskletStep(g) \/ __cmgroup_free_work(g)
       /\ UNCHANGED setup
    \/ Over

Spec == Init /\ [][Next]_vars

-----------------------------------------------------------------------------
(* Who holds what.                                                         *)

\* Thread t is at one of the places, or in a routine called from there.
In(t, places) ==
    \/ pc[t] \in places
    \/ pc[t] \in FirePcs \cup LockoutPcs /\ ret[t] \in places
    \/ /\ pc[t] = "dissoc_unref" \/ (pc[t] \in FirePcs /\ ret[t] = "dissoc_unref")
       /\ after[t] \in places

\* Thread t has a reference of its own to cg[t].
Referring(t) ==
    In(t, {"assoc", "assoc_set", "fetch_set", "cv_mtx", "cv_lock", "cv_unlock",
           "attach_mtx", "attach", "attach_fail", "attach_unref"})

TaskletRefs(g) ==
    (IF g \in scheduled THEN 1 ELSE 0)
    + (IF tpc[g] \notin {"idle", "unlock_passed", "run"} THEN 1 ELSE 0)
    + Cardinality({t \in Threads : pc[t] = "fire_sched" /\ Fired(t) = g})

\* Memory that is about to be used: by the tasklet until it has dropped its
\* reference, by a system call, or through a pointer from elsewhere.
InUse(g) ==
    \/ g \in fds \/ g \in scheduled
    \/ tpc[g] \notin {"idle", "run"}
    \/ \E t \in Threads : task_cmgroup[t] = g \/ cg[t] = g
    \/ \E o \in Objects : obj_cmgroup[o] = g

(* Properties.                                                             *)

\* Every reference is counted, and no other: nothing is leaked or dropped
\* twice on any path through attaching, associating and firing the tasklet.
KrefExact ==
    \A g \in Groups :
        kref[g] = (IF g \in fds THEN 1 ELSE 0)
                  + Cardinality({t \in Threads : task_cmgroup[t] = g})
                  + Cardinality({o \in Objects : obj_cmgroup[o] = g})
                  + Cardinality({t \in Threads : cg[t] = g /\ Referring(t)})
                  + TaskletRefs(g)

\* Nobody is going to touch a group that has been released.
NoUseAfterFree == \A g \in Groups : InUse(g) => memory[g] = "live"

\* A spinlock taken through cmgroup->lock is the one that is released: the
\* pointer does not change in between.
PointerStable ==
    \A g \in Groups :
        /\ tpc[g] \in {"body", "unlock", "unlock_recheck", "unlock_passed"}
            => holder[lockptr[g]] = g
        /\ \A t \in Threads :
            cg[t] = g /\ In(t, {"cv_unlock", "wait_unlock"}) => holder[lockptr[g]] = t

\* A group and an object are attached to each other or not at all, and a group
\* to one object at most; only while it is being destroyed the object still
\* points to the group.
OneToOne ==
    \A g \in Groups, o \in Objects :
        /\ attached[g] = o => obj_cmgroup[o] = g
        /\ obj_cmgroup[o] = g /\ object[o] = "open" => attached[g] = o
        /\ lockptr[g] = o <=> (attached[g] = o /\ o \in Epolls)

\* The memory of a group is not freed while its tasklet is executing.
TaskletMemory == \A g \in Groups : tpc[g] # "idle" => memory[g] # "freed"
=============================================================================

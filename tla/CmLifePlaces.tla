---------------------------- MODULE CmLifePlaces ----------------------------
(***************************************************************************)
(* The life of a group, for any number of groups, objects and threads.     *)
(*                                                                         *)
(* The inductive invariant is built in layers, each one inductive given    *)
(* those before it: types, where each thread is and what its locals hold   *)
(* (Places, proved here); who has the mutexes, and what is attached to     *)
(* what (Attached, in CmLifeHeld); who owns tasklet_active (Owned) and who *)
(* has the spinlocks (Locked, both in CmLifeLocked); the count of          *)
(* references (Exact) and the memory (Counted, both in CmLifeProofs).      *)
(***************************************************************************)
EXTENDS CmLife, FiniteSetTheorems, TLAPS

-----------------------------------------------------------------------------
(* Where a thread is.                                                      *)

\* Thread t is in cmgroup_dissociate.
InDissociate(t) == pc[t] = "dissoc_unref" \/ (pc[t] \in FirePcs /\ ret[t] = "dissoc_unref")

\* Where the system call of a thread goes on when fire_tasklet, the lock-out and
\* cmgroup_dissociate have returned.
Place(t) ==
    LET back == IF pc[t] \in FirePcs \cup LockoutPcs THEN ret[t] ELSE pc[t]
    IN  IF back = "dissoc_unref" THEN after[t] ELSE back

RefPlaces == {"assoc", "assoc_set", "fetch_set", "cv_mtx", "cv_lock", "cv_unlock",
              "attach_mtx", "attach", "attach_fail", "attach_unref"}
DetachPlaces == {"detach_mtx", "detach", "detach_end"}
AttachedPlaces == DetachPlaces \cup {"attach_end", "fetch_set", "wait_lock", "wait_unlock"}
ObjectPlaces == AttachedPlaces \cup {"attach_mtx", "attach", "attach_fail", "attach_unref"}
AllPlaces == RefPlaces \cup AttachedPlaces \cup {"idle"}

\* Thread t is at place p, or in a routine called from there.
At(t, p) ==
    /\ p \in AllPlaces
    /\ \/ pc[t] = p /\ (p \in {"assoc_set", "fetch_set"} => task_cmgroup[t] = NULL)
       \/ pc[t] \in FirePcs /\ ret[t] = p /\ p = "idle" /\ task_cmgroup[t] \in Groups
       \/ pc[t] \in FirePcs /\ ret[t] = p
             /\ p \in {"cv_unlock", "attach_end", "attach_fail", "detach_end"}
       \/ pc[t] \in {"lockout", "lockout_lock"} /\ ret[t] = p /\ p \in {"attach", "detach"}
       \/ pc[t] = "unlockout" /\ ret[t] = p /\ p \in {"attach_end", "attach_fail", "detach_end"}
       \/ InDissociate(t) /\ after[t] = p /\ p \in {"idle", "assoc_set", "fetch_set"}
             /\ task_cmgroup[t] \in Groups

\* The local variables of its call hold what it needs there.
LocalsOK(t, p) ==
    /\ IF p = "idle" THEN cg[t] = NULL ELSE cg[t] \in Groups
    /\ IF p \in ObjectPlaces THEN ob[t] \in Objects ELSE ob[t] = NULL
    /\ p \in {"wait_lock", "wait_unlock"} => ob[t] \in Ioctxs

PlaceOK(t) == At(t, Place(t)) /\ LocalsOK(t, Place(t))

\* Types, but for kref, which is a natural number because it counts.
TypesOK ==
    /\ memory \in [Groups -> {"unused", "live", "free_work", "freed"}]
    /\ kref \in [Groups -> Int]
    /\ fds \subseteq Groups
    /\ attached \in [Groups -> Objects \cup {NULL}]
    /\ lockptr \in [Groups -> Locks]
    /\ attached_mtx \in [Groups -> Threads \cup {NULL}]
    /\ tasklet_active \subseteq Groups
    /\ scheduled \subseteq Groups
    /\ tpc \in [Groups -> TaskletPcs]
    /\ holder \in [Locks -> Holders \cup {NULL}]
    /\ object \in [Objects -> {"open", "dying", "freed"}]
    /\ obj_cmgroup \in [Objects -> Groups \cup {NULL}]
    /\ task_cmgroup \in [Threads -> Groups \cup {NULL}]
    /\ pc \in [Threads -> Pcs]
    /\ cg \in [Threads -> Groups \cup {NULL}]
    /\ ob \in [Threads -> Objects \cup {NULL}]
    /\ ret \in [Threads -> Pcs]
    /\ after \in [Threads -> Pcs]
    /\ setup \in Setups

Places == TypesOK /\ \A t \in Threads : PlaceOK(t)

-----------------------------------------------------------------------------
(* What the next step of a thread needs is there.                          *)

\* A thread is at one place only.
LEMMA OnePlace ==
    ASSUME NEW t \in Threads, NEW p
    PROVE  (At(t, p) => Place(t) = p) /\ (At(t, p)' => Place(t)' = p)
  BY DEF At, Place, InDissociate, FirePcs, LockoutPcs, AllPlaces, RefPlaces, AttachedPlaces,
         DetachPlaces

\* Outside the routines it is where its program counter says.
LEMMA PlainPlace ==
    ASSUME NEW t \in Threads, PlaceOK(t), pc[t] \in AllPlaces
    PROVE  At(t, pc[t]) /\ LocalsOK(t, pc[t]) /\ Place(t) = pc[t]
  BY DEF PlaceOK, Place, FirePcs, LockoutPcs, AllPlaces, RefPlaces, AttachedPlaces, DetachPlaces

\* The group and the object that a step is about are there.
LEMMA Here ==
    ASSUME NEW t \in Threads, PlaceOK(t)
    PROVE  /\ pc[t] \in FirePcs => Fired(t) \in Groups
           /\ pc[t] = "dissoc_unref" => task_cmgroup[t] \in Groups /\ after[t] \in Pcs
           /\ pc[t] \in (LockoutPcs \cup AllPlaces) \ {"idle"} => cg[t] \in Groups
           /\ pc[t] \in ObjectPlaces => ob[t] \in Objects
  BY DEF PlaceOK, LocalsOK, At, Place, InDissociate, Fired, Pcs, FirePcs, LockoutPcs, AllPlaces,
         RefPlaces, ObjectPlaces, AttachedPlaces, DetachPlaces

\* The routines return to where they can be called from.
LEMMA Back ==
    ASSUME NEW t \in Threads, PlaceOK(t)
    PROVE  /\ pc[t] \in FirePcs => ret[t] \in {"idle", "dissoc_unref", "cv_unlock", "attach_end",
                                               "attach_fail", "detach_end"}
           /\ pc[t] = "lockout_lock" => ret[t] \in {"attach", "detach"}
           /\ pc[t] = "dissoc_unref" => after[t] \in {"idle", "assoc_set", "fetch_set"}
  BY DEF PlaceOK, At, InDissociate, FirePcs, AllPlaces, RefPlaces, AttachedPlaces, DetachPlaces

-----------------------------------------------------------------------------
(* Types.                                                                  *)

\* The steps of a call keep the types.
LEMMA ThreadTypes ==
    ASSUME TypesOK, UNCHANGED setup, NEW t \in Threads, PlaceOK(t), ThreadStep(t)
    PROVE  TypesOK'
  <1> USE DEF TypesOK, Pcs, FirePcs, LockoutPcs, Goto, groupVars, attachVars, taskletVars, callVars
  <1>1. CASE FireCas(t)
    BY <1>1, Here DEF FireCas, Return, cmgroup_ref
  <1>2. CASE FireSchedule(t)
    BY <1>2, Here DEF FireSchedule, Return
  <1>3. CASE Opening(t)
    BY <1>3 DEF Opening, Call
  <1>4. CASE DissociateUnref(t)
    BY <1>4, Here DEF DissociateUnref, cmgroup_unref
  <1>5. CASE sys_cmgroup_dissociate(t)
    BY <1>5 DEF sys_cmgroup_dissociate, cmgroup_dissociate, Call
  <1>6. CASE AssociateSame(t)
    BY <1>6, Here
    DEF AssociateSame, Exit, cmgroup_unref, AllPlaces, RefPlaces, AttachedPlaces, DetachPlaces
  <1>7. CASE AssociateOther(t)
    BY <1>7 DEF AssociateOther, cmgroup_dissociate, Call
  <1>8. CASE AssociateSet(t)
    BY <1>8 DEF AssociateSet, Exit
  <1>9. CASE FetchSet(t)
    BY <1>9 DEF FetchSet, Exit, Release, Locks
  <1>10. CASE WaitLock(t)
    BY <1>10, Zenon DEF WaitLock, Acquire, Holders
  <1>11. CASE WaitUnlock(t)
    BY <1>11, Zenon DEF WaitUnlock, Exit, Release
  <1>12. CASE SetCvMutex(t)
    BY <1>12, Here DEF SetCvMutex, MutexLock, AllPlaces, RefPlaces, AttachedPlaces, DetachPlaces
  <1>13. CASE SetCvLock(t)
    BY <1>13, Here
    DEF SetCvLock, Call, Acquire, AllPlaces, RefPlaces, AttachedPlaces, DetachPlaces, Holders
  <1>14. CASE SetCvUnlock(t)
    BY <1>14, Here
    DEF SetCvUnlock, Exit, cmgroup_unref, Release, MutexUnlock, AllPlaces, RefPlaces,
        AttachedPlaces, DetachPlaces
  <1>15. CASE cmgroup_lockout_tasklet(t)
    BY <1>15, Here
    DEF cmgroup_lockout_tasklet, AllPlaces, RefPlaces, AttachedPlaces, DetachPlaces
  <1>16. CASE LockoutLock(t)
    BY <1>16 DEF LockoutLock, Return
  <1>17. CASE cmgroup_unlockout_tasklet(t)
    BY <1>17 DEF cmgroup_unlockout_tasklet
  <1>18. CASE AttachRefused(t)
    BY <1>18 DEF AttachRefused
  <1>19. CASE AttachBegin(t)
    BY <1>19, Here
    DEF AttachBegin, Call, MutexLock, AllPlaces, RefPlaces, AttachedPlaces, DetachPlaces
  <1>20. CASE AttachDo(t)
    BY <1>20, Here
    DEF AttachDo, Call, AllPlaces, RefPlaces, AttachedPlaces, DetachPlaces, ObjectPlaces, Locks,
        Objects
  <1>21. CASE AttachEnd(t)
    BY <1>21, Zenon DEF AttachEnd, Exit, MutexUnlock
  <1>22. CASE AttachFail(t)
    BY <1>22, Zenon DEF AttachFail, MutexUnlock
  <1>23. CASE AttachUnref(t)
    BY <1>23, Here
    DEF AttachUnref, Exit, cmgroup_unref, AllPlaces, RefPlaces, AttachedPlaces, DetachPlaces
  <1>24. CASE DetachBegin(t)
    BY <1>24, Here
    DEF DetachBegin, Call, MutexLock, AllPlaces, RefPlaces, AttachedPlaces, DetachPlaces
  <1>25. CASE DetachDo(t)
    BY <1>25, Here
    DEF DetachDo, Call, AllPlaces, RefPlaces, AttachedPlaces, DetachPlaces, ObjectPlaces, Locks,
        Objects
  <1>26. CASE DetachEnd(t)
    BY <1>26, Here
    DEF DetachEnd, Exit, cmgroup_unref, MutexUnlock, AllPlaces, RefPlaces, AttachedPlaces,
        DetachPlaces, ObjectPlaces, Locks, Objects
  <1> HIDE DEF TypesOK
  <1> QED
    BY <1>1, <1>2, <1>3, <1>4, <1>5, <1>6, <1>7, <1>8, <1>9, <1>10, <1>11, <1>12, <1>13,
       <1>14, <1>15, <1>16, <1>17, <1>18, <1>19, <1>20, <1>21, <1>22, <1>23, <1>24, <1>25,
       <1>26, Zenon DEF ThreadStep

\* So does the beginning of a call.
LEMMA CallTypes ==
    ASSUME TypesOK, UNCHANGED setup, NEW t \in Threads, CallStep(t)
    PROVE  TypesOK'
  <1> USE DEF TypesOK, Pcs, FirePcs, LockoutPcs, Goto, groupVars, attachVars, taskletVars, callVars
  <1>1. ASSUME NEW g \in Groups, cmgroup_newgroup(t, g) PROVE TypesOK'
    BY <1>1 DEF cmgroup_newgroup
  <1>2. ASSUME NEW g \in Groups, cmgroup_fop_release(t, g) PROVE TypesOK'
    BY <1>2 DEF cmgroup_fop_release, cmgroup_unref
  <1>3. ASSUME NEW g \in Groups, sys_cmgroup_associate(t, g) PROVE TypesOK'
    BY <1>3 DEF sys_cmgroup_associate, cmgroup_from_fd, cmgroup_ref
  <1>4. ASSUME NEW g \in Groups, cmgroup_set_concurrency_value(t, g) PROVE TypesOK'
    BY <1>4 DEF cmgroup_set_concurrency_value, cmgroup_from_fd, cmgroup_ref
  <1>5. ASSUME NEW g \in Groups, NEW o \in Objects, Attach(t, g, o) PROVE TypesOK'
    BY <1>5 DEF Attach, cmgroup_from_fd, cmgroup_ref
  <1>6. ASSUME NEW o \in Objects, FetchAssociate(t, o) PROVE TypesOK'
    BY <1>6
    DEF FetchAssociate, cmgroup_ref, cmgroup_dissociate, Acquire, Call, Locks, Holders, Objects
  <1>7. ASSUME NEW o \in Objects, FetchSame(t, o) PROVE TypesOK'
    BY <1>7 DEF FetchSame
  <1>8. ASSUME NEW o \in Objects, Destroy(t, o) PROVE TypesOK'
    BY <1>8 DEF Destroy
  <1> HIDE DEF TypesOK
  <1> QED
    BY <1>1, <1>2, <1>3, <1>4, <1>5, <1>6, <1>7, <1>8, Zenon DEF CallStep

\* So do the steps of the tasklet.
LEMMA TaskletTypes ==
    ASSUME TypesOK, UNCHANGED setup, NEW g \in Groups, TaskletStep(g) \/ __cmgroup_free_work(g)
    PROVE  TypesOK'
  <1> USE DEF TypesOK, TaskletPcs, TaskletGoto, groupVars, attachVars, taskletVars, callVars
  <1>1. CASE TaskletStart(g)
    BY <1>1 DEF TaskletStart
  <1>2. CASE TaskletLock(g)
    BY <1>2 DEF TaskletLock, Acquire, Locks, Holders
  <1>3. CASE TaskletClear(g)
    BY <1>3 DEF TaskletClear
  <1>4. CASE TaskletHandOver(g)
    BY <1>4 DEF TaskletHandOver
  <1>5. CASE TaskletUnlock(g)
    BY <1>5 DEF TaskletUnlock, Release
  <1>6. CASE TaskletGiveUp(g)
    BY <1>6 DEF TaskletGiveUp
  <1>7. CASE TaskletReassert(g)
    BY <1>7 DEF TaskletReassert
  <1>8. CASE TaskletUnref(g)
    BY <1>8 DEF TaskletUnref, cmgroup_unref
  <1>9. CASE TaskletReturn(g)
    BY <1>9 DEF TaskletReturn
  <1>10. CASE __cmgroup_free_work(g)
    BY <1>10 DEF __cmgroup_free_work
  <1> HIDE DEF TypesOK
  <1> QED
    BY <1>1, <1>2, <1>3, <1>4, <1>5, <1>6, <1>7, <1>8, <1>9, <1>10, Zenon DEF TaskletStep

-----------------------------------------------------------------------------
(* Places.                                                                 *)

\* Nothing of thread u has changed.
Rests(u) ==
    /\ Place(u)' = Place(u) /\ cg'[u] = cg[u] /\ ob'[u] = ob[u]
    /\ pc'[u] = pc[u] /\ ret'[u] = ret[u] /\ after'[u] = after[u]
    /\ task_cmgroup'[u] = task_cmgroup[u]

\* Thread t takes the step, the others do not.
Aside(t) == \A u \in Threads \ {t} : Rests(u)

\* A thread changes no local variables but its own.
LEMMA OneThread ==
    ASSUME TypesOK, NEW t \in Threads, ThreadStep(t) \/ CallStep(t)
    PROVE  Aside(t)
  <1> DEFINE Others ==
        \A u \in Threads \ {t} :
           /\ pc'[u] = pc[u] /\ ret'[u] = ret[u] /\ after'[u] = after[u]
           /\ cg'[u] = cg[u] /\ ob'[u] = ob[u] /\ task_cmgroup'[u] = task_cmgroup[u]
  <1> pc \in [Threads -> Pcs] /\ ret \in [Threads -> Pcs] /\ after \in [Threads -> Pcs]
      /\ cg \in [Threads -> Groups \cup {NULL}] /\ ob \in [Threads -> Objects \cup {NULL}]
      /\ task_cmgroup \in [Threads -> Groups \cup {NULL}]
    BY DEF TypesOK
  <1> USE DEF Goto, Call, Return, Exit, cmgroup_dissociate, cmgroup_from_fd, callVars
  <1>1. ASSUME \/ FireCas(t) \/ FireSchedule(t) \/ Opening(t) \/ DissociateUnref(t)
               \/ sys_cmgroup_dissociate(t)
        PROVE  Others
    BY <1>1, Zenon DEF FireCas, FireSchedule, Opening, DissociateUnref, sys_cmgroup_dissociate
  <1>2. ASSUME \/ AssociateSame(t) \/ AssociateOther(t) \/ AssociateSet(t) \/ FetchSet(t)
               \/ WaitLock(t) \/ WaitUnlock(t)
        PROVE  Others
    BY <1>2, Zenon
    DEF AssociateSame, AssociateOther, AssociateSet, FetchSet, WaitLock, WaitUnlock
  <1>3. ASSUME \/ SetCvMutex(t) \/ SetCvLock(t) \/ SetCvUnlock(t)
               \/ cmgroup_lockout_tasklet(t) \/ LockoutLock(t)
               \/ cmgroup_unlockout_tasklet(t)
        PROVE  Others
    BY <1>3, Zenon
    DEF SetCvMutex, SetCvLock, SetCvUnlock, cmgroup_lockout_tasklet, LockoutLock,
        cmgroup_unlockout_tasklet
  <1>4. ASSUME \/ AttachRefused(t) \/ AttachBegin(t) \/ AttachDo(t) \/ AttachEnd(t)
               \/ AttachFail(t) \/ AttachUnref(t)
        PROVE  Others
    BY <1>4, Zenon DEF AttachRefused, AttachBegin, AttachDo, AttachEnd, AttachFail, AttachUnref
  <1>5. ASSUME \/ DetachBegin(t) \/ DetachDo(t) \/ DetachEnd(t)
        PROVE  Others
    BY <1>5, Zenon DEF DetachBegin, DetachDo, DetachEnd
  <1>6. ASSUME NEW g \in Groups,
               \/ cmgroup_newgroup(t, g) \/ cmgroup_fop_release(t, g)
               \/ sys_cmgroup_associate(t, g) \/ cmgroup_set_concurrency_value(t, g)
               \/ \E o \in Objects : Attach(t, g, o)
        PROVE  Others
    BY <1>6, Zenon
    DEF cmgroup_newgroup, cmgroup_fop_release, sys_cmgroup_associate,
        cmgroup_set_concurrency_value, Attach
  <1>7. ASSUME NEW o \in Objects, FetchAssociate(t, o)
        PROVE  Others
    BY <1>7 DEF FetchAssociate
  <1>8. ASSUME NEW o \in Objects, FetchSame(t, o) \/ Destroy(t, o)
        PROVE  Others
    BY <1>8, Zenon DEF FetchSame, Destroy
  <1> HIDE DEF Others
  <1>9. Others
    BY <1>1, <1>2, <1>3, <1>4, <1>5, <1>6, <1>7, <1>8, Zenon DEF ThreadStep, CallStep
  <1> QED
    BY <1>9 DEF Others, Aside, Rests, Place

\* Where a thread owns tasklet_active.
OwnerPcs == {"fire_sched", "lockout_lock", "attach", "detach", "unlockout"}

\* Thread t has gone from l to m.
Moved(t, l, m) ==
    /\ Place(t) = l /\ Place(t)' = m /\ PlaceOK(t)'
    /\ pc[t] # "fire_sched" /\ pc'[t] \notin {"fire_sched", "attach", "detach"}
    /\ l \notin {"attach", "detach"} => pc[t] \notin OwnerPcs /\ pc'[t] \notin OwnerPcs

\* Thread t has called a routine, is inside it, or has returned to where it was.
Stays(t) ==
    /\ Place(t)' = Place(t) /\ PlaceOK(t)' /\ cg' = cg /\ ob' = ob
    /\ pc'[t] \in {"attach", "detach"} => pc[t] = "lockout_lock"

\* Whoever is at a place, with the local variables that it needs, is in order.
LEMMA Arrived ==
    ASSUME NEW t \in Threads
    PROVE  \A p : At(t, p)' /\ LocalsOK(t, p)' => Place(t)' = p /\ PlaceOK(t)'
  BY OnePlace DEF PlaceOK

\* Association: from which place to which a call goes.
LEMMA MovesAssociate ==
    ASSUME TypesOK, NEW t \in Threads, PlaceOK(t)
    PROVE  /\ \A g \in Groups : sys_cmgroup_associate(t, g) => Moved(t, "idle", "assoc")
           /\ AssociateSame(t) => Moved(t, "assoc", "idle")
           /\ AssociateOther(t) => Moved(t, "assoc", "assoc_set")
           /\ AssociateSet(t) => (Moved(t, "assoc", "idle") \/ Moved(t, "assoc_set", "idle"))
  <1> /\ pc \in [Threads -> Pcs] /\ ret \in [Threads -> Pcs] /\ after \in [Threads -> Pcs]
      /\ cg \in [Threads -> Groups \cup {NULL}] /\ ob \in [Threads -> Objects \cup {NULL}]
      /\ task_cmgroup \in [Threads -> Groups \cup {NULL}]
      /\ fds \subseteq Groups
    BY DEF TypesOK
  <1> /\ pc[t] \in AllPlaces => LocalsOK(t, pc[t]) /\ Place(t) = pc[t]
      /\ \A p : At(t, p)' /\ LocalsOK(t, p)' => Place(t)' = p /\ PlaceOK(t)'
    BY PlainPlace, Arrived
  <1> USE DEF Moved, OwnerPcs, Goto, At, LocalsOK, InDissociate, FirePcs, LockoutPcs, AllPlaces, RefPlaces,
             ObjectPlaces, AttachedPlaces, DetachPlaces
  <1>1. ASSUME NEW g \in Groups, sys_cmgroup_associate(t, g)
        PROVE  Moved(t, "idle", "assoc")
    BY <1>1 DEF sys_cmgroup_associate, cmgroup_from_fd
  <1>2. ASSUME AssociateSame(t)
        PROVE  Moved(t, "assoc", "idle")
    BY <1>2 DEF AssociateSame, Exit
  <1>3. ASSUME AssociateOther(t)
        PROVE  Moved(t, "assoc", "assoc_set")
    BY <1>3 DEF AssociateOther, cmgroup_dissociate, Call
  <1>4. ASSUME AssociateSet(t)
        PROVE  Moved(t, "assoc", "idle") \/ Moved(t, "assoc_set", "idle")
    BY <1>4 DEF AssociateSet, Exit
  <1> HIDE DEF Moved
  <1> QED
    BY <1>1, <1>2, <1>3, <1>4, Zenon

\* Fetching events.
LEMMA MovesFetch ==
    ASSUME TypesOK, NEW t \in Threads, PlaceOK(t)
    PROVE  /\ \A o \in Objects : FetchAssociate(t, o) => Moved(t, "idle", "fetch_set")
           /\ \A o \in Objects : FetchSame(t, o) => Moved(t, "idle", "wait_lock")
           /\ FetchSet(t) => Moved(t, "fetch_set", IF ob[t] \in Epolls THEN "idle" ELSE "wait_lock")
           /\ WaitLock(t) => Moved(t, "wait_lock", "wait_unlock")
           /\ WaitUnlock(t) => Moved(t, "wait_unlock", "idle")
  <1> /\ pc \in [Threads -> Pcs] /\ ret \in [Threads -> Pcs] /\ after \in [Threads -> Pcs]
      /\ cg \in [Threads -> Groups \cup {NULL}] /\ ob \in [Threads -> Objects \cup {NULL}]
      /\ task_cmgroup \in [Threads -> Groups \cup {NULL}]
      /\ obj_cmgroup \in [Objects -> Groups \cup {NULL}]
    BY DEF TypesOK
  <1> /\ pc[t] \in AllPlaces => LocalsOK(t, pc[t]) /\ Place(t) = pc[t]
      /\ \A p : At(t, p)' /\ LocalsOK(t, p)' => Place(t)' = p /\ PlaceOK(t)'
    BY PlainPlace, Arrived
  <1> USE DEF Moved, OwnerPcs, Goto, At, LocalsOK, InDissociate, FirePcs, LockoutPcs, AllPlaces, RefPlaces,
             ObjectPlaces, AttachedPlaces, DetachPlaces
  <1>1. ASSUME NEW o \in Objects, FetchAssociate(t, o)
        PROVE  Moved(t, "idle", "fetch_set")
    <2>1. CASE task_cmgroup[t] = NULL
      BY <1>1, <2>1, LifeAssumption DEF FetchAssociate, Objects
    <2>2. CASE task_cmgroup[t] # NULL
      BY <1>1, <2>2, LifeAssumption DEF FetchAssociate, cmgroup_dissociate, Call, Objects
    <2> QED
      BY <2>1, <2>2
  <1>2. ASSUME NEW o \in Objects, FetchSame(t, o)
        PROVE  Moved(t, "idle", "wait_lock")
    BY <1>2, LifeAssumption DEF FetchSame, Objects
  <1>3. ASSUME FetchSet(t)
        PROVE  Moved(t, "fetch_set", IF ob[t] \in Epolls THEN "idle" ELSE "wait_lock")
    BY <1>3, LifeAssumption DEF FetchSet, Exit, Objects
  <1>4. ASSUME WaitLock(t)
        PROVE  Moved(t, "wait_lock", "wait_unlock")
    BY <1>4 DEF WaitLock, callVars
  <1>5. ASSUME WaitUnlock(t)
        PROVE  Moved(t, "wait_unlock", "idle")
    BY <1>5 DEF WaitUnlock, Exit
  <1> HIDE DEF Moved
  <1> QED
    BY <1>1, <1>2, <1>3, <1>4, <1>5, Zenon

\* Setting the concurrency value.
LEMMA MovesSetCv ==
    ASSUME TypesOK, NEW t \in Threads, PlaceOK(t)
    PROVE  /\ \A g \in Groups : cmgroup_set_concurrency_value(t, g) => Moved(t, "idle", "cv_mtx")
           /\ SetCvMutex(t) => Moved(t, "cv_mtx", "cv_lock")
           /\ SetCvLock(t) => Moved(t, "cv_lock", "cv_unlock")
           /\ SetCvUnlock(t) => Moved(t, "cv_unlock", "idle")
  <1> /\ pc \in [Threads -> Pcs] /\ ret \in [Threads -> Pcs] /\ after \in [Threads -> Pcs]
      /\ cg \in [Threads -> Groups \cup {NULL}] /\ ob \in [Threads -> Objects \cup {NULL}]
      /\ task_cmgroup \in [Threads -> Groups \cup {NULL}]
      /\ fds \subseteq Groups
    BY DEF TypesOK
  <1> /\ pc[t] \in AllPlaces => LocalsOK(t, pc[t]) /\ Place(t) = pc[t]
      /\ \A p : At(t, p)' /\ LocalsOK(t, p)' => Place(t)' = p /\ PlaceOK(t)'
    BY PlainPlace, Arrived
  <1> USE DEF Moved, OwnerPcs, Goto, At, LocalsOK, InDissociate, FirePcs, LockoutPcs, AllPlaces, RefPlaces,
             ObjectPlaces, AttachedPlaces, DetachPlaces
  <1>1. ASSUME NEW g \in Groups, cmgroup_set_concurrency_value(t, g)
        PROVE  Moved(t, "idle", "cv_mtx")
    BY <1>1 DEF cmgroup_set_concurrency_value, cmgroup_from_fd
  <1>2. ASSUME SetCvMutex(t)
        PROVE  Moved(t, "cv_mtx", "cv_lock")
    BY <1>2 DEF SetCvMutex, callVars
  <1>3. ASSUME SetCvLock(t)
        PROVE  Moved(t, "cv_lock", "cv_unlock")
    BY <1>3 DEF SetCvLock, Call
  <1>4. ASSUME SetCvUnlock(t)
        PROVE  Moved(t, "cv_unlock", "idle")
    BY <1>4 DEF SetCvUnlock, Exit
  <1> HIDE DEF Moved
  <1> QED
    BY <1>1, <1>2, <1>3, <1>4, Zenon

\* Attaching.
LEMMA MovesAttach ==
    ASSUME TypesOK, NEW t \in Threads, PlaceOK(t)
    PROVE  /\ \A g \in Groups, o \in Objects : Attach(t, g, o) => Moved(t, "idle", "attach_mtx")
           /\ AttachRefused(t) => Moved(t, "attach_mtx", "attach_unref")
           /\ AttachBegin(t) => Moved(t, "attach_mtx", "attach")
           /\ AttachDo(t) => Moved(t, "attach", IF obj_cmgroup[ob[t]] = NULL THEN "attach_end" ELSE "attach_fail")
           /\ AttachEnd(t) => Moved(t, "attach_end", "idle")
           /\ AttachFail(t) => Moved(t, "attach_fail", "attach_unref")
           /\ AttachUnref(t) => Moved(t, "attach_unref", "idle")
  <1> /\ pc \in [Threads -> Pcs] /\ ret \in [Threads -> Pcs] /\ after \in [Threads -> Pcs]
      /\ cg \in [Threads -> Groups \cup {NULL}] /\ ob \in [Threads -> Objects \cup {NULL}]
      /\ task_cmgroup \in [Threads -> Groups \cup {NULL}]
      /\ fds \subseteq Groups
    BY DEF TypesOK
  <1> /\ pc[t] \in AllPlaces => LocalsOK(t, pc[t]) /\ Place(t) = pc[t]
      /\ \A p : At(t, p)' /\ LocalsOK(t, p)' => Place(t)' = p /\ PlaceOK(t)'
    BY PlainPlace, Arrived
  <1> USE DEF Moved, OwnerPcs, Goto, At, LocalsOK, InDissociate, FirePcs, LockoutPcs, AllPlaces, RefPlaces,
             ObjectPlaces, AttachedPlaces, DetachPlaces
  <1>1. ASSUME NEW g \in Groups, NEW o \in Objects, Attach(t, g, o)
        PROVE  Moved(t, "idle", "attach_mtx")
    BY <1>1, LifeAssumption DEF Attach, cmgroup_from_fd, Objects
  <1>2. ASSUME AttachRefused(t)
        PROVE  Moved(t, "attach_mtx", "attach_unref")
    BY <1>2 DEF AttachRefused, callVars
  <1>3. ASSUME AttachBegin(t)
        PROVE  Moved(t, "attach_mtx", "attach")
    BY <1>3 DEF AttachBegin, Call
  <1>4. ASSUME AttachDo(t)
        PROVE  Moved(t, "attach", IF obj_cmgroup[ob[t]] = NULL THEN "attach_end" ELSE "attach_fail")
    BY <1>4 DEF AttachDo, Call
  <1>5. ASSUME AttachEnd(t)
        PROVE  Moved(t, "attach_end", "idle")
    BY <1>5 DEF AttachEnd, Exit
  <1>6. ASSUME AttachFail(t)
        PROVE  Moved(t, "attach_fail", "attach_unref")
    BY <1>6 DEF AttachFail, callVars
  <1>7. ASSUME AttachUnref(t)
        PROVE  Moved(t, "attach_unref", "idle")
    BY <1>7 DEF AttachUnref, Exit
  <1> HIDE DEF Moved
  <1> QED
    BY <1>1, <1>2, <1>3, <1>4, <1>5, <1>6, <1>7, Zenon

\* Detaching.
LEMMA MovesDetach ==
    ASSUME TypesOK, NEW t \in Threads, PlaceOK(t)
    PROVE  /\ \A o \in Objects : Destroy(t, o) /\ obj_cmgroup[o] # NULL => Moved(t, "idle", "detach_mtx")
           /\ DetachBegin(t) => Moved(t, "detach_mtx", "detach")
           /\ DetachDo(t) => Moved(t, "detach", "detach_end")
           /\ DetachEnd(t) => Moved(t, "detach_end", "idle")
  <1> /\ pc \in [Threads -> Pcs] /\ ret \in [Threads -> Pcs] /\ after \in [Threads -> Pcs]
      /\ cg \in [Threads -> Groups \cup {NULL}] /\ ob \in [Threads -> Objects \cup {NULL}]
      /\ task_cmgroup \in [Threads -> Groups \cup {NULL}]
      /\ obj_cmgroup \in [Objects -> Groups \cup {NULL}]
    BY DEF TypesOK
  <1> /\ pc[t] \in AllPlaces => LocalsOK(t, pc[t]) /\ Place(t) = pc[t]
      /\ \A p : At(t, p)' /\ LocalsOK(t, p)' => Place(t)' = p /\ PlaceOK(t)'
    BY PlainPlace, Arrived
  <1> USE DEF Moved, OwnerPcs, Goto, At, LocalsOK, InDissociate, FirePcs, LockoutPcs, AllPlaces, RefPlaces,
             ObjectPlaces, AttachedPlaces, DetachPlaces
  <1>1. ASSUME NEW o \in Objects, Destroy(t, o), obj_cmgroup[o] # NULL
        PROVE  Moved(t, "idle", "detach_mtx")
    BY <1>1, LifeAssumption DEF Destroy, Objects
  <1>2. ASSUME DetachBegin(t)
        PROVE  Moved(t, "detach_mtx", "detach")
    BY <1>2 DEF DetachBegin, Call
  <1>3. ASSUME DetachDo(t)
        PROVE  Moved(t, "detach", "detach_end")
    BY <1>3 DEF DetachDo, Call
  <1>4. ASSUME DetachEnd(t)
        PROVE  Moved(t, "detach_end", "idle")
    BY <1>4 DEF DetachEnd, Exit
  <1> HIDE DEF Moved
  <1> QED
    BY <1>1, <1>2, <1>3, <1>4, Zenon

\* The routines: to where a call goes on does not change.
LEMMA StaysInPlace ==
    ASSUME TypesOK, NEW t \in Threads, PlaceOK(t),
           \/ FireCas(t) \/ FireSchedule(t) \/ Opening(t)
           \/ DissociateUnref(t) \/ sys_cmgroup_dissociate(t)
           \/ cmgroup_lockout_tasklet(t) \/ LockoutLock(t) \/ cmgroup_unlockout_tasklet(t)
    PROVE  Stays(t)
  <1> /\ pc \in [Threads -> Pcs] /\ ret \in [Threads -> Pcs] /\ after \in [Threads -> Pcs]
      /\ cg \in [Threads -> Groups \cup {NULL}] /\ ob \in [Threads -> Objects \cup {NULL}]
      /\ task_cmgroup \in [Threads -> Groups \cup {NULL}]
    BY DEF TypesOK
  <1> setup.opening \subseteq Groups
    BY LifeAssumption DEF TypesOK
  <1> PICK p : Place(t) = p /\ At(t, p) /\ LocalsOK(t, p)
    BY DEF PlaceOK
  <1> At(t, p)' /\ LocalsOK(t, p)' => Place(t)' = p /\ PlaceOK(t)'
    BY Arrived
  <1> USE DEF Stays, Goto, At, LocalsOK, InDissociate, FirePcs, LockoutPcs, AllPlaces,
             RefPlaces, ObjectPlaces, AttachedPlaces, DetachPlaces
  <1>1. CASE FireCas(t)
    BY <1>1 DEF FireCas, Return
  <1>2. CASE FireSchedule(t)
    BY <1>2 DEF FireSchedule, Return
  <1>3. CASE Opening(t)
    BY <1>3 DEF Opening, Call
  <1>4. CASE DissociateUnref(t)
    BY <1>4 DEF DissociateUnref
  <1>5. CASE sys_cmgroup_dissociate(t)
    BY <1>5 DEF sys_cmgroup_dissociate, cmgroup_dissociate, Call
  <1>6. CASE cmgroup_lockout_tasklet(t)
    BY <1>6 DEF cmgroup_lockout_tasklet, callVars
  <1>7. CASE LockoutLock(t)
    BY <1>7 DEF LockoutLock, Return
  <1>8. CASE cmgroup_unlockout_tasklet(t)
    BY <1>8 DEF cmgroup_unlockout_tasklet, callVars
  <1> HIDE DEF Stays
  <1> QED
    BY <1>1, <1>2, <1>3, <1>4, <1>5, <1>6, <1>7, <1>8, Zenon

\* When the local variables are what they were, nobody has moved.
LEMMA AllRest ==
    ASSUME UNCHANGED <<callVars, pc, task_cmgroup>>, NEW u \in Threads
    PROVE  Rests(u)
  BY DEF Rests, Place, callVars

\* Who has not moved is still in order.
LEMMA RestsInPlace ==
    ASSUME NEW u \in Threads, PlaceOK(u), Rests(u)
    PROVE  PlaceOK(u)'
  <1> PICK p : Place(u) = p /\ Place(u)' = p /\ At(u, p) /\ LocalsOK(u, p)
    BY DEF PlaceOK, Rests
  <1>1. At(u, p)' /\ LocalsOK(u, p)'
    BY DEF Rests, At, InDissociate, LocalsOK
  <1> QED
    BY <1>1 DEF PlaceOK

\* A step of a thread leaves it in order.
LEMMA MoverInPlace ==
    ASSUME TypesOK, NEW t \in Threads, PlaceOK(t), ThreadStep(t) \/ CallStep(t)
    PROVE  PlaceOK(t)'
  <1>1. ASSUME NEW l, NEW m, Moved(t, l, m) PROVE PlaceOK(t)'
    BY <1>1, Zenon DEF Moved
  <1>2. ASSUME Stays(t) PROVE PlaceOK(t)'
    BY <1>2, Zenon DEF Stays
  <1>3. ASSUME NEW g \in Groups, cmgroup_newgroup(t, g) \/ cmgroup_fop_release(t, g)
        PROVE  PlaceOK(t)'
    <2>1. UNCHANGED <<callVars, pc, task_cmgroup>>
      BY <1>3, Zenon DEF cmgroup_newgroup, cmgroup_fop_release
    <2> QED
      BY <2>1, AllRest, RestsInPlace
  <1>4. ASSUME NEW o \in Objects, Destroy(t, o), obj_cmgroup[o] = NULL
        PROVE  PlaceOK(t)'
    <2>1. UNCHANGED <<callVars, pc, task_cmgroup>>
      BY <1>4 DEF Destroy, callVars
    <2> QED
      BY <2>1, AllRest, RestsInPlace
  <1> QED
    BY <1>1, <1>2, <1>3, <1>4, MovesAssociate, MovesFetch, MovesSetCv, MovesAttach, MovesDetach,
       StaysInPlace, Zenon DEF ThreadStep, CallStep

\* A step of a tasklet moves no thread.
LEMMA TaskletAside ==
    ASSUME NEW g \in Groups, TaskletStep(g) \/ __cmgroup_free_work(g)
    PROVE  \A u \in Threads : Rests(u)
  <1>1. UNCHANGED <<callVars, pc, task_cmgroup>>
    BY Zenon DEF TaskletStep, TaskletStart, TaskletLock, TaskletClear, TaskletHandOver,
         TaskletUnlock, TaskletGiveUp, TaskletReassert, TaskletUnref, TaskletReturn,
         __cmgroup_free_work
  <1> QED
    BY <1>1, AllRest

\* The first layer: a step of the system leaves every thread in order.
LEMMA StepPlaces ==
    ASSUME Places, [Next]_vars
    PROVE  Places'
  <1> TypesOK /\ \A u \in Threads : PlaceOK(u)
    BY DEF Places
  <1>1. ASSUME NEW t \in Threads, ThreadStep(t) \/ CallStep(t), UNCHANGED setup
        PROVE  Places'
    <2>1. TypesOK'
      BY <1>1, ThreadTypes, CallTypes, Zenon
    <2>2. \A u \in Threads : PlaceOK(u)'
      BY <1>1, MoverInPlace, OneThread, RestsInPlace DEF Aside
    <2> QED
      BY <2>1, <2>2 DEF Places
  <1>2. ASSUME NEW g \in Groups, TaskletStep(g) \/ __cmgroup_free_work(g), UNCHANGED setup
        PROVE  Places'
    <2>1. TypesOK'
      BY <1>2, TaskletTypes, Zenon
    <2>2. \A u \in Threads : PlaceOK(u)'
      BY <1>2, TaskletAside, RestsInPlace
    <2> QED
      BY <2>1, <2>2 DEF Places
  <1>3. CASE UNCHANGED vars
    <2>1. TypesOK'
      BY <1>3 DEF TypesOK, vars, groupVars, attachVars, taskletVars, callVars
    <2>2. \A u \in Threads : PlaceOK(u)'
      BY <1>3, AllRest, RestsInPlace DEF vars
    <2> QED
      BY <2>1, <2>2 DEF Places
  <1> QED
    BY <1>1, <1>2, <1>3 DEF Next, Over

-----------------------------------------------------------------------------
(* The references.                                                         *)

FdRefs(g) == IF g \in fds THEN 1 ELSE 0
RunRefs(g) == (IF g \in scheduled THEN 1 ELSE 0)
              + (IF tpc[g] \notin {"idle", "unlock_passed", "run"} THEN 1 ELSE 0)
TaskRefs(g) == {t \in Threads : task_cmgroup[t] = g}
ObjRefs(g) == {o \in Objects : obj_cmgroup[o] = g}
CallRefs(g) == {t \in Threads : cg[t] = g /\ Place(t) \in RefPlaces}
FireRefs(g) == {t \in Threads : pc[t] = "fire_sched" /\ Fired(t) = g}

Refs(g) == FdRefs(g) + RunRefs(g) + Cardinality(TaskRefs(g)) + Cardinality(ObjRefs(g))
           + Cardinality(CallRefs(g)) + Cardinality(FireRefs(g))

\* One more element ...
LEMMA CardMore ==
    ASSUME NEW S, IsFiniteSet(S), NEW x, x \notin S
    PROVE  Cardinality(S \cup {x}) = Cardinality(S) + 1
  BY FS_AddElement

\* ... and one less.
LEMMA CardLess ==
    ASSUME NEW S, IsFiniteSet(S), NEW x \in S
    PROVE  Cardinality(S \ {x}) = Cardinality(S) - 1
  BY FS_RemoveElement

\* The counts are numbers.
LEMMA RefsFinite ==
    ASSUME NEW g
    PROVE  /\ IsFiniteSet(TaskRefs(g)) /\ Cardinality(TaskRefs(g)) \in Nat
           /\ IsFiniteSet(ObjRefs(g)) /\ Cardinality(ObjRefs(g)) \in Nat
           /\ IsFiniteSet(CallRefs(g)) /\ Cardinality(CallRefs(g)) \in Nat
           /\ IsFiniteSet(FireRefs(g)) /\ Cardinality(FireRefs(g)) \in Nat
           /\ FdRefs(g) \in Nat /\ RunRefs(g) \in Nat
  <1>1. /\ TaskRefs(g) \subseteq Threads /\ ObjRefs(g) \subseteq Objects
        /\ CallRefs(g) \subseteq Threads /\ FireRefs(g) \subseteq Threads
    BY DEF TaskRefs, ObjRefs, CallRefs, FireRefs
  <1>2. FdRefs(g) \in Nat /\ RunRefs(g) \in Nat
    BY DEF FdRefs, RunRefs
  <1>3. IsFiniteSet(Threads) /\ IsFiniteSet(Objects)
    BY LifeAssumption
  <1> QED
    BY <1>1, <1>2, <1>3, FS_Subset, FS_CardinalityType

\* A thread refers to its group where Referring says so.
LEMMA ReferringPlace ==
    ASSUME Places, NEW t \in Threads
    PROVE  Referring(t) <=> Place(t) \in RefPlaces
  <1> PICK p : Place(t) = p /\ At(t, p)
    BY DEF Places, PlaceOK
  <1> QED
    BY DEF At, InDissociate, Referring, In, FirePcs, LockoutPcs, AllPlaces, RefPlaces,
           AttachedPlaces, DetachPlaces

\* KrefExact, put together from the sets above.
LEMMA KrefRefs ==
    ASSUME Places
    PROVE  KrefExact <=> \A g \in Groups : kref[g] = Refs(g)
  <1>1. SUFFICES ASSUME NEW g \in Groups
                 PROVE  Refs(g) = FdRefs(g) + Cardinality({t \in Threads : task_cmgroup[t] = g})
                                  + Cardinality({o \in Objects : obj_cmgroup[o] = g})
                                  + Cardinality({t \in Threads : cg[t] = g /\ Referring(t)})
                                  + TaskletRefs(g)
    BY Zenon DEF KrefExact, FdRefs
  <1>2. {t \in Threads : cg[t] = g /\ Referring(t)} = CallRefs(g)
    BY ReferringPlace DEF CallRefs
  <1>3. TaskletRefs(g) = RunRefs(g) + Cardinality(FireRefs(g))
    BY DEF TaskletRefs, RunRefs, FireRefs
  <1> QED
    BY <1>2, <1>3, RefsFinite DEF Refs, TaskRefs, ObjRefs

=============================================================================

------------------------------ MODULE CmLifeHeld ------------------------------
(***************************************************************************)
(* What the mutexes, the lock-out of the tasklets and the spinlocks        *)
(* protect: the layers Attached, Owned and Locked.  The first is shown to  *)
(* be preserved by every step.                                             *)
(***************************************************************************)
EXTENDS CmLifePlaces

-----------------------------------------------------------------------------
(* The layers.                                                             *)

MutexPlaces == {"cv_lock", "cv_unlock", "attach", "attach_end", "attach_fail",
                "detach", "detach_end"}

\* A thread is in a critical section of attached_mtx exactly if it holds it.
MutexHeld ==
    \A t \in Threads, g \in Groups :
        attached_mtx[g] = t <=> (cg[t] = g /\ Place(t) \in MutexPlaces)

\* An object in use by a call is open, or this call alone destroys it.
ObjectHeld ==
    /\ \A t \in Threads : ob[t] # NULL =>
          object[ob[t]] = IF Place(t) \in DetachPlaces THEN "dying" ELSE "open"
    /\ \A t, u \in Threads : ob[t] # NULL /\ ob[t] = ob[u] /\ Place(t) \in DetachPlaces => t = u

\* A group in use through an object stays attached to it; one that is being
\* attached, or has been detached, is not.
GroupHeld ==
    /\ \A t \in Threads : Place(t) \in AttachedPlaces => obj_cmgroup[ob[t]] = cg[t]
    /\ \A t \in Threads : Place(t) \in {"attach", "detach_end"} => attached[cg[t]] = NULL

\* Group and object point to each other, but for an object just detached.
BothWays ==
    \A g \in Groups, o \in Objects :
        /\ attached[g] = o => obj_cmgroup[o] = g
        /\ obj_cmgroup[o] = g => \/ attached[g] = o
                                 \/ \E t \in Threads : Place(t) = "detach_end" /\ ob[t] = o

PointerSet == \A g \in Groups : lockptr[g] = IF attached[g] \in Epolls THEN attached[g] ELSE g

Attached == MutexHeld /\ ObjectHeld /\ GroupHeld /\ BothWays /\ PointerSet

\* Thread t has set tasklet_active of g: to schedule the tasklet, or to lock it out.
Owns(t, g) ==
    \/ pc[t] = "fire_sched" /\ Fired(t) = g
    \/ pc[t] \in {"lockout_lock", "attach", "detach", "unlockout"} /\ cg[t] = g

\* tasklet_active has one owner at most: a thread, the scheduled instance of the
\* tasklet or the running one.
Owned ==
    \A g \in Groups :
        /\ g \in scheduled \/ tpc[g] \in {"again", "body"} => g \in tasklet_active
        /\ g \in scheduled => tpc[g] \notin {"again", "body"}
        /\ tpc[g] = "unlock_passed" => g \in scheduled
        /\ \A t \in Threads : Owns(t, g) =>
              /\ g \in tasklet_active /\ g \notin scheduled
              /\ tpc[g] \notin {"again", "body"}
              /\ \A u \in Threads : Owns(u, g) => u = t

TaskletLocked == {"body", "unlock", "unlock_recheck", "unlock_passed"}

\* Whoever has taken a spinlock has it; a tasklet locked out has left it.
Locked ==
    /\ \A g \in Groups : tpc[g] \in TaskletLocked => holder[lockptr[g]] = g
    /\ \A t \in Threads :
          /\ Place(t) \in {"cv_unlock", "wait_unlock"} => holder[lockptr[cg[t]]] = t
          /\ Place(t) = "fetch_set" /\ ob[t] \in Epolls => holder[ob[t]] = t
          /\ pc[t] \in {"attach", "detach"} => tpc[cg[t]] \notin TaskletLocked

-----------------------------------------------------------------------------
(* Steps that go on without attaching, detaching or destroying.            *)

Routine(t) ==
    \/ FireCas(t) \/ FireSchedule(t) \/ Opening(t) \/ DissociateUnref(t)
    \/ sys_cmgroup_dissociate(t) \/ cmgroup_lockout_tasklet(t) \/ LockoutLock(t)
    \/ cmgroup_unlockout_tasklet(t)

Enter(t) ==
    \/ \E g \in Groups :
          \/ sys_cmgroup_associate(t, g) \/ cmgroup_set_concurrency_value(t, g)
          \/ \E o \in Objects : Attach(t, g, o)
    \/ \E o \in Objects : FetchAssociate(t, o) \/ FetchSame(t, o)

Advance(t) ==
    \/ AssociateOther(t) \/ WaitLock(t) \/ SetCvMutex(t) \/ SetCvLock(t)
    \/ AttachRefused(t) \/ AttachBegin(t) \/ AttachFail(t) \/ DetachBegin(t)

Leave(t) ==
    \/ AssociateSame(t) \/ AssociateSet(t) \/ WaitUnlock(t) \/ SetCvUnlock(t)
    \/ AttachEnd(t) \/ AttachUnref(t)

\* The others have not changed place.
Stayed == \A u \in Threads : Place(u)' = Place(u) /\ cg'[u] = cg[u] /\ ob'[u] = ob[u]

\* The mutex is held by thread t as its place requires after the step, and by the
\* others as before.
MutexKept(t, l, m) ==
    \/ /\ l \in MutexPlaces <=> m \in MutexPlaces
       /\ UNCHANGED attached_mtx
    \/ /\ l \notin MutexPlaces /\ m \in MutexPlaces
       /\ attached_mtx[cg[t]] = NULL /\ attached_mtx' = [attached_mtx EXCEPT ![cg[t]] = t]
    \/ /\ l \in MutexPlaces /\ m \notin MutexPlaces
       /\ attached_mtx' = [attached_mtx EXCEPT ![cg[t]] = NULL]

\* Nothing is attached or detached by them.
LEMMA AttachKept ==
    ASSUME NEW t \in Threads, Enter(t) \/ Advance(t) \/ Leave(t) \/ FetchSet(t) \/ Routine(t)
    PROVE  UNCHANGED <<attachVars, object>>
  <1> USE DEF attachVars
  <1>1. CASE Enter(t)
    BY <1>1, Zenon DEF Enter, sys_cmgroup_associate, cmgroup_set_concurrency_value, Attach,
         FetchAssociate, FetchSame
  <1>2. CASE Advance(t)
    BY <1>2, Zenon DEF Advance, AssociateOther, WaitLock, SetCvMutex, SetCvLock, AttachRefused,
         AttachBegin, AttachFail, DetachBegin
  <1>3. CASE Leave(t) \/ FetchSet(t)
    BY <1>3, Zenon DEF Leave, AssociateSame, AssociateSet, WaitUnlock, SetCvUnlock, AttachEnd,
         AttachUnref, FetchSet
  <1>4. CASE Routine(t)
    BY <1>4, Zenon DEF Routine, FireCas, FireSchedule, Opening, DissociateUnref,
         sys_cmgroup_dissociate, cmgroup_lockout_tasklet, LockoutLock, cmgroup_unlockout_tasklet
  <1> QED
    BY <1>1, <1>2, <1>3, <1>4

\* But for the routines, they leave the tasklets alone.
LEMMA TaskletKept ==
    ASSUME NEW t \in Threads, Enter(t) \/ Advance(t) \/ Leave(t) \/ FetchSet(t)
    PROVE  UNCHANGED taskletVars
  <1>1. CASE Enter(t)
    BY <1>1, Zenon DEF Enter, sys_cmgroup_associate, cmgroup_set_concurrency_value, Attach,
         FetchAssociate, FetchSame
  <1>2. CASE Advance(t)
    BY <1>2, Zenon DEF Advance, AssociateOther, WaitLock, SetCvMutex, SetCvLock, AttachRefused,
         AttachBegin, AttachFail, DetachBegin
  <1>3. CASE Leave(t) \/ FetchSet(t)
    BY <1>3, Zenon DEF Leave, AssociateSame, AssociateSet, WaitUnlock, SetCvUnlock, AttachEnd,
         AttachUnref, FetchSet
  <1> QED
    BY <1>1, <1>2, <1>3

-----------------------------------------------------------------------------
(* The mutexes, and what is attached to what.                              *)

\* Nothing changes as long as the threads stay in their places.
LEMMA StayAttached ==
    ASSUME Attached, Stayed, UNCHANGED <<attached_mtx, attachVars, object>>
    PROVE  Attached'
  BY DEF Attached, MutexHeld, ObjectHeld, GroupHeld, BothWays, PointerSet, Stayed, attachVars

\* Thread t goes on from l to m with the same group and object.
OnTheWay(t, l, m) ==
    /\ MutexKept(t, l, m) /\ cg'[t] = cg[t] /\ ob'[t] = ob[t]
    /\ l \in DetachPlaces <=> m \in DetachPlaces
    /\ m \in AttachedPlaces => l \in AttachedPlaces
    /\ "detach_end" \notin {l, m} /\ (m = "attach" => attached[cg[t]] = NULL)

\* A call goes on, with or without the mutex.
LEMMA AdvanceAttached ==
    ASSUME TypesOK, Attached, NEW t \in Threads, NEW l, NEW m, Aside(t), Moved(t, l, m),
           OnTheWay(t, l, m), UNCHANGED <<attachVars, object>>, cg[t] \in Groups
    PROVE  Attached'
  <1> /\ Place(t) = l /\ Place(t)' = m
      /\ \A u \in Threads \ {t} : Place(u)' = Place(u) /\ cg'[u] = cg[u] /\ ob'[u] = ob[u]
    BY DEF Moved, Aside, Rests
  <1>1. MutexHeld'
    BY LifeAssumption DEF OnTheWay, Attached, MutexHeld, MutexKept, TypesOK
  <1>2. ObjectHeld'
    BY DEF OnTheWay, Attached, ObjectHeld
  <1>3. GroupHeld'
    BY DEF OnTheWay, Attached, GroupHeld, attachVars
  <1>4. BothWays'
    BY DEF OnTheWay, Attached, BothWays, attachVars
  <1>5. PointerSet'
    BY DEF Attached, PointerSet, attachVars
  <1> QED
    BY <1>1, <1>2, <1>3, <1>4, <1>5 DEF Attached

\* A call begins, with an object that is open.
LEMMA EnterAttached ==
    ASSUME Attached, NEW t \in Threads, NEW m, Aside(t), Moved(t, "idle", m),
           UNCHANGED <<attached_mtx, attachVars, object>>,
           ob[t] = NULL, ob'[t] = NULL \/ object[ob'[t]] = "open",
           m \notin MutexPlaces \cup DetachPlaces,
           m \in AttachedPlaces => obj_cmgroup[ob'[t]] = cg'[t]
    PROVE  Attached'
  <1> /\ Place(t) = "idle" /\ Place(t)' = m
      /\ \A u \in Threads \ {t} : Place(u)' = Place(u) /\ cg'[u] = cg[u] /\ ob'[u] = ob[u]
    BY DEF Moved, Aside, Rests
  <1>1. MutexHeld'
    BY DEF Attached, MutexHeld, MutexPlaces
  <1>2. ObjectHeld'
    BY DEF Attached, ObjectHeld
  <1>3. GroupHeld'
    BY DEF Attached, GroupHeld, attachVars, MutexPlaces, DetachPlaces
  <1>4. BothWays'
    BY DEF Attached, BothWays, attachVars
  <1>5. PointerSet'
    BY DEF Attached, PointerSet, attachVars
  <1> QED
    BY <1>1, <1>2, <1>3, <1>4, <1>5 DEF Attached

\* A call ends, and releases the mutex if it has it.
LEMMA LeaveAttached ==
    ASSUME TypesOK, Attached, NEW t \in Threads, NEW l, Aside(t), Moved(t, l, "idle"),
           MutexKept(t, l, "idle"), UNCHANGED <<attachVars, object>>,
           cg'[t] = NULL, ob'[t] = NULL, cg[t] \in Groups, l # "detach_end"
    PROVE  Attached'
  <1> /\ Place(t) = l /\ Place(t)' = "idle"
      /\ \A u \in Threads \ {t} : Place(u)' = Place(u) /\ cg'[u] = cg[u] /\ ob'[u] = ob[u]
    BY DEF Moved, Aside, Rests
  <1>1. MutexHeld'
    BY LifeAssumption DEF Attached, MutexHeld, MutexKept, MutexPlaces, TypesOK
  <1>2. ObjectHeld'
    BY DEF Attached, ObjectHeld
  <1>3. GroupHeld'
    BY DEF Attached, GroupHeld, attachVars, AttachedPlaces, DetachPlaces
  <1>4. BothWays'
    BY DEF Attached, BothWays, attachVars
  <1>5. PointerSet'
    BY DEF Attached, PointerSet, attachVars
  <1> QED
    BY <1>1, <1>2, <1>3, <1>4, <1>5 DEF Attached

\* A call goes on.
LEMMA AdvancesAttached ==
    ASSUME Places, Attached, NEW t \in Threads, Advance(t)
    PROVE  Attached'
  <1> /\ TypesOK /\ PlaceOK(t)
      /\ cg \in [Threads -> Groups \cup {NULL}] /\ ob \in [Threads -> Objects \cup {NULL}]
      /\ obj_cmgroup \in [Objects -> Groups \cup {NULL}]
    BY DEF Places, TypesOK
  <1>1. \E l, m : Moved(t, l, m) /\ OnTheWay(t, l, m) /\ l # "idle"
    <2> USE DEF OnTheWay, MutexKept, MutexPlaces, AttachedPlaces, DetachPlaces
    <2>1. CASE AssociateOther(t)
      <3> Moved(t, "assoc", "assoc_set")
        BY <2>1, MovesAssociate, Zenon
      <3> QED
        BY <2>1 DEF AssociateOther
    <2>2. CASE WaitLock(t)
      <3> Moved(t, "wait_lock", "wait_unlock")
        BY <2>2, MovesFetch, Zenon
      <3> QED
        BY <2>2 DEF WaitLock, callVars
    <2>3. CASE SetCvMutex(t)
      <3> Moved(t, "cv_mtx", "cv_lock")
        BY <2>3, MovesSetCv, Zenon
      <3> QED
        BY <2>3 DEF SetCvMutex, MutexLock, callVars
    <2>4. CASE SetCvLock(t)
      <3> Moved(t, "cv_lock", "cv_unlock")
        BY <2>4, MovesSetCv, Zenon
      <3> QED
        BY <2>4 DEF SetCvLock
    <2>5. CASE AttachRefused(t)
      <3> Moved(t, "attach_mtx", "attach_unref")
        BY <2>5, MovesAttach, Zenon
      <3> QED
        BY <2>5 DEF AttachRefused, callVars
    <2>6. CASE AttachBegin(t)
      <3> Moved(t, "attach_mtx", "attach")
        BY <2>6, MovesAttach, Zenon
      <3> QED
        BY <2>6 DEF AttachBegin, MutexLock
    <2>7. CASE AttachFail(t)
      <3> Moved(t, "attach_fail", "attach_unref")
        BY <2>7, MovesAttach, Zenon
      <3> QED
        BY <2>7 DEF AttachFail, MutexUnlock, callVars
    <2>8. CASE DetachBegin(t)
      <3> Moved(t, "detach_mtx", "detach")
        BY <2>8, MovesDetach, Zenon
      <3> QED
        BY <2>8 DEF DetachBegin, MutexLock
    <2> HIDE DEF OnTheWay
    <2> QED
      BY <2>1, <2>2, <2>3, <2>4, <2>5, <2>6, <2>7, <2>8, Zenon DEF Advance
  <1>2. PICK l, m : Moved(t, l, m) /\ OnTheWay(t, l, m) /\ l # "idle"
    BY <1>1
  <1>3. cg[t] \in Groups
    BY <1>2 DEF Moved, PlaceOK, LocalsOK
  <1>4. Aside(t) /\ UNCHANGED <<attachVars, object>>
    BY OneThread, AttachKept, Zenon DEF Advance, ThreadStep
  <1> QED
    BY <1>2, <1>3, <1>4, AdvanceAttached, Zenon

\* A call ends.
LEMMA LeavesAttached ==
    ASSUME Places, Attached, NEW t \in Threads, Leave(t)
    PROVE  Attached'
  <1> /\ TypesOK /\ PlaceOK(t)
      /\ cg \in [Threads -> Groups \cup {NULL}] /\ ob \in [Threads -> Objects \cup {NULL}]
      /\ obj_cmgroup \in [Objects -> Groups \cup {NULL}]
    BY DEF Places, TypesOK
  <1>1. /\ cg'[t] = NULL /\ ob'[t] = NULL
        /\ \E l : Moved(t, l, "idle") /\ MutexKept(t, l, "idle") /\ l \notin {"idle", "detach_end"}
    <2> USE DEF MutexKept, MutexPlaces, Exit
    <2>1. CASE AssociateSame(t)
      <3> Moved(t, "assoc", "idle")
        BY <2>1, MovesAssociate, Zenon
      <3> QED
        BY <2>1 DEF AssociateSame, Exit
    <2>2. CASE AssociateSet(t)
      <3> Moved(t, "assoc", "idle") \/ Moved(t, "assoc_set", "idle")
        BY <2>2, MovesAssociate, Zenon
      <3> QED
        BY <2>2 DEF AssociateSet, Exit
    <2>3. CASE WaitUnlock(t)
      <3> Moved(t, "wait_unlock", "idle")
        BY <2>3, MovesFetch, Zenon
      <3> QED
        BY <2>3 DEF WaitUnlock, Exit
    <2>4. CASE SetCvUnlock(t)
      <3> Moved(t, "cv_unlock", "idle")
        BY <2>4, MovesSetCv, Zenon
      <3> QED
        BY <2>4 DEF SetCvUnlock, Exit, MutexUnlock
    <2>5. CASE AttachEnd(t)
      <3> Moved(t, "attach_end", "idle")
        BY <2>5, MovesAttach, Zenon
      <3> QED
        BY <2>5 DEF AttachEnd, Exit, MutexUnlock
    <2>6. CASE AttachUnref(t)
      <3> Moved(t, "attach_unref", "idle")
        BY <2>6, MovesAttach, Zenon
      <3> QED
        BY <2>6 DEF AttachUnref, Exit
    <2> HIDE DEF MutexKept
    <2> QED
      BY <2>1, <2>2, <2>3, <2>4, <2>5, <2>6, Zenon DEF Leave
  <1>2. PICK l : Moved(t, l, "idle") /\ MutexKept(t, l, "idle") /\ l \notin {"idle", "detach_end"}
    BY <1>1
  <1>3. cg[t] \in Groups
    BY <1>2 DEF Moved, PlaceOK, LocalsOK
  <1>4. Aside(t) /\ UNCHANGED <<attachVars, object>>
    BY OneThread, AttachKept, Zenon DEF Leave, ThreadStep
  <1> QED
    BY <1>1, <1>2, <1>3, <1>4, LeaveAttached

\* A call begins.
LEMMA EntersAttached ==
    ASSUME Places, Attached, NEW t \in Threads, Enter(t)
    PROVE  Attached'
  <1> /\ TypesOK /\ PlaceOK(t)
      /\ cg \in [Threads -> Groups \cup {NULL}] /\ ob \in [Threads -> Objects \cup {NULL}]
      /\ obj_cmgroup \in [Objects -> Groups \cup {NULL}]
    BY DEF Places, TypesOK
  <1> DEFINE Entered(m) ==
        /\ Moved(t, "idle", m) /\ m \notin MutexPlaces \cup DetachPlaces
        /\ UNCHANGED attached_mtx
        /\ ob'[t] = ob[t] \/ object[ob'[t]] = "open"
        /\ m \in AttachedPlaces => obj_cmgroup[ob'[t]] = cg'[t]
  <1>1. \E m : Entered(m)
    <2> USE DEF MutexPlaces, AttachedPlaces, DetachPlaces
    <2>1. ASSUME NEW g \in Groups, sys_cmgroup_associate(t, g) PROVE Entered("assoc")
      <3> Moved(t, "idle", "assoc")
        BY <2>1, MovesAssociate, Zenon
      <3> QED
        BY <2>1 DEF sys_cmgroup_associate, cmgroup_from_fd
    <2>2. ASSUME NEW g \in Groups, cmgroup_set_concurrency_value(t, g) PROVE Entered("cv_mtx")
      <3> Moved(t, "idle", "cv_mtx")
        BY <2>2, MovesSetCv, Zenon
      <3> QED
        BY <2>2 DEF cmgroup_set_concurrency_value, cmgroup_from_fd
    <2>3. ASSUME NEW g \in Groups, NEW o \in Objects, Attach(t, g, o) PROVE Entered("attach_mtx")
      <3> Moved(t, "idle", "attach_mtx")
        BY <2>3, MovesAttach, Zenon
      <3> QED
        BY <2>3 DEF Attach
    <2>4. ASSUME NEW o \in Objects, FetchAssociate(t, o) PROVE Entered("fetch_set")
      <3> Moved(t, "idle", "fetch_set")
        BY <2>4, MovesFetch, Zenon
      <3> QED
        BY <2>4 DEF FetchAssociate
    <2>5. ASSUME NEW o \in Objects, FetchSame(t, o) PROVE Entered("wait_lock")
      <3> Moved(t, "idle", "wait_lock")
        BY <2>5, MovesFetch, Zenon
      <3> QED
        BY <2>5 DEF FetchSame
    <2> HIDE DEF Entered
    <2> QED
      BY <2>1, <2>2, <2>3, <2>4, <2>5, Zenon DEF Enter
  <1>2. PICK m : Entered(m)
    BY <1>1
  <1>3. ob[t] = NULL
    BY <1>2, LifeAssumption DEF Moved, PlaceOK, LocalsOK, ObjectPlaces, AttachedPlaces, DetachPlaces
  <1>4. Aside(t) /\ UNCHANGED <<attachVars, object>>
    BY OneThread, AttachKept, Zenon DEF Enter, CallStep
  <1> QED
    BY <1>2, <1>3, <1>4, EnterAttached

\* The threads stay in place.
LEMMA RoutineStays ==
    ASSUME Places, NEW t \in Threads, Routine(t)
    PROVE  Stayed /\ Stays(t) /\ Aside(t)
  <1>1. TypesOK /\ PlaceOK(t)
    BY DEF Places
  <1>2. Stays(t)
    BY <1>1, StaysInPlace, Zenon DEF Routine
  <1>3. Aside(t)
    BY <1>1, OneThread, Zenon DEF Routine, ThreadStep
  <1> QED
    BY <1>2, <1>3 DEF Stayed, Stays, Aside, Rests

\* Nothing is attached or detached in the routines.
LEMMA RoutinesAttached ==
    ASSUME Places, Attached, NEW t \in Threads, Routine(t)
    PROVE  Attached'
  <1>1. UNCHANGED attached_mtx
    BY Zenon DEF Routine, FireCas, FireSchedule, Opening, DissociateUnref,
         sys_cmgroup_dissociate, cmgroup_lockout_tasklet, LockoutLock, cmgroup_unlockout_tasklet
  <1> QED
    BY <1>1, RoutineStays, AttachKept, StayAttached, Zenon

\* Creating a group, closing its file, and the tasklets: nobody is concerned.
Apart ==
    \/ \E t \in Threads, g \in Groups : cmgroup_newgroup(t, g) \/ cmgroup_fop_release(t, g)
    \/ \E g \in Groups : TaskletStep(g) \/ __cmgroup_free_work(g)
    \/ UNCHANGED vars

\* Nothing is attached or detached by them.
LEMMA ApartAttached ==
    ASSUME Attached, Apart
    PROVE  Attached' /\ \A u \in Threads : Rests(u)
  <1>1. UNCHANGED <<callVars, pc, task_cmgroup, attached_mtx, attachVars, object>>
    BY Zenon DEF Apart, cmgroup_newgroup, cmgroup_fop_release, TaskletStep, TaskletStart,
         TaskletLock, TaskletClear, TaskletHandOver, TaskletUnlock, TaskletGiveUp,
         TaskletReassert, TaskletUnref, TaskletReturn, __cmgroup_free_work, vars
  <1>2. \A u \in Threads : Rests(u)
    BY <1>1, AllRest
  <1>3. Stayed
    BY <1>2 DEF Stayed, Rests
  <1> QED
    BY <1>1, <1>2, <1>3, StayAttached, Zenon

\* An event is fetched after the association.
LEMMA FetchSetAttached ==
    ASSUME Places, Attached, NEW t \in Threads, FetchSet(t)
    PROVE  Attached'
  <1> /\ TypesOK /\ PlaceOK(t)
      /\ cg \in [Threads -> Groups \cup {NULL}] /\ ob \in [Threads -> Objects \cup {NULL}]
    BY DEF Places, TypesOK
  <1> Moved(t, "fetch_set", IF ob[t] \in Epolls THEN "idle" ELSE "wait_lock")
    BY MovesFetch, Zenon
  <1> Aside(t) /\ UNCHANGED <<attachVars, object>>
    BY OneThread, AttachKept, Zenon DEF ThreadStep
  <1> cg[t] \in Groups
    BY DEF Moved, PlaceOK, LocalsOK
  <1>1. CASE ob[t] \in Epolls
    <2>1. MutexKept(t, "fetch_set", "idle") /\ cg'[t] = NULL /\ ob'[t] = NULL
      BY <1>1 DEF FetchSet, Exit, MutexKept, MutexPlaces
    <2> QED
      BY <1>1, <2>1, LeaveAttached
  <1>2. CASE ob[t] \notin Epolls
    <2>1. OnTheWay(t, "fetch_set", "wait_lock")
      BY <1>2 DEF FetchSet, OnTheWay, MutexKept, MutexPlaces, AttachedPlaces, DetachPlaces
    <2> QED
      BY <1>2, <2>1, AdvanceAttached
  <1> QED
    BY <1>1, <1>2

\* Attaching, under the mutex and the lock of the object.
LEMMA AttachDoAttached ==
    ASSUME Places, Attached, NEW t \in Threads, AttachDo(t)
    PROVE  Attached'
  <1> /\ TypesOK /\ PlaceOK(t)
      /\ cg \in [Threads -> Groups \cup {NULL}] /\ ob \in [Threads -> Objects \cup {NULL}]
      /\ attached \in [Groups -> Objects \cup {NULL}] /\ lockptr \in [Groups -> Locks]
      /\ obj_cmgroup \in [Objects -> Groups \cup {NULL}]
    BY DEF Places, TypesOK
  <1> Moved(t, "attach", IF obj_cmgroup[ob[t]] = NULL THEN "attach_end" ELSE "attach_fail")
    BY MovesAttach, Zenon
  <1> Aside(t)
    BY OneThread, Zenon DEF ThreadStep
  <1> cg[t] \in Groups /\ ob[t] \in Objects
    BY DEF Moved, PlaceOK, LocalsOK, ObjectPlaces
  <1> /\ cg'[t] = cg[t] /\ ob'[t] = ob[t] /\ UNCHANGED <<attached_mtx, object>>
    BY DEF AttachDo
  <1>1. CASE obj_cmgroup[ob[t]] # NULL
    <2>1. OnTheWay(t, "attach", "attach_fail")
      BY <1>1 DEF OnTheWay, MutexKept, MutexPlaces, AttachedPlaces, DetachPlaces
    <2>2. UNCHANGED attachVars
      BY <1>1 DEF AttachDo
    <2> QED
      BY <1>1, <2>1, <2>2, AdvanceAttached
  <1>2. CASE obj_cmgroup[ob[t]] = NULL
    <2> /\ attached' = [attached EXCEPT ![cg[t]] = ob[t]]
        /\ obj_cmgroup' = [obj_cmgroup EXCEPT ![ob[t]] = cg[t]]
        /\ lockptr' = IF ob[t] \in Epolls THEN [lockptr EXCEPT ![cg[t]] = ob[t]] ELSE lockptr
      BY <1>2 DEF AttachDo
    <2> /\ Place(t) = "attach" /\ Place(t)' = "attach_end"
        /\ \A u \in Threads \ {t} : Place(u)' = Place(u) /\ cg'[u] = cg[u] /\ ob'[u] = ob[u]
      BY <1>2 DEF Moved, Aside, Rests
    <2> attached[cg[t]] = NULL
      BY DEF Attached, GroupHeld
    <2>1. MutexHeld'
      BY DEF Attached, MutexHeld, MutexPlaces
    <2>2. ObjectHeld'
      BY DEF Attached, ObjectHeld, DetachPlaces
    <2>3. GroupHeld'
      <3>1. \A u \in Threads : Place(u) \in AttachedPlaces => ob[u] \in Objects /\ cg[u] # NULL
        BY LifeAssumption DEF Places, PlaceOK, LocalsOK, ObjectPlaces, AttachedPlaces, DetachPlaces
      <3>2. \A u \in Threads : Place(u) \in AttachedPlaces => ob[u] # ob[t]
        BY <1>2, <3>1 DEF Attached, GroupHeld
      <3>3. \A u \in Threads \ {t} : Place(u) \in {"attach", "detach_end"} => cg[u] # cg[t]
        BY DEF Attached, MutexHeld, MutexPlaces
      <3>4. \A u \in Threads : Place(u) \in {"attach", "detach_end"} => cg[u] \in Groups
        BY DEF Places, PlaceOK, LocalsOK
      <3> QED
        BY <3>1, <3>2, <3>3, <3>4 DEF Attached, GroupHeld
    <2>4. BothWays'
      BY <1>2, LifeAssumption DEF Attached, BothWays
    <2>5. PointerSet'
      BY LifeAssumption DEF Attached, PointerSet, Objects
    <2> QED
      BY <2>1, <2>2, <2>3, <2>4, <2>5 DEF Attached
  <1> QED
    BY <1>1, <1>2

\* Detaching: the object points to the group until the end.
LEMMA DetachDoAttached ==
    ASSUME Places, Attached, NEW t \in Threads, DetachDo(t)
    PROVE  Attached'
  <1> /\ TypesOK /\ PlaceOK(t)
      /\ attached \in [Groups -> Objects \cup {NULL}] /\ lockptr \in [Groups -> Locks]
    BY DEF Places, TypesOK
  <1>1. Moved(t, "detach", "detach_end") /\ Aside(t)
    BY MovesDetach, OneThread, Zenon DEF ThreadStep
  <1> /\ cg[t] \in Groups /\ ob[t] \in Objects
      /\ cg'[t] = cg[t] /\ ob'[t] = ob[t] /\ UNCHANGED <<attached_mtx, object, obj_cmgroup>>
      /\ attached' = [attached EXCEPT ![cg[t]] = NULL]
      /\ lockptr' = [lockptr EXCEPT ![cg[t]] = cg[t]]
    BY <1>1 DEF DetachDo, Moved, PlaceOK, LocalsOK, ObjectPlaces, AttachedPlaces, DetachPlaces
  <1> /\ Place(t) = "detach" /\ Place(t)' = "detach_end"
      /\ \A u \in Threads \ {t} : Place(u)' = Place(u) /\ cg'[u] = cg[u] /\ ob'[u] = ob[u]
    BY <1>1 DEF Moved, Aside, Rests
  <1>2. MutexHeld'
    BY DEF Attached, MutexHeld, MutexPlaces
  <1>3. ObjectHeld'
    BY DEF Attached, ObjectHeld, DetachPlaces
  <1>4. GroupHeld'
    <2>1. \A u \in Threads : Place(u) \in {"attach", "detach_end"} => cg[u] \in Groups
      BY DEF Places, PlaceOK, LocalsOK
    <2> QED
      BY <2>1 DEF Attached, GroupHeld, AttachedPlaces, DetachPlaces
  <1>5. BothWays'
    BY LifeAssumption DEF Attached, BothWays, GroupHeld, AttachedPlaces, DetachPlaces
  <1>6. PointerSet'
    BY LifeAssumption DEF Attached, PointerSet, Objects
  <1> QED
    BY <1>2, <1>3, <1>4, <1>5, <1>6 DEF Attached

\* The end of the object.
LEMMA DetachEndAttached ==
    ASSUME Places, Attached, NEW t \in Threads, DetachEnd(t)
    PROVE  Attached'
  <1> /\ TypesOK /\ PlaceOK(t)
      /\ cg \in [Threads -> Groups \cup {NULL}] /\ ob \in [Threads -> Objects \cup {NULL}]
      /\ attached_mtx \in [Groups -> Threads \cup {NULL}]
      /\ object \in [Objects -> {"open", "dying", "freed"}]
      /\ obj_cmgroup \in [Objects -> Groups \cup {NULL}]
    BY DEF Places, TypesOK
  <1>1. Moved(t, "detach_end", "idle") /\ Aside(t)
    BY MovesDetach, OneThread, Zenon DEF ThreadStep
  <1> /\ cg[t] \in Groups /\ ob[t] \in Objects
      /\ cg'[t] = NULL /\ ob'[t] = NULL /\ UNCHANGED <<attached, lockptr>>
      /\ attached_mtx' = [attached_mtx EXCEPT ![cg[t]] = NULL]
      /\ object' = [object EXCEPT ![ob[t]] = "freed"]
      /\ obj_cmgroup' = [obj_cmgroup EXCEPT ![ob[t]] = NULL]
    BY <1>1
    DEF DetachEnd, Exit, MutexUnlock, Moved, PlaceOK, LocalsOK, ObjectPlaces, AttachedPlaces,
        DetachPlaces
  <1> /\ Place(t) = "detach_end" /\ Place(t)' = "idle"
      /\ \A u \in Threads \ {t} : Place(u)' = Place(u) /\ cg'[u] = cg[u] /\ ob'[u] = ob[u]
    BY <1>1 DEF Moved, Aside, Rests
  <1>2. obj_cmgroup[ob[t]] = cg[t] /\ attached[cg[t]] = NULL
    BY DEF Attached, GroupHeld, AttachedPlaces, DetachPlaces
  <1>3. \A u \in Threads \ {t} : ob[u] # ob[t]
    BY LifeAssumption DEF Attached, ObjectHeld, DetachPlaces
  <1>4. MutexHeld'
    BY LifeAssumption DEF Attached, MutexHeld, MutexPlaces
  <1>5. ObjectHeld'
    BY <1>3 DEF Attached, ObjectHeld
  <1>6. GroupHeld'
    <2>1. \A u \in Threads : Place(u) \in AttachedPlaces => ob[u] \in Objects
      BY DEF Places, PlaceOK, LocalsOK, ObjectPlaces
    <2> QED
      BY <1>3, <2>1 DEF Attached, GroupHeld, AttachedPlaces, DetachPlaces
  <1>7. BothWays'
    <2>1. /\ \A x \in Objects \ {ob[t]} : obj_cmgroup'[x] = obj_cmgroup[x]
          /\ \A g \in Groups : attached[g] # ob[t]
          /\ obj_cmgroup'[ob[t]] \notin Groups
      BY <1>2, LifeAssumption DEF Attached, BothWays
    <2> QED
      BY <2>1 DEF Attached, BothWays
  <1>8. PointerSet'
    BY DEF Attached, PointerSet
  <1> QED
    BY <1>4, <1>5, <1>6, <1>7, <1>8 DEF Attached

\* An object that nobody uses is destroyed, if it has no group, or begins to be.
LEMMA DestroyAttached ==
    ASSUME Places, Attached, NEW t \in Threads, NEW o \in Objects, Destroy(t, o)
    PROVE  Attached'
  <1> /\ TypesOK /\ PlaceOK(t)
      /\ cg \in [Threads -> Groups \cup {NULL}] /\ ob \in [Threads -> Objects \cup {NULL}]
      /\ object \in [Objects -> {"open", "dying", "freed"}]
    BY DEF Places, TypesOK
  <1> /\ \A u \in Threads : ob[u] # o
      /\ UNCHANGED <<attached_mtx, attachVars>>
    BY DEF Destroy
  <1>1. CASE obj_cmgroup[o] = NULL
    <2>1. UNCHANGED <<callVars, pc, task_cmgroup>> /\ object' = [object EXCEPT ![o] = "freed"]
      BY <1>1 DEF Destroy, callVars
    <2> Stayed
      BY <2>1, AllRest DEF Stayed, Rests
    <2>2. ObjectHeld'
      BY <2>1 DEF Attached, ObjectHeld, Stayed
    <2>3. MutexHeld' /\ PointerSet'
      BY DEF Attached, MutexHeld, PointerSet, Stayed, attachVars
    <2>4. GroupHeld' /\ BothWays'
      BY DEF Attached, GroupHeld, BothWays, Stayed, attachVars
    <2> QED
      BY <2>2, <2>3, <2>4 DEF Attached
  <1>2. CASE obj_cmgroup[o] # NULL
    <2>1. Moved(t, "idle", "detach_mtx") /\ Aside(t)
      BY <1>2, MovesDetach, OneThread, Zenon DEF CallStep
    <2> /\ object' = [object EXCEPT ![o] = "dying"]
        /\ ob'[t] = o /\ cg'[t] = obj_cmgroup[o] /\ ob[t] = NULL
      BY <1>2, <2>1
      DEF Destroy, Moved, PlaceOK, LocalsOK, ObjectPlaces, AttachedPlaces, DetachPlaces
    <2> /\ Place(t) = "idle" /\ Place(t)' = "detach_mtx"
        /\ \A u \in Threads \ {t} : Place(u)' = Place(u) /\ cg'[u] = cg[u] /\ ob'[u] = ob[u]
      BY <2>1 DEF Moved, Aside, Rests
    <2>2. MutexHeld' /\ PointerSet'
      BY DEF Attached, MutexHeld, PointerSet, MutexPlaces, attachVars
    <2>3. ObjectHeld'
      BY DEF Attached, ObjectHeld, DetachPlaces
    <2>4. GroupHeld' /\ BothWays'
      BY LifeAssumption DEF Attached, GroupHeld, BothWays, attachVars
    <2> QED
      BY <2>2, <2>3, <2>4 DEF Attached
  <1> QED
    BY <1>1, <1>2

\* The second layer.
LEMMA StepAttached ==
    ASSUME Places, Attached, [Next]_vars
    PROVE  Attached'
  BY AdvancesAttached, LeavesAttached, EntersAttached, RoutinesAttached, ApartAttached,
     FetchSetAttached, AttachDoAttached, DetachDoAttached, DetachEndAttached, DestroyAttached,
     Zenon
  DEF Next, ThreadStep, CallStep, Over, Routine, Enter, Advance, Leave, Apart

=============================================================================

----------------------------- MODULE CmLifeLocked -----------------------------
(***************************************************************************)
(* Who owns tasklet_active and who holds the spinlocks: the layers Owned   *)
(* and Locked are preserved by every step.  With those of CmLifePlaces and *)
(* CmLifeHeld they are the invariant Shape, which gives the two properties *)
(* of attaching: PointerStable and OneToOne.                               *)
(***************************************************************************)
EXTENDS CmLifeHeld

-----------------------------------------------------------------------------
(* The owner of tasklet_active.                                            *)

\* A call that does not attach or detach leaves tasklet_active to its owner.
LEMMA MovedOwned ==
    ASSUME Owned, NEW t \in Threads, NEW l, NEW m, Aside(t), Moved(t, l, m),
           l \notin {"attach", "detach"}, UNCHANGED taskletVars
    PROVE  Owned'
  <1>1. ASSUME NEW u \in Threads, NEW g \in Groups
        PROVE  Owns(u, g)' <=> Owns(u, g)
    <2>1. CASE u = t
      BY <2>1 DEF Moved, OwnerPcs, Owns
    <2>2. CASE u # t
      BY <2>2 DEF Aside, Rests, Owns, Fired
    <2> QED
      BY <2>1, <2>2
  <1> QED
    BY <1>1 DEF Owned, taskletVars

\* The steps of calls but for the two that attach and detach.
LEMMA CallsOwned ==
    ASSUME Places, Owned, NEW t \in Threads,
           \/ Enter(t) \/ Advance(t) \/ Leave(t) \/ FetchSet(t) \/ DetachEnd(t)
           \/ \E o \in Objects : Destroy(t, o) /\ obj_cmgroup[o] # NULL
    PROVE  Owned'
  <1> TypesOK /\ PlaceOK(t)
    BY DEF Places
  <1>1. Aside(t)
    BY OneThread, Zenon DEF Enter, Advance, Leave, ThreadStep, CallStep
  <1>2. UNCHANGED taskletVars
    BY TaskletKept, Zenon DEF DetachEnd, Destroy
  <1>3. CASE Enter(t)
    BY <1>1, <1>2, <1>3, MovesAssociate, MovesFetch, MovesSetCv, MovesAttach, MovedOwned, Zenon
    DEF Enter
  <1>4. CASE Advance(t)
    BY <1>1, <1>2, <1>4, MovesAssociate, MovesFetch, MovesSetCv, MovesAttach, MovesDetach,
       MovedOwned, Zenon
    DEF Advance
  <1>5. CASE Leave(t)
    BY <1>1, <1>2, <1>5, MovesAssociate, MovesFetch, MovesSetCv, MovesAttach, MovedOwned, Zenon
    DEF Leave
  <1>6. CASE FetchSet(t)
    BY <1>1, <1>2, <1>6, MovesFetch, MovedOwned, Zenon
  <1>7. CASE DetachEnd(t) \/ \E o \in Objects : Destroy(t, o) /\ obj_cmgroup[o] # NULL
    BY <1>1, <1>2, <1>7, MovesDetach, MovedOwned, Zenon
  <1> QED
    BY <1>3, <1>4, <1>5, <1>6, <1>7, Zenon

\* In the routines, and where a group is attached or detached, thread t becomes
\* or ceases to be an owner.
LEMMA RoutinesOwned ==
    ASSUME Places, Owned, NEW t \in Threads, Routine(t) \/ AttachDo(t) \/ DetachDo(t)
    PROVE  Owned'
  <1> PlaceOK(t)
    BY DEF Places
  <1> /\ pc \in [Threads -> Pcs] /\ ret \in [Threads -> Pcs]
      /\ task_cmgroup \in [Threads -> Groups \cup {NULL}]
    BY DEF Places, TypesOK
  <1> /\ pc[t] \in FirePcs => Fired(t) \in Groups
      /\ pc[t] \in LockoutPcs => cg[t] \in Groups
    BY Here DEF LockoutPcs
  <1> /\ pc[t] \in FirePcs => ret[t] \notin OwnerPcs
      /\ pc[t] = "lockout_lock" => ret[t] \in {"attach", "detach"}
      /\ pc[t] = "dissoc_unref" => after[t] \notin OwnerPcs
    BY Back DEF OwnerPcs
  <1>a. Aside(t)
    BY OneThread, Zenon DEF Places, Routine, ThreadStep
  <1> \A u \in Threads \ {t}, g \in Groups : Owns(u, g)' <=> Owns(u, g)
    BY <1>a DEF Aside, Rests, Owns, Fired
  <1>1. CASE FireCas(t)
    BY <1>1 DEF FireCas, Goto, Return, Owned, Owns, Fired, FirePcs, OwnerPcs
  <1>2. CASE FireSchedule(t)
    BY <1>2 DEF FireSchedule, Goto, Return, Owned, Owns, Fired, FirePcs, OwnerPcs
  <1>3. CASE Opening(t)
    BY <1>3 DEF Opening, Goto, Call, taskletVars, Owned, Owns
  <1>4. CASE DissociateUnref(t)
    BY <1>4 DEF DissociateUnref, Goto, taskletVars, Owned, Owns, OwnerPcs
  <1>5. CASE sys_cmgroup_dissociate(t)
    BY <1>5 DEF sys_cmgroup_dissociate, cmgroup_dissociate, Goto, Call, taskletVars, Owned, Owns
  <1>6. CASE cmgroup_lockout_tasklet(t)
    BY <1>6 DEF cmgroup_lockout_tasklet, Goto, callVars, Owned, Owns, LockoutPcs
  <1>7. CASE LockoutLock(t)
    BY <1>7 DEF LockoutLock, Goto, Return, taskletVars, Owned, Owns, LockoutPcs
  <1>8. CASE cmgroup_unlockout_tasklet(t)
    BY <1>8 DEF cmgroup_unlockout_tasklet, Goto, callVars, Owned, Owns, LockoutPcs
  <1>9. CASE AttachDo(t)
    BY <1>9 DEF AttachDo, Goto, Call, taskletVars, Owned, Owns
  <1>10. CASE DetachDo(t)
    BY <1>10 DEF DetachDo, Goto, Call, taskletVars, Owned, Owns
  <1> QED
    BY <1>1, <1>2, <1>3, <1>4, <1>5, <1>6, <1>7, <1>8, <1>9, <1>10, Zenon DEF Routine

\* The tasklet hands tasklet_active over to the instance that it schedules, or
\* gives it up.
LEMMA TaskletsOwned ==
    ASSUME Places, Owned, NEW g \in Groups, TaskletStep(g)
    PROVE  Owned'
  <1> tpc \in [Groups -> TaskletPcs]
    BY DEF Places, TypesOK
  <1>a. \A u \in Threads : Rests(u)
    BY TaskletAside
  <1> \A u \in Threads, h \in Groups : Owns(u, h)' <=> Owns(u, h)
    BY <1>a DEF Rests, Owns, Fired
  <1> USE DEF TaskletGoto, Owned
  <1>1. CASE TaskletStart(g)
    BY <1>1 DEF TaskletStart
  <1>2. CASE TaskletLock(g)
    BY <1>2 DEF TaskletLock
  <1>3. CASE TaskletClear(g)
    BY <1>3 DEF TaskletClear
  <1>4. CASE TaskletHandOver(g)
    BY <1>4 DEF TaskletHandOver
  <1>5. CASE TaskletUnlock(g)
    BY <1>5 DEF TaskletUnlock
  <1>6. CASE TaskletGiveUp(g)
    BY <1>6 DEF TaskletGiveUp
  <1>7. CASE TaskletReassert(g)
    BY <1>7 DEF TaskletReassert
  <1>8. CASE TaskletUnref(g)
    BY <1>8 DEF TaskletUnref
  <1>9. CASE TaskletReturn(g)
    BY <1>9 DEF TaskletReturn
  <1> HIDE DEF Owned
  <1> QED
    BY <1>1, <1>2, <1>3, <1>4, <1>5, <1>6, <1>7, <1>8, <1>9, Zenon DEF TaskletStep

\* The third layer.
LEMMA StepOwned ==
    ASSUME Places, Owned, [Next]_vars
    PROVE  Owned'
  <1>1. ASSUME UNCHANGED <<taskletVars, callVars, pc, task_cmgroup>>
        PROVE  Owned'
    BY <1>1 DEF taskletVars, callVars, Owned, Owns, Fired
  <1>2. ASSUME NEW t \in Threads, NEW o \in Objects, Destroy(t, o)
        PROVE  Owned'
    <2>1. CASE obj_cmgroup[o] = NULL
      BY <1>1, <1>2, <2>1 DEF Destroy, callVars
    <2> QED
      BY <1>2, <2>1, CallsOwned
  <1>3. ASSUME NEW t \in Threads, NEW g \in Groups,
               cmgroup_newgroup(t, g) \/ cmgroup_fop_release(t, g)
        PROVE  Owned'
    BY <1>1, <1>3, Zenon DEF cmgroup_newgroup, cmgroup_fop_release
  <1>4. ASSUME (\E g \in Groups : __cmgroup_free_work(g)) \/ UNCHANGED vars
        PROVE  Owned'
    BY <1>1, <1>4, Zenon DEF __cmgroup_free_work, vars
  <1> QED
    BY <1>2, <1>3, <1>4, CallsOwned, RoutinesOwned, TaskletsOwned, Zenon
    DEF Next, ThreadStep, CallStep, Over, Routine, Enter, Advance, Leave

-----------------------------------------------------------------------------
(* The spinlocks.                                                          *)

\* A call has the lock that its next place requires and leaves the others alone.
LEMMA MovedLocked ==
    ASSUME Places, Locked, NEW t \in Threads, NEW l, NEW m, Aside(t), Moved(t, l, m),
           UNCHANGED <<lockptr, tpc>>,
           \A x \in Locks : holder[x] \notin {t, NULL} => holder'[x] = holder[x],
           m \in {"cv_unlock", "wait_unlock"} => holder'[lockptr[cg'[t]]] = t,
           m = "fetch_set" /\ ob'[t] \in Epolls => holder'[ob'[t]] = t
    PROVE  Locked'
  <1>1. /\ \A g \in Groups : lockptr[g] \in Locks /\ g \notin {t, NULL}
        /\ \A u \in Threads : u # NULL /\ (ob[u] \in Epolls => ob[u] \in Locks)
    BY LifeAssumption DEF Places, TypesOK, Locks
  <1>2. \A u \in Threads : Place(u) \in {"cv_unlock", "wait_unlock"} => cg[u] \in Groups
    BY DEF Places, PlaceOK, LocalsOK
  <1> QED
    BY <1>1, <1>2 DEF Locked, Moved, Aside, Rests

\* As long as the threads stay, a lock-out is all that matters.
LEMMA StayLocked ==
    ASSUME Locked, Stayed, UNCHANGED <<holder, lockptr, tpc>>,
           \A u \in Threads : pc'[u] \in {"attach", "detach"} /\ pc'[u] # pc[u]
              => tpc[cg[u]] \notin TaskletLocked
    PROVE  Locked'
  BY DEF Locked, Stayed

\* While a thread attaches or detaches a group, nobody holds a lock through the
\* pointer that it is about to change.
LEMMA NobodyInside ==
    ASSUME Places, Attached, Locked, NEW t \in Threads, pc[t] \in {"attach", "detach"}
    PROVE  /\ cg[t] \in Groups /\ tpc[cg[t]] \notin TaskletLocked
           /\ \A u \in Threads : Place(u) \in {"cv_unlock", "wait_unlock"} => cg[u] # cg[t]
  <1> PlaceOK(t)
    BY DEF Places
  <1> cg[t] \in Groups /\ ob[t] \in Objects /\ ob[t] # NULL /\ Place(t) = pc[t]
    BY PlainPlace, LifeAssumption
    DEF LocalsOK, ObjectPlaces, AttachedPlaces, DetachPlaces, AllPlaces, RefPlaces
  <1>2. ASSUME NEW u \in Threads, Place(u) = "cv_unlock", cg[u] = cg[t]
        PROVE  FALSE
    <2>1. attached_mtx[cg[t]] = t /\ attached_mtx[cg[t]] = u
      BY <1>2 DEF Attached, MutexHeld, MutexPlaces
    <2> QED
      BY <1>2, <2>1
  <1>3. ASSUME NEW u \in Threads, Place(u) = "wait_unlock", cg[u] = cg[t]
        PROVE  FALSE
    <2> ob[u] \in Objects /\ ob[u] # NULL /\ obj_cmgroup[ob[u]] = cg[t]
      BY <1>3, LifeAssumption
      DEF Attached, GroupHeld, Places, PlaceOK, LocalsOK, ObjectPlaces, AttachedPlaces
    <2>3. ~ \E w \in Threads : Place(w) = "detach_end" /\ ob[w] = ob[u]
      BY <1>3 DEF Attached, ObjectHeld, DetachPlaces
    <2>4. attached[cg[t]] = ob[u]
      BY <2>3 DEF Attached, BothWays
    <2>5. CASE pc[t] = "attach"
      BY <2>4, <2>5 DEF Attached, GroupHeld
    <2>6. CASE pc[t] = "detach"
      <3>1. obj_cmgroup[ob[t]] = cg[t]
        BY <2>6 DEF Attached, GroupHeld, AttachedPlaces, DetachPlaces
      <3>3. ~ \E w \in Threads : Place(w) = "detach_end" /\ ob[w] = ob[t]
        BY <2>6 DEF Attached, ObjectHeld, DetachPlaces
      <3>4. ob[t] = ob[u]
        BY <2>4, <3>1, <3>3 DEF Attached, BothWays
      <3> QED
        BY <1>3, <2>6, <3>4 DEF Attached, ObjectHeld, DetachPlaces
    <2> QED
      BY <2>5, <2>6
  <1> QED
    BY <1>2, <1>3 DEF Locked

\* Calls that take no spinlock and release none.
LEMMA QuietLocked ==
    ASSUME Places, Locked, NEW t \in Threads,
           \/ AssociateOther(t) \/ SetCvMutex(t) \/ AttachRefused(t) \/ AttachBegin(t)
           \/ AttachFail(t) \/ DetachBegin(t) \/ AssociateSame(t) \/ AssociateSet(t)
           \/ AttachEnd(t) \/ AttachUnref(t) \/ DetachEnd(t)
           \/ \E g \in Groups :
                 \/ sys_cmgroup_associate(t, g) \/ cmgroup_set_concurrency_value(t, g)
                 \/ \E o \in Objects : Attach(t, g, o)
           \/ \E o \in Objects : FetchSame(t, o) \/ (Destroy(t, o) /\ obj_cmgroup[o] # NULL)
    PROVE  Locked'
  <1> TypesOK /\ PlaceOK(t)
    BY DEF Places
  <1>1. Aside(t)
    BY OneThread, Zenon DEF ThreadStep, CallStep
  <1>2. UNCHANGED <<holder, lockptr, tpc>>
    <2> USE DEF attachVars, taskletVars
    <2>1. ASSUME \/ AssociateOther(t) \/ SetCvMutex(t) \/ AttachRefused(t) \/ AttachBegin(t)
                 \/ AttachFail(t) \/ DetachBegin(t)
          PROVE  UNCHANGED <<holder, lockptr, tpc>>
      BY <2>1, Zenon DEF AssociateOther, SetCvMutex, AttachRefused, AttachBegin, AttachFail,
           DetachBegin
    <2>2. ASSUME \/ AssociateSame(t) \/ AssociateSet(t) \/ AttachEnd(t) \/ AttachUnref(t)
                 \/ DetachEnd(t)
          PROVE  UNCHANGED <<holder, lockptr, tpc>>
      BY <2>2, Zenon DEF AssociateSame, AssociateSet, AttachEnd, AttachUnref, DetachEnd
    <2>3. ASSUME \/ \E g \in Groups :
                       \/ sys_cmgroup_associate(t, g) \/ cmgroup_set_concurrency_value(t, g)
                       \/ \E o \in Objects : Attach(t, g, o)
                 \/ \E o \in Objects : FetchSame(t, o) \/ Destroy(t, o)
          PROVE  UNCHANGED <<holder, lockptr, tpc>>
      BY <2>3, Zenon DEF sys_cmgroup_associate, cmgroup_set_concurrency_value, Attach, FetchSame,
           Destroy
    <2> QED
      BY <2>1, <2>2, <2>3, Zenon
  <1>3. ASSUME NEW l, NEW m, Moved(t, l, m),
               m # "cv_unlock", m # "wait_unlock", m # "fetch_set"
        PROVE  Locked'
    BY <1>1, <1>2, <1>3, MovedLocked
  <1> QED
    BY <1>3, MovesAssociate, MovesFetch, MovesSetCv, MovesAttach, MovesDetach, Zenon

\* Calls that take a spinlock, or release the one that they have.
LEMMA LockersLocked ==
    ASSUME Places, Locked, NEW t \in Threads,
           \/ FetchSet(t) \/ WaitLock(t) \/ WaitUnlock(t) \/ SetCvLock(t) \/ SetCvUnlock(t)
           \/ \E o \in Objects : FetchAssociate(t, o)
    PROVE  Locked'
  <1> /\ TypesOK /\ PlaceOK(t)
      /\ holder \in [Locks -> Holders \cup {NULL}] /\ lockptr \in [Groups -> Locks]
      /\ cg \in [Threads -> Groups \cup {NULL}] /\ ob \in [Threads -> Objects \cup {NULL}]
    BY DEF Places, TypesOK
  <1>a. Aside(t)
    BY OneThread, Zenon DEF ThreadStep, CallStep
  <1>b. UNCHANGED <<lockptr, tpc>>
    BY Zenon DEF FetchSet, WaitLock, WaitUnlock, SetCvLock, SetCvUnlock, FetchAssociate,
         attachVars, taskletVars
  <1>c. ASSUME NEW l, NEW m, Moved(t, l, m), l # "idle"
        PROVE  cg[t] \in Groups /\ lockptr[cg[t]] \in Locks
    BY <1>c DEF Moved, PlaceOK, LocalsOK
  <1>1. CASE WaitLock(t) \/ SetCvLock(t)
    <2>1. \E l, m : Moved(t, l, m) /\ l # "idle" /\ m # "fetch_set"
      BY <1>1, MovesFetch, MovesSetCv
    <2>2. PICK l, m : Moved(t, l, m) /\ l # "idle" /\ m # "fetch_set"
      BY <2>1
    <2>3. cg[t] \in Groups /\ lockptr[cg[t]] \in Locks
      BY <1>c, <2>2
    <2>4. /\ holder' = [holder EXCEPT ![lockptr[cg[t]]] = t] /\ holder[lockptr[cg[t]]] = NULL
          /\ cg'[t] = cg[t]
      BY <1>1 DEF WaitLock, SetCvLock, Acquire, callVars
    <2> QED
      BY <1>a, <1>b, <2>2, <2>3, <2>4, MovedLocked
  <1>2. CASE WaitUnlock(t) \/ SetCvUnlock(t)
    <2>1. \E l : Moved(t, l, "idle") /\ l \in {"cv_unlock", "wait_unlock"}
      BY <1>2, MovesFetch, MovesSetCv
    <2>2. PICK l : Moved(t, l, "idle") /\ l \in {"cv_unlock", "wait_unlock"}
      BY <2>1
    <2>3. cg[t] \in Groups /\ holder[lockptr[cg[t]]] = t
      BY <1>c, <2>2 DEF Locked, Moved
    <2>4. holder' = [holder EXCEPT ![lockptr[cg[t]]] = NULL]
      BY <1>2, Zenon DEF WaitUnlock, SetCvUnlock, Release
    <2>5. \A x \in Locks : holder[x] # t => holder'[x] = holder[x]
      BY <2>3, <2>4
    <2> QED
      BY <1>a, <1>b, <2>2, <2>5, MovedLocked
  <1>3. CASE FetchSet(t)
    <2>1. Moved(t, "fetch_set", IF ob[t] \in Epolls THEN "idle" ELSE "wait_lock")
      BY <1>3, MovesFetch, Zenon
    <2>2. \A x \in Locks : holder[x] # t => holder'[x] = holder[x]
      BY <1>3, <2>1 DEF FetchSet, Release, Locked, Moved
    <2> QED
      BY <1>a, <1>b, <2>1, <2>2, MovedLocked
  <1>4. ASSUME NEW o \in Objects, FetchAssociate(t, o)
        PROVE  Locked'
    <2>1. Moved(t, "idle", "fetch_set")
      BY <1>4, MovesFetch, Zenon
    <2>2. /\ \A x \in Locks : holder[x] # NULL => holder'[x] = holder[x]
          /\ o \in Epolls => holder'[o] = t
          /\ ob'[t] = o
      BY <1>4 DEF FetchAssociate, Acquire, Locks
    <2> QED
      BY <1>a, <1>b, <2>1, <2>2, MovedLocked
  <1> QED
    BY <1>1, <1>2, <1>3, <1>4, Zenon

\* The routines: after the lock-out the tasklet has left the spinlock.
LEMMA RoutinesLocked ==
    ASSUME Places, Locked, NEW t \in Threads, Routine(t)
    PROVE  Locked'
  <1>1. Stayed /\ Stays(t) /\ Aside(t)
    BY RoutineStays
  <1>2. UNCHANGED <<holder, lockptr, tpc>>
    BY Zenon DEF Routine, FireCas, FireSchedule, Opening, DissociateUnref,
         sys_cmgroup_dissociate, cmgroup_lockout_tasklet, LockoutLock, cmgroup_unlockout_tasklet,
         attachVars, taskletVars
  <1>3. \A u \in Threads : pc'[u] \in {"attach", "detach"} /\ pc'[u] # pc[u]
           => u = t /\ pc[t] = "lockout_lock"
    BY <1>1 DEF Stays, Aside, Rests
  <1>4. ASSUME pc[t] = "lockout_lock", pc'[t] \in {"attach", "detach"}
        PROVE  tpc[cg[t]] \notin TaskletLocked
    <2>1. LockoutLock(t)
      BY <1>4 DEF Routine, FireCas, FireSchedule, Opening, DissociateUnref,
         sys_cmgroup_dissociate, cmgroup_lockout_tasklet, cmgroup_unlockout_tasklet
    <2>2. cg[t] \in Groups
      BY <1>4, Here DEF Places, LockoutPcs
    <2> QED
      BY <2>1, <2>2, LifeAssumption DEF LockoutLock, Locked
  <1> QED
    BY <1>1, <1>2, <1>3, <1>4, StayLocked

\* The pointer is changed with the tasklet locked out and nobody inside.
LEMMA AttachersLocked ==
    ASSUME Places, Attached, Locked, NEW t \in Threads, AttachDo(t) \/ DetachDo(t)
    PROVE  Locked'
  <1> /\ TypesOK /\ PlaceOK(t) /\ lockptr \in [Groups -> Locks]
    BY DEF Places, TypesOK
  <1>1. Aside(t) /\ pc[t] \in {"attach", "detach"}
    <2>1. Aside(t)
      BY OneThread, Zenon DEF ThreadStep
    <2> QED
      BY <2>1 DEF AttachDo, DetachDo
  <1>2. \E l, m : Moved(t, l, m) /\ m \in {"attach_end", "attach_fail", "detach_end"}
    BY MovesAttach, MovesDetach
  <1>3. PICK l, m : Moved(t, l, m) /\ m \in {"attach_end", "attach_fail", "detach_end"}
    BY <1>2
  <1>4. /\ tpc[cg[t]] \notin TaskletLocked
        /\ \A u \in Threads : Place(u) \in {"cv_unlock", "wait_unlock"} => cg[u] # cg[t]
    BY <1>1, NobodyInside
  <1>5. UNCHANGED <<holder, tpc>> /\ \A h \in Groups \ {cg[t]} : lockptr'[h] = lockptr[h]
    BY DEF AttachDo, DetachDo, attachVars, taskletVars
  <1>6. \A u \in Threads : Place(u) \in {"cv_unlock", "wait_unlock"} => cg[u] \in Groups
    BY DEF Places, PlaceOK, LocalsOK
  <1> QED
    BY <1>1, <1>3, <1>4, <1>5, <1>6 DEF Locked, Moved, Aside, Rests

\* The tasklet takes and releases the lock that it has locked through the pointer.
LEMMA TaskletsLocked ==
    ASSUME Places, Owned, Locked, NEW g \in Groups, TaskletStep(g)
    PROVE  Locked'
  <1> /\ tpc \in [Groups -> TaskletPcs] /\ holder \in [Locks -> Holders \cup {NULL}]
      /\ lockptr \in [Groups -> Locks] /\ ob \in [Threads -> Objects \cup {NULL}]
    BY DEF Places, TypesOK
  <1>a. \A u \in Threads : Rests(u)
    BY TaskletAside
  <1> /\ Stayed /\ \A u \in Threads : pc'[u] = pc[u]
    BY <1>a DEF Rests, Stayed
  <1>b. /\ \A u \in Threads : pc[u] \in {"attach", "detach"} => cg[u] \in Groups
        /\ \A u \in Threads : Place(u) \in {"cv_unlock", "wait_unlock"} => cg[u] \in Groups
        /\ \A u \in Threads : u # g /\ u # NULL /\ (ob[u] \in Epolls => ob[u] \in Locks)
        /\ \A h \in Groups : h # NULL
    <2>1. \A u \in Threads : pc[u] \in {"attach", "detach"} => cg[u] \in Groups
      BY Here DEF Places, AllPlaces, RefPlaces, AttachedPlaces, DetachPlaces
    <2> QED
      BY <2>1, LifeAssumption DEF Places, PlaceOK, LocalsOK, Locks
  <1>c. UNCHANGED lockptr
    BY Zenon DEF TaskletStep, TaskletStart, TaskletLock, TaskletClear, TaskletHandOver,
         TaskletUnlock, TaskletGiveUp, TaskletReassert, TaskletUnref, TaskletReturn, attachVars
  <1>d. \A h \in Groups \ {g} : tpc'[h] = tpc[h]
    BY Zenon DEF TaskletStep, TaskletStart, TaskletLock, TaskletClear, TaskletHandOver,
         TaskletUnlock, TaskletGiveUp, TaskletReassert, TaskletUnref, TaskletReturn, TaskletGoto
  <1>1. CASE TaskletLock(g)
    <2>1. tpc[g] = "again" /\ holder[lockptr[g]] = NULL
          /\ holder' = [holder EXCEPT ![lockptr[g]] = g]
      BY <1>1 DEF TaskletLock, Acquire
    <2>2. \A u \in Threads : pc[u] \in {"attach", "detach"} => cg[u] # g
      BY <2>1 DEF Owned, Owns
    <2> QED
      BY <1>b, <1>c, <1>d, <2>1, <2>2 DEF Locked, Stayed
  <1>2. CASE TaskletUnlock(g)
    <2>1. tpc[g] \in TaskletLocked /\ tpc'[g] \notin TaskletLocked
      BY <1>2 DEF TaskletUnlock, TaskletGoto, TaskletLocked
    <2>2. \A x \in Locks : holder[x] # g => holder'[x] = holder[x]
      BY <1>2, <2>1 DEF TaskletUnlock, Release, Locked
    <2> QED
      BY <1>b, <1>c, <1>d, <2>1, <2>2 DEF Locked, Stayed
  <1>3. CASE ~TaskletLock(g) /\ ~TaskletUnlock(g)
    <2>1. UNCHANGED holder /\ (tpc[g] \in TaskletLocked <=> tpc'[g] \in TaskletLocked)
      BY <1>3, Zenon DEF TaskletStep, TaskletStart, TaskletClear, TaskletHandOver, TaskletGiveUp,
         TaskletReassert, TaskletUnref, TaskletReturn, TaskletGoto, TaskletLocked
    <2> QED
      BY <1>b, <1>c, <1>d, <2>1 DEF Locked, Stayed
  <1> QED
    BY <1>1, <1>2, <1>3

\* The fourth layer.
LEMMA StepLocked ==
    ASSUME Places, Attached, Owned, Locked, [Next]_vars
    PROVE  Locked'
  <1>1. ASSUME UNCHANGED <<callVars, pc, task_cmgroup, holder, lockptr, tpc>>
        PROVE  Locked'
    <2>1. Stayed /\ pc' = pc
      BY <1>1, AllRest DEF Stayed, Rests
    <2> QED
      BY <1>1, <2>1, StayLocked
  <1>2. ASSUME NEW t \in Threads, NEW o \in Objects, Destroy(t, o)
        PROVE  Locked'
    <2>1. CASE obj_cmgroup[o] = NULL
      BY <1>1, <1>2, <2>1 DEF Destroy, callVars, attachVars, taskletVars
    <2> QED
      BY <1>2, <2>1, QuietLocked
  <1>3. ASSUME NEW t \in Threads, NEW g \in Groups,
               cmgroup_newgroup(t, g) \/ cmgroup_fop_release(t, g)
        PROVE  Locked'
    BY <1>1, <1>3, Zenon DEF cmgroup_newgroup, cmgroup_fop_release, attachVars, taskletVars
  <1>4. ASSUME (\E g \in Groups : __cmgroup_free_work(g)) \/ UNCHANGED vars
        PROVE  Locked'
    BY <1>1, <1>4, Zenon DEF __cmgroup_free_work, vars, attachVars, taskletVars
  <1> QED
    BY <1>2, <1>3, <1>4, QuietLocked, LockersLocked, RoutinesLocked, AttachersLocked,
       TaskletsLocked, Zenon
    DEF Next, ThreadStep, CallStep, Over, Routine

-----------------------------------------------------------------------------
(* The theorems.                                                           *)

Shape == Places /\ Attached /\ Owned /\ Locked

\* Nothing is allocated, attached or locked at first.
LEMMA InitShape == Init => Shape
  <1> SUFFICES ASSUME Init PROVE Shape
    OBVIOUS
  <1>1. \A t \in Threads : Place(t) = "idle" /\ PlaceOK(t)
    BY DEF Init, Place, PlaceOK, At, LocalsOK, FirePcs, LockoutPcs, AllPlaces, RefPlaces,
           AttachedPlaces, DetachPlaces, ObjectPlaces
  <1>2. TypesOK
    BY LifeAssumption
    DEF Init, TypesOK, Locks, Holders, Pcs, TaskletPcs, FirePcs, LockoutPcs
  <1>3. Attached
    BY <1>1, LifeAssumption
    DEF Init, Attached, MutexHeld, ObjectHeld, GroupHeld, BothWays, PointerSet, MutexPlaces,
        AttachedPlaces, DetachPlaces, Objects
  <1>4. Owned
    BY DEF Init, Owned, Owns
  <1>5. Locked
    BY <1>1 DEF Init, Locked, TaskletLocked
  <1> QED
    BY <1>1, <1>2, <1>3, <1>4, <1>5 DEF Shape, Places

\* Every step preserves the four layers.
LEMMA StepShape == Shape /\ [Next]_vars => Shape'
  BY StepPlaces, StepAttached, StepOwned, StepLocked, Zenon DEF Shape

\* What the critical sections of attached_mtx, of the lock-out of the tasklet and
\* of the spinlocks exclude is excluded at all times.
THEOREM ShapeKept == Spec => []Shape
  BY InitShape, StepShape, PTL DEF Spec

\* The spinlock taken through cmgroup->lock is the one that is released, by the
\* tasklet, by cmgroup_wait and by sys_cmgroup_set_concurrency_value, although
\* attaching and detaching redirect the pointer.
THEOREM PointerIsStable == Spec => []PointerStable
  <1>1. ASSUME Shape PROVE PointerStable
    <2>1. ASSUME NEW t \in Threads, In(t, {"cv_unlock", "wait_unlock"})
          PROVE  Place(t) \in {"cv_unlock", "wait_unlock"}
      <3> PICK p : Place(t) = p /\ At(t, p)
        BY <1>1 DEF Shape, Places, PlaceOK
      <3> QED
        BY <2>1 DEF At, InDissociate, In, FirePcs, LockoutPcs, AllPlaces, RefPlaces,
                    AttachedPlaces, DetachPlaces
    <2> QED
      BY <1>1, <2>1 DEF Shape, Locked, TaskletLocked, PointerStable
  <1> QED
    BY <1>1, ShapeKept, PTL

\* Group and object are attached to each other or not at all, and a group to one
\* object at most, however calls of ep_attach_cmgroup, io_set_cmgroup, ep_free and
\* free_ioctx interleave; cmgroup->lock is that of the epoll it is attached to.
THEOREM AttachedOneToOne == Spec => []OneToOne
  <1>1. ASSUME Shape PROVE OneToOne
    <2>1. ASSUME NEW g \in Groups, NEW o \in Objects, obj_cmgroup[o] = g, object[o] = "open"
          PROVE  attached[g] = o
      <3>1. ASSUME NEW t \in Threads, Place(t) = "detach_end", ob[t] = o
            PROVE  FALSE
        BY <1>1, <2>1, <3>1, LifeAssumption DEF Shape, Attached, ObjectHeld, DetachPlaces
      <3> QED
        BY <1>1, <2>1, <3>1 DEF Shape, Attached, BothWays
    <2>2. ASSUME NEW g \in Groups, NEW o \in Objects
          PROVE  lockptr[g] = o <=> (attached[g] = o /\ o \in Epolls)
      BY <1>1, LifeAssumption DEF Shape, Attached, PointerSet, Objects
    <2> QED
      BY <1>1, <2>1, <2>2 DEF Shape, Attached, BothWays, OneToOne
  <1> QED
    BY <1>1, ShapeKept, PTL
=============================================================================

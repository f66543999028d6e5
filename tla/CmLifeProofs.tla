----------------------------- MODULE CmLifeProofs -----------------------------
(***************************************************************************)
(* References to groups, for any number of groups, objects and threads:    *)
(* they are counted exactly, and no group is used after it has been        *)
(* released.                                                               *)
(*                                                                         *)
(* Given the invariant Shape of CmLifeLocked, a group in use has a         *)
(* reference (UsedReferred), so its count is not zero and its memory live; *)
(* every step takes, drops or hands over the reference it is counted for.  *)
(***************************************************************************)
EXTENDS CmLifeLocked

\* The memory is live exactly as long as there are references.
Counted == \A g \in Groups : kref[g] \in Nat /\ (memory[g] = "live" <=> kref[g] # 0)

-----------------------------------------------------------------------------
(* What is counted before and after a step.                                *)

\* A group in use has a reference.
LEMMA UsedReferred ==
    ASSUME Places, Attached, Owned, NEW g \in Groups, InUse(g)
    PROVE  Refs(g) >= 1
  <1>1. g \in scheduled \/ tpc[g] \notin {"idle", "run"} => RunRefs(g) >= 1
    BY DEF Owned, RunRefs
  <1>2. ASSUME NEW t \in Threads, cg[t] = g
        PROVE  Place(t) \in RefPlaces \/ (ob[t] \in Objects /\ obj_cmgroup[ob[t]] = g)
    BY <1>2, LifeAssumption
    DEF Places, PlaceOK, At, LocalsOK, AllPlaces, ObjectPlaces, Attached, GroupHeld
  <1>3. \/ FdRefs(g) >= 1 \/ RunRefs(g) >= 1 \/ TaskRefs(g) # {} \/ ObjRefs(g) # {}
        \/ CallRefs(g) # {}
    BY <1>1, <1>2 DEF InUse, FdRefs, TaskRefs, ObjRefs, CallRefs
  <1>4. /\ TaskRefs(g) # {} => Cardinality(TaskRefs(g)) # 0
        /\ ObjRefs(g) # {} => Cardinality(ObjRefs(g)) # 0
        /\ CallRefs(g) # {} => Cardinality(CallRefs(g)) # 0
    BY RefsFinite, FS_EmptySet
  <1> QED
    BY <1>3, <1>4, RefsFinite DEF Refs

\* The count of references is exact.
Exact == \A g \in Groups : kref[g] = Refs(g)

\* What a step leaves alone counts as before.
LEMMA SameRefs ==
    ASSUME NEW g
    PROVE  /\ UNCHANGED fds => FdRefs(g)' = FdRefs(g)
           /\ UNCHANGED <<scheduled, tpc>> => RunRefs(g)' = RunRefs(g)
           /\ UNCHANGED task_cmgroup => TaskRefs(g)' = TaskRefs(g)
           /\ UNCHANGED obj_cmgroup => ObjRefs(g)' = ObjRefs(g)
           /\ Stayed => CallRefs(g)' = CallRefs(g)
           /\ (\A u \in Threads : Rests(u)) => /\ CallRefs(g)' = CallRefs(g)
                                               /\ FireRefs(g)' = FireRefs(g)
                                               /\ TaskRefs(g)' = TaskRefs(g)
  <1>1. UNCHANGED fds => FdRefs(g)' = FdRefs(g)
    BY DEF FdRefs
  <1>2. UNCHANGED <<scheduled, tpc>> => RunRefs(g)' = RunRefs(g)
    BY DEF RunRefs
  <1>3. Stayed => CallRefs(g)' = CallRefs(g)
    BY DEF CallRefs, Stayed
  <1>4. (\A u \in Threads : Rests(u)) => /\ CallRefs(g)' = CallRefs(g)
                                         /\ FireRefs(g)' = FireRefs(g)
                                         /\ TaskRefs(g)' = TaskRefs(g)
    BY DEF CallRefs, FireRefs, TaskRefs, Fired, Rests
  <1> QED
    BY <1>1, <1>2, <1>3, <1>4 DEF TaskRefs, ObjRefs

\* What a move means for the references of calls; it concerns no other.
LEMMA MovedRefs ==
    ASSUME NEW t \in Threads, NEW l, NEW m, Aside(t), Moved(t, l, m), NEW h
    PROVE  /\ FireRefs(h)' = FireRefs(h)
           /\ (l \in RefPlaces <=> m \in RefPlaces) /\ (l \in RefPlaces => cg'[t] = cg[t])
                => CallRefs(h)' = CallRefs(h)
           /\ l \in RefPlaces /\ m \notin RefPlaces =>
                /\ t \in CallRefs(cg[t])
                /\ CallRefs(h)' = IF h = cg[t] THEN CallRefs(h) \ {t} ELSE CallRefs(h)
           /\ l \notin RefPlaces /\ m \in RefPlaces =>
                /\ t \notin CallRefs(cg'[t])
                /\ CallRefs(h)' = IF h = cg'[t] THEN CallRefs(h) \cup {t} ELSE CallRefs(h)
  <1>1. FireRefs(h)' = FireRefs(h)
    BY DEF Aside, Rests, Moved, FireRefs, Fired
  <1> QED
    BY <1>1 DEF Aside, Rests, Moved, CallRefs

\* No reference is taken, dropped or passed on.
LEMMA QuietExact ==
    ASSUME Exact, UNCHANGED <<kref, fds, task_cmgroup, obj_cmgroup>>,
           \A h \in Groups : /\ RunRefs(h)' = RunRefs(h) /\ CallRefs(h)' = CallRefs(h)
                             /\ FireRefs(h)' = FireRefs(h)
    PROVE  Exact'
  BY SameRefs DEF Exact, Refs

\* A call goes on without taking or dropping a reference.
LEMMA KeepExact ==
    ASSUME Exact, NEW t \in Threads, NEW l, NEW m, Aside(t), Moved(t, l, m),
           UNCHANGED <<kref, fds, task_cmgroup, obj_cmgroup, scheduled, tpc>>,
           l \in RefPlaces <=> m \in RefPlaces, l \in RefPlaces => cg'[t] = cg[t]
    PROVE  Exact'
  BY MovedRefs, SameRefs, QuietExact

\* A call takes a reference, as cmgroup_from_fd does.
LEMMA TakeExact ==
    ASSUME Places, Exact, NEW t \in Threads, NEW l, NEW m, Aside(t), Moved(t, l, m),
           l \notin RefPlaces, m \in RefPlaces, NEW g \in Groups, cg'[t] = g,
           kref' = [kref EXCEPT ![g] = @ + 1],
           UNCHANGED <<fds, task_cmgroup, obj_cmgroup, scheduled, tpc>>
    PROVE  Exact'
  <1> SUFFICES ASSUME NEW h \in Groups PROVE kref'[h] = Refs(h)'
    BY DEF Exact
  <1>1. kref[h] = Refs(h) /\ kref'[h] = IF h = g THEN kref[h] + 1 ELSE kref[h]
    BY DEF Exact, Places, TypesOK
  <1>2. Cardinality(CallRefs(h)') = IF h = g THEN Cardinality(CallRefs(h)) + 1
                                             ELSE Cardinality(CallRefs(h))
    BY MovedRefs, RefsFinite, CardMore
  <1>3. /\ FireRefs(h)' = FireRefs(h) /\ FdRefs(h)' = FdRefs(h)
        /\ RunRefs(h)' = RunRefs(h) /\ TaskRefs(h)' = TaskRefs(h)
        /\ ObjRefs(h)' = ObjRefs(h)
    BY MovedRefs, SameRefs
  <1> QED
    BY <1>1, <1>2, <1>3, RefsFinite DEF Refs

\* A call drops its reference.
LEMMA DropExact ==
    ASSUME Places, Exact, NEW t \in Threads, NEW l, NEW m, Aside(t), Moved(t, l, m),
           l \in RefPlaces, m \notin RefPlaces, cg[t] \in Groups,
           kref' = [kref EXCEPT ![cg[t]] = @ - 1],
           UNCHANGED <<fds, task_cmgroup, obj_cmgroup, scheduled, tpc>>
    PROVE  Exact'
  <1> SUFFICES ASSUME NEW h \in Groups PROVE kref'[h] = Refs(h)'
    BY DEF Exact
  <1>1. kref[h] = Refs(h) /\ kref'[h] = IF h = cg[t] THEN kref[h] - 1 ELSE kref[h]
    BY DEF Exact, Places, TypesOK
  <1>2. Cardinality(CallRefs(h)') = IF h = cg[t] THEN Cardinality(CallRefs(h)) - 1
                                                 ELSE Cardinality(CallRefs(h))
    BY MovedRefs, RefsFinite, CardLess
  <1>3. /\ FireRefs(h)' = FireRefs(h) /\ FdRefs(h)' = FdRefs(h)
        /\ RunRefs(h)' = RunRefs(h) /\ TaskRefs(h)' = TaskRefs(h)
        /\ ObjRefs(h)' = ObjRefs(h)
    BY MovedRefs, SameRefs
  <1> QED
    BY <1>1, <1>2, <1>3, RefsFinite DEF Refs

\* The task keeps the reference of the call, as at the end of cmgroup_associate.
LEMMA TaskExact ==
    ASSUME Places, Exact, NEW t \in Threads, NEW l, NEW m, Aside(t), Moved(t, l, m),
           l \in RefPlaces, m \notin RefPlaces, cg[t] \in Groups, task_cmgroup[t] = NULL,
           task_cmgroup' = [task_cmgroup EXCEPT ![t] = cg[t]],
           UNCHANGED <<kref, fds, obj_cmgroup, scheduled, tpc>>
    PROVE  Exact'
  <1>1. /\ t \notin TaskRefs(cg[t])
        /\ \A h \in Groups : TaskRefs(h)' = IF h = cg[t] THEN TaskRefs(h) \cup {t} ELSE TaskRefs(h)
    BY LifeAssumption DEF TaskRefs, Places, TypesOK
  <1> SUFFICES ASSUME NEW h \in Groups PROVE kref'[h] = Refs(h)'
    BY DEF Exact
  <1>2. kref'[h] = Refs(h)
    BY DEF Exact
  <1>5. /\ FireRefs(h)' = FireRefs(h) /\ FdRefs(h)' = FdRefs(h)
        /\ RunRefs(h)' = RunRefs(h) /\ ObjRefs(h)' = ObjRefs(h)
    BY MovedRefs, SameRefs
  <1>3. Cardinality(CallRefs(h)') = IF h = cg[t] THEN Cardinality(CallRefs(h)) - 1
                                                 ELSE Cardinality(CallRefs(h))
    BY MovedRefs, RefsFinite, CardLess
  <1>4. Cardinality(TaskRefs(h)') = IF h = cg[t] THEN Cardinality(TaskRefs(h)) + 1
                                                 ELSE Cardinality(TaskRefs(h))
    BY <1>1, RefsFinite, CardMore
  <1> QED
    BY <1>2, <1>3, <1>4, <1>5, RefsFinite DEF Refs

-----------------------------------------------------------------------------
(* The steps of calls.                                                     *)

Keep(t) ==
    \/ AssociateOther(t) \/ SetCvMutex(t) \/ SetCvLock(t) \/ AttachRefused(t)
    \/ AttachBegin(t) \/ AttachFail(t) \/ (AttachDo(t) /\ obj_cmgroup[ob[t]] # NULL)
Pass(t) ==
    \/ WaitLock(t) \/ WaitUnlock(t) \/ AttachEnd(t) \/ DetachBegin(t) \/ DetachDo(t)
    \/ \E o \in Objects : FetchSame(t, o) \/ (Destroy(t, o) /\ obj_cmgroup[o] # NULL)
Take(t, g) ==
    \/ sys_cmgroup_associate(t, g) \/ cmgroup_set_concurrency_value(t, g)
    \/ \E o \in Objects : Attach(t, g, o) \/ (FetchAssociate(t, o) /\ g = obj_cmgroup[o])
Drop(t) == AssociateSame(t) \/ SetCvUnlock(t) \/ AttachUnref(t)

\* A call goes on with its reference ...
LEMMA KeepersExact ==
    ASSUME Places, Exact, NEW t \in Threads, Keep(t)
    PROVE  Exact'
  <1> TypesOK /\ PlaceOK(t)
    BY DEF Places
  <1>1. Aside(t)
    BY OneThread, Zenon DEF Keep, ThreadStep
  <1>2. UNCHANGED <<kref, fds, task_cmgroup, obj_cmgroup, scheduled, tpc, cg>>
    BY Zenon
    DEF Keep, AssociateOther, SetCvMutex, SetCvLock, AttachRefused, AttachBegin, AttachFail,
        AttachDo, groupVars, attachVars, taskletVars, callVars
  <1>3. ASSUME NEW l \in RefPlaces, NEW m \in RefPlaces, Moved(t, l, m)
        PROVE  Exact'
    BY <1>1, <1>2, <1>3, KeepExact, Zenon
  <1>4. AttachDo(t) /\ obj_cmgroup[ob[t]] # NULL => Moved(t, "attach", "attach_fail")
    BY MovesAttach
  <1>5. /\ "assoc" \in RefPlaces /\ "assoc_set" \in RefPlaces /\ "cv_mtx" \in RefPlaces
        /\ "cv_lock" \in RefPlaces /\ "cv_unlock" \in RefPlaces /\ "attach_mtx" \in RefPlaces
        /\ "attach" \in RefPlaces /\ "attach_fail" \in RefPlaces /\ "attach_unref" \in RefPlaces
    BY DEF RefPlaces
  <1> QED
    BY <1>3, <1>4, <1>5, MovesAssociate, MovesSetCv, MovesAttach, Zenon DEF Keep

\* ... or without one.
LEMMA PassersExact ==
    ASSUME Places, Exact, NEW t \in Threads, Pass(t)
    PROVE  Exact'
  <1> TypesOK /\ PlaceOK(t)
    BY DEF Places
  <1>1. Aside(t)
    BY OneThread, Zenon DEF Pass, ThreadStep, CallStep
  <1>2. UNCHANGED <<kref, fds, task_cmgroup, obj_cmgroup, scheduled, tpc>>
    BY Zenon
    DEF Pass, WaitLock, WaitUnlock, AttachEnd, DetachBegin, DetachDo, FetchSame, Destroy,
        groupVars, attachVars, taskletVars
  <1>3. ASSUME NEW l, NEW m, Moved(t, l, m), l \notin RefPlaces, m \notin RefPlaces
        PROVE  Exact'
    BY <1>1, <1>2, <1>3, KeepExact, Zenon
  <1>4. /\ "idle" \notin RefPlaces /\ "wait_lock" \notin RefPlaces
        /\ "wait_unlock" \notin RefPlaces /\ "attach_end" \notin RefPlaces
        /\ "detach_mtx" \notin RefPlaces /\ "detach" \notin RefPlaces
        /\ "detach_end" \notin RefPlaces
    BY DEF RefPlaces
  <1> QED
    BY <1>3, <1>4, MovesFetch, MovesAttach, MovesDetach, Zenon DEF Pass

\* A call takes a reference.
LEMMA TakersExact ==
    ASSUME Places, Exact, NEW t \in Threads, NEW g \in Groups, Take(t, g)
    PROVE  Exact'
  <1> TypesOK /\ PlaceOK(t)
    BY DEF Places
  <1>1. Aside(t)
    BY OneThread, Zenon DEF Take, CallStep
  <1>2. /\ UNCHANGED <<fds, task_cmgroup, obj_cmgroup, scheduled, tpc>>
        /\ kref' = [kref EXCEPT ![g] = @ + 1] /\ cg' = [cg EXCEPT ![t] = g]
    BY Zenon
    DEF Take, sys_cmgroup_associate, cmgroup_set_concurrency_value, Attach, FetchAssociate,
        cmgroup_from_fd, cmgroup_ref, attachVars, taskletVars
  <1>3. cg'[t] = g
    BY <1>2 DEF TypesOK
  <1>i. "idle" \notin RefPlaces
    BY DEF RefPlaces
  <1>4. ASSUME NEW m, Moved(t, "idle", m), m \in RefPlaces
        PROVE  Exact'
    BY <1>1, <1>2, <1>3, <1>4, <1>i, TakeExact, Zenon
  <1>5. /\ "assoc" \in RefPlaces /\ "cv_mtx" \in RefPlaces /\ "attach_mtx" \in RefPlaces
        /\ "fetch_set" \in RefPlaces
    BY DEF RefPlaces
  <1> QED
    BY <1>4, <1>5, MovesAssociate, MovesFetch, MovesSetCv, MovesAttach, Zenon DEF Take

\* A call drops its reference.
LEMMA DroppersExact ==
    ASSUME Places, Exact, NEW t \in Threads, Drop(t)
    PROVE  Exact' /\ cg[t] \in Groups
  <1> TypesOK /\ PlaceOK(t)
    BY DEF Places
  <1>1. Aside(t)
    BY OneThread, Zenon DEF Drop, ThreadStep
  <1>2. /\ UNCHANGED <<fds, task_cmgroup, obj_cmgroup, scheduled, tpc>>
        /\ kref' = [kref EXCEPT ![cg[t]] = @ - 1]
    BY Zenon
    DEF Drop, AssociateSame, SetCvUnlock, AttachUnref, cmgroup_unref, attachVars, taskletVars
  <1>3. cg[t] \in Groups
    <2>1. pc[t] \in {"assoc", "cv_unlock", "attach_unref"}
      BY Zenon DEF Drop, AssociateSame, SetCvUnlock, AttachUnref
    <2> QED
      BY <2>1, Here DEF AllPlaces, RefPlaces
  <1>i. "idle" \notin RefPlaces
    BY DEF RefPlaces
  <1>4. ASSUME NEW l \in RefPlaces, Moved(t, l, "idle")
        PROVE  Exact'
    BY <1>1, <1>2, <1>3, <1>4, <1>i, DropExact, Zenon
  <1>5. /\ "assoc" \in RefPlaces /\ "cv_unlock" \in RefPlaces /\ "attach_unref" \in RefPlaces
    BY DEF RefPlaces
  <1> QED
    BY <1>3, <1>4, <1>5, MovesAssociate, MovesSetCv, MovesAttach, Zenon DEF Drop

\* A task joins the group, and keeps the reference.
LEMMA JoinersExact ==
    ASSUME Places, Exact, NEW t \in Threads, AssociateSet(t) \/ FetchSet(t)
    PROVE  Exact'
  <1> TypesOK /\ PlaceOK(t)
    BY DEF Places
  <1>1. Aside(t)
    BY OneThread, Zenon DEF ThreadStep
  <1>2. /\ UNCHANGED <<kref, fds, obj_cmgroup, scheduled, tpc>>
        /\ task_cmgroup' = [task_cmgroup EXCEPT ![t] = cg[t]]
    BY Zenon DEF AssociateSet, FetchSet, groupVars, attachVars, taskletVars
  <1>3. cg[t] \in Groups
    BY Here DEF AssociateSet, FetchSet, AllPlaces, RefPlaces
  <1>4. task_cmgroup[t] = NULL
    BY PlainPlace
    DEF AssociateSet, FetchSet, At, AllPlaces, RefPlaces, FirePcs, LockoutPcs, InDissociate
  <1>5. ASSUME NEW l \in RefPlaces, NEW m, m \notin RefPlaces, Moved(t, l, m)
        PROVE  Exact'
    BY <1>1, <1>2, <1>3, <1>4, <1>5, TaskExact, Zenon
  <1>6. CASE AssociateSet(t)
    BY <1>5, <1>6, MovesAssociate DEF RefPlaces
  <1>7. CASE FetchSet(t)
    BY <1>5, <1>7, MovesFetch DEF RefPlaces
  <1> QED
    BY <1>6, <1>7

\* The object keeps the reference of the call that has attached the group.
LEMMA AttachDoExact ==
    ASSUME Places, Exact, NEW t \in Threads, AttachDo(t)
    PROVE  Exact'
  <1> TypesOK /\ PlaceOK(t)
    BY DEF Places
  <1> CASE obj_cmgroup[ob[t]] # NULL
    BY KeepersExact DEF Keep
  <1>1. CASE obj_cmgroup[ob[t]] = NULL
    <2>1. Moved(t, "attach", "attach_end") /\ Aside(t)
      BY <1>1, MovesAttach, OneThread DEF ThreadStep
    <2>2. cg[t] \in Groups /\ ob[t] \in Objects
      BY Here DEF AttachDo, AllPlaces, RefPlaces, ObjectPlaces
    <2>3. /\ UNCHANGED <<kref, fds, task_cmgroup, scheduled, tpc>>
          /\ obj_cmgroup' = [obj_cmgroup EXCEPT ![ob[t]] = cg[t]]
      BY <1>1 DEF AttachDo, groupVars, taskletVars
    <2>4. /\ ob[t] \notin ObjRefs(cg[t])
          /\ \A h \in Groups : ObjRefs(h)' = IF h = cg[t] THEN ObjRefs(h) \cup {ob[t]} ELSE ObjRefs(h)
      BY <1>1, <2>2, <2>3, LifeAssumption DEF ObjRefs, TypesOK
    <2> SUFFICES ASSUME NEW h \in Groups PROVE kref'[h] = Refs(h)'
      BY DEF Exact
    <2>5. /\ Cardinality(CallRefs(h)') = IF h = cg[t] THEN Cardinality(CallRefs(h)) - 1
                                                     ELSE Cardinality(CallRefs(h))
          /\ FireRefs(h)' = FireRefs(h)
      BY <2>1, MovedRefs, RefsFinite, CardLess DEF RefPlaces
    <2>6. Cardinality(ObjRefs(h)') = IF h = cg[t] THEN Cardinality(ObjRefs(h)) + 1
                                                  ELSE Cardinality(ObjRefs(h))
      BY <2>4, RefsFinite, CardMore
    <2>7. kref'[h] = Refs(h) /\ FdRefs(h)' = FdRefs(h) /\ RunRefs(h)' = RunRefs(h)
          /\ TaskRefs(h)' = TaskRefs(h)
      BY <2>3, SameRefs DEF Exact
    <2> QED
      BY <2>5, <2>6, <2>7, RefsFinite DEF Refs
  <1> QED
    BY <1>1

\* An object that is destroyed drops the reference.
LEMMA DetachEndExact ==
    ASSUME Places, Attached, Exact, NEW t \in Threads, DetachEnd(t)
    PROVE  Exact' /\ cg[t] \in Groups
  <1> TypesOK /\ PlaceOK(t)
    BY DEF Places
  <1>1. Moved(t, "detach_end", "idle") /\ Aside(t)
    BY MovesDetach, OneThread DEF ThreadStep
  <1>2. cg[t] \in Groups /\ ob[t] \in Objects /\ obj_cmgroup[ob[t]] = cg[t]
    BY <1>1, Here
    DEF DetachEnd, AllPlaces, ObjectPlaces, AttachedPlaces, DetachPlaces, Moved, Attached, GroupHeld
  <1>3. /\ UNCHANGED <<fds, task_cmgroup, scheduled, tpc>>
        /\ kref' = [kref EXCEPT ![cg[t]] = @ - 1]
        /\ obj_cmgroup' = [obj_cmgroup EXCEPT ![ob[t]] = NULL]
    BY DEF DetachEnd, cmgroup_unref, taskletVars
  <1>4. /\ ob[t] \in ObjRefs(cg[t])
        /\ \A h \in Groups : ObjRefs(h)' = IF h = cg[t] THEN ObjRefs(h) \ {ob[t]} ELSE ObjRefs(h)
    BY <1>2, <1>3, LifeAssumption DEF ObjRefs, TypesOK
  <1>5. ASSUME NEW h \in Groups PROVE kref'[h] = Refs(h)'
    <2>1. kref[h] = Refs(h) /\ kref'[h] = IF h = cg[t] THEN kref[h] - 1 ELSE kref[h]
      BY <1>2, <1>3 DEF Exact, TypesOK
    <2>2. CallRefs(h)' = CallRefs(h) /\ FireRefs(h)' = FireRefs(h)
      BY <1>1, MovedRefs DEF RefPlaces
    <2>4. /\ FdRefs(h)' = FdRefs(h) /\ RunRefs(h)' = RunRefs(h)
          /\ TaskRefs(h)' = TaskRefs(h)
      BY <1>3, SameRefs
    <2>3. Cardinality(ObjRefs(h)') = IF h = cg[t] THEN Cardinality(ObjRefs(h)) - 1
                                                  ELSE Cardinality(ObjRefs(h))
      BY <1>4, RefsFinite, CardLess
    <2> QED
      BY <2>1, <2>2, <2>3, <2>4, RefsFinite DEF Refs
  <1> QED
    BY <1>2, <1>5 DEF Exact

-----------------------------------------------------------------------------
(* The steps of the routines.                                              *)

\* A routine that changes no count, and in which no tasklet is fired.
Calm(t) ==
    \/ Opening(t) \/ sys_cmgroup_dissociate(t) \/ cmgroup_lockout_tasklet(t) \/ LockoutLock(t)
    \/ cmgroup_unlockout_tasklet(t)

\* Only the compare-and-swap of fire_tasklet, and the scheduling that follows it,
\* concern the reference that fire_tasklet takes.
LEMMA CalmFires ==
    ASSUME Places, NEW t \in Threads, Aside(t), Calm(t) \/ DissociateUnref(t), NEW h
    PROVE  FireRefs(h)' = FireRefs(h)
  <1> PlaceOK(t) /\ pc \in [Threads -> Pcs]
    BY DEF Places, TypesOK
  <1>1. pc[t] # "fire_sched" /\ pc'[t] # "fire_sched"
    BY Back
    DEF Calm, Opening, sys_cmgroup_dissociate, DissociateUnref, cmgroup_lockout_tasklet,
        LockoutLock, cmgroup_unlockout_tasklet, Goto, Call, Return, cmgroup_dissociate
  <1> QED
    BY <1>1 DEF FireRefs, Fired, Aside, Rests

\* They leave the count as it is.
LEMMA CalmExact ==
    ASSUME Places, Exact, NEW t \in Threads, Calm(t)
    PROVE  Exact'
  <1>1. Stayed /\ Aside(t)
    BY RoutineStays, Zenon DEF Calm, Routine
  <1>2. UNCHANGED <<kref, fds, task_cmgroup, obj_cmgroup, scheduled, tpc>>
    BY Zenon
    DEF Calm, Opening, sys_cmgroup_dissociate, cmgroup_lockout_tasklet, LockoutLock,
        cmgroup_unlockout_tasklet, groupVars, attachVars, taskletVars
  <1> QED
    BY <1>1, <1>2, CalmFires, SameRefs, QuietExact

\* The task drops its reference.
LEMMA DissociateExact ==
    ASSUME Places, Exact, NEW t \in Threads, DissociateUnref(t)
    PROVE  Exact' /\ task_cmgroup[t] \in Groups
  <1>1. Stayed /\ Aside(t)
    BY RoutineStays, Zenon DEF Routine
  <1>2. task_cmgroup[t] \in Groups
    BY Here DEF DissociateUnref, Places
  <1>3. /\ UNCHANGED <<fds, obj_cmgroup, scheduled, tpc>>
        /\ kref' = [kref EXCEPT ![task_cmgroup[t]] = @ - 1]
        /\ task_cmgroup' = [task_cmgroup EXCEPT ![t] = NULL]
    BY DEF DissociateUnref, cmgroup_unref, attachVars, taskletVars
  <1>4. /\ t \in TaskRefs(task_cmgroup[t])
        /\ \A h \in Groups : TaskRefs(h)' = IF h = task_cmgroup[t] THEN TaskRefs(h) \ {t} ELSE TaskRefs(h)
    BY <1>2, <1>3, LifeAssumption DEF TaskRefs, Places, TypesOK
  <1>5. ASSUME NEW h \in Groups PROVE kref'[h] = Refs(h)'
    <2>1. kref[h] = Refs(h) /\ kref'[h] = IF h = task_cmgroup[t] THEN kref[h] - 1 ELSE kref[h]
      BY <1>2, <1>3 DEF Exact, Places, TypesOK
    <2>2. /\ FireRefs(h)' = FireRefs(h) /\ FdRefs(h)' = FdRefs(h)
          /\ RunRefs(h)' = RunRefs(h) /\ ObjRefs(h)' = ObjRefs(h)
          /\ CallRefs(h)' = CallRefs(h)
      BY <1>1, <1>3, CalmFires, SameRefs
    <2>3. Cardinality(TaskRefs(h)') = IF h = task_cmgroup[t] THEN Cardinality(TaskRefs(h)) - 1
                                                             ELSE Cardinality(TaskRefs(h))
      BY <1>4, RefsFinite, CardLess
    <2> QED
      BY <2>1, <2>2, <2>3, RefsFinite DEF Refs
  <1> QED
    BY <1>2, <1>5 DEF Exact

\* fire_tasklet takes a reference for the tasklet, if it fires it.
LEMMA FireExact ==
    ASSUME Places, Exact, NEW t \in Threads, FireCas(t)
    PROVE  Exact' /\ Fired(t) \in Groups
  <1> PlaceOK(t) /\ pc \in [Threads -> Pcs]
    BY DEF Places, TypesOK
  <1>1. Stayed /\ Aside(t)
    BY RoutineStays, Zenon DEF Routine
  <1>2. UNCHANGED <<fds, task_cmgroup, obj_cmgroup, scheduled, tpc, cg>> /\ pc[t] = "fire"
    BY DEF FireCas, attachVars
  <1>3. Fired(t) \in Groups
    BY <1>2, Here DEF FirePcs
  <1>4. CASE Fired(t) \in tasklet_active
    <2>1. kref' = kref /\ pc'[t] # "fire_sched"
      BY <1>2, <1>4, Back DEF FireCas, Return, Goto, FirePcs
    <2>2. \A h \in Groups : FireRefs(h)' = FireRefs(h)
      BY <1>1, <1>2, <2>1 DEF FireRefs, Fired, Aside, Rests
    <2> QED
      BY <1>1, <1>2, <1>3, <2>1, <2>2, SameRefs, QuietExact
  <1>5. CASE Fired(t) \notin tasklet_active
    <2>1. /\ kref' = [kref EXCEPT ![Fired(t)] = @ + 1]
          /\ pc'[t] = "fire_sched" /\ ret' = ret
      BY <1>2, <1>5 DEF FireCas, cmgroup_ref, Goto
    <2>2. /\ t \notin FireRefs(Fired(t))
          /\ \A h \in Groups : FireRefs(h)' = IF h = Fired(t) THEN FireRefs(h) \cup {t} ELSE FireRefs(h)
      BY <1>1, <1>2, <2>1 DEF FireRefs, Fired, Aside, Rests
    <2>3. ASSUME NEW h \in Groups PROVE kref'[h] = Refs(h)'
      <3>1. kref[h] = Refs(h) /\ kref'[h] = IF h = Fired(t) THEN kref[h] + 1 ELSE kref[h]
        BY <1>3, <2>1 DEF Exact, Places, TypesOK
      <3>2. Cardinality(FireRefs(h)') = IF h = Fired(t) THEN Cardinality(FireRefs(h)) + 1
                                                        ELSE Cardinality(FireRefs(h))
        BY <2>2, RefsFinite, CardMore
      <3>3. /\ FdRefs(h)' = FdRefs(h) /\ RunRefs(h)' = RunRefs(h)
            /\ TaskRefs(h)' = TaskRefs(h) /\ ObjRefs(h)' = ObjRefs(h)
            /\ CallRefs(h)' = CallRefs(h)
        BY <1>1, <1>2, SameRefs
      <3> QED
        BY <3>1, <3>2, <3>3, RefsFinite DEF Refs
    <2> QED
      BY <1>3, <2>3 DEF Exact
  <1> QED
    BY <1>4, <1>5

\* The scheduled tasklet has it from then on.
LEMMA ScheduleExact ==
    ASSUME Places, Owned, Exact, NEW t \in Threads, FireSchedule(t)
    PROVE  Exact'
  <1> PlaceOK(t) /\ pc \in [Threads -> Pcs]
    BY DEF Places, TypesOK
  <1>1. Stayed /\ Aside(t)
    BY RoutineStays, Zenon DEF Routine
  <1>2. /\ UNCHANGED <<kref, fds, task_cmgroup, obj_cmgroup, tpc, cg>>
        /\ pc[t] = "fire_sched" /\ scheduled' = scheduled \cup {Fired(t)}
    BY DEF FireSchedule, groupVars, attachVars
  <1>3. Fired(t) \in Groups /\ Fired(t) \notin scheduled
    BY <1>2, Here DEF FirePcs, Owned, Owns
  <1>4. pc'[t] # "fire_sched"
    BY <1>2, Back DEF FireSchedule, Return, Goto, FirePcs
  <1>5. /\ t \in FireRefs(Fired(t))
        /\ \A h \in Groups : FireRefs(h)' = IF h = Fired(t) THEN FireRefs(h) \ {t} ELSE FireRefs(h)
    BY <1>1, <1>2, <1>4 DEF FireRefs, Fired, Aside, Rests
  <1> SUFFICES ASSUME NEW h \in Groups PROVE kref'[h] = Refs(h)'
    BY DEF Exact
  <1>6. Cardinality(FireRefs(h)') = IF h = Fired(t) THEN Cardinality(FireRefs(h)) - 1
                                                    ELSE Cardinality(FireRefs(h))
    BY <1>5, RefsFinite, CardLess
  <1>7. RunRefs(h)' = IF h = Fired(t) THEN RunRefs(h) + 1 ELSE RunRefs(h)
    BY <1>2, <1>3 DEF RunRefs
  <1>8. kref'[h] = Refs(h) /\ FdRefs(h)' = FdRefs(h) /\ TaskRefs(h)' = TaskRefs(h)
        /\ ObjRefs(h)' = ObjRefs(h) /\ CallRefs(h)' = CallRefs(h)
    BY <1>1, <1>2, SameRefs DEF Exact
  <1> QED
    BY <1>6, <1>7, <1>8, RefsFinite DEF Refs

\* A tasklet keeps its reference, passes it on to the next instance, or drops it.
LEMMA TaskletExact ==
    ASSUME Places, Owned, Exact, NEW g \in Groups, TaskletStep(g)
    PROVE  Exact'
  <1> tpc \in [Groups -> TaskletPcs] /\ kref \in [Groups -> Int]
    BY DEF Places, TypesOK
  <1>1. \A u \in Threads : Rests(u)
    BY TaskletAside
  <1>2. UNCHANGED <<fds, obj_cmgroup, task_cmgroup>>
    BY Zenon
    DEF TaskletStep, TaskletStart, TaskletLock, TaskletClear, TaskletHandOver, TaskletUnlock,
        TaskletGiveUp, TaskletReassert, TaskletUnref, TaskletReturn, groupVars, attachVars
  <1>3. ASSUME UNCHANGED kref, \A h \in Groups : RunRefs(h)' = RunRefs(h)
        PROVE  Exact'
    BY <1>1, <1>2, <1>3, SameRefs, QuietExact
  <1>4. ASSUME TaskletStart(g) \/ TaskletHandOver(g)
        PROVE  Exact'
    <2>1. \A h \in Groups : RunRefs(h)' = RunRefs(h)
      BY <1>4 DEF TaskletStart, TaskletHandOver, TaskletGoto, RunRefs, Owned
    <2> QED
      BY <1>3, <1>4, <2>1, Zenon DEF TaskletStart, TaskletHandOver, groupVars
  <1>5. ASSUME \/ TaskletLock(g) \/ TaskletClear(g) \/ TaskletUnlock(g) \/ TaskletGiveUp(g)
               \/ TaskletReassert(g) \/ TaskletReturn(g)
        PROVE  Exact'
    <2>1. \A h \in Groups : RunRefs(h)' = RunRefs(h)
      BY <1>5 DEF TaskletLock, TaskletClear, TaskletUnlock, TaskletGiveUp, TaskletReassert,
                  TaskletReturn, TaskletGoto, RunRefs
    <2>2. UNCHANGED kref
      BY <1>5, Zenon DEF TaskletLock, TaskletClear, TaskletUnlock, TaskletGiveUp, TaskletReassert,
                         TaskletReturn, groupVars
    <2> QED
      BY <1>3, <2>1, <2>2
  <1>6. CASE TaskletUnref(g)
    <2>1. \A h \in Groups : /\ kref'[h] = IF h = g THEN kref[h] - 1 ELSE kref[h]
                            /\ RunRefs(h)' = IF h = g THEN RunRefs(h) - 1 ELSE RunRefs(h)
      BY <1>6 DEF TaskletUnref, TaskletGoto, cmgroup_unref, RunRefs
    <2>2. \A h \in Groups : /\ FdRefs(h)' = FdRefs(h) /\ TaskRefs(h)' = TaskRefs(h)
                            /\ ObjRefs(h)' = ObjRefs(h) /\ CallRefs(h)' = CallRefs(h)
                            /\ FireRefs(h)' = FireRefs(h)
      BY <1>1, <1>2, SameRefs
    <2> QED
      BY <2>1, <2>2, RefsFinite DEF Exact, Refs
  <1> QED
    BY <1>4, <1>5, <1>6, Zenon DEF TaskletStep

\* The reference of the descriptor.
LEMMA FdExact ==
    ASSUME Places, Exact, Counted, NEW t \in Threads, NEW g \in Groups,
           cmgroup_newgroup(t, g) \/ cmgroup_fop_release(t, g)
    PROVE  Exact'
  <1> kref \in [Groups -> Int]
    BY DEF Places, TypesOK
  <1>1. \A u \in Threads : Rests(u)
    BY AllRest, Zenon DEF cmgroup_newgroup, cmgroup_fop_release
  <1>2. UNCHANGED <<obj_cmgroup, scheduled, tpc>>
    BY Zenon DEF cmgroup_newgroup, cmgroup_fop_release, attachVars, taskletVars
  <1>5. \A h \in Groups : /\ RunRefs(h)' = RunRefs(h) /\ TaskRefs(h)' = TaskRefs(h)
                          /\ ObjRefs(h)' = ObjRefs(h) /\ CallRefs(h)' = CallRefs(h)
                          /\ FireRefs(h)' = FireRefs(h)
    BY <1>1, <1>2, SameRefs
  <1>3. CASE cmgroup_newgroup(t, g)
    <2>1. kref[g] = 0
      BY <1>3 DEF Counted, cmgroup_newgroup
    <2>2. g \notin fds
      BY <2>1, RefsFinite DEF Exact, Refs, FdRefs
    <2>3. \A h \in Groups : /\ FdRefs(h)' = IF h = g THEN FdRefs(h) + 1 ELSE FdRefs(h)
                            /\ kref'[h] = IF h = g THEN kref[h] + 1 ELSE kref[h]
      BY <1>3, <2>1, <2>2 DEF cmgroup_newgroup, FdRefs
    <2> QED
      BY <1>5, <2>3, RefsFinite DEF Exact, Refs
  <1>4. CASE cmgroup_fop_release(t, g)
    <2>1. \A h \in Groups : /\ FdRefs(h)' = IF h = g THEN FdRefs(h) - 1 ELSE FdRefs(h)
                            /\ kref'[h] = IF h = g THEN kref[h] - 1 ELSE kref[h]
      BY <1>4 DEF cmgroup_fop_release, cmgroup_unref, FdRefs
    <2> QED
      BY <1>5, <2>1, RefsFinite DEF Exact, Refs
  <1> QED
    BY <1>3, <1>4

\* The rest: an object without a group is destroyed, memory is freed.
Aloof ==
    \/ \E t \in Threads, o \in Objects : Destroy(t, o) /\ obj_cmgroup[o] = NULL
    \/ \E g \in Groups : __cmgroup_free_work(g)
    \/ UNCHANGED vars

\* Nothing is counted.
LEMMA AloofExact ==
    ASSUME Exact, Aloof
    PROVE  Exact'
  <1>1. /\ UNCHANGED <<callVars, pc, task_cmgroup>>
        /\ UNCHANGED <<kref, fds, task_cmgroup, obj_cmgroup, scheduled, tpc>>
    BY Zenon
    DEF Aloof, Destroy, __cmgroup_free_work, vars, groupVars, attachVars, taskletVars, callVars
  <1>2. \A u \in Threads : Rests(u)
    BY <1>1, AllRest, Zenon
  <1> QED
    BY <1>1, <1>2, SameRefs, QuietExact

\* Every reference is counted, whatever the step.
LEMMA StepExact ==
    ASSUME Places, Attached, Owned, Exact, Counted, [Next]_vars
    PROVE  Exact'
  <1>1. ASSUME NEW t \in Threads, ThreadStep(t)
        PROVE  Exact'
    BY <1>1, KeepersExact, PassersExact, DroppersExact, JoinersExact, AttachDoExact,
       DetachEndExact, CalmExact, DissociateExact, FireExact, ScheduleExact, Zenon
    DEF ThreadStep, Keep, Pass, Drop, Calm
  <1>2. ASSUME NEW t \in Threads, CallStep(t)
        PROVE  Exact'
    <2>1. ASSUME NEW o \in Objects, FetchAssociate(t, o)
          PROVE  Exact'
      <3>1. obj_cmgroup[o] \in Groups
        BY <2>1 DEF FetchAssociate, Places, TypesOK
      <3> QED
        BY <2>1, <3>1, TakersExact, Zenon DEF Take
    <2> QED
      BY <1>2, <2>1, TakersExact, PassersExact, FdExact, AloofExact, Zenon
      DEF CallStep, Take, Pass, Aloof
  <1> QED
    BY <1>1, <1>2, TaskletExact, AloofExact, Zenon DEF Next, Over, Aloof

-----------------------------------------------------------------------------
(* The memory.                                                             *)

\* A group in use has a reference, so it is live.
LEMMA UsedLive ==
    ASSUME Shape, Exact, Counted, NEW g \in Groups, InUse(g)
    PROVE  kref[g] \in Nat \ {0} /\ memory[g] = "live"
  <1>1. Refs(g) >= 1
    BY UsedReferred DEF Shape
  <1> QED
    BY <1>1 DEF Exact, Counted

\* A live group may be referred to once more ...
LEMMA TakeCounted ==
    ASSUME Shape, Exact, Counted, NEW g \in Groups, InUse(g), cmgroup_ref(g)
    PROVE  Counted'
  BY UsedLive DEF Shape, Places, TypesOK, Counted, cmgroup_ref

\* ... or once less: the last reference takes the memory with it.
LEMMA DropCounted ==
    ASSUME Shape, Exact, Counted, NEW g \in Groups, InUse(g), NEW atomic, cmgroup_unref(g, atomic)
    PROVE  Counted'
  <1> DEFINE gone == IF atomic THEN "free_work" ELSE "freed"
  <1>1. /\ kref[g] \in Nat \ {0} /\ memory[g] = "live" /\ gone # "live"
        /\ kref \in [Groups -> Int] /\ DOMAIN memory = Groups
    BY UsedLive DEF Shape, Places, TypesOK
  <1>2. /\ kref' = [kref EXCEPT ![g] = @ - 1]
        /\ memory' = IF kref[g] = 1 THEN [memory EXCEPT ![g] = gone] ELSE memory
    BY DEF cmgroup_unref
  <1> HIDE DEF gone
  <1> QED
    BY <1>1, <1>2 DEF Counted

\* No step leaves a group live without references, or released with them.
LEMMA StepCounted ==
    ASSUME Shape, Exact, Counted, [Next]_vars
    PROVE  Counted'
  <1> Places
    BY DEF Shape
  <1>1. ASSUME NEW t \in Threads, NEW g \in Groups, Take(t, g)
        PROVE  Counted'
    <2>1. InUse(g) /\ cmgroup_ref(g)
      BY <1>1, Zenon
      DEF Take, sys_cmgroup_associate, cmgroup_set_concurrency_value, Attach, FetchAssociate,
          cmgroup_from_fd, InUse
    <2> QED
      BY <2>1, TakeCounted, Zenon
  <1>2. ASSUME NEW t \in Threads, Drop(t) \/ DetachEnd(t)
        PROVE  Counted'
    <2>1. cg[t] \in Groups
      BY <1>2, DroppersExact, DetachEndExact, Zenon DEF Shape
    <2>2. InUse(cg[t]) /\ cmgroup_unref(cg[t], FALSE)
      BY <1>2, Zenon DEF Drop, AssociateSame, SetCvUnlock, AttachUnref, DetachEnd, InUse
    <2> QED
      BY <2>1, <2>2, DropCounted, Zenon
  <1>3. ASSUME NEW t \in Threads, DissociateUnref(t)
        PROVE  Counted'
    <2>1. /\ task_cmgroup[t] \in Groups /\ InUse(task_cmgroup[t])
          /\ cmgroup_unref(task_cmgroup[t], ob[t] \in Epolls)
      BY <1>3, DissociateExact, Zenon DEF DissociateUnref, InUse
    <2> QED
      BY <2>1, DropCounted, Zenon
  <1>4. ASSUME NEW t \in Threads, FireCas(t)
        PROVE  Counted'
    <2>1. Fired(t) \in Groups /\ InUse(Fired(t))
      BY <1>4, FireExact DEF InUse, Fired
    <2> QED
      BY <1>4, <2>1, TakeCounted DEF FireCas, Counted
  <1>5. ASSUME NEW t \in Threads, NEW g \in Groups, cmgroup_newgroup(t, g) \/ cmgroup_fop_release(t, g)
        PROVE  Counted'
    <2>1. CASE cmgroup_newgroup(t, g)
      BY <2>1 DEF cmgroup_newgroup, Counted, Places, TypesOK
    <2>2. CASE cmgroup_fop_release(t, g)
      BY <2>2, DropCounted, Zenon DEF cmgroup_fop_release, InUse
    <2> QED
      BY <1>5, <2>1, <2>2
  <1>6. ASSUME NEW g \in Groups, TaskletStep(g) \/ __cmgroup_free_work(g)
        PROVE  Counted'
    <2>1. CASE TaskletUnref(g)
      <3>1. InUse(g) /\ cmgroup_unref(g, TRUE)
        BY <2>1, Zenon DEF TaskletUnref, InUse
      <3> QED
        BY <3>1, DropCounted, Zenon
    <2>2. CASE __cmgroup_free_work(g)
      BY <2>2 DEF __cmgroup_free_work, Counted, Places, TypesOK
    <2>3. ASSUME UNCHANGED groupVars
          PROVE  Counted'
      BY <2>3 DEF groupVars, Counted
    <2> QED
      BY <1>6, <2>1, <2>2, <2>3, Zenon
      DEF TaskletStep, TaskletStart, TaskletLock, TaskletClear, TaskletHandOver, TaskletUnlock,
          TaskletGiveUp, TaskletReassert, TaskletReturn
  <1>7. ASSUME UNCHANGED <<memory, kref>>
        PROVE  Counted'
    BY <1>7 DEF Counted
  <1>8. ASSUME NEW t \in Threads,
               \/ Keep(t) \/ Pass(t) \/ AssociateSet(t) \/ FetchSet(t) \/ AttachDo(t) \/ Calm(t)
               \/ FireSchedule(t) \/ \E o \in Objects : Destroy(t, o)
        PROVE  UNCHANGED <<memory, kref>>
    BY <1>8, Zenon
    DEF Keep, Pass, Calm, FireSchedule, Opening, sys_cmgroup_dissociate, AssociateOther,
        AssociateSet, FetchSame, FetchSet, WaitLock, WaitUnlock, SetCvMutex, SetCvLock,
        cmgroup_lockout_tasklet, LockoutLock, cmgroup_unlockout_tasklet, AttachRefused,
        AttachBegin, AttachDo, AttachEnd, AttachFail, DetachBegin, DetachDo, Destroy, groupVars
  <1>9. ASSUME NEW t \in Threads, ThreadStep(t)
        PROVE  Counted'
    BY <1>2, <1>3, <1>4, <1>7, <1>8, <1>9, Zenon DEF ThreadStep, Keep, Pass, Drop, Calm
  <1>10. ASSUME NEW t \in Threads, CallStep(t)
         PROVE  Counted'
    <2>1. ASSUME NEW o \in Objects, FetchAssociate(t, o)
          PROVE  obj_cmgroup[o] \in Groups
      BY <2>1 DEF FetchAssociate, Places, TypesOK
    <2> QED
      BY <1>1, <1>5, <1>7, <1>8, <1>10, <2>1, Zenon DEF CallStep, Take, Pass
  <1>11. CASE UNCHANGED vars
    BY <1>7, <1>11, Zenon DEF vars, groupVars
  <1> QED
    BY <1>6, <1>9, <1>10, <1>11, Zenon DEF Next, Over

-----------------------------------------------------------------------------
(* The theorems.                                                           *)

\* The inductive invariant.
LifeInv == Shape /\ Exact /\ Counted

\* No group exists at first, and there is no reference to one.
LEMMA InitCounted == Init => Exact /\ Counted
  <1> SUFFICES ASSUME Init PROVE Exact /\ Counted
    OBVIOUS
  <1>1. Counted
    BY DEF Init, Counted
  <1>2. ASSUME NEW g \in Groups
        PROVE  kref[g] = Refs(g)
    <2>1. \A t \in Threads : Place(t) = "idle"
      BY DEF Init, Place, FirePcs, LockoutPcs
    <2>2. TaskRefs(g) = {} /\ ObjRefs(g) = {} /\ CallRefs(g) = {} /\ FireRefs(g) = {}
      BY <2>1, LifeAssumption DEF Init, TaskRefs, ObjRefs, CallRefs, FireRefs
    <2>3. Cardinality({}) = 0
      BY FS_EmptySet
    <2> QED
      BY <2>2, <2>3 DEF Init, Refs, FdRefs, RunRefs
  <1> QED
    BY <1>1, <1>2 DEF Exact

\* Shape, the count of references and the memory, together.
THEOREM LifeKept == Spec => []LifeInv
  <1>1. Init => LifeInv
    BY InitShape, InitCounted DEF LifeInv
  <1>2. LifeInv /\ [Next]_vars => LifeInv'
    BY StepShape, StepExact, StepCounted, Zenon DEF LifeInv, Shape
  <1> QED
    BY <1>1, <1>2, PTL DEF Spec

\* The variables have their types; the count of references is never negative.
THEOREM LifeTypes == Spec => []TypeOK
  <1>1. LifeInv => TypeOK
    BY DEF LifeInv, Shape, Places, TypesOK, Counted, TypeOK
  <1> QED
    BY <1>1, LifeKept, PTL

\* kref is the number of references: that of the descriptor, those of member
\* tasks, of the object attached, of system calls and of the tasklet.  None is
\* leaked and none dropped twice by any interleaving of the calls.
THEOREM EveryReferenceCounted == Spec => []KrefExact
  <1>1. LifeInv => KrefExact
    BY KrefRefs DEF LifeInv, Shape, Exact
  <1> QED
    BY <1>1, LifeKept, PTL

\* A group that a call, a task, an object, a descriptor or the tasklet is going
\* to use has not been released.
THEOREM NoGroupUsedAfterFree == Spec => []NoUseAfterFree
  <1>1. LifeInv => NoUseAfterFree
    BY UsedLive, Zenon DEF LifeInv, NoUseAfterFree
  <1> QED
    BY <1>1, LifeKept, PTL
=============================================================================

---------------------------- MODULE CmSoftirqProofs ----------------------------
(***************************************************************************)
(* No softirq is forgotten, a tasklet runs on one CPU at a time and is on  *)
(* one list at most, for any number of CPUs and tasklets.                  *)
(***************************************************************************)
EXTENDS CmSoftirq, TLAPS

SoftTypes ==
    /\ pending \in [Cpus -> SUBSET Vecs] /\ left \in [Cpus -> SUBSET Vecs]
    /\ vec \in [Cpus -> [Vecs -> Seq(Tasklets)]] /\ list \in [Cpus -> Seq(Tasklets)]
    /\ soft \in [Cpus -> {"off", "next", "list", "locked", "func"}]
    /\ current \in [Cpus -> {"task", "new", "resumed", "ksoftirqd"}]
    /\ online \subseteq Cpus
    /\ run \in [Tasklets -> Cpus \cup {NoCpu}]
    /\ user \in [Tasklets -> {"none", "wait", "disabled", "kill", "spin", "dead"}]

\* A pass is over when __do_softirq is, and a list is there only while it is
\* worked off; its head is locked by this CPU before it is looked at.
PassTrue ==
    \A c \in Cpus :
        /\ soft[c] = "off" => left[c] = {}
        /\ soft[c] \in {"off", "next"} => list[c] = <<>>
        /\ soft[c] \in {"locked", "func"} => list[c] # <<>> /\ run[Head(list[c])] = c

\* The lists a tasklet can be on: the two of each CPU, and the one tasklet_action
\* works off, which a tasklet leaves when its function is called.
Kinds == {"HI", "TASKLET", "list"}
AllLists == [Cpus -> [Kinds -> Seq(Tasklets)]]

Lists == [c \in Cpus |-> [k \in Kinds |->
             IF k # "list" THEN vec[c][k]
             ELSE IF soft[c] = "func" THEN Tail(list[c]) ELSE list[c]]]

On(t, F) == \E c \in Cpus, k \in Kinds : \E i \in 1..Len(F[c][k]) : F[c][k][i] = t

Once(F) == \A c, d \in Cpus, k, l \in Kinds :
               \A i \in 1..Len(F[c][k]), j \in 1..Len(F[d][l]) :
                   F[c][k][i] = F[d][l][j] => c = d /\ k = l /\ i = j

\* A tasklet is on one list at most, and once: tasklet_struct has one link.
LinkedOnce == Once(Lists)

\* TASKLET_STATE_SCHED is set while the tasklet is linked; tasklet_kill holds the
\* bit of a tasklet that is not.
SchedTrue == \A t \in Tasklets : On(t, Lists) => t \in sched /\ user[t] # "spin"

SoftInv == SoftTypes /\ PassTrue /\ NoneForgotten /\ LinkedOnce /\ SchedTrue

\* What a concatenation is.
LEMMA Joined ==
    ASSUME NEW a \in Seq(Tasklets), NEW b \in Seq(Tasklets)
    PROVE  /\ a \o b \in Seq(Tasklets) /\ Len(a \o b) = Len(a) + Len(b)
           /\ \A j \in 1..(Len(a) + Len(b)) :
                 (a \o b)[j] = IF j <= Len(a) THEN a[j] ELSE b[j - Len(a)]
           /\ a = <<>> => a \o b = b
  OBVIOUS

\* What is left of a list when one entry is unlinked.
LEMMA RemovedSeq ==
    ASSUME NEW s \in Seq(Tasklets), NEW i \in 1..Len(s)
    PROVE  /\ Unlinked(s, i) \in Seq(Tasklets)
           /\ Len(Unlinked(s, i)) = Len(s) - 1
           /\ \A j \in 1..(Len(s) - 1) : Unlinked(s, i)[j] = IF j < i THEN s[j] ELSE s[j + 1]
  <1> DEFINE a == SubSeq(s, 1, i - 1)
             b == SubSeq(s, i + 1, Len(s))
  <1>1. Len(s) \in Nat /\ i \in Nat /\ 1 <= i /\ i <= Len(s)
    OBVIOUS
  <1>2. /\ a \in Seq(Tasklets) /\ Len(a) = i - 1
        /\ \A j \in 1..(i - 1) : a[j] = s[j]
    BY <1>1
  <1>3. /\ b \in Seq(Tasklets) /\ Len(b) = Len(s) - i
        /\ \A j \in 1..(Len(s) - i) : b[j] = s[i + j]
    BY <1>1
  <1>4. Unlinked(s, i) = a \o b
    BY DEF Unlinked
  <1> HIDE DEF a, b
  <1>5. /\ a \o b \in Seq(Tasklets) /\ Len(a \o b) = Len(s) - 1
        /\ \A j \in 1..(i - 1) : (a \o b)[j] = a[j]
        /\ \A j \in i..(Len(s) - 1) : (a \o b)[j] = b[j - i + 1]
    <2>1. /\ a \o b \in Seq(Tasklets) /\ Len(a \o b) = Len(a) + Len(b)
          /\ \A j \in 1..(Len(a) + Len(b)) :
                (a \o b)[j] = IF j <= Len(a) THEN a[j] ELSE b[j - Len(a)]
      BY <1>2, <1>3, Joined, Zenon
    <2>2. Len(a) + Len(b) = Len(s) - 1
      BY <1>1, <1>2, <1>3
    <2>3. \A j \in 1..(i - 1) : j \in 1..(Len(a) + Len(b)) /\ j <= Len(a)
      BY <1>1, <1>2, <2>2
    <2>4. \A j \in i..(Len(s) - 1) : /\ j \in 1..(Len(a) + Len(b)) /\ ~(j <= Len(a))
                                     /\ j - Len(a) = j - i + 1
      BY <1>1, <1>2, <2>2
    <2> QED
      BY <2>1, <2>2, <2>3, <2>4
  <1>6. ASSUME NEW j \in 1..(Len(s) - 1)
        PROVE  (a \o b)[j] = IF j < i THEN s[j] ELSE s[j + 1]
    <2>1. CASE j < i
      BY <1>1, <1>2, <1>5, <2>1
    <2>2. CASE ~(j < i)
      <3>1. j \in i..(Len(s) - 1) /\ j - i + 1 \in 1..(Len(s) - i) /\ i + (j - i + 1) = j + 1
        BY <1>1, <2>2
      <3>2. (a \o b)[j] = b[j - i + 1] /\ b[j - i + 1] = s[i + (j - i + 1)]
        BY <1>3, <1>5, <3>1
      <3> QED
        BY <2>2, <3>1, <3>2
    <2> QED
      BY <2>1, <2>2, Zenon
  <1> QED
    BY <1>4, <1>5, <1>6

\* One list of one CPU is replaced.
LEMMA Relisted ==
    ASSUME SoftTypes, NEW c \in Cpus, NEW v \in Vecs, NEW s \in Seq(Tasklets),
           vec' = [vec EXCEPT ![c][v] = s]
    PROVE  /\ vec' \in [Cpus -> [Vecs -> Seq(Tasklets)]]
           /\ vec'[c][v] = s
           /\ \A d \in Cpus : \A w \in Vecs : d # c \/ w # v => vec'[d][w] = vec[d][w]
  BY DEF SoftTypes

\* The list a tasklet belongs to.
LEMMA VecOfType == \A t : VecOf(t) \in Vecs
  BY DEF VecOf, Vecs

\* A tasklet goes from the list worked off to the list of its CPU.
LEMMA RequeueTypes ==
    ASSUME SoftTypes, NEW c \in Cpus, list[c] # <<>>, Requeue(c)
    PROVE  /\ Head(list[c]) \in Tasklets
           /\ vec' \in [Cpus -> [Vecs -> Seq(Tasklets)]]
           /\ pending' \in [Cpus -> SUBSET Vecs] /\ list' \in [Cpus -> Seq(Tasklets)]
  <1> DEFINE h == Head(list[c])
             v == VecOf(h)
  <1>1. h \in Tasklets /\ Tail(list[c]) \in Seq(Tasklets)
    BY DEF SoftTypes
  <1>2. v \in Vecs
    BY VecOfType
  <1>3. vec[c][v] \in Seq(Tasklets)
    BY <1>2 DEF SoftTypes
  <1>4. vec' = [vec EXCEPT ![c][v] = Append(vec[c][v], h)]
    BY DEF Requeue
  <1>5. pending' = [pending EXCEPT ![c] = pending[c] \cup {v}]
    BY DEF Requeue
  <1>6. list' = [list EXCEPT ![c] = Tail(list[c])]
    BY DEF Requeue
  <1>7. Append(vec[c][v], h) \in Seq(Tasklets)
    BY <1>1, <1>3
  <1>8. list' \in [Cpus -> Seq(Tasklets)]
    BY <1>1, <1>6 DEF SoftTypes
  <1> HIDE DEF h, v
  <1>9. vec' \in [Cpus -> [Vecs -> Seq(Tasklets)]]
    BY <1>2, <1>4, <1>7, Relisted, Zenon
  <1>10. pending' \in [Cpus -> SUBSET Vecs]
    BY <1>2, <1>5 DEF SoftTypes
  <1> QED
    BY <1>1, <1>8, <1>9, <1>10 DEF h

\* A pass is started, or not.
LEMMA StartTypes ==
    ASSUME SoftTypes, NEW c \in Cpus, NEW b, StartIf(c, b)
    PROVE  /\ soft' \in [Cpus -> {"off", "next", "list", "locked", "func"}]
           /\ left' \in [Cpus -> SUBSET Vecs] /\ pending' \in [Cpus -> SUBSET Vecs]
  <1>1. CASE Start(c)
    BY <1>1 DEF Start, SoftTypes
  <1>2. CASE UNCHANGED <<soft, left, pending, restarts>>
    BY <1>2 DEF SoftTypes
  <1> QED
    BY <1>1, <1>2 DEF StartIf

\* The types.
LEMMA StepSoftTypes ==
    SoftTypes /\ PassTrue /\ [SoftNext]_softVars
        => SoftTypes'
  <1> SUFFICES ASSUME SoftTypes /\ PassTrue, [SoftNext]_softVars
               PROVE  SoftTypes'
    OBVIOUS
  <1> USE DEF cpuVars, taskletVars, SoftTypes
  <1>1. ASSUME NEW c \in Cpus, TakeList(c)
        PROVE  SoftTypes'
    BY <1>1 DEF TakeList, Vecs
  <1>2. ASSUME NEW c \in Cpus, TryLock(c)
        PROVE  SoftTypes'
    <2>1. list[c] # <<>>
      BY <1>2 DEF TryLock, Running
    <2>2. Head(list[c]) \in Tasklets /\ Tail(list[c]) \in Seq(Tasklets)
      BY <2>1
    <2>3. CASE run[Head(list[c])] = NoCpu
      <3>1. /\ run' = [run EXCEPT ![Head(list[c])] = c]
            /\ soft' = [soft EXCEPT ![c] = "locked"]
            /\ UNCHANGED <<vec, pending, list, left, current, online, user>>
        BY <1>2, <2>3 DEF TryLock
      <3> QED
        BY <2>2, <3>1
    <2>4. CASE ~(run[Head(list[c])] = NoCpu)
      <3>1. Requeue(c)
        BY <1>2, <2>4 DEF TryLock
      <3> QED
        BY <1>2, <2>1, <2>2, <2>4, <3>1, RequeueTypes DEF TryLock
    <2> QED
      BY <2>3, <2>4, Zenon
  <1>3. ASSUME NEW c \in Cpus, tasklet_action(c)
        PROVE  SoftTypes'
    <2>1. list[c] # <<>>
      BY <1>3 DEF PassTrue, tasklet_action, Running
    <2>2. Head(list[c]) \in Tasklets /\ Tail(list[c]) \in Seq(Tasklets)
      BY <2>1
    <2>3. CASE Head(list[c]) \notin count
      BY <1>3, <2>2, <2>3, Zenon DEF tasklet_action
    <2>4. CASE ~(Head(list[c]) \notin count)
      <3>1. Requeue(c)
        BY <1>3, <2>4 DEF tasklet_action
      <3> QED
        BY <1>3, <2>1, <2>2, <2>4, <3>1, RequeueTypes, Zenon DEF tasklet_action
    <2> QED
      BY <2>3, <2>4
  <1>4. ASSUME NEW c \in Cpus, FuncEnd(c)
        PROVE  SoftTypes'
    <2>1. list[c] # <<>>
      BY <1>4 DEF PassTrue, FuncEnd, Running
    <2>2. Head(list[c]) \in Tasklets /\ Tail(list[c]) \in Seq(Tasklets)
      BY <2>1
    <2> QED
      BY <1>4, <2>2 DEF FuncEnd
  <1>5. ASSUME NEW c \in Cpus, ActionEnd(c)
        PROVE  SoftTypes'
    BY <1>5 DEF ActionEnd, Running
  <1>6. ASSUME NEW c \in Cpus, __do_softirq(c)
        PROVE  SoftTypes'
    <2>1. /\ \/ left' = [left EXCEPT ![c] = pending[c]] /\ pending' = [pending EXCEPT ![c] = {}]
             \/ UNCHANGED <<left, pending>>
          /\ soft' = soft \/ soft' = [soft EXCEPT ![c] = "off"]
          /\ UNCHANGED <<vec, list, current, online, run, user>>
      BY <1>6 DEF __do_softirq
    <2>2. left' \in [Cpus -> SUBSET Vecs] /\ pending' \in [Cpus -> SUBSET Vecs]
      <3>1. CASE /\ left' = [left EXCEPT ![c] = pending[c]]
                 /\ pending' = [pending EXCEPT ![c] = {}]
        BY <3>1
      <3>2. CASE UNCHANGED <<left, pending>>
        BY <3>2
      <3> QED
        BY <2>1, <3>1, <3>2, Zenon
    <2>3. soft' \in [Cpus -> {"off", "next", "list", "locked", "func"}]
      BY <2>1, Zenon
    <2> QED
      BY <2>1, <2>2, <2>3
  <1>7. ASSUME NEW c \in Cpus, irq_enter(c)
        PROVE  SoftTypes'
    BY <1>7 DEF irq_enter
  <1>8. ASSUME NEW c \in Cpus, irq_exit(c)
        PROVE  SoftTypes'
    <2>1. StartIf(c, c \notin bh /\ soft[c] = "off" /\ ~force_irqthreads)
      BY <1>8 DEF irq_exit
    <2>2. /\ soft' \in [Cpus -> {"off", "next", "list", "locked", "func"}]
          /\ left' \in [Cpus -> SUBSET Vecs] /\ pending' \in [Cpus -> SUBSET Vecs]
      BY <2>1, StartTypes, Zenon
    <2> QED
      BY <1>8, <2>2 DEF irq_exit
  <1>9. ASSUME NEW c \in Cpus, local_bh_disable(c)
        PROVE  SoftTypes'
    BY <1>9 DEF local_bh_disable, InTask, in_interrupt
  <1>10. ASSUME NEW c \in Cpus, local_bh_enable(c)
        PROVE  SoftTypes'
    <2>1. StartIf(c, TRUE)
      BY <1>10, Zenon DEF local_bh_enable
    <2>2. /\ soft' \in [Cpus -> {"off", "next", "list", "locked", "func"}]
          /\ left' \in [Cpus -> SUBSET Vecs] /\ pending' \in [Cpus -> SUBSET Vecs]
      BY <2>1, StartTypes, Zenon
    <2> QED
      BY <1>10, <2>2 DEF local_bh_enable
  <1>11. ASSUME NEW c \in Cpus, cmgroup_execute_softirq(c)
        PROVE  SoftTypes'
    <2>1. StartIf(c, TRUE)
      BY <1>11, Zenon DEF cmgroup_execute_softirq
    <2>2. /\ soft' \in [Cpus -> {"off", "next", "list", "locked", "func"}]
          /\ left' \in [Cpus -> SUBSET Vecs] /\ pending' \in [Cpus -> SUBSET Vecs]
      BY <2>1, StartTypes, Zenon
    <2> QED
      BY <1>11, <2>2, Zenon DEF cmgroup_execute_softirq
  <1>12. ASSUME NEW c \in Cpus, ksoftirqd(c)
        PROVE  SoftTypes'
    <2>1. StartIf(c, TRUE)
      BY <1>12, Zenon DEF ksoftirqd
    <2>2. /\ soft' \in [Cpus -> {"off", "next", "list", "locked", "func"}]
          /\ left' \in [Cpus -> SUBSET Vecs] /\ pending' \in [Cpus -> SUBSET Vecs]
      BY <2>1, StartTypes, Zenon
    <2> QED
      BY <1>12, <2>2, Zenon DEF ksoftirqd
  <1>13. ASSUME NEW c \in Cpus, run_ksoftirqd(c)
        PROVE  SoftTypes'
    <2>1. StartIf(c, TRUE)
      BY <1>13, Zenon DEF run_ksoftirqd
    <2>2. /\ soft' \in [Cpus -> {"off", "next", "list", "locked", "func"}]
          /\ left' \in [Cpus -> SUBSET Vecs] /\ pending' \in [Cpus -> SUBSET Vecs]
      BY <2>1, StartTypes, Zenon
    <2> QED
      BY <1>13, <2>2, Zenon DEF run_ksoftirqd
  <1>14. ASSUME NEW c \in Cpus, CpuDown(c)
        PROVE  SoftTypes'
    BY <1>14 DEF CpuDown, InTask, in_interrupt
  <1>15. ASSUME NEW c \in Cpus, NEW t \in Tasklets, tasklet_schedule(c, t)
        PROVE  SoftTypes'
    <2>1. vec[c][VecOf(t)] \in Seq(Tasklets) /\ VecOf(t) \in Vecs
      BY VecOfType
    <2>2. Append(vec[c][VecOf(t)], t) \in Seq(Tasklets)
      BY <2>1
    <2>3. vec' = [vec EXCEPT ![c][VecOf(t)] = Append(vec[c][VecOf(t)], t)]
      BY <1>15 DEF tasklet_schedule, Link
    <2>4. vec' \in [Cpus -> [Vecs -> Seq(Tasklets)]]
      BY <2>1, <2>2, <2>3, Relisted
    <2> QED
      BY <1>15, <2>1, <2>4 DEF tasklet_schedule, Link, raise_softirq_irqoff, in_interrupt, Woken
  <1>16. ASSUME NEW c \in Cpus, NEW t \in Tasklets, tasklet_schedule_nosoftirqd_wake(c, t)
        PROVE  SoftTypes'
    <2>1. vec[c][VecOf(t)] \in Seq(Tasklets) /\ VecOf(t) \in Vecs
      BY VecOfType
    <2>2. Append(vec[c][VecOf(t)], t) \in Seq(Tasklets)
      BY <2>1
    <2>3. vec' = [vec EXCEPT ![c][VecOf(t)] = Append(vec[c][VecOf(t)], t)]
      BY <1>16 DEF tasklet_schedule_nosoftirqd_wake, Link
    <2>4. vec' \in [Cpus -> [Vecs -> Seq(Tasklets)]]
      BY <2>1, <2>2, <2>3, Relisted
    <2> QED
      BY <1>16, <2>1, <2>4 DEF tasklet_schedule_nosoftirqd_wake, Link, InTask, in_interrupt, raise_softirq_irqoff_nosoftirqd_wake
  <1>17. ASSUME NEW c \in Cpus, NEW t \in Tasklets, tasklet_kill_immediate(t, c)
        PROVE  SoftTypes'
    <2> DEFINE s == vec[c]["TASKLET"]
    <2>1. s \in Seq(Tasklets) /\ "TASKLET" \in Vecs
      BY DEF Vecs
    <2>2. PICK i \in 1..Len(s) : vec' = [vec EXCEPT ![c]["TASKLET"] = Unlinked(s, i)]
      BY <1>17, Zenon DEF tasklet_kill_immediate
    <2> HIDE DEF s
    <2>3. Unlinked(s, i) \in Seq(Tasklets)
      BY <2>1, RemovedSeq
    <2>4. vec' \in [Cpus -> [Vecs -> Seq(Tasklets)]]
      BY <2>1, <2>2, <2>3, Relisted
    <2> QED
      BY <1>17, <2>4 DEF tasklet_kill_immediate
  <1>18. ASSUME NEW c \in Cpus, NEW to \in Cpus, takeover_tasklets(c, to)
        PROVE  SoftTypes'
    <2>1. vec' = [vec EXCEPT ![to] = [v \in Vecs |-> vec[to][v] \o vec[c][v]],
                             ![c] = [v \in Vecs |-> <<>>]]
      BY <1>18 DEF takeover_tasklets
    <2>2. [v \in Vecs |-> vec[to][v] \o vec[c][v]] \in [Vecs -> Seq(Tasklets)]
      BY Joined
    <2>3. [v \in Vecs |-> <<>>] \in [Vecs -> Seq(Tasklets)]
      OBVIOUS
    <2>4. vec' \in [Cpus -> [Vecs -> Seq(Tasklets)]]
      BY <2>1, <2>2, <2>3, Zenon
    <2>5. /\ pending' = [pending EXCEPT ![to] = pending[to] \cup Vecs]
          /\ UNCHANGED <<left, list, soft, current, online, run, user>>
      BY <1>18 DEF takeover_tasklets, raise_softirq_irqoff
    <2> QED
      BY <2>4, <2>5
  <1>19. ASSUME NEW t \in Tasklets, tasklet_disable(t)
        PROVE  SoftTypes'
    BY <1>19, Zenon DEF tasklet_disable
  <1>20. ASSUME NEW t \in Tasklets, tasklet_enable(t)
        PROVE  SoftTypes'
    BY <1>20 DEF tasklet_enable
  <1>21. ASSUME NEW t \in Tasklets, tasklet_kill(t)
        PROVE  SoftTypes'
    BY <1>21, Zenon DEF tasklet_kill
  <1>22. CASE UNCHANGED softVars
    BY <1>22 DEF softVars
  <1> QED
    BY <1>1, <1>2, <1>3, <1>4, <1>5, <1>6, <1>7, <1>8, <1>9, <1>10, <1>11, <1>12, <1>13,
      <1>14, <1>15, <1>16, <1>17, <1>18, <1>19, <1>20, <1>21, <1>22, Zenon DEF SoftNext,
      Softirq

\* Each CPU works on its own list, and unlocks what it has locked.
LEMMA StepPass ==
    SoftTypes /\ SoftTypes' /\ PassTrue /\ [SoftNext]_softVars
        => PassTrue'
  <1> SUFFICES ASSUME SoftTypes /\ SoftTypes' /\ PassTrue, [SoftNext]_softVars
               PROVE  PassTrue'
    OBVIOUS
  <1> USE DEF cpuVars, taskletVars, SoftTypes, PassTrue
  <1>1. ASSUME NEW c \in Cpus, TakeList(c)
        PROVE  PassTrue'
    BY <1>1 DEF TakeList, Running
  <1>2. ASSUME NEW c \in Cpus, TryLock(c)
        PROVE  PassTrue'
    <2> DEFINE h == Head(list[c])
    <2>1. h \in Tasklets
      BY <1>2 DEF TryLock, Running
    <2>2. CASE run[h] = NoCpu
      <3>1. /\ run' = [run EXCEPT ![h] = c] /\ soft' = [soft EXCEPT ![c] = "locked"]
            /\ UNCHANGED <<list, left>> /\ soft[c] = "list"
        BY <1>2, <2>2 DEF TryLock, Running
      <3>2. list[c] # <<>>
        BY <1>2 DEF TryLock
      <3> QED
        BY <2>1, <2>2, <3>1, <3>2, SoftAssumption
    <2>3. CASE run[h] # NoCpu
      <3>1. /\ UNCHANGED <<run, soft, left>> /\ soft[c] = "list"
            /\ list' = [list EXCEPT ![c] = Tail(list[c])]
        BY <1>2, <2>3 DEF TryLock, Running, Requeue
      <3> QED
        BY <3>1
    <2> QED
      BY <2>2, <2>3
  <1>3. ASSUME NEW c \in Cpus, tasklet_action(c)
        PROVE  PassTrue'
    <2> DEFINE h == Head(list[c])
    <2>1. h \in Tasklets
      BY <1>3 DEF tasklet_action, Running
    <2>2. run[h] = c /\ soft[c] = "locked" /\ list[c] # <<>>
      BY <1>3 DEF tasklet_action, Running
    <2>3. CASE h \in count
      <3>1. /\ run' = [run EXCEPT ![h] = NoCpu] /\ soft' = [soft EXCEPT ![c] = "list"]
            /\ left' = left /\ list' = [list EXCEPT ![c] = Tail(list[c])]
        BY <1>3, <2>3 DEF tasklet_action, Requeue
      <3> QED
        BY <2>1, <2>2, <3>1
    <2>4. CASE h \notin count
      <3>1. /\ soft' = [soft EXCEPT ![c] = "func"]
            /\ UNCHANGED <<run, left, list>>
        BY <1>3, <2>4 DEF tasklet_action
      <3> QED
        BY <2>2, <3>1
    <2> QED
      BY <2>3, <2>4
  <1>4. ASSUME NEW c \in Cpus, FuncEnd(c)
        PROVE  PassTrue'
    BY <1>4 DEF FuncEnd, Running
  <1>5. ASSUME NEW c \in Cpus, ActionEnd(c)
        PROVE  PassTrue'
    BY <1>5 DEF ActionEnd, Running
  <1>6. ASSUME NEW c \in Cpus, __do_softirq(c)
        PROVE  PassTrue'
    BY <1>6 DEF __do_softirq, Running, Woken
  <1>7. ASSUME NEW c \in Cpus, irq_enter(c)
        PROVE  PassTrue'
    BY <1>7 DEF irq_enter
  <1>8. ASSUME NEW c \in Cpus, irq_exit(c)
        PROVE  PassTrue'
    BY <1>8 DEF irq_exit, StartIf, Start, Woken
  <1>9. ASSUME NEW c \in Cpus, local_bh_disable(c)
        PROVE  PassTrue'
    BY <1>9 DEF local_bh_disable, InTask, in_interrupt
  <1>10. ASSUME NEW c \in Cpus, local_bh_enable(c)
        PROVE  PassTrue'
    BY <1>10 DEF local_bh_enable, StartIf, Start
  <1>11. ASSUME NEW c \in Cpus, cmgroup_execute_softirq(c)
        PROVE  PassTrue'
    BY <1>11 DEF cmgroup_execute_softirq, StartIf, Start, in_interrupt
  <1>12. ASSUME NEW c \in Cpus, ksoftirqd(c)
        PROVE  PassTrue'
    BY <1>12 DEF ksoftirqd, StartIf, Start, InTask, in_interrupt
  <1>13. ASSUME NEW c \in Cpus, run_ksoftirqd(c)
        PROVE  PassTrue'
    BY <1>13 DEF run_ksoftirqd, StartIf, Start, in_interrupt
  <1>14. ASSUME NEW c \in Cpus, CpuDown(c)
        PROVE  PassTrue'
    BY <1>14 DEF CpuDown, InTask, in_interrupt
  <1>15. ASSUME NEW c \in Cpus, NEW t \in Tasklets, tasklet_schedule(c, t)
        PROVE  PassTrue'
    BY <1>15 DEF tasklet_schedule, Link, raise_softirq_irqoff, in_interrupt, Woken
  <1>16. ASSUME NEW c \in Cpus, NEW t \in Tasklets, tasklet_schedule_nosoftirqd_wake(c, t)
        PROVE  PassTrue'
    BY <1>16 DEF tasklet_schedule_nosoftirqd_wake, Link, InTask, in_interrupt,
      raise_softirq_irqoff_nosoftirqd_wake
  <1>17. ASSUME NEW c \in Cpus, NEW t \in Tasklets, tasklet_kill_immediate(t, c)
        PROVE  PassTrue'
    BY <1>17 DEF tasklet_kill_immediate
  <1>18. ASSUME NEW c \in Cpus, NEW to \in Cpus, takeover_tasklets(c, to)
        PROVE  PassTrue'
    BY <1>18 DEF takeover_tasklets, raise_softirq_irqoff, InTask, in_interrupt, Woken
  <1>19. ASSUME NEW t \in Tasklets, tasklet_disable(t)
        PROVE  PassTrue'
    BY <1>19 DEF tasklet_disable
  <1>20. ASSUME NEW t \in Tasklets, tasklet_enable(t)
        PROVE  PassTrue'
    BY <1>20 DEF tasklet_enable
  <1>21. ASSUME NEW t \in Tasklets, tasklet_kill(t)
        PROVE  PassTrue'
    BY <1>21 DEF tasklet_kill
  <1>22. CASE UNCHANGED softVars
    BY <1>22 DEF softVars
  <1> QED
    BY <1>1, <1>2, <1>3, <1>4, <1>5, <1>6, <1>7, <1>8, <1>9, <1>10, <1>11, <1>12, <1>13,
      <1>14, <1>15, <1>16, <1>17, <1>18, <1>19, <1>20, <1>21, <1>22, Zenon DEF SoftNext,
      Softirq

\* Whoever puts a tasklet on a list raises its softirq on that CPU; whoever takes
\* the bit away takes the list or does it in this pass.
LEMMA StepForgotten ==
    SoftTypes /\ PassTrue /\ NoneForgotten /\ [SoftNext]_softVars
        => NoneForgotten'
  <1> SUFFICES ASSUME SoftTypes /\ PassTrue /\ NoneForgotten, [SoftNext]_softVars
               PROVE  NoneForgotten'
    OBVIOUS
  <1> USE DEF cpuVars, taskletVars, SoftTypes, NoneForgotten, in_interrupt
  <1>1. ASSUME NEW c \in Cpus, TakeList(c)
        PROVE  NoneForgotten'
    BY <1>1 DEF TakeList, Running
  <1>2. ASSUME NEW c \in Cpus, TryLock(c)
        PROVE  NoneForgotten'
    <2> DEFINE h == Head(list[c])
               v == VecOf(h)
    <2>1. v \in Vecs
      BY VecOfType
    <2>2. CASE UNCHANGED <<vec, pending>>
      BY <1>2, <2>2 DEF TryLock, Running
    <2>3. CASE Requeue(c)
      <3>1. /\ vec' = [vec EXCEPT ![c][v] = Append(vec[c][v], h)]
            /\ pending' = [pending EXCEPT ![c] = pending[c] \cup {v}]
        BY <2>3 DEF Requeue
      <3>2. soft[c] # "off" /\ soft'[c] # "off"
        BY <1>2 DEF TryLock, Running
      <3>3. /\ \A d \in Cpus : d # c => soft'[d] = soft[d]
            /\ UNCHANGED <<irq, bh, left, current, daemon, online>>
        BY <1>2 DEF TryLock
      <3> HIDE DEF h, v
      <3> QED
        BY <2>1, <3>1, <3>2, <3>3
    <2> QED
      BY <1>2, <2>2, <2>3 DEF TryLock
  <1>3. ASSUME NEW c \in Cpus, tasklet_action(c)
        PROVE  NoneForgotten'
    <2> DEFINE h == Head(list[c])
               v == VecOf(h)
    <2>1. v \in Vecs
      BY VecOfType
    <2>2. CASE UNCHANGED <<vec, pending>>
      BY <1>3, <2>2 DEF tasklet_action, Running
    <2>3. CASE Requeue(c)
      <3>1. /\ vec' = [vec EXCEPT ![c][v] = Append(vec[c][v], h)]
            /\ pending' = [pending EXCEPT ![c] = pending[c] \cup {v}]
        BY <2>3 DEF Requeue
      <3>2. soft[c] # "off" /\ soft'[c] # "off"
        BY <1>3 DEF tasklet_action, Running
      <3>3. /\ \A d \in Cpus : d # c => soft'[d] = soft[d]
            /\ UNCHANGED <<irq, bh, left, current, daemon, online>>
        BY <1>3 DEF tasklet_action
      <3> HIDE DEF h, v
      <3> QED
        BY <2>1, <3>1, <3>2, <3>3
    <2> QED
      BY <1>3, <2>2, <2>3 DEF tasklet_action
  <1>4. ASSUME NEW c \in Cpus, FuncEnd(c)
        PROVE  NoneForgotten'
    BY <1>4 DEF FuncEnd, Running
  <1>5. ASSUME NEW c \in Cpus, ActionEnd(c)
        PROVE  NoneForgotten'
    BY <1>5 DEF ActionEnd, Running
  <1>6. ASSUME NEW c \in Cpus, __do_softirq(c)
        PROVE  NoneForgotten'
    <2>1. left[c] = {} /\ soft[c] = "next" /\ UNCHANGED <<vec, irq, bh, current, online>>
      BY <1>6 DEF __do_softirq, Running
    <2>2. CASE /\ left' = [left EXCEPT ![c] = pending[c]]
               /\ pending' = [pending EXCEPT ![c] = {}] /\ UNCHANGED <<soft, daemon>>
      BY <2>1, <2>2
    <2>3. CASE /\ daemon' = IF pending[c] # {} THEN Woken(c) ELSE daemon
               /\ soft' = [soft EXCEPT ![c] = "off"] /\ UNCHANGED <<left, pending>>
      BY <2>1, <2>3 DEF Woken
    <2> QED
      BY <1>6, <2>2, <2>3, Zenon DEF __do_softirq
  <1>7. ASSUME NEW c \in Cpus, irq_enter(c)
        PROVE  NoneForgotten'
    BY <1>7 DEF irq_enter
  <1>8. ASSUME NEW c \in Cpus, irq_exit(c)
        PROVE  NoneForgotten'
    BY <1>8 DEF irq_exit, StartIf, Start, Woken, PassTrue
  <1>9. ASSUME NEW c \in Cpus, local_bh_disable(c)
        PROVE  NoneForgotten'
    BY <1>9 DEF local_bh_disable, InTask, in_interrupt
  <1>10. ASSUME NEW c \in Cpus, local_bh_enable(c)
        PROVE  NoneForgotten'
    BY <1>10 DEF local_bh_enable, StartIf, Start, PassTrue
  <1>11. ASSUME NEW c \in Cpus, cmgroup_execute_softirq(c)
        PROVE  NoneForgotten'
    BY <1>11 DEF cmgroup_execute_softirq, StartIf, Start, in_interrupt, PassTrue
  <1>12. ASSUME NEW c \in Cpus, ksoftirqd(c)
        PROVE  NoneForgotten'
    BY <1>12 DEF ksoftirqd, StartIf, Start, InTask, in_interrupt, PassTrue
  <1>13. ASSUME NEW c \in Cpus, run_ksoftirqd(c)
        PROVE  NoneForgotten'
    BY <1>13 DEF run_ksoftirqd, StartIf, Start, in_interrupt, PassTrue
  <1>14. ASSUME NEW c \in Cpus, CpuDown(c)
        PROVE  NoneForgotten'
    BY <1>14 DEF CpuDown, InTask, in_interrupt
  <1>15. ASSUME NEW c \in Cpus, NEW t \in Tasklets, tasklet_schedule(c, t)
        PROVE  NoneForgotten'
    BY <1>15 DEF tasklet_schedule, Link, raise_softirq_irqoff, in_interrupt, Woken
  <1>16. ASSUME NEW c \in Cpus, NEW t \in Tasklets, tasklet_schedule_nosoftirqd_wake(c, t)
        PROVE  NoneForgotten'
    BY <1>16 DEF tasklet_schedule_nosoftirqd_wake, Link, InTask, in_interrupt,
      raise_softirq_irqoff_nosoftirqd_wake
  <1>17. ASSUME NEW c \in Cpus, NEW t \in Tasklets, tasklet_kill_immediate(t, c)
        PROVE  NoneForgotten'
    BY <1>17 DEF tasklet_kill_immediate
  <1>18. ASSUME NEW c \in Cpus, NEW to \in Cpus, takeover_tasklets(c, to)
        PROVE  NoneForgotten'
    BY <1>18, Zenon DEF takeover_tasklets, raise_softirq_irqoff, InTask, in_interrupt, Woken
  <1>19. ASSUME NEW t \in Tasklets, tasklet_disable(t)
        PROVE  NoneForgotten'
    BY <1>19 DEF tasklet_disable
  <1>20. ASSUME NEW t \in Tasklets, tasklet_enable(t)
        PROVE  NoneForgotten'
    BY <1>20 DEF tasklet_enable
  <1>21. ASSUME NEW t \in Tasklets, tasklet_kill(t)
        PROVE  NoneForgotten'
    BY <1>21 DEF tasklet_kill
  <1>22. CASE UNCHANGED softVars
    BY <1>22 DEF softVars
  <1> QED
    BY <1>1, <1>2, <1>3, <1>4, <1>5, <1>6, <1>7, <1>8, <1>9, <1>10, <1>11, <1>12, <1>13,
      <1>14, <1>15, <1>16, <1>17, <1>18, <1>19, <1>20, <1>21, <1>22, Zenon DEF SoftNext,
      Softirq

\* Entry i of list k of CPU c is t.
At(F, c, k, i, t) == i \in 1..Len(F[c][k]) /\ F[c][k][i] = t

\* Two entries that are equal are the same entry.
LEMMA Same ==
    ASSUME NEW F, Once(F), NEW c \in Cpus, NEW d \in Cpus, NEW k \in Kinds, NEW l \in Kinds,
           NEW i, NEW j, NEW t, At(F, c, k, i, t), At(F, d, l, j, t)
    PROVE  c = d /\ k = l /\ i = j
  <1>1. i \in 1..Len(F[c][k]) /\ j \in 1..Len(F[d][l]) /\ F[c][k][i] = F[d][l][j]
    BY DEF At
  <1>2. \A x \in 1..Len(F[c][k]), y \in 1..Len(F[d][l]) :
            F[c][k][x] = F[d][l][y] => c = d /\ k = l /\ x = y
    BY DEF Once
  <1> QED
    BY <1>1, <1>2

\* If no tasklet is at two entries, none is on the lists twice.
LEMMA OnceAt ==
    ASSUME NEW F,
           ASSUME NEW c \in Cpus, NEW d \in Cpus, NEW k \in Kinds, NEW l \in Kinds,
                  NEW i, NEW j, NEW t, At(F, c, k, i, t), At(F, d, l, j, t)
           PROVE  c = d /\ k = l /\ i = j
    PROVE  Once(F)
  <1> SUFFICES ASSUME NEW c \in Cpus, NEW d \in Cpus, NEW k \in Kinds, NEW l \in Kinds,
                      NEW i \in 1..Len(F[c][k]), NEW j \in 1..Len(F[d][l]),
                      F[c][k][i] = F[d][l][j]
               PROVE  c = d /\ k = l /\ i = j
    BY Zenon DEF Once
  <1>1. At(F, c, k, i, F[c][k][i]) /\ At(F, d, l, j, F[c][k][i])
    BY DEF At
  <1> QED
    BY <1>1

\* What is on the lists is at an entry.
LEMMA OnAt ==
    ASSUME NEW F, NEW t
    PROVE  On(t, F) <=> \E c \in Cpus, k \in Kinds : \E i : At(F, c, k, i, t)
  BY Zenon DEF On, At

\* Nothing but list k of CPU c differs.
But(F, G, c, k) == \A d \in Cpus, l \in Kinds : d # c \/ l # k => G[d][l] = F[d][l]

\* The head is taken off a list.
LEMMA Dropped ==
    ASSUME NEW F \in AllLists, NEW G, Once(F), NEW c \in Cpus, NEW k \in Kinds,
           F[c][k] # <<>>, G[c][k] = Tail(F[c][k]), But(F, G, c, k)
    PROVE  Once(G) /\ ~On(Head(F[c][k]), G) /\ \A t : On(t, G) => On(t, F)
  <1> DEFINE From(d, l, i) == IF d = c /\ l = k THEN i + 1 ELSE i
  <1>1. ASSUME NEW d \in Cpus, NEW l \in Kinds, NEW i, NEW t, At(G, d, l, i, t)
        PROVE  /\ At(F, d, l, From(d, l, i), t)
               /\ d = c /\ l = k => i \in Nat /\ i > 0
    <2>1. CASE d = c /\ l = k
      <3> DEFINE s == F[c][k]
      <3>1. s \in Seq(Tasklets) /\ s # <<>>
        BY DEF AllLists
      <3>2. i \in 1..Len(Tail(s)) /\ Tail(s)[i] = t
        BY <1>1, <2>1, Zenon DEF At
      <3> HIDE DEF s
      <3>3. i + 1 \in 1..Len(s) /\ Tail(s)[i] = s[i + 1] /\ i \in Nat /\ i > 0
        BY <3>1, <3>2
      <3> QED
        BY <2>1, <3>2, <3>3 DEF s, At
    <2>2. CASE ~(d = c /\ l = k)
      BY <1>1, <2>2 DEF But, At
    <2> QED
      BY <2>1, <2>2
  <1>2. Once(G)
    <2> SUFFICES ASSUME NEW d \in Cpus, NEW e \in Cpus, NEW l \in Kinds, NEW m \in Kinds,
                        NEW i, NEW j, NEW t, At(G, d, l, i, t), At(G, e, m, j, t)
                 PROVE  d = e /\ l = m /\ i = j
      BY OnceAt
    <2>1. /\ At(F, d, l, From(d, l, i), t) /\ At(F, e, m, From(e, m, j), t)
          /\ d = c /\ l = k => i \in Nat
          /\ e = c /\ m = k => j \in Nat
      BY <1>1
    <2>2. d = e /\ l = m /\ From(d, l, i) = From(e, m, j)
      <3> HIDE DEF From
      <3> QED
        BY <2>1, Same
    <2> QED
      BY <2>1, <2>2
  <1>3. \A t : On(t, G) => On(t, F)
    <2> HIDE DEF From
    <2> QED
      BY <1>1, OnAt
  <1>4. ~On(Head(F[c][k]), G)
    <2>1. At(F, c, k, 1, Head(F[c][k]))
      BY DEF AllLists, At
    <2>2. ASSUME NEW d \in Cpus, NEW l \in Kinds, NEW i, At(G, d, l, i, Head(F[c][k]))
          PROVE  FALSE
      <3>1. /\ At(F, d, l, From(d, l, i), Head(F[c][k]))
            /\ d = c /\ l = k => i \in Nat /\ i > 0
        BY <1>1, <2>2
      <3>2. d = c /\ l = k /\ From(d, l, i) = 1
        <4> HIDE DEF From
        <4> QED
          BY <2>1, <3>1, Same
      <3> QED
        BY <3>1, <3>2
    <2> QED
      BY <2>2, OnAt
  <1> QED
    BY <1>2, <1>3, <1>4

\* A tasklet that is on no list is put on one.
LEMMA Added ==
    ASSUME NEW F \in AllLists, NEW G, Once(F), NEW c \in Cpus, NEW k \in Kinds,
           NEW h, ~On(h, F), G[c][k] = Append(F[c][k], h), But(F, G, c, k)
    PROVE  Once(G) /\ \A t : On(t, G) => t = h \/ On(t, F)
  <1> DEFINE New(d, l, i) == d = c /\ l = k /\ i = Len(F[c][k]) + 1
  <1>1. ASSUME NEW d \in Cpus, NEW l \in Kinds, NEW i, NEW t, At(G, d, l, i, t)
        PROVE  \/ New(d, l, i) /\ t = h
               \/ At(F, d, l, i, t) /\ t # h
    <2>1. CASE d = c /\ l = k
      <3> DEFINE s == F[c][k]
      <3>1. s \in Seq(Tasklets)
        BY DEF AllLists
      <3>2. i \in 1..Len(Append(s, h)) /\ Append(s, h)[i] = t
        BY <1>1, <2>1, Zenon DEF At
      <3>3. At(F, d, l, i, t) => t # h
        BY OnAt
      <3> HIDE DEF s
      <3>4. IF i = Len(s) + 1 THEN t = h ELSE i \in 1..Len(s) /\ s[i] = t
        BY <3>1, <3>2
      <3> QED
        BY <2>1, <3>3, <3>4 DEF s, At
    <2>2. CASE ~(d = c /\ l = k)
      <3>1. At(F, d, l, i, t)
        BY <1>1, <2>2 DEF But, At
      <3> QED
        BY <3>1, OnAt
    <2> QED
      BY <2>1, <2>2
  <1>2. Once(G)
    <2> SUFFICES ASSUME NEW d \in Cpus, NEW e \in Cpus, NEW l \in Kinds, NEW m \in Kinds,
                        NEW i, NEW j, NEW t, At(G, d, l, i, t), At(G, e, m, j, t)
                 PROVE  d = e /\ l = m /\ i = j
      BY OnceAt
    <2>1. CASE t = h
      BY <1>1, <2>1
    <2>2. CASE t # h
      <3>1. At(F, d, l, i, t) /\ At(F, e, m, j, t)
        BY <1>1, <2>2
      <3> QED
        BY <3>1, Same
    <2> QED
      BY <2>1, <2>2
  <1>3. \A t : On(t, G) => t = h \/ On(t, F)
    BY <1>1, OnAt
  <1> QED
    BY <1>2, <1>3

\* One entry is unlinked from a list.
LEMMA Removed ==
    ASSUME NEW F \in AllLists, NEW G, Once(F), NEW c \in Cpus, NEW k \in Kinds,
           NEW n \in 1..Len(F[c][k]), G[c][k] = Unlinked(F[c][k], n), But(F, G, c, k)
    PROVE  Once(G) /\ \A t : On(t, G) => On(t, F)
  <1> DEFINE From(d, l, i) == IF d = c /\ l = k /\ ~(i < n) THEN i + 1 ELSE i
  <1>1. ASSUME NEW d \in Cpus, NEW l \in Kinds, NEW i, NEW t, At(G, d, l, i, t)
        PROVE  At(F, d, l, From(d, l, i), t) /\ i \in Int /\ n \in Int
    <2>1. CASE d = c /\ l = k
      <3> DEFINE s == F[c][k]
      <3>1. s \in Seq(Tasklets) /\ Len(s) \in Nat /\ n \in 1..Len(s)
        BY DEF AllLists
      <3>2. i \in 1..Len(Unlinked(s, n)) /\ Unlinked(s, n)[i] = t
        BY <1>1, <2>1 DEF At
      <3> HIDE DEF s
      <3>3. i \in 1..(Len(s) - 1) /\ t = IF i < n THEN s[i] ELSE s[i + 1]
        BY <3>1, <3>2, RemovedSeq, Zenon
      <3>4. (i < n => i \in 1..Len(s)) /\ (~(i < n) => i + 1 \in 1..Len(s))
        BY <3>1, <3>3
      <3> QED
        BY <2>1, <3>1, <3>3, <3>4 DEF s, At
    <2>2. CASE ~(d = c /\ l = k)
      BY <1>1, <2>2 DEF But, At
    <2> QED
      BY <2>1, <2>2
  <1>2. Once(G)
    <2> SUFFICES ASSUME NEW d \in Cpus, NEW e \in Cpus, NEW l \in Kinds, NEW m \in Kinds,
                        NEW i, NEW j, NEW t, At(G, d, l, i, t), At(G, e, m, j, t)
                 PROVE  d = e /\ l = m /\ i = j
      BY OnceAt
    <2>1. /\ At(F, d, l, From(d, l, i), t) /\ At(F, e, m, From(e, m, j), t)
          /\ i \in Int /\ j \in Int /\ n \in Int
      BY <1>1
    <2>2. d = e /\ l = m /\ From(d, l, i) = From(e, m, j)
      <3> HIDE DEF From
      <3> QED
        BY <2>1, Same
    <2> QED
      BY <2>1, <2>2
  <1>3. \A t : On(t, G) => On(t, F)
    <2> HIDE DEF From
    <2> QED
      BY <1>1, OnAt
  <1> QED
    BY <1>2, <1>3

\* List k of CPU c is emptied onto the tail of list w of CPU to.
Poured(F, G, c, k, to, w) ==
    /\ G[to][w] = F[to][w] \o F[c][k] /\ G[c][k] = <<>>
    /\ \A d \in Cpus, l \in Kinds :
          (d # c \/ l # k) /\ (d # to \/ l # w) => G[d][l] = F[d][l]

\* One list goes to the tail of another.
LEMMA Merged ==
    ASSUME NEW F \in AllLists, NEW G, Once(F),
           NEW c \in Cpus, NEW k \in Kinds, NEW to \in Cpus, NEW w \in Kinds, c # to \/ k # w,
           Poured(F, G, c, k, to, w)
    PROVE  Once(G) /\ \A t : On(t, G) => On(t, F)
  <1> DEFINE n == Len(F[to][w])
             Over(d, l, i) == d = to /\ l = w /\ i > n
  <1>1. ASSUME NEW d \in Cpus, NEW l \in Kinds, NEW i, NEW t, At(G, d, l, i, t)
        PROVE  /\ i \in Int /\ n \in Int
               /\ IF Over(d, l, i) THEN At(F, c, k, i - n, t)
                  ELSE At(F, d, l, i, t) /\ ~(d = c /\ l = k)
    <2>1. CASE d = to /\ l = w
      <3> DEFINE a == F[to][w]
                 b == F[c][k]
      <3>1. a \in Seq(Tasklets) /\ b \in Seq(Tasklets)
        BY DEF AllLists
      <3>2. i \in 1..Len(a \o b) /\ (a \o b)[i] = t
        BY <1>1, <2>1, Zenon DEF At, Poured
      <3>3. ~(d = c /\ l = k)
        BY <2>1
      <3> HIDE DEF a, b
      <3>4. /\ Len(a \o b) = Len(a) + Len(b) /\ Len(a) \in Nat /\ Len(b) \in Nat
            /\ \A x \in 1..(Len(a) + Len(b)) :
                  (a \o b)[x] = IF x <= Len(a) THEN a[x] ELSE b[x - Len(a)]
        BY <3>1, Joined
      <3>5. i \in 1..(Len(a) + Len(b)) /\ i \in Int
        BY <3>2, <3>4
      <3>6. t = IF i <= Len(a) THEN a[i] ELSE b[i - Len(a)]
        BY <3>2, <3>4, <3>5
      <3>7. IF i > Len(a) THEN i - Len(a) \in 1..Len(b) /\ b[i - Len(a)] = t
            ELSE i \in 1..Len(a) /\ a[i] = t
        BY <3>4, <3>5, <3>6
      <3> QED
        BY <2>1, <3>3, <3>4, <3>5, <3>7 DEF a, b, At
    <2>2. CASE d = c /\ l = k
      BY <1>1, <2>2 DEF At, Poured
    <2>3. CASE ~(d = to /\ l = w) /\ ~(d = c /\ l = k)
      <3>1. G[d][l] = F[d][l]
        BY <2>3 DEF Poured
      <3>2. n \in Int
        BY DEF AllLists
      <3>3. i \in Int
        BY <1>1 DEF At
      <3> QED
        BY <1>1, <2>3, <3>1, <3>2, <3>3 DEF At
    <2> QED
      BY <2>1, <2>2, <2>3
  <1>2. Once(G)
    <2> SUFFICES ASSUME NEW d \in Cpus, NEW e \in Cpus, NEW l \in Kinds, NEW m \in Kinds,
                        NEW i, NEW j, NEW t, At(G, d, l, i, t), At(G, e, m, j, t)
                 PROVE  d = e /\ l = m /\ i = j
      BY OnceAt
    <2>1. i \in Int /\ j \in Int /\ n \in Int
      BY <1>1
    <2>2. CASE Over(d, l, i) /\ Over(e, m, j)
      <3>1. At(F, c, k, i - n, t) /\ At(F, c, k, j - n, t)
        BY <1>1, <2>2
      <3>2. i - n = j - n
        BY <3>1, Same
      <3> QED
        BY <2>1, <2>2, <3>2
    <2>3. CASE Over(d, l, i) /\ ~Over(e, m, j)
      <3>1. At(F, c, k, i - n, t) /\ At(F, e, m, j, t) /\ ~(e = c /\ m = k)
        BY <1>1, <2>3
      <3> QED
        BY <3>1, Same
    <2>4. CASE ~Over(d, l, i) /\ Over(e, m, j)
      <3>1. At(F, c, k, j - n, t) /\ At(F, d, l, i, t) /\ ~(d = c /\ l = k)
        BY <1>1, <2>4
      <3> QED
        BY <3>1, Same
    <2>5. CASE ~Over(d, l, i) /\ ~Over(e, m, j)
      <3>1. At(F, d, l, i, t) /\ At(F, e, m, j, t)
        BY <1>1, <2>5
      <3> QED
        BY <3>1, Same
    <2> QED
      BY <2>2, <2>3, <2>4, <2>5
  <1>3. \A t : On(t, G) => On(t, F)
    <2> HIDE DEF n, Over
    <2> QED
      BY <1>1, OnAt
  <1> QED
    BY <1>2, <1>3

\* What the lists are.
LEMMA ListsAt ==
    /\ SoftTypes /\ PassTrue => Lists \in AllLists
    /\ \A c \in Cpus, v \in Vecs : Lists[c][v] = vec[c][v]
    /\ \A c \in Cpus : Lists[c]["list"] = IF soft[c] = "func" THEN Tail(list[c]) ELSE list[c]
    /\ \A c \in Cpus, v \in Vecs : Lists'[c][v] = vec'[c][v]
    /\ \A c \in Cpus :
          Lists'[c]["list"] = IF soft'[c] = "func" THEN Tail(list'[c]) ELSE list'[c]
    /\ Kinds = Vecs \cup {"list"} /\ "list" \notin Vecs
  <1>1. SoftTypes /\ PassTrue => Lists \in AllLists
    <2> SUFFICES ASSUME SoftTypes, PassTrue, NEW c \in Cpus, NEW k \in Kinds
                 PROVE  (IF k # "list" THEN vec[c][k]
                         ELSE IF soft[c] = "func" THEN Tail(list[c]) ELSE list[c])
                            \in Seq(Tasklets)
      BY DEF AllLists, Lists
    <2>1. CASE k # "list"
      BY <2>1 DEF Kinds, Vecs, SoftTypes
    <2>2. CASE k = "list" /\ soft[c] = "func"
      <3>1. list[c] \in Seq(Tasklets) /\ list[c] # <<>>
        BY <2>2 DEF SoftTypes, PassTrue
      <3> QED
        BY <2>2, <3>1
    <2>3. CASE k = "list" /\ soft[c] # "func"
      BY <2>3 DEF SoftTypes
    <2> QED
      BY <2>1, <2>2, <2>3
  <1>2. /\ \A c \in Cpus, v \in Vecs : Lists[c][v] = vec[c][v]
        /\ \A c \in Cpus :
              Lists[c]["list"] = IF soft[c] = "func" THEN Tail(list[c]) ELSE list[c]
    BY DEF Lists, Kinds, Vecs
  <1>3. /\ \A c \in Cpus, v \in Vecs : Lists'[c][v] = vec'[c][v]
        /\ \A c \in Cpus :
              Lists'[c]["list"] = IF soft'[c] = "func" THEN Tail(list'[c]) ELSE list'[c]
    BY DEF Lists, Kinds, Vecs
  <1>4. Kinds = Vecs \cup {"list"} /\ "list" \notin Vecs
    BY DEF Kinds, Vecs
  <1> QED
    BY <1>1, <1>2, <1>3, <1>4

\* Steps that move nothing.
LEMMA Unmoved ==
    ASSUME vec' = vec, list' = list, \A c \in Cpus : soft'[c] = "func" <=> soft[c] = "func"
    PROVE  Lists' = Lists
  BY DEF Lists

\* A tasklet goes back to the list of its CPU.
LEMMA Requeued ==
    ASSUME SoftTypes, PassTrue, LinkedOnce, NEW c \in Cpus, list[c] # <<>>, Requeue(c),
           soft[c] # "func", soft'[c] # "func", \A d \in Cpus : d # c => soft'[d] = soft[d]
    PROVE  Once(Lists') /\ \A t : On(t, Lists') => On(t, Lists)
  <1> DEFINE h == Head(list[c])
             v == VecOf(h)
             M == [d \in Cpus |-> [l \in Kinds |->
                      IF d = c /\ l = "list" THEN Tail(list[c]) ELSE Lists[d][l]]]
  <1>1. list[c] \in Seq(Tasklets) /\ h \in Tasklets /\ Tail(list[c]) \in Seq(Tasklets)
    BY DEF SoftTypes
  <1>2. v \in Vecs /\ v \in Kinds /\ "list" \in Kinds /\ v # "list"
    BY VecOfType, ListsAt
  <1>3. Lists \in AllLists /\ Lists[c]["list"] = list[c]
    BY ListsAt
  <1>4. M \in AllLists
    BY <1>1, <1>3 DEF AllLists
  <1>5. M[c]["list"] = Tail(Lists[c]["list"]) /\ But(Lists, M, c, "list")
    BY <1>2, <1>3 DEF But
  <1>6. vec' = [vec EXCEPT ![c][v] = Append(vec[c][v], h)]
    BY DEF Requeue
  <1>7. list' = [list EXCEPT ![c] = Tail(list[c])]
    BY DEF Requeue
  <1>8. On(h, Lists)
    <2>1. At(Lists, c, "list", 1, h)
      BY <1>1, <1>3 DEF At
    <2> QED
      BY <1>2, <2>1, OnAt
  <1>9. ASSUME NEW d \in Cpus, NEW l \in Kinds
        PROVE  M[d][l] = IF d = c /\ l = "list" THEN Tail(list[c]) ELSE Lists[d][l]
    OBVIOUS
  <1>10. h = Head(Lists[c]["list"])
    BY <1>3
  <1> HIDE DEF M, h, v
  <1>11. Once(M) /\ ~On(h, M) /\ \A t : On(t, M) => On(t, Lists)
    BY <1>2, <1>3, <1>5, <1>10, Dropped DEF LinkedOnce
  <1>12. Lists'[c][v] = Append(M[c][v], h)
    <2>1. vec'[c][v] = Append(vec[c][v], h)
      BY <1>2, <1>6 DEF SoftTypes
    <2>2. M[c][v] = vec[c][v]
      BY <1>2, <1>9, ListsAt
    <2> QED
      BY <1>2, <2>1, <2>2, ListsAt
  <1>13. But(M, Lists', c, v)
    <2> SUFFICES ASSUME NEW d \in Cpus, NEW l \in Kinds, d # c \/ l # v
                 PROVE  Lists'[d][l] = M[d][l]
      BY DEF But
    <2>1. CASE l = "list"
      <3>1. list'[d] = IF d = c THEN Tail(list[c]) ELSE list[d]
        BY <1>7 DEF SoftTypes
      <3>2. M[d][l] = IF d = c THEN Tail(list[c]) ELSE Lists[d]["list"]
        BY <1>9, <2>1
      <3> QED
        BY <2>1, <3>1, <3>2, ListsAt
    <2>2. CASE l \in Vecs
      <3>1. vec'[d][l] = vec[d][l]
        BY <1>2, <1>6, <2>2 DEF SoftTypes
      <3>2. M[d][l] = Lists[d][l]
        BY <1>9, <2>2, ListsAt
      <3> QED
        BY <2>2, <3>1, <3>2, ListsAt
    <2> QED
      BY <2>1, <2>2, ListsAt
  <1>14. Once(Lists') /\ \A t : On(t, Lists') => t = h \/ On(t, M)
    BY <1>2, <1>4, <1>11, <1>12, <1>13, Added
  <1> QED
    BY <1>8, <1>11, <1>14

\* tasklet_schedule links a tasklet that is on no list.
LEMMA LinkKept ==
    ASSUME SoftTypes, PassTrue, LinkedOnce, SchedTrue, NEW c \in Cpus, NEW t \in Tasklets,
           vec' = [vec EXCEPT ![c][VecOf(t)] = Append(vec[c][VecOf(t)], t)],
           sched' = sched \cup {t}, t \notin sched, user[t] # "spin",
           UNCHANGED <<list, soft, user>>
    PROVE  LinkedOnce' /\ SchedTrue'
  <1> DEFINE v == VecOf(t)
  <1>1. v \in Vecs /\ v \in Kinds /\ v # "list" /\ Lists \in AllLists
    BY VecOfType, ListsAt
  <1>2. ~On(t, Lists)
    BY DEF SchedTrue
  <1> HIDE DEF v
  <1>3. Lists'[c][v] = Append(Lists[c][v], t)
    <2>1. vec'[c][v] = Append(vec[c][v], t)
      BY <1>1 DEF SoftTypes, v
    <2> QED
      BY <1>1, <2>1, ListsAt, Zenon
  <1>4. But(Lists, Lists', c, v)
    <2> SUFFICES ASSUME NEW d \in Cpus, NEW l \in Kinds, d # c \/ l # v
                 PROVE  Lists'[d][l] = Lists[d][l]
      BY DEF But
    <2>1. CASE l \in Vecs
      BY <1>1, <2>1, ListsAt DEF SoftTypes, v
    <2>2. CASE l = "list"
      BY <2>2, ListsAt
    <2> QED
      BY <2>1, <2>2, ListsAt
  <1>5. Once(Lists') /\ \A s : On(s, Lists') => s = t \/ On(s, Lists)
    BY <1>1, <1>2, <1>3, <1>4, Added DEF LinkedOnce
  <1>6. ASSUME NEW s \in Tasklets, On(s, Lists')
        PROVE  s \in sched' /\ user'[s] # "spin"
    BY <1>5, <1>6 DEF SchedTrue
  <1> QED
    BY <1>5, <1>6 DEF LinkedOnce, SchedTrue

\* The lists of a dead CPU are taken over, one and then the other.
LEMMA TakeoverKept ==
    ASSUME SoftTypes, PassTrue, LinkedOnce, SchedTrue, NEW c \in Cpus, NEW to \in Cpus, c # to,
           \A v \in Vecs : vec'[to][v] = vec[to][v] \o vec[c][v] /\ vec'[c][v] = <<>>,
           \A d \in Cpus : d # c /\ d # to => vec'[d] = vec[d],
           UNCHANGED <<list, soft, sched, user>>
    PROVE  LinkedOnce' /\ SchedTrue'
  <1> DEFINE M == [d \in Cpus |-> [l \in Kinds |->
                      IF l # "HI" THEN Lists[d][l]
                      ELSE IF d = c THEN <<>>
                      ELSE IF d = to THEN Lists[to]["HI"] \o Lists[c]["HI"] ELSE Lists[d][l]]]
  <1>1. /\ Lists \in AllLists /\ Kinds = {"HI", "TASKLET", "list"} /\ Vecs = {"HI", "TASKLET"}
    BY ListsAt DEF Kinds, Vecs
  <1>2. Lists[to]["HI"] \o Lists[c]["HI"] \in Seq(Tasklets)
    <2>1. Lists[to]["HI"] \in Seq(Tasklets) /\ Lists[c]["HI"] \in Seq(Tasklets)
      BY <1>1 DEF AllLists
    <2> QED
      BY <2>1, Joined
  <1>3. M \in AllLists
    BY <1>1, <1>2 DEF AllLists
  <1>4. /\ M[to]["HI"] = Lists[to]["HI"] \o Lists[c]["HI"] /\ M[c]["HI"] = <<>>
        /\ \A d \in Cpus, l \in Kinds :
              (d # c \/ l # "HI") /\ (d # to \/ l # "HI") => M[d][l] = Lists[d][l]
    BY <1>1, Zenon
  <1>5. \A d \in Cpus : M[d]["TASKLET"] = Lists[d]["TASKLET"] /\ M[d]["list"] = Lists[d]["list"]
    BY <1>1
  <1> HIDE DEF M
  <1>6. Once(M) /\ \A t : On(t, M) => On(t, Lists)
    <2>1. Poured(Lists, M, c, "HI", to, "HI")
      BY <1>4 DEF Poured
    <2> QED
      BY <1>1, <2>1, Merged DEF LinkedOnce
  <1>7. ASSUME NEW v \in Vecs
        PROVE  /\ Lists'[to][v] = Lists[to][v] \o Lists[c][v] /\ Lists'[c][v] = <<>>
               /\ \A d \in Cpus : d # c /\ d # to => Lists'[d][v] = Lists[d][v]
    <2>1. /\ vec'[to][v] = vec[to][v] \o vec[c][v] /\ vec'[c][v] = <<>>
          /\ \A d \in Cpus : d # c /\ d # to => vec'[d] = vec[d]
      BY Zenon
    <2>2. Lists[to][v] = vec[to][v] /\ Lists[c][v] = vec[c][v]
      BY ListsAt
    <2>3. Lists'[to][v] = vec'[to][v] /\ Lists'[c][v] = vec'[c][v]
      BY ListsAt
    <2>4. ASSUME NEW d \in Cpus, d # c, d # to
          PROVE  Lists'[d][v] = Lists[d][v]
      <3>1. vec'[d][v] = vec[d][v]
        BY <2>1, <2>4
      <3>2. Lists'[d][v] = vec'[d][v] /\ Lists[d][v] = vec[d][v]
        BY ListsAt
      <3> QED
        BY <3>1, <3>2
    <2> QED
      BY <2>1, <2>2, <2>3, <2>4
  <1>8. \A d \in Cpus : Lists'[d]["list"] = Lists[d]["list"]
    BY ListsAt
  <1>9. Lists'[to]["TASKLET"] = M[to]["TASKLET"] \o M[c]["TASKLET"] /\ Lists'[c]["TASKLET"] = <<>>
    BY <1>1, <1>5, <1>7, Zenon
  <1>10. ASSUME NEW d \in Cpus, NEW l \in Kinds, d # c \/ l # "TASKLET", d # to \/ l # "TASKLET"
         PROVE  Lists'[d][l] = M[d][l]
    <2>1. CASE l = "HI"
      BY <1>1, <1>4, <1>7, <2>1, Zenon
    <2>2. CASE l = "TASKLET"
      BY <1>1, <1>5, <1>7, <1>10, <2>2
    <2>3. CASE l = "list"
      BY <1>5, <1>8, <2>3
    <2> QED
      BY <1>1, <2>1, <2>2, <2>3
  <1>11. Once(Lists') /\ \A t : On(t, Lists') => On(t, M)
    <2>1. Poured(M, Lists', c, "TASKLET", to, "TASKLET")
      BY <1>9, <1>10 DEF Poured
    <2> QED
      BY <1>1, <1>3, <1>6, <2>1, Merged
  <1> QED
    BY <1>6, <1>11, Zenon DEF LinkedOnce, SchedTrue

\* A tasklet is linked when it is on no list, and moves from list to list.
LEMMA StepLinked ==
    SoftTypes /\ PassTrue /\ LinkedOnce /\ SchedTrue /\ [SoftNext]_softVars
        => LinkedOnce' /\ SchedTrue'
  <1> SUFFICES ASSUME SoftTypes /\ PassTrue /\ LinkedOnce /\ SchedTrue, [SoftNext]_softVars
               PROVE  LinkedOnce' /\ SchedTrue'
    OBVIOUS
  <1> USE DEF cpuVars, taskletVars
  <1>1. ASSUME NEW c \in Cpus, TakeList(c)
        PROVE  LinkedOnce' /\ SchedTrue'
    <2> DEFINE v == IF "HI" \in left[c] THEN "HI" ELSE "TASKLET"
    <2>1. /\ list' = [list EXCEPT ![c] = vec[c][v]] /\ vec' = [vec EXCEPT ![c][v] = <<>>]
          /\ soft' = [soft EXCEPT ![c] = "list"] /\ UNCHANGED <<sched, user>>
          /\ soft[c] = "next"
      BY <1>1 DEF TakeList, Running
    <2>2. v \in Vecs /\ v \in Kinds /\ "list" \in Kinds /\ v # "list" /\ Lists \in AllLists
      BY ListsAt DEF Vecs
    <2> HIDE DEF v
    <2>3. Lists[c]["list"] = <<>> /\ vec[c][v] \in Seq(Tasklets)
      BY <2>1, <2>2, ListsAt DEF PassTrue, SoftTypes
    <2>4. <<>> \o vec[c][v] = vec[c][v]
      BY <2>3, Joined
    <2>5. Lists'[c]["list"] = Lists[c]["list"] \o Lists[c][v]
      BY <2>1, <2>2, <2>3, <2>4, ListsAt DEF SoftTypes
    <2>6. Lists'[c][v] = <<>>
      BY <2>1, <2>2, ListsAt DEF SoftTypes
    <2>7. ASSUME NEW d \in Cpus, NEW l \in Kinds, d # c \/ l # v, d # c \/ l # "list"
          PROVE  Lists'[d][l] = Lists[d][l]
      <3>1. CASE l \in Vecs
        BY <2>1, <2>2, <2>7, <3>1, ListsAt DEF SoftTypes
      <3>2. CASE l = "list"
        <4>1. list'[d] = list[d] /\ soft'[d] = soft[d]
          BY <2>1, <2>7, <3>2 DEF SoftTypes
        <4> QED
          BY <3>2, <4>1, ListsAt
      <3> QED
        BY <3>1, <3>2, ListsAt
    <2>8. Once(Lists') /\ \A t : On(t, Lists') => On(t, Lists)
      <3>1. Poured(Lists, Lists', c, v, c, "list")
        BY <2>5, <2>6, <2>7 DEF Poured
      <3> QED
        BY <2>2, <3>1, Merged DEF LinkedOnce
    <2> QED
      BY <2>1, <2>8, Zenon DEF LinkedOnce, SchedTrue
  <1>2. ASSUME NEW c \in Cpus, TryLock(c)
        PROVE  LinkedOnce' /\ SchedTrue'
    <2>1. UNCHANGED <<sched, user>>
      BY <1>2 DEF TryLock
    <2>2. CASE run[Head(list[c])] = NoCpu
      <3>1. Lists' = Lists
        BY <1>2, <2>2, Unmoved DEF SoftTypes, TryLock, Running
      <3> QED
        BY <2>1, <3>1, Zenon DEF LinkedOnce, SchedTrue
    <2>3. CASE run[Head(list[c])] # NoCpu
      <3>1. list[c] # <<>> /\ Requeue(c) /\ soft[c] # "func" /\ soft' = soft
        BY <1>2, <2>3 DEF TryLock, Running
      <3>2. Once(Lists') /\ \A t : On(t, Lists') => On(t, Lists)
        BY <3>1, Requeued
      <3> QED
        BY <2>1, <3>2, Zenon DEF LinkedOnce, SchedTrue
    <2> QED
      BY <2>2, <2>3
  <1>3. ASSUME NEW c \in Cpus, tasklet_action(c)
        PROVE  LinkedOnce' /\ SchedTrue'
    <2> DEFINE h == Head(list[c])
    <2>1. soft[c] = "locked" /\ list[c] # <<>> /\ user' = user
      BY <1>3 DEF PassTrue, tasklet_action, Running
    <2>2. CASE h \in count
      <3>1. Requeue(c) /\ soft' = [soft EXCEPT ![c] = "list"] /\ sched' = sched
        BY <1>3, <2>2 DEF tasklet_action
      <3>2. soft'[c] # "func" /\ \A d \in Cpus : d # c => soft'[d] = soft[d]
        BY <3>1 DEF SoftTypes
      <3>3. Once(Lists') /\ \A t : On(t, Lists') => On(t, Lists)
        BY <2>1, <3>1, <3>2, Requeued
      <3> QED
        BY <2>1, <3>1, <3>3, Zenon DEF LinkedOnce, SchedTrue
    <2>3. CASE h \notin count
      <3>1. /\ sched' = sched \ {h} /\ soft' = [soft EXCEPT ![c] = "func"]
            /\ UNCHANGED <<vec, list>>
        BY <1>3, <2>3 DEF tasklet_action
      <3>2. Lists[c]["list"] = list[c] /\ Lists'[c]["list"] = Tail(list[c])
        BY <2>1, <3>1, ListsAt, Zenon DEF SoftTypes
      <3>3. But(Lists, Lists', c, "list")
        <4> SUFFICES ASSUME NEW d \in Cpus, NEW l \in Kinds, d # c \/ l # "list"
                     PROVE  Lists'[d][l] = Lists[d][l]
          BY DEF But
        <4>1. CASE l \in Vecs
          BY <3>1, <4>1, ListsAt
        <4>2. CASE l = "list"
          <5>1. soft'[d] = soft[d]
            BY <3>1, <4>2 DEF SoftTypes
          <5> QED
            BY <3>1, <4>2, <5>1, ListsAt
        <4> QED
          BY <4>1, <4>2, ListsAt
      <3>4. Lists \in AllLists /\ "list" \in Kinds
        BY ListsAt
      <3>5. Once(Lists') /\ ~On(h, Lists') /\ \A t : On(t, Lists') => On(t, Lists)
        BY <2>1, <3>2, <3>3, <3>4, Dropped DEF LinkedOnce
      <3>6. ASSUME NEW t \in Tasklets, On(t, Lists')
            PROVE  t \in sched' /\ user'[t] # "spin"
        <4> HIDE DEF h
        <4>1. t # h
          BY <3>5, <3>6
        <4> QED
          BY <2>1, <3>1, <3>5, <3>6, <4>1 DEF SchedTrue
      <3> QED
        BY <3>5, <3>6 DEF LinkedOnce, SchedTrue
    <2> QED
      BY <2>2, <2>3
  <1>4. ASSUME NEW c \in Cpus, FuncEnd(c)
        PROVE  LinkedOnce' /\ SchedTrue'
    <2>1. /\ vec' = vec /\ list' = [list EXCEPT ![c] = Tail(list[c])]
          /\ soft' = [soft EXCEPT ![c] = "list"] /\ soft[c] = "func"
      BY <1>4 DEF FuncEnd, Running
    <2>2. Lists' = Lists
      BY <2>1 DEF Lists, SoftTypes
    <2>3. UNCHANGED <<sched, user>>
      BY <1>4 DEF FuncEnd
    <2> QED
      BY <2>2, <2>3, Zenon DEF LinkedOnce, SchedTrue
  <1>5. ASSUME NEW c \in Cpus, ActionEnd(c)
        PROVE  LinkedOnce' /\ SchedTrue'
    <2>1. Lists' = Lists
      BY <1>5, Unmoved DEF SoftTypes, ActionEnd, Running
    <2>2. UNCHANGED <<sched, user>>
      BY <1>5 DEF ActionEnd
    <2> QED
      BY <2>1, <2>2, Zenon DEF LinkedOnce, SchedTrue
  <1>6. ASSUME NEW c \in Cpus, __do_softirq(c)
        PROVE  LinkedOnce' /\ SchedTrue'
    <2>1. Lists' = Lists
      BY <1>6, Unmoved DEF SoftTypes, __do_softirq, Running
    <2>2. UNCHANGED <<sched, user>>
      BY <1>6 DEF __do_softirq
    <2> QED
      BY <2>1, <2>2, Zenon DEF LinkedOnce, SchedTrue
  <1>7. ASSUME NEW c \in Cpus, irq_enter(c)
        PROVE  LinkedOnce' /\ SchedTrue'
    <2>1. Lists' = Lists
      BY <1>7, Unmoved DEF SoftTypes, irq_enter
    <2>2. UNCHANGED <<sched, user>>
      BY <1>7 DEF irq_enter
    <2> QED
      BY <2>1, <2>2, Zenon DEF LinkedOnce, SchedTrue
  <1>8. ASSUME NEW c \in Cpus, irq_exit(c)
        PROVE  LinkedOnce' /\ SchedTrue'
    <2>1. Lists' = Lists
      BY <1>8, Unmoved DEF SoftTypes, irq_exit, StartIf, Start
    <2>2. UNCHANGED <<sched, user>>
      BY <1>8 DEF irq_exit
    <2> QED
      BY <2>1, <2>2, Zenon DEF LinkedOnce, SchedTrue
  <1>9. ASSUME NEW c \in Cpus, local_bh_disable(c)
        PROVE  LinkedOnce' /\ SchedTrue'
    <2>1. Lists' = Lists
      BY <1>9, Unmoved DEF SoftTypes, local_bh_disable
    <2>2. UNCHANGED <<sched, user>>
      BY <1>9 DEF local_bh_disable
    <2> QED
      BY <2>1, <2>2, Zenon DEF LinkedOnce, SchedTrue
  <1>10. ASSUME NEW c \in Cpus, local_bh_enable(c)
        PROVE  LinkedOnce' /\ SchedTrue'
    <2>1. Lists' = Lists
      BY <1>10, Unmoved DEF SoftTypes, local_bh_enable, StartIf, Start
    <2>2. UNCHANGED <<sched, user>>
      BY <1>10 DEF local_bh_enable
    <2> QED
      BY <2>1, <2>2, Zenon DEF LinkedOnce, SchedTrue
  <1>11. ASSUME NEW c \in Cpus, cmgroup_execute_softirq(c)
        PROVE  LinkedOnce' /\ SchedTrue'
    <2>1. Lists' = Lists
      BY <1>11, Unmoved DEF SoftTypes, cmgroup_execute_softirq, StartIf, Start, in_interrupt
    <2>2. UNCHANGED <<sched, user>>
      BY <1>11 DEF cmgroup_execute_softirq
    <2> QED
      BY <2>1, <2>2, Zenon DEF LinkedOnce, SchedTrue
  <1>12. ASSUME NEW c \in Cpus, ksoftirqd(c)
        PROVE  LinkedOnce' /\ SchedTrue'
    <2>1. Lists' = Lists
      BY <1>12, Unmoved DEF SoftTypes, ksoftirqd, StartIf, Start, InTask, in_interrupt
    <2>2. UNCHANGED <<sched, user>>
      BY <1>12 DEF ksoftirqd
    <2> QED
      BY <2>1, <2>2, Zenon DEF LinkedOnce, SchedTrue
  <1>13. ASSUME NEW c \in Cpus, run_ksoftirqd(c)
        PROVE  LinkedOnce' /\ SchedTrue'
    <2>1. Lists' = Lists
      BY <1>13, Unmoved DEF SoftTypes, run_ksoftirqd, StartIf, Start, in_interrupt
    <2>2. UNCHANGED <<sched, user>>
      BY <1>13 DEF run_ksoftirqd
    <2> QED
      BY <2>1, <2>2, Zenon DEF LinkedOnce, SchedTrue
  <1>14. ASSUME NEW c \in Cpus, CpuDown(c)
        PROVE  LinkedOnce' /\ SchedTrue'
    <2>1. Lists' = Lists
      BY <1>14, Unmoved DEF SoftTypes, CpuDown
    <2>2. UNCHANGED <<sched, user>>
      BY <1>14 DEF CpuDown
    <2> QED
      BY <2>1, <2>2, Zenon DEF LinkedOnce, SchedTrue
  <1>15. ASSUME NEW c \in Cpus, NEW t \in Tasklets, tasklet_schedule(c, t)
        PROVE  LinkedOnce' /\ SchedTrue'
    <2>1. /\ vec' = [vec EXCEPT ![c][VecOf(t)] = Append(vec[c][VecOf(t)], t)]
          /\ sched' = sched \cup {t} /\ t \notin sched /\ user[t] # "spin"
          /\ UNCHANGED <<list, soft, user>>
      BY <1>15 DEF tasklet_schedule, Link
    <2> QED
      BY <2>1, LinkKept, Zenon
  <1>16. ASSUME NEW c \in Cpus, NEW t \in Tasklets, tasklet_schedule_nosoftirqd_wake(c, t)
        PROVE  LinkedOnce' /\ SchedTrue'
    <2>1. /\ vec' = [vec EXCEPT ![c][VecOf(t)] = Append(vec[c][VecOf(t)], t)]
          /\ sched' = sched \cup {t} /\ t \notin sched /\ user[t] # "spin"
          /\ UNCHANGED <<list, soft, user>>
      BY <1>16 DEF tasklet_schedule_nosoftirqd_wake, Link
    <2> QED
      BY <2>1, LinkKept, Zenon
  <1>17. ASSUME NEW c \in Cpus, NEW t \in Tasklets, tasklet_kill_immediate(t, c)
        PROVE  LinkedOnce' /\ SchedTrue'
    <2> DEFINE s == vec[c]["TASKLET"]
    <2>1. "TASKLET" \in Vecs /\ "TASKLET" \in Kinds /\ "TASKLET" # "list" /\ Lists \in AllLists
      BY ListsAt DEF Vecs
    <2>2. PICK i \in 1..Len(s) : vec' = [vec EXCEPT ![c]["TASKLET"] = Unlinked(s, i)]
      BY <1>17, Zenon DEF tasklet_kill_immediate
    <2>3. /\ UNCHANGED <<list, soft, sched>> /\ user' = [user EXCEPT ![t] = "dead"]
      BY <1>17 DEF tasklet_kill_immediate
    <2>4. Lists[c]["TASKLET"] = s /\ Lists'[c]["TASKLET"] = Unlinked(s, i)
      BY <2>1, <2>2, ListsAt DEF SoftTypes
    <2>5. But(Lists, Lists', c, "TASKLET")
      <3> SUFFICES ASSUME NEW d \in Cpus, NEW l \in Kinds, d # c \/ l # "TASKLET"
                   PROVE  Lists'[d][l] = Lists[d][l]
        BY DEF But
      <3>1. CASE l \in Vecs
        BY <2>1, <2>2, <3>1, ListsAt DEF SoftTypes
      <3>2. CASE l = "list"
        BY <2>3, <3>2, ListsAt
      <3> QED
        BY <3>1, <3>2, ListsAt
    <2> HIDE DEF s
    <2>6. Once(Lists') /\ \A x : On(x, Lists') => On(x, Lists)
      BY <2>1, <2>4, <2>5, Removed DEF LinkedOnce
    <2>7. ASSUME NEW x \in Tasklets, user[x] # "spin"
          PROVE  user'[x] # "spin"
      BY <2>3, <2>7 DEF SoftTypes
    <2> QED
      BY <2>3, <2>6, <2>7, Zenon DEF LinkedOnce, SchedTrue
  <1>18. ASSUME NEW c \in Cpus, NEW to \in Cpus, takeover_tasklets(c, to)
        PROVE  LinkedOnce' /\ SchedTrue'
    <2>1. c # to /\ UNCHANGED <<list, soft, sched, user>>
      BY <1>18 DEF takeover_tasklets
    <2>2. vec' = [vec EXCEPT ![to] = [v \in Vecs |-> vec[to][v] \o vec[c][v]],
                             ![c] = [v \in Vecs |-> <<>>]]
      BY <1>18 DEF takeover_tasklets
    <2>3. /\ \A v \in Vecs : vec'[to][v] = vec[to][v] \o vec[c][v] /\ vec'[c][v] = <<>>
          /\ \A d \in Cpus : d # c /\ d # to => vec'[d] = vec[d]
      BY <2>1, <2>2, Zenon DEF SoftTypes
    <2> QED
      BY <2>1, <2>3, TakeoverKept, Zenon
  <1>19. ASSUME NEW t \in Tasklets, tasklet_disable(t)
        PROVE  LinkedOnce' /\ SchedTrue'
    <2>1. Lists' = Lists
      BY <1>19, Unmoved DEF tasklet_disable
    <2>2. ASSUME NEW s \in Tasklets, s \in sched, user[s] # "spin"
          PROVE  s \in sched' /\ user'[s] # "spin"
      BY <1>19, <2>2 DEF SoftTypes, tasklet_disable
    <2> QED
      BY <2>1, <2>2, Zenon DEF LinkedOnce, SchedTrue
  <1>20. ASSUME NEW t \in Tasklets, tasklet_enable(t)
        PROVE  LinkedOnce' /\ SchedTrue'
    <2>1. Lists' = Lists
      BY <1>20, Unmoved DEF tasklet_enable
    <2>2. ASSUME NEW s \in Tasklets, s \in sched, user[s] # "spin"
          PROVE  s \in sched' /\ user'[s] # "spin"
      BY <1>20, <2>2 DEF SoftTypes, tasklet_enable
    <2> QED
      BY <2>1, <2>2, Zenon DEF LinkedOnce, SchedTrue
  <1>21. ASSUME NEW t \in Tasklets, tasklet_kill(t)
        PROVE  LinkedOnce' /\ SchedTrue'
    <2>1. Lists' = Lists
      BY <1>21, Unmoved DEF tasklet_kill
    <2>2. ASSUME NEW s \in Tasklets, s \in sched, user[s] # "spin"
          PROVE  s \in sched' /\ user'[s] # "spin"
      BY <1>21, <2>2 DEF SoftTypes, tasklet_kill
    <2> QED
      BY <2>1, <2>2, Zenon DEF LinkedOnce, SchedTrue
  <1>22. CASE UNCHANGED softVars
    <2>1. Lists' = Lists /\ UNCHANGED <<sched, user>>
      BY <1>22 DEF softVars, Lists
    <2> QED
      BY <2>1, Zenon DEF LinkedOnce, SchedTrue
  <1> QED
    BY <1>1, <1>2, <1>3, <1>4, <1>5, <1>6, <1>7, <1>8, <1>9, <1>10, <1>11, <1>12, <1>13,
      <1>14, <1>15, <1>16, <1>17, <1>18, <1>19, <1>20, <1>21, <1>22, Zenon DEF SoftNext,
      Softirq

\* CmSoftirq's initial states satisfy the invariant.
LEMMA SoftStart == SoftInit => SoftInv
  <1> SUFFICES ASSUME SoftInit
               PROVE  SoftInv
    OBVIOUS
  <1>1. <<>> \in Seq(Tasklets) /\ Len(<<>>) = 0
    OBVIOUS
  <1>2. SoftTypes /\ PassTrue
    BY <1>1 DEF SoftInit, SoftTypes, PassTrue
  <1>3. NoneForgotten
    BY DEF SoftInit, NoneForgotten
  <1>4. ASSUME NEW c \in Cpus, NEW k \in Kinds
        PROVE  Lists[c][k] = <<>>
    BY ListsAt DEF SoftInit
  <1>5. ASSUME NEW t PROVE ~On(t, Lists)
    BY <1>1, <1>4 DEF On
  <1>6. Once(Lists)
    BY <1>1, <1>4 DEF Once
  <1> QED
    BY <1>2, <1>3, <1>5, <1>6 DEF SoftInv, LinkedOnce, SchedTrue

\* Every step of CmSoftirq keeps the invariant.
LEMMA SoftStep == SoftInv /\ [SoftNext]_softVars => SoftInv'
  <1> SUFFICES ASSUME SoftInv, [SoftNext]_softVars
               PROVE  SoftInv'
    OBVIOUS
  <1> USE DEF SoftInv
  <1>1. SoftTypes'
    BY StepSoftTypes
  <1>2. PassTrue'
    BY <1>1, StepPass
  <1>3. NoneForgotten'
    BY StepForgotten
  <1>4. LinkedOnce' /\ SchedTrue'
    BY StepLinked
  <1> QED
    BY <1>1, <1>2, <1>3, <1>4

\* softirq.c and interrupt.h keep their invariant, on any number of CPUs: what a
\* pass still has to do, who has locked a tasklet, and where each one is linked.
THEOREM SoftInvariant == SoftSpec => []SoftInv
  <1>1. SoftInit => SoftInv
    BY SoftStart
  <1>2. SoftInv /\ [SoftNext]_softVars => SoftInv'
    BY SoftStep
  <1> QED
    BY <1>1, <1>2, PTL DEF SoftSpec

\* A list of tasklets is never left without its softirq, and no task runs on over
\* a pending softirq that ksoftirqd has not been woken for, although the wakeup
\* from the scheduler (raise_softirq_irqoff_nosoftirqd_wake) wakes nobody.
THEOREM NoSoftirqForgotten == SoftSpec => []NoneForgotten
  <1>1. SoftInv => NoneForgotten
    BY DEF SoftInv
  <1> QED
    BY <1>1, SoftInvariant, PTL

\* Two CPUs never have the same tasklet locked: tasklet_trylock lets one in.
OneRunner ==
    \A c, d \in Cpus : /\ soft[c] \in {"locked", "func"} /\ soft[d] \in {"locked", "func"}
                       /\ Head(list[c]) = Head(list[d])
                       => c = d

\* The function of a tasklet runs on one CPU at a time, whoever schedules it
\* again meanwhile and wherever its lists have been moved.
THEOREM TaskletExclusive == SoftSpec => []OneRunner
  <1>1. SoftInv => OneRunner
    BY DEF SoftInv, PassTrue, OneRunner
  <1> QED
    BY <1>1, SoftInvariant, PTL

\* The one link of a tasklet_struct is used once: tasklet_schedule, the way back
\* from tasklet_action, takeover_tasklets and tasklet_kill_immediate never put a
\* tasklet on a second list, or twice on one.
THEOREM TaskletLinkedOnce == SoftSpec => []LinkedOnce
  <1>1. SoftInv => LinkedOnce
    BY DEF SoftInv
  <1> QED
    BY <1>1, SoftInvariant, PTL
=============================================================================

------------------------------- MODULE CmFork -------------------------------
(***************************************************************************)
(* What tasks share (kernel/fork.c; exit_mm and mm_update_next_owner of    *)
(* kernel/exit.c): copy_process takes a reference to, or a copy of, each   *)
(* of the parent's structures in turn and gives back what it has when a    *)
(* step fails; exit, exec and unshare give back a task's own; a vfork      *)
(* parent sleeps until its child has let go of their memory.               *)
(*                                                                         *)
(* A structure is a number, free when its count is 0; what it holds is     *)
(* not modelled.  exec, /proc and the task table's RCU are external.       *)
(***************************************************************************)
EXTENDS Naturals, FiniteSets, Sequences

CONSTANTS
    FTasks, FNull,
    First,      \* the task there is at the start
    Clones,     \* the choices of the calls of clone to come: what each shares, and
                \* whether it is a vfork
    FMaxOps     \* bound: calls of exec, unshare and get_task_mm

\* The order in which copy_process copies.
Kinds == <<"files", "fs", "sighand", "signal", "mm">>

Kind == {Kinds[i] : i \in 1..Len(Kinds)}

ASSUME ForkAssumption ==
    /\ FNull \notin FTasks /\ First \in FTasks /\ FMaxOps \in Nat
    /\ Clones \subseteq Seq([shares : SUBSET Kind, vfork : BOOLEAN])
    \* copy_process returns -EINVAL for the others
    /\ \A s \in Clones : \A i \in 1..Len(s) :
          /\ "signal" \in s[i].shares => "sighand" \in s[i].shares
          /\ "sighand" \in s[i].shares => "mm" \in s[i].shares

VARIABLES
    ft,       \* task -> its record (below)
    cnt,      \* kind -> structure -> its reference count
    owner,    \* structure of kind mm -> mm->owner
    observer, \* the mm that get_task_mm gave to /proc, 0 none
    clones,   \* the calls of clone to come
    fops      \* other calls so far

fVars == <<ft, cnt, owner, observer, clones, fops>>

Objects == 1..(2 * Cardinality(FTasks))

\* at: where the task is; has: its structures (0 none); child, shares, vforks,
\* stage: of its copy_process; frame: whose completion vfork_done points to;
\* done: its own completion; usage; killed; old: the mm being left; next: the
\* new owner looked at; spare: structures copied, or displaced, by a call.
NoFork == [at |-> "none", has |-> [k \in Kind |-> 0], child |-> FNull, shares |-> {},
           vforks |-> FALSE, stage |-> 0, frame |-> FNull, done |-> FALSE, usage |-> 0,
           killed |-> FALSE, old |-> 0, next |-> FNull, spare |-> [k \in Kind |-> 0],
           then |-> "run"]

FInit ==
    /\ ft = [t \in FTasks |-> IF t # First THEN NoFork
                              ELSE [NoFork EXCEPT !.at = "run", !.usage = 2,
                                                  !.has = [k \in Kind |-> 1]]]
    /\ cnt = [k \in Kind |-> [o \in Objects |-> IF o = 1 THEN 1 ELSE 0]]
    /\ owner = [o \in Objects |-> IF o = 1 THEN First ELSE FNull]
    /\ observer = 0
    /\ clones \in Clones
    /\ fops = 0

Fresh(k) == CHOOSE o \in Objects : cnt[k][o] = 0 /\ \A p \in Objects : cnt[k][p] = 0 => o <= p

Gave(c, k, o) == IF o = 0 THEN c ELSE [c EXCEPT ![k][o] = @ - 1]

\* put_task_struct: the last one puts the signal_struct.
put_task_struct(f, c, t) ==
    IF f[t].usage > 1 THEN <<[f EXCEPT ![t].usage = @ - 1], c>>
    ELSE <<[f EXCEPT ![t] = [NoFork EXCEPT !.at = "gone"]],
           Gave(c, "signal", f[t].has["signal"])>>

(***************************************************************************)
(* copy_process.                                                           *)
(***************************************************************************)
\* Which unused task_struct it gets makes no difference.
do_fork(t) ==
    LET c == CHOOSE u \in FTasks : ft[u].at = "none"
    IN  /\ ft[t].at = "run" /\ ~ft[t].killed
        /\ \E u \in FTasks : ft[u].at = "none"
        /\ clones # <<>>
        /\ ft' = [ft EXCEPT ![t].at = "fork", ![t].child = c, ![t].stage = 1,
                            ![t].shares = Head(clones).shares, ![t].vforks = Head(clones).vfork,
                            ![c] = [NoFork EXCEPT !.at = "made"]]
        /\ clones' = Tail(clones)
        /\ UNCHANGED <<cnt, owner, observer, fops>>

\* copy_files, copy_fs, copy_sighand, copy_signal, copy_mm, in this order.  A
\* shared signal_struct is counted at the end only.
copy(t) ==
    LET e == ft[t]
        k == Kinds[e.stage]
        shared == k \in e.shares
        o == IF shared THEN e.has[k] ELSE Fresh(k)
    IN  /\ e.at = "fork" /\ e.stage <= Len(Kinds)
        /\ ft' = [ft EXCEPT ![e.child].has[k] = o, ![t].stage = @ + 1]
        /\ cnt' = IF shared /\ k = "signal" THEN cnt ELSE [cnt EXCEPT ![k][o] = @ + 1]
        /\ owner' = IF k = "mm" /\ ~shared THEN [owner EXCEPT ![o] = e.child] ELSE owner
        /\ UNCHANGED <<observer, clones, fops>>

\* A step fails (no memory, fs->in_exec, a pending signal at the end): what the
\* steps before it took is given back, the last first.
CopyFails(t) ==
    /\ ft[t].at = "fork"
    /\ ft' = [ft EXCEPT ![t].at = "undo", ![t].stage = @ - 1]
    /\ UNCHANGED <<cnt, owner, observer, clones, fops>>

\* Fault: a shared sighand is treated like a shared signal_struct, and not given
\* back.
CleanupSkips(t) ==
    LET e == ft[t]
        k == Kinds[e.stage]
    IN  /\ e.at = "undo" /\ e.stage > 0
        /\ cnt' = IF k \in {"signal", "sighand"} /\ k \in e.shares THEN cnt
                  ELSE Gave(cnt, k, ft[e.child].has[k])
        /\ ft' = [ft EXCEPT ![e.child].has[k] = 0, ![t].stage = @ - 1]
        /\ UNCHANGED <<owner, observer, clones, fops>>

\* The labels bad_fork_cleanup_mm to bad_fork_cleanup_files, and bad_fork_free.
bad_fork_cleanup(t) ==
    LET e == ft[t]
        k == Kinds[e.stage]
    IN  /\ e.at = "undo" /\ e.stage > 0
        /\ cnt' = IF k = "signal" /\ k \in e.shares THEN cnt ELSE Gave(cnt, k, ft[e.child].has[k])
        /\ ft' = [ft EXCEPT ![e.child].has[k] = 0, ![t].stage = @ - 1]
        /\ UNCHANGED <<owner, observer, clones, fops>>

bad_fork_free(t) ==
    /\ ft[t].at = "undo" /\ ft[t].stage = 0
    /\ ft' = [ft EXCEPT ![ft[t].child] = NoFork, ![t].at = "run", ![t].child = FNull,
                        ![t].shares = {}, ![t].vforks = FALSE]
    /\ UNCHANGED <<cnt, owner, observer, clones, fops>>

\* The end of copy_process under tasklist_lock, and do_fork up to the wait.
ForkDone(t) ==
    LET e == ft[t]
        c == e.child
    IN  /\ e.at = "fork" /\ e.stage > Len(Kinds)
        /\ ~e.killed
        /\ ft' = [ft EXCEPT ![c].at = "run", ![c].usage = IF e.vforks THEN 3 ELSE 2,
                            ![c].frame = IF e.vforks THEN t ELSE FNull,
                            ![t].at = IF e.vforks THEN "vfork" ELSE "run",
                            ![t].child = IF e.vforks THEN c ELSE FNull,
                            ![t].done = FALSE, ![t].shares = {}, ![t].vforks = FALSE, ![t].stage = 0]
        /\ cnt' = IF "signal" \in e.shares THEN [cnt EXCEPT !["signal"][e.has["signal"]] = @ + 1]
                                           ELSE cnt
        /\ UNCHANGED <<owner, observer, clones, fops>>

(***************************************************************************)
(* wait_for_vfork_done: completed, or killed; then the pointer to the      *)
(* completion on its stack is taken back.                                  *)
(***************************************************************************)
\* Fault: the pointer stays.
VforkLeft(t) ==
    LET c == ft[t].child
        put == put_task_struct(ft, cnt, c)
    IN  /\ ft[t].at = "vfork" /\ (ft[t].done \/ ft[t].killed)
        /\ ft' = [put[1] EXCEPT ![t].at = "run", ![t].child = FNull, ![t].done = FALSE]
        /\ cnt' = put[2]
        /\ UNCHANGED <<owner, observer, clones, fops>>

wait_for_vfork_done(t) ==
    LET c == ft[t].child
        put == put_task_struct([ft EXCEPT ![c].frame = FNull], cnt, c)
    IN  /\ ft[t].at = "vfork" /\ (ft[t].done \/ ft[t].killed)
        /\ ft' = [put[1] EXCEPT ![t].at = "run", ![t].child = FNull, ![t].done = FALSE]
        /\ cnt' = put[2]
        /\ UNCHANGED <<owner, observer, clones, fops>>

\* External: SIGKILL, where it makes a difference.
FKill(t) ==
    /\ ft[t].at \in {"fork", "vfork"} /\ ~ft[t].killed
    /\ ft' = [ft EXCEPT ![t].killed = TRUE]
    /\ UNCHANGED <<cnt, owner, observer, clones, fops>>

\* complete_vfork_done, of mm_release.
Completed(f, t) ==
    IF f[t].frame = FNull THEN f ELSE [f EXCEPT ![f[t].frame].done = TRUE, ![t].frame = FNull]

(***************************************************************************)
(* Leaving an mm: exit_mm, and exec_mmap (external).                       *)
(***************************************************************************)
\* do_exit, to exit_mm's "tsk->mm = NULL".
exit_mm(t) ==
    /\ ft[t].at = "run"
    /\ ft' = [Completed(ft, t) EXCEPT ![t].at = "owner", ![t].old = ft[t].has["mm"],
                                      ![t].has["mm"] = 0, ![t].then = "files"]
    /\ UNCHANGED <<cnt, owner, observer, clones, fops>>

\* Only the one thread of a process gets here (de_thread).
exec_mmap(t) ==
    LET o == Fresh("mm")
    IN  /\ ft[t].at = "exec"
        /\ ft' = [Completed(ft, t) EXCEPT ![t].at = "owner", ![t].old = ft[t].has["mm"],
                                          ![t].has["mm"] = o, ![t].then = "execed"]
        /\ cnt' = [cnt EXCEPT !["mm"][o] = 1]
        /\ owner' = [owner EXCEPT ![o] = t]
        /\ UNCHANGED <<observer, clones, fops>>

\* mm_update_next_owner: nothing to do, nobody else, or a task that is seen to
\* have the mm; tasks under construction are in no list.
Heirs(t) == {c \in FTasks : ft[c].at # "made" /\ ft[c].has["mm"] = ft[t].old}

mm_update_next_owner(t) ==
    LET m == ft[t].old
    IN  /\ ft[t].at = "owner"
        /\ \/ /\ owner[m] # t \/ cnt["mm"][m] <= 1 \/ Heirs(t) = {}
              /\ owner' = IF owner[m] # t THEN owner ELSE [owner EXCEPT ![m] = FNull]
              /\ ft' = [ft EXCEPT ![t].at = "mmput"]
           \/ /\ owner[m] = t /\ cnt["mm"][m] > 1
              /\ \E c \in Heirs(t) : ft' = [ft EXCEPT ![t].at = "assign", ![t].next = c]
              /\ UNCHANGED owner
        /\ UNCHANGED <<cnt, observer, clones, fops>>

\* Fault: c->mm is not looked at again with the task locked.
AssignUnchecked(t) ==
    /\ ft[t].at = "assign"
    /\ owner' = [owner EXCEPT ![ft[t].old] = ft[t].next]
    /\ ft' = [ft EXCEPT ![t].next = FNull, ![t].at = "mmput"]
    /\ UNCHANGED <<cnt, observer, clones, fops>>

\* With task_lock(c): its mm is looked at again.
assign_new_owner(t) ==
    LET same == ft[ft[t].next].has["mm"] = ft[t].old
    IN  /\ ft[t].at = "assign"
        /\ owner' = IF same THEN [owner EXCEPT ![ft[t].old] = ft[t].next] ELSE owner
        /\ ft' = [ft EXCEPT ![t].next = FNull, ![t].at = IF same THEN "mmput" ELSE "owner"]
        /\ UNCHANGED <<cnt, observer, clones, fops>>

mmput(t) ==
    /\ ft[t].at = "mmput"
    /\ cnt' = Gave(cnt, "mm", ft[t].old)
    /\ ft' = [ft EXCEPT ![t].old = 0, ![t].at = ft[t].then, ![t].then = "run"]
    /\ UNCHANGED <<owner, observer, clones, fops>>

\* get_task_mm, on behalf of /proc, and its mmput.
get_task_mm(t) ==
    /\ observer = 0 /\ ft[t].at # "made" /\ ft[t].has["mm"] # 0 /\ fops < FMaxOps
    /\ observer' = ft[t].has["mm"]
    /\ cnt' = [cnt EXCEPT !["mm"][ft[t].has["mm"]] = @ + 1]
    /\ fops' = fops + 1
    /\ UNCHANGED <<ft, owner, clones>>

ObserverPuts ==
    /\ observer # 0
    /\ cnt' = Gave(cnt, "mm", observer)
    /\ observer' = 0
    /\ UNCHANGED <<ft, owner, clones, fops>>

\* do_exit: exit_files, exit_fs.
ExitShared(t) ==
    LET k == ft[t].at
    IN  /\ k \in {"files", "fs"}
        /\ cnt' = Gave(cnt, k, ft[t].has[k])
        /\ ft' = [ft EXCEPT ![t].has[k] = 0, ![t].at = IF k = "files" THEN "fs" ELSE "notify"]
        /\ UNCHANGED <<owner, observer, clones, fops>>

\* release_task: __exit_signal and one put_task_struct (delayed_put_task_struct).
__exit_signal(t) ==
    LET put == put_task_struct([ft EXCEPT ![t].at = "dead", ![t].has["sighand"] = 0],
                               Gave(cnt, "sighand", ft[t].has["sighand"]), t)
    IN  /\ ft[t].at = "notify"
        /\ ft' = put[1] /\ cnt' = put[2]
        /\ UNCHANGED <<owner, observer, clones, fops>>

\* finish_task_switch: the other one.
FinalPut(t) ==
    LET put == put_task_struct([ft EXCEPT ![t].at = "switched"], cnt, t)
    IN  /\ ft[t].at = "dead"
        /\ ft' = put[1] /\ cnt' = put[2]
        /\ UNCHANGED <<owner, observer, clones, fops>>

(***************************************************************************)
(* unshare, and exec's unshare_files.                                      *)
(***************************************************************************)
Copied(f, t, k) == IF cnt[k][f[t].has[k]] > 1 THEN [f EXCEPT ![t].spare[k] = Fresh(k)] ELSE f

\* unshare_fs or unshare_fd: a copy, unless the structure is not shared.
Copies(t, k) ==
    /\ ft' = [Copied(ft, t, k) EXCEPT ![t].at = IF k = "fs" THEN "unshare_fd" ELSE "switch"]
    /\ cnt' = IF cnt[k][ft[t].has[k]] > 1 THEN [cnt EXCEPT ![k][Fresh(k)] = 1] ELSE cnt
    /\ UNCHANGED <<owner, observer, clones>>

unshare_fs(t) ==
    /\ ft[t].at = "run" /\ ~ft[t].killed /\ fops < FMaxOps
    /\ Copies(t, "fs")
    /\ fops' = fops + 1

unshare_fd(t) ==
    /\ ft[t].at = "unshare_fd"
    /\ Copies(t, "files")
    /\ UNCHANGED fops

\* dup_fd fails: free_fs_struct of the copy.
UnshareFails(t) ==
    /\ ft[t].at = "unshare_fd"
    /\ cnt' = Gave(cnt, "fs", ft[t].spare["fs"])
    /\ ft' = [ft EXCEPT ![t].spare["fs"] = 0, ![t].at = "run"]
    /\ UNCHANGED <<owner, observer, clones, fops>>

\* The copies become the task's.  The old fs loses a user, the old files are
\* put afterwards.
unshare(t) ==
    LET e == ft[t]
        New(k) == IF e.spare[k] # 0 THEN e.spare[k] ELSE e.has[k]
    IN  /\ e.at = "switch"
        /\ ft' = [ft EXCEPT ![t].has = [@ EXCEPT !["fs"] = New("fs"), !["files"] = New("files")],
                            ![t].spare = [@ EXCEPT !["fs"] = 0,
                                                   !["files"] = IF @ = 0 THEN 0 ELSE e.has["files"]],
                            ![t].at = "put"]
        /\ cnt' = IF e.spare["fs"] = 0 THEN cnt ELSE Gave(cnt, "fs", e.has["fs"])
        /\ UNCHANGED <<owner, observer, clones, fops>>

PutFiles(t) ==
    /\ ft[t].at \in {"put", "execed"}
    /\ cnt' = Gave(cnt, "files", ft[t].spare["files"])
    /\ ft' = [ft EXCEPT ![t].spare["files"] = 0, ![t].at = "run"]
    /\ UNCHANGED <<owner, observer, clones, fops>>

\* exec begins with a table of files of its own; the old one is put at the end.
unshare_files(t) ==
    LET f == Copied(ft, t, "files")
        new == f[t].spare["files"]
    IN  /\ ft[t].at = "run" /\ ~ft[t].killed /\ fops < FMaxOps
        /\ cnt["signal"][ft[t].has["signal"]] = 1
        /\ ft' = IF new = 0 THEN [f EXCEPT ![t].at = "exec"]
                 ELSE [f EXCEPT ![t].at = "exec", ![t].spare["files"] = ft[t].has["files"],
                                ![t].has["files"] = new]
        /\ cnt' = IF new = 0 THEN cnt ELSE [cnt EXCEPT !["files"][new] = 1]
        /\ fops' = fops + 1
        /\ UNCHANGED <<owner, observer, clones>>

FNext ==
    \/ ObserverPuts
    \/ \E t \in FTasks :
        \/ do_fork(t) \/ copy(t) \/ CopyFails(t) \/ bad_fork_cleanup(t) \/ bad_fork_free(t) \/ ForkDone(t)
        \/ wait_for_vfork_done(t) \/ FKill(t)
        \/ exit_mm(t) \/ exec_mmap(t) \/ mm_update_next_owner(t) \/ assign_new_owner(t) \/ mmput(t)
        \/ get_task_mm(t)
        \/ ExitShared(t) \/ __exit_signal(t) \/ FinalPut(t)
        \/ unshare_fs(t) \/ unshare_fd(t) \/ UnshareFails(t) \/ unshare(t) \/ PutFiles(t)
        \/ unshare_files(t)

FSpec == FInit /\ [][FNext]_fVars

(***************************************************************************)
(* Properties.                                                             *)
(***************************************************************************)
\* Every structure is counted exactly: as often as tasks, finished, half made
\* or being taken apart, calls and observers refer to it (fork.c, copy_process,
\* its bad_fork labels; unshare; exec).  So none is freed in use, and none
\* outlives its last user, wherever the copying failed and whoever shared,
\* unshared or exited meanwhile.
RefsExact ==
    \A k \in Kind :
        LET counted == {t \in FTasks : ~(/\ k = "signal" /\ ft[t].at = "made"
                                         /\ \E u \in FTasks : ft[u].child = t /\ k \in ft[u].shares)}
            referred == UNION {{ft[t].has[k], ft[t].spare[k]} : t \in FTasks}
                        \cup (IF k = "mm" THEN {observer} \cup {ft[t].old : t \in FTasks} ELSE {})
            References(o) ==
                Cardinality({t \in counted : ft[t].has[k] = o})
                + Cardinality({t \in FTasks : ft[t].spare[k] = o})
                + (IF k = "mm" THEN Cardinality({t \in FTasks : ft[t].old = o})
                                    + (IF observer = o THEN 1 ELSE 0) ELSE 0)
        IN  \A o \in Objects : cnt[k][o] = IF o \in referred THEN References(o) ELSE 0

\* "We always want mm->owner->mm == mm" (exit.c, mm_update_next_owner), but for
\* the owner that has let go of it and is about to pass it on; and an mm that a
\* task runs with has an owner.
OwnerTrue ==
    \A m \in Objects : cnt["mm"][m] > 0 =>
        IF owner[m] = FNull THEN \A t \in FTasks : ft[t].has["mm"] # m
        ELSE \/ ft[owner[m]].has["mm"] = m
             \/ ft[owner[m]].old = m /\ ft[owner[m]].at \in {"owner", "assign"}

\* The completion a vfork child points to is on the stack of a parent that still
\* waits for this child (fork.c, wait_for_vfork_done, complete_vfork_done); and
\* a parent that waits without being completed is still pointed to by its child,
\* which has their mm.
VforkFrame ==
    /\ \A c \in FTasks : ft[c].frame # FNull =>
          ft[ft[c].frame].at = "vfork" /\ ft[ft[c].frame].child = c
    /\ \A t \in FTasks : ft[t].at = "vfork" /\ ~ft[t].done =>
          ft[ft[t].child].frame = t /\ ft[ft[t].child].has["mm"] # 0
=============================================================================

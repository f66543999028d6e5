------------------------------- MODULE CmItems -------------------------------
(***************************************************************************)
(* The interest set of epoll (fs/eventpoll.c): epoll_ctl, the ready list   *)
(* and its transfer to the user, poll callbacks, nested descriptors and    *)
(* the release of files.  Who sleeps in epoll_wait, and what a group adds  *)
(* to that, is in CmEpoll: here epoll_wait returns when nothing is ready.  *)
(*                                                                         *)
(* An item is <<e, f>>: the file f in the interest set of the epoll e; f   *)
(* may be an epoll too.  ep->mtx and epmutex are locks taken and released  *)
(* by separate steps; what happens under ep->lock is one step.             *)
(***************************************************************************)
EXTENDS Integers, Sequences, FiniteSets, SequencesExt

CONSTANTS
    Eps, Plain,   \* epoll files, and files of devices
    Threads,
    NULL,
    MaxWatches,   \* max_user_watches
    MaxNests,     \* EP_MAX_NESTS (4 in the code)
    PathLimits,   \* path_limits, from paths of length 2 on
    Edges,        \* bound: wakeups by the devices
    Scripts       \* bound: the calls of the threads, a set of [Threads -> Seq(Calls)]

Files == Eps \cup Plain
Items == Eps \X Files

ASSUME ItemsAssumption ==
    /\ Eps \cap Plain = {} /\ NULL \notin Files \cup Threads
    /\ MaxWatches \in Nat /\ MaxNests \in Nat /\ Edges \in Nat
    /\ DOMAIN PathLimits = 1..MaxNests

VARIABLES
    tree,       \* items in ep->rbr and file->f_ep_links
    mask,       \* [Items -> {"off", "LT", "ET", "ONESHOT"}]: event.events, "off"
                \* when no bits are left but EP_PRIVATE_BITS
    hook,       \* items with an entry on the wait queue of their file
    rdllist,    \* [Eps -> Seq(Items)]
    txlist,     \* [Eps -> Seq(Items)]: the list of the scan in progress
    scanning,   \* epolls with ovflist # EP_UNACTIVE_PTR
    ovflist,    \* SUBSET Items
    mtx,        \* [Eps -> Threads \cup Files \cup {NULL}]: holder of ep->mtx
    epmutex,    \* Threads \cup Files \cup {NULL}
    watches,    \* user->epoll_watches
    safewake,   \* pending ep_poll_safewake: {<<e, nests>>}
    \* files
    ready,      \* device files with something to report
    edges,      \* wakeups so far
    file,       \* [Files -> {"open", "closed", "release", "free", "gone", ...}]
    pick,       \* [Files -> Eps \cup {NULL}]: epi->ep of the item a release is at
    \* threads
    pc, call,   \* position, and the system call in progress
    walk,       \* the epolls ep_loop_check has locked, from the target down
    visited, tfile_check_list,
    revents,    \* [Threads -> BOOLEAN]: what f_op->poll said
    script,
    \* for the properties
    owed        \* items with a wakeup the user has not been shown

ctlVars == <<walk, visited, tfile_check_list, revents>>
fileVars == <<ready, edges, file, pick>>
listVars == <<rdllist, txlist, scanning, ovflist>>
lockVars == <<mtx, epmutex>>
threadVars == <<pc, call, script>>
vars == <<tree, mask, hook, listVars, lockVars, watches, safewake, fileVars, threadVars,
          ctlVars, owed>>

NoCall == <<"none", NULL, NULL>>

Init ==
    /\ tree = {} /\ hook = {} /\ mask = [i \in Items |-> "off"]
    /\ rdllist = [e \in Eps |-> <<>>] /\ txlist = rdllist
    /\ scanning = {} /\ ovflist = {} /\ safewake = {}
    /\ mtx = [e \in Eps |-> NULL] /\ epmutex = NULL /\ watches = 0
    /\ ready = {} /\ edges = 0 /\ file = [f \in Files |-> "open"]
    /\ pick = [f \in Files |-> NULL]
    /\ pc = [t \in Threads |-> "idle"] /\ call = [t \in Threads |-> NoCall]
    /\ walk = <<>> /\ visited = {} /\ tfile_check_list = {}
    /\ revents = [t \in Threads |-> FALSE]
    /\ script \in Scripts
    /\ owed = {}

-----------------------------------------------------------------------------
Op(t) == call[t][1]
Ep(t) == call[t][2]
Target(t) == call[t][3]
Item(t) == <<Ep(t), Target(t)>>
Goto(t, l) == pc' = [pc EXCEPT ![t] = l]

Parents(f) == {i[1] : i \in {j \in tree : j[2] = f}}
Watched(e) == {i[2] : i \in {j \in tree : j[1] = e}}
Linked(i) == i \in Range(rdllist[i[1]]) \cup Range(txlist[i[1]])

\* What f_op->poll reports: for an epoll, ep_eventpoll_poll, whether an item
\* of the ready list is (ep_read_events_proc).
RECURSIVE Poll(_)
Poll(f) == IF f \in Plain THEN f \in ready
           ELSE \E i \in Range(rdllist[f]) : mask[i] # "off" /\ Poll(i[2])

\* ep_scan_ready_list with ep_read_events_proc: items that are not ready leave
\* the list, up to the first that is.
FirstReady(e) ==
    SelectInSeq(rdllist[e], LAMBDA i : mask[i] # "off" /\ Poll(i[2]))
ReadyFrom(e) == IF FirstReady(e) = 0 THEN <<>>
                ELSE SubSeq(rdllist[e], FirstReady(e), Len(rdllist[e]))

\* The epolls that polling f scans: f and, down to the first ready item of
\* each, the ones nested in it.
RECURSIVE Scanned(_)
Scanned(f) ==
    IF f \in Plain THEN {}
    ELSE {f} \cup UNION {Scanned(rdllist[f][n][2]) :
            n \in 1..(IF FirstReady(f) = 0 THEN Len(rdllist[f]) ELSE FirstReady(f))}

\* A nested epoll is scanned under its own mtx; the scan cuts its list, and
\* wakes those who poll it if something is left.
CanPoll(f, who) == \A e \in Scanned(f) : mtx[e] \in {NULL, who}
Polled(f) == [e \in Eps |-> IF e \in Scanned(f) THEN ReadyFrom(e) ELSE rdllist[e]]
PollWakes(f) == {<<e, 0>> : e \in {g \in Scanned(f) : ReadyFrom(g) # <<>>
                                                      /\ \E k \in hook : k[2] = g}}

-----------------------------------------------------------------------------
(* Wakeups.                                                                *)

\* ep_poll_callback on the items in S, all of different epolls.  During a
\* scan they go to ovflist; otherwise to the ready list, and those who poll
\* the epoll are to be woken (ep_poll_safewake) unless the nesting is too deep.
Callback(S, nests, list, pending) ==
    LET on == {i \in S : mask[i] # "off"}
        queued == {i \in on : i[1] \notin scanning}
    IN  /\ ovflist' = ovflist \cup (on \ queued)
        /\ rdllist' = [e \in Eps |->
               LET new == {i \in queued : i[1] = e /\ i \notin Range(list[e])}
               IN  list[e] \o SetToSeq(new)]
        /\ safewake' = pending \cup
               {<<i[1], nests>> : i \in {j \in queued : \E k \in hook : k[2] = j[1]}}
        /\ owed' = owed \cup on

\* A device reports something to everybody hooked on its wait queue.
FileReady(f) ==
    /\ file[f] \in {"open", "closed"} /\ edges < Edges
    /\ edges' = edges + 1
    /\ ready' = ready \cup {f}
    /\ Callback({i \in hook : i[2] = f}, 0, rdllist, safewake)
    /\ UNCHANGED <<tree, mask, hook, txlist, scanning, lockVars, watches, file, pick, threadVars,
                   ctlVars>>

\* The user reads what there was to read.
FileDrained(f) ==
    /\ f \in ready
    /\ ready' = ready \ {f}
    /\ UNCHANGED <<tree, mask, hook, listVars, lockVars, watches, safewake, edges, file, pick,
                   threadVars, ctlVars, owed>>

\* POLLFREE: the wait queue goes away before the file does.
PollFree(f) ==
    LET S == {i \in hook : i[2] = f} IN
    /\ S # {} /\ edges < Edges /\ f \notin ready
    /\ edges' = Edges
    /\ hook' = hook \ S
    /\ ready' = ready \cup {f}
    /\ Callback(S, 0, rdllist, safewake)
    /\ UNCHANGED <<tree, mask, txlist, scanning, lockVars, watches, file, pick, threadVars, ctlVars>>

\* ep_poll_safewake: ep_call_nested and ep_poll_wakeup_proc.
ep_poll_safewake(w) ==
    /\ w \in safewake
    /\ IF w[2] > MaxNests
       THEN safewake' = safewake \ {w} /\ UNCHANGED <<rdllist, ovflist, owed>>
       ELSE Callback({i \in hook : i[2] = w[1]}, w[2] + 1, rdllist, safewake \ {w})
    /\ UNCHANGED <<tree, mask, hook, txlist, scanning, lockVars, watches, fileVars, threadVars,
                   ctlVars>>

-----------------------------------------------------------------------------
(* epoll_ctl: locks and checks.                                            *)

\* The files are looked up: the call holds a reference to both.
epoll_ctl(t) ==
    /\ pc[t] = "idle" /\ script[t] # <<>>
    /\ LET c == Head(script[t]) IN
        /\ c[1] \in {"add", "mod", "del"}
        /\ IF file[c[2]] = "open" /\ file[c[3]] = "open" /\ c[2] # c[3]
           THEN call' = [call EXCEPT ![t] = c] /\ Goto(t, "lock")
           ELSE UNCHANGED <<call, pc>>
    /\ script' = [script EXCEPT ![t] = Tail(@)]
    /\ UNCHANGED <<tree, mask, hook, listVars, lockVars, watches, safewake, fileVars, ctlVars,
                   owed>>

\* ep->mtx; adding an epoll, or adding to a nested one, takes the full check,
\* for which the mutex is given up again.
CtlLock(t) ==
    /\ pc[t] = "lock" /\ mtx[Ep(t)] = NULL
    /\ IF Op(t) = "add" /\ (Parents(Ep(t)) # {} \/ Target(t) \in Eps)
       THEN Goto(t, "epmutex") /\ UNCHANGED mtx
       ELSE Goto(t, "find") /\ mtx' = [mtx EXCEPT ![Ep(t)] = t]
    /\ UNCHANGED <<tree, mask, hook, listVars, epmutex, watches, safewake, fileVars, call,
                   script, ctlVars, owed>>

CtlFull(t) ==
    /\ pc[t] = "epmutex" /\ epmutex = NULL
    /\ epmutex' = t
    /\ IF Target(t) \in Eps THEN Goto(t, "enter") /\ UNCHANGED tfile_check_list
       ELSE Goto(t, "relock") /\ tfile_check_list' = {Target(t)}
    /\ UNCHANGED <<tree, mask, hook, listVars, mtx, watches, safewake, fileVars, call, script,
                   walk, visited, revents, owed>>

\* ep_loop_check_proc on entry, for the target or for a nested epoll.
LoopEnter(t, e) ==
    /\ mtx[e] = NULL
    /\ mtx' = [mtx EXCEPT ![e] = t]
    /\ walk' = Append(walk, e)
    /\ visited' = visited \cup {e}
    /\ tfile_check_list' = tfile_check_list \cup (Watched(e) \cap Plain)
    /\ UNCHANGED <<tree, mask, hook, listVars, epmutex, watches, safewake, fileVars, call,
                   script, revents, owed>>

LoopStart(t) == pc[t] = "enter" /\ LoopEnter(t, Target(t)) /\ Goto(t, "walk")

Unvisited == (Watched(Last(walk)) \cap Eps) \ visited

\* Fault: the epoll the item is added to is not among the nested calls.
NestedTooDeep(t, e) == Len(walk) > MaxNests

\* ep_call_nested refuses: the epoll added to is met again, or too deep.
NestedRefused(t, e) == e = Ep(t) \/ Len(walk) > MaxNests

LoopDown(t) ==
    /\ pc[t] = "walk" /\ walk # <<>>
    /\ \E e \in Unvisited : ~NestedRefused(t, e) /\ LoopEnter(t, e)
    /\ UNCHANGED pc

\* Every level unlocks; the lists are cleared.
LoopRefused(t) ==
    /\ pc[t] = "walk" /\ walk # <<>>
    /\ \E e \in Unvisited : NestedRefused(t, e)
    /\ mtx' = [e \in Eps |-> IF e \in Range(walk) THEN NULL ELSE mtx[e]]
    /\ epmutex' = NULL
    /\ walk' = <<>> /\ visited' = {} /\ tfile_check_list' = {}
    /\ call' = [call EXCEPT ![t] = NoCall]
    /\ Goto(t, "idle")
    /\ UNCHANGED <<tree, mask, hook, listVars, watches, safewake, fileVars, script, revents,
                   owed>>

LoopUp(t) ==
    /\ pc[t] = "walk" /\ walk # <<>> /\ Unvisited = {}
    /\ mtx' = [mtx EXCEPT ![Last(walk)] = NULL]
    /\ walk' = Front(walk)
    /\ UNCHANGED <<tree, mask, hook, listVars, epmutex, watches, safewake, fileVars, pc, call,
                   script, visited, tfile_check_list, revents, owed>>

ep_loop_check(t) ==
    /\ pc[t] = "walk" /\ walk = <<>>
    /\ visited' = {}
    /\ Goto(t, "relock")
    /\ UNCHANGED <<tree, mask, hook, listVars, lockVars, watches, safewake, fileVars, call,
                   script, walk, tfile_check_list, revents, owed>>

\* ep->mtx again, then that of a nested target.
CtlRelock(t) ==
    /\ \/ /\ pc[t] = "relock" /\ mtx[Ep(t)] = NULL
          /\ mtx' = [mtx EXCEPT ![Ep(t)] = t]
          /\ Goto(t, IF Target(t) \in Eps THEN "relock_target" ELSE "find")
       \/ /\ pc[t] = "relock_target" /\ mtx[Target(t)] = NULL
          /\ mtx' = [mtx EXCEPT ![Target(t)] = t]
          /\ Goto(t, "find")
    /\ UNCHANGED <<tree, mask, hook, listVars, epmutex, watches, safewake, fileVars, call,
                   script, ctlVars, owed>>

\* ep_find and the switch.
CtlFind(t) ==
    /\ pc[t] = "find"
    /\ Goto(t, CASE Op(t) = "add" /\ Item(t) \notin tree -> "insert"
                 [] Op(t) = "mod" /\ Item(t) \in tree    -> "modify"
                 [] Op(t) = "del" /\ Item(t) \in tree    -> "remove"
                 [] OTHER                                -> "unlock")
    /\ UNCHANGED <<tree, mask, hook, listVars, lockVars, watches, safewake, fileVars, call,
                   script, ctlVars, owed>>

\* The mutexes and the references are given back.
CtlUnlock(t) ==
    /\ pc[t] = "unlock"
    /\ mtx' = [e \in Eps |-> IF mtx[e] = t THEN NULL ELSE mtx[e]]
    /\ IF epmutex = t THEN epmutex' = NULL /\ tfile_check_list' = {}
       ELSE UNCHANGED <<epmutex, tfile_check_list>>
    /\ call' = [call EXCEPT ![t] = NoCall]
    /\ Goto(t, "idle")
    /\ UNCHANGED <<tree, mask, hook, listVars, watches, safewake, fileVars, script, walk,
                   visited, revents, owed>>

-----------------------------------------------------------------------------
(* epoll_ctl: the operations, under ep->mtx.                               *)

\* ep_insert: the limit on watches, memory, and the hook on the wait queue,
\* for which ep_ptable_queue_proc may lack the memory.
InsertHook(t) ==
    /\ pc[t] = "insert"
    /\ \/ Goto(t, "unlock") /\ UNCHANGED <<mask, hook>>
       \/ /\ watches < MaxWatches
          /\ mask' = [mask EXCEPT ![Item(t)] = call[t][4]]
          /\ \/ hook' = hook \cup {Item(t)} /\ Goto(t, "insert_poll")
             \/ Goto(t, "insert_nomem") /\ UNCHANGED hook
    /\ UNCHANGED <<tree, listVars, lockVars, watches, safewake, fileVars, call, script,
                   ctlVars, owed>>

\* The state of the file, after the hook is in place; then f_ep_links and the tree.
InsertPoll(t) ==
    /\ pc[t] \in {"insert_poll", "insert_nomem"} /\ CanPoll(Target(t), t)
    /\ revents' = [revents EXCEPT ![t] = Poll(Target(t))]
    /\ rdllist' = Polled(Target(t))
    /\ safewake' = safewake \cup PollWakes(Target(t))
    /\ \/ pc[t] = "insert_poll" /\ tree' = tree \cup {Item(t)} /\ Goto(t, "insert_check")
       \/ pc[t] = "insert_nomem" /\ Goto(t, "unlock") /\ UNCHANGED tree
    /\ UNCHANGED <<mask, hook, txlist, scanning, ovflist, lockVars, watches, fileVars, call,
                   script, walk, visited, tfile_check_list, owed>>

\* The paths from a file up to the epolls that nobody watches.
RECURSIVE UpPaths(_)
UpPaths(f) == UNION {IF Parents(e) = {} THEN {<<e>>}
                     ELSE {<<e>> \o q : q \in UpPaths(e)} : e \in Parents(f)}

\* reverse_path_check, reverse_path_check_proc, path_count_inc: not too deep,
\* and not too many paths of a length greater than 1.
reverse_path_check ==
    \A f \in tfile_check_list :
        /\ \A q \in UpPaths(f) : Len(q) <= MaxNests + 1
        /\ \A n \in 1..MaxNests :
              Cardinality({q \in UpPaths(f) : Len(q) = n + 1}) <= PathLimits[n]

\* An item leaves for good: its hook, its place in the tree and on the list.
Unlink(i) ==
    /\ hook' = hook \ {i}
    /\ tree' = tree \ {i}
    /\ rdllist' = [rdllist EXCEPT ![i[1]] = SelectSeq(@, LAMBDA j : j # i)]
    /\ owed' = owed \ {i}

\* "now check if we've created too many backpaths"; error_remove_epi.
InsertCheck(t) ==
    /\ pc[t] = "insert_check"
    /\ IF epmutex = t /\ ~reverse_path_check
       THEN Unlink(Item(t)) /\ Goto(t, "unlock")
       ELSE Goto(t, "insert_queue") /\ UNCHANGED <<hook, tree, rdllist, owed>>
    /\ UNCHANGED <<mask, txlist, scanning, ovflist, lockVars, watches, safewake, fileVars,
                   call, script, ctlVars>>

\* Under ep->lock: a file that was ready goes to the ready list.
Enqueue(t) ==
    LET e == Ep(t) IN
    IF revents[t] /\ mask[Item(t)] # "off" /\ ~Linked(Item(t))
    THEN /\ rdllist' = [rdllist EXCEPT ![e] = Append(@, Item(t))]
         /\ safewake' = IF \E k \in hook : k[2] = e THEN safewake \cup {<<e, 0>>} ELSE safewake
    ELSE UNCHANGED <<rdllist, safewake>>

ep_insert(t) ==
    /\ pc[t] = "insert_queue"
    /\ Enqueue(t)
    /\ watches' = watches + 1
    /\ Goto(t, "unlock")
    /\ UNCHANGED <<tree, mask, hook, txlist, scanning, ovflist, lockVars, fileVars, call,
                   script, ctlVars, owed>>

\* Fault: the file is polled before the new mask is set.
ModifyPollsFirst(t) ==
    /\ \/ /\ pc[t] = "modify"
          /\ CanPoll(Target(t), t)
          /\ revents' = [revents EXCEPT ![t] = Poll(Target(t))]
          /\ rdllist' = Polled(Target(t))
          /\ safewake' = safewake \cup PollWakes(Target(t))
          /\ Goto(t, "modify_poll") /\ UNCHANGED mask
       \/ /\ pc[t] = "modify_poll"
          /\ mask' = [mask EXCEPT ![Item(t)] = call[t][4]]
          /\ Goto(t, "modify_queue") /\ UNCHANGED <<revents, rdllist, safewake>>
    /\ UNCHANGED <<tree, hook, txlist, scanning, ovflist, lockVars, watches, fileVars, call,
                   script, walk, visited, tfile_check_list, owed>>

\* ep_modify: the mask before the poll.
ModifyPoll(t) ==
    /\ \/ /\ pc[t] = "modify"
          /\ mask' = [mask EXCEPT ![Item(t)] = call[t][4]]
          /\ Goto(t, "modify_poll") /\ UNCHANGED <<revents, rdllist, safewake>>
       \/ /\ pc[t] = "modify_poll" /\ CanPoll(Target(t), t)
          /\ revents' = [revents EXCEPT ![t] = Poll(Target(t))]
          /\ rdllist' = Polled(Target(t))
          /\ safewake' = safewake \cup PollWakes(Target(t))
          /\ Goto(t, "modify_queue") /\ UNCHANGED mask
    /\ UNCHANGED <<tree, hook, txlist, scanning, ovflist, lockVars, watches, fileVars, call,
                   script, walk, visited, tfile_check_list, owed>>

ep_modify(t) ==
    /\ pc[t] = "modify_queue"
    /\ Enqueue(t)
    /\ Goto(t, "unlock")
    /\ UNCHANGED <<tree, mask, hook, txlist, scanning, ovflist, lockVars, watches, fileVars,
                   call, script, ctlVars, owed>>

\* Once the hook is gone no callback can hit the item.
ep_remove(t) ==
    /\ pc[t] = "remove"
    /\ Unlink(Item(t))
    /\ watches' = watches - 1
    /\ Goto(t, "unlock")
    /\ UNCHANGED <<mask, txlist, scanning, ovflist, lockVars, safewake, fileVars, call, script,
                   ctlVars>>

-----------------------------------------------------------------------------
(* epoll_wait: ep_send_events.                                             *)

\* ep_poll with nothing to wait for: ep_events_available.
epoll_wait(t) ==
    /\ pc[t] = "idle" /\ script[t] # <<>> /\ Head(script[t])[1] = "wait"
    /\ LET c == Head(script[t]) IN
        IF file[c[2]] = "open" /\ (rdllist[c[2]] # <<>> \/ c[2] \in scanning)
        THEN call' = [call EXCEPT ![t] = c] /\ Goto(t, "scan")
        ELSE UNCHANGED <<call, pc>>
    /\ script' = [script EXCEPT ![t] = Tail(@)]
    /\ UNCHANGED <<tree, mask, hook, listVars, lockVars, watches, safewake, fileVars, ctlVars,
                   owed>>

\* ep_scan_ready_list: the mutex, then the ready list is stolen.
ScanSteal(t) ==
    LET e == Ep(t) IN
    /\ pc[t] = "scan" /\ mtx[e] = NULL
    /\ mtx' = [mtx EXCEPT ![e] = t]
    /\ txlist' = [txlist EXCEPT ![e] = rdllist[e]]
    /\ rdllist' = [rdllist EXCEPT ![e] = <<>>]
    /\ scanning' = scanning \cup {e}
    /\ revents' = [revents EXCEPT ![t] = FALSE]
    /\ Goto(t, "send")
    /\ UNCHANGED <<tree, mask, hook, ovflist, epmutex, watches, safewake, fileVars, call,
                   script, walk, visited, tfile_check_list, owed>>

\* ep_item_poll is not zero.
Hot(i) == mask[i] # "off" /\ Poll(i[2])

\* One round of ep_send_events_proc: the file is polled; a ready one is
\* reported, and stays on the list if it is level triggered.  revents tells
\* whether eventcnt > 0.
SendEvent(t) ==
    LET e == Ep(t)
        i == Head(txlist[e])
    IN  /\ pc[t] = "send" /\ txlist[e] # <<>> /\ CanPoll(i[2], t)
        /\ txlist' = [txlist EXCEPT ![e] = Tail(@)]
        /\ rdllist' = [Polled(i[2]) EXCEPT ![e] =
                          IF Hot(i) /\ mask[i] = "LT" THEN Append(@, i) ELSE @]
        /\ safewake' = safewake \cup PollWakes(i[2])
        /\ mask' = IF Hot(i) /\ mask[i] = "ONESHOT" THEN [mask EXCEPT ![i] = "off"] ELSE mask
        /\ owed' = owed \ {i}
        /\ revents' = [revents EXCEPT ![t] = @ \/ Hot(i)]
        /\ UNCHANGED <<tree, hook, scanning, ovflist, lockVars, watches, fileVars, threadVars,
                       walk, visited, tfile_check_list>>

\* The end of the list, of the room for events (maxevents), or a fault on the
\* user's memory, which leaves the item on the list.
ep_send_events_proc(t) ==
    /\ pc[t] = "send"
    /\ \/ txlist[Ep(t)] = <<>>
       \/ revents[t]
       \/ /\ txlist[Ep(t)] # <<>>
          /\ CanPoll(Head(txlist[Ep(t)])[2], t) /\ Hot(Head(txlist[Ep(t)]))
    /\ Goto(t, "merge")
    /\ UNCHANGED <<tree, mask, hook, listVars, lockVars, watches, safewake, fileVars, call,
                   script, ctlVars, owed>>

\* What came during the scan, and what is left of the list, is ready again.
ep_scan_ready_list(t) ==
    LET e == Ep(t)
        new == {i \in ovflist : i[1] = e /\ ~Linked(i)}
        list == txlist[e] \o rdllist[e] \o SetToSeq(new)
    IN  /\ pc[t] = "merge"
        /\ rdllist' = [rdllist EXCEPT ![e] = list]
        /\ txlist' = [txlist EXCEPT ![e] = <<>>]
        /\ ovflist' = {i \in ovflist : i[1] # e}
        /\ scanning' = scanning \ {e}
        /\ safewake' = IF list # <<>> /\ \E k \in hook : k[2] = e
                       THEN safewake \cup {<<e, 0>>} ELSE safewake
        /\ mtx' = [mtx EXCEPT ![e] = NULL]
        /\ call' = [call EXCEPT ![t] = NoCall]
        /\ Goto(t, "idle")
        /\ UNCHANGED <<tree, mask, hook, epmutex, watches, fileVars, script, ctlVars, owed>>

-----------------------------------------------------------------------------
(* The end of files.                                                       *)

close(t) ==
    /\ pc[t] = "idle" /\ script[t] # <<>> /\ Head(script[t])[1] = "close"
    /\ file' = [file EXCEPT ![Head(script[t])[2]] = IF @ = "open" THEN "closed" ELSE @]
    /\ script' = [script EXCEPT ![t] = Tail(@)]
    /\ UNCHANGED <<tree, mask, hook, listVars, lockVars, watches, safewake, ready, edges, pick, pc,
                   call, ctlVars, owed>>

Waking(e) == \E w \in safewake : w[1] = e

\* The last reference: eventpoll_release looks at f_ep_links first, then the
\* file's own release method runs.
fput(f) ==
    /\ file[f] = "closed" /\ ~Waking(f)
    /\ \A t \in Threads : pc[t] # "idle" => f \notin {call[t][2], call[t][3]}
    /\ file' = [file EXCEPT ![f] = IF Parents(f) # {} THEN "release"
                                   ELSE IF f \in Eps THEN "free" ELSE "gone"]
    /\ UNCHANGED <<tree, mask, hook, listVars, lockVars, watches, safewake, ready, edges, pick,
                   threadVars, ctlVars, owed>>

\* Fault: the file goes away while an epoll is closing, without epmutex.
ReleaseUnlocked(f) ==
    /\ file[f] = "release"
    /\ file' = [file EXCEPT ![f] = "releasing"]
    /\ UNCHANGED <<tree, mask, hook, listVars, mtx, epmutex, watches, safewake, ready, edges, pick,
                   threadVars, ctlVars, owed>>

ReleaseLock(f) ==
    /\ file[f] = "release" /\ epmutex = NULL
    /\ epmutex' = f
    /\ file' = [file EXCEPT ![f] = "releasing"]
    /\ UNCHANGED <<tree, mask, hook, listVars, mtx, watches, safewake, ready, edges, pick,
                   threadVars, ctlVars, owed>>

\* Each item under the mutex of its epoll, which must not go away meanwhile.
eventpoll_release_file(f) ==
    /\ file[f] = "releasing"
    /\ \/ \E e \in Parents(f) :
            /\ pick[f] = NULL /\ pick' = [pick EXCEPT ![f] = e]
            /\ UNCHANGED <<tree, hook, rdllist, owed, watches, epmutex, file>>
       \/ /\ pick[f] # NULL /\ mtx[pick[f]] = NULL
          /\ Unlink(<<pick[f], f>>)
          /\ watches' = watches - 1
          /\ pick' = [pick EXCEPT ![f] = NULL]
          /\ UNCHANGED <<epmutex, file>>
       \/ /\ pick[f] = NULL /\ Parents(f) = {}
          /\ epmutex' = NULL
          /\ file' = [file EXCEPT ![f] = IF f \in Eps THEN "free" ELSE "gone"]
          /\ UNCHANGED <<tree, hook, rdllist, owed, watches, pick>>
    /\ UNCHANGED <<mask, txlist, scanning, ovflist, mtx, safewake, ready, edges, threadVars,
                   ctlVars>>

\* ep_free: those who poll it are woken; then epmutex.
FreeLock(e) ==
    /\ file[e] = "free" /\ epmutex = NULL
    /\ safewake' = IF \E k \in hook : k[2] = e THEN safewake \cup {<<e, 0>>} ELSE safewake
    /\ epmutex' = e
    /\ file' = [file EXCEPT ![e] = "unhook"]
    /\ UNCHANGED <<tree, mask, hook, listVars, mtx, watches, ready, edges, pick, threadVars, ctlVars,
                   owed>>

\* All hooks first: remove_wait_queue waits for the callbacks in progress.
FreeUnhook(e) ==
    /\ file[e] = "unhook" /\ ~Waking(e)
    /\ hook' = {i \in hook : i[1] # e}
    /\ file' = [file EXCEPT ![e] = "drop"]
    /\ UNCHANGED <<tree, mask, listVars, lockVars, watches, safewake, ready, edges, pick, threadVars,
                   ctlVars, owed>>

\* Then the items, and the memory.
ep_free(e) ==
    LET mine == {i \in tree : i[1] = e} IN
    /\ file[e] = "drop" /\ mtx[e] = NULL
    /\ tree' = tree \ mine
    /\ rdllist' = [rdllist EXCEPT ![e] = <<>>]
    /\ owed' = owed \ mine
    /\ watches' = watches - Cardinality(mine)
    /\ epmutex' = NULL
    /\ file' = [file EXCEPT ![e] = "gone"]
    /\ UNCHANGED <<mask, hook, txlist, scanning, ovflist, mtx, safewake, ready, edges, pick,
                   threadVars, ctlVars>>

-----------------------------------------------------------------------------
Control(t) ==
    \/ epoll_ctl(t) \/ CtlLock(t) \/ CtlFull(t) \/ LoopStart(t) \/ LoopDown(t)
    \/ LoopRefused(t) \/ LoopUp(t) \/ ep_loop_check(t) \/ CtlRelock(t) \/ CtlFind(t)
    \/ InsertHook(t) \/ InsertPoll(t) \/ InsertCheck(t) \/ ep_insert(t)
    \/ ModifyPoll(t) \/ ep_modify(t) \/ ep_remove(t) \/ CtlUnlock(t)

Wait(t) == epoll_wait(t) \/ ScanSteal(t) \/ SendEvent(t) \/ ep_send_events_proc(t)
           \/ ep_scan_ready_list(t)

Release(f) == fput(f) \/ ReleaseLock(f) \/ eventpoll_release_file(f)
              \/ (f \in Eps /\ (FreeLock(f) \/ FreeUnhook(f) \/ ep_free(f)))

Done == /\ \A t \in Threads : pc[t] = "idle" /\ script[t] = <<>>
        /\ \A f \in Files : file[f] \in {"open", "gone"}
        /\ safewake = {}

Next ==
    \/ \E t \in Threads : Control(t) \/ Wait(t) \/ close(t)
    \/ \E f \in Plain : FileReady(f) \/ FileDrained(f) \/ PollFree(f)
    \/ \E w \in safewake : ep_poll_safewake(w)
    \/ \E f \in Files : Release(f)
    \/ Done /\ UNCHANGED vars

Spec == Init /\ [][Next]_vars

-----------------------------------------------------------------------------
(* Properties.                                                             *)

\* Threads between registering an item or a mask and queueing what the file
\* had to say.
OnTheWay(i) ==
    \E t \in Threads : /\ pc[t] # "idle" /\ Item(t) = i
                       /\ \/ pc[t] = "modify_poll"
                          \/ pc[t] \in {"insert_check", "insert_queue", "modify_queue"}
                             /\ revents[t]

\* An enabled item whose file is ready, and for an edge triggered one has
\* reported since the user was last told, will be seen by the next
\* epoll_wait: it is on the ready list or in the hands of a scan, its
\* registration is about to put it there, or a wakeup of the nested epoll is
\* under way.  Events that come during a scan, between poll and registration,
\* or through a nested epoll, are not lost.
NoLostEvent ==
    \A i \in tree :
        /\ mask[i] # "off" /\ Poll(i[2]) /\ (mask[i] = "ET" => i \in owed)
        /\ file[i[1]] \in {"open", "closed"}
        => Linked(i) \/ i \in ovflist \/ OnTheWay(i) \/ Waking(i[2])

\* No item, hook or list entry outlives its file or its epoll, whoever of the
\* two goes first, and no mutex of a freed epoll is held.
NoDangling ==
    LET queued == ovflist \cup UNION {Range(rdllist[e]) \cup Range(txlist[e]) : e \in Eps}
    IN  /\ \A i \in tree \cup hook : file[i[1]] # "gone" /\ file[i[2]] # "gone"
        /\ \A i \in queued : i \in tree \/ \E t \in Threads : pc[t] # "idle" /\ Item(t) = i
        /\ \A e \in Eps : file[e] = "gone" => mtx[e] = NULL /\ \A f \in Files : pick[f] # e

\* However insertions race, no epoll watches itself through others, so the
\* recursion of f_op->poll ends, and no chain of wakeups from a device is
\* longer than the nested calls of ep_poll_safewake allow (an item still to
\* pass its check aside).
RECURSIVE Below(_, _)
Below(S, n) == IF n = 0 THEN S ELSE Below(S \cup UNION {Watched(e) \cap Eps : e \in S}, n - 1)
NestingBounded ==
    /\ \A e \in Eps : e \notin Below(Watched(e) \cap Eps, Cardinality(Eps))
    /\ (\A t \in Threads : pc[t] # "insert_check") =>
           \A f \in Plain : \A q \in UpPaths(f) : Len(q) <= MaxNests + 1

=============================================================================

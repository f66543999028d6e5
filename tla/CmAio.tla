-------------------------------- MODULE CmAio --------------------------------
(***************************************************************************)
(* Asynchronous I/O contexts (fs/aio.c): io_setup, io_submit, completion,  *)
(* io_getevents, io_cancel, io_destroy and the exit of the process.        *)
(*                                                                         *)
(* A context (struct kioctx) owns a ring of completed events that readers  *)
(* drain under ring_lock while completions append to it under              *)
(* completion_lock, from any context.  Nothing but the slot accounting,    *)
(* spread over a global and per-CPU counters, keeps a completion from      *)
(* overwriting an unread event.  Contexts die in stages: out of the table  *)
(* of the process, then the users, then the requests, then a work item.    *)
(*                                                                         *)
(* Memory is modelled so that a use after free shows: a context and an     *)
(* iocb are used once.  The waits are those of wait_event_interruptible_   *)
(* hrtimeout; what a worker does inside cmgroup_wait is in CmWait, what    *)
(* attaching does to the group is in CmLife.                               *)
(***************************************************************************)
EXTENDS Integers, Sequences, FiniteSets, FiniteSetsExt

CONSTANTS
    Ctxs,       \* struct kioctx
    Reqs,       \* iocbs, each submitted successfully at most once
    Threads,    \* threads of the process
    Cpus,
    NULL,
    MaxEvents,  \* bound: the largest ring asked for
    PerCpu,     \* batches a CPU's share of the ring is cut into (4 in the code)
    AioMaxNr,   \* aio_max_nr * 2
    Growth,     \* factor by which the table of contexts grows (4 in the code)
    Scripts     \* bound: what the threads call, a set of [Threads -> Seq(Calls)]

ASSUME AioAssumption ==
    /\ MaxEvents \in Nat /\ MaxEvents > 1
    /\ PerCpu \in Nat /\ PerCpu > 0
    /\ Growth \in Nat /\ Growth > 1
    /\ AioMaxNr \in Nat
    /\ NULL \notin Ctxs \cup Reqs \cup Threads

VARIABLES
    \* struct kioctx
    memory,          \* [Ctxs -> {"none", "live", "work", "freed"}]
    users, reqs,     \* [Ctxs -> Nat]: the counts of the percpu_refs
    killed,          \* [Ctxs -> [users, reqs: {"no", "pending", "done"}]]
    dead,            \* contexts with ctx->dead
    nr_events,       \* [Ctxs -> 2..MaxEvents]: the size of the ring, and max_reqs, what
                     \* the context counts for in aio_nr
    reqs_available,  \* [Ctxs -> Int]
    pcpu,            \* [Ctxs -> [Cpus -> Int]]: kioctx_cpu.reqs_available
    ring,            \* [Ctxs -> [0..MaxEvents-1 -> Reqs \cup {NULL}]]
    head, tail,      \* [Ctxs -> 0..MaxEvents-1]: ring->head, ring->tail
    ctx_tail,        \* [Ctxs -> 0..MaxEvents-1]: ctx->tail
    completing,      \* [Ctxs -> Reqs \cup {NULL}]: holder of completion_lock
    reading,         \* [Ctxs -> Threads \cup {NULL}]: holder of ring_lock
    active,          \* [Ctxs -> SUBSET Reqs]: active_reqs
    wait,            \* [Ctxs -> SUBSET Threads]: ctx->wait
    group,           \* contexts with ctx->cmgroup # NULL
    \* the process
    table,           \* mm->ioctx_table: a sequence over Ctxs \cup {NULL}
    known,           \* contexts whose id io_setup has stored for the user
    mapped,          \* contexts whose ring is mapped
    aio_nr,
    \* iocbs
    stage,           \* [Reqs -> Stages]
    ki_ctx,          \* [Reqs -> Ctxs \cup {NULL}]
    cancelled,       \* iocbs whose cancel function has been called
    delivered,       \* [Reqs -> Nat]: times the event was consumed by a reader
    \* threads
    pc, ctx,         \* position and context in hand
    req,             \* the iocb io_submit is busy with
    after,           \* where lookup_ioctx and kill_ioctx return to
    args,            \* arguments of the io_getevents in progress
    got,             \* events fetched so far; the variable i of aio_read_events
    err,             \* the negative result, or "none"
    seen,            \* a local number: the tail as read, the events just copied, a size
    inwait,          \* [Threads -> {"no", "loop", "intr"}]: in the loop of ___wait_event,
                     \* and what prepare_to_wait_event said of signals
    state,           \* [Threads -> {"RUNNING", "INTERRUPTIBLE"}]
    timer,           \* [Threads -> {"off", "armed", "fired"}]
    signal,          \* threads with a signal pending
    script           \* [Threads -> Seq(Calls)]: the system calls still to be made

refVars == <<users, reqs, killed>>
slotVars == <<reqs_available, pcpu, nr_events>>
ringVars == <<ring, head, tail, ctx_tail, completing, reading>>
procVars == <<table, known, mapped, aio_nr>>
reqVars == <<stage, ki_ctx, cancelled, delivered>>
readVars == <<args, got, err, seen, inwait>>
sleepVars == <<state, timer, signal>>
threadVars == <<pc, ctx, req, after, readVars, sleepVars, script>>
ctxVars == <<memory, refVars, dead, slotVars, ringVars, active, wait, group>>
vars == <<ctxVars, procVars, reqVars, threadVars>>

Stages == {"unused", "setup", "busy", "write", "publish", "wake", "put", "done"}
Pcs == {"idle", "reserve", "add", "grow", "return", "get", "put",
        "kill", "kill_table", "kill_wake", "kill_ref", "exit", "exited",
        "submit", "unget", "prep", "sync", "cancel", "attach",
        "args", "ring", "copy", "slots", "test", "prepare", "sleep", "asleep", "finish",
        "group", "cmgroup_wait"}

\* ctx->req_batch: the slots that move between the global counter and a CPU.
req_batch(c) == Max({1, (nr_events[c] - 1) \div (Cardinality(Cpus) * PerCpu)})

NoArgs == <<0, 0, "inf">>    \* <<min_nr, nr, timeout>>

TypeOK ==
    /\ memory \in [Ctxs -> {"none", "live", "work", "freed"}]
    /\ users \in [Ctxs -> Nat] /\ reqs \in [Ctxs -> Nat]
    /\ nr_events \in [Ctxs -> 2..MaxEvents]
    /\ reqs_available \in [Ctxs -> 0..(MaxEvents - 1)]
    /\ \A c \in Ctxs : pcpu[c] \in [Cpus -> 0..(2 * req_batch(c) - 1)]
    /\ ring \in [Ctxs -> [0..(MaxEvents - 1) -> Reqs \cup {NULL}]]
    /\ head \in [Ctxs -> 0..(MaxEvents - 1)] /\ tail \in [Ctxs -> 0..(MaxEvents - 1)]
    /\ aio_nr \in 0..AioMaxNr
    /\ stage \in [Reqs -> Stages]
    /\ pc \in [Threads -> Pcs]

Init ==
    /\ memory = [c \in Ctxs |-> "none"]
    /\ users = [c \in Ctxs |-> 0] /\ reqs = [c \in Ctxs |-> 0]
    /\ killed = [c \in Ctxs |-> [users |-> "no", reqs |-> "no"]]
    /\ dead = {} /\ group = {} /\ known = {} /\ mapped = {}
    /\ nr_events = [c \in Ctxs |-> 2]
    /\ reqs_available = [c \in Ctxs |-> 0]
    /\ pcpu = [c \in Ctxs |-> [p \in Cpus |-> 0]]
    /\ ring = [c \in Ctxs |-> [i \in 0..(MaxEvents - 1) |-> NULL]]
    /\ head = [c \in Ctxs |-> 0] /\ tail = head /\ ctx_tail = head
    /\ completing = [c \in Ctxs |-> NULL] /\ reading = [c \in Ctxs |-> NULL]
    /\ active = [c \in Ctxs |-> {}] /\ wait = [c \in Ctxs |-> {}]
    /\ table = <<>> /\ aio_nr = 0
    /\ stage = [r \in Reqs |-> "unused"]
    /\ ki_ctx = [r \in Reqs |-> NULL]
    /\ cancelled = {} /\ delivered = [r \in Reqs |-> 0]
    /\ pc = [t \in Threads |-> "idle"] /\ ctx = [t \in Threads |-> NULL]
    /\ req = [t \in Threads |-> NULL] /\ args = [t \in Threads |-> NoArgs]
    /\ got = [t \in Threads |-> 0] /\ err = [t \in Threads |-> "none"]
    /\ seen = [t \in Threads |-> 0] /\ inwait = [t \in Threads |-> "no"]
    /\ after = [t \in Threads |-> "put"]
    /\ state = [t \in Threads |-> "RUNNING"] /\ timer = [t \in Threads |-> "off"]
    /\ signal = {} /\ script \in Scripts

Goto(t, l) == pc' = [pc EXCEPT ![t] = l]

\* The next system call of the thread, <<name>>, <<"setup", nr_events>> or
\* <<"args", min_nr, nr, timeout>>.
Calls(t, name) ==
    /\ pc[t] = "idle" /\ script[t] # <<>> /\ Head(script[t])[1] = name
    /\ script' = [script EXCEPT ![t] = Tail(@)]

-----------------------------------------------------------------------------
(* Ring slots: reqs_available, batched over the CPUs.                      *)

\* The compare-and-swap loop ends with the counter as it was read.
get_reqs_available(c, p) ==
    IF pcpu[c][p] > 0
    THEN pcpu' = [pcpu EXCEPT ![c][p] = @ - 1] /\ UNCHANGED <<reqs_available, nr_events>>
    ELSE /\ reqs_available[c] >= req_batch(c)
         /\ reqs_available' = [reqs_available EXCEPT ![c] = @ - req_batch(c)]
         /\ pcpu' = [pcpu EXCEPT ![c][p] = @ + req_batch(c) - 1]
         /\ UNCHANGED nr_events

\* The loop hands back whole batches while two or more are at hand.
put_reqs_available(c, p, nr) ==
    LET n == pcpu[c][p] + nr
        back == IF n >= 2 * req_batch(c) THEN n \div req_batch(c) - 1 ELSE 0
    IN  /\ pcpu' = [pcpu EXCEPT ![c][p] = n - back * req_batch(c)]
        /\ reqs_available' = [reqs_available EXCEPT ![c] = @ + back * req_batch(c)]
        /\ UNCHANGED nr_events

-----------------------------------------------------------------------------
(* io_setup and the table of contexts.                                     *)

\* An object the allocator returns: they are interchangeable.
Fresh(S) == CHOOSE x \in S : TRUE

\* The ring is allocated and mapped, with head and tail at 0; how many events
\* the pages hold is abstracted to the number asked for.
aio_setup_ring(c, n) ==
    /\ mapped' = mapped \cup {c}
    /\ nr_events' = [nr_events EXCEPT ![c] = n]

\* ioctx_alloc up to the check of the limit, all private to the caller.  A
\* failure up to here frees what there is and changes nothing.
ioctx_alloc(t) ==
    LET free == {c \in Ctxs : memory[c] = "none"}
        c == Fresh(free)
    IN
    /\ free # {} /\ Calls(t, "setup")
    /\ memory' = [memory EXCEPT ![c] = "live"]
    /\ aio_setup_ring(c, Head(script[t])[2])
    /\ reqs_available' = [reqs_available EXCEPT ![c] = nr_events'[c] - 1]
    /\ users' = [users EXCEPT ![c] = 1] /\ reqs' = [reqs EXCEPT ![c] = 1]
    /\ ctx' = [ctx EXCEPT ![t] = c]
    /\ Goto(t, "reserve")
    /\ UNCHANGED <<killed, dead, pcpu, ringVars, active, wait, group, table, known, aio_nr,
                   reqVars, req, after, readVars, sleepVars>>

\* err_ctx: aio_free_ring and the rest.  The context was never visible.
SetupFails(t) ==
    /\ memory' = [memory EXCEPT ![ctx[t]] = "freed"]
    /\ mapped' = mapped \ {ctx[t]}
    /\ ctx' = [ctx EXCEPT ![t] = NULL]
    /\ Goto(t, "idle")

\* "limit the number of system wide aios".
SetupReserve(t) ==
    /\ pc[t] = "reserve"
    /\ \/ /\ aio_nr + nr_events[ctx[t]] > AioMaxNr
          /\ SetupFails(t)
          /\ UNCHANGED <<aio_nr, users, reqs>>
       \/ /\ aio_nr + nr_events[ctx[t]] <= AioMaxNr
          /\ aio_nr' = aio_nr + nr_events[ctx[t]]
          /\ users' = [users EXCEPT ![ctx[t]] = @ + 1]
          /\ reqs' = [reqs EXCEPT ![ctx[t]] = @ + 1]
          /\ Goto(t, "add")
          /\ UNCHANGED <<memory, mapped, ctx>>
    /\ UNCHANGED <<killed, dead, slotVars, ringVars, active, wait, group, table, known,
                   reqVars, req, after, readVars, sleepVars, script>>

\* The loop of ioctx_add_table under ioctx_lock, from the test of a table on.
Place(t, tbl) ==
    \/ \E i \in DOMAIN tbl :
        /\ tbl[i] = NULL /\ \A j \in 1..(i - 1) : tbl[j] # NULL
        /\ table' = [tbl EXCEPT ![i] = ctx[t]]
        /\ Goto(t, "return")
        /\ UNCHANGED seen
    \/ /\ \A i \in DOMAIN tbl : tbl[i] # NULL
       /\ table' = tbl
       /\ seen' = [seen EXCEPT ![t] = (IF tbl = <<>> THEN 1 ELSE Len(tbl)) * Growth]
       /\ Goto(t, "grow")

ioctx_add_table(t) ==
    /\ pc[t] = "add"
    /\ Place(t, table)
    /\ UNCHANGED <<ctxVars, known, mapped, aio_nr, reqVars, ctx, req, after, args, got, err, inwait,
                   sleepVars, script>>

\* The table allocated without the lock: copied into, or dropped if another
\* thread was faster.  Without memory, err_cleanup.
GrowTable(t) ==
    /\ pc[t] = "grow"
    /\ \/ /\ Place(t, IF seen[t] > Len(table)
                      THEN [i \in 1..seen[t] |-> IF i <= Len(table) THEN table[i] ELSE NULL]
                      ELSE table)
          /\ UNCHANGED <<aio_nr, memory, mapped, ctx>>
       \/ /\ SetupFails(t)
          /\ aio_nr' = aio_nr - nr_events[ctx[t]]
          /\ UNCHANGED <<table, seen>>
    /\ UNCHANGED <<refVars, dead, slotVars, ringVars, active, wait, group, known, reqVars,
                   req, after, args, got, err, inwait, sleepVars, script>>

\* ctx->cmgroup = NULL; io_setup stores the id, or kills the context if it cannot.
io_setup(t) ==
    /\ pc[t] = "return"
    /\ group' = group \ {ctx[t]}
    /\ \/ known' = known \cup {ctx[t]} /\ Goto(t, "put")
       \/ UNCHANGED known /\ Goto(t, "kill")
    /\ UNCHANGED <<memory, refVars, dead, slotVars, ringVars, active, wait, table, mapped,
                   aio_nr, reqVars, ctx, req, after, readVars, sleepVars, script>>

-----------------------------------------------------------------------------
(* Finding a context, and letting go of it.                                *)

InTable(c) == \E i \in DOMAIN table : table[i] = c

\* lookup_ioctx up to the check of the entry, inside rcu_read_lock; the
\* system call goes on at its own label, io_getevents with its arguments.
Lookup(t, c, call) ==
    /\ Calls(t, call) /\ c \in known \cap mapped /\ InTable(c)
    /\ ctx' = [ctx EXCEPT ![t] = c]
    /\ args' = [args EXCEPT ![t] = IF call = "args" THEN Tail(Head(script[t])) ELSE @]
    /\ after' = [after EXCEPT ![t] = call]
    /\ Goto(t, "get")
    /\ UNCHANGED <<ctxVars, procVars, reqVars, req, got, err, seen, inwait, sleepVars>>

\* No such context: -EINVAL.  (And io_setup without memory: -ENOMEM.)
CallFails(t, call) ==
    /\ Calls(t, call)
    /\ \/ call = "setup" \/ known = {}
       \/ \E c \in known : c \notin mapped \/ ~InTable(c)
    /\ UNCHANGED <<ctxVars, procVars, reqVars, pc, ctx, req, after, readVars, sleepVars>>

\* Fault: the reference is never taken.
LookupNoRef(t) ==
    /\ pc[t] = "get"
    /\ Goto(t, after[t])
    /\ after' = [after EXCEPT ![t] = "put"]
    /\ UNCHANGED <<ctxVars, procVars, reqVars, ctx, req, args, got, err, seen, inwait,
                   sleepVars, script>>

\* percpu_ref_get and rcu_read_unlock.
lookup_ioctx(t) ==
    /\ pc[t] = "get"
    /\ users' = [users EXCEPT ![ctx[t]] = @ + 1]
    /\ Goto(t, after[t])
    /\ after' = [after EXCEPT ![t] = "put"]
    /\ UNCHANGED <<memory, reqs, killed, dead, slotVars, ringVars, active, wait, group,
                   procVars, reqVars, ctx, req, args, got, err, seen, inwait, sleepVars, script>>

\* percpu_ref_put(&ioctx->users), the end of every system call.
UsersPut(t) ==
    /\ pc[t] = "put"
    /\ users' = [users EXCEPT ![ctx[t]] = @ - 1]
    /\ ctx' = [ctx EXCEPT ![t] = NULL]
    /\ args' = [args EXCEPT ![t] = NoArgs]
    /\ got' = [got EXCEPT ![t] = 0] /\ err' = [err EXCEPT ![t] = "none"]
    /\ seen' = [seen EXCEPT ![t] = 0]
    /\ signal' = signal \ {t}
    /\ Goto(t, "idle")
    /\ UNCHANGED <<memory, reqs, killed, dead, slotVars, ringVars, active, wait, group,
                   procVars, reqVars, req, after, inwait, state, timer, script>>

-----------------------------------------------------------------------------
(* Destruction.                                                            *)

\* kill_ioctx: atomic_xchg(&ctx->dead, 1).
kill_ioctx(t) ==
    /\ pc[t] = "kill"
    /\ dead' = dead \cup {ctx[t]}
    /\ Goto(t, IF ctx[t] \in dead THEN after[t] ELSE "kill_table")
    /\ UNCHANGED <<memory, refVars, slotVars, ringVars, active, wait, group, procVars, reqVars,
                   ctx, req, after, readVars, sleepVars, script>>

\* Under ioctx_lock: no new reference from here on.
KillTable(t) ==
    /\ pc[t] = "kill_table"
    /\ table' = [i \in DOMAIN table |-> IF table[i] = ctx[t] THEN NULL ELSE table[i]]
    /\ Goto(t, "kill_wake")
    /\ UNCHANGED <<ctxVars, known, mapped, aio_nr, reqVars, ctx, req, after, readVars,
                   sleepVars, script>>

\* wake_up and wake_up_all on ctx->wait: the waiters are not exclusive, and
\* autoremove_wake_function unlinks the ones it wakes.
WakeWaiters(c) ==
    LET woken == {t \in wait[c] : state[t] = "INTERRUPTIBLE"}
    IN  /\ wait' = [wait EXCEPT ![c] = @ \ woken]
        /\ state' = [t \in Threads |-> IF t \in woken THEN "RUNNING" ELSE state[t]]

\* Fault: readers are left asleep when the context dies.
KillWakesNobody(t) ==
    /\ pc[t] = "kill_wake"
    /\ Goto(t, "kill_ref")
    /\ UNCHANGED <<ctxVars, procVars, reqVars, ctx, req, after, readVars, sleepVars, script>>

KillWake(t) ==
    /\ pc[t] = "kill_wake"
    /\ WakeWaiters(ctx[t])
    /\ Goto(t, "kill_ref")
    /\ UNCHANGED <<memory, refVars, dead, slotVars, ringVars, active, group, procVars, reqVars,
                   ctx, req, after, readVars, timer, signal, script>>

\* aio_nr_sub, vm_munmap, percpu_ref_kill(&ctx->users).
KillRef(t) ==
    /\ pc[t] = "kill_ref"
    /\ aio_nr' = IF aio_nr < nr_events[ctx[t]] THEN 0 ELSE aio_nr - nr_events[ctx[t]]
    /\ mapped' = mapped \ {ctx[t]}
    /\ killed' = [killed EXCEPT ![ctx[t]].users = "pending"]
    /\ Goto(t, after[t])
    /\ UNCHANGED <<memory, users, reqs, dead, slotVars, ringVars, active, wait, group, table,
                   known, reqVars, ctx, req, after, readVars, sleepVars, script>>

\* A thread of the process ends; the last one goes through exit_aio.
ThreadExit(t) ==
    /\ pc[t] = "idle" /\ script[t] = <<>>
    /\ Goto(t, IF \A u \in Threads \ {t} : pc[u] = "exited" THEN "exit" ELSE "exited")
    /\ seen' = [seen EXCEPT ![t] = 0]
    /\ UNCHANGED <<ctxVars, procVars, reqVars, ctx, req, after, args, got, err, inwait,
                   sleepVars, script>>

\* The loop of exit_aio, with i in seen[t].
exit_aio(t) ==
    /\ pc[t] = "exit"
    /\ \/ \E i \in DOMAIN table :
            /\ i > seen[t] /\ table[i] # NULL
            /\ \A j \in (seen[t] + 1)..(i - 1) : table[j] = NULL
            /\ ctx' = [ctx EXCEPT ![t] = table[i]]
            /\ seen' = [seen EXCEPT ![t] = i]
            /\ after' = [after EXCEPT ![t] = "exit"]
            /\ Goto(t, "kill")
            /\ UNCHANGED table
       \/ /\ \A i \in DOMAIN table : i > seen[t] => table[i] = NULL
          /\ table' = <<>>
          /\ ctx' = [ctx EXCEPT ![t] = NULL]
          /\ seen' = [seen EXCEPT ![t] = 0]
          /\ Goto(t, "exited")
          /\ UNCHANGED after
    /\ UNCHANGED <<ctxVars, known, mapped, aio_nr, reqVars, req, args, got, err, inwait,
                   sleepVars, script>>

\* percpu_ref_kill: after a grace period the reference of the allocation goes.
RcuUsers(c) ==
    /\ killed[c].users = "pending"
    /\ ~\E t \in Threads : pc[t] = "get" /\ ctx[t] = c
    /\ killed' = [killed EXCEPT ![c].users = "done"]
    /\ users' = [users EXCEPT ![c] = @ - 1]
    /\ UNCHANGED <<memory, reqs, dead, slotVars, ringVars, active, wait, group, procVars,
                   reqVars, threadVars>>

\* Cancellation marks the iocb; the driver then completes it.
Cancellable(c) == {r \in active[c] : r \notin cancelled}

\* The users are gone: cancel what can be, then kill the requests.
free_ioctx_users(c) ==
    /\ memory[c] = "live" /\ killed[c] = [users |-> "done", reqs |-> "no"] /\ users[c] = 0
    /\ cancelled' = cancelled \cup Cancellable(c)
    /\ active' = [active EXCEPT ![c] = {}]
    /\ killed' = [killed EXCEPT ![c].reqs = "pending"]
    /\ reqs' = [reqs EXCEPT ![c] = @ - 1]
    /\ UNCHANGED <<memory, users, dead, slotVars, ringVars, wait, group, procVars, stage,
                   ki_ctx, delivered, threadVars>>

RcuReqs(c) ==
    /\ killed[c].reqs = "pending"
    /\ killed' = [killed EXCEPT ![c].reqs = "done"]
    /\ reqs' = [reqs EXCEPT ![c] = @ - 1]
    /\ UNCHANGED <<memory, users, dead, slotVars, ringVars, active, wait, group, procVars,
                   reqVars, threadVars>>

\* schedule_work(&ctx->free_work).
free_ioctx_reqs(c) ==
    /\ memory[c] = "live" /\ killed[c].reqs = "done" /\ reqs[c] = 0
    /\ memory' = [memory EXCEPT ![c] = "work"]
    /\ UNCHANGED <<refVars, dead, slotVars, ringVars, active, wait, group, procVars, reqVars,
                   threadVars>>

\* aio_free_ring, cmgroup_detach (CmLife), kmem_cache_free.
free_ioctx(c) ==
    /\ memory[c] = "work"
    /\ memory' = [memory EXCEPT ![c] = "freed"]
    /\ group' = group \ {c}
    /\ UNCHANGED <<refVars, dead, slotVars, ringVars, active, wait, procVars, reqVars,
                   threadVars>>

-----------------------------------------------------------------------------
(* io_submit.                                                              *)

\* aio_get_req: a slot on the current CPU and memory for the request.
aio_get_req(t, p) ==
    LET free == {r \in Reqs : stage[r] = "unused"}
        r == Fresh(free)
    IN
    /\ pc[t] = "submit" /\ free # {}
    /\ get_reqs_available(ctx[t], p)
    /\ \/ /\ stage' = [stage EXCEPT ![r] = "setup"]
          /\ ki_ctx' = [ki_ctx EXCEPT ![r] = ctx[t]]
          /\ reqs' = [reqs EXCEPT ![ctx[t]] = @ + 1]
          /\ req' = [req EXCEPT ![t] = r]
          /\ Goto(t, "prep")
       \/ UNCHANGED <<stage, ki_ctx, reqs, req>> /\ Goto(t, "unget")
    /\ UNCHANGED <<memory, users, killed, dead, ringVars, active, wait, group, procVars,
                   cancelled, delivered, ctx, after, readVars, sleepVars, script>>

\* out_put: no memory for the request; the CPU may be another one by now.
SubmitNoMemory(t, p) ==
    /\ pc[t] = "unget"
    /\ put_reqs_available(ctx[t], p, 1)
    /\ Goto(t, "put")
    /\ UNCHANGED <<memory, refVars, dead, ringVars, active, wait, group, procVars, reqVars,
                   ctx, req, after, readVars, sleepVars, script>>

\* Fault: a request that fails early keeps its slot.
SubmitFailKeepsSlot(t, p) ==
    /\ pc[t] = "prep"
    /\ UNCHANGED slotVars
    /\ reqs' = [reqs EXCEPT ![ctx[t]] = @ - 1]
    /\ stage' = [stage EXCEPT ![req[t]] = "unused"]
    /\ ki_ctx' = [ki_ctx EXCEPT ![req[t]] = NULL]
    /\ req' = [req EXCEPT ![t] = NULL]
    /\ Goto(t, "put")
    /\ UNCHANGED <<memory, users, killed, dead, ringVars, active, wait, group, procVars,
                   cancelled, delivered, ctx, after, readVars, sleepVars, script>>

\* io_submit_one, out_put_req: a bad descriptor or eventfd, a fault, or an
\* error of aio_run_iocb before the request was started.  The loop ends.
SubmitFail(t, p) ==
    /\ pc[t] = "prep"
    /\ put_reqs_available(ctx[t], p, 1)
    /\ reqs' = [reqs EXCEPT ![ctx[t]] = @ - 1]
    /\ stage' = [stage EXCEPT ![req[t]] = "unused"]
    /\ ki_ctx' = [ki_ctx EXCEPT ![req[t]] = NULL]
    /\ req' = [req EXCEPT ![t] = NULL]
    /\ Goto(t, "put")
    /\ UNCHANGED <<memory, users, killed, dead, ringVars, active, wait, group, procVars,
                   cancelled, delivered, ctx, after, readVars, sleepVars, script>>

\* aio_run_iocb: the operation is queued (-EIOCBQUEUED), with a cancel
\* function or not (kiocb_set_cancel_fn), or done at once: then this thread
\* runs aio_complete.
aio_run_iocb(t) ==
    /\ pc[t] = "prep"
    /\ \/ /\ stage' = [stage EXCEPT ![req[t]] = "busy"]
          /\ \/ active' = [active EXCEPT ![ctx[t]] = @ \cup {req[t]}]
             \/ UNCHANGED active
          /\ req' = [req EXCEPT ![t] = NULL]
          /\ Goto(t, "submit")
       \/ /\ stage' = [stage EXCEPT ![req[t]] = "write"]
          /\ Goto(t, "sync")
          /\ UNCHANGED <<req, active>>
    /\ UNCHANGED <<memory, refVars, dead, slotVars, ringVars, wait, group, procVars, ki_ctx,
                   cancelled, delivered, ctx, after, readVars, sleepVars, script>>

SubmitCompleted(t) ==
    /\ pc[t] = "sync" /\ stage[req[t]] = "done"
    /\ req' = [req EXCEPT ![t] = NULL]
    /\ Goto(t, "submit")
    /\ UNCHANGED <<ctxVars, procVars, reqVars, ctx, after, readVars, sleepVars, script>>

\* do_io_submit, the end of the loop: all submitted, or a break.
do_io_submit(t) ==
    /\ pc[t] = "submit"
    /\ Goto(t, "put")
    /\ UNCHANGED <<ctxVars, procVars, reqVars, ctx, req, after, readVars, sleepVars, script>>

-----------------------------------------------------------------------------
(* aio_complete, by the driver or by the thread in io_submit.              *)

\* Off active_reqs, under ctx_lock.
CompleteStart(r) ==
    /\ stage[r] = "busy"
    /\ active' = [active EXCEPT ![ki_ctx[r]] = @ \ {r}]
    /\ stage' = [stage EXCEPT ![r] = "write"]
    /\ UNCHANGED <<memory, refVars, dead, slotVars, ringVars, wait, group, procVars, ki_ctx,
                   cancelled, delivered, threadVars>>

\* Fault: two completions may write to the ring at a time.
WriteUnlocked(r) ==
    LET c == ki_ctx[r] IN
    /\ stage[r] = "write"
    /\ ring' = [ring EXCEPT ![c][tail[c]] = r]
    /\ ctx_tail' = [ctx_tail EXCEPT ![c] = (tail[c] + 1) % nr_events[c]]
    /\ stage' = [stage EXCEPT ![r] = "publish"]
    /\ UNCHANGED <<memory, refVars, dead, slotVars, head, tail, completing, reading, active,
                   wait, group, procVars, ki_ctx, cancelled, delivered, threadVars>>

\* The event goes to the slot at the tail, under completion_lock ...
CompleteWrite(r) ==
    LET c == ki_ctx[r] IN
    /\ stage[r] = "write" /\ completing[c] = NULL
    /\ completing' = [completing EXCEPT ![c] = r]
    /\ ring' = [ring EXCEPT ![c][ctx_tail[c]] = r]
    /\ ctx_tail' = [ctx_tail EXCEPT ![c] = (@ + 1) % nr_events[c]]
    /\ stage' = [stage EXCEPT ![r] = "publish"]
    /\ UNCHANGED <<memory, refVars, dead, slotVars, head, tail, reading, active, wait, group,
                   procVars, ki_ctx, cancelled, delivered, threadVars>>

\* ... and becomes visible with ring->tail.
CompletePublish(r) ==
    LET c == ki_ctx[r] IN
    /\ stage[r] = "publish"
    /\ tail' = [tail EXCEPT ![c] = ctx_tail[c]]
    /\ completing' = [completing EXCEPT ![c] = NULL]
    /\ stage' = [stage EXCEPT ![r] = "wake"]
    /\ UNCHANGED <<memory, refVars, dead, slotVars, ring, head, ctx_tail, reading, active,
                   wait, group, procVars, ki_ctx, cancelled, delivered, threadVars>>

\* Fault: only the first event in an empty ring wakes the readers.
WakeOnFirstOnly(r) ==
    LET c == ki_ctx[r] IN
    /\ stage[r] = "wake"
    /\ IF tail[c] = (head[c] + 1) % nr_events[c]
       THEN WakeWaiters(c) ELSE UNCHANGED <<wait, state>>
    /\ stage' = [stage EXCEPT ![r] = "put"]
    /\ UNCHANGED <<memory, refVars, dead, slotVars, ringVars, active, group, procVars, ki_ctx,
                   cancelled, delivered, pc, ctx, req, after, readVars, timer, signal, script>>

\* kiocb_free, then the readers are woken.
CompleteWake(r) ==
    /\ stage[r] = "wake"
    /\ WakeWaiters(ki_ctx[r])
    /\ stage' = [stage EXCEPT ![r] = "put"]
    /\ UNCHANGED <<memory, refVars, dead, slotVars, ringVars, active, group, procVars, ki_ctx,
                   cancelled, delivered, pc, ctx, req, after, readVars, timer, signal, script>>

\* percpu_ref_put(&ctx->reqs).
aio_complete(r) ==
    /\ stage[r] = "put"
    /\ reqs' = [reqs EXCEPT ![ki_ctx[r]] = @ - 1]
    /\ stage' = [stage EXCEPT ![r] = "done"]
    /\ UNCHANGED <<memory, users, killed, dead, slotVars, ringVars, active, wait, group,
                   procVars, ki_ctx, cancelled, delivered, threadVars>>

-----------------------------------------------------------------------------
(* io_cancel and io_set_cmgroup, with the context in hand.                 *)

\* lookup_kiocb and kiocb_cancel, under ctx_lock; any key may be passed.
io_cancel(t) ==
    /\ pc[t] = "cancel"
    /\ \/ \E r \in Cancellable(ctx[t]) : cancelled' = cancelled \cup {r}
       \/ UNCHANGED cancelled
    /\ Goto(t, "put")
    /\ UNCHANGED <<ctxVars, procVars, stage, ki_ctx, delivered, ctx, req, after, readVars,
                   sleepVars, script>>

\* The part under ctx_lock; the group's side is in CmLife.
io_set_cmgroup(t) ==
    /\ pc[t] = "attach"
    /\ group' = group \cup {ctx[t]}
    /\ Goto(t, "put")
    /\ UNCHANGED <<memory, refVars, dead, slotVars, ringVars, active, wait, procVars, reqVars,
                   ctx, req, after, readVars, sleepVars, script>>

-----------------------------------------------------------------------------
(* io_getevents: read_events, read_events_cm.                              *)

BadArgs(a) == a[1] > a[2] \/ a[1] < 0
Unread == -1    \* the timeout was not copied from the user

\* The arguments are checked and the timeout copied.
ReadArgs(t) ==
    /\ pc[t] = "args"
    /\ \/ /\ BadArgs(args[t])
          /\ err' = [err EXCEPT ![t] = "EINVAL"] /\ seen' = [seen EXCEPT ![t] = Unread]
          /\ Goto(t, "group")
       \/ /\ ~BadArgs(args[t]) /\ args[t][3] # "inf"
          /\ err' = [err EXCEPT ![t] = "EFAULT"] /\ seen' = [seen EXCEPT ![t] = Unread]
          /\ Goto(t, "group")
       \/ ~BadArgs(args[t]) /\ Goto(t, "ring") /\ UNCHANGED <<err, seen>>
    /\ UNCHANGED <<ctxVars, procVars, reqVars, ctx, req, after, args, got, inwait, sleepVars, script>>

\* aio_read_events_ring: ring_lock, head and tail.
RingLock(t) ==
    LET c == ctx[t] IN
    /\ pc[t] = "ring" /\ reading[c] = NULL
    /\ IF head[c] = tail[c]
       THEN seen' = [seen EXCEPT ![t] = 0] /\ Goto(t, "test") /\ UNCHANGED reading
       ELSE /\ seen' = [seen EXCEPT ![t] = tail[c]] /\ Goto(t, "copy")
            /\ reading' = [reading EXCEPT ![c] = t]
    /\ UNCHANGED <<memory, refVars, dead, slotVars, ring, head, tail, ctx_tail, completing,
                   active, wait, group, procVars, reqVars, ctx, req, after, args, got, err,
                   inwait, sleepVars, script>>

\* A mutex_lock that blocks leaves the task TASK_RUNNING.
RingBlocked(t) ==
    /\ pc[t] = "ring" /\ reading[ctx[t]] # NULL /\ state[t] = "INTERRUPTIBLE"
    /\ state' = [state EXCEPT ![t] = "RUNNING"]
    /\ UNCHANGED <<ctxVars, procVars, reqVars, pc, ctx, req, after, readVars, timer, signal, script>>

Distance(c, from, to) == (to - from + nr_events[c]) % nr_events[c]
Events(c, n) == {ring[c][(head[c] + i) % nr_events[c]] : i \in 0..(n - 1)}

\* The events from head on are copied and head moves, or the copy faults and
\* nothing is consumed.
RingCopy(t) ==
    LET c == ctx[t]
        n == Min({Distance(c, head[c], seen[t]), args[t][2] - got[t]})
    IN  /\ pc[t] = "copy"
        /\ \/ /\ delivered' = [r \in Reqs |->
                     delivered[r] + (IF r \in Events(c, n) THEN 1 ELSE 0)]
              /\ head' = [head EXCEPT ![c] = (@ + n) % nr_events[c]]
              /\ seen' = [seen EXCEPT ![t] = n]
              /\ Goto(t, "slots")
              /\ UNCHANGED <<err, reading>>
           \/ /\ n > 0
              /\ err' = [err EXCEPT ![t] = "EFAULT"]
              /\ seen' = [seen EXCEPT ![t] = 0]
              /\ reading' = [reading EXCEPT ![c] = NULL]
              /\ Goto(t, "test")
              /\ UNCHANGED <<delivered, head>>
        /\ UNCHANGED <<memory, refVars, dead, slotVars, ring, tail, ctx_tail, completing,
                   active, wait, group, procVars, stage, ki_ctx, cancelled, ctx, req, after,
                   args, got, inwait, sleepVars, script>>

\* put_reqs_available and mutex_unlock.
aio_read_events_ring(t, p) ==
    /\ pc[t] = "slots"
    /\ put_reqs_available(ctx[t], p, seen[t])
    /\ reading' = [reading EXCEPT ![ctx[t]] = NULL]
    /\ Goto(t, "test")
    /\ UNCHANGED <<memory, refVars, dead, ring, head, tail, ctx_tail, completing, active, wait,
                   group, procVars, reqVars, ctx, req, after, readVars, sleepVars, script>>

\* aio_read_events, the condition of the wait.  The first time round it is
\* tested outside the loop; then the timer is started and the loop entered.
aio_read_events(t) ==
    LET i == got[t] + seen[t]
        ret == IF ctx[t] \in dead THEN "EINVAL" ELSE err[t]
    IN  /\ pc[t] = "test"
        /\ got' = [got EXCEPT ![t] = i]
        /\ err' = [err EXCEPT ![t] = IF i = 0 THEN ret ELSE "none"]
        /\ seen' = [seen EXCEPT ![t] = 0]
        /\ \/ /\ ret # "none" \/ i >= args[t][1] \/ inwait[t] = "intr"
              /\ Goto(t, "finish") /\ UNCHANGED <<inwait, timer>>
           \/ /\ ret = "none" /\ i < args[t][1] /\ inwait[t] = "loop"
              /\ Goto(t, "sleep") /\ UNCHANGED <<inwait, timer>>
           \/ /\ ret = "none" /\ i < args[t][1] /\ inwait[t] = "no"
              /\ inwait' = [inwait EXCEPT ![t] = "loop"]
              /\ timer' = [timer EXCEPT ![t] = IF args[t][3] = "inf" THEN "off" ELSE "armed"]
              /\ Goto(t, "prepare")
        /\ UNCHANGED <<ctxVars, procVars, reqVars, ctx, req, after, args, state, signal, script>>

\* prepare_to_wait_event: a pending signal keeps the thread off the queue.
prepare_to_wait_event(t) ==
    /\ pc[t] = "prepare"
    /\ \/ /\ t \in signal
          /\ inwait' = [inwait EXCEPT ![t] = "intr"] /\ UNCHANGED <<wait, state>>
       \/ /\ t \notin signal
          /\ wait' = [wait EXCEPT ![ctx[t]] = @ \cup {t}]
          /\ state' = [state EXCEPT ![t] = "INTERRUPTIBLE"]
          /\ UNCHANGED inwait
    /\ Goto(t, "ring")
    /\ UNCHANGED <<memory, refVars, dead, slotVars, ringVars, active, group, procVars, reqVars,
                   ctx, req, after, args, got, err, seen, timer, signal, script>>

\* The end of the loop: the timer has fired, or schedule().
WaitSchedule(t) ==
    /\ pc[t] = "sleep"
    /\ Goto(t, IF timer[t] = "fired" THEN "finish"
               ELSE IF state[t] = "INTERRUPTIBLE" /\ t \notin signal THEN "asleep"
               ELSE "prepare")
    /\ state' = [state EXCEPT ![t] = IF pc'[t] = "prepare" THEN "RUNNING" ELSE @]
    /\ UNCHANGED <<ctxVars, procVars, reqVars, ctx, req, after, readVars, timer, signal, script>>

WaitResume(t) ==
    /\ pc[t] = "asleep" /\ state[t] = "RUNNING"
    /\ Goto(t, "prepare")
    /\ UNCHANGED <<ctxVars, procVars, reqVars, ctx, req, after, readVars, sleepVars, script>>

\* hrtimer_wakeup, and a signal for the thread.
Timer(t) ==
    /\ timer[t] = "armed"
    /\ timer' = [timer EXCEPT ![t] = "fired"]
    /\ state' = [state EXCEPT ![t] = "RUNNING"]
    /\ UNCHANGED <<ctxVars, procVars, reqVars, pc, ctx, req, after, readVars, signal, script>>

Signal(t) ==
    /\ inwait[t] # "no" /\ t \notin signal
    /\ signal' = signal \cup {t}
    /\ state' = [state EXCEPT ![t] = "RUNNING"]
    /\ UNCHANGED <<ctxVars, procVars, reqVars, pc, ctx, req, after, readVars, timer, script>>

\* finish_wait, hrtimer_cancel, and -EINTR if there is nothing to return.
read_events(t) ==
    /\ pc[t] = "finish"
    /\ wait' = [wait EXCEPT ![ctx[t]] = @ \ {t}]
    /\ state' = [state EXCEPT ![t] = "RUNNING"]
    /\ timer' = [timer EXCEPT ![t] = "off"]
    /\ inwait' = [inwait EXCEPT ![t] = "no"]
    /\ err' = [err EXCEPT ![t] = IF got[t] = 0 /\ @ = "none" /\ t \in signal THEN "EINTR" ELSE @]
    /\ Goto(t, "group")
    /\ UNCHANGED <<memory, refVars, dead, slotVars, ringVars, active, group, procVars, reqVars,
                   ctx, req, after, args, got, seen, signal, script>>

\* The values wtimeout may have: none, what was copied, or whatever the stack
\* held when it was never written.
WTimeouts(t) == CASE args[t][3] = "inf" -> {"inf"}
                  [] seen[t] = Unread   -> {"zero", "finite", "inf"}
                  [] OTHER              -> {args[t][3]}

\* The tail of io_getevents: cmgroup_wait turns back at once for -EINTR and
\* for a timeout of zero.  What it does otherwise is in CmWait.
io_getevents(t) ==
    /\ pc[t] = "group"
    /\ \E w \in WTimeouts(t) :
        Goto(t, IF ctx[t] \in group /\ (got[t] > 0 \/ err[t] \notin {"none", "EINTR"}) /\ w # "zero"
                THEN "cmgroup_wait" ELSE "put")
    /\ UNCHANGED <<ctxVars, procVars, reqVars, ctx, req, after, readVars, sleepVars, script>>

cmgroup_wait(t) ==
    /\ pc[t] = "cmgroup_wait"
    /\ Goto(t, "put")
    /\ UNCHANGED <<ctxVars, procVars, reqVars, ctx, req, after, readVars, sleepVars, script>>

-----------------------------------------------------------------------------
(* The system.                                                             *)

\* What a thread calls from user space is its own choice.
Call(t) ==
    \/ ioctx_alloc(t)
    \/ \E c \in Ctxs, l \in {"submit", "kill", "cancel", "attach", "args"} :
            Lookup(t, c, l)
    \/ \E l \in {"setup", "submit", "kill", "cancel", "attach", "args"} : CallFails(t, l)
    \/ ThreadExit(t)

\* What it does inside the kernel.
Setup(t) == SetupReserve(t) \/ ioctx_add_table(t) \/ GrowTable(t) \/ io_setup(t)
Destroy(t) == kill_ioctx(t) \/ KillTable(t) \/ KillWake(t) \/ KillRef(t) \/ exit_aio(t)
Submit(t) ==
    \/ \E p \in Cpus : aio_get_req(t, p) \/ SubmitNoMemory(t, p) \/ SubmitFail(t, p)
    \/ aio_run_iocb(t) \/ SubmitCompleted(t) \/ do_io_submit(t)
GetEvents(t) ==
    \/ ReadArgs(t) \/ RingLock(t) \/ RingBlocked(t) \/ RingCopy(t)
    \/ \E p \in Cpus : aio_read_events_ring(t, p)
    \/ aio_read_events(t) \/ prepare_to_wait_event(t) \/ WaitSchedule(t) \/ WaitResume(t)
    \/ read_events(t) \/ io_getevents(t) \/ cmgroup_wait(t)
Run(t) == \/ Setup(t) \/ Destroy(t) \/ Submit(t) \/ GetEvents(t)
          \/ lookup_ioctx(t) \/ UsersPut(t) \/ io_cancel(t) \/ io_set_cmgroup(t)

Complete(r) == \/ CompleteStart(r) \/ CompleteWrite(r) \/ CompletePublish(r)
               \/ CompleteWake(r) \/ aio_complete(r)
Free(c) == \/ RcuUsers(c) \/ free_ioctx_users(c) \/ RcuReqs(c)
           \/ free_ioctx_reqs(c) \/ free_ioctx(c)

\* The process is gone and so is all it had.
Finished == /\ \A t \in Threads : pc[t] = "exited"
            /\ \A c \in Ctxs : memory[c] \in {"none", "freed"}
            /\ UNCHANGED vars

\* What happens by itself: threads in the kernel, devices, grace periods and
\* work items.
Kernel ==
    \/ \E t \in Threads : Run(t)
    \/ \E r \in Reqs : Complete(r)
    \/ \E c \in Ctxs : Free(c)

Next ==
    \/ \E t \in Threads : Call(t) \/ Timer(t) \/ Signal(t)
    \/ Kernel
    \/ Finished

\* The kernel does not stop while it has something to do.  Nothing is assumed
\* of timers, signals, or of what the threads choose to call, nor that the
\* threads in the kernel get equal shares.
Spec == Init /\ [][Next]_vars /\ WF_vars(Kernel)

-----------------------------------------------------------------------------
(* Properties.                                                             *)

InFlight(c) == {r \in Reqs : ki_ctx[r] = c /\ stage[r] \in {"setup", "busy", "write"}}
Failing(c) == {t \in Threads : pc[t] = "unget" /\ ctx[t] = c}
Consumed(c) == MapThenSumSet(LAMBDA t : seen[t],
                             {t \in Threads : pc[t] = "slots" /\ ctx[t] = c})

\* Every slot of the ring but one is in exactly one place: free in the global
\* counter or with a CPU, held by a request, holding an event, or just read
\* and not yet handed back.  This is all that keeps aio_complete, which never
\* looks at head, from overwriting an unread event.
SlotsConserved ==
    \A c \in Ctxs : memory[c] \in {"live", "work"} =>
        reqs_available[c] + MapThenSumSet(LAMBDA p : pcpu[c][p], Cpus)
          + Cardinality(InFlight(c)) + Cardinality(Failing(c))
          + Distance(c, head[c], ctx_tail[c]) + Consumed(c) = nr_events[c] - 1

\* The event of a completed request is delivered exactly once: until a reader
\* has consumed it (aio_read_events_ring) it is in the ring, in one slot
\* between head and tail, and afterwards in none.
ExactlyOnce ==
    \A r \in Reqs :
        LET c == ki_ctx[r]
            slots == {i \in 0..(Distance(c, head[c], ctx_tail[c]) - 1) :
                        ring[c][(head[c] + i) % nr_events[c]] = r}
        IN  stage[r] \in {"publish", "wake", "put", "done"} =>
                delivered[r] + Cardinality(slots) = 1

\* No thread and no request refers to a context that free_ioctx has freed or
\* is about to: the two reference counts and the grace periods between them
\* (kill_ioctx, free_ioctx_users, free_ioctx_reqs) put the free last.
NoUseAfterFree ==
    /\ \A t \in Threads : ctx[t] # NULL /\ pc[t] # "exit" => memory[ctx[t]] = "live"
    /\ \A r \in Reqs : stage[r] \notin {"unused", "done"} => memory[ki_ctx[r]] = "live"

\* A reader is never left asleep on a ring that already satisfies it, nor on
\* a context that has died: if there is enough for it, whoever made it so has
\* yet to wake the queue.
NoMissedWakeup ==
    \A t \in Threads :
        LET c == ctx[t] IN
        pc[t] = "asleep" /\ state[t] = "INTERRUPTIBLE" =>
            /\ got[t] + Distance(c, head[c], tail[c]) >= args[t][1]
                 => \E r \in Reqs : ki_ctx[r] = c /\ stage[r] = "wake"
            /\ c \in dead
                 => \E u \in Threads : ctx[u] = c /\ pc[u] \in {"kill_table", "kill_wake"}

\* A context that io_destroy or the end of the process has marked dead is
\* freed in the end, readers asleep on it and requests in flight included.
DeadFreed == []<>(\A c \in dead : memory[c] = "freed")

\* cmgroup_wait "will not attempt to wait if @timeout is specfied as zero
\* (non-blocking call)": an io_getevents with a zero timeout does not wait.
\* No run checks it, for it does not hold: with min_nr > nr the timeout is
\* never copied (ReadArgs), and cmgroup_wait is given what the stack held.
NonBlockingNeverWaits ==
    \A t \in Threads : args[t][3] = "zero" => pc[t] # "cmgroup_wait"
=============================================================================

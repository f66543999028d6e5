------------------------------- MODULE MCShared -------------------------------
(* What tasks share: epolls and their items (each script puts two threads   *)
(* into a race), and the structures of CmFork.  A behaviour is one of one   *)
(* of them, with the other at rest.                                         *)
EXTENDS CmItems, CmFork, TLC

CONSTANTS e1, e2, e3, f1, f2, t1, t2

VARIABLE part \* which of them

allVars == <<part, vars, fVars>>

MCPathLimits == <<1>>

Add(e, f, m) == <<"add", e, f, m>>
Mod(e, f, m) == <<"mod", e, f, m>>
Del(e, f) == <<"del", e, f>>
Wait1(e) == <<"wait", e, NULL>>
Close(f) == <<"close", f>>

Two(a, b) == [t \in Threads |-> IF t = t1 THEN a ELSE b]

MCScripts == {
    \* level and edge triggered items, a scan against events and a change
    Two(<<Add(e1, f1, "ET"), Wait1(e1), Wait1(e1)>>, <<Add(e1, f2, "LT"), Mod(e1, f1, "LT")>>),
    Two(<<Add(e1, f1, "ONESHOT"), Wait1(e1)>>, <<Mod(e1, f1, "LT"), Wait1(e1), Del(e1, f1)>>),
    \* two epolls into each other
    Two(<<Add(e1, e2, "LT"), Add(e2, f1, "LT")>>, <<Add(e2, e1, "LT"), Add(e1, f1, "LT")>>),
    \* a ring of three
    Two(<<Add(e1, e2, "LT"), Add(e3, e1, "LT")>>, <<Add(e2, e3, "LT")>>),
    \* events through a nested epoll
    Two(<<Add(e1, e2, "LT"), Wait1(e1), Wait1(e1)>>, <<Add(e2, f1, "LT"), Wait1(e2)>>),
    Two(<<Add(e1, e2, "ET"), Add(e2, f1, "ET"), Wait1(e1)>>, <<Wait1(e1), Wait1(e2), Mod(e2, f1, "LT")>>),
    \* paths: too many, too deep
    Two(<<Add(e1, e2, "LT"), Add(e3, e2, "LT")>>, <<Add(e2, f1, "LT"), Wait1(e1)>>),
    Two(<<Add(e1, e2, "LT"), Add(e3, e1, "LT")>>, <<Add(e2, f1, "LT"), Wait1(e1)>>),
    \* the file against the epoll, and a nested epoll against its parent
    Two(<<Add(e1, f1, "LT"), Close(f1)>>, <<Wait1(e1), Close(e1)>>),
    Two(<<Add(e1, e2, "LT"), Close(e1)>>, <<Add(e2, f1, "LT"), Close(e2), Close(f1)>>) }

Thread == [shares |-> {"files", "fs", "sighand", "signal", "mm"}, vfork |-> FALSE]
Vfork == [shares |-> {"mm"}, vfork |-> TRUE]
Copy == [shares |-> {}, vfork |-> FALSE]
Mixed == [shares |-> {"files", "sighand", "mm"}, vfork |-> FALSE]

MCClones == {<<Thread, Vfork>>, <<Vfork, Thread>>, <<Mixed, Thread>>, <<Copy, Mixed>>}

AtRest == CHOOSE s \in Scripts : TRUE

SharedInit ==
    /\ part \in {"items", "fork"}
    /\ Init /\ (part # "items" => script = AtRest)
    /\ FInit /\ (part # "fork" => clones = <<Copy, Mixed>>)

\* Every task of CmFork may have exited in the end.
SharedNext ==
    \/ part = "items" /\ Next /\ UNCHANGED <<part, fVars>>
    \/ part = "fork" /\ FNext /\ UNCHANGED <<part, vars>>
    \/ part = "fork" /\ (\A t \in FTasks : ft[t].at \in {"none", "gone"}) /\ UNCHANGED allVars
=============================================================================

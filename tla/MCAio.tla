-------------------------------- MODULE MCAio --------------------------------
(* Instances of CmAio for TLC. *)
EXTENDS CmAio, TLC

CONSTANTS t1, t2

Script(a, b) == (t1 :> a) @@ (t2 :> b)
Get(min, nr, timeout) == <<"args", min, nr, timeout>>

Setup2 == <<"setup", 2>>
Setup3 == <<"setup", 3>>
Setup5 == <<"setup", 5>>
Submit1 == <<"submit">>
Kill1 == <<"kill">>
Cancel1 == <<"cancel">>
Attach1 == <<"attach">>

\* Readers against submitters, destruction and exit; growth of the table;
\* cancellation; groups.
MCScripts == {
    Script(<< Setup2, Submit1, Submit1 >>, << Get(2, 2, "inf") >>),
    Script(<< Setup3, Submit1 >>, << Get(2, 3, "inf") >>),
    Script(<< Setup2, Submit1, Kill1 >>, << Get(2, 2, "inf") >>),
    Script(<< Setup2, Get(1, 1, "inf") >>, << Submit1, Get(1, 2, "inf") >>),
    Script(<< Setup2, Setup2 >>, << Setup2 >>),
    Script(<< Setup5 >>, << Setup2 >>),
    Script(<< Setup5, Submit1 >>, << Cancel1, Kill1 >>),
    Script(<< Setup2, Attach1, Get(1, 0, "finite") >>, << Submit1, Get(1, 1, "zero") >>)
}
=============================================================================

------------------------------- MODULE MCStore -------------------------------
(***************************************************************************)
(* Instances of Store for TLC.                                             *)
(***************************************************************************)
EXTENDS Store

CONSTANTS r1, r2, r3, r4, r5, r6

Work == <<"work">>
WorkOutput == <<"work", "output">>
Paths == {Work, WorkOutput}

Copy(p, q) == [op |-> "copy", from |-> p, to |-> q]
Rm(p) == [op |-> "rm", to |-> p]
Risky == [op |-> "risky"]
Other == [op |-> "other"]

\* One segment each, and lines whose segments depend on one another.
Commands ==
    {<<Copy(Work, WorkOutput)>>, <<Rm(WorkOutput)>>, <<Risky>>, <<Other>>,
     <<Risky, Copy(WorkOutput, Work)>>, <<Rm(Work), Copy(Work, WorkOutput)>>}

Policies == {<<>>, <<"deny">>}
=============================================================================

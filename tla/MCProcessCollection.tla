------------------------ MODULE MCProcessCollection ------------------------
(***************************************************************************)
(* Small instances of ProcessCollection: PIDs that are few enough to be    *)
(* reused while they are read.                                             *)
(***************************************************************************)
EXTENDS ProcessCollection

MCTwoPids == {1, 2}

Of(k, h) == [kind |-> k, hidden |-> h]
MCNatures == {Of("helper", FALSE), Of("kernel", TRUE)}
=============================================================================

---------------------------- MODULE MCSilentScan ----------------------------
(***************************************************************************)
(* Model checking of the silent-failure sweep.                             *)
(***************************************************************************)
EXTENDS SilentScanProps, TLC

CONSTANTS s1, s2, c1, c2

MCReplica == s1 :> "a" @@ s2 :> "b"

Loaded    == [up |-> TRUE, age |-> 0, rows |-> 10, shape |-> {c1, c2}]
Stopped   == [Loaded EXCEPT !.age = 1]
Halved    == [Loaded EXCEPT !.rows = 5]
Lost      == [Loaded EXCEPT !.shape = {c1}]
Forbidden == [Loaded EXCEPT !.up = FALSE]


AllModels == {Loaded, Stopped, Halved, Lost, Forbidden}
TwoModels == {Loaded, Stopped}
=============================================================================

----------------------------- MODULE MCLogRelay -----------------------------
(* Instances of LogRelay.                                                   *)
EXTENDS LogRelay

CONSTANTS m1, m2
TwoModules == <<m1, m2>>
Sizes == (m1 :> 3) @@ (m2 :> 1)
Early == {1, 2}
=============================================================================

----------------------------- MODULE MCStartup -----------------------------
(* Instances of Startup.                                                    *)
EXTENDS Startup

CONSTANTS m1, m2, m3
ThreeStarts == {m1, m2, m3}
=============================================================================

--------------------------- MODULE MCClientTimes ---------------------------
(* An instance of ClientTimes: one client, for ids do not interact, the C++ *)
(* program with and without -d, and logs that begin before a leap year and  *)
(* end after its February.                                                  *)
EXTENDS ClientTimes

OneClient == {2}
MCSinces == {0, 4}
Winter == {3, 4}
=============================================================================

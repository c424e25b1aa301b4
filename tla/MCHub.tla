------------------------------- MODULE MCHub -------------------------------
(* Instances of Hub.                                                        *)
EXTENDS Hub

CONSTANTS p1, p2
TwoPages == {p1, p2}
=============================================================================

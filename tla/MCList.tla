------------------------------- MODULE MCList -------------------------------
(* Instances of List.                                                       *)
EXTENDS List

CONSTANTS h1, h2, a, b, c
TwoHeads == {h1, h2}
ThreeEntries == {a, b, c}
=============================================================================

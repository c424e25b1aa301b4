----------------------------- MODULE MCSession -----------------------------
(* An instance of Session: a buffer of 8 bytes with a header of 2, so that  *)
(* one read() of a body brings 5 bytes and a command of 7, the longest that *)
(* fits, takes two; one of 8 is refused.                                    *)
EXTENDS Session

MCLengths == {1, 5, 6, 7, 8}
=============================================================================

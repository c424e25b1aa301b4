----------------------------- MODULE MCPollSet -----------------------------
(* Instances of PollSet.                                                    *)
EXTENDS PollSet

CONSTANTS c1, c2, m1
OneConn == {c1}
TwoConns == {c1, c2}
OneModule == <<m1>>
=============================================================================

-------------------------------- MODULE Rpc --------------------------------
(***************************************************************************)
(* What a client of the manager may expect: its calls are carried out one  *)
(* at a time, each of them at most once and before it returns, and a call  *)
(* that returns was carried out.                                           *)
(***************************************************************************)
EXTENDS Naturals

CONSTANT Clients

VARIABLES calls, runs, returns  \* how many of each, per client
vars == <<calls, runs, returns>>

Init == calls = [c \in Clients |-> 0] /\ runs = calls /\ returns = calls

Call(c) ==
    /\ calls[c] = returns[c]
    /\ calls' = [calls EXCEPT ![c] = @ + 1] /\ UNCHANGED <<runs, returns>>

Run(c) ==
    /\ runs[c] < calls[c]
    /\ runs' = [runs EXCEPT ![c] = @ + 1] /\ UNCHANGED <<calls, returns>>

Return(c) ==
    /\ returns[c] < runs[c]
    /\ returns' = [returns EXCEPT ![c] = @ + 1] /\ UNCHANGED <<calls, runs>>

Next == \E c \in Clients : Call(c) \/ Run(c) \/ Return(c)
Spec == Init /\ [][Next]_vars
=============================================================================

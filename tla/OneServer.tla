----------------------------- MODULE OneServer -----------------------------
(***************************************************************************)
(* What starting the manager promises: the name that clients know belongs  *)
(* to at most one manager, the one that serves; a start is turned away     *)
(* only when the name is taken; a manager that ends gives the name back    *)
(* and one that crashes keeps it until somebody clears it.                 *)
(***************************************************************************)
CONSTANTS Managers, NoOne

VARIABLES
    holder,  \* whose the name is
    fate     \* "idle", "trying", "serving", "ended", "refused", "failed" or "crashed"
vars == <<holder, fate>>

Init == holder = NoOne /\ fate = [m \in Managers |-> "idle"]

Becomes(m, f) == fate' = [fate EXCEPT ![m] = f]

Try(m) == fate[m] = "idle" /\ Becomes(m, "trying") /\ UNCHANGED holder

Serve(m) == fate[m] = "trying" /\ holder = NoOne /\ holder' = m /\ Becomes(m, "serving")

Refuse(m) == fate[m] = "trying" /\ holder # NoOne /\ Becomes(m, "refused") /\ UNCHANGED holder

Fail(m) == fate[m] = "trying" /\ Becomes(m, "failed") /\ UNCHANGED holder

Release(m) == fate[m] = "serving" /\ holder = m /\ holder' = NoOne /\ Becomes(m, "ended")

Crash(m) == fate[m] \in {"trying", "serving"} /\ Becomes(m, "crashed") /\ UNCHANGED holder

Clear(m) == holder = m /\ fate[m] = "crashed" /\ holder' = NoOne /\ UNCHANGED fate

Step(m) ==
    Try(m) \/ Serve(m) \/ Refuse(m) \/ Fail(m) \/ Release(m) \/ Crash(m) \/ Clear(m)
Next == \E m \in Managers : Step(m)

\* A start comes to an end.
Decided(m) == fate[m] = "trying" ~> fate[m] # "trying"

Spec == Init /\ [][Next]_vars /\ \A m \in Managers : Decided(m)
=============================================================================

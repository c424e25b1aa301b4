----------------------------- MODULE Supervisor -----------------------------
(***************************************************************************)
(* What the manager promises of the modules it looks after, without        *)
(* signals, masks, process ids, pipes or polls: a module that crashes is   *)
(* taken up for recovery, a recovery brings it up again while it has       *)
(* failed fewer than MaxFail times and otherwise leaves it off, and the    *)
(* manager exits with every module down.  Manager is shown to implement    *)
(* this specification.                                                     *)
(***************************************************************************)
EXTENDS Naturals

CONSTANTS Mods, MaxFail

VARIABLES
    svc,    \* svc[m]: "down", "up", "crashed" or "recovering"
    fails,  \* fails[m]: attempts to recover m so far, num_fails
    life    \* "running", "exited" or "crashed": the supervisor itself
vars == <<svc, fails, life>>

Init ==
    /\ svc = [m \in Mods |-> "down"] /\ fails = [m \in Mods |-> 0]
    /\ life = "running"

Becomes(m, s) == svc' = [svc EXCEPT ![m] = s] /\ UNCHANGED <<fails, life>>

\* Somebody asked for m: at startup or by a command.
Launch(m) == svc[m] \in {"down", "crashed"} /\ Becomes(m, "up")

Stop(m) == svc[m] \in {"up", "crashed"} /\ Becomes(m, "down")

Crash(m) == svc[m] = "up" /\ Becomes(m, "crashed")

\* Only one module is recovered at a time.
Recover(m) ==
    /\ \A k \in Mods : svc[k] # "recovering"
    /\ Becomes(m, "recovering")

\* An attempt is counted first, then made; it may fail and be repeated.
Try(m) ==
    /\ svc[m] = "recovering" /\ fails[m] + 1 < MaxFail
    /\ fails' = [fails EXCEPT ![m] = @ + 1] /\ UNCHANGED <<svc, life>>

Revive(m) == svc[m] = "recovering" /\ fails[m] < MaxFail /\ Becomes(m, "up")

GiveUp(m) ==
    /\ svc[m] = "recovering" /\ fails[m] + 1 >= MaxFail
    /\ fails' = [fails EXCEPT ![m] = @ + 1]
    /\ svc' = [svc EXCEPT ![m] = "down"] /\ UNCHANGED life

\* An orderly end needs every module down; after any end nothing is looked after.
Exit ==
    /\ \A m \in Mods : svc[m] = "down"
    /\ life' = "exited" /\ UNCHANGED <<svc, fails>>

Abort ==
    /\ svc' = [m \in Mods |-> "down"] /\ life' = "crashed" /\ UNCHANGED fails

Step(m) == Launch(m) \/ Stop(m) \/ Crash(m) \/ Recover(m) \/ Try(m) \/ Revive(m) \/ GiveUp(m)
Next == life = "running" /\ (Exit \/ Abort \/ \E m \in Mods : Step(m))

Safety == Init /\ [][Next]_vars

\* A crash is answered and a recovery comes to an end.
Answered(m) == svc[m] = "crashed" ~> svc[m] # "crashed"
Recovered(m) == svc[m] = "recovering" ~> svc[m] # "recovering"

Spec == Safety /\ \A m \in Mods : Answered(m) /\ Recovered(m)
=============================================================================

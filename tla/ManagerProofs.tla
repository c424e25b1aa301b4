--------------------------- MODULE ManagerProofs ---------------------------
(***************************************************************************)
(* Proofs about Manager, for any number of modules, process ids, requests  *)
(* and any value of MAX_FAIL_FOR_STOP: first that the manager's records of *)
(* its children are right, then that it supervises them.                   *)
(***************************************************************************)
EXTENDS Manager, FiniteSetTheorems, TLAPS

USE DEF Goto

\* Inside do_module_exit and do_module_init there is a module to serve.
Leaf == {"exit", "kill", "unmask", "close", "attempt", "init", "fork", "record", "finish"}
QueueOK == pc \in Leaf => queue # <<>>

\* Requests carry lists of modules.
LEMMA RequestArgs ==
    ASSUME NEW r \in Requests, r.op \in ModOps
    PROVE  r.args \in Seq(Mods)
BY ListsAssumption DEF Requests, ModOps

LEMMA AllModsType == AllMods \in Seq(Mods)
BY NumModsAssumption DEF AllMods, Mods

\* The sets whose cardinality the code counts are finite.
LEMMA FiniteMods ==
    ASSUME NEW S, S \subseteq Mods
    PROVE  IsFiniteSet(S) /\ Cardinality(S) \in Nat
<1>1. IsFiniteSet(Mods)
    BY NumModsAssumption, FS_Interval DEF Mods
<1> QED
    BY <1>1, FS_Subset, FS_CardinalityType

\* The type invariant, made inductive by QueueOK.
TypeInv == TypeOK /\ QueueOK

LEMMA TypeInit == Init => TypeInv
<1> SUFFICES ASSUME Init
             PROVE  TypeInv
    OBVIOUS
<1>1. saved \in [{"leaf", "loop"} -> BOOLEAN] /\ needsRestart \in [Mods -> BOOLEAN]
      /\ pipefd \in [Mods -> BOOLEAN]
    BY DEF Init
<1>2. requestsLeft \in 0 .. MaxRequests
    BY MaxRequestsAssumption DEF Init
<1>3. pc \in Pcs /\ ctx \in Ctxs /\ queue \in Seq(Mods) /\ QueueOK
    BY ListsAssumption DEF Init, QueueOK, Leaf, Pcs, Ctxs, ModOps
<1>4. proc \in [Pids -> ProcStates] /\ pid \in [Mods -> Pids \union {NoPid}]
      /\ state \in [Mods -> {"OFF", "RUNNING", "DEAD", "EXITED"}]
      /\ numFails \in [Mods -> Nat]
    BY DEF Init, ProcStates
<1>5. batch \in Seq(Requests) /\ inbox \in Seq(Requests) /\ nslots \in Nat
      /\ polled \subseteq Mods /\ child \in Pids \union {NoPid}
    BY DEF Init
<1> QED
    BY <1>1, <1>2, <1>3, <1>4, <1>5 DEF Init, TypeInv, TypeOK

LEMMA CurType == TypeInv /\ pc \in Leaf => Cur \in Mods
BY DEF TypeInv, TypeOK, QueueOK, Cur

\* What the returns of a call leave of the queue.
LEMMA PopType ==
    ASSUME queue \in Seq(Mods), queue # <<>>, NextModule
    PROVE  queue' \in Seq(Mods) /\ pc' = "next"
BY DEF NextModule

LEMMA ExitReturnType ==
    ASSUME TypeInv, pc \in Leaf, ExitReturn
    PROVE  queue' \in Seq(Mods) /\ pc' \in Pcs /\ QueueOK'
<1>1. CASE NextModule
    <2>1. queue' \in Seq(Mods) /\ pc' = "next"
        BY <1>1, PopType DEF TypeInv, TypeOK, QueueOK
    <2> QED
        BY <2>1 DEF QueueOK, Leaf, Pcs
<1>2. CASE UNCHANGED queue /\ pc' \in {"attempt", "init"}
    BY <1>2 DEF TypeInv, TypeOK, QueueOK, Pcs
<1> QED
    BY <1>1, <1>2 DEF ExitReturn

LEMMA InitReturnType ==
    ASSUME TypeInv, pc \in Leaf, NEW ok \in BOOLEAN, InitReturn(ok)
    PROVE  /\ queue' \in Seq(Mods) /\ pc' \in Pcs /\ QueueOK'
           /\ needsRestart' \in [Mods -> BOOLEAN]
<1>1. CASE NextModule
    <2>1. queue' \in Seq(Mods) /\ pc' = "next"
        BY <1>1, PopType DEF TypeInv, TypeOK, QueueOK
    <2>2. needsRestart' \in [Mods -> BOOLEAN]
        BY <1>1 DEF TypeInv, TypeOK, InitReturn
    <2> QED
        BY <2>1, <2>2 DEF QueueOK, Leaf, Pcs
<1>2. CASE pc' = "exit" /\ UNCHANGED <<queue, needsRestart>>
    BY <1>2 DEF TypeInv, TypeOK, QueueOK, Pcs, Leaf
<1> QED
    BY <1>1, <1>2 DEF InitReturn

LEMMA TypeStep == TypeInv /\ [Next]_vars => TypeInv'
<1> SUFFICES ASSUME TypeInv, [Next]_vars
             PROVE  TypeInv'
    OBVIOUS
<1> USE DEF TypeInv, TypeOK, At, globals, modules, control, polling, masks, kernel, clients
<1>1. CASE CallStep
    BY <1>1 DEF CallStep, CallModule, StartupDone, CommandDone, ShutdownDone, PDeathSig,
                QueueOK, Leaf, Pcs, Ctxs, ModOps, ProcStates
<1>2. CASE RestartSkip \/ RestartAbort \/ RestartVisit \/ RestartDone
    <2>1. CASE RestartSkip
        <3>1. queue' \in Seq(Mods) /\ pc' \in Pcs /\ QueueOK'
            BY <2>1, PopType DEF RestartSkip, QueueOK, Leaf, Pcs
        <3>2. needsRestart' \in [Mods -> BOOLEAN]
            BY <2>1 DEF RestartSkip
        <3> QED
            BY <2>1, <3>1, <3>2, Zenon DEF RestartSkip
    <2>2. CASE RestartAbort \/ RestartVisit
        <3>1. queue' \in Seq(Mods) /\ pc' \in Pcs /\ QueueOK'
            <4>1. CASE RestartAbort
                <5>1. queue' = <<>> /\ pc' = pc /\ pc = "next"
                    BY <4>1, Zenon DEF RestartAbort
                <5> QED
                    BY <5>1 DEF QueueOK, Leaf
            <4>2. CASE RestartVisit
                <5>1. queue # <<>> /\ queue' = queue /\ pc' = "exit"
                    BY <4>2, Zenon DEF RestartVisit
                <5> QED
                    BY <5>1 DEF QueueOK, Pcs
            <4> QED
                BY <2>2, <4>1, <4>2
        <3> QED
            BY <2>2, <3>1, Zenon DEF RestartAbort, RestartVisit
    <2>3. CASE RestartDone
        BY <2>3 DEF RestartDone, IntrRestore, QueueOK, Leaf, Pcs
    <2> QED
        BY <1>2, <2>1, <2>2, <2>3
<1>3. CASE Attempt
    <2>1. queue' \in Seq(Mods) /\ pc' \in Pcs /\ QueueOK'
        BY <1>3, PopType DEF Attempt, QueueOK, Leaf, Pcs
    <2>2. numFails' \in [Mods -> Nat]
        <3>1. numFails[Cur] + 1 \in Nat
            BY <1>3, CurType DEF Attempt, Leaf
        <3> QED
            BY <1>3, <3>1 DEF Attempt
    <2>3. needsRestart' \in [Mods -> BOOLEAN]
        BY <1>3 DEF Attempt
    <2> QED
        BY <1>3, <2>1, <2>2, <2>3, Zenon DEF Attempt
<1>4. CASE ExitParked \/ ExitClose
    <2>1. queue' \in Seq(Mods) /\ pc' \in Pcs /\ QueueOK'
        BY <1>4, ExitReturnType DEF ExitParked, ExitClose, Leaf
    <2>2. /\ state' \in [Mods -> {"OFF", "RUNNING", "DEAD", "EXITED"}]
          /\ pipefd' \in [Mods -> BOOLEAN]
        BY <1>4 DEF ExitParked, ExitClose
    <2> QED
        BY <1>4, <2>1, <2>2, Zenon DEF ExitParked, ExitClose
<1>5. CASE ExitMask \/ ExitKill \/ ExitUnmask
    BY <1>5 DEF ExitMask, ExitKill, ExitUnmask, IntrSave, IntrRestore, Signal, Alive,
                ProcStates, QueueOK, Leaf, Pcs
<1>6. CASE InitRefused \/ InitFinish
    <2>1. /\ queue' \in Seq(Mods) /\ pc' \in Pcs /\ QueueOK'
          /\ needsRestart' \in [Mods -> BOOLEAN]
        BY <1>6, InitReturnType DEF InitRefused, InitFinish, Leaf
    <2> QED
        BY <1>6, <2>1, Zenon DEF InitRefused, InitFinish
<1>7. CASE InitForkFails
    <2>1. /\ queue' \in Seq(Mods) /\ pc' \in Pcs /\ QueueOK'
          /\ needsRestart' \in [Mods -> BOOLEAN]
        BY <1>7, InitReturnType DEF InitForkFails, Leaf
    <2>2. pipefd' \in [Mods -> BOOLEAN]
        BY <1>7 DEF InitForkFails
    <2>3. blocked' \in BOOLEAN /\ saved' \in [{"leaf", "loop"} -> BOOLEAN]
        BY <1>7 DEF InitForkFails, IntrRestore
    <2> QED
        BY <1>7, <2>1, <2>2, <2>3, Zenon DEF InitForkFails
<1>8. CASE InitPipe \/ InitRecord
    BY <1>8 DEF InitPipe, InitRecord, IntrSave, IntrRestore, QueueOK, Leaf, Pcs
<1>9. ASSUME NEW p \in Pids, InitFork(p)
      PROVE  TypeInv'
    BY <1>9 DEF InitFork, ProcStates, QueueOK, Leaf, Pcs
<1>10. CASE CountSlots
    BY <1>10, FiniteMods DEF CountSlots, HasPid, QueueOK, Leaf, Pcs
<1>11. CASE ServiceCommand
    BY <1>11, RequestArgs DEF ServiceCommand, QueueOK, Leaf, Pcs, Ctxs, ModOps
<1>12. CASE LoopLeave \/ CleanupDirt
    BY <1>12, AllModsType DEF LoopLeave, CleanupDirt, IntrSave, QueueOK, Leaf, Pcs, Ctxs
<1>13. CASE FillSlots \/ PollReturn \/ ModuleTalks
    <2>1. CASE FillSlots
        BY <2>1 DEF FillSlots, HasPipe, QueueOK, Leaf, Pcs
    <2>2. CASE PollReturn \/ ModuleTalks
        <3>1. ReturnFromPoll
            BY <2>2 DEF PollReturn, ModuleTalks
        <3>2. inbox' \in Seq(Requests) /\ pc' \in Pcs /\ QueueOK'
            BY <3>1 DEF ReturnFromPoll, QueueOK, Leaf, Pcs
        <3> QED
            BY <3>1, <3>2, Zenon DEF ReturnFromPoll
    <2> QED
        BY <1>13, <2>1, <2>2
<1>14. CASE LoopTest \/ NotDirty \/ EnterPoll \/ ServiceDone \/ ServiceStop \/ ServiceSession
    <2>1. pc' \in Pcs /\ QueueOK'
        BY <1>14 DEF LoopTest, NotDirty, EnterPoll, ServiceDone, ServiceStop, ServiceSession,
                     QueueOK, Leaf, Pcs
    <2>2. batch' \in Seq(Requests)
        <3>1. CASE ServiceStop \/ ServiceSession
            <4>1. batch # <<>> /\ batch' = Tail(batch)
                BY <3>1, Zenon DEF ServiceStop, ServiceSession
            <4> QED
                BY <4>1
        <3> QED
            BY <1>14, <3>1, Zenon DEF LoopTest, NotDirty, EnterPoll, ServiceDone
    <2> QED
        BY <1>14, <2>1, <2>2, Zenon
           DEF LoopTest, NotDirty, EnterPoll, ServiceDone, ServiceStop, ServiceSession
<1>15. CASE DeliverChld \/ DeliverTerm
    <2>1. pc' \in Pcs /\ QueueOK'
        BY <1>15 DEF DeliverChld, DeliverTerm, Interrupted, QueueOK, Leaf, Pcs
    <2>2. status' \in {"STARTING", "RUNNING", "STOPPED"}
        BY <1>15 DEF DeliverChld, DeliverTerm
    <2> QED
        BY <1>15, <2>1, <2>2, Zenon DEF DeliverChld, DeliverTerm
<1>16. ASSUME NEW p \in Pids, ReapChild(p)
       PROVE  TypeInv'
    BY <1>16 DEF ReapChild, ProcStates, QueueOK
<1>17. CASE ReturnFromChld \/ SigTerm
    BY <1>17, Zenon DEF ReturnFromChld, SigTerm, QueueOK
<1>18. CASE ClientRequest
    <2>1. requestsLeft' \in 0 .. MaxRequests
        BY <1>18, MaxRequestsAssumption DEF ClientRequest
    <2>2. inbox' \in Seq(Requests)
        BY <1>18 DEF ClientRequest
    <2> QED
        BY <1>18, <2>1, <2>2, Zenon DEF ClientRequest, QueueOK
<1>19. ASSUME NEW p \in Pids, ChildReady(p) \/ Die(p)
       PROVE  TypeInv'
    BY <1>19 DEF ChildReady, Die, ProcStates, Alive, QueueOK
<1>20. CASE Crash
    BY <1>20 DEF Crash, PDeathSig, ProcStates, QueueOK, Leaf, Pcs
<1>21. CASE UNCHANGED vars
    BY <1>21, Zenon DEF vars, QueueOK
<1> QED
    BY <1>1, <1>2, <1>3, <1>4, <1>5, <1>6, <1>7, <1>8, <1>9, <1>10, <1>11, <1>12, <1>13,
       <1>14, <1>15, <1>16, <1>17, <1>18, <1>19, <1>20, <1>21
       DEF Next, Thread, RestartStep, ExitStep, InitStep, LoopStep, Handler, Environment

\* Every variable stays in its range, whatever the constants.
THEOREM TypeCorrect == Spec => []TypeOK
<1>1. TypeInv => TypeOK
    BY DEF TypeInv
<1> QED
    BY <1>1, TypeInit, TypeStep, PTL DEF Spec

----------------------------------------------------------------------------
(***************************************************************************)
(* The masks.  While a leaf call works on a module's state and pid, and    *)
(* during the whole of a restart pass and of the shutdown, no handler      *)
(* runs.                                                                   *)
(***************************************************************************)
Masked == {"kill", "unmask", "fork", "record"}
Calling == Leaf \union {"next"}
MaskOK ==
    /\ pc \in Masked => blocked
    /\ (ctx \in {"restart_mods", "shutdown"} /\ pc \in Calling) =>
          blocked /\ (pc \in Masked => saved["leaf"])
    /\ inChld /\ ~Ended => ~blocked

\* Where the calls return to.
LEMMA ExitReturnPc ==
    ASSUME ExitReturn
    PROVE  pc' \in {"attempt", "init", "next"}
BY Zenon DEF ExitReturn, NextModule

LEMMA InitReturnPc ==
    ASSUME NEW ok \in BOOLEAN, InitReturn(ok)
    PROVE  pc' \in {"exit", "next"}
BY Zenon DEF InitReturn, NextModule

LEMMA MaskInit == Init => MaskOK
BY DEF Init, MaskOK, Masked, Calling, Leaf, Ended

LEMMA MaskStep == TypeInv /\ MaskOK /\ [Next]_vars => MaskOK'
<1> SUFFICES ASSUME TypeInv, MaskOK, [Next]_vars
             PROVE  MaskOK'
    OBVIOUS
<1> DEFINE Bits == blocked \in BOOLEAN /\ saved["leaf"] \in BOOLEAN
<1>0. Bits
    BY DEF TypeInv, TypeOK
<1>a. CASE UNCHANGED <<ctx, masks>> /\ ~inChld /\ UNCHANGED inChld /\ pc \in Calling
           /\ pc \notin Masked /\ pc' \in Calling \ Masked
    \* within a call, outside its masked section
    BY <1>a DEF MaskOK, masks, Masked
<1>b. CASE UNCHANGED <<masks, inChld>> /\ ~inChld /\ pc' \notin Calling
    \* the loop
    BY <1>b DEF MaskOK, masks, Masked, Calling, Leaf
<1>c. CASE UNCHANGED <<pc, ctx, masks, inChld>>
    \* nothing the masks depend on
    BY <1>c DEF MaskOK, masks, Ended
<1>1. CASE CallStep
    <2>1. CASE CallModule
        <3>1. pc = "next" /\ pc' \in {"init", "exit"}
            BY <2>1, Zenon DEF CallModule, At
        <3> QED
            BY <2>1, <3>1, <1>a DEF CallModule, At, kernel, Calling, Leaf, Masked
    <2>2. CASE StartupDone \/ CommandDone \/ ShutdownDone
        BY <2>2, <1>b DEF StartupDone, CommandDone, ShutdownDone, At, kernel, Calling, Leaf
    <2> QED
        BY <1>1, <2>1, <2>2 DEF CallStep
<1>2. CASE RestartStep
    <2>1. CASE RestartDone
        BY <2>1 DEF RestartDone, At, kernel, MaskOK, Masked, Calling, Leaf
    <2>2. CASE RestartSkip \/ RestartAbort \/ RestartVisit \/ Attempt
        <3>1. pc \in {"next", "attempt"} /\ pc' \in {"next", "exit", "init"}
            BY <2>2, Zenon DEF RestartSkip, RestartAbort, RestartVisit, Attempt, At, NextModule
        <3>2. UNCHANGED <<ctx, masks, inChld>> /\ ~inChld
            BY <2>2, Zenon DEF RestartSkip, RestartAbort, RestartVisit, Attempt, At, kernel
        <3> QED
            BY <3>1, <3>2, <1>a DEF Calling, Leaf, Masked
    <2> QED
        BY <1>2, <2>1, <2>2 DEF RestartStep
<1>3. CASE ExitStep
    <2>1. CASE ExitParked \/ ExitClose
        <3>1. pc \in {"exit", "close"} /\ pc' \in {"attempt", "init", "next"}
            BY <2>1, ExitReturnPc DEF ExitParked, ExitClose, At
        <3>2. UNCHANGED <<ctx, masks, inChld>> /\ ~inChld
            BY <2>1, Zenon DEF ExitParked, ExitClose, At, kernel
        <3> QED
            BY <3>1, <3>2, <1>a DEF Calling, Leaf, Masked
    <2>2. CASE ExitMask
        BY <1>0, <2>2 DEF ExitMask, IntrSave, At, kernel, TypeInv, TypeOK, MaskOK, Masked,
                    Calling, Leaf
    <2>3. CASE ExitKill
        BY <2>3 DEF ExitKill, At, masks, MaskOK, Masked, Calling, Leaf
    <2>4. CASE ExitUnmask
        BY <2>4 DEF ExitUnmask, IntrRestore, At, kernel, MaskOK, Masked, Calling, Leaf
    <2> QED
        BY <1>3, <2>1, <2>2, <2>3, <2>4 DEF ExitStep
<1>4. CASE InitStep
    <2>1. CASE InitRefused \/ InitFinish
        <3>1. pc \in {"init", "finish"} /\ pc' \in {"exit", "next"}
            BY <2>1, InitReturnPc DEF InitRefused, InitFinish, At
        <3>2. UNCHANGED <<ctx, masks, inChld>> /\ ~inChld
            BY <2>1, Zenon DEF InitRefused, InitFinish, At, kernel
        <3> QED
            BY <3>1, <3>2, <1>a DEF Calling, Leaf, Masked
    <2>2. CASE InitPipe
        BY <1>0, <2>2 DEF InitPipe, IntrSave, At, kernel, TypeInv, TypeOK, MaskOK, Masked,
                    Calling, Leaf
    <2>3. ASSUME NEW p \in Pids, InitFork(p)
          PROVE  MaskOK'
        BY <2>3 DEF InitFork, At, masks, MaskOK, Masked, Calling, Leaf
    <2>4. CASE InitForkFails
        <3>1. pc' \in {"exit", "next"}
            BY <2>4, InitReturnPc DEF InitForkFails
        <3>2. /\ ~inChld /\ inChld' = inChld /\ pc = "fork" /\ ctx' = ctx
              /\ blocked' = saved["leaf"] /\ saved' = saved
            BY <2>4, Zenon DEF InitForkFails, IntrRestore, At, kernel
        <3> QED
            BY <3>1, <3>2 DEF MaskOK, Masked, Calling, Leaf
    <2>5. CASE InitRecord
        BY <2>5 DEF InitRecord, IntrRestore, At, kernel, MaskOK, Masked, Calling, Leaf
    <2> QED
        BY <1>4, <2>1, <2>2, <2>3, <2>4, <2>5 DEF InitStep
<1>5. CASE LoopStep
    <2>1. CASE LoopLeave \/ CleanupDirt
        BY <2>1 DEF LoopLeave, CleanupDirt, IntrSave, At, kernel, MaskOK, Masked
    <2>2. CASE ServiceCommand
        BY <2>2 DEF ServiceCommand, At, kernel, masks, ModOps, MaskOK, Masked
    <2>3. CASE CountSlots \/ FillSlots \/ LoopTest \/ NotDirty \/ EnterPoll
        <3>1. pc' \in {"fill", "loop", "dirty", "toPoll", "inPoll"}
            BY <2>3, Zenon DEF CountSlots, FillSlots, LoopTest, NotDirty, EnterPoll
        <3>2. UNCHANGED <<masks, inChld>> /\ ~inChld
            BY <2>3, Zenon DEF CountSlots, FillSlots, LoopTest, NotDirty, EnterPoll, At, kernel
        <3> QED
            BY <3>1, <3>2, <1>b DEF Calling, Leaf
    <2>4. CASE PollReturn \/ ServiceDone
        <3>1. pc' \in {"service", "loop"}
            BY <2>4, Zenon DEF PollReturn, ReturnFromPoll, ServiceDone
        <3>2. UNCHANGED <<masks, inChld>> /\ ~inChld
            BY <2>4, Zenon DEF PollReturn, ReturnFromPoll, ServiceDone, At, kernel
        <3> QED
            BY <3>1, <3>2, <1>b DEF Calling, Leaf
    <2>5. CASE ServiceStop \/ ServiceSession
        BY <2>5, <1>c DEF ServiceStop, ServiceSession, control, kernel
    <2> QED
        BY <1>5, <2>1, <2>2, <2>3, <2>4, <2>5 DEF LoopStep
<1>6. CASE Handler
    <2>1. CASE DeliverChld
        <3>1. ~blocked /\ UNCHANGED <<ctx, masks>>
            BY <2>1, Zenon DEF DeliverChld
        <3>2. pc' = pc \/ pc' = "loop"
            BY <2>1 DEF DeliverChld, Interrupted
        <3> QED
            BY <3>1, <3>2 DEF masks, MaskOK, Masked, Calling, Leaf
    <2>2. CASE ReturnFromChld
        BY <2>2, Zenon DEF ReturnFromChld, control, masks, MaskOK, Ended
    <2>3. ASSUME NEW p \in Pids, ReapChild(p)
          PROVE  MaskOK'
        BY <2>3, <1>c, Zenon DEF ReapChild, control
    <2> QED
        BY <1>6, <2>1, <2>2, <2>3 DEF Handler
<1>7. CASE DeliverTerm
    <2>1. ~blocked /\ ~Ended /\ UNCHANGED <<ctx, masks, inChld>>
        BY <1>7, Zenon DEF DeliverTerm
    <2>2. pc' = pc \/ pc' = "loop"
        BY <1>7 DEF DeliverTerm, Interrupted
    <2> QED
        BY <2>1, <2>2 DEF masks, MaskOK, Masked, Calling, Leaf
<1>8. CASE Environment
    <2>1. CASE ModuleTalks
        BY <2>1, <1>b DEF ModuleTalks, ReturnFromPoll, At, kernel, Calling, Leaf
    <2>2. CASE ClientRequest \/ SigTerm
        BY <2>2, <1>c, Zenon DEF ClientRequest, SigTerm, control, kernel
    <2>3. CASE Crash
        BY <2>3 DEF Crash, masks, MaskOK, Masked, Calling, Leaf, Ended
    <2>4. ASSUME NEW p \in Pids, ChildReady(p) \/ Die(p)
          PROVE  MaskOK'
        BY <2>4, <1>c, Zenon DEF ChildReady, Die, control
    <2> QED
        BY <1>8, <2>1, <2>2, <2>3, <2>4 DEF Environment
<1>9. CASE UNCHANGED vars
    BY <1>9, <1>c DEF vars, masks
<1> QED
    BY <1>1, <1>2, <1>3, <1>4, <1>5, <1>6, <1>7, <1>8, <1>9 DEF Next, Thread

----------------------------------------------------------------------------
(***************************************************************************)
(* Who owns which child.  A module counts as running exactly while it has  *)
(* a pid, that pid is an unreaped child, and no two modules share one.     *)
(***************************************************************************)
OwnerOK ==
    /\ \A m \in Mods : state[m] = "RUNNING" => pid[m] \in Pids /\ proc[pid[m]] # "free"
    /\ \A m \in Mods : state[m] # "RUNNING" => pid[m] = NoPid
    /\ \A m, k \in Mods : pid[m] \in Pids /\ pid[k] = pid[m] => k = m

\* The sections under the mask: what do_module_exit has seen, and the child
\* do_module_init has yet to record.
SectionOK ==
    /\ pc = "kill" => state[Cur] = "RUNNING"
    /\ pc \in {"unmask", "close"} => state[Cur] = "DEAD"
    /\ pc \in {"fork", "record"} => state[Cur] # "RUNNING"
    /\ pc = "record" => /\ child \in Pids /\ proc[child] # "free"
                        /\ \A m \in Mods : pid[m] # child

SafeInv == TypeInv /\ MaskOK /\ OwnerOK /\ SectionOK /\ NoStrayChild /\ DeathsNotMissed

LEMMA SafeInit == Init => SafeInv
<1> SUFFICES ASSUME Init
             PROVE  SafeInv
    OBVIOUS
<1>1. OwnerOK /\ SectionOK
    BY PidsAssumption DEF Init, OwnerOK, SectionOK
<1>2. NoStrayChild /\ DeathsNotMissed
    BY DEF Init, NoStrayChild, DeathsNotMissed
<1> QED
    BY <1>1, <1>2, TypeInit, MaskInit DEF SafeInv

\* A step outside the sections that touches no module's state or pid and no
\* child keeps them all.
LEMMA QuietStep ==
    ASSUME SafeInv, UNCHANGED <<state, pid, proc>>,
           pc # "record", pc' \notin {"kill", "unmask", "close", "fork", "record"},
           UNCHANGED <<chldPending, inChld>>, ~Ended
    PROVE  OwnerOK' /\ SectionOK' /\ NoStrayChild' /\ DeathsNotMissed'
<1>1. OwnerOK'
    BY DEF SafeInv, OwnerOK
<1>2. SectionOK'
    BY DEF SectionOK
<1>3. NoStrayChild'
    BY DEF SafeInv, NoStrayChild
<1>4. DeathsNotMissed'
    BY DEF SafeInv, DeathsNotMissed
<1> QED
    BY <1>1, <1>2, <1>3, <1>4

\* So does one that leaves the thread where it is.
LEMMA StillStep ==
    ASSUME SafeInv, UNCHANGED <<state, pid, proc, control, chldPending, inChld>>
    PROVE  OwnerOK' /\ SectionOK' /\ NoStrayChild' /\ DeathsNotMissed'
<1>1. OwnerOK'
    BY DEF SafeInv, OwnerOK
<1>2. SectionOK'
    BY DEF SafeInv, SectionOK, control, Cur
<1>3. NoStrayChild'
    BY DEF SafeInv, NoStrayChild, control, Ended
<1>4. DeathsNotMissed'
    BY DEF SafeInv, DeathsNotMissed, control, Ended
<1> QED
    BY <1>1, <1>2, <1>3, <1>4

LEMMA ExitSafe ==
    ASSUME SafeInv, ExitStep
    PROVE  OwnerOK' /\ SectionOK' /\ NoStrayChild' /\ DeathsNotMissed'
<1>1. CASE ExitParked
    <2>1. pc = "exit" /\ pc' \in {"attempt", "init", "next"}
        BY <1>1, ExitReturnPc DEF ExitParked, At
    <2> QED
        BY <1>1, <2>1, QuietStep DEF ExitParked, modules, kernel, Ended
<1>2. CASE ExitMask
    <2>1. /\ pc = "exit" /\ UNCHANGED <<queue, modules, kernel>>
          /\ pc' = IF state[Cur] = "RUNNING" THEN "kill" ELSE "unmask"
          /\ state[Cur] \notin Parked
        BY <1>2, Zenon DEF ExitMask, At
    <2>2. state[Cur] \in {"RUNNING", "DEAD"}
        BY <2>1, CurType DEF SafeInv, TypeInv, TypeOK, Parked, Leaf
    <2>3. OwnerOK' /\ SectionOK'
        BY <2>1, <2>2 DEF SafeInv, OwnerOK, SectionOK, modules, kernel, Cur
    <2>4. NoStrayChild' /\ DeathsNotMissed'
        BY <2>1 DEF SafeInv, NoStrayChild, DeathsNotMissed, modules, kernel, Ended
    <2> QED
        BY <2>3, <2>4
<1>3. CASE ExitKill
    <2> DEFINE c == pid[Cur]
    <2>1. /\ pc = "kill" /\ Cur \in Mods /\ state[Cur] = "RUNNING"
          /\ c \in Pids /\ proc[c] # "free"
        BY <1>3, CurType DEF ExitKill, At, SafeInv, OwnerOK, SectionOK, Leaf
    <2>2. /\ proc' = Signal(c) /\ pc' = "unmask" /\ UNCHANGED <<chldPending, inChld>>
          /\ state' = [state EXCEPT ![Cur] = "DEAD"]
          /\ pid' = [pid EXCEPT ![Cur] = NoPid]
        BY <1>3, <2>1 DEF ExitKill
    <2>3. \A p \in Pids : /\ proc'[p] = "free" <=> proc[p] = "free"
                          /\ proc'[p] = "zombie" <=> proc[p] = "zombie"
                          /\ proc'[p] \in {"forked", "live"} =>
                                proc[p] \in {"forked", "live"} /\ p # c
        BY <2>2 DEF Signal, Alive, SafeInv, TypeInv, TypeOK
    <2>4. OwnerOK'
        BY <2>1, <2>2, <2>3, PidsAssumption DEF SafeInv, TypeInv, TypeOK, OwnerOK
    <2>5. SectionOK'
        <3>1. queue' = queue
            BY <1>3 DEF ExitKill
        <3> QED
            BY <2>1, <2>2, <3>1 DEF SafeInv, TypeInv, TypeOK, SectionOK, Cur
    <2>6. NoStrayChild'
        BY <2>1, <2>2, <2>3 DEF SafeInv, TypeInv, TypeOK, NoStrayChild, Ended
    <2>7. DeathsNotMissed'
        BY <2>1, <2>2, <2>3 DEF SafeInv, DeathsNotMissed, Ended
    <2> QED
        BY <2>4, <2>5, <2>6, <2>7
<1>4. CASE ExitUnmask
    <2>1. /\ pc = "unmask" /\ pc' = "close" /\ UNCHANGED <<queue, modules, kernel>>
        BY <1>4 DEF ExitUnmask, At
    <2>2. OwnerOK' /\ SectionOK'
        BY <2>1 DEF SafeInv, OwnerOK, SectionOK, modules, kernel, Cur
    <2>3. NoStrayChild' /\ DeathsNotMissed'
        BY <2>1 DEF SafeInv, NoStrayChild, DeathsNotMissed, modules, kernel, Ended
    <2> QED
        BY <2>2, <2>3
<1>5. CASE ExitClose
    <2>1. /\ pc = "close" /\ Cur \in Mods /\ UNCHANGED <<pid, kernel>>
          /\ state' = [state EXCEPT ![Cur] = "EXITED"] /\ state[Cur] = "DEAD"
          /\ pc' \in {"attempt", "init", "next"}
        BY <1>5, CurType, ExitReturnPc DEF ExitClose, At, SafeInv, SectionOK, Leaf
    <2>2. OwnerOK' /\ SectionOK'
        BY <2>1 DEF SafeInv, TypeInv, TypeOK, OwnerOK, SectionOK, kernel
    <2>3. NoStrayChild' /\ DeathsNotMissed'
        BY <2>1 DEF SafeInv, TypeInv, TypeOK, NoStrayChild, DeathsNotMissed, kernel, Ended
    <2> QED
        BY <2>2, <2>3
<1> QED
    BY <1>1, <1>2, <1>3, <1>4, <1>5 DEF ExitStep

LEMMA InitSafe ==
    ASSUME SafeInv, InitStep
    PROVE  OwnerOK' /\ SectionOK' /\ NoStrayChild' /\ DeathsNotMissed'
<1>1. CASE InitRefused \/ InitFinish
    <2>1. /\ pc \in {"init", "finish"} /\ pc' \in {"exit", "next"}
          /\ UNCHANGED <<state, pid, kernel>>
        BY <1>1, InitReturnPc DEF InitRefused, InitFinish, At
    <2> QED
        BY <2>1, QuietStep DEF kernel, Ended
<1>2. CASE InitPipe
    <2>1. /\ pc = "init" /\ pc' = "fork" /\ state[Cur] # "RUNNING"
          /\ UNCHANGED <<queue, state, pid, kernel>>
        BY <1>2, Zenon DEF InitPipe, At
    <2>2. OwnerOK' /\ SectionOK'
        BY <2>1 DEF SafeInv, OwnerOK, SectionOK, kernel, Cur
    <2>3. NoStrayChild' /\ DeathsNotMissed'
        BY <2>1 DEF SafeInv, NoStrayChild, DeathsNotMissed, kernel, Ended
    <2> QED
        BY <2>2, <2>3
<1>3. ASSUME NEW p \in Pids, InitFork(p)
      PROVE  OwnerOK' /\ SectionOK' /\ NoStrayChild' /\ DeathsNotMissed'
    <2>1. /\ pc = "fork" /\ pc' = "record" /\ proc[p] = "free" /\ child' = p
          /\ proc' = [proc EXCEPT ![p] = "forked"]
          /\ UNCHANGED <<queue, modules, chldPending, inChld>>
        BY <1>3, Zenon DEF InitFork, At
    <2>2. OwnerOK'
        BY <2>1 DEF SafeInv, TypeInv, TypeOK, OwnerOK, modules
    <2>3. \A m \in Mods : pid[m] # p
        BY <2>1, PidsAssumption DEF SafeInv, OwnerOK
    <2>4. SectionOK'
        BY <2>1, <2>3 DEF SafeInv, TypeInv, TypeOK, SectionOK, modules, Cur
    <2>5. NoStrayChild' /\ DeathsNotMissed'
        BY <2>1 DEF SafeInv, TypeInv, TypeOK, NoStrayChild, DeathsNotMissed, modules, Ended
    <2> QED
        BY <2>2, <2>4, <2>5
<1>4. CASE InitForkFails
    <2>1. /\ pc = "fork" /\ pc' \in {"exit", "next"} /\ UNCHANGED <<state, pid, kernel>>
        BY <1>4, InitReturnPc DEF InitForkFails, At
    <2> QED
        BY <2>1, QuietStep DEF kernel, Ended
<1>5. CASE InitRecord
    <2>1. /\ pc = "record" /\ pc' = "finish" /\ Cur \in Mods /\ state[Cur] # "RUNNING"
          /\ child \in Pids /\ proc[child] # "free" /\ \A m \in Mods : pid[m] # child
          /\ state' = [state EXCEPT ![Cur] = "RUNNING"]
          /\ pid' = [pid EXCEPT ![Cur] = child] /\ UNCHANGED kernel
        BY <1>5, CurType DEF InitRecord, At, SafeInv, SectionOK, Leaf
    <2>2. OwnerOK' /\ SectionOK'
        BY <2>1 DEF SafeInv, TypeInv, TypeOK, OwnerOK, SectionOK, kernel
    <2>3. NoStrayChild'
        BY <2>1 DEF SafeInv, TypeInv, TypeOK, NoStrayChild, kernel, Ended
    <2>4. DeathsNotMissed'
        BY <2>1 DEF SafeInv, DeathsNotMissed, kernel, Ended
    <2> QED
        BY <2>2, <2>3, <2>4
<1> QED
    BY <1>1, <1>2, <1>3, <1>4, <1>5 DEF InitStep

\* child_death_handler runs in no section, so it finds each module's pid and
\* state in step.
LEMMA HandlerSafe ==
    ASSUME SafeInv, Handler
    PROVE  OwnerOK' /\ SectionOK' /\ NoStrayChild' /\ DeathsNotMissed'
<1>1. CASE DeliverChld
    <2>1. /\ ~blocked /\ ~Ended /\ inChld' = TRUE /\ UNCHANGED <<queue, modules, proc>>
        BY <1>1, Zenon DEF DeliverChld
    <2>2. pc' = pc \/ pc' = "loop"
        BY <1>1 DEF DeliverChld, Interrupted
    <2>3. pc \notin Masked
        BY <2>1 DEF SafeInv, MaskOK
    <2>4. OwnerOK' /\ SectionOK'
        BY <2>1, <2>2, <2>3 DEF SafeInv, OwnerOK, SectionOK, modules, Cur, Masked
    <2>5. NoStrayChild' /\ DeathsNotMissed'
        BY <2>1, <2>2, <2>3 DEF SafeInv, NoStrayChild, DeathsNotMissed, modules, Ended, Masked
    <2> QED
        BY <2>4, <2>5
<1>2. ASSUME NEW p \in Pids, ReapChild(p)
      PROVE  OwnerOK' /\ SectionOK' /\ NoStrayChild' /\ DeathsNotMissed'
    <2> DEFINE died == {m \in Mods : pid[m] = p /\ state[m] = "RUNNING"}
    <2>1. /\ inChld /\ ~Ended /\ proc[p] = "zombie" /\ inChld' = inChld
          /\ proc' = [proc EXCEPT ![p] = "free"]
          /\ state' = [m \in Mods |-> IF m \in died THEN "DEAD" ELSE state[m]]
          /\ pid' = [m \in Mods |-> IF m \in died THEN NoPid ELSE pid[m]]
          /\ UNCHANGED control
        BY <1>2, Zenon DEF ReapChild
    <2>2. pc \notin Masked
        BY <2>1 DEF SafeInv, MaskOK
    <2>3. OwnerOK'
        BY <2>1, PidsAssumption DEF SafeInv, TypeInv, TypeOK, OwnerOK
    <2>4. SectionOK'
        <3>1. pc = "close" => Cur \in Mods
            BY CurType DEF SafeInv, Leaf
        <3> QED
            BY <2>1, <2>2, <3>1 DEF SafeInv, SectionOK, control, Cur, Masked
    <2>5. NoStrayChild'
        BY <2>1, <2>2 DEF SafeInv, TypeInv, TypeOK, NoStrayChild, control, Masked
    <2>6. DeathsNotMissed'
        BY <2>1 DEF SafeInv, DeathsNotMissed
    <2> QED
        BY <2>3, <2>4, <2>5, <2>6
<1>3. CASE ReturnFromChld
    <2>1. /\ UNCHANGED <<modules, control, proc>> /\ \A p \in Pids : proc[p] # "zombie"
        BY <1>3, Zenon DEF ReturnFromChld
    <2>2. OwnerOK' /\ SectionOK'
        BY <2>1 DEF SafeInv, OwnerOK, SectionOK, modules, control, Cur
    <2>3. NoStrayChild' /\ DeathsNotMissed'
        BY <2>1 DEF SafeInv, NoStrayChild, DeathsNotMissed, modules, control, Ended
    <2> QED
        BY <2>2, <2>3
<1> QED
    BY <1>1, <1>2, <1>3 DEF Handler

\* The loops around the calls touch no module's state or pid; ending the
\* manager signals its children.
LEMMA CallSafe ==
    ASSUME SafeInv, CallStep \/ RestartStep
    PROVE  OwnerOK' /\ SectionOK' /\ NoStrayChild' /\ DeathsNotMissed'
<1>1. CASE CallModule \/ StartupDone \/ CommandDone
    <2>1. pc = "next" /\ pc' \in {"init", "exit", "count", "service"}
        BY <1>1, Zenon DEF CallModule, StartupDone, CommandDone, At
    <2>2. UNCHANGED <<state, pid, proc, chldPending, inChld>>
        BY <1>1, Zenon DEF CallModule, StartupDone, CommandDone, modules, kernel
    <2> QED
        BY <2>1, <2>2, QuietStep DEF Ended
<1>2. CASE ShutdownDone
    <2>1. pc = "next" /\ pc' = "exited" /\ proc' = PDeathSig /\ UNCHANGED modules
        BY <1>2, Zenon DEF ShutdownDone, At
    <2>2. OwnerOK' /\ SectionOK'
        BY <2>1 DEF SafeInv, TypeInv, TypeOK, OwnerOK, SectionOK, PDeathSig, modules
    <2> QED
        BY <2>1, <2>2 DEF NoStrayChild, DeathsNotMissed, Ended
<1>3. CASE RestartStep
    <2>1. pc \in {"next", "attempt"} /\ pc' \in {"next", "exit", "init", "count"}
        BY <1>3, Zenon DEF RestartStep, RestartSkip, RestartAbort, RestartVisit, RestartDone,
                           Attempt, At, NextModule
    <2>2. UNCHANGED <<state, pid, proc, chldPending, inChld>>
        BY <1>3, Zenon DEF RestartStep, RestartSkip, RestartAbort, RestartVisit, RestartDone,
                           Attempt, modules, kernel
    <2> QED
        BY <2>1, <2>2, QuietStep DEF Ended
<1> QED
    BY <1>1, <1>2, <1>3 DEF CallStep

LEMMA LoopSafe ==
    ASSUME SafeInv, LoopStep \/ ModuleTalks
    PROVE  OwnerOK' /\ SectionOK' /\ NoStrayChild' /\ DeathsNotMissed'
<1>1. CASE CountSlots \/ FillSlots \/ LoopTest \/ LoopLeave \/ CleanupDirt \/ NotDirty
           \/ EnterPoll \/ PollReturn \/ ModuleTalks \/ ServiceDone \/ ServiceCommand
    <2>1. /\ pc \in {"count", "fill", "loop", "dirty", "toPoll", "inPoll", "service"}
          /\ pc' \in {"fill", "loop", "dirty", "next", "toPoll", "inPoll", "service"}
        BY <1>1, Zenon DEF CountSlots, FillSlots, LoopTest, LoopLeave, CleanupDirt, NotDirty,
            EnterPoll, PollReturn, ModuleTalks, ReturnFromPoll, ServiceDone, ServiceCommand, At
    <2>2. UNCHANGED <<state, pid, proc, chldPending, inChld>>
        BY <1>1, Zenon DEF CountSlots, FillSlots, LoopTest, LoopLeave, CleanupDirt, NotDirty,
            EnterPoll, PollReturn, ModuleTalks, ReturnFromPoll, ServiceDone, ServiceCommand,
            modules, kernel
    <2> QED
        BY <2>1, <2>2, QuietStep DEF Ended
<1>2. CASE ServiceStop \/ ServiceSession
    <2>1. UNCHANGED <<state, pid, proc, control, chldPending, inChld>>
        BY <1>2, Zenon DEF ServiceStop, ServiceSession, modules, kernel
    <2> QED
        BY <2>1, StillStep
<1> QED
    BY <1>1, <1>2 DEF LoopStep

LEMMA EnvironmentSafe ==
    ASSUME SafeInv, DeliverTerm \/ (Environment /\ ~ModuleTalks)
    PROVE  OwnerOK' /\ SectionOK' /\ NoStrayChild' /\ DeathsNotMissed'
<1>1. CASE DeliverTerm
    <2>1. /\ ~blocked /\ ~Ended
          /\ UNCHANGED <<queue, child, modules, proc, chldPending, inChld>>
        BY <1>1, Zenon DEF DeliverTerm
    <2>2. pc' = pc \/ (pc = "inPoll" /\ pc' = "loop")
        BY <1>1 DEF DeliverTerm, Interrupted
    <2>3. pc \notin Masked
        BY <1>1, <2>1 DEF SafeInv, MaskOK
    <2>4. OwnerOK' /\ SectionOK'
        BY <2>1, <2>2, <2>3 DEF SafeInv, OwnerOK, SectionOK, modules, Cur, Masked
    <2>5. NoStrayChild' /\ DeathsNotMissed'
        BY <2>1, <2>2, <2>3 DEF SafeInv, NoStrayChild, DeathsNotMissed, modules, Ended, Masked
    <2> QED
        BY <2>4, <2>5
<1>2. CASE ClientRequest \/ SigTerm
    <2>1. UNCHANGED <<state, pid, proc, control, chldPending, inChld>>
        BY <1>2, Zenon DEF ClientRequest, SigTerm, modules, kernel
    <2> QED
        BY <2>1, StillStep
<1>3. CASE Crash
    <2>1. pc' = "crashed" /\ proc' = PDeathSig /\ UNCHANGED modules
        BY <1>3, Zenon DEF Crash
    <2>2. OwnerOK' /\ SectionOK'
        BY <2>1 DEF SafeInv, TypeInv, TypeOK, OwnerOK, SectionOK, PDeathSig, modules
    <2> QED
        BY <2>1, <2>2 DEF NoStrayChild, DeathsNotMissed, Ended
<1>4. ASSUME NEW p \in Pids, ChildReady(p) \/ Die(p)
      PROVE  OwnerOK' /\ SectionOK' /\ NoStrayChild' /\ DeathsNotMissed'
    <2>1. /\ proc[p] \in Alive /\ UNCHANGED <<modules, control, inChld>>
          /\ \/ proc[p] = "forked" /\ proc' = [proc EXCEPT ![p] = "live"]
                /\ UNCHANGED chldPending
             \/ proc' = [proc EXCEPT ![p] = "zombie"] /\ chldPending' = TRUE
        BY <1>4 DEF ChildReady, Die, Alive
    <2>2. OwnerOK' /\ SectionOK'
        BY <2>1 DEF SafeInv, TypeInv, TypeOK, OwnerOK, SectionOK, modules, control, Cur, Alive
    <2>3. NoStrayChild'
        BY <2>1 DEF SafeInv, TypeInv, TypeOK, NoStrayChild, modules, control, Alive, Ended
    <2>4. DeathsNotMissed'
        BY <2>1 DEF SafeInv, TypeInv, TypeOK, DeathsNotMissed, control, Ended
    <2> QED
        BY <2>2, <2>3, <2>4
<1> QED
    BY <1>1, <1>2, <1>3, <1>4 DEF Environment

LEMMA SafeStep == SafeInv /\ [Next]_vars => SafeInv'
<1> SUFFICES ASSUME SafeInv, [Next]_vars
             PROVE  SafeInv'
    OBVIOUS
<1>1. TypeInv' /\ MaskOK'
    BY TypeStep, MaskStep DEF SafeInv
<1>2. OwnerOK' /\ SectionOK' /\ NoStrayChild' /\ DeathsNotMissed'
    <2>1. CASE UNCHANGED vars
        BY <2>1, StillStep, Zenon DEF vars, control
    <2> QED
        BY <2>1, ExitSafe, InitSafe, HandlerSafe, CallSafe, LoopSafe, EnvironmentSafe
           DEF Next, Thread, Environment
<1> QED
    BY <1>1, <1>2 DEF SafeInv

\* The pid of a running module names an unreaped child of its own.
THEOREM PidsAreOurs == Spec => []RunningIsOurs
<1>1. SafeInv => RunningIsOurs
    BY DEF SafeInv, OwnerOK, RunningIsOurs
<1> QED
    BY <1>1, SafeInit, SafeStep, PTL DEF Spec

\* do_module_exit never signals -1 or a pid that was given back.
THEOREM NoForeignKill == Spec => []KillsOwnChild
<1>1. SafeInv => KillsOwnChild
    BY CurType DEF SafeInv, OwnerOK, SectionOK, KillsOwnChild, Leaf
<1> QED
    BY <1>1, SafeInit, SafeStep, PTL DEF Spec

\* No module process runs that no module owns.
THEOREM NoModuleAstray == Spec => []NoStrayChild
<1>1. SafeInv => NoStrayChild
    BY DEF SafeInv
<1> QED
    BY <1>1, SafeInit, SafeStep, PTL DEF Spec

\* No death is missed, though SIGCHLDs coalesce.
THEOREM NoDeathMissed == Spec => []DeathsNotMissed
<1>1. SafeInv => DeathsNotMissed
    BY DEF SafeInv
<1> QED
    BY <1>1, SafeInit, SafeStep, PTL DEF Spec

----------------------------------------------------------------------------
(***************************************************************************)
(* Manager as a supervisor: no death is left unhandled, a shutdown leaves  *)
(* no module, and every step of the manager is one of Supervisor or one    *)
(* that Supervisor does not see.                                           *)
(***************************************************************************)
\* A restart pass works on its queue with the signals blocked.
Passing == ctx = "restart_mods" /\ pc \in Calling
InQueue(m) == \E i \in DOMAIN queue : queue[i] = m

\* main() sets RUNNING when the startup is done.
StatusOK == status = "STARTING" => ctx = "startup" /\ (pc \in Calling \/ Ended)

\* Attempts are a pass's.  In a pass the module that is served has been
\* exited, and has attempts left once one is made.
PassOK ==
    /\ pc = "attempt" => ctx = "restart_mods"
    /\ ctx = "restart_mods" =>
          /\ pc \in {"attempt", "init", "fork", "record"} => state[Cur] \in Parked
          /\ pc \in {"init", "fork", "record"} => numFails[Cur] < MaxFail
          /\ pc = "finish" => state[Cur] = "RUNNING"

\* The marks of a dead module: in a pass it is still to come, otherwise a pass
\* is; only a stop, once the startup is over, may pass over it.
Marked(m) == needsRestart[m] /\ IF Passing THEN InQueue(m) ELSE modsDirty
DeadOK ==
    \A m \in Mods : state[m] = "DEAD" =>
        Marked(m) \/ BeingExited(m) \/ (status = "STOPPED" /\ ctx # "startup") \/ Ended

\* A shutdown only exits, and what it has not exited is still in its queue.
ShutdownOK ==
    ctx = "shutdown" =>
        /\ pc \in {"next", "exit", "kill", "unmask", "close"} \/ Ended
        /\ status = "STOPPED"
        /\ \A m \in Mods : state[m] \notin Parked => InQueue(m) \/ Ended

RecoveryInv == SafeInv /\ StatusOK /\ PassOK /\ DeadOK /\ ShutdownOK

LEMMA RecoveryInit == Init => RecoveryInv
BY SafeInit DEF Init, RecoveryInv, StatusOK, PassOK, DeadOK, ShutdownOK, Calling, Leaf

\* The module that was served leaves the queue, the others stay.
LEMMA PopKeeps ==
    ASSUME NEW q \in Seq(Mods), q # <<>>, NEW m, m # Head(q),
           NEW i \in DOMAIN q, q[i] = m
    PROVE  \E j \in DOMAIN Tail(q) : Tail(q)[j] = m
<1>1. i \in 1 .. Len(q) /\ i # 1
    OBVIOUS
<1>2. i - 1 \in DOMAIN Tail(q) /\ Tail(q)[i - 1] = m
    BY <1>1
<1> QED
    BY <1>2

LEMMA StatusStep == RecoveryInv /\ [Next]_vars => StatusOK'
<1> SUFFICES ASSUME RecoveryInv, [Next]_vars
             PROVE  StatusOK'
    OBVIOUS
<1>0. StatusOK
    BY DEF RecoveryInv
<1>a. CASE UNCHANGED <<status, ctx>> /\ pc \in Calling /\ pc' \in Calling
    BY <1>0, <1>a DEF StatusOK
<1>b. CASE UNCHANGED <<pc, ctx>> /\ (status' = status \/ status' = "STOPPED")
    BY <1>0, <1>b DEF StatusOK, Ended
<1>c. CASE ~Ended /\ pc \notin Calling /\ (status' = status \/ status' = "STOPPED")
    BY <1>0, <1>c DEF StatusOK
<1>1. CASE CallStep
    <2>1. CASE CallModule
        <3>1. UNCHANGED <<status, ctx>> /\ pc = "next" /\ pc' \in {"init", "exit"}
            BY <2>1, Zenon DEF CallModule, At, globals
        <3> QED
            BY <3>1, <1>a DEF Calling, Leaf
    <2>2. CASE StartupDone
        BY <2>2 DEF StartupDone, StatusOK
    <2>3. CASE CommandDone \/ ShutdownDone
        <3>1. ctx # "startup" /\ UNCHANGED <<status, ctx>>
            BY <2>3 DEF CommandDone, ShutdownDone, ModOps, globals
        <3> QED
            BY <3>1, <1>0 DEF StatusOK
    <2> QED
        BY <1>1, <2>1, <2>2, <2>3 DEF CallStep
<1>2. CASE RestartStep
    <2>1. CASE RestartDone
        <3>1. ctx = "restart_mods" /\ UNCHANGED <<status, ctx>>
            BY <2>1, Zenon DEF RestartDone
        <3> QED
            BY <3>1, <1>0 DEF StatusOK
    <2>2. CASE ~RestartDone
        <3>1. pc \in {"next", "attempt"} /\ pc' \in {"next", "exit", "init"}
            BY <1>2, <2>2, Zenon DEF RestartStep, RestartSkip, RestartAbort, RestartVisit,
                Attempt, At, NextModule
        <3>2. UNCHANGED <<status, ctx>>
            BY <1>2, <2>2, Zenon DEF RestartStep, RestartSkip, RestartAbort, RestartVisit,
                Attempt, globals
        <3> QED
            BY <3>1, <3>2, <1>a DEF Calling, Leaf
    <2> QED
        BY <2>1, <2>2
<1>3. CASE ExitStep
    <2>1. /\ pc \in {"exit", "kill", "unmask", "close"}
          /\ pc' \in {"kill", "unmask", "close", "attempt", "init", "next"}
        BY <1>3, ExitReturnPc DEF ExitStep, ExitParked, ExitMask, ExitKill, ExitUnmask,
            ExitClose, At
    <2>2. UNCHANGED <<status, ctx>>
        BY <1>3, Zenon DEF ExitStep, ExitParked, ExitMask, ExitKill, ExitUnmask, ExitClose,
            globals
    <2> QED
        BY <2>1, <2>2, <1>a DEF Calling, Leaf
<1>4. CASE InitStep
    <2>1. /\ pc \in {"init", "fork", "record", "finish"}
          /\ pc' \in {"fork", "record", "finish", "exit", "next"}
        BY <1>4, InitReturnPc DEF InitStep, InitRefused, InitPipe, InitForkFails, InitRecord,
            InitFinish, InitFork, At
    <2>2. UNCHANGED <<status, ctx>>
        BY <1>4, Zenon DEF InitStep, InitRefused, InitPipe, InitForkFails, InitRecord,
            InitFinish, InitFork, globals
    <2> QED
        BY <2>1, <2>2, <1>a DEF Calling, Leaf
<1>5. CASE LoopStep \/ ModuleTalks
    <2>1. pc \in {"count", "fill", "loop", "dirty", "toPoll", "inPoll", "service"}
        BY <1>5, Zenon DEF LoopStep, CountSlots, FillSlots, LoopTest, LoopLeave, CleanupDirt,
            NotDirty, EnterPoll, PollReturn, ServiceDone, ServiceStop, ServiceSession,
            ServiceCommand, ModuleTalks, At
    <2>2. status' = status \/ status' = "STOPPED"
        BY <1>5, Zenon DEF LoopStep, CountSlots, FillSlots, LoopTest, LoopLeave, CleanupDirt,
            NotDirty, EnterPoll, PollReturn, ServiceDone, ServiceStop, ServiceSession,
            ServiceCommand, ModuleTalks, ReturnFromPoll, globals
    <2> QED
        BY <2>1, <2>2, <1>c DEF Calling, Leaf, Ended
<1>6. CASE DeliverChld \/ DeliverTerm
    BY <1>0, <1>6 DEF StatusOK, DeliverChld, DeliverTerm, Interrupted, globals, Calling, Leaf
<1>7. CASE Handler \/ (Environment /\ ~ModuleTalks /\ ~Crash)
    <2>1. CASE DeliverChld
        BY <2>1, <1>6
    <2>2. CASE ~DeliverChld
        BY <1>7, <2>2, <1>b, Zenon DEF Handler, ReapChild, ReturnFromChld, Environment,
            ClientRequest, SigTerm, ChildReady, Die, globals, control
    <2> QED
        BY <2>1, <2>2
<1>8. CASE Crash
    BY <1>0, <1>8 DEF StatusOK, Crash, globals, Ended
<1>9. CASE UNCHANGED vars
    BY <1>9, <1>b DEF vars
<1> QED
    BY <1>1, <1>2, <1>3, <1>4, <1>5, <1>6, <1>7, <1>8, <1>9 DEF Next, Thread, Environment

\* No handler runs in a pass or in the shutdown.
LEMMA NoHandler ==
    ASSUME SafeInv, ctx \in {"restart_mods", "shutdown"}, pc \in Calling,
           NEW p \in Pids, ReapChild(p)
    PROVE  FALSE
BY Zenon DEF SafeInv, MaskOK, ReapChild, Calling, Leaf

LEMMA PassStep == RecoveryInv /\ [Next]_vars => PassOK'
<1> SUFFICES ASSUME RecoveryInv, [Next]_vars
             PROVE  PassOK'
    OBVIOUS
<1>0. PassOK /\ SafeInv /\ TypeInv
    BY DEF RecoveryInv, SafeInv
<1> DEFINE Work == {"attempt", "init", "fork", "record", "finish"}
<1>a. CASE pc' \notin Work
    \* outside the work of a pass
    BY <1>a DEF PassOK
<1>b. CASE UNCHANGED <<pc, ctx, queue, state, numFails>>
    BY <1>0, <1>b DEF PassOK, Cur
<1>c. CASE ctx' # "restart_mods" /\ pc' # "attempt"
    BY <1>c DEF PassOK
<1>1. CASE CallStep
    <2>1. CASE CallModule
        <3>1. ctx' # "restart_mods" /\ pc' # "attempt"
            BY <2>1 DEF CallModule
        <3> QED
            BY <3>1, <1>c
    <2>2. CASE ~CallModule
        BY <1>1, <2>2, <1>a DEF CallStep, StartupDone, CommandDone, ShutdownDone
    <2> QED
        BY <2>1, <2>2
<1>2. CASE RestartStep
    <2>1. CASE Attempt
        <3>1. CASE pc' = "next"
            BY <3>1, <1>a
        <3>2. CASE pc' # "next"
            <4>1. /\ pc = "attempt" /\ pc' = "init" /\ UNCHANGED <<ctx, queue, state>>
                  /\ numFails[Cur] + 1 < MaxFail
                  /\ numFails' = [numFails EXCEPT ![Cur] = @ + 1]
                BY <2>1, <3>2 DEF Attempt, At, NextModule
            <4>2. numFails'[Cur] = numFails[Cur] + 1
                BY <4>1, <1>0, CurType DEF TypeInv, TypeOK, Leaf
            <4> QED
                BY <4>1, <4>2, <1>0 DEF PassOK, Cur
        <3> QED
            BY <3>1, <3>2
    <2>2. CASE ~Attempt
        <3>1. pc' \in {"next", "exit", "count"}
            BY <1>2, <2>2 DEF RestartStep, RestartSkip, RestartAbort, RestartVisit, RestartDone,
                At, NextModule
        <3> QED
            BY <3>1, <1>a
    <2> QED
        BY <2>1, <2>2
<1>3. CASE ExitStep
    <2>1. CASE ExitParked
        <3>1. state[Cur] \in Parked /\ UNCHANGED <<ctx, state>> /\ ExitReturn
            BY <2>1, Zenon DEF ExitParked, modules
        <3>2. ctx = "restart_mods" => pc' = "attempt" /\ queue' = queue
            BY <3>1, Zenon DEF ExitReturn
        <3>3. ctx # "restart_mods" => pc' # "attempt"
            BY <3>1 DEF ExitReturn, NextModule
        <3> QED
            BY <3>1, <3>2, <3>3 DEF PassOK, Cur
    <2>2. CASE ExitClose
        <3>1. /\ pc = "close" /\ UNCHANGED ctx /\ ExitReturn
              /\ state' = [state EXCEPT ![Cur] = "EXITED"]
            BY <2>2, Zenon DEF ExitClose, At
        <3>2. state'[Cur] = "EXITED"
            BY <3>1, <1>0, CurType DEF TypeInv, TypeOK, Leaf
        <3>3. ctx = "restart_mods" => pc' = "attempt" /\ queue' = queue
            BY <3>1, Zenon DEF ExitReturn
        <3>4. ctx # "restart_mods" => pc' # "attempt"
            BY <3>1 DEF ExitReturn, NextModule
        <3> QED
            BY <3>1, <3>2, <3>3, <3>4 DEF PassOK, Cur, Parked
    <2>3. CASE ExitMask \/ ExitKill \/ ExitUnmask
        <3>1. pc' \in {"kill", "unmask", "close"}
            BY <2>3 DEF ExitMask, ExitKill, ExitUnmask
        <3> QED
            BY <3>1, <1>a
    <2> QED
        BY <1>3, <2>1, <2>2, <2>3 DEF ExitStep
<1>4. CASE InitStep
    <2>1. CASE InitRefused \/ InitForkFails \/ InitFinish
        <3>1. pc' \in {"exit", "next"}
            BY <2>1, InitReturnPc DEF InitRefused, InitForkFails, InitFinish
        <3> QED
            BY <3>1, <1>a
    <2>2. CASE InitPipe \/ \E p \in Pids : InitFork(p)
        <3>1. /\ pc \in {"init", "fork"} /\ pc' \in {"fork", "record"}
              /\ UNCHANGED <<ctx, queue, state, numFails>>
            BY <2>2, Zenon DEF InitPipe, InitFork, At, modules
        <3> QED
            BY <3>1, <1>0 DEF PassOK, Cur
    <2>3. CASE InitRecord
        <3>1. /\ pc = "record" /\ pc' = "finish" /\ UNCHANGED queue
              /\ state' = [state EXCEPT ![Cur] = "RUNNING"]
            BY <2>3, Zenon DEF InitRecord, At
        <3>2. state'[Cur] = "RUNNING"
            BY <3>1, <1>0, CurType DEF TypeInv, TypeOK, Leaf
        <3> QED
            BY <3>1, <3>2 DEF PassOK, Cur
    <2> QED
        BY <1>4, <2>1, <2>2, <2>3 DEF InitStep
<1>5. CASE LoopStep \/ ModuleTalks
    <2>1. pc' \notin Work
        <3>1. pc' \in {"fill", "loop", "dirty", "next", "toPoll", "inPoll", "service"}
            BY <1>5, Zenon DEF LoopStep, CountSlots, FillSlots, LoopTest, LoopLeave,
                CleanupDirt, NotDirty, EnterPoll, PollReturn, ServiceDone, ServiceStop,
                ServiceSession, ServiceCommand, ModuleTalks, ReturnFromPoll, At, control
        <3> QED
            BY <3>1
    <2> QED
        BY <2>1, <1>a
<1>6. ASSUME NEW p \in Pids, ReapChild(p)
      PROVE  PassOK'
    <2>1. UNCHANGED control
        BY <1>6, Zenon DEF ReapChild
    <2>2. ctx = "restart_mods" => pc \notin Work
        BY <1>0, <1>6, NoHandler DEF Calling, Leaf
    <2> QED
        BY <2>1, <2>2, <1>0 DEF PassOK, control
<1>7. CASE DeliverChld \/ DeliverTerm
    <2>1. CASE pc = "inPoll"
        BY <1>7, <2>1, <1>a DEF DeliverChld, DeliverTerm, Interrupted
    <2>2. CASE pc # "inPoll"
        BY <1>7, <2>2, <1>b DEF DeliverChld, DeliverTerm, Interrupted, modules
    <2> QED
        BY <2>1, <2>2
<1>8. CASE ReturnFromChld \/ (Environment /\ ~ModuleTalks /\ ~Crash)
    BY <1>8, <1>b, Zenon DEF ReturnFromChld, Environment, ClientRequest, SigTerm, ChildReady,
        Die, modules, control
<1>9. CASE Crash
    BY <1>9, <1>a DEF Crash
<1>10. CASE UNCHANGED vars
    BY <1>10, <1>b, Zenon DEF vars
<1> QED
    BY <1>1, <1>2, <1>3, <1>4, <1>5, <1>6, <1>7, <1>8, <1>9, <1>10
       DEF Next, Thread, Handler, Environment

LEMMA ShutdownStep == RecoveryInv /\ [Next]_vars => ShutdownOK'
<1> SUFFICES ASSUME RecoveryInv, [Next]_vars
             PROVE  ShutdownOK'
    OBVIOUS
<1>0. ShutdownOK /\ PassOK /\ SafeInv /\ TypeInv
    BY DEF RecoveryInv, SafeInv
<1> DEFINE Exits == {"next", "exit", "kill", "unmask", "close"}
<1>a. CASE ctx' # "shutdown"
    BY <1>a DEF ShutdownOK
<1>b. CASE /\ UNCHANGED <<ctx, queue, state>> /\ (Ended => Ended')
           /\ status' = status \/ status' = "STOPPED"
           /\ pc' \in Exits \/ pc' = pc \/ Ended'
    \* a step that takes nothing from the queue
    BY <1>0, <1>b DEF ShutdownOK, InQueue, Ended
<1>c. CASE /\ ctx = "shutdown" /\ UNCHANGED <<ctx, status>> /\ pc \in Leaf /\ pc' = "next"
           /\ NextModule
           /\ state'[Cur] \in Parked /\ \A m \in Mods \ {Cur} : state'[m] = state[m]
    \* one that takes a module that has been exited
    <2>1. queue \in Seq(Mods) /\ queue # <<>> /\ queue' = Tail(queue)
        BY <1>c, <1>0 DEF NextModule, TypeInv, TypeOK, QueueOK
    <2>2. ASSUME NEW m \in Mods, state'[m] \notin Parked
          PROVE  InQueue(m)'
        <3>1. m # Cur /\ state[m] \notin Parked
            BY <1>c, <2>2
        <3>2. ~Ended
            BY <1>c DEF Ended, Leaf
        <3>3. PICK i \in DOMAIN queue : queue[i] = m
            BY <1>c, <1>0, <3>1, <3>2 DEF ShutdownOK, InQueue
        <3> QED
            BY <2>1, <3>1, <3>3, PopKeeps DEF InQueue, Cur
    <2> QED
        BY <1>c, <2>2, <1>0 DEF ShutdownOK
<1>1. CASE CallStep
    <2>1. CASE CallModule
        <3>1. /\ pc = "next" /\ UNCHANGED <<ctx, queue, state, status>>
              /\ ctx = "shutdown" => pc' = "exit"
            BY <2>1 DEF CallModule, At, globals, modules
        <3> QED
            BY <3>1, <1>a, <1>b DEF Ended
    <2>2. CASE StartupDone \/ CommandDone
        BY <2>2, <1>a DEF StartupDone, CommandDone, ModOps
    <2>3. CASE ShutdownDone
        BY <2>3, <1>b DEF ShutdownDone, globals, modules, Ended
    <2> QED
        BY <1>1, <2>1, <2>2, <2>3 DEF CallStep
<1>2. CASE RestartStep
    <2>1. ctx = "restart_mods" /\ ctx' = ctx
        BY <1>0, <1>2 DEF RestartStep, RestartSkip, RestartAbort, RestartVisit, RestartDone,
            Attempt, At, PassOK
    <2> QED
        BY <2>1, <1>a
<1>3. CASE ExitStep
    <2>1. CASE ExitParked
        <3>1. /\ pc = "exit" /\ state[Cur] \in Parked /\ ExitReturn
              /\ UNCHANGED <<ctx, state, status>>
            BY <2>1, Zenon DEF ExitParked, At, modules, globals
        <3>2. ctx = "shutdown" => NextModule
            BY <3>1 DEF ExitReturn
        <3> QED
            BY <3>1, <3>2, <1>a, <1>c DEF Leaf, NextModule
    <2>2. CASE ExitClose
        <3>1. /\ pc = "close" /\ ExitReturn /\ UNCHANGED <<ctx, status>>
              /\ state' = [state EXCEPT ![Cur] = "EXITED"]
            BY <2>2, Zenon DEF ExitClose, At, globals
        <3>2. ctx = "shutdown" => NextModule
            BY <3>1 DEF ExitReturn
        <3>3. state'[Cur] = "EXITED" /\ \A m \in Mods \ {Cur} : state'[m] = state[m]
            BY <3>1, <1>0, CurType DEF TypeInv, TypeOK, Leaf
        <3> QED
            BY <3>1, <3>2, <3>3, <1>a, <1>c DEF Leaf, NextModule, Parked
    <2>3. CASE ExitMask \/ ExitUnmask
        <3>1. /\ pc \in Exits /\ pc' \in Exits /\ UNCHANGED <<ctx, queue, state, status>>
            BY <2>3 DEF ExitMask, ExitUnmask, At, modules, globals
        <3> QED
            BY <3>1, <1>b DEF Ended
    <2>4. CASE ExitKill
        <3>1. /\ pc = "kill" /\ pc' = "unmask" /\ UNCHANGED <<ctx, queue, status>>
              /\ state' = [state EXCEPT ![Cur] = "DEAD"]
            BY <2>4, Zenon DEF ExitKill, At, globals
        <3>2. state[Cur] = "RUNNING" /\ Cur \in Mods
            BY <3>1, <1>0, CurType DEF SafeInv, SectionOK, Leaf
        <3>3. \A m \in Mods : state'[m] \notin Parked => state[m] \notin Parked
            BY <3>1, <3>2, <1>0 DEF TypeInv, TypeOK, Parked
        <3> QED
            BY <3>1, <3>3, <1>0 DEF ShutdownOK, InQueue, Ended
    <2> QED
        BY <1>3, <2>1, <2>2, <2>3, <2>4 DEF ExitStep
<1>4. CASE InitStep
    <2>1. pc \in {"init", "fork", "record", "finish"} /\ UNCHANGED ctx
        BY <1>4, Zenon DEF InitStep, InitRefused, InitPipe, InitForkFails, InitRecord,
            InitFinish, InitFork, At
    <2>2. ctx # "shutdown"
        BY <2>1, <1>0 DEF ShutdownOK, Ended
    <2> QED
        BY <2>1, <2>2, <1>a
<1>5. CASE LoopStep \/ ModuleTalks
    <2>1. CASE LoopLeave
        <3>1. /\ ctx' = "shutdown" /\ pc' = "next" /\ status' = "STOPPED"
              /\ queue' = AllMods
            <4>1. status # "STARTING"
                BY <2>1 DEF RecoveryInv, StatusOK, LoopLeave, At, Calling, Leaf, Ended
            <4>2. status \in {"STARTING", "RUNNING", "STOPPED"}
                BY <1>0 DEF TypeInv, TypeOK
            <4> QED
                BY <2>1, <4>1, <4>2 DEF LoopLeave, globals
        <3>2. \A m \in Mods : InQueue(m)'
            BY <3>1, NumModsAssumption DEF InQueue, AllMods, Mods
        <3> QED
            BY <3>1, <3>2 DEF ShutdownOK
    <2>2. CASE ServiceCommand \/ CleanupDirt
        <3>1. ctx' \in ModOps \union {"restart_mods"}
            BY <2>2 DEF ServiceCommand, CleanupDirt
        <3> QED
            BY <3>1, <1>a DEF ModOps
    <2>3. CASE ~LoopLeave /\ ~ServiceCommand /\ ~CleanupDirt
        <3>1. /\ pc \in {"count", "fill", "loop", "dirty", "toPoll", "inPoll", "service"}
              /\ UNCHANGED ctx
            BY <1>5, <2>3, Zenon DEF LoopStep, CountSlots, FillSlots, LoopTest, NotDirty,
                EnterPoll, PollReturn, ServiceDone, ServiceStop, ServiceSession, ModuleTalks,
                ReturnFromPoll, At, control
        <3>2. ctx # "shutdown"
            BY <3>1, <1>0 DEF ShutdownOK, Ended
        <3> QED
            BY <3>1, <3>2, <1>a
    <2> QED
        BY <2>1, <2>2, <2>3
<1>6. ASSUME NEW p \in Pids, ReapChild(p)
      PROVE  ShutdownOK'
    <2>1. UNCHANGED control /\ ~Ended
        BY <1>6, Zenon DEF ReapChild
    <2>2. ctx # "shutdown"
        BY <2>1, <1>0, <1>6, NoHandler DEF ShutdownOK, Calling, Leaf
    <2> QED
        BY <2>1, <2>2, <1>a DEF control
<1>7. CASE DeliverChld \/ DeliverTerm
    <2>1. /\ UNCHANGED <<ctx, queue, state>> /\ ~Ended
          /\ status' = status \/ status' = "STOPPED"
          /\ pc' = pc \/ pc = "inPoll"
        BY <1>7 DEF DeliverChld, DeliverTerm, Interrupted, modules, globals
    <2>2. ctx = "shutdown" => pc # "inPoll"
        BY <1>0 DEF ShutdownOK, Ended
    <2> QED
        BY <2>1, <2>2, <1>a, <1>b
<1>8. CASE ReturnFromChld \/ (Environment /\ ~ModuleTalks /\ ~Crash)
    <2>1. UNCHANGED <<pc, ctx, queue, state, status>>
        BY <1>8, Zenon DEF ReturnFromChld, Environment, ClientRequest, SigTerm, ChildReady,
            Die, modules, globals, control
    <2> QED
        BY <2>1, <1>b DEF Ended
<1>9. CASE Crash
    BY <1>9, <1>b DEF Crash, globals, modules, Ended
<1>10. CASE UNCHANGED vars
    <2>1. UNCHANGED <<pc, ctx, queue, state, status>>
        BY <1>10, Zenon DEF vars
    <2> QED
        BY <2>1, <1>b DEF Ended
<1> QED
    BY <1>1, <1>2, <1>3, <1>4, <1>5, <1>6, <1>7, <1>8, <1>9, <1>10
       DEF Next, Thread, Handler, Environment

\* A module that is dead and marked stays marked by a step outside of a pass
\* that keeps its marks, and by one of a pass that takes another module or none.
LEMMA MarkKept ==
    ASSUME TypeInv, NEW m \in Mods, Marked(m), needsRestart'[m] = needsRestart[m],
           \/ ~Passing /\ ~Passing' /\ (modsDirty => modsDirty')
           \/ Passing /\ Passing' /\ queue' = queue
           \/ Passing /\ Passing' /\ queue # <<>> /\ m # Cur /\ queue' = Tail(queue)
    PROVE  Marked(m)'
<1>1. CASE ~Passing /\ ~Passing' /\ (modsDirty => modsDirty')
    BY <1>1 DEF Marked
<1>2. CASE Passing /\ Passing' /\ queue' = queue
    BY <1>2 DEF Marked, InQueue
<1>3. CASE Passing /\ Passing' /\ queue # <<>> /\ m # Cur /\ queue' = Tail(queue)
    <2>1. PICK i \in DOMAIN queue : queue[i] = m
        BY <1>3 DEF Marked, InQueue
    <2>2. InQueue(m)'
        BY <1>3, <2>1, PopKeeps DEF InQueue, Cur, TypeInv, TypeOK
    <2> QED
        BY <1>3, <2>2 DEF Marked
<1> QED
    BY <1>1, <1>2, <1>3

LEMMA DeadStep == RecoveryInv /\ [Next]_vars => DeadOK'
<1> SUFFICES ASSUME RecoveryInv, [Next]_vars, NEW m \in Mods, state'[m] = "DEAD", ~Ended',
                    ~(status' = "STOPPED" /\ ctx' # "startup")
             PROVE  Marked(m)' \/ BeingExited(m)'
    BY DEF DeadOK
<1>0. DeadOK /\ PassOK /\ SafeInv /\ TypeInv
    BY DEF RecoveryInv, SafeInv
<1>a. CASE /\ UNCHANGED <<state, needsRestart, queue>> /\ ~Ended
           /\ pc \notin {"unmask", "close"}
           /\ (status = "STOPPED" /\ ctx # "startup") => (status' = "STOPPED" /\ ctx' # "startup")
           /\ \/ Passing /\ Passing'
              \/ ~Passing /\ ~Passing' /\ (modsDirty => modsDirty')
    \* a step that leaves the marks and the queue alone
    <2>1. Marked(m)
        BY <1>a, <1>0 DEF DeadOK, BeingExited
    <2> QED
        BY <1>a, <2>1, <1>0, MarkKept
<1>b. CASE /\ ~Passing /\ ~Passing' /\ UNCHANGED <<state, needsRestart>> /\ ~Ended
           /\ pc \notin {"unmask", "close"} /\ (modsDirty => modsDirty')
           /\ (status = "STOPPED" /\ ctx # "startup") => (status' = "STOPPED" /\ ctx' # "startup")
    \* a step outside of the passes
    <2>1. Marked(m)
        BY <1>b, <1>0 DEF DeadOK, BeingExited
    <2> QED
        BY <1>b, <2>1, <1>0, MarkKept
<1>1. CASE CallStep
    <2>1. CASE CallModule \/ CommandDone
        <3>1. /\ pc = "next" /\ UNCHANGED <<state, needsRestart, ctx, status, modsDirty>>
              /\ ctx # "restart_mods"
            BY <2>1 DEF CallModule, CommandDone, At, modules, globals, ModOps
        <3> QED
            BY <3>1, <1>b DEF Passing, Ended
    <2>2. CASE StartupDone
        <3>1. /\ pc = "next" /\ UNCHANGED <<state, needsRestart, ctx, modsDirty>>
              /\ ctx = "startup"
            BY <2>2 DEF StartupDone, At, modules
        <3> QED
            BY <3>1, <1>b DEF Passing, Ended
    <2>3. CASE ShutdownDone
        BY <2>3 DEF ShutdownDone, Ended
    <2> QED
        BY <1>1, <2>1, <2>2, <2>3 DEF CallStep
<1>2. CASE RestartStep
    <2>1. CASE RestartSkip
        <3>1. /\ pc = "next" /\ pc' = "next" /\ ctx = "restart_mods"
              /\ queue # <<>> /\ queue' = Tail(queue)
              /\ needsRestart' = [needsRestart EXCEPT ![Cur] = FALSE]
              /\ ~needsRestart[Cur] \/ status = "STARTING"
              /\ UNCHANGED <<state, status, ctx>>
            BY <2>1, Zenon DEF RestartSkip, At, NextModule, globals
        <3>2. ~needsRestart[Cur]
            BY <3>1 DEF RecoveryInv, StatusOK
        <3>3. Passing /\ Passing'
            BY <3>1 DEF Passing, Calling
        <3>4. Marked(m)
            BY <3>1, <1>0 DEF DeadOK, BeingExited, Ended
        <3>5. m # Cur
            BY <3>2, <3>4 DEF Marked
        <3>6. needsRestart'[m] = needsRestart[m]
            BY <3>1, <3>5, <1>0 DEF TypeInv, TypeOK
        <3> QED
            BY <3>1, <3>3, <3>4, <3>5, <3>6, <1>0, MarkKept
    <2>2. CASE RestartAbort
        BY <2>2 DEF RestartAbort, globals
    <2>3. CASE RestartVisit
        <3>1. /\ pc = "next" /\ pc' = "exit" /\ ctx = "restart_mods"
              /\ UNCHANGED <<state, needsRestart, queue, ctx, status>>
            BY <2>3 DEF RestartVisit, At, modules, globals
        <3> QED
            BY <3>1, <1>a DEF Passing, Calling, Leaf, Ended
    <2>4. CASE RestartDone
        <3>1. /\ pc = "next" /\ ctx = "restart_mods" /\ queue = <<>>
              /\ UNCHANGED <<state, ctx, status>>
            BY <2>4 DEF RestartDone, At, modules
        <3>2. Passing /\ ~InQueue(m)
            BY <3>1 DEF Passing, Calling, InQueue
        <3> QED
            BY <3>1, <3>2, <1>0 DEF DeadOK, Marked, BeingExited, Ended
    <2>5. CASE Attempt
        <3>1. /\ pc = "attempt" /\ ctx = "restart_mods" /\ state[Cur] \in Parked
              /\ UNCHANGED <<state, status, ctx>>
            BY <2>5, <1>0 DEF Attempt, At, PassOK, globals
        <3>2. m # Cur
            BY <3>1 DEF Parked
        <3>3. \/ pc' = "init" /\ UNCHANGED <<queue, needsRestart>>
              \/ /\ pc' = "next" /\ queue' = Tail(queue)
                 /\ needsRestart' = [needsRestart EXCEPT ![Cur] = FALSE]
            BY <2>5, Zenon DEF Attempt, NextModule
        <3>4. Passing /\ Passing'
            BY <3>1, <3>3 DEF Passing, Calling, Leaf
        <3>5. Marked(m)
            BY <3>1, <1>0 DEF DeadOK, BeingExited, Ended
        <3>6. needsRestart'[m] = needsRestart[m]
            BY <3>2, <3>3, <1>0 DEF TypeInv, TypeOK
        <3>7. queue # <<>>
            BY <3>1, <1>0 DEF TypeInv, QueueOK, Leaf
        <3> QED
            BY <3>2, <3>3, <3>4, <3>5, <3>6, <3>7, <1>0, MarkKept
    <2> QED
        BY <1>2, <2>1, <2>2, <2>3, <2>4, <2>5 DEF RestartStep
<1>3. CASE ExitStep
    <2>1. CASE ExitParked
        <3>1. /\ pc = "exit" /\ state[Cur] \in Parked /\ ExitReturn
              /\ UNCHANGED <<state, needsRestart, ctx, status, modsDirty>>
            BY <2>1, Zenon DEF ExitParked, At, modules, globals
        <3>2. ctx = "restart_mods" => UNCHANGED queue /\ pc' = "attempt"
            BY <3>1, Zenon DEF ExitReturn
        <3> QED
            BY <3>1, <3>2, <1>a, <1>b DEF Passing, Calling, Leaf, Ended
    <2>2. CASE ExitMask
        <3>1. /\ pc = "exit" /\ state[Cur] \notin Parked
              /\ pc' = IF state[Cur] = "RUNNING" THEN "kill" ELSE "unmask"
              /\ UNCHANGED <<state, needsRestart, queue, ctx, status, modsDirty>>
            BY <2>2, Zenon DEF ExitMask, At, modules, globals
        <3> QED
            BY <3>1, <1>a DEF Passing, Calling, Leaf, Ended
    <2>3. CASE ExitKill
        <3>1. /\ pc = "kill" /\ pc' = "unmask" /\ state' = [state EXCEPT ![Cur] = "DEAD"]
              /\ UNCHANGED <<needsRestart, queue, ctx, status, modsDirty>>
            BY <2>3, Zenon DEF ExitKill, At, globals
        <3>2. CASE m = Cur
            BY <3>1, <3>2 DEF BeingExited, Cur
        <3>3. CASE m # Cur
            <4>1. state[m] = "DEAD"
                BY <3>1, <3>3, <1>0 DEF TypeInv, TypeOK
            <4>2. Marked(m)
                BY <3>1, <4>1, <1>0 DEF DeadOK, BeingExited, Ended
            <4> QED
                BY <3>1, <4>2, <1>0, MarkKept DEF Passing, Calling, Leaf
        <3> QED
            BY <3>2, <3>3
    <2>4. CASE ExitUnmask
        <3>1. /\ pc = "unmask" /\ pc' = "close" /\ modsDirty' = TRUE
              /\ UNCHANGED <<state, needsRestart, queue, ctx, status>>
            BY <2>4, Zenon DEF ExitUnmask, At, modules
        <3>2. CASE m = Cur
            BY <3>1, <3>2 DEF BeingExited, Cur
        <3>3. CASE m # Cur
            <4>1. Marked(m)
                BY <3>1, <3>3, <1>0 DEF DeadOK, BeingExited, Ended
            <4> QED
                BY <3>1, <4>1, <1>0, MarkKept DEF Passing, Calling, Leaf
        <3> QED
            BY <3>2, <3>3
    <2>5. CASE ExitClose
        <3>1. /\ pc = "close" /\ state' = [state EXCEPT ![Cur] = "EXITED"] /\ ExitReturn
              /\ UNCHANGED <<needsRestart, ctx, status, modsDirty>>
            BY <2>5, Zenon DEF ExitClose, At, globals
        <3>2. m # Cur /\ state[m] = "DEAD"
            BY <3>1, <1>0 DEF TypeInv, TypeOK
        <3>3. Marked(m)
            BY <3>1, <3>2, <1>0 DEF DeadOK, BeingExited, Ended
        <3>4. ctx = "restart_mods" => UNCHANGED queue /\ pc' = "attempt"
            BY <3>1, Zenon DEF ExitReturn
        <3> QED
            BY <3>1, <3>3, <3>4, <1>0, MarkKept DEF Passing, Calling, Leaf
    <2> QED
        BY <1>3, <2>1, <2>2, <2>3, <2>4, <2>5 DEF ExitStep
<1>4. CASE InitStep
    <2>1. CASE InitRefused \/ InitForkFails
        <3>1. /\ pc \in {"init", "fork"} /\ InitReturn(FALSE)
              /\ UNCHANGED <<state, ctx, status, modsDirty>>
            BY <2>1, Zenon DEF InitRefused, InitForkFails, At, globals
        <3>2. CASE ctx = "restart_mods"
            <4>1. pc' = "exit" /\ UNCHANGED <<queue, needsRestart>>
                BY <3>1, <3>2, Zenon DEF InitReturn
            <4> QED
                BY <3>1, <3>2, <4>1, <1>a DEF Passing, Calling, Leaf, Ended
        <3>3. CASE ctx # "restart_mods"
            <4>1. UNCHANGED needsRestart
                BY <3>1, <3>3, Zenon DEF InitReturn
            <4> QED
                BY <3>1, <3>3, <4>1, <1>b DEF Passing, Ended
        <3> QED
            BY <3>2, <3>3
    <2>2. CASE InitPipe \/ \E p \in Pids : InitFork(p)
        <3>1. /\ pc \in {"init", "fork"} /\ pc' \in {"fork", "record"}
              /\ UNCHANGED <<state, needsRestart, queue, ctx, status, modsDirty>>
            BY <2>2, Zenon DEF InitPipe, InitFork, At, modules, globals
        <3> QED
            BY <3>1, <1>a DEF Passing, Calling, Leaf, Ended
    <2>3. CASE InitRecord
        <3>1. /\ pc = "record" /\ pc' = "finish" /\ state' = [state EXCEPT ![Cur] = "RUNNING"]
              /\ UNCHANGED <<needsRestart, queue, ctx, status, modsDirty>>
            BY <2>3, Zenon DEF InitRecord, At, globals
        <3>2. m # Cur /\ state[m] = "DEAD"
            BY <3>1, <1>0 DEF TypeInv, TypeOK
        <3>3. Marked(m)
            BY <3>1, <3>2, <1>0 DEF DeadOK, BeingExited, Ended
        <3> QED
            BY <3>1, <3>3, <1>0, MarkKept DEF Passing, Calling, Leaf
    <2>4. CASE InitFinish
        <3>1. /\ pc = "finish" /\ InitReturn(TRUE) /\ modsDirty' = TRUE
              /\ UNCHANGED <<state, ctx, status>>
            BY <2>4, Zenon DEF InitFinish, At
        <3>2. pc' = "next" /\ queue' = Tail(queue)
            BY <3>1, Zenon DEF InitReturn, NextModule
        <3>3. CASE ctx = "restart_mods"
            <4>1. needsRestart' = [needsRestart EXCEPT ![Cur] = FALSE]
                BY <3>1, <3>3, Zenon DEF InitReturn
            <4>2. m # Cur
                BY <3>1, <3>3, <1>0 DEF PassOK
            <4>3. Marked(m)
                BY <3>1, <1>0 DEF DeadOK, BeingExited, Ended
            <4>4. needsRestart'[m] = needsRestart[m] /\ queue # <<>>
                BY <3>1, <4>1, <4>2, <1>0 DEF TypeInv, TypeOK, QueueOK, Leaf
            <4> QED
                BY <3>1, <3>2, <3>3, <4>2, <4>3, <4>4, <1>0, MarkKept
                   DEF Passing, Calling, Leaf
        <3>4. CASE ctx # "restart_mods"
            <4>1. UNCHANGED needsRestart
                BY <3>1, <3>4, Zenon DEF InitReturn
            <4> QED
                BY <3>1, <3>4, <4>1, <1>b DEF Passing, Ended
        <3> QED
            BY <3>3, <3>4
    <2> QED
        BY <1>4, <2>1, <2>2, <2>3, <2>4 DEF InitStep
<1>5. CASE LoopStep \/ ModuleTalks
    <2>1. /\ pc \in {"count", "fill", "loop", "dirty", "toPoll", "inPoll", "service"}
          /\ UNCHANGED <<state, needsRestart, modsDirty>>
        BY <1>5, Zenon DEF LoopStep, CountSlots, FillSlots, LoopTest, LoopLeave, CleanupDirt,
            NotDirty, EnterPoll, PollReturn, ServiceDone, ServiceStop, ServiceSession,
            ServiceCommand, ModuleTalks, ReturnFromPoll, At, modules, globals
    <2>2. ~Passing /\ ~Ended
        BY <2>1 DEF Passing, Calling, Leaf, Ended
    <2>3. CASE CleanupDirt
        <3>1. ctx' = "restart_mods" /\ pc' = "next" /\ queue' = AllMods /\ status' = status
            BY <2>3, Zenon DEF CleanupDirt, globals
        <3>2. Passing' /\ InQueue(m)'
            BY <3>1, NumModsAssumption DEF Passing, Calling, InQueue, AllMods, Mods
        <3>3. CASE Marked(m)
            BY <2>1, <3>2, <3>3 DEF Marked
        <3>4. CASE ~Marked(m)
            BY <2>1, <2>2, <3>1, <3>4, <1>0 DEF DeadOK, BeingExited
        <3> QED
            BY <3>3, <3>4
    <2>4. CASE LoopLeave
        <3>1. ctx' = "shutdown" /\ status' = status
            BY <2>4, Zenon DEF LoopLeave, globals
        <3> QED
            BY <2>1, <2>2, <3>1, <1>b DEF Passing
    <2>5. CASE ServiceCommand
        <3>1. ctx' \in ModOps /\ status' = status
            BY <2>5, Zenon DEF ServiceCommand, globals
        <3> QED
            BY <2>1, <2>2, <3>1, <1>b DEF Passing, ModOps
    <2>6. CASE ~CleanupDirt /\ ~LoopLeave /\ ~ServiceCommand
        <3>1. /\ pc' \in {"fill", "loop", "dirty", "toPoll", "inPoll", "service"}
              /\ UNCHANGED ctx /\ (status' = status \/ status' = "STOPPED")
            BY <1>5, <2>6, Zenon DEF LoopStep, CountSlots, FillSlots, LoopTest, NotDirty,
                EnterPoll, PollReturn, ServiceDone, ServiceStop, ServiceSession, ModuleTalks,
                ReturnFromPoll, At, control, globals
        <3> QED
            BY <2>1, <2>2, <3>1, <1>b DEF Passing, Calling, Leaf
    <2> QED
        BY <2>3, <2>4, <2>5, <2>6
<1>6. ASSUME NEW p \in Pids, ReapChild(p)
      PROVE  Marked(m)' \/ BeingExited(m)'
    <2> DEFINE died == {k \in Mods : pid[k] = p /\ state[k] = "RUNNING"}
    <2>1. /\ ~Ended /\ UNCHANGED control /\ status' = status
          /\ state' = [k \in Mods |-> IF k \in died THEN "DEAD" ELSE state[k]]
          /\ needsRestart' = [k \in Mods |-> k \in died \/ needsRestart[k]]
          /\ modsDirty' = (modsDirty \/ died # {})
        BY <1>6, Zenon DEF ReapChild
    <2>2. ~Passing /\ ~Passing'
        BY <2>1, <1>0, <1>6, NoHandler DEF Passing, control
    <2>3. CASE m \in died
        <3>1. needsRestart'[m] /\ modsDirty'
            BY <2>1, <2>3, Zenon
        <3> QED
            BY <3>1, <2>2 DEF Marked
    <2>4. CASE m \notin died
        <3>1. state[m] = "DEAD"
            BY <2>1, <2>4
        <3>2. CASE BeingExited(m)
            BY <2>1, <3>2 DEF BeingExited, control, Cur
        <3>3. CASE ~BeingExited(m)
            <4>1. Marked(m)
                BY <2>1, <3>1, <3>3, <1>0 DEF DeadOK, control
            <4>2. needsRestart[m] /\ modsDirty
                BY <4>1, <2>2 DEF Marked
            <4>3. needsRestart'[m] /\ modsDirty'
                BY <4>2, <2>1, Zenon
            <4> QED
                BY <4>3, <2>2 DEF Marked
        <3> QED
            BY <3>2, <3>3
    <2> QED
        BY <2>3, <2>4
<1>7. CASE \/ DeliverChld \/ DeliverTerm \/ ReturnFromChld
           \/ (Environment /\ ~ModuleTalks /\ ~Crash) \/ UNCHANGED vars
    <2>1. /\ UNCHANGED <<ctx, queue, state, needsRestart, modsDirty>>
          /\ status' = status \/ status' = "STOPPED"
        BY <1>7, Zenon DEF DeliverChld, DeliverTerm, ReturnFromChld, Environment, ClientRequest,
            SigTerm, ChildReady, Die, modules, globals, control, vars
    <2>2. pc' = pc \/ (pc = "inPoll" /\ pc' = "loop")
        <3>1. CASE DeliverChld \/ DeliverTerm
            BY <3>1 DEF DeliverChld, DeliverTerm, Interrupted
        <3>2. CASE ~(DeliverChld \/ DeliverTerm)
            BY <1>7, <3>2, Zenon DEF ReturnFromChld, Environment, ClientRequest, SigTerm,
                ChildReady, Die, control, vars
        <3> QED
            BY <3>1, <3>2
    <2>3. ~Ended /\ (Passing <=> Passing')
        BY <2>1, <2>2 DEF Ended, Passing, Calling, Leaf
    <2>4. CASE BeingExited(m)
        BY <2>1, <2>2, <2>4 DEF BeingExited, Cur
    <2>5. CASE ~BeingExited(m)
        <3>1. Marked(m)
            BY <2>1, <2>3, <2>5, <1>0 DEF DeadOK
        <3> QED
            BY <3>1, <2>1, <2>3, <1>0, MarkKept
    <2> QED
        BY <2>4, <2>5
<1>8. CASE Crash
    BY <1>8 DEF Crash, Ended
<1> QED
    BY <1>1, <1>2, <1>3, <1>4, <1>5, <1>6, <1>7, <1>8
       DEF Next, Thread, Handler, Environment

LEMMA RecoveryStep == RecoveryInv /\ [Next]_vars => RecoveryInv'
BY SafeStep, StatusStep, PassStep, DeadStep, ShutdownStep DEF RecoveryInv

LEMMA RecoveryHolds == Spec => []RecoveryInv
BY RecoveryInit, RecoveryStep, PTL DEF Spec

\* A dead module is never forgotten: it is marked, or being exited, or the
\* manager is stopping.
THEOREM NoDeadForgotten == Spec => []DeadIsHandled
<1>1. RecoveryInv => DeadIsHandled
    BY DEF RecoveryInv, DeadOK, Marked, Passing, InQueue, DeadIsHandled, InPass
<1> QED
    BY <1>1, RecoveryHolds, PTL

\* The shutdown has told every module to end when it exits.
THEOREM NoModuleLeft == Spec => []ShutdownLeavesNone
<1>1. RecoveryInv => ShutdownLeavesNone
    <2> SUFFICES ASSUME RecoveryInv, ctx = "shutdown", pc = "next", queue = <<>>
                 PROVE  \A p \in Pids : proc[p] \notin {"forked", "live"}
        BY DEF ShutdownLeavesNone
    <2>1. \A m \in Mods : state[m] # "RUNNING"
        BY DEF RecoveryInv, ShutdownOK, InQueue, Ended, Parked
    <2> QED
        BY <2>1 DEF RecoveryInv, SafeInv, NoStrayChild, Ended
<1> QED
    BY <1>1, RecoveryHolds, PTL

----------------------------------------------------------------------------
(***************************************************************************)
(* The refinement.  A step changes the service of at most one module, or   *)
(* ends the manager.                                                       *)
(***************************************************************************)
\* What the module m counts as, while the manager runs.
Serves(m) ==
    IF Recovering(m) THEN "recovering"
    ELSE IF state[m] = "RUNNING" THEN "up"
    ELSE IF state[m] = "DEAD" /\ ~BeingExited(m) THEN "crashed" ELSE "down"

LEMMA SvcIs ==
    /\ svc = [m \in Mods |-> IF Ended THEN "down" ELSE Serves(m)]
    /\ svc' = [m \in Mods |-> IF Ended' THEN "down" ELSE Serves(m)']
BY DEF svc, Serves

LEMMA Still ==
    ASSUME ~Ended, ~Ended', UNCHANGED numFails, \A m \in Mods : Serves(m)' = Serves(m)
    PROVE  UNCHANGED Sup!vars
<1>1. svc' = svc
    BY SvcIs
<1> QED
    BY <1>1 DEF Sup!vars, life

LEMMA OneBecomes ==
    ASSUME ~Ended, ~Ended', NEW m \in Mods, \A k \in Mods \ {m} : Serves(k)' = Serves(k)
    PROVE  /\ svc' = [svc EXCEPT ![m] = Serves(m)'] /\ life' = life
           /\ life = "running" /\ svc[m] = Serves(m)
<1>1. svc' = [svc EXCEPT ![m] = Serves(m)'] /\ svc[m] = Serves(m)
    BY SvcIs
<1> QED
    BY <1>1 DEF life

\* The steps that change a service, one lemma each.
LEMMA SupStops ==
    ASSUME ~Ended, ~Ended', NEW m \in Mods, \A k \in Mods \ {m} : Serves(k)' = Serves(k),
           UNCHANGED numFails, Serves(m) \in {"up", "crashed"}, Serves(m)' = "down"
    PROVE  Sup!Next
BY OneBecomes DEF Sup!Next, Sup!Step, Sup!Stop, Sup!Becomes

LEMMA SupCrashes ==
    ASSUME ~Ended, ~Ended', NEW m \in Mods, \A k \in Mods \ {m} : Serves(k)' = Serves(k),
           UNCHANGED numFails, Serves(m) = "up", Serves(m)' = "crashed"
    PROVE  Sup!Next
BY OneBecomes DEF Sup!Next, Sup!Step, Sup!Crash, Sup!Becomes

LEMMA SupRecovers ==
    ASSUME ~Ended, ~Ended', NEW m \in Mods, \A k \in Mods \ {m} : Serves(k)' = Serves(k),
           UNCHANGED numFails, \A k \in Mods : ~Recovering(k), Serves(m)' = "recovering"
    PROVE  Sup!Next
<1>1. \A k \in Mods : svc[k] # "recovering"
    BY SvcIs DEF Serves
<1> QED
    BY <1>1, OneBecomes DEF Sup!Next, Sup!Step, Sup!Recover, Sup!Becomes

LEMMA SupLaunches ==
    ASSUME ~Ended, ~Ended', NEW m \in Mods, \A k \in Mods \ {m} : Serves(k)' = Serves(k),
           UNCHANGED numFails, Serves(m) \in {"down", "crashed"}, Serves(m)' = "up"
    PROVE  Sup!Next
BY OneBecomes DEF Sup!Next, Sup!Step, Sup!Launch, Sup!Becomes

LEMMA SupRevives ==
    ASSUME ~Ended, ~Ended', NEW m \in Mods, \A k \in Mods \ {m} : Serves(k)' = Serves(k),
           UNCHANGED numFails, Serves(m) = "recovering", numFails[m] < MaxFail,
           Serves(m)' = "up"
    PROVE  Sup!Next
BY OneBecomes DEF Sup!Next, Sup!Step, Sup!Revive, Sup!Becomes

LEMMA SupTries ==
    ASSUME ~Ended, ~Ended', NEW m \in Mods, \A k \in Mods \ {m} : Serves(k)' = Serves(k),
           Serves(m) = "recovering", numFails' = [numFails EXCEPT ![m] = @ + 1],
           numFails[m] \in Nat,
           \/ numFails[m] + 1 < MaxFail /\ Serves(m)' = "recovering"
           \/ ~(numFails[m] + 1 < MaxFail) /\ Serves(m)' = "down"
    PROVE  Sup!Next
<1>1. CASE numFails[m] + 1 < MaxFail /\ Serves(m)' = "recovering"
    <2>1. svc' = svc
        BY <1>1, SvcIs
    <2> QED
        BY <1>1, <2>1, OneBecomes DEF Sup!Next, Sup!Step, Sup!Try
<1>2. CASE ~(numFails[m] + 1 < MaxFail) /\ Serves(m)' = "down"
    <2>1. numFails[m] + 1 >= MaxFail
        BY <1>2, MaxFailAssumption
    <2> QED
        BY <1>2, <2>1, OneBecomes DEF Sup!Next, Sup!Step, Sup!GiveUp
<1> QED
    BY <1>1, <1>2

LEMMA SupEnds ==
    ASSUME ~Ended, Ended', UNCHANGED numFails,
           pc' = "exited" => \A m \in Mods : Serves(m) = "down"
    PROVE  Sup!Next
<1>1. svc' = [m \in Mods |-> "down"] /\ life = "running" /\ life' = pc'
    BY SvcIs DEF life
<1>2. CASE pc' = "exited"
    <2>1. svc = svc' /\ \A m \in Mods : svc[m] = "down"
        BY <1>1, <1>2, SvcIs
    <2> QED
        BY <1>1, <1>2, <2>1 DEF Sup!Next, Sup!Exit
<1>3. CASE pc' = "crashed"
    BY <1>1, <1>3 DEF Sup!Next, Sup!Abort
<1> QED
    BY <1>2, <1>3 DEF Ended

\* A step outside of a pass's work and of do_module_exit's end that changes no
\* module's state is not seen.
Unseen == {"exit", "kill", "unmask", "close", "attempt", "init", "fork", "record"}
LEMMA Quiet ==
    ASSUME ~Ended, ~Ended', UNCHANGED <<state, numFails>>, pc \notin Unseen, pc' \notin Unseen
    PROVE  UNCHANGED Sup!vars
<1>1. \A m \in Mods : Serves(m)' = Serves(m)
    BY DEF Serves, Recovering, BeingExited, Unseen
<1> QED
    BY <1>1, Still

\* So is one that stays at its place.
LEMMA InPlace ==
    ASSUME UNCHANGED <<state, numFails, pc, ctx, queue>>
    PROVE  UNCHANGED Sup!vars
<1>1. \A m \in Mods : Serves(m)' = Serves(m) /\ Ended' = Ended
    BY DEF Serves, Recovering, BeingExited, Cur, Ended
<1>2. svc' = svc /\ life' = life
    BY <1>1, SvcIs DEF life, Ended
<1> QED
    BY <1>2 DEF Sup!vars

LEMMA CallRefines ==
    ASSUME RecoveryInv, CallStep \/ RestartStep
    PROVE  Sup!Next \/ UNCHANGED Sup!vars
<1>0. SafeInv /\ TypeInv /\ PassOK /\ ShutdownOK
    BY DEF RecoveryInv, SafeInv
<1>1. CASE CallModule
    <2>1. /\ pc = "next" /\ pc' \in {"init", "exit"} /\ ctx # "restart_mods"
          /\ UNCHANGED <<ctx, queue, state, numFails>>
        BY <1>1, Zenon DEF CallModule, At, modules
    <2>2. \A m \in Mods : Serves(m)' = Serves(m)
        BY <2>1 DEF Serves, Recovering, BeingExited
    <2> QED
        BY <2>1, <2>2, Still DEF Ended
<1>2. CASE StartupDone \/ CommandDone \/ RestartSkip \/ RestartAbort \/ RestartDone
    <2>1. /\ pc = "next" /\ pc' \in {"count", "service", "next"} /\ UNCHANGED <<state, numFails>>
        BY <1>2, Zenon DEF StartupDone, CommandDone, RestartSkip, RestartAbort, RestartDone,
            At, NextModule, modules
    <2> QED
        BY <2>1, Quiet DEF Unseen, Ended
<1>3. CASE ShutdownDone
    <2>1. /\ pc = "next" /\ pc' = "exited" /\ queue = <<>> /\ ctx = "shutdown"
          /\ UNCHANGED <<state, numFails>>
        BY <1>3, Zenon DEF ShutdownDone, At, modules
    <2>2. \A m \in Mods : state[m] \in Parked
        BY <2>1, <1>0 DEF ShutdownOK, InQueue, Ended
    <2>3. \A m \in Mods : Serves(m) = "down"
        BY <2>1, <2>2 DEF Serves, Recovering, Parked
    <2> QED
        BY <2>1, <2>3, SupEnds DEF Ended
<1>4. CASE RestartVisit
    <2>1. /\ pc = "next" /\ pc' = "exit" /\ ctx = "restart_mods" /\ queue # <<>>
          /\ UNCHANGED <<ctx, queue, state, numFails>>
        BY <1>4, Zenon DEF RestartVisit, At, modules
    <2>2. Cur \in Mods
        BY <2>1, <1>0 DEF TypeInv, TypeOK, Cur
    <2> PICK c \in Mods : c = Cur
        BY <2>2
    <2>3. /\ Serves(c)' = "recovering" /\ \A m \in Mods : ~Recovering(m)
          /\ \A m \in Mods \ {c} : Serves(m)' = Serves(m)
        BY <2>1 DEF Serves, Recovering, BeingExited, Cur
    <2> QED
        BY <2>1, <2>3, SupRecovers DEF Ended
<1>5. CASE Attempt
    <2>1. /\ pc = "attempt" /\ ctx = "restart_mods" /\ queue # <<>> /\ state[Cur] \in Parked
          /\ UNCHANGED <<ctx, state>> /\ numFails' = [numFails EXCEPT ![Cur] = @ + 1]
          /\ \/ numFails[Cur] + 1 < MaxFail /\ pc' = "init" /\ queue' = queue
             \/ ~(numFails[Cur] + 1 < MaxFail) /\ pc' = "next"
        BY <1>5, <1>0 DEF Attempt, At, PassOK, NextModule, TypeInv, QueueOK, Leaf
    <2> PICK c \in Mods : c = Cur
        BY <2>1, <1>0, CurType DEF Leaf
    <2>2. numFails[c] \in Nat
        BY <1>0 DEF TypeInv, TypeOK
    <2>3. Serves(c) = "recovering" /\ \A m \in Mods \ {c} : Serves(m)' = Serves(m)
        BY <2>1 DEF Serves, Recovering, BeingExited, Cur
    <2>4. \/ numFails[c] + 1 < MaxFail /\ Serves(c)' = "recovering"
          \/ ~(numFails[c] + 1 < MaxFail) /\ Serves(c)' = "down"
        BY <2>1 DEF Serves, Recovering, BeingExited, Cur, Parked
    <2> QED
        BY <2>1, <2>2, <2>3, <2>4, SupTries DEF Ended
<1> QED
    BY <1>1, <1>2, <1>3, <1>4, <1>5 DEF CallStep, RestartStep

LEMMA ExitRefines ==
    ASSUME RecoveryInv, ExitStep
    PROVE  Sup!Next \/ UNCHANGED Sup!vars
<1>0. SafeInv /\ TypeInv /\ SectionOK
    BY DEF RecoveryInv, SafeInv
<1>a. pc \in Leaf /\ queue # <<>>
    BY <1>0 DEF ExitStep, ExitParked, ExitMask, ExitKill, ExitUnmask, ExitClose, At, Leaf,
        TypeInv, QueueOK
<1> PICK c \in Mods : c = Cur
    BY <1>0, <1>a, CurType
<1>b. CASE ctx = "restart_mods" /\ UNCHANGED <<ctx, queue, numFails>> /\ pc \in Unseen
           /\ pc' \in Unseen /\ \A m \in Mods \ {c} : state'[m] = state[m]
    \* the work of a pass
    <2>1. \A m \in Mods : Serves(m)' = Serves(m)
        BY <1>a, <1>b DEF Serves, Recovering, BeingExited, Cur, Unseen
    <2> QED
        BY <1>b, <2>1, Still DEF Unseen, Ended
<1>1. CASE ExitParked
    <2>1. /\ pc = "exit" /\ ExitReturn /\ UNCHANGED <<ctx, state, numFails>>
        BY <1>1, Zenon DEF ExitParked, At, modules
    <2>2. ctx = "restart_mods" => pc' = "attempt" /\ queue' = queue
        BY <2>1, Zenon DEF ExitReturn
    <2>3. CASE ctx # "restart_mods"
        <3>1. \A m \in Mods : Serves(m)' = Serves(m)
            BY <2>1, <2>3, ExitReturnPc DEF Serves, Recovering, BeingExited
        <3> QED
            BY <2>1, <3>1, ExitReturnPc, Still DEF Ended
    <2> QED
        BY <2>1, <2>2, <2>3, <1>b DEF Unseen
<1>2. CASE ExitMask
    <2>1. /\ pc = "exit" /\ pc' = (IF state[Cur] = "RUNNING" THEN "kill" ELSE "unmask")
          /\ state[Cur] \notin Parked /\ UNCHANGED <<ctx, queue, state, numFails>>
        BY <1>2, Zenon DEF ExitMask, At, modules
    <2>2. CASE ctx = "restart_mods"
        BY <2>1, <2>2, <1>b DEF Unseen
    <2>3. CASE ctx # "restart_mods" /\ state[c] = "RUNNING"
        <3>1. \A m \in Mods : Serves(m)' = Serves(m)
            BY <2>1, <2>3 DEF Serves, Recovering, BeingExited
        <3> QED
            BY <2>1, <3>1, Still DEF Ended
    <2>4. CASE ctx # "restart_mods" /\ state[c] # "RUNNING"
        <3>1. state[c] = "DEAD"
            BY <2>1, <2>4, <1>0, <1>a DEF TypeInv, TypeOK, Parked
        <3>2. /\ Serves(c) = "crashed" /\ Serves(c)' = "down"
              /\ \A m \in Mods \ {c} : Serves(m)' = Serves(m)
            BY <2>1, <2>4, <3>1 DEF Serves, Recovering, BeingExited, Cur
        <3> QED
            BY <2>1, <3>2, <1>a, SupStops DEF Ended
    <2> QED
        BY <2>2, <2>3, <2>4
<1>3. CASE ExitKill
    <2>1. /\ pc = "kill" /\ pc' = "unmask" /\ state' = [state EXCEPT ![Cur] = "DEAD"]
          /\ UNCHANGED <<ctx, queue, numFails>>
        BY <1>3, Zenon DEF ExitKill, At
    <2>2. state[c] = "RUNNING" /\ state'[c] = "DEAD" /\ \A m \in Mods \ {c} : state'[m] = state[m]
        BY <2>1, <1>0, <1>a DEF SectionOK, TypeInv, TypeOK
    <2>3. CASE ctx # "restart_mods"
        <3>1. /\ Serves(c) = "up" /\ Serves(c)' = "down"
              /\ \A m \in Mods \ {c} : Serves(m)' = Serves(m)
            BY <2>1, <2>2, <2>3 DEF Serves, Recovering, BeingExited, Cur
        <3> QED
            BY <2>1, <3>1, <1>a, SupStops DEF Ended
    <2> QED
        BY <2>1, <2>2, <2>3, <1>b DEF Unseen
<1>4. CASE ExitUnmask
    <2>1. /\ pc = "unmask" /\ pc' = "close" /\ UNCHANGED <<ctx, queue, state, numFails>>
        BY <1>4, Zenon DEF ExitUnmask, At, modules
    <2>2. \A m \in Mods : Serves(m)' = Serves(m)
        BY <2>1 DEF Serves, Recovering, BeingExited, Cur
    <2> QED
        BY <2>1, <2>2, Still DEF Ended
<1>5. CASE ExitClose
    <2>1. /\ pc = "close" /\ ExitReturn /\ state' = [state EXCEPT ![Cur] = "EXITED"]
          /\ UNCHANGED <<ctx, numFails>>
        BY <1>5, Zenon DEF ExitClose, At
    <2>2. state[c] = "DEAD" /\ state'[c] = "EXITED" /\ \A m \in Mods \ {c} : state'[m] = state[m]
        BY <2>1, <1>0, <1>a DEF SectionOK, TypeInv, TypeOK
    <2>3. CASE ctx # "restart_mods"
        <3>1. \A m \in Mods : Serves(m)' = Serves(m)
            BY <2>1, <2>2, <2>3, ExitReturnPc DEF Serves, Recovering, BeingExited
        <3> QED
            BY <2>1, <3>1, ExitReturnPc, Still DEF Ended
    <2>4. ctx = "restart_mods" => pc' = "attempt" /\ queue' = queue
        BY <2>1, Zenon DEF ExitReturn
    <2> QED
        BY <2>1, <2>2, <2>3, <2>4, <1>b DEF Unseen
<1> QED
    BY <1>1, <1>2, <1>3, <1>4, <1>5 DEF ExitStep

LEMMA InitRefines ==
    ASSUME RecoveryInv, InitStep
    PROVE  Sup!Next \/ UNCHANGED Sup!vars
<1>0. SafeInv /\ TypeInv /\ SectionOK /\ PassOK
    BY DEF RecoveryInv, SafeInv
<1>1. CASE InitRefused \/ InitForkFails
    <2>1. /\ pc \in {"init", "fork"} /\ InitReturn(FALSE) /\ UNCHANGED <<ctx, state, numFails>>
        BY <1>1, Zenon DEF InitRefused, InitForkFails, At
    <2>2. ctx = "restart_mods" => pc' = "exit" /\ queue' = queue
        BY <2>1, Zenon DEF InitReturn
    <2>3. pc' \in {"exit", "next"}
        BY <2>1, InitReturnPc
    <2>4. \A m \in Mods : Serves(m)' = Serves(m)
        BY <2>1, <2>2, <2>3 DEF Serves, Recovering, BeingExited, Cur
    <2> QED
        BY <2>1, <2>3, <2>4, Still DEF Ended
<1>2. CASE InitPipe \/ \E p \in Pids : InitFork(p)
    <2>1. /\ pc \in {"init", "fork"} /\ pc' \in {"fork", "record"}
          /\ UNCHANGED <<ctx, queue, state, numFails>>
        BY <1>2, Zenon DEF InitPipe, InitFork, At, modules
    <2>2. \A m \in Mods : Serves(m)' = Serves(m)
        BY <2>1 DEF Serves, Recovering, BeingExited, Cur
    <2> QED
        BY <2>1, <2>2, Still DEF Ended
<1>3. CASE InitRecord
    <2>1. /\ pc = "record" /\ pc' = "finish" /\ state' = [state EXCEPT ![Cur] = "RUNNING"]
          /\ UNCHANGED <<ctx, queue, numFails>>
        BY <1>3, Zenon DEF InitRecord, At
    <2> PICK c \in Mods : c = Cur
        BY <2>1, <1>0, CurType DEF Leaf
    <2>2. /\ queue # <<>> /\ state[c] # "RUNNING" /\ state'[c] = "RUNNING"
          /\ \A m \in Mods \ {c} : state'[m] = state[m]
        BY <2>1, <1>0, CurType DEF SectionOK, TypeInv, TypeOK, QueueOK, Leaf
    <2>3. Serves(c)' = "up" /\ \A m \in Mods \ {c} : Serves(m)' = Serves(m)
        BY <2>1, <2>2 DEF Serves, Recovering, BeingExited, Cur
    <2>4. CASE ctx = "restart_mods"
        <3>1. Serves(c) = "recovering" /\ numFails[c] < MaxFail
            BY <2>1, <2>2, <2>4, <1>0 DEF Serves, Recovering, PassOK
        <3> QED
            BY <2>1, <2>3, <3>1, SupRevives DEF Ended
    <2>5. CASE ctx # "restart_mods"
        <3>1. Serves(c) \in {"down", "crashed"}
            BY <2>2, <2>5 DEF Serves, Recovering
        <3> QED
            BY <2>1, <2>3, <3>1, SupLaunches DEF Ended
    <2> QED
        BY <2>4, <2>5
<1>4. CASE InitFinish
    <2>1. pc = "finish" /\ InitReturn(TRUE) /\ UNCHANGED <<state, numFails>>
        BY <1>4, Zenon DEF InitFinish, At
    <2>2. pc' = "next"
        BY <2>1, Zenon DEF InitReturn, NextModule
    <2> QED
        BY <2>1, <2>2, Quiet DEF Unseen, Ended
<1> QED
    BY <1>1, <1>2, <1>3, <1>4 DEF InitStep

LEMMA RestRefines ==
    ASSUME RecoveryInv, LoopStep \/ Handler \/ DeliverTerm \/ Environment \/ UNCHANGED vars
    PROVE  Sup!Next \/ UNCHANGED Sup!vars
<1>0. SafeInv /\ TypeInv /\ SectionOK /\ OwnerOK
    BY DEF RecoveryInv, SafeInv
<1>1. CASE LoopStep \/ ModuleTalks
    <2>1. /\ pc \in {"count", "fill", "loop", "dirty", "toPoll", "inPoll", "service"}
          /\ pc' \in {"fill", "loop", "dirty", "next", "toPoll", "inPoll", "service"}
        BY <1>1, Zenon DEF LoopStep, CountSlots, FillSlots, LoopTest, LoopLeave, CleanupDirt,
            NotDirty, EnterPoll, PollReturn, ModuleTalks, ReturnFromPoll, ServiceDone,
            ServiceStop, ServiceSession, ServiceCommand, At, control
    <2>2. UNCHANGED <<state, numFails>>
        BY <1>1, Zenon DEF LoopStep, CountSlots, FillSlots, LoopTest, LoopLeave, CleanupDirt,
            NotDirty, EnterPoll, PollReturn, ModuleTalks, ReturnFromPoll, ServiceDone,
            ServiceStop, ServiceSession, ServiceCommand, modules
    <2> QED
        BY <2>1, <2>2, Quiet DEF Unseen, Ended
<1>2. CASE DeliverChld \/ DeliverTerm
    <2>1. UNCHANGED <<state, numFails, ctx, queue>>
        BY <1>2, Zenon DEF DeliverChld, DeliverTerm, modules
    <2>2. pc' = pc \/ (pc = "inPoll" /\ pc' = "loop")
        BY <1>2 DEF DeliverChld, DeliverTerm, Interrupted
    <2> QED
        BY <2>1, <2>2, InPlace, Quiet DEF Unseen, Ended
<1>3. ASSUME NEW p \in Pids, ReapChild(p)
      PROVE  Sup!Next \/ UNCHANGED Sup!vars
    <2> DEFINE died == {m \in Mods : pid[m] = p /\ state[m] = "RUNNING"}
    <2>1. /\ ~Ended /\ UNCHANGED <<pc, ctx, queue, numFails>>
          /\ state' = [m \in Mods |-> IF m \in died THEN "DEAD" ELSE state[m]]
        BY <1>3, Zenon DEF ReapChild, control
    <2>2. ~(ctx = "restart_mods" /\ pc \in Unseen)
        BY <1>0, <1>3, NoHandler DEF Unseen, Calling, Leaf
    <2>3. \A m \in Mods : ~Recovering(m) /\ ~Recovering(m)'
        BY <2>1, <2>2 DEF Recovering, Unseen
    <2>4. \A m \in Mods : BeingExited(m)' = BeingExited(m) /\ (BeingExited(m) => m \notin died)
        BY <2>1, <1>0 DEF BeingExited, SectionOK, Cur
    <2>5. CASE died = {}
        <3>1. \A m \in Mods : Serves(m)' = Serves(m)
            BY <2>1, <2>3, <2>4, <2>5 DEF Serves
        <3> QED
            BY <2>1, <3>1, Still DEF Ended
    <2>6. CASE died # {}
        <3>1. PICK m \in Mods : m \in died
            BY <2>6
        <3>2. \A k \in Mods \ {m} : k \notin died
            BY <3>1, <1>0 DEF OwnerOK
        <3>3. Serves(m) = "up" /\ Serves(m)' = "crashed"
            BY <2>1, <2>3, <2>4, <3>1 DEF Serves
        <3>4. \A k \in Mods \ {m} : Serves(k)' = Serves(k)
            BY <2>1, <2>3, <2>4, <3>2 DEF Serves
        <3> QED
            BY <2>1, <3>3, <3>4, SupCrashes DEF Ended
    <2> QED
        BY <2>5, <2>6
<1>4. CASE ReturnFromChld \/ (Environment /\ ~ModuleTalks /\ ~Crash) \/ UNCHANGED vars
    <2>1. UNCHANGED <<state, numFails, pc, ctx, queue>>
        BY <1>4, Zenon DEF ReturnFromChld, Environment, ClientRequest, SigTerm, ChildReady,
            Die, modules, control, vars
    <2> QED
        BY <2>1, InPlace
<1>5. CASE Crash
    <2>1. ~Ended /\ pc' = "crashed" /\ UNCHANGED numFails
        BY <1>5, Zenon DEF Crash, modules
    <2> QED
        BY <2>1, SupEnds DEF Ended
<1> QED
    BY <1>1, <1>2, <1>3, <1>4, <1>5 DEF Handler, Environment

\* The manager, whatever its signals, masks and polls do, only ever takes the
\* steps of Supervisor: a module goes up, down, crashes and recovers as that
\* says, MAX_FAIL_FOR_STOP is kept, and an orderly exit finds all modules down.
THEOREM ImplementsSupervisor == Spec => SupervisedSafely
<1>1. Init => Sup!Init
    BY DEF Init, Sup!Init, svc, life, Ended, Recovering, BeingExited
<1>2. RecoveryInv /\ [Next]_vars => [Sup!Next]_(Sup!vars)
    BY CallRefines, ExitRefines, InitRefines, RestRefines DEF Next, Thread
<1> QED
    BY <1>1, <1>2, RecoveryHolds, PTL DEF Spec, SupervisedSafely, Sup!Safety
=============================================================================

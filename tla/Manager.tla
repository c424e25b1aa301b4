------------------------------ MODULE Manager ------------------------------
(***************************************************************************)
(* The process manager, man/manager.c: one thread that starts, stops and   *)
(* restarts the modules (the bot, the web server), its two signal          *)
(* handlers, which may run between any two of its instructions, and the    *)
(* children it forks.                                                      *)
(*                                                                         *)
(* The thread is a program counter `pc` inside one call of do_module_init  *)
(* or do_module_exit, and `ctx`, the loop that makes the calls: one call   *)
(* per module of `queue`.  A step ends wherever a signal could make a      *)
(* difference.  How requests reach the manager byte by byte is the module  *)
(* Session; here a request is a whole command.                             *)
(***************************************************************************)
EXTENDS Naturals, Sequences, FiniteSets

CONSTANTS
    NumMods,    \* NUM_MODS
    Pids,       \* process ids the kernel hands out
    NoPid,      \* the pid -1
    MaxFail,    \* MAX_FAIL_FOR_STOP
    StartLists, \* the modules the command line may ask for (-a, -b, -w)
    ArgLists,   \* the module arguments a request may carry
    MaxRequests \* bound: requests the clients may send

Mods == 1 .. NumMods                         \* mods[], in array order
AllMods == [i \in 1 .. NumMods |-> i]

ASSUME NumModsAssumption == NumMods \in Nat
ASSUME MaxFailAssumption == MaxFail \in Nat
ASSUME PidsAssumption == NoPid \notin Pids /\ IsFiniteSet(Pids)
ASSUME ListsAssumption == StartLists \subseteq Seq(Mods) /\ ArgLists \subseteq Seq(Mods)
ASSUME MaxRequestsAssumption == MaxRequests \in Nat

\* Commands with arguments, and what else may be ready on the sockets: "stop",
\* and a session that connects or hangs up.
ModOps == {"restart", "disable", "enable"}
Requests == [op : ModOps, args : ArgLists]
            \union [op : {"stop", "session"}, args : {<<>>}]

VARIABLES
    status,        \* manager.status, a volatile enum manager_status
    modsDirty,     \* manager.mods_dirty
    sessionsDirty, \* session_handler->sessions_dirty
    state,         \* state[m], MODULE_*
    pid,           \* pid[m]
    needsRestart,  \* needs_restart[m]
    numFails,      \* num_fails[m]
    pipefd,        \* pipefd[m]: does the manager hold the read end
    pc,            \* where the manager's thread is
    ctx,           \* the loop that calls do_module_*
    queue,         \* modules the loop has yet to finish, its head being served
    child,         \* cpid, between fork() and the store to mod->pid
    nslots,        \* slots for modules in the calloc()ed poll array
    polled,        \* the modules whose pipe is in the poll array
    batch,         \* requests ready in this pass of service_fds
    blocked,       \* are SIGCHLD and SIGTERM blocked
    saved,         \* the sigset_t flags saved by a leaf call and by the loop
    proc,          \* the children, as the kernel sees them
    chldPending,   \* SIGCHLD is pending
    termPending,   \* SIGTERM is pending
    inChld,        \* child_death_handler is running
    inbox,         \* requests that wait on the sockets
    requestsLeft   \* bound on the requests still to come

globals == <<status, modsDirty, sessionsDirty>>
modules == <<state, pid, needsRestart, numFails, pipefd>>
control == <<pc, ctx, queue, child>>
polling == <<nslots, polled, batch>>
masks   == <<blocked, saved>>
kernel  == <<proc, chldPending, termPending, inChld>>
clients == <<inbox, requestsLeft>>
vars == <<status, modsDirty, sessionsDirty, state, pid, needsRestart, numFails, pipefd,
          pc, ctx, queue, child, nslots, polled, batch, blocked, saved,
          proc, chldPending, termPending, inChld, inbox, requestsLeft>>

(***************************************************************************)
(* States of a child: "forked" runs the manager's image up to prctl(),     *)
(* "live" has armed PR_SET_PDEATHSIG, "term" has a SIGTERM to die of,      *)
(* "zombie" awaits waitpid().                                              *)
(***************************************************************************)
ProcStates == {"free", "forked", "live", "term", "zombie"}
Alive == {"forked", "live", "term"}
Parked == {"OFF", "EXITED"}
Ctxs == {"startup", "restart_mods", "shutdown"} \union ModOps
Ended == pc \in {"exited", "crashed"}
Cur == Head(queue)

\* The thread runs only while no handler does.
At(l) == pc = l /\ ~inChld

\* The process p is sent SIGTERM.
Signal(p) == [proc EXCEPT ![p] = IF @ \in Alive THEN "term" ELSE @]

\* Mutant: the signals are left unblocked.
IntrSaveNothing(f) == saved' = [saved EXCEPT ![f] = blocked] /\ UNCHANGED blocked

\* SIGCHLD and SIGTERM are blocked, the old mask kept in f, and put back.
IntrSave(f) == blocked' = TRUE /\ saved' = [saved EXCEPT ![f] = blocked]
IntrRestore(f) == blocked' = saved[f] /\ UNCHANGED saved

\* A step of the thread that changes nothing else.
Goto(l) ==
    /\ pc' = l
    /\ UNCHANGED <<globals, modules, ctx, queue, child, polling, masks, kernel, clients>>

Init ==
    /\ status = "STARTING" /\ modsDirty = FALSE /\ sessionsDirty = FALSE
    /\ state = [m \in Mods |-> "OFF"]
    /\ pid = [m \in Mods |-> NoPid]
    /\ needsRestart = [m \in Mods |-> FALSE]
    /\ numFails = [m \in Mods |-> 0]
    /\ pipefd = [m \in Mods |-> FALSE]
    /\ pc = "next" /\ ctx = "startup" /\ queue \in StartLists /\ child = NoPid
    /\ nslots = 0 /\ polled = {} /\ batch = <<>>
    /\ blocked = FALSE /\ saved = [f \in {"leaf", "loop"} |-> FALSE]
    /\ proc = [p \in Pids |-> "free"]
    /\ chldPending = FALSE /\ termPending = FALSE /\ inChld = FALSE
    /\ inbox = <<>> /\ requestsLeft = MaxRequests

----------------------------------------------------------------------------
(***************************************************************************)
(* The calling loops: early_module_startup, the argument loop of           *)
(* manager_process_input, __restart_mods and shutdown_manager.             *)
(***************************************************************************)
NextModule == queue' = Tail(queue) /\ pc' = "next"

\* Every loop but __restart_mods calls for each module on its list.
CallModule ==
    /\ At("next") /\ queue # <<>> /\ ctx # "restart_mods"
    /\ Goto(IF ctx \in {"startup", "enable"} THEN "init" ELSE "exit")

\* main() line 998: the status is set without a look at what it was.
StartupDone ==
    /\ At("next") /\ queue = <<>> /\ ctx = "startup"
    /\ status' = "RUNNING" /\ pc' = "count"
    /\ UNCHANGED <<modsDirty, sessionsDirty, modules, ctx, queue, child, polling, masks,
                   kernel, clients>>

CommandDone ==
    /\ At("next") /\ queue = <<>> /\ ctx \in ModOps
    /\ Goto("service")

\* Nothing to restart: the unreachable STARTING branch clears the mark as well.
RestartSkip ==
    /\ At("next") /\ queue # <<>> /\ ctx = "restart_mods"
    /\ ~needsRestart[Cur] \/ status = "STARTING"
    /\ needsRestart' = [needsRestart EXCEPT ![Cur] = FALSE]
    /\ NextModule
    /\ UNCHANGED <<globals, state, pid, numFails, pipefd, ctx, child, polling, masks, kernel,
                   clients>>

\* "if (manager.status == STOPPED) return;"
RestartAbort ==
    /\ At("next") /\ queue # <<>> /\ ctx = "restart_mods"
    /\ needsRestart[Cur] /\ status = "STOPPED"
    /\ queue' = <<>>
    /\ UNCHANGED <<globals, modules, pc, ctx, child, polling, masks, kernel, clients>>

RestartVisit ==
    /\ At("next") /\ queue # <<>> /\ ctx = "restart_mods"
    /\ needsRestart[Cur] /\ status = "RUNNING"
    /\ Goto("exit")

\* The end of restart_mods and of manager_cleanup_dirt.
RestartDone ==
    /\ At("next") /\ queue = <<>> /\ ctx = "restart_mods"
    /\ modsDirty' = FALSE /\ sessionsDirty' = FALSE
    /\ IntrRestore("loop") /\ pc' = "count"
    /\ UNCHANGED <<status, modules, ctx, queue, child, polling, kernel, clients>>

\* The kernel keeps its word of PR_SET_PDEATHSIG when the manager ends.
PDeathSig == [p \in Pids |-> IF proc[p] = "live" THEN "term" ELSE proc[p]]

ShutdownDone ==
    /\ At("next") /\ queue = <<>> /\ ctx = "shutdown"
    /\ pc' = "exited" /\ proc' = PDeathSig
    /\ UNCHANGED <<globals, modules, ctx, queue, child, polling, masks, chldPending,
                   termPending, inChld, clients>>

----------------------------------------------------------------------------
(***************************************************************************)
(* do_module_exit                                                          *)
(***************************************************************************)
ExitReturn ==
    CASE ctx = "restart_mods" -> pc' = "attempt" /\ UNCHANGED queue
      [] ctx = "restart"      -> pc' = "init" /\ UNCHANGED queue
      [] OTHER                -> NextModule

ExitParked ==
    /\ At("exit") /\ state[Cur] \in Parked
    /\ ExitReturn
    /\ UNCHANGED <<globals, modules, ctx, child, polling, masks, kernel, clients>>

\* Interrupts off, then the test for a running module.
ExitMask ==
    /\ At("exit") /\ state[Cur] \notin Parked
    /\ IntrSave("leaf")
    /\ pc' = IF state[Cur] = "RUNNING" THEN "kill" ELSE "unmask"
    /\ UNCHANGED <<globals, modules, ctx, queue, child, polling, kernel, clients>>

ExitKill ==
    /\ At("kill")
    /\ proc' = IF pid[Cur] \in Pids THEN Signal(pid[Cur]) ELSE proc
    /\ state' = [state EXCEPT ![Cur] = "DEAD"]
    /\ pid' = [pid EXCEPT ![Cur] = NoPid]
    /\ pc' = "unmask"
    /\ UNCHANGED <<globals, needsRestart, numFails, pipefd, ctx, queue, child, polling, masks,
                   chldPending, termPending, inChld, clients>>

ExitUnmask ==
    /\ At("unmask")
    /\ modsDirty' = TRUE /\ IntrRestore("leaf") /\ pc' = "close"
    /\ UNCHANGED <<status, sessionsDirty, modules, ctx, queue, child, polling, kernel, clients>>

\* needs_restart is left as it is.
ExitClose ==
    /\ At("close")
    /\ pipefd' = [pipefd EXCEPT ![Cur] = FALSE]
    /\ state' = [state EXCEPT ![Cur] = "EXITED"]
    /\ ExitReturn
    /\ UNCHANGED <<globals, pid, needsRestart, numFails, ctx, child, polling, masks, kernel,
                   clients>>

----------------------------------------------------------------------------
(***************************************************************************)
(* do_module_init, and the retries of __restart_mods around it             *)
(***************************************************************************)
\* Mutant: one attempt too many.
AttemptTooMany ==
    /\ At("attempt")
    /\ numFails' = [numFails EXCEPT ![Cur] = @ + 1]
    /\ IF numFails[Cur] < MaxFail
       THEN pc' = "init" /\ UNCHANGED <<queue, needsRestart>>
       ELSE NextModule /\ needsRestart' = [needsRestart EXCEPT ![Cur] = FALSE]
    /\ UNCHANGED <<globals, state, pid, pipefd, ctx, child, polling, masks, kernel, clients>>

Attempt ==
    /\ At("attempt")
    /\ numFails' = [numFails EXCEPT ![Cur] = @ + 1]
    /\ IF numFails[Cur] + 1 < MaxFail
       THEN pc' = "init" /\ UNCHANGED <<queue, needsRestart>>
       ELSE NextModule /\ needsRestart' = [needsRestart EXCEPT ![Cur] = FALSE]
    /\ UNCHANGED <<globals, state, pid, pipefd, ctx, child, polling, masks, kernel, clients>>

\* do_module_init returns: __restart_mods retries a failure, the others go on.
InitReturn(ok) ==
    IF ctx = "restart_mods" /\ ~ok
    THEN pc' = "exit" /\ UNCHANGED <<queue, needsRestart>>
    ELSE /\ NextModule
         /\ needsRestart' = IF ctx = "restart_mods"
                            THEN [needsRestart EXCEPT ![Cur] = FALSE] ELSE needsRestart

\* The module runs already, or pipe() fails.
InitRefused ==
    /\ At("init")
    /\ InitReturn(FALSE)
    /\ UNCHANGED <<globals, state, pid, numFails, pipefd, ctx, child, polling, masks, kernel,
                   clients>>

\* Mutant: a module that runs already is started once more.
InitPipeAgain ==
    /\ At("init")
    /\ pipefd' = [pipefd EXCEPT ![Cur] = TRUE]
    /\ IntrSave("leaf") /\ pc' = "fork"
    /\ UNCHANGED <<globals, state, pid, needsRestart, numFails, ctx, queue, child, polling,
                   kernel, clients>>

InitPipe ==
    /\ At("init") /\ state[Cur] # "RUNNING"
    /\ pipefd' = [pipefd EXCEPT ![Cur] = TRUE]
    /\ IntrSave("leaf") /\ pc' = "fork"
    /\ UNCHANGED <<globals, state, pid, needsRestart, numFails, ctx, queue, child, polling,
                   kernel, clients>>

InitFork(p) ==
    /\ At("fork") /\ proc[p] = "free"
    /\ proc' = [proc EXCEPT ![p] = "forked"] /\ child' = p
    /\ pc' = "record"
    /\ UNCHANGED <<globals, modules, ctx, queue, polling, masks, chldPending, termPending,
                   inChld, clients>>

InitForkFails ==
    /\ At("fork")
    /\ IntrRestore("leaf")
    /\ pipefd' = [pipefd EXCEPT ![Cur] = FALSE]
    /\ InitReturn(FALSE)
    /\ UNCHANGED <<globals, state, pid, numFails, ctx, child, polling, kernel, clients>>

InitRecord ==
    /\ At("record")
    /\ state' = [state EXCEPT ![Cur] = "RUNNING"]
    /\ pid' = [pid EXCEPT ![Cur] = child] /\ child' = NoPid
    /\ IntrRestore("leaf") /\ pc' = "finish"
    /\ UNCHANGED <<globals, needsRestart, numFails, pipefd, ctx, queue, polling, kernel,
                   clients>>

\* Mutant: a success takes a failure back.
InitFinishForgives ==
    /\ At("finish")
    /\ modsDirty' = TRUE /\ InitReturn(TRUE)
    /\ numFails' = [numFails EXCEPT ![Cur] = @ - 1]
    /\ UNCHANGED <<status, sessionsDirty, state, pid, pipefd, ctx, child, polling, masks,
                   kernel, clients>>

InitFinish ==
    /\ At("finish")
    /\ modsDirty' = TRUE /\ InitReturn(TRUE)
    /\ UNCHANGED <<status, sessionsDirty, state, pid, numFails, pipefd, ctx, child, polling,
                   masks, kernel, clients>>

----------------------------------------------------------------------------
(***************************************************************************)
(* start_manager_loop, setup_poll_fds and service_fds                      *)
(***************************************************************************)
HasPipe == {m \in Mods : pipefd[m]}
HasPid == {m \in Mods : pid[m] # NoPid}

\* The array is sized by the modules that have a pid ...
CountSlots ==
    /\ At("count")
    /\ nslots' = Cardinality(HasPid) /\ pc' = "fill"
    /\ UNCHANGED <<globals, modules, ctx, queue, child, polled, batch, masks, kernel, clients>>

\* ... and filled by those that have a pipe; poll() sees the first nslots.
FillSlots ==
    /\ At("fill")
    /\ polled' = {m \in HasPipe : Cardinality({k \in HasPipe : k <= m}) <= nslots}
    /\ pc' = "loop"
    /\ UNCHANGED <<globals, modules, ctx, queue, child, nslots, batch, masks, kernel, clients>>

LoopTest ==
    /\ At("loop") /\ status = "RUNNING"
    /\ Goto("dirty")

\* Mutant: the shutdown passes over the first module.
LoopLeaveFirst ==
    /\ At("loop") /\ status # "RUNNING"
    /\ IntrSave("loop")
    /\ ctx' = "shutdown" /\ queue' = Tail(AllMods) /\ pc' = "next"
    /\ UNCHANGED <<globals, modules, child, polling, kernel, clients>>

\* shutdown_manager: interrupts stay off until the exit.
LoopLeave ==
    /\ At("loop") /\ status # "RUNNING"
    /\ IntrSave("loop")
    /\ ctx' = "shutdown" /\ queue' = AllMods /\ pc' = "next"
    /\ UNCHANGED <<globals, modules, child, polling, kernel, clients>>

\* Mutant: the restart pass runs with interrupts on.
CleanupDirtOpen ==
    /\ At("dirty") /\ (modsDirty \/ sessionsDirty)
    /\ ctx' = "restart_mods" /\ queue' = AllMods /\ pc' = "next"
    /\ UNCHANGED <<globals, modules, child, polling, masks, kernel, clients>>

CleanupDirt ==
    /\ At("dirty") /\ (modsDirty \/ sessionsDirty)
    /\ IntrSave("loop")
    /\ ctx' = "restart_mods" /\ queue' = AllMods /\ pc' = "next"
    /\ UNCHANGED <<globals, modules, child, polling, kernel, clients>>

\* Mutant: mods_dirty is not looked at.
NotDirtySession ==
    /\ At("dirty") /\ ~sessionsDirty
    /\ Goto("toPoll")

NotDirty ==
    /\ At("dirty") /\ ~modsDirty /\ ~sessionsDirty
    /\ Goto("toPoll")

EnterPoll ==
    /\ At("toPoll")
    /\ Goto("inPoll")

\* The writer of m's pipe is gone.
Hup(m) == ~(pid[m] # NoPid /\ proc[pid[m]] \in Alive)

Ready == inbox # <<>> \/ \E m \in polled : Hup(m)

\* poll() returns: whatever waits on the sockets is this pass's batch.
ReturnFromPoll ==
    /\ batch' = inbox /\ inbox' = <<>> /\ pc' = "service"
    /\ UNCHANGED <<globals, modules, ctx, queue, child, nslots, polled, masks, kernel,
                   requestsLeft>>

PollReturn == At("inPoll") /\ Ready /\ ReturnFromPoll

\* A module that lives has written to its pipe.
ModuleTalks == At("inPoll") /\ (\E m \in polled : ~Hup(m)) /\ ReturnFromPoll

ServiceDone ==
    /\ At("service") /\ batch = <<>>
    /\ Goto("loop")

\* process_command: "stop" only sets the status, the pass goes on.
ServiceStop ==
    /\ At("service") /\ batch # <<>> /\ Head(batch).op = "stop"
    /\ status' = "STOPPED" /\ batch' = Tail(batch)
    /\ UNCHANGED <<modsDirty, sessionsDirty, modules, control, nslots, polled, masks, kernel,
                   clients>>

\* __start_new_session and close_session.
ServiceSession ==
    /\ At("service") /\ batch # <<>> /\ Head(batch).op = "session"
    /\ sessionsDirty' = TRUE /\ batch' = Tail(batch)
    /\ UNCHANGED <<status, modsDirty, modules, control, nslots, polled, masks, kernel, clients>>

ServiceCommand ==
    /\ At("service") /\ batch # <<>> /\ Head(batch).op \in ModOps
    /\ ctx' = Head(batch).op /\ queue' = Head(batch).args /\ pc' = "next"
    /\ batch' = Tail(batch)
    /\ UNCHANGED <<globals, modules, child, nslots, polled, masks, kernel, clients>>

----------------------------------------------------------------------------
(***************************************************************************)
(* Signals.  A handler interrupts poll(), which then fails with EINTR.     *)
(***************************************************************************)
Interrupted == pc' = IF pc = "inPoll" THEN "loop" ELSE pc

DeliverChld ==
    /\ chldPending /\ ~blocked /\ ~inChld /\ ~Ended
    /\ chldPending' = FALSE /\ inChld' = TRUE /\ Interrupted
    /\ UNCHANGED <<globals, modules, ctx, queue, child, polling, masks, proc, termPending,
                   clients>>

\* Mutant: waitpid() is called once, not in a loop.
ReapChildOnce(p) ==
    /\ inChld /\ ~Ended /\ proc[p] = "zombie"
    /\ inChld' = FALSE
    /\ proc' = [proc EXCEPT ![p] = "free"]
    /\ LET died == {m \in Mods : pid[m] = p /\ state[m] = "RUNNING"} IN
       /\ state' = [m \in Mods |-> IF m \in died THEN "DEAD" ELSE state[m]]
       /\ needsRestart' = [m \in Mods |-> m \in died \/ needsRestart[m]]
       /\ pid' = [m \in Mods |-> IF m \in died THEN NoPid ELSE pid[m]]
       /\ modsDirty' = (modsDirty \/ died # {})
    /\ UNCHANGED <<status, sessionsDirty, numFails, pipefd, control, polling, masks, chldPending,
                   termPending, clients>>

\* One turn of the waitpid() loop of child_death_handler.
ReapChild(p) ==
    /\ inChld /\ ~Ended /\ proc[p] = "zombie"
    /\ proc' = [proc EXCEPT ![p] = "free"]
    /\ LET died == {m \in Mods : pid[m] = p /\ state[m] = "RUNNING"} IN
       /\ state' = [m \in Mods |-> IF m \in died THEN "DEAD" ELSE state[m]]
       /\ needsRestart' = [m \in Mods |-> m \in died \/ needsRestart[m]]
       /\ pid' = [m \in Mods |-> IF m \in died THEN NoPid ELSE pid[m]]
       /\ modsDirty' = (modsDirty \/ died # {})
    /\ UNCHANGED <<status, sessionsDirty, numFails, pipefd, control, polling, masks, chldPending,
                   termPending, inChld, clients>>

ReturnFromChld ==
    /\ inChld /\ ~Ended /\ \A p \in Pids : proc[p] # "zombie"
    /\ inChld' = FALSE
    /\ UNCHANGED <<globals, modules, control, polling, masks, proc, chldPending, termPending,
                   clients>>

DeliverTerm ==
    /\ termPending /\ ~blocked /\ ~Ended
    /\ termPending' = FALSE /\ status' = "STOPPED" /\ Interrupted
    /\ UNCHANGED <<modsDirty, sessionsDirty, modules, ctx, queue, child, polling, masks, proc,
                   chldPending, inChld, clients>>

----------------------------------------------------------------------------
(***************************************************************************)
(* The world around the manager: its clients, whoever sends it SIGTERM,    *)
(* its children, and its own abrupt end.                                   *)
(***************************************************************************)
ClientRequest ==
    /\ ~Ended /\ requestsLeft > 0
    /\ requestsLeft' = requestsLeft - 1
    /\ \E r \in Requests : inbox' = Append(inbox, r)
    /\ UNCHANGED <<globals, modules, control, polling, masks, kernel>>

SigTerm ==
    /\ ~Ended /\ ~termPending
    /\ termPending' = TRUE
    /\ UNCHANGED <<globals, modules, control, polling, masks, proc, chldPending, inChld, clients>>

\* The child has called prctl() and goes on to exec its module.
ChildReady(p) ==
    /\ proc[p] = "forked"
    /\ proc' = [proc EXCEPT ![p] = "live"]
    /\ UNCHANGED <<globals, modules, control, polling, masks, chldPending, termPending, inChld,
                   clients>>

Die(p) ==
    /\ proc[p] \in Alive
    /\ proc' = [proc EXCEPT ![p] = "zombie"] /\ chldPending' = TRUE
    /\ UNCHANGED <<globals, modules, control, polling, masks, termPending, inChld, clients>>

\* SIGKILL, a die() or a fault: the manager is gone without a shutdown.
Crash ==
    /\ ~Ended
    /\ pc' = "crashed" /\ proc' = PDeathSig
    /\ UNCHANGED <<globals, modules, ctx, queue, child, polling, masks, chldPending, termPending,
                   inChld, clients>>

----------------------------------------------------------------------------
CallStep == CallModule \/ StartupDone \/ CommandDone \/ ShutdownDone
RestartStep == RestartSkip \/ RestartAbort \/ RestartVisit \/ RestartDone \/ Attempt
ExitStep == ExitParked \/ ExitMask \/ ExitKill \/ ExitUnmask \/ ExitClose
InitStep == \/ InitRefused \/ InitPipe \/ InitForkFails \/ InitRecord \/ InitFinish
            \/ \E p \in Pids : InitFork(p)
LoopStep == CountSlots \/ FillSlots \/ LoopTest \/ LoopLeave \/ CleanupDirt \/ NotDirty
            \/ EnterPoll \/ PollReturn
            \/ ServiceDone \/ ServiceStop \/ ServiceSession \/ ServiceCommand

Thread == CallStep \/ RestartStep \/ ExitStep \/ InitStep \/ LoopStep
Handler == DeliverChld \/ ReturnFromChld \/ \E p \in Pids : ReapChild(p)
Environment ==
    \/ ModuleTalks \/ ClientRequest \/ SigTerm \/ Crash
    \/ \E p \in Pids : ChildReady(p) \/ Die(p)

Next == Thread \/ Handler \/ DeliverTerm \/ Environment

\* The kernel schedules the manager, delivers unblocked signals, and a child
\* that was sent SIGTERM dies of it.  Nothing else has to happen.
Fairness ==
    /\ WF_vars(Thread)
    /\ WF_vars(Handler)
    /\ WF_vars(DeliverTerm)
    /\ \A p \in Pids : WF_vars(proc[p] = "term" /\ Die(p))

Spec == Init /\ [][Next]_vars /\ Fairness
----------------------------------------------------------------------------
\* Every variable stays in its range.
Pcs == {"next", "exit", "kill", "unmask", "close", "attempt", "init", "fork", "record",
        "finish", "count", "fill", "loop", "dirty", "toPoll", "inPoll", "service", "exited",
        "crashed"}
TypeOK ==
    /\ status \in {"STARTING", "RUNNING", "STOPPED"}
    /\ modsDirty \in BOOLEAN /\ sessionsDirty \in BOOLEAN
    /\ state \in [Mods -> {"OFF", "RUNNING", "DEAD", "EXITED"}]
    /\ pid \in [Mods -> Pids \union {NoPid}]
    /\ needsRestart \in [Mods -> BOOLEAN]
    /\ numFails \in [Mods -> Nat]
    /\ pipefd \in [Mods -> BOOLEAN]
    /\ pc \in Pcs /\ ctx \in Ctxs /\ queue \in Seq(Mods)
    /\ child \in Pids \union {NoPid}
    /\ nslots \in Nat /\ polled \subseteq Mods /\ batch \in Seq(Requests)
    /\ blocked \in BOOLEAN /\ saved \in [{"leaf", "loop"} -> BOOLEAN]
    /\ proc \in [Pids -> ProcStates]
    /\ chldPending \in BOOLEAN /\ termPending \in BOOLEAN /\ inChld \in BOOLEAN
    /\ inbox \in Seq(Requests) /\ requestsLeft \in 0 .. MaxRequests

(***************************************************************************)
(* Safety                                                                  *)
(***************************************************************************)
\* The pid of a module that counts as running is a child nobody has waited
\* for yet, so it still names that child, and no two modules share one:
\* do_module_init stores the pid before a death can be handled (280-282).
RunningIsOurs ==
    \A m \in Mods : state[m] = "RUNNING" =>
        /\ pid[m] \in Pids /\ proc[pid[m]] # "free"
        /\ \A k \in Mods : pid[k] = pid[m] => k = m

\* do_module_exit signals a child of its own, neither -1 (everybody) nor a
\* pid that waitpid() has given back (434-437).
KillsOwnChild ==
    pc = "kill" => pid[Cur] \in Pids /\ proc[pid[Cur]] # "free"

\* No module process runs behind the manager's back: a child that was not
\* told to end is the child of a module that counts as running, or is about
\* to be recorded as such.
NoStrayChild ==
    \A p \in Pids : proc[p] \in {"forked", "live"} =>
        \/ \E m \in Mods : state[m] = "RUNNING" /\ pid[m] = p
        \/ pc = "record" /\ child = p
        \/ Ended

\* However SIGCHLDs coalesce, a child that has died is waited for: the signal
\* is pending or the handler is still at it (318-331).
DeathsNotMissed ==
    \A p \in Pids : proc[p] = "zombie" => chldPending \/ inChld \/ Ended

\* A dead module is on its way to be restarted or to be let go: it is marked
\* and the manager dirty, the restart pass has not gone by it, a
\* do_module_exit is at it, or the manager is stopping ("This flow guarentees
\* we do not miss any dead modules", 567-568).
InPass(m) == ctx = "restart_mods" /\ \E i \in DOMAIN queue : queue[i] = m
BeingExited(m) == pc \in {"unmask", "close"} /\ m = Cur
DeadIsHandled ==
    \A m \in Mods : state[m] = "DEAD" =>
        \/ needsRestart[m] /\ modsDirty
        \/ needsRestart[m] /\ InPass(m)
        \/ BeingExited(m)
        \/ status = "STOPPED" \/ Ended

\* When shutdown_manager exits it has told every module it started to end.
ShutdownLeavesNone ==
    (ctx = "shutdown" /\ pc = "next" /\ queue = <<>>) =>
        \A p \in Pids : proc[p] \notin {"forked", "live"}

(***************************************************************************)
(* Action properties                                                       *)
(***************************************************************************)

\* The restart pass works on modules that have died ("has died with code (%d)
\* attempting to restart", 528).
RestartOnlyTheDead ==
    [][(ctx = "restart_mods" /\ pc = "next" /\ pc' = "exit") => state[Cur] = "DEAD"]_vars

(***************************************************************************)
(* Statements of the repository the code does not keep                     *)
(***************************************************************************)
\* "We will poll() on ... All module pipe file descriptors" (793-795): each
\* has a slot in the array.
EveryPipeHasASlot == pc = "fill" => Cardinality(HasPipe) <= nslots

(***************************************************************************)
(* Liveness                                                                *)
(***************************************************************************)

\* Once the manager has shut down, its modules end.
ModulesEnd == (pc = "exited") ~> [](\A p \in Pids : proc[p] \notin Alive)

\* A request to stop is obeyed ("This signal means that the manager should
\* stop", 487-489).
StopIsObeyed == (status = "STOPPED" /\ ctx # "startup") ~> Ended

(***************************************************************************)
(* The refinement: a module is recovering while __restart_mods works on    *)
(* it, crashed from child_death_handler on, and down from the moment       *)
(* do_module_exit has taken it.                                            *)
(***************************************************************************)
Recovering(m) ==
    /\ ctx = "restart_mods" /\ queue # <<>> /\ m = Cur
    /\ pc \in {"exit", "kill", "unmask", "close", "attempt", "init", "fork", "record"}

svc == [m \in Mods |->
    IF Ended THEN "down"
    ELSE IF Recovering(m) THEN "recovering"
    ELSE IF state[m] = "RUNNING" THEN "up"
    ELSE IF state[m] = "DEAD" /\ ~BeingExited(m) THEN "crashed" ELSE "down"]

life == IF Ended THEN pc ELSE "running"

Sup == INSTANCE Supervisor WITH fails <- numFails

\* The manager, with its signals, masks and polls, behaves like Supervisor;
\* and, whatever the scheduling, keeps its safety part.
Supervised == Sup!Spec
SupervisedSafely == Sup!Safety
=============================================================================

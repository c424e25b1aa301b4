------------------------------ MODULE Startup ------------------------------
(***************************************************************************)
(* Managers that are started, stopped and killed side by side              *)
(* (init_manager, setup_comm_socket and shutdown_manager of                *)
(* man/manager.c).  They share two files: the socket, whose name in the    *)
(* file system is the only sign that a manager runs, and the log.  A start *)
(* looks for the name, empties the log, becomes a daemon and only then     *)
(* takes the name.                                                         *)
(***************************************************************************)
EXTENDS Naturals

CONSTANTS
    Managers,  \* starts of the manager; each happens once
    NoOne,     \* no manager
    MaxLines   \* bound: lines that a manager logs while it serves

ASSUME StartupAssumption == NoOne \notin Managers /\ MaxLines \in Nat

VARIABLES
    pc,     \* what each manager does next, or how it ended
    file,   \* whose socket MANAGER_SOCK_PATH names
    log,    \* whose line stands where in the log file
    offset, \* each manager's offset in the log file
    racers  \* history: who else could still write when a manager took the name
vars == <<pc, file, log, offset, racers>>

Lines == 1 .. MaxLines + 2
NoLines == [i \in Lines |-> NoOne]

Goes(m, to) == pc' = [pc EXCEPT ![m] = to]

\* do_log.  The log is not opened to append: a line goes where its manager's
\* last one ended, whatever others have written there.
Put(m) ==
    /\ log' = [log EXCEPT ![offset[m] + 1] = m]
    /\ offset' = [offset EXCEPT ![m] = @ + 1]

Init ==
    /\ pc = [m \in Managers |-> "off"] /\ file = NoOne
    /\ log = NoLines /\ offset = [m \in Managers |-> 0]
    /\ racers = [m \in Managers |-> {}]

Launch(m) == pc[m] = "off" /\ Goes(m, "stat") /\ UNCHANGED <<file, log, offset, racers>>

\* "Manager already running."
Stat(m) ==
    /\ pc[m] = "stat"
    /\ Goes(m, IF file = NoOne THEN "open" ELSE "refused")
    /\ UNCHANGED <<file, log, offset, racers>>

\* Mutant: the log is opened before the socket is looked for.
LogOpenedFirst(m) ==
    /\ pc[m] \in {"stat", "open"}
    /\ log' = NoLines /\ offset' = [offset EXCEPT ![m] = 0]
    /\ IF pc[m] = "open" THEN Goes(m, "daemon") ELSE UNCHANGED pc
    /\ UNCHANGED <<file, racers>>

\* init_manager_log_file: O_TRUNC.
OpenLog(m) ==
    /\ pc[m] = "open"
    /\ log' = NoLines /\ offset' = [offset EXCEPT ![m] = 0]
    /\ Goes(m, "daemon")
    /\ UNCHANGED <<file, racers>>

\* The parent ends here, with success.
Daemon(m) == pc[m] = "daemon" /\ Goes(m, "bind") /\ UNCHANGED <<file, log, offset, racers>>

\* The starts past stat(), and the managers that have removed the name and not
\* yet logged that they are done.
Racing(m) == {k \in Managers \ {m} : pc[k] \in {"open", "daemon", "bind", "last"}}

\* Mutant: a name that is in use is removed and taken.
BindAnyway(m) ==
    /\ pc[m] = "bind"
    /\ file' = m /\ racers' = [racers EXCEPT ![m] = Racing(m)]
    /\ Goes(m, "listen") /\ UNCHANGED <<log, offset>>

\* bind() makes the name or fails.
Bind(m) ==
    /\ pc[m] = "bind" /\ file = NoOne
    /\ file' = m /\ racers' = [racers EXCEPT ![m] = Racing(m)]
    /\ Goes(m, "listen") /\ UNCHANGED <<log, offset>>

BindFails(m) ==
    /\ pc[m] = "bind" /\ file # NoOne
    /\ Put(m) /\ Goes(m, "refused")
    /\ UNCHANGED <<file, racers>>

Listen(m) == pc[m] = "listen" /\ Goes(m, "serving") /\ UNCHANGED <<file, log, offset, racers>>

\* Another call fails; past dup2() the message goes to the log.  The name, if
\* taken, stays.
Fail(m) ==
    /\ \/ pc[m] = "open" /\ UNCHANGED <<log, offset>> /\ Goes(m, "failed")
       \/ pc[m] \in {"daemon", "bind"} /\ Put(m) /\ Goes(m, "failed")
       \/ pc[m] = "listen" /\ Put(m) /\ Goes(m, "crashed")
    /\ UNCHANGED <<file, racers>>

Say(m) ==
    /\ pc[m] = "serving" /\ offset[m] < MaxLines
    /\ Put(m) /\ UNCHANGED <<pc, file, racers>>

\* shutdown_manager: the socket is closed, then its name removed.
Close(m) == pc[m] = "serving" /\ Goes(m, "unlink") /\ UNCHANGED <<file, log, offset, racers>>

\* Mutant: the name is left behind.
UnlinkNothing(m) ==
    /\ pc[m] = "unlink" /\ Goes(m, "last") /\ UNCHANGED <<file, log, offset, racers>>

Unlink(m) ==
    /\ pc[m] = "unlink"
    /\ file' = NoOne /\ Goes(m, "last")
    /\ UNCHANGED <<log, offset, racers>>

\* "Manager shutdown complete.", wherever the log's place is by now.
LastLine(m) == pc[m] = "last" /\ Put(m) /\ Goes(m, "exited") /\ UNCHANGED <<file, racers>>

\* A kill or the end of the machine's power; past unlink() only the last line is
\* missing.
Crash(m) ==
    /\ pc[m] \notin {"off", "refused", "failed", "exited", "crashed"}
    /\ Goes(m, IF pc[m] = "last" THEN "exited" ELSE "crashed")
    /\ UNCHANGED <<file, log, offset, racers>>

\* Somebody removes the file of a manager that is no more.
Clear(m) ==
    /\ file = m /\ pc[m] = "crashed" /\ file' = NoOne
    /\ UNCHANGED <<pc, log, offset, racers>>

Proceeds(m) ==
    \/ Stat(m) \/ OpenLog(m) \/ Daemon(m) \/ Bind(m) \/ BindFails(m) \/ Listen(m)
    \/ Unlink(m) \/ LastLine(m)
Step(m) == Launch(m) \/ Proceeds(m) \/ Fail(m) \/ Say(m) \/ Close(m) \/ Crash(m) \/ Clear(m)
Next == \E m \in Managers : Step(m)

\* Processes run; nobody needs to start, stop or kill one.
Spec == Init /\ [][Next]_vars /\ \A m \in Managers : WF_vars(Proceeds(m))

----------------------------------------------------------------------------
Bound(m) == pc[m] \in {"listen", "serving", "unlink"}

\* Every variable stays in its range.
TypeOK ==
    /\ pc \in [Managers -> {"off", "stat", "open", "daemon", "bind", "listen", "serving", "unlink",
                            "last", "exited", "refused", "failed", "crashed"}]
    /\ file \in Managers \union {NoOne}
    /\ log \in [Lines -> Managers \union {NoOne}]
    /\ offset \in [Managers -> 0 .. MaxLines + 1]
    /\ racers \in [Managers -> SUBSET Managers]

\* The name leads to the manager that has taken it until it removes it itself
\* (manager.c 381, 470): so there is one at a time, and what it unlinks is its own.
NamesTheServer == \A m \in Managers : Bound(m) => file = m

\* What a manager has logged stands in the log, in order and without holes, unless
\* another could still write to it when this one took the name: a start that was
\* past stat(), or a manager that had removed the name and owed its last line
\* (manager.c 345, 400, 413, 470-472).
LogIsItsOwn ==
    \A m \in Managers : Bound(m) /\ racers[m] = {} => \A i \in 1 .. offset[m] : log[i] = m

\* Startup implements OneServer, its promise that a start comes to an end included.
fate == [m \in Managers |->
    CASE pc[m] = "off" -> "idle"
      [] pc[m] \in {"stat", "open", "daemon", "bind"} -> "trying"
      [] Bound(m) -> "serving"
      [] pc[m] \in {"last", "exited"} -> "ended"
      [] OTHER -> pc[m]]
Server == INSTANCE OneServer WITH holder <- file
OneServer == Server!Spec
=============================================================================

------------------------------ MODULE PollSet ------------------------------
(***************************************************************************)
(* The manager's file descriptors: the listening socket, a connection per  *)
(* session (man/session.c) and a pipe per module (man/manager.c).          *)
(*                                                                         *)
(* The manager rebuilds the array it polls when something is dirty, polls, *)
(* and serves the marked entries in the order of the array, by number.     *)
(* Serving one entry opens and closes descriptors, and the kernel gives    *)
(* out the lowest number that is free: a number further on in the array    *)
(* may name something else by the time it is served.                       *)
(***************************************************************************)
EXTENDS Naturals, FiniteSets, Sequences, SequencesExt, FiniteSetsExt

CONSTANTS
    Conns,    \* connections that clients make
    ModList,  \* the array `mods`
    Listen,   \* what listen_sock's descriptor names
    Free,     \* what no descriptor names
    None,     \* no descriptor, -1
    MaxFail,  \* MAX_FAIL_FOR_STOP
    MaxLeaks, \* bound: pipes that are lost
    MaxFd     \* bound: descriptors, enough for everything to be open

Mods == ToSet(ModList)
Fds == 1 .. MaxFd
ListenFd == 1

ASSUME ConstantsAssumption ==
    /\ IsFiniteSet(Conns) /\ ModList \in Seq(Mods) /\ IsInjective(ModList)
    /\ Conns \intersect Mods = {}
    /\ Listen \notin Conns \union Mods /\ Free \notin Conns \union Mods \union {Listen}
    /\ None \notin Fds /\ MaxFail \in Nat

\* The listening socket, and one more for the other end of a pipe.
ASSUME FdAssumption ==
    MaxFd \in Nat /\ MaxLeaks \in Nat /\ MaxFd > 1 + Cardinality(Conns) + Cardinality(Mods) + MaxLeaks

VARIABLES
    names,    \* the kernel's table: what each descriptor names
    queued,   \* connections to be accepted, oldest first
    input,    \* connections with bytes, or the end of the stream, to be read
    talk,     \* modules with output to be read
    running,  \* modules whose state is MODULE_RUNNING
    marks,    \* modules with needs_restart
    fails,    \* num_fails of the modules
    sessions, \* the list of sessions
    commFd,   \* comm_fd of the sessions
    pipeFd,   \* pipefd of the modules
    dirty,    \* mods_dirty or sessions_dirty
    status,   \* RUNNING or STOPPED
    array,    \* the array that is polled
    marked,   \* entries with POLLIN in revents
    entry,    \* the entry to be served next
    pc        \* "setup", "loop", "serve", "blocked" in a read, "closed", "crashed"

vars == <<names, queued, input, talk, running, marks, fails, sessions, commFd, pipeFd, dirty,
          status, array, marked, entry, pc>>
clients == <<queued, input>>
modules == <<pipeFd, running, marks, fails, talk>>
list    == <<sessions, commFd>>
polling == <<array, marked, entry>>

\* The kernel gives out the lowest number.
Lowest(tbl) == Min({f \in Fds : tbl[f] = Free})

----------------------------------------------------------------------------
(***************************************************************************)
(* Clients and modules                                                     *)
(***************************************************************************)
Dial(c) ==
    /\ c \notin ToSet(queued) /\ commFd[c] = None
    /\ queued' = Append(queued, c)
    /\ UNCHANGED <<names, input, modules, list, dirty, status, polling, pc>>

Speak(c) ==
    /\ c \notin input /\ (c \in ToSet(queued) \/ commFd[c] # None)
    /\ input' = input \union {c}
    /\ UNCHANGED <<names, queued, modules, list, dirty, status, polling, pc>>

Talk(m) ==
    /\ m \in running \ talk
    /\ talk' = talk \union {m}
    /\ UNCHANGED <<names, clients, pipeFd, running, marks, fails, list, dirty, status, polling, pc>>

\* A module dies and child_death_handler records it; its pipe stays open.
\* A death before setup_poll_fds has filled the array is Manager's matter.
Die(m) ==
    /\ m \in running /\ pc \in {"loop", "serve"}
    /\ running' = running \ {m} /\ marks' = marks \union {m} /\ dirty' = TRUE
    /\ UNCHANGED <<names, clients, pipeFd, fails, talk, list, status, polling, pc>>

\* term_handler.  That the loop may poll once more is Manager's matter.
Term ==
    /\ pc \in {"setup", "loop", "serve"}
    /\ status' = "STOPPED"
    /\ UNCHANGED <<names, clients, modules, list, dirty, polling, pc>>

----------------------------------------------------------------------------
(***************************************************************************)
(* Modules are started and exited: t holds names, pipeFd, running, dirty   *)
(***************************************************************************)
Parked(t, m) == t.pipeFd[m] = None

\* Mutant: the pipe is not closed.
ExitKeepsPipe(t, m) ==
    [t EXCEPT !.pipeFd[m] = None, !.running = @ \ {m}, !.dirty = TRUE]

\* do_module_exit
Exit(t, m) ==
    IF Parked(t, m) THEN t
    ELSE [t EXCEPT !.names[t.pipeFd[m]] = Free, !.pipeFd[m] = None, !.running = @ \ {m},
                   !.dirty = TRUE]

Leaked(t) == {f \in Fds : t.names[f] \in Mods /\ t.pipeFd[t.names[f]] # f}

\* do_module_init.  pipe() takes two numbers, the write end is closed after
\* the fork.  A dead module's pipe is given up; the bound is MaxLeaks.
Start(t, m) ==
    IF m \in t.running \/ (~Parked(t, m) /\ Cardinality(Leaked(t)) >= MaxLeaks) THEN t
    ELSE LET f == Lowest(t.names)
         IN  [t EXCEPT !.names[f] = m, !.pipeFd[m] = f, !.running = @ \union {m}, !.dirty = TRUE]

\* The modules of a list in their order: some are exited, some are started.
Turn(t, m, exits, starts) ==
    LET u == IF m \in exits THEN Exit(t, m) ELSE t
    IN  IF m \in starts THEN Start(u, m) ELSE u
Turned(t, mods, exits, starts) == FoldLeft(LAMBDA u, m : Turn(u, m, exits, starts), t, mods)

Table == [names |-> names, pipeFd |-> pipeFd, running |-> running, dirty |-> dirty]
\* What a pipe held is gone with it; a module that was started again on the same
\* number may have spoken already.
SetTable(t) ==
    /\ names' = t.names /\ pipeFd' = t.pipeFd /\ running' = t.running
    /\ talk' = {m \in talk : t.pipeFd[m] # None /\ t.pipeFd[m] = pipeFd[m]}

\* The loop is entered with the modules that the command line asks for.
Init ==
    /\ \E early \in SUBSET Mods :
        LET Blank == [names   |-> [f \in Fds |-> IF f = ListenFd THEN Listen ELSE Free],
                      pipeFd  |-> [m \in Mods |-> None],
                      running |-> {},
                      dirty   |-> FALSE]
            t == Turned(Blank, ModList, {}, early)
        IN  names = t.names /\ pipeFd = t.pipeFd /\ running = t.running /\ dirty = t.dirty
    /\ queued = <<>> /\ input = {}
    /\ talk = {} /\ marks = {} /\ fails = [m \in Mods |-> 0]
    /\ sessions = <<>> /\ commFd = [c \in Conns |-> None]
    /\ status = "RUNNING"
    /\ array = <<>> /\ marked = {} /\ entry = 1
    /\ pc = "setup"

----------------------------------------------------------------------------
(***************************************************************************)
(* The loop                                                                *)
(***************************************************************************)
Pipes == FoldLeft(LAMBDA fds, m : IF pipeFd[m] = None THEN fds ELSE Append(fds, pipeFd[m]),
                  <<>>, ModList)
Comms == [i \in 1 .. Len(sessions) |-> commFd[sessions[i]]]

\* Mutant: the listening socket comes after the sessions.
SetupListenLate ==
    /\ pc = "setup"
    /\ array' = Comms \o <<ListenFd>> \o Pipes
    /\ pc' = "loop"
    /\ UNCHANGED <<names, clients, modules, list, dirty, status, marked, entry>>

\* setup_poll_fds
Setup ==
    /\ pc = "setup"
    /\ array' = <<ListenFd>> \o Comms \o Pipes
    /\ pc' = "loop"
    /\ UNCHANGED <<names, clients, modules, list, dirty, status, marked, entry>>

Exhausted == {m \in marks : fails[m] + 1 >= MaxFail}

\* manager_cleanup_dirt: every marked module exits and is started again, or is
\* left off after too many failures, those of this fork() and pipe() included.
Cleanup ==
    /\ pc = "loop" /\ dirty /\ status = "RUNNING"
    /\ \E off \in SUBSET marks :
        /\ Exhausted \subseteq off
        /\ SetTable(Turned(Table, ModList, marks, marks \ off))
        /\ fails' = [m \in Mods |-> IF m \in off THEN MaxFail
                                    ELSE IF m \in marks THEN fails[m] + 1 ELSE fails[m]]
    /\ marks' = {} /\ dirty' = FALSE
    /\ pc' = "setup"
    /\ UNCHANGED <<clients, list, status, polling>>

Readable(f) ==
    \/ names[f] = Listen /\ queued # <<>>
    \/ names[f] \in input
    \/ names[f] \in talk

Poll ==
    /\ pc = "loop" /\ ~dirty /\ status = "RUNNING"
    /\ marked' = {f \in ToSet(array) : Readable(f)} /\ marked' # {}
    /\ entry' = 1
    /\ pc' = "serve"
    /\ UNCHANGED <<names, clients, modules, list, dirty, status, array>>

----------------------------------------------------------------------------
(***************************************************************************)
(* service_fds: one entry of the array                                     *)
(***************************************************************************)
Fd == array[entry]
Serving == pc = "serve" /\ entry <= Len(array) /\ Fd \in marked
IsPipe == \E m \in Mods : pipeFd[m] = Fd
Session == {c \in ToSet(sessions) : commFd[c] = Fd}

Served == entry' = entry + 1 /\ UNCHANGED <<array, marked, pc>>

PassDone ==
    /\ pc = "serve" /\ entry > Len(array)
    /\ pc' = "loop" /\ marked' = {} /\ entry' = 1
    /\ UNCHANGED <<names, clients, modules, list, dirty, status, array>>

Skip ==
    /\ pc = "serve" /\ entry <= Len(array)
    /\ Fd \notin marked \/ (Fd # ListenFd /\ ~IsPipe /\ Session = {})
    /\ Served
    /\ UNCHANGED <<names, clients, modules, list, dirty, status>>

\* accept(): the new session is put at the head of the list.
Accept ==
    LET f == Lowest(names)
        c == Head(queued)
    IN  /\ names' = [names EXCEPT ![f] = c] /\ commFd' = [commFd EXCEPT ![c] = f]
        /\ sessions' = <<c>> \o sessions
        /\ queued' = Tail(queued)

\* Mutant: a new session does not make the manager dirty.
ServeListenClean ==
    /\ Serving /\ Fd = ListenFd
    /\ Accept /\ Served
    /\ UNCHANGED <<input, modules, dirty, status>>

ServeListen ==
    /\ Serving /\ Fd = ListenFd
    /\ Accept /\ dirty' = TRUE /\ Served
    /\ UNCHANGED <<input, modules, status>>

\* read_mod_input: the pipe does not block, and is read until it is empty.
ServeModule ==
    /\ Serving /\ Fd # ListenFd
    /\ \E m \in Mods : pipeFd[m] = Fd /\ talk' = talk \ {m}
    /\ Served
    /\ UNCHANGED <<names, clients, pipeFd, running, marks, fails, list, dirty, status>>

ServesSession(c) == Serving /\ Fd # ListenFd /\ ~IsPipe /\ c \in Session

\* Part of a command, or one that opens and closes nothing.  The connection
\* blocks: with nothing to read, so does the manager.
SessionReads(c) ==
    /\ ServesSession(c)
    /\ input' = input \ {c}
    /\ pc' = IF c \in input THEN "serve" ELSE "blocked"
    /\ entry' = entry + 1
    /\ UNCHANGED <<names, queued, modules, list, dirty, status, array, marked>>

Consumes(c) == ServesSession(c) /\ c \in input /\ input' = input \ {c} /\ Served

\* close_session
CloseSession(c) ==
    /\ names' = [names EXCEPT ![commFd[c]] = Free] /\ commFd' = [commFd EXCEPT ![c] = None]
    /\ \E i \in DOMAIN sessions : sessions[i] = c /\ sessions' = RemoveAt(sessions, i)

\* Mutant: closing a session does not make the manager dirty.
SessionEndsClean(c) ==
    /\ Consumes(c) /\ CloseSession(c)
    /\ UNCHANGED <<queued, modules, dirty, status>>

SessionEnds(c) ==
    /\ Consumes(c) /\ CloseSession(c) /\ dirty' = TRUE
    /\ UNCHANGED <<queued, modules, status>>

\* disable (exits), enable (starts) or restart (both), with the names of one or two modules.
SessionCommand(c) ==
    /\ Consumes(c)
    /\ \E words \in SeqOf(Mods, 2), exits, starts \in {{}, Mods} :
           LET t == Turned(Table, words, exits, starts) IN SetTable(t) /\ dirty' = t.dirty
    /\ UNCHANGED <<queued, marks, fails, list, status>>

\* The pass goes on after the command.
SessionStops(c) ==
    /\ Consumes(c) /\ status' = "STOPPED"
    /\ UNCHANGED <<names, queued, modules, list, dirty>>

----------------------------------------------------------------------------
(***************************************************************************)
(* close_session_handler                                                   *)
(***************************************************************************)
\* The loop closes not the session it visits but the one after it, which is
\* then the one it visits.  After the last session that is the head of the
\* list, the session handler taken for a session: some descriptor is closed,
\* whichever is read from behind it, and the handler is freed and used.
CloseHandler ==
    /\ pc = "loop" /\ status = "STOPPED"
    /\ \/ sessions = <<>> /\ pc' = "closed" /\ UNCHANGED <<names, list>>
       \/ /\ sessions # <<>>
          /\ sessions' = <<Head(sessions)>>
          /\ commFd' = [c \in Conns |-> IF c \in ToSet(Tail(sessions)) THEN None ELSE commFd[c]]
          /\ \E any \in SUBSET Fds :
                 /\ Cardinality(any) <= 1
                 /\ names' = [f \in Fds |-> IF f \in any \/ names[f] \in ToSet(Tail(sessions))
                                            THEN Free ELSE names[f]]
          /\ pc' = "closed"
       \/ sessions # <<>> /\ pc' = "crashed" /\ UNCHANGED <<names, list>>
    /\ UNCHANGED <<clients, modules, dirty, status, polling>>

----------------------------------------------------------------------------
Serves ==
    \/ PassDone \/ Skip \/ ServeListen \/ ServeModule
    \/ \E c \in Conns :
          SessionReads(c) \/ SessionEnds(c) \/ SessionStops(c) \/ SessionCommand(c)

Manages == Setup \/ Cleanup \/ Poll \/ Serves \/ CloseHandler

Next ==
    \/ \E c \in Conns : Dial(c) \/ Speak(c)
    \/ \E m \in Mods : Talk(m) \/ Die(m)
    \/ Term
    \/ Manages

\* The manager's thread keeps running; clients, modules and signals need not.
Spec == Init /\ [][Next]_vars /\ WF_vars(Manages)

----------------------------------------------------------------------------

\* The one thread that serves everything never waits for a client, though the
\* number it serves may have been closed and given out again since poll()
\* marked it (manager.c 765-788).
NeverBlocks == pc # "blocked"

\* When the manager polls, each open session and each module's pipe is in the
\* array, once, and nothing that was closed is (manager.c 799-847).
PollsWhatIsOpen ==
    pc = "loop" /\ ~dirty =>
        /\ IsInjective(array)
        /\ ToSet(array) = {f \in Fds : names[f] # Free} \ Leaked(Table)

\* What is open is the listening socket, one session's or one module's, and
\* theirs is open: no session closes a pipe, no module a connection, none is
\* closed twice (session.c 112, manager.c 442).  Pipes are lost, at
\* manager.c 238, when a module is enabled whose death is recorded only.
EveryFdIsOwned ==
    pc \notin {"closed", "crashed"} =>
        /\ \A c \in ToSet(sessions) : names[commFd[c]] = c
        /\ \A m \in Mods : pipeFd[m] # None => names[pipeFd[m]] = m
        /\ \A f \in Fds \ Leaked(Table) :
              names[f] \in Conns \union Mods =>
                  \/ \E c \in ToSet(sessions) : commFd[c] = f
                  \/ \E m \in Mods : pipeFd[m] = f
        /\ Cardinality(Leaked(Table)) <= MaxLeaks

\* A client that has something to say is heard, unless the manager is stopped.
EveryClientIsHeard ==
    \A c \in Conns : c \in ToSet(queued) \/ c \in input
        ~> (c \notin ToSet(queued) /\ c \notin input) \/ status = "STOPPED"

\* What close_session_handler says it does (session.c 145-147).
SessionsReleased == pc = "closed" => \A f \in Fds : names[f] \notin Conns
=============================================================================

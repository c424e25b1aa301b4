------------------------------ MODULE LogRelay ------------------------------
(***************************************************************************)
(* What the modules say, on its way through the manager into the log       *)
(* (read_mod_input of man/manager.c): the manager reads a module's pipe    *)
(* until it is empty, through one buffer that begins with the module's     *)
(* name, and writes the buffer to the log whenever it is full and at the   *)
(* end.  The SIGCHLD handler writes to the same file at any moment.        *)
(***************************************************************************)
EXTENDS Integers, Sequences, SequencesExt, FiniteSetsExt

CONSTANTS
    ModList,     \* the array `mods`
    BufLen,      \* buf_len; the name takes one place
    PipeCap,     \* what a pipe holds
    MaxSaid,     \* bound, by module: bytes that it says
    BreakAt,     \* bound: which of a module's bytes may be a newline
    MaxRestarts  \* bound: modules that are started

Mods == ToSet(ModList)

ASSUME RelayAssumption ==
    BufLen \in Nat /\ BufLen > 1 /\ PipeCap \in Nat /\ MaxSaid \in [Mods -> Nat] /\ MaxRestarts \in Nat

\* A module is not taken for what else is in the log and the buffer.
ASSUME ModListAssumption ==
    ModList \in Seq(Mods) /\ Mods \intersect {"newline", "manager", "nothing"} = {}

VARIABLES
    alive,    \* modules that run
    killed,   \* processes that were told to end and have not yet
    pending,  \* SIGCHLD is pending
    open,     \* modules whose pipefd is open
    said,     \* bytes that each module has written; they are told apart by number
    breaks,   \* those of them that are newlines
    taken,    \* bytes that have left each module's pipe
    dropped,  \* those of them that were in it when it was closed
    marks,    \* modules with POLLIN in revents
    entry,    \* the module to be served next
    buf,      \* the buffer of read_mod_input
    left,     \* bytes_left
    log,      \* what the thread has written to the log file
    asides,   \* after how many of those entries a line of the handler's stands
    restarts, \* modules that were started
    pc        \* "loop", "serve", "read"
children == <<alive, killed, pending, asides>>
vars == <<children, open, said, breaks, taken, dropped, marks, entry, buf, left, log, restarts, pc>>
modules == <<children, open, said, breaks, dropped, restarts>>
relay == <<marks, entry, buf, left>>

Name(m) == [of |-> m, byte |-> 0]
Byte(m, i) == [of |-> m, byte |-> i]
Newline == [of |-> "newline", byte |-> 0]
Line == [of |-> "manager", byte |-> 0]
Zero == [of |-> "nothing", byte |-> 0]

IsBreak(x) == x = Newline \/ (x.of \in Mods /\ x.byte \in breaks[x.of])

Unread(m) == said[m] - taken[m]
Module == ModList[entry]
Blank == [i \in 1 .. BufLen |-> Zero]
Used == SubSeq(buf, 1, BufLen - left)

Init ==
    /\ alive = Mods /\ killed = 0 /\ pending = FALSE /\ asides = {}
    /\ open = Mods
    /\ said = [m \in Mods |-> 0] /\ taken = said
    /\ breaks = [m \in Mods |-> {}] /\ dropped = breaks
    /\ marks = {} /\ entry = 1
    /\ buf = Blank /\ left = BufLen
    /\ log = <<>> /\ restarts = 0
    /\ pc = "loop"

----------------------------------------------------------------------------
\* A module blocks when its pipe is full.
Say(m, break) ==
    /\ m \in alive /\ said[m] < MaxSaid[m] /\ Unread(m) < PipeCap
    /\ said' = [said EXCEPT ![m] = @ + 1]
    /\ break => said'[m] \in BreakAt
    /\ breaks' = IF break THEN [breaks EXCEPT ![m] = @ \union {said'[m]}] ELSE breaks
    /\ UNCHANGED <<children, open, taken, dropped, relay, log, restarts, pc>>

Die(m) ==
    /\ m \in alive /\ alive' = alive \ {m} /\ pending' = TRUE
    /\ UNCHANGED <<killed, asides, open, said, breaks, taken, dropped, relay, log, restarts, pc>>

\* A process that was told to ends.
Obey ==
    /\ killed > 0 /\ killed' = killed - 1 /\ pending' = TRUE
    /\ UNCHANGED <<alive, asides, open, said, breaks, taken, dropped, relay, log, restarts, pc>>

\* child_death_handler, wherever the thread is.  waitpid() fails, and the handler
\* says so, when no child is left.
Reap ==
    /\ pending /\ pending' = FALSE
    /\ asides' = IF alive = {} /\ killed = 0 THEN asides \union {Len(log)} ELSE asides
    /\ UNCHANGED <<alive, killed, open, said, breaks, taken, dropped, relay, log, restarts, pc>>

\* Between polls dead modules are cleaned up; commands come first in a pass.
BetweenReads == pc = "loop" \/ (pc = "serve" /\ entry = 1)

\* do_module_exit: what the pipe still holds is gone with it.
Exit(m) ==
    /\ BetweenReads /\ m \in open
    /\ open' = open \ {m} /\ alive' = alive \ {m}
    /\ killed' = IF m \in alive THEN killed + 1 ELSE killed
    /\ dropped' = [dropped EXCEPT ![m] = @ \union (taken[m] + 1) .. said[m]]
    /\ taken' = [taken EXCEPT ![m] = said[m]]
    /\ marks' = marks \ {m}
    /\ UNCHANGED <<pending, asides, said, breaks, entry, buf, left, log, restarts, pc>>

\* do_module_init.  The new pipe may get the number of an entry that is marked.
Start(m) ==
    /\ BetweenReads /\ m \notin open /\ restarts < MaxRestarts
    /\ open' = open \union {m} /\ alive' = alive \union {m}
    /\ log' = Append(log, Line) /\ restarts' = restarts + 1
    /\ marks' \in {marks} \union (IF pc = "serve" THEN {marks \union {m}} ELSE {})
    /\ UNCHANGED <<killed, pending, asides, said, breaks, taken, dropped, entry, buf, left, pc>>

----------------------------------------------------------------------------
Poll ==
    /\ pc = "loop"
    /\ marks' = {m \in open : Unread(m) > 0} /\ marks' # {}
    /\ entry' = 1 /\ pc' = "serve"
    /\ UNCHANGED <<modules, taken, buf, left, log>>

Skip ==
    /\ pc = "serve" /\ entry <= Len(ModList) /\ Module \notin marks
    /\ entry' = entry + 1
    /\ UNCHANGED <<modules, taken, marks, buf, left, log, pc>>

PassDone ==
    /\ pc = "serve" /\ entry > Len(ModList)
    /\ pc' = "loop" /\ marks' = {} /\ entry' = 1
    /\ UNCHANGED <<modules, taken, buf, left, log>>

Fill(name) ==
    /\ buf' = [Blank EXCEPT ![1] = name]
    /\ left' = BufLen - 1
    /\ pc' = "read"
    /\ UNCHANGED <<modules, taken, marks, entry, log>>

\* Mutant: the last module of the array is never looked at.
BeginNotLast == pc = "serve" /\ entry < Len(ModList) /\ Module \in marks /\ Fill(Name(Module))

\* Mutant: the name is always the first module's.
BeginNameOfFirst ==
    pc = "serve" /\ entry <= Len(ModList) /\ Module \in marks /\ Fill(Name(Head(ModList)))

Begin == pc = "serve" /\ entry <= Len(ModList) /\ Module \in marks /\ Fill(Name(Module))

\* What read() puts into the buffer from place `at` on.
Reading(at, n) ==
    buf' = [i \in 1 .. BufLen |-> IF i - at \in 1 .. n THEN Byte(Module, taken[Module] + i - at)
                                  ELSE buf[i]]

Read ==
    /\ pc = "read" /\ Unread(Module) > 0
    /\ LET n == Min({left, Unread(Module)}) IN
        /\ Reading(BufLen - left, n)
        /\ taken' = [taken EXCEPT ![Module] = @ + n]
        /\ IF n = left THEN log' = log \o buf' /\ left' = BufLen
                       ELSE left' = left - n /\ UNCHANGED log
    /\ UNCHANGED <<modules, marks, entry, pc>>

\* The buffer is local to the call.
Served ==
    /\ entry' = entry + 1 /\ pc' = "serve"
    /\ buf' = Blank /\ left' = BufLen
    /\ UNCHANGED <<modules, taken, marks>>

\* Mutant: no newline is added.
FinishPlain ==
    /\ pc = "read" /\ Unread(Module) = 0
    /\ log' = log \o Used /\ Served

\* Mutant: the newline takes the place of the last byte.
FinishOverLast ==
    /\ pc = "read" /\ Unread(Module) = 0
    /\ log' = log \o IF left = BufLen \/ \E i \in 1 .. BufLen : IsBreak(buf[i]) THEN Used
                     ELSE Append(Front(Used), Newline)
    /\ Served

\* The pipe is empty.  memchr() searches the whole buffer, what the last write
\* left in it included.
Finish ==
    /\ pc = "read" /\ Unread(Module) = 0
    /\ log' = log \o IF left = BufLen \/ \E i \in 1 .. BufLen : IsBreak(buf[i]) THEN Used
                     ELSE Append(Used, Newline)
    /\ Served

----------------------------------------------------------------------------
Manages == Poll \/ Skip \/ PassDone \/ Begin \/ Read \/ Finish

Next ==
    \/ \E m \in Mods : (\E b \in BOOLEAN : Say(m, b)) \/ Die(m) \/ Exit(m) \/ Start(m)
    \/ Obey \/ Reap
    \/ Manages

\* The manager's thread keeps running; modules and commands need not.
Spec == Init /\ [][Next]_vars /\ WF_vars(Manages)

----------------------------------------------------------------------------

\* The log, and what is on its way there.
Out == log \o IF pc = "read" THEN Used ELSE <<>>
BytesOf(m) == {p \in 1 .. Len(Out) : Out[p].of = m /\ Out[p].byte > 0}

\* What a module said is in the log, or in the buffer on its way there, in its
\* order, once, but for what was in a pipe that was closed (manager.c 689-705).
Relayed ==
    \A m \in Mods :
        /\ {Out[p].byte : p \in BytesOf(m)} = (1 .. taken[m]) \ dropped[m]
        /\ \A p, q \in BytesOf(m) : p < q => Out[p].byte < Out[q].byte

\* Where the burst that holds place p of the log begins.
StartsBurst(p) == log[p].of \in Mods /\ log[p].byte = 0
Burst(p) == Max({0} \union {q \in 1 .. p : StartsBurst(q) \/ log[q] = Line})

\* The last name before a byte is its module's.  Nothing of the manager's own
\* comes between, but for the handler's line, which may fall between two whole
\* buffers and nowhere else (manager.c 333, 683-695, 728).
Attributed ==
    \A p \in 1 .. Len(log) : log[p].of \in Mods =>
        /\ Burst(p) > 0 /\ log[Burst(p)] = Name(log[p].of)
        /\ \A c \in asides \intersect Burst(p) .. p - 1 : (c - Burst(p) + 1) % BufLen = 0

\* "Prepend the name of the module so we can distinguish who is talking."
\* (manager.c 674): no line of the manager's own stands between a name and what
\* it is the name of.  The handler's line breaks it.
TalksUnderItsName ==
    \A p \in 1 .. Len(log) : log[p].of \in Mods => asides \intersect Burst(p) .. p - 1 = {}

\* A burst has a newline, so that the next one begins another line, unless it
\* ends where the buffer does (manager.c 698-705).  The newline need not be last.
BurstsBreak ==
    pc # "read" =>
        \A q \in {q \in 1 .. Len(log) : StartsBurst(q)} :
            LET burst == {p \in q .. Len(log) : Burst(p) = q}
            IN  \/ \E p \in burst : IsBreak(log[p])
                \/ Cardinality(burst) % BufLen = 0

\* When the modules pause, all that was said has been taken and the manager polls.
Drained == <>[](pc = "loop" /\ \A m \in Mods : Unread(m) = 0)
=============================================================================

---------------------------- MODULE ClientTimes ----------------------------
(***************************************************************************)
(* The two programs that add up how long each client was connected:        *)
(* ltc/src/main.rs (Rust) and ltc/old_ltc/ltc.cpp (C++), of which the      *)
(* webserver runs the one its configuration names.                         *)
(*                                                                         *)
(* Both fold the lines of the server's log files, oldest file first, into  *)
(* a table with one entry per client id.  Here the server and the programs *)
(* run side by side: a line is folded in as it is written.  Lines may be   *)
(* missing, as they are in old logs (main.rs 113-117), and a file ends     *)
(* where the server stopped, whoever was connected then.                   *)
(*                                                                         *)
(* The C++ program dates lines and files by a calculation of its own, which*)
(* is wrong in January and February of leap years (ltc.cpp 234-258, see    *)
(* Calendar).  The hours of UTC_DIFF are in all its dates alike and left   *)
(* out.  It also sorts the files by these dates, so that one begun on      *)
(* 1 March may come before one begun on 29 February.  As no connection     *)
(* outlives its file, the order of the files decides which of its names a  *)
(* client is printed with, and no number.                                  *)
(***************************************************************************)
EXTENDS Integers, FiniteSets

CONSTANTS
    Ids,      \* client ids; those up to 1 are the server's own
    Absent,   \* no entry in the table
    Sinces,   \* values of the C++ program's option -d, 0 without it
    Late,     \* the moments in January and February of leap years
    Day,      \* the length of a day
    MaxTime,  \* bound: length of the logs
    MaxConn,  \* bound: connections of one client at a time
    MaxMissed \* bound: lines missing from the logs

ASSUME IdsAssumption == Ids \subseteq Nat
ASSUME AbsentAssumption == Absent \notin [num : Nat, last : Nat, total : Int]
ASSUME SinceAssumption == Sinces \subseteq Nat
ASSUME LateAssumption == Late \subseteq Nat /\ Day \in Nat
ASSUME BoundAssumption == MaxTime \in Nat /\ MaxConn \in Nat /\ MaxMissed \in Nat

VARIABLES
    now,
    online,  \* online[id]: connections the client really has
    rust,    \* ClientDatabase of main.rs
    cpp,     \* ClientDatabase of ltc.cpp
    since,   \* time_constraint of ltc.cpp
    missed,  \* history: how many lines are missing
    lost,    \* history, lost[id]: kinds of lines missing from the current file
    mixed,   \* history: ids that missed lines of both kinds in one file
    real,    \* history, real[id]: time the client was really connected
    began,   \* history, began[id]: when its current stay began
    stays,   \* history, stays[id]: time of the stays that ended before their file
    jumped,  \* history: by how much the C++ program's dates have jumped ahead
    crossed  \* history: ids connected, by the log, over a jump or a fall of them

tables == <<rust, cpp>>
jumps == <<jumped, crossed>>
vars == <<now, online, tables, since, missed, lost, mixed, real, began, stays, jumps>>

Fresh == [num |-> 0, last |-> 0, total |-> 0]
Clients == {id \in Ids : id > 1}

Init ==
    /\ now = 1
    /\ online = [id \in Ids |-> 0]
    /\ rust = [id \in Ids |-> Absent] /\ cpp = rust /\ since \in Sinces
    /\ missed = 0 /\ lost = [id \in Ids |-> {}] /\ mixed = {}
    /\ real = [id \in Ids |-> 0] /\ began = real /\ stays = real
    /\ jumped = (IF now \in Late THEN Day ELSE 0) /\ crossed = {}

----------------------------------------------------------------------------
(***************************************************************************)
(* main.rs                                                                 *)
(***************************************************************************)
RustEntry(id) == IF rust[id] = Absent THEN Fresh ELSE rust[id]

RustLogConnect(id) ==
    LET c == RustEntry(id) IN
    rust' = IF id <= 1 THEN rust
            ELSE [rust EXCEPT ![id] =
                     [c EXCEPT !.num = @ + 1, !.last = IF c.num = 0 THEN now ELSE @]]

\* The last connection of a client that we saw come ends its stay.
Ends(c) == c.num = 1 /\ c.last # 0

Credited(c, t) == [num |-> c.num - 1, last |-> 0, total |-> c.total + (t - c.last)]
Dropped(c) == [c EXCEPT !.num = @ - 1]

\* Mutant: a client nobody saw connect is credited, too.
RustLogDisconnectTrusting(id) ==
    rust' = IF id <= 1 \/ rust[id] = Absent THEN rust
            ELSE [rust EXCEPT ![id] = IF @.num <= 1 THEN Credited([@ EXCEPT !.num = 1], now)
                                                    ELSE Dropped(@)]

\* Mutant: every connection that ends is credited.
RustLogDisconnectEach(id) ==
    rust' = IF id <= 1 \/ rust[id] = Absent \/ rust[id].num = 0 THEN rust
            ELSE [rust EXCEPT ![id].num = @ - 1, ![id].total = @ + (now - rust[id].last)]

RustLogDisconnect(id) ==
    rust' = IF id <= 1 \/ rust[id] = Absent \/ rust[id].num = 0 THEN rust
            ELSE [rust EXCEPT ![id] = IF Ends(@) THEN Credited(@, now) ELSE Dropped(@)]

Reset(c) == IF c = Absent THEN Absent ELSE [c EXCEPT !.num = 0, !.last = 0]

\* Mutant: the connections are not forgotten with the file.
RustClearLate == rust' = [id \in Ids |-> IF rust[id] = Absent THEN Absent
                                         ELSE [rust[id] EXCEPT !.last = 0]]

RustClear == rust' = [id \in Ids |-> Reset(rust[id])]

----------------------------------------------------------------------------
(***************************************************************************)
(* ltc.cpp                                                                 *)
(***************************************************************************)
\* One day too many in January and February of a leap year, when the formula
\* has counted its 29 February already (RightFromMarch of Calendar).
StrToTime(t) == IF t \in Late THEN t + Day ELSE t

CppIgnores(id) == id <= 1 \/ StrToTime(now) < since

\* Mutant: a new entry has no connection yet.
CppLogConnUncounted(id) ==
    cpp' = IF CppIgnores(id) THEN cpp
           ELSE IF cpp[id] = Absent
           THEN [cpp EXCEPT ![id] = [num |-> 0, last |-> StrToTime(now), total |-> 0]]
           ELSE [cpp EXCEPT ![id].num = @ + 1,
                            ![id].last = IF cpp[id].num = 0 THEN StrToTime(now) ELSE @]

CppLogConn(id) ==
    cpp' = IF CppIgnores(id) THEN cpp
           ELSE IF cpp[id] = Absent
           THEN [cpp EXCEPT ![id] = [num |-> 1, last |-> StrToTime(now), total |-> 0]]
           ELSE [cpp EXCEPT ![id].num = @ + 1,
                            ![id].last = IF cpp[id].num = 0 THEN StrToTime(now) ELSE @]

CppLogDisconn(id) ==
    cpp' = IF CppIgnores(id) \/ cpp[id] = Absent \/ cpp[id].num = 0 THEN cpp
           ELSE [cpp EXCEPT ![id] = IF Ends(@) THEN Credited(@, StrToTime(now)) ELSE Dropped(@)]

CppReset == cpp' = [id \in Ids |-> Reset(cpp[id])]

----------------------------------------------------------------------------
(***************************************************************************)
(* The server and its log                                                  *)
(***************************************************************************)
Connected(id) == rust[id] # Absent /\ rust[id].num > 0

Tick ==
    /\ now < MaxTime
    /\ now' = now + 1
    /\ real' = [id \in Ids |-> IF online[id] > 0 THEN real[id] + 1 ELSE real[id]]
    /\ jumped' = IF now \notin Late /\ now' \in Late THEN jumped + Day ELSE jumped
    /\ crossed' = IF now \in Late <=> now' \in Late THEN crossed
                  ELSE crossed \union {id \in Ids : Connected(id)}
    /\ UNCHANGED <<online, tables, since, missed, lost, mixed, began, stays>>

Comes(id) ==
    /\ online[id] < MaxConn
    /\ online' = [online EXCEPT ![id] = @ + 1]
    /\ began' = [began EXCEPT ![id] = IF online[id] = 0 THEN now ELSE @]
    /\ UNCHANGED <<now, since, real, stays, jumps>>

Leaves(id) ==
    /\ online[id] > 0
    /\ online' = [online EXCEPT ![id] = @ - 1]
    /\ stays' = [stays EXCEPT ![id] = IF online[id] = 1 THEN @ + (now - began[id]) ELSE @]
    /\ UNCHANGED <<now, since, real, began, jumps>>

Misses(id, kind) ==
    /\ missed < MaxMissed /\ missed' = missed + 1
    /\ lost' = [lost EXCEPT ![id] = @ \union {kind}]
    /\ mixed' = IF Cardinality(lost[id] \union {kind}) > 1 THEN mixed \union {id} ELSE mixed
    /\ UNCHANGED tables

\* A line of the log, and what the programs make of it.
Connect(id) ==
    Comes(id) /\ RustLogConnect(id) /\ CppLogConn(id) /\ UNCHANGED <<missed, lost, mixed>>
Disconnect(id) ==
    Leaves(id) /\ RustLogDisconnect(id) /\ CppLogDisconn(id) /\ UNCHANGED <<missed, lost, mixed>>

\* A line that is missing from it.
ConnectUnlogged(id) == Comes(id) /\ Misses(id, "connect")
DisconnectUnlogged(id) == Leaves(id) /\ Misses(id, "disconnect")

\* The server stops and starts again: a new file.
NextFile ==
    /\ online' = [id \in Ids |-> 0]
    /\ lost' = [id \in Ids |-> {}]
    /\ RustClear /\ CppReset
    /\ UNCHANGED <<now, since, missed, mixed, real, began, stays, jumps>>

Next ==
    \/ Tick \/ NextFile
    \/ \E id \in Ids : \/ Connect(id) \/ Disconnect(id)
                       \/ ConnectUnlogged(id) \/ DisconnectUnlogged(id)

Spec == Init /\ [][Next]_vars

----------------------------------------------------------------------------

Num(db, id) == IF db[id] = Absent THEN 0 ELSE db[id].num
Last(db, id) == IF db[id] = Absent THEN 0 ELSE db[id].last
Total(db, id) == IF db[id] = Absent THEN 0 ELSE db[id].total
Running(db, id, t) == IF Last(db, id) = 0 THEN 0 ELSE t - Last(db, id)

\* The webserver may run either program (timemodule.go 40-45).  Without -d they
\* see the same connections, whatever the logs miss, and print the same time for
\* a client unless it was connected, by the log, over the midnight that begins a
\* leap year or the one that ends its February.
ProgramsAgree ==
    since = 0 => \A id \in Clients :
        /\ Num(cpp, id) = Num(rust, id)
        /\ id \notin crossed => Total(cpp, id) = Total(rust, id)

\* In a file that misses no line of a client, whatever the files before it
\* missed, the client is credited with the stays that ended, each once and in
\* full: several connections at a time are one stay (main.rs 29-38).
CreditsStays ==
    [][\A id \in Clients : lost[id] = {} /\ lost'[id] = {} =>
          Total(rust, id)' - Total(rust, id) = stays'[id] - stays[id]]_vars

\* Missing lines may lose time, they do not invent it, as long as a file does
\* not miss lines of both kinds of one client (main.rs 115-117).
InventsNoTime ==
    \A id \in Clients \ mixed : Total(rust, id) <= real[id]

\* Whatever is missing, no client gets more than the time the logs cover: no
\* moment is credited twice (ltc.cpp 83-87); with -d, the time since then, and in
\* the C++ program a day more for each leap year that began.
WithinTheLogs ==
    \A id \in Clients :
        /\ Total(rust, id) + Running(rust, id, now) < now
        /\ now + jumped >= since =>
              Total(cpp, id) + Running(cpp, id, StrToTime(now)) <= now + jumped - since

\* What ltc.cpp 146-147 says total_time_connected is, for logs that miss nothing
\* of both kinds: the time spent connected.  The program's dates break it.
TimeSpentConnected ==
    since = 0 => \A id \in Clients \ mixed : Total(cpp, id) <= real[id]
=============================================================================

--------------------------- MODULE StartupProofs ---------------------------
(***************************************************************************)
(* Proofs about Startup, for any number of managers and lines: the name    *)
(* leads to the one that serves, the log is its own, and the steps are     *)
(* those of OneServer.                                                     *)
(***************************************************************************)
EXTENDS Startup, TLAPS

Early == {"off", "stat", "open", "daemon", "bind", "listen"}
Writing == {"open", "daemon", "bind", "last"}

\* Nothing is logged before a manager serves and a line is left for its end.
OffsetsOK ==
    \A m \in Managers :
        /\ pc[m] \in Early => offset[m] = 0
        /\ pc[m] \in {"serving", "unlink", "last"} => offset[m] <= MaxLines

\* Besides a manager that has the name, only those that raced with it can still
\* open the log or write to it.
RacersKnown ==
    \A k \in Managers : Bound(k) =>
        \A m \in Managers \ {k} : pc[m] \in Writing => m \in racers[k]

Inv == TypeOK /\ OffsetsOK /\ NamesTheServer /\ RacersKnown /\ LogIsItsOwn

LEMMA Starts == Init => Inv
  BY StartupAssumption
  DEF Init, Inv, TypeOK, OffsetsOK, NamesTheServer, RacersKnown, LogIsItsOwn, Bound, Early,
      Writing, Lines, NoLines

\* The steps that change no more than the program counter.
Quiet(m) ==
    Launch(m) \/ Stat(m) \/ Daemon(m) \/ Listen(m) \/ Close(m) \/ Unlink(m) \/ Crash(m) \/ Clear(m)

LEMMA QuietSafe == ASSUME Inv, NEW m \in Managers, Quiet(m) PROVE Inv'
<1> USE StartupAssumption
    DEF Inv, TypeOK, Quiet, Launch, Stat, Daemon, Listen, Close, Unlink, Crash, Clear, Goes
<1>1. TypeOK'  OBVIOUS
<1>2. OffsetsOK'  BY DEF OffsetsOK, Early
<1>3. NamesTheServer'  BY DEF NamesTheServer, Bound
<1>4. RacersKnown'  BY DEF RacersKnown, NamesTheServer, Bound, Writing
<1>5. LogIsItsOwn'  BY DEF LogIsItsOwn, Bound
<1>6. QED  BY <1>1, <1>2, <1>3, <1>4, <1>5

LEMMA OpenLogSafe == ASSUME Inv, NEW m \in Managers, OpenLog(m) PROVE Inv'
<1> USE StartupAssumption DEF Inv, TypeOK, OpenLog, Goes
<1>1. TypeOK'  BY DEF Lines, NoLines
<1>2. OffsetsOK'  BY DEF OffsetsOK, Early
<1>3. NamesTheServer'  BY DEF NamesTheServer, Bound
<1>4. RacersKnown'  BY DEF RacersKnown, Bound, Writing
<1>5. LogIsItsOwn'
  <2>1. \A k \in Managers : Bound(k)' => m \in racers[k]
    BY DEF RacersKnown, Bound, Writing
  <2>2. QED  BY <2>1 DEF LogIsItsOwn, Bound
<1>6. QED  BY <1>1, <1>2, <1>3, <1>4, <1>5

LEMMA BindSafe == ASSUME Inv, NEW m \in Managers, Bind(m) PROVE Inv'
<1> USE StartupAssumption DEF Inv, TypeOK, Bind, Goes
<1>1. TypeOK'  BY DEF Racing
<1>2. OffsetsOK'  BY DEF OffsetsOK, Early
<1>3. \A k \in Managers : ~Bound(k)  BY DEF NamesTheServer
<1>4. NamesTheServer'  BY <1>3 DEF NamesTheServer, Bound
<1>5. RacersKnown'
  BY <1>3 DEF RacersKnown, Bound, Writing, Racing
<1>6. LogIsItsOwn'  BY <1>3 DEF LogIsItsOwn, Bound, OffsetsOK, Early
<1>7. QED  BY <1>1, <1>2, <1>4, <1>5, <1>6

\* The steps that write to the log.
Writes(m) == BindFails(m) \/ Fail(m) \/ Say(m) \/ LastLine(m)

\* A writer is the manager that has the name or a start that raced with it.
LEMMA WritesSafe == ASSUME Inv, NEW m \in Managers, Writes(m) PROVE Inv'
<1> USE StartupAssumption
    DEF Inv, TypeOK, Writes, BindFails, Fail, Say, LastLine, Goes
<1>1. TypeOK' /\ (Put(m) => offset[m] + 1 \in Lines)
  <2>1. offset[m] \in 0 .. MaxLines \/ UNCHANGED <<log, offset>>
    BY DEF OffsetsOK, Early
  <2>2. offset[m] \in 0 .. MaxLines =>
            offset[m] + 1 \in Lines /\ offset[m] + 1 \in 0 .. MaxLines + 1
    BY DEF Lines
  <2>3. CASE UNCHANGED <<log, offset>>
    <3>1. offset[m] \in Nat /\ (offset[m] < MaxLines + 2 => offset[m] + 1 \in Lines)
      BY DEF Lines
    <3>2. TypeOK' /\ offset[m] < MaxLines + 2  BY <2>3
    <3>3. QED  BY <3>1, <3>2
  <2>4. CASE offset[m] \in 0 .. MaxLines /\ Put(m)
    BY <2>2, <2>4 DEF Put
  <2>5. QED  BY <2>1, <2>2, <2>3, <2>4
<1>2. OffsetsOK'  BY DEF OffsetsOK, Early, Put
<1>3. NamesTheServer'  BY DEF NamesTheServer, Bound
<1>4. RacersKnown'  BY DEF RacersKnown, Bound, Writing
<1>5. LogIsItsOwn'
  <2> SUFFICES ASSUME NEW k \in Managers, Bound(k)', racers'[k] = {},
                      NEW i \in 1 .. offset'[k]
               PROVE  log'[i] = k
    BY DEF LogIsItsOwn
  <2>1. Bound(k) /\ racers[k] = {}  BY DEF Bound
  <2>2. CASE UNCHANGED <<log, offset>>  BY <2>1, <2>2 DEF LogIsItsOwn
  <2>3. CASE Put(m)
    <3>1. m = k
      <4>1. CASE Bound(m)  BY <4>1, <2>1 DEF NamesTheServer
      <4>2. CASE pc[m] \in Writing  BY <4>2, <2>1 DEF RacersKnown
      <4>3. QED  BY <4>1, <4>2, <2>1 DEF Bound, Writing
    <3>2. QED  BY <3>1, <2>1, <2>3, <1>1 DEF LogIsItsOwn, Put, Lines
  <2>4. QED  BY <2>2, <2>3
<1>6. QED  BY <1>1, <1>2, <1>3, <1>4, <1>5

LEMMA Inductive == Inv /\ [Next]_vars => Inv'
<1>1. ASSUME Inv, UNCHANGED vars PROVE Inv'
  BY <1>1 DEF vars, Inv, TypeOK, OffsetsOK, NamesTheServer, RacersKnown, LogIsItsOwn, Bound
<1>2. ASSUME Inv, NEW m \in Managers, Step(m) PROVE Inv'
  BY <1>2, QuietSafe, OpenLogSafe, BindSafe, WritesSafe DEF Step, Proceeds, Quiet, Writes
<1>3. QED  BY <1>1, <1>2 DEF Next

LEMMA Safe == Spec => []Inv
  BY Starts, Inductive, PTL DEF Spec

\* The variables keep their ranges.
THEOREM TypeCorrect == Spec => []TypeOK
  BY Safe, PTL DEF Inv

\* A manager that has taken the name (bind() in setup_comm_socket) has it until
\* it unlinks it, so what it unlinks is its own and no two serve.
THEOREM OneManager ==
    Spec => [](NamesTheServer /\ \A m, k \in Managers : Bound(m) /\ Bound(k) => m = k)
<1>1. Inv => NamesTheServer /\ \A m, k \in Managers : Bound(m) /\ Bound(k) => m = k
  BY DEF Inv, NamesTheServer
<1>2. QED  BY <1>1, Safe, PTL

\* Only starts past stat() and managers that have removed the name but not logged
\* their last line, at the time of its bind(), can spoil what a manager logs.
THEOREM LogKept == Spec => []LogIsItsOwn
  BY Safe, PTL DEF Inv

----------------------------------------------------------------------------
LEMMA FateStep ==
    ASSUME TypeOK, NEW m \in Managers, NEW s, Goes(m, s)
    PROVE  fate' = [fate EXCEPT ![m] = fate'[m]]
  BY DEF TypeOK, Goes, fate, Bound

\* Each step of a manager is one of OneServer's or leaves what it speaks of alone:
\* a start is refused only when the name is taken, an end gives the name back.
THEOREM ImplementsOneServer == Spec => Server!Init /\ [][Server!Next]_(Server!vars)
<1>1. Init => Server!Init
  BY DEF Init, Server!Init, fate, Bound
<1>2. ASSUME Inv, UNCHANGED vars PROVE UNCHANGED Server!vars
  BY <1>2 DEF vars, Server!vars, fate, Bound
<1>3. ASSUME Inv, NEW m \in Managers, Step(m) PROVE Server!Step(m) \/ UNCHANGED Server!vars
  <2> USE <1>3 DEF Inv, TypeOK, Goes
  <2>1. CASE Launch(m) \/ Stat(m) \/ OpenLog(m) \/ Daemon(m) \/ BindFails(m) \/ Fail(m) \/ Crash(m)
    <3>1. \E s : Goes(m, s)
      BY <2>1 DEF Launch, Stat, OpenLog, Daemon, BindFails, Fail, Crash
    <3>2. fate' = [fate EXCEPT ![m] = fate'[m]]  BY <3>1, FateStep
    <3>3. file' = file
      BY <2>1 DEF Launch, Stat, OpenLog, Daemon, BindFails, Fail, Crash
    <3> DEFINE OK == \/ fate'[m] = fate[m]
                     \/ fate[m] = "idle" /\ fate'[m] = "trying"
                     \/ fate[m] = "trying" /\ fate'[m] = "refused" /\ file # NoOne
                     \/ fate[m] = "trying" /\ fate'[m] = "failed"
                     \/ fate[m] \in {"trying", "serving"} /\ fate'[m] = "crashed"
    <3>4. OK
      <4>1. CASE Launch(m) \/ Stat(m)  BY <4>1 DEF Launch, Stat, fate, Bound
      <4>2. CASE OpenLog(m) \/ Daemon(m) \/ BindFails(m)
        BY <4>2 DEF OpenLog, Daemon, BindFails, fate, Bound
      <4>3. CASE Fail(m)  BY <4>3 DEF Fail, fate, Bound
      <4>4. CASE Crash(m)  BY <4>4 DEF Crash, fate, Bound
      <4>5. QED  BY <2>1, <4>1, <4>2, <4>3, <4>4
    <3>6. fate'[m] = fate[m] => fate' = fate
      <4>1. fate = [k \in Managers |-> fate[k]]  BY DEF fate
      <4>2. QED  BY <3>2, <4>1
    <3>5. QED
      BY <3>2, <3>3, <3>4, <3>6
      DEF Server!Step, Server!Try, Server!Refuse, Server!Fail, Server!Crash, Server!Becomes,
          Server!vars
  <2>2. CASE Bind(m)
    <3>1. fate' = [fate EXCEPT ![m] = fate'[m]]  BY <2>2, FateStep DEF Bind
    <3>2. fate[m] = "trying" /\ fate'[m] = "serving"  BY <2>2 DEF Bind, fate, Bound
    <3>3. QED  BY <2>2, <3>1, <3>2 DEF Bind, Server!Step, Server!Serve, Server!Becomes
  <2>3. CASE Listen(m) \/ Say(m) \/ Close(m) \/ LastLine(m)
    BY <2>3 DEF Listen, Say, Close, LastLine, fate, Bound, Server!vars
  <2>4. CASE Unlink(m)
    <3>1. fate' = [fate EXCEPT ![m] = fate'[m]]  BY <2>4, FateStep DEF Unlink
    <3>2. fate[m] = "serving" /\ fate'[m] = "ended" /\ file = m /\ file' = NoOne
      BY <2>4 DEF Unlink, fate, Bound, NamesTheServer
    <3>3. QED  BY <3>1, <3>2 DEF Server!Step, Server!Release, Server!Becomes
  <2>5. CASE Clear(m)
    BY <2>5 DEF Clear, fate, Bound, Server!Step, Server!Clear
  <2>6. QED  BY <2>1, <2>2, <2>3, <2>4, <2>5 DEF Step, Proceeds
<1>4. Inv /\ [Next]_vars => [Server!Next]_(Server!vars)
  BY <1>2, <1>3 DEF Next, Server!Next
<1>5. QED  BY <1>1, <1>4, Safe, PTL DEF Spec
=============================================================================

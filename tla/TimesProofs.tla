---------------------------- MODULE TimesProofs ----------------------------
(***************************************************************************)
(* Proofs about ClientTimes, for any clients, any number of connections    *)
(* and of missing lines, and logs of any length; and about Calendar.       *)
(***************************************************************************)
EXTENDS ClientTimes, Calendar, FiniteSetTheorems, TLAPS

Entry == [num : Nat, last : Nat, total : Int]
Tables == [Ids -> Entry \union {Absent}]
Kinds == {"connect", "disconnect"}

\* What a client has and would have, if its connections all ended at t.
Gained(db, id, t) == Total(db, id) + Running(db, id, t)

TypeOK ==
    /\ now \in Nat \ {0} /\ since \in Nat /\ missed \in Nat
    /\ online \in [Ids -> Nat] /\ rust \in Tables /\ cpp \in Tables
    /\ lost \in [Ids -> SUBSET Kinds] /\ mixed \subseteq Ids /\ crossed \subseteq Ids
    /\ real \in [Ids -> Nat] /\ stays \in [Ids -> Nat]
    /\ began \in [Ids -> Nat] /\ \A id \in Ids : began[id] <= now

\* A client that is counted was seen to come.
Coherent(db) == \A id \in Ids : Num(db, id) = 0 <=> Last(db, id) = 0

\* The Rust program has seen no one come in the future.
Past == \A id \in Ids : Last(rust, id) <= now

\* How the Rust program's count follows what is real: closely while no line of the
\* client is missing from the file, from below when connections are missing, from
\* above and for the rest of the file when it missed a disconnection.
Follows(id) ==
    /\ lost[id] = {} =>
          Num(rust, id) = online[id] /\ (Num(rust, id) > 0 => Last(rust, id) = began[id])
    /\ id \notin mixed =>
          /\ lost[id] \in {{}, {"connect"}, {"disconnect"}}
          /\ lost[id] = {"connect"} => Num(rust, id) <= online[id]
          /\ lost[id] = {"disconnect"} =>
                Num(rust, id) > online[id] /\ Total(rust, id) <= real[id]
          /\ lost[id] # {"disconnect"} => Gained(rust, id, now) <= real[id]

\* How the C++ program's entry of a client follows the Rust program's: the stay
\* that runs began at the same moment, and its date is as right as today's.
Matches(id) ==
    /\ Num(cpp, id) = Num(rust, id)
    /\ Last(cpp, id) = IF Last(rust, id) = 0 THEN 0 ELSE StrToTime(Last(rust, id))
    /\ id \notin crossed =>
          /\ Total(cpp, id) = Total(rust, id)
          /\ Last(rust, id) # 0 => (Last(rust, id) \in Late <=> now \in Late)

\* The C++ program's date is never ahead of the moment and all jumps so far.
Jumped == jumped \in Nat /\ (now \in Late => Day <= jumped)

\* Also when a file ends, and the running stays are forgotten.
Bound == now + jumped - since
Within(id) ==
    /\ Gained(rust, id, now) < now
    /\ 0 <= Bound => Gained(cpp, id, StrToTime(now)) <= Bound /\ Total(cpp, id) <= Bound

Inv ==
    /\ TypeOK /\ Coherent(rust) /\ Coherent(cpp) /\ Past /\ Jumped
    /\ \A id \in Clients : Follows(id)
    /\ since = 0 => \A id \in Clients : Matches(id)
    /\ Bound < 0 => \A id \in Ids : cpp[id] = Absent
    /\ \A id \in Clients : Within(id)

LEMMA TimeIs ==
    ASSUME TypeOK, Jumped
    PROVE  /\ StrToTime(now) \in Nat \ {0} /\ StrToTime(now) <= now + jumped /\ Day \in Nat
           /\ Bound \in Int /\ (Bound < 0 => StrToTime(now) < since)
  BY LateAssumption DEF StrToTime, Jumped, TypeOK, Bound

----------------------------------------------------------------------------
(***************************************************************************)
(* What the lines do to the tables, at the date t                          *)
(***************************************************************************)
Others(db, new, id) == new \in Tables /\ \A k \in Ids \ {id} : new[k] = db[k]

Counted(db, new, id, t) ==
    /\ Others(db, new, id)
    /\ Num(new, id) = Num(db, id) + 1 /\ Total(new, id) = Total(db, id)
    /\ Last(new, id) = IF Num(db, id) = 0 THEN t ELSE Last(db, id)

Uncounted(db, new, id, t) ==
    /\ Others(db, new, id)
    /\ Num(db, id) = 0 => new = db
    /\ Num(db, id) > 0 => Num(new, id) = Num(db, id) - 1
    /\ IF Num(db, id) = 1
       THEN Last(new, id) = 0 /\ Total(new, id) = Total(db, id) + (t - Last(db, id))
       ELSE Last(new, id) = Last(db, id) /\ Total(new, id) = Total(db, id)

LEMMA EntryAt ==
    ASSUME NEW db \in Tables, NEW id \in Ids
    PROVE  /\ Num(db, id) \in Nat /\ Last(db, id) \in Nat /\ Total(db, id) \in Int
           /\ db[id] # Absent =>
                 /\ db[id] = [num |-> Num(db, id), last |-> Last(db, id), total |-> Total(db, id)]
                 /\ db[id] \in Entry
  BY DEF Tables, Entry, Num, Last, Total

\* The one entry of a table that is replaced.
LEMMA Replaced ==
    ASSUME NEW db \in Tables, NEW id \in Ids, NEW e \in Entry,
           NEW new, new = [db EXCEPT ![id] = e]
    PROVE  /\ Others(db, new, id)
           /\ Num(new, id) = e.num /\ Last(new, id) = e.last /\ Total(new, id) = e.total
<1>1. Absent \notin Entry  BY AbsentAssumption DEF Entry
<1>2. new \in Tables /\ new[id] = e /\ \A k \in Ids \ {id} : new[k] = db[k]  BY DEF Tables
<1>3. QED  BY <1>1, <1>2 DEF Others, Num, Last, Total

LEMMA RustCounts ==
    ASSUME TypeOK, Coherent(rust), NEW id \in Ids, RustLogConnect(id)
    PROVE  IF id <= 1 THEN rust' = rust ELSE Counted(rust, rust', id, now)
<1> SUFFICES ASSUME ~(id <= 1) PROVE Counted(rust, rust', id, now)  BY DEF RustLogConnect
<1> DEFINE c == RustEntry(id)
           l == IF c.num = 0 THEN now ELSE c.last
           n == c.num + 1
           e == [c EXCEPT !.num = n, !.last = l]
<1>1. rust \in Tables /\ now \in Nat  BY DEF TypeOK
<1>2. /\ c \in Entry
      /\ c.num = Num(rust, id) /\ c.last = Last(rust, id) /\ c.total = Total(rust, id)
  BY <1>1 DEF RustEntry, Fresh, Num, Last, Total, Tables, Entry
<1>3. rust' = [rust EXCEPT ![id] = e]  BY DEF RustLogConnect
<1> HIDE DEF c
<1>4. l \in Nat /\ n \in Nat  BY <1>1, <1>2 DEF Entry
<1>5. e \in Entry /\ e.num = n /\ e.last = l /\ e.total = c.total
  <2> HIDE DEF l, n
  <2>1. QED  BY <1>2, <1>4 DEF Entry
<1> HIDE DEF e
<1>6. Others(rust, rust', id) /\ Num(rust', id) = e.num /\ Last(rust', id) = e.last
      /\ Total(rust', id) = e.total
  BY <1>1, <1>3, <1>5, Replaced
<1>7. QED  BY <1>2, <1>5, <1>6 DEF Counted

LEMMA CppCounts ==
    ASSUME TypeOK, Jumped, Coherent(cpp), NEW id \in Ids, CppLogConn(id)
    PROVE  IF CppIgnores(id) THEN cpp' = cpp ELSE Counted(cpp, cpp', id, StrToTime(now))
<1> SUFFICES ASSUME ~CppIgnores(id) PROVE Counted(cpp, cpp', id, StrToTime(now))  BY DEF CppLogConn
<1> DEFINE t == StrToTime(now)
<1>1. cpp \in Tables /\ t \in Nat  BY TimeIs DEF TypeOK
<1>2. CASE cpp[id] = Absent
  <2> DEFINE e == [num |-> 1, last |-> t, total |-> 0]
  <2>1. e \in Entry /\ e.num = 1 /\ e.last = t /\ e.total = 0  BY <1>1 DEF Entry
  <2>2. cpp' = [cpp EXCEPT ![id] = e]  BY <1>2 DEF CppLogConn
  <2> HIDE DEF e
  <2>3. Others(cpp, cpp', id) /\ Num(cpp', id) = 1 /\ Last(cpp', id) = t /\ Total(cpp', id) = 0
    BY <1>1, <2>1, <2>2, Replaced
  <2>4. Num(cpp, id) = 0 /\ Total(cpp, id) = 0  BY <1>2 DEF Num, Total
  <2>5. QED  BY <2>3, <2>4 DEF Counted
<1>3. CASE cpp[id] # Absent
  <2> DEFINE c == cpp[id]
             l == IF c.num = 0 THEN t ELSE c.last
             n == c.num + 1
             e == [c EXCEPT !.num = n, !.last = l]
  <2>1. /\ c \in Entry
        /\ c.num = Num(cpp, id) /\ c.last = Last(cpp, id) /\ c.total = Total(cpp, id)
    BY <1>1, <1>3 DEF Num, Last, Total, Tables
  <2>2. cpp' = [cpp EXCEPT ![id] = e]  BY <1>1, <1>3 DEF CppLogConn, Tables
  <2> HIDE DEF c
  <2>3. l \in Nat /\ n \in Nat  BY <1>1, <2>1 DEF Entry
  <2>4. e \in Entry /\ e.num = n /\ e.last = l /\ e.total = c.total
    <3> HIDE DEF l, n
    <3>1. QED  BY <2>1, <2>3 DEF Entry
  <2> HIDE DEF e
  <2>5. Others(cpp, cpp', id) /\ Num(cpp', id) = e.num /\ Last(cpp', id) = e.last
        /\ Total(cpp', id) = e.total
    BY <1>1, <2>2, <2>4, Replaced
  <2>6. QED  BY <2>1, <2>4, <2>5 DEF Counted
<1>4. QED  BY <1>2, <1>3

\* Both programs subtract a connection in the same way.
LEMMA Uncounts ==
    ASSUME NEW db \in Tables, Coherent(db), NEW t \in Nat, NEW id \in Ids, db[id] # Absent,
           Num(db, id) # 0, NEW e, e = IF Ends(db[id]) THEN Credited(db[id], t) ELSE Dropped(db[id]),
           NEW new, new = [db EXCEPT ![id] = e]
    PROVE  Uncounted(db, new, id, t)
<1> DEFINE c == db[id]
<1>1. /\ c \in Entry
      /\ c.num = Num(db, id) /\ c.last = Last(db, id) /\ c.total = Total(db, id)
  BY DEF Num, Last, Total, Tables
<1>2. c.num # 0 /\ c.last # 0
  BY <1>1 DEF Coherent
<1>3. e = IF Ends(c) THEN Credited(c, t) ELSE Dropped(c)  OBVIOUS
<1> HIDE DEF c
<1>4. /\ e \in Entry /\ e.num = c.num - 1
      /\ c.num = 1 => e.last = 0 /\ e.total = c.total + (t - c.last)
      /\ c.num # 1 => e.last = c.last /\ e.total = c.total
  BY <1>1, <1>2, <1>3 DEF Ends, Credited, Dropped, Entry
<1>5. Others(db, new, id) /\ Num(new, id) = e.num /\ Last(new, id) = e.last
      /\ Total(new, id) = e.total
  BY <1>4, Replaced
<1>6. QED  BY <1>1, <1>2, <1>4, <1>5 DEF Uncounted

LEMMA RustUncounts ==
    ASSUME TypeOK, Coherent(rust), NEW id \in Ids, RustLogDisconnect(id)
    PROVE  IF id <= 1 THEN rust' = rust ELSE Uncounted(rust, rust', id, now)
<1>1. rust \in Tables /\ now \in Nat  BY DEF TypeOK
<1>2. CASE id <= 1 \/ Num(rust, id) = 0
  <2>1. rust' = rust  BY <1>2 DEF RustLogDisconnect, Num
  <2>2. QED  BY <1>1, <1>2, <2>1 DEF Uncounted, Others
<1>3. CASE ~(id <= 1) /\ Num(rust, id) # 0
  BY <1>1, <1>3, Uncounts DEF RustLogDisconnect, Num
<1>4. QED  BY <1>2, <1>3

LEMMA CppUncounts ==
    ASSUME TypeOK, Jumped, Coherent(cpp), NEW id \in Ids, CppLogDisconn(id)
    PROVE  IF CppIgnores(id) THEN cpp' = cpp ELSE Uncounted(cpp, cpp', id, StrToTime(now))
<1>1. cpp \in Tables /\ StrToTime(now) \in Nat  BY TimeIs DEF TypeOK
<1>2. CASE CppIgnores(id) \/ Num(cpp, id) = 0
  <2>1. cpp' = cpp  BY <1>2 DEF CppLogDisconn, Num
  <2>2. QED  BY <1>1, <1>2, <2>1 DEF Uncounted, Others
<1>3. CASE ~CppIgnores(id) /\ Num(cpp, id) # 0
  BY <1>1, <1>3, Uncounts DEF CppLogDisconn, Num
<1>4. QED  BY <1>2, <1>3

----------------------------------------------------------------------------
(***************************************************************************)
(* Connections and disconnections move time from running stays to the      *)
(* total and add none.                                                     *)
(***************************************************************************)
\* All that a client has, ever, was gained already.
Kept(db, new, t) ==
    /\ new \in Tables /\ Coherent(new)
    /\ \A id \in Ids : Gained(new, id, t) <= Gained(db, id, t)

\* The same where a running stay may count negative.
Bounded(db, new, t) ==
    /\ new \in Tables /\ Coherent(new)
    /\ \A id \in Ids : /\ \/ Gained(new, id, t) <= Gained(db, id, t)
                          \/ Gained(new, id, t) <= Total(db, id)
                       /\ \/ Total(new, id) <= Gained(db, id, t)
                          \/ Total(new, id) <= Total(db, id)

LEMMA RunningIs ==
    ASSUME NEW db, NEW id, NEW t
    PROVE  Running(db, id, t) = IF Last(db, id) = 0 THEN 0 ELSE t - Last(db, id)
  BY DEF Running

LEMMA GainedIs ==
    ASSUME NEW db \in Tables, NEW t \in Nat, NEW id \in Ids
    PROVE  Gained(db, id, t) \in Int
<1>1. Last(db, id) \in Nat /\ Total(db, id) \in Int  BY EntryAt
<1>2. QED  BY <1>1 DEF Gained, Running

LEMMA OtherEntry ==
    ASSUME NEW db, NEW id, NEW new, Others(db, new, id), NEW k \in Ids \ {id}, NEW t
    PROVE  /\ Num(new, k) = Num(db, k) /\ Last(new, k) = Last(db, k)
           /\ Total(new, k) = Total(db, k) /\ Running(new, k, t) = Running(db, k, t)
           /\ Gained(new, k, t) = Gained(db, k, t)
  BY DEF Others, Num, Last, Total, Running, Gained

LEMMA KeptByCount ==
    ASSUME NEW db \in Tables, Coherent(db), NEW t \in Nat \ {0}, NEW id \in Ids, NEW new,
           Counted(db, new, id, t) \/ Uncounted(db, new, id, t) \/ new = db
    PROVE  Kept(db, new, t) /\ Bounded(db, new, t)
<1>0. /\ Num(db, id) \in Nat /\ Last(db, id) \in Nat /\ Total(db, id) \in Int
      /\ Num(db, id) = 0 <=> Last(db, id) = 0
  BY EntryAt DEF Coherent
<1>1. \A k \in Ids : Gained(db, k, t) \in Int /\ Total(db, k) \in Int
  BY GainedIs, EntryAt
<1>2. CASE new = db
  BY <1>1, <1>2 DEF Kept, Bounded
<1>3. CASE Others(db, new, id) /\ (Num(new, id) = 0 <=> Last(new, id) = 0)
           /\ Gained(new, id, t) = Gained(db, id, t)
           /\ (Total(new, id) = Total(db, id) \/ Total(new, id) = Gained(db, id, t))
  <2>1. Coherent(new)  BY <1>3, OtherEntry DEF Coherent
  <2>2. \A k \in Ids \ {id} : Gained(new, k, t) = Gained(db, k, t) /\ Total(new, k) = Total(db, k)
    BY <1>3, OtherEntry
  <2>3. new \in Tables  BY <1>3 DEF Others
  <2>4. Kept(db, new, t)  BY <1>1, <1>3, <2>1, <2>2, <2>3 DEF Kept
  <2>5. Bounded(db, new, t)  BY <1>1, <1>3, <2>1, <2>2, <2>3 DEF Bounded
  <2>6. QED  BY <2>4, <2>5
<1>4. CASE Counted(db, new, id, t)
  <2>1. Last(new, id) = 0 <=> Num(new, id) = 0  BY <1>0, <1>4 DEF Counted
  <2>2. Gained(new, id, t) = Gained(db, id, t)
    BY <1>0, <1>4 DEF Counted, Gained, Running
  <2>3. QED  BY <1>3, <1>4, <2>1, <2>2 DEF Counted
<1>5. CASE Uncounted(db, new, id, t) /\ Num(db, id) > 0
  <2>1. Last(new, id) = 0 <=> Num(new, id) = 0  BY <1>0, <1>5 DEF Uncounted
  <2>2. Gained(new, id, t) = Gained(db, id, t)
    BY <1>0, <1>5 DEF Uncounted, Gained, Running
  <2>3. Total(new, id) = Total(db, id) \/ Total(new, id) = Gained(db, id, t)
    BY <1>0, <1>5 DEF Uncounted, Gained, Running
  <2>4. QED  BY <1>3, <1>5, <2>1, <2>2, <2>3 DEF Uncounted
<1>6. QED  BY <1>0, <1>2, <1>4, <1>5 DEF Uncounted

LEMMA FoldSafe ==
    ASSUME Inv, now' = now, since' = since, jumped' = jumped,
           Kept(rust, rust', now), Bounded(cpp, cpp', StrToTime(now))
    PROVE  Coherent(rust)' /\ Coherent(cpp)' /\ Jumped' /\ (\A id \in Clients : Within(id))'
<1>1. Coherent(rust)' /\ Coherent(cpp)'  BY DEF Kept, Bounded, Coherent, Num, Last
<1>2. Jumped'  BY DEF Inv, Jumped
<1> DEFINE t == StrToTime(now)
<1>3. ASSUME NEW id \in Clients PROVE Within(id)'
  <2>1. /\ Gained(rust, id, now)' = Gained(rust', id, now) /\ Total(cpp, id)' = Total(cpp', id)
        /\ Gained(cpp, id, StrToTime(now))' = Gained(cpp', id, t) /\ Bound' = Bound
    BY DEF Gained, Total, Running, Last, StrToTime, Bound
  <2>2. id \in Ids /\ rust \in Tables /\ rust' \in Tables /\ cpp \in Tables /\ cpp' \in Tables
        /\ now \in Nat /\ t \in Nat /\ Bound \in Int
    BY TimeIs DEF Clients, Inv, TypeOK, Kept, Bounded
  <2>3. /\ Gained(rust, id, now) \in Int /\ Gained(rust', id, now) \in Int
        /\ Gained(cpp, id, t) \in Int /\ Gained(cpp', id, t) \in Int
        /\ Total(cpp, id) \in Int /\ Total(cpp', id) \in Int
    BY <2>2, GainedIs, EntryAt
  <2>4. /\ Gained(rust, id, now) < now
        /\ 0 <= Bound => Gained(cpp, id, t) <= Bound /\ Total(cpp, id) <= Bound
    BY DEF Inv, Within
  <2>5. Gained(rust', id, now) <= Gained(rust, id, now)  BY <2>2 DEF Kept
  <2>6. /\ Gained(cpp', id, t) <= Gained(cpp, id, t) \/ Gained(cpp', id, t) <= Total(cpp, id)
        /\ Total(cpp', id) <= Gained(cpp, id, t) \/ Total(cpp', id) <= Total(cpp, id)
    BY <2>2 DEF Bounded
  <2> HIDE DEF t
  <2>7. QED  BY <2>1, <2>2, <2>3, <2>4, <2>5, <2>6 DEF Within
<1>4. (\A id \in Clients : Within(id))'  BY <1>3 DEF Clients
<1>5. QED  BY <1>1, <1>2, <1>4

----------------------------------------------------------------------------
(***************************************************************************)
(* The steps                                                               *)
(***************************************************************************)
LEMMA OneKind ==
    ASSUME NEW S \in SUBSET Kinds, NEW kind \in Kinds, ~(Cardinality(S \union {kind}) > 1)
    PROVE  S \union {kind} = {kind}
<1> SUFFICES ASSUME NEW other \in S, other # kind PROVE FALSE  OBVIOUS
<1>1. S \union {kind} = {other} \union {kind}
  <2>1. other \in Kinds /\ \A x \in Kinds : x = other \/ x = kind  BY DEF Kinds
  <2>2. \A x \in S : x = other \/ x = kind  BY <2>1
  <2>3. QED  BY <2>2
<1>2. IsFiniteSet({other}) /\ Cardinality({other}) = 1  BY FS_Singleton
<1>3. Cardinality({other} \union {kind}) = 2
  BY <1>2, FS_AddElement
<1>4. QED  BY <1>1, <1>3

LEMMA OthersFollow ==
    ASSUME TypeOK, NEW id \in Ids, Others(rust, rust', id), now' = now, mixed \subseteq mixed',
           NEW k \in Ids \ {id}, lost'[k] = lost[k], online'[k] = online[k], real'[k] = real[k],
           began'[k] = began[k], Follows(k)
    PROVE  Follows(k)'
<1>1. /\ Num(rust', k) = Num(rust, k) /\ Last(rust', k) = Last(rust, k)
      /\ Total(rust', k) = Total(rust, k) /\ Gained(rust', k, now) = Gained(rust, k, now)
  BY OtherEntry
<1>2. /\ Num(rust, k)' = Num(rust', k) /\ Last(rust, k)' = Last(rust', k)
      /\ Total(rust, k)' = Total(rust', k) /\ Gained(rust, k, now)' = Gained(rust', k, now)
  BY DEF Num, Last, Total, Running, Gained
<1>3. QED  BY <1>1, <1>2 DEF Follows

\* Without -d both programs make the same of a line, but for the date.
LEMMA LineMatches ==
    ASSUME TypeOK, Jumped, Coherent(rust), Coherent(cpp), \A k \in Clients : Matches(k),
           NEW id \in Ids, now' = now, crossed' = crossed,
           IF id <= 1 THEN rust' = rust /\ cpp' = cpp
           ELSE \/ Counted(rust, rust', id, now) /\ Counted(cpp, cpp', id, StrToTime(now))
                \/ Uncounted(rust, rust', id, now) /\ Uncounted(cpp, cpp', id, StrToTime(now))
    PROVE  (\A k \in Clients : Matches(k))'
<1>1. ASSUME NEW k \in Clients PROVE Matches(k)'
  <2> DEFINE R == rust'
             C == cpp'
  <2>1. k \in Ids /\ k > 1 /\ Matches(k) /\ (id <= 1 => k # id)
    BY IdsAssumption DEF Clients
  <2>2. /\ Num(rust, k)' = Num(R, k) /\ Last(rust, k)' = Last(R, k) /\ Total(rust, k)' = Total(R, k)
        /\ Num(cpp, k)' = Num(C, k) /\ Last(cpp, k)' = Last(C, k) /\ Total(cpp, k)' = Total(C, k)
        /\ now' = now /\ crossed' = crossed
    BY DEF Num, Last, Total
  <2>3. IF id <= 1 THEN R = rust /\ C = cpp
        ELSE \/ Counted(rust, R, id, now) /\ Counted(cpp, C, id, StrToTime(now))
             \/ Uncounted(rust, R, id, now) /\ Uncounted(cpp, C, id, StrToTime(now))
    OBVIOUS
  <2>4. /\ Num(rust, k) \in Nat /\ Last(rust, k) \in Nat /\ Total(rust, k) \in Int
        /\ Num(cpp, k) \in Nat /\ Last(cpp, k) \in Nat /\ Total(cpp, k) \in Int
        /\ Num(rust, k) = 0 <=> Last(rust, k) = 0
        /\ now \in Nat \ {0} /\ Day \in Nat /\ StrToTime(now) \in Nat \ {0}
    BY <2>1, EntryAt, TimeIs DEF TypeOK, Coherent
  <2> DEFINE Right == /\ Num(C, k) = Num(R, k)
                      /\ Last(C, k) = IF Last(R, k) = 0 THEN 0 ELSE StrToTime(Last(R, k))
                      /\ k \notin crossed =>
                           /\ Total(C, k) = Total(R, k)
                           /\ Last(R, k) # 0 => (Last(R, k) \in Late <=> now \in Late)
  <2> HIDE DEF R, C
  <2>5. CASE k # id \/ id <= 1
    <3>1. /\ Num(R, k) = Num(rust, k) /\ Last(R, k) = Last(rust, k) /\ Total(R, k) = Total(rust, k)
          /\ Num(C, k) = Num(cpp, k) /\ Last(C, k) = Last(cpp, k) /\ Total(C, k) = Total(cpp, k)
      <4>1. CASE id <= 1  BY <2>3, <4>1
      <4>2. CASE k # id /\ ~(id <= 1)
        <5>1. Others(rust, R, id) /\ Others(cpp, C, id)
          BY <2>3, <4>2 DEF Counted, Uncounted
        <5>2. k \in Ids \ {id}  BY <2>1, <4>2
        <5>3. QED  BY <5>1, <5>2, OtherEntry
      <4>3. QED  BY <2>5, <4>1, <4>2
    <3>2. Right  BY <2>1, <3>1 DEF Matches
    <3>3. QED  BY <2>2, <3>2 DEF Matches, StrToTime
  <2>6. CASE /\ Counted(rust, R, id, now) /\ Counted(cpp, C, id, StrToTime(now)) /\ k = id
    <3>1. /\ Num(R, k) = Num(rust, k) + 1 /\ Total(R, k) = Total(rust, k)
          /\ Last(R, k) = IF Num(rust, k) = 0 THEN now ELSE Last(rust, k)
          /\ Num(C, k) = Num(cpp, k) + 1 /\ Total(C, k) = Total(cpp, k)
          /\ Last(C, k) = IF Num(cpp, k) = 0 THEN StrToTime(now) ELSE Last(cpp, k)
      BY <2>6 DEF Counted
    <3>2. Right  BY <2>1, <2>4, <3>1 DEF Matches
    <3>3. QED  BY <2>2, <3>2 DEF Matches, StrToTime
  <2>7. CASE /\ Uncounted(rust, R, id, now) /\ Uncounted(cpp, C, id, StrToTime(now)) /\ k = id
    <3>1. CASE Num(rust, k) = 0
      <4>1. R = rust /\ C = cpp  BY <2>1, <2>7, <3>1 DEF Uncounted, Matches
      <4>2. Right  BY <2>1, <4>1 DEF Matches
      <4>3. QED  BY <2>2, <4>2 DEF Matches, StrToTime
    <3>2. CASE Num(rust, k) = 1
      <4>1. /\ Num(R, k) = 0 /\ Last(R, k) = 0 /\ Total(R, k) = Total(rust, k) + (now - Last(rust, k))
            /\ Num(C, k) = 0 /\ Last(C, k) = 0
            /\ Total(C, k) = Total(cpp, k) + (StrToTime(now) - Last(cpp, k))
        BY <2>1, <2>7, <3>2 DEF Uncounted, Matches
      <4>2. k \notin crossed => Total(C, k) = Total(R, k)
        BY <2>1, <2>4, <3>2, <4>1 DEF Matches, StrToTime
      <4>3. Right  BY <4>1, <4>2
      <4>4. QED  BY <2>2, <4>3 DEF Matches, StrToTime
    <3>3. CASE Num(rust, k) > 1
      <4>1. /\ Num(R, k) = Num(rust, k) - 1 /\ Last(R, k) = Last(rust, k)
            /\ Total(R, k) = Total(rust, k)
            /\ Num(C, k) = Num(cpp, k) - 1 /\ Last(C, k) = Last(cpp, k)
            /\ Total(C, k) = Total(cpp, k)
        BY <2>1, <2>4, <2>7, <3>3 DEF Uncounted, Matches
      <4>2. Right  BY <2>1, <4>1 DEF Matches
      <4>3. QED  BY <2>2, <4>2 DEF Matches, StrToTime
    <3>4. QED  BY <2>4, <3>1, <3>2, <3>3
  <2>8. QED  BY <2>3, <2>5, <2>6, <2>7
<1>2. QED  BY <1>1 DEF Clients

LEMMA EveryLine ==
    ASSUME TypeOK, since = 0, NEW id \in Ids
    PROVE  CppIgnores(id) <=> id <= 1
  BY LateAssumption DEF CppIgnores, StrToTime, TypeOK

\* Before its date the C++ program has no entries.
LEMMA EarlyIgnored ==
    ASSUME Inv, NEW id \in Ids, CppLogConn(id) \/ CppLogDisconn(id), Bound < 0
    PROVE  cpp' = cpp
<1>1. StrToTime(now) < since  BY TimeIs DEF Inv
<1>2. QED  BY <1>1 DEF CppLogConn, CppLogDisconn, CppIgnores

\* A line moves no date of the Rust program beyond today.
LEMMA PastKept ==
    ASSUME TypeOK, Past, now' = now, NEW id \in Ids,
           \/ Counted(rust, rust', id, now) \/ Uncounted(rust, rust', id, now) \/ rust' = rust
    PROVE  Past'
<1>1. ASSUME NEW k \in Ids PROVE Last(rust', k) <= now
  <2>1. Last(rust, k) \in Nat /\ Last(rust, k) <= now /\ now \in Nat
    BY EntryAt DEF TypeOK, Past
  <2>2. CASE rust' = rust  BY <2>1, <2>2
  <2>3. CASE k # id /\ rust' # rust
    <3>1. Last(rust', k) = Last(rust, k)  BY <2>3, OtherEntry DEF Counted, Uncounted
    <3>2. QED  BY <2>1, <3>1
  <2>4. CASE k = id /\ rust' # rust
    <3>1. Last(rust', k) \in {0, now, Last(rust, k)}  BY <2>4 DEF Counted, Uncounted
    <3>2. QED  BY <2>1, <3>1
  <2>5. QED  BY <2>2, <2>3, <2>4
<1>2. QED  BY <1>1 DEF Past, Last

LEMMA ConnectSafe ==
    ASSUME Inv, NEW id \in Ids, Connect(id)
    PROVE  Inv' /\ (id \in Clients => Counted(rust, rust', id, now)) /\ Kept(rust, rust', now)
<1>1. /\ TypeOK /\ Jumped /\ Past /\ Coherent(rust) /\ Coherent(cpp) /\ RustLogConnect(id) /\ CppLogConn(id)
      /\ UNCHANGED <<now, since, real, stays, missed, lost, mixed, jumped, crossed>>
      /\ online' = [online EXCEPT ![id] = @ + 1]
      /\ began' = [began EXCEPT ![id] = IF online[id] = 0 THEN now ELSE @]
  BY DEF Inv, jumps, Connect, Comes
<1>2. IF id <= 1 THEN rust' = rust ELSE Counted(rust, rust', id, now)  BY <1>1, RustCounts
<1>3. IF CppIgnores(id) THEN cpp' = cpp ELSE Counted(cpp, cpp', id, StrToTime(now))
  BY <1>1, CppCounts
<1>4. Kept(rust, rust', now) /\ Bounded(cpp, cpp', StrToTime(now))
  BY <1>1, <1>2, <1>3, KeptByCount, TimeIs DEF TypeOK
<1>5. TypeOK'
  BY <1>1, <1>4 DEF TypeOK, Kept, Bounded
<1>6. Coherent(rust)' /\ Coherent(cpp)' /\ Jumped' /\ (\A k \in Clients : Within(k))'
  BY <1>1, <1>4, FoldSafe
<1>7. (since = 0 => \A k \in Clients : Matches(k))'
  <2> SUFFICES ASSUME since = 0 PROVE (\A k \in Clients : Matches(k))'  BY <1>1
  <2>1. CppIgnores(id) <=> id <= 1  BY <1>1, EveryLine
  <2>2. \A k \in Clients : Matches(k)  BY DEF Inv
  <2>3. QED  BY <1>1, <1>2, <1>3, <2>1, <2>2, LineMatches
<1>8. (Bound < 0 => \A k \in Ids : cpp[k] = Absent)'  BY <1>1, EarlyIgnored DEF Inv, Bound
<1>9. ASSUME NEW k \in Clients PROVE Follows(k)'
  <2>1. k \in Ids /\ k > 1 /\ Follows(k)  BY DEF Clients, Inv
  <2>2. CASE k # id
    <3>1. Others(rust, rust', id)  BY <1>1, <1>2 DEF Counted, Others, TypeOK
    <3>2. /\ lost'[k] = lost[k] /\ online'[k] = online[k] /\ real'[k] = real[k]
          /\ began'[k] = began[k] /\ mixed \subseteq mixed'
      BY <1>1, <2>1, <2>2 DEF TypeOK
    <3>3. QED  BY <1>1, <2>1, <2>2, <3>1, <3>2, OthersFollow
  <2>3. CASE k = id
    <3>1. Counted(rust, rust', k, now)  BY <1>2, <2>1, <2>3, IdsAssumption
    <3>2. /\ Num(rust, k)' = Num(rust', k) /\ Last(rust, k)' = Last(rust', k)
          /\ Gained(rust, k, now)' = Gained(rust', k, now) /\ Total(rust, k)' = Total(rust', k)
      BY <1>1 DEF Num, Last, Total, Running, Gained
    <3>3. Gained(rust', k, now) <= Gained(rust, k, now)  BY <1>4, <2>1 DEF Kept
    <3>4. rust \in Tables /\ rust' \in Tables /\ now \in Nat  BY <1>1, <1>5 DEF TypeOK
    <3>5. Gained(rust, k, now) \in Int /\ Gained(rust', k, now) \in Int /\ Num(rust, k) \in Nat
      BY <2>1, <3>4, GainedIs, EntryAt
    <3>6. /\ online[k] \in Nat /\ online'[k] = online[k] + 1
          /\ began'[k] = (IF online[k] = 0 THEN now ELSE began[k])
          /\ lost' = lost /\ mixed' = mixed /\ real' = real /\ real[k] \in Nat
      BY <1>1, <2>1, <2>3 DEF TypeOK
    <3>7. QED  BY <2>1, <3>1, <3>2, <3>3, <3>5, <3>6 DEF Follows, Counted, Gained
  <2>4. QED  BY <2>2, <2>3
<1>10. (\A k \in Clients : Follows(k))'  BY <1>9 DEF Clients
<1>11. Past'  BY <1>1, <1>2, PastKept
<1>12. QED
  BY <1>2, <1>4, <1>5, <1>6, <1>7, <1>8, <1>10, <1>11, IdsAssumption DEF Inv, Clients

LEMMA DisconnectSafe ==
    ASSUME Inv, NEW id \in Ids, Disconnect(id)
    PROVE  Inv' /\ (id \in Clients => Uncounted(rust, rust', id, now)) /\ Kept(rust, rust', now)
<1>1. /\ TypeOK /\ Jumped /\ Past /\ Coherent(rust) /\ Coherent(cpp) /\ RustLogDisconnect(id) /\ CppLogDisconn(id)
      /\ UNCHANGED <<now, since, real, began, missed, lost, mixed, jumped, crossed>>
      /\ online[id] > 0 /\ online' = [online EXCEPT ![id] = @ - 1]
      /\ stays' = [stays EXCEPT ![id] = IF online[id] = 1 THEN @ + (now - began[id]) ELSE @]
  BY DEF Inv, jumps, Disconnect, Leaves
<1>2. IF id <= 1 THEN rust' = rust ELSE Uncounted(rust, rust', id, now)  BY <1>1, RustUncounts
<1>3. IF CppIgnores(id) THEN cpp' = cpp ELSE Uncounted(cpp, cpp', id, StrToTime(now))
  BY <1>1, CppUncounts
<1>4. Kept(rust, rust', now) /\ Bounded(cpp, cpp', StrToTime(now))
  BY <1>1, <1>2, <1>3, KeptByCount, TimeIs DEF TypeOK
<1>5. TypeOK'
  BY <1>1, <1>4 DEF TypeOK, Kept, Bounded
<1>6. Coherent(rust)' /\ Coherent(cpp)' /\ Jumped' /\ (\A k \in Clients : Within(k))'
  BY <1>1, <1>4, FoldSafe
<1>7. (since = 0 => \A k \in Clients : Matches(k))'
  <2> SUFFICES ASSUME since = 0 PROVE (\A k \in Clients : Matches(k))'  BY <1>1
  <2>1. CppIgnores(id) <=> id <= 1  BY <1>1, EveryLine
  <2>2. \A k \in Clients : Matches(k)  BY DEF Inv
  <2>3. QED  BY <1>1, <1>2, <1>3, <2>1, <2>2, LineMatches
<1>8. (Bound < 0 => \A k \in Ids : cpp[k] = Absent)'  BY <1>1, EarlyIgnored DEF Inv, Bound
<1>9. ASSUME NEW k \in Clients PROVE Follows(k)'
  <2>1. k \in Ids /\ k > 1 /\ Follows(k)  BY DEF Clients, Inv
  <2>2. CASE k # id
    <3>1. Others(rust, rust', id)  BY <1>1, <1>2 DEF Uncounted, Others, TypeOK
    <3>2. /\ lost'[k] = lost[k] /\ online'[k] = online[k] /\ real'[k] = real[k]
          /\ began'[k] = began[k] /\ mixed \subseteq mixed'
      BY <1>1, <2>1, <2>2 DEF TypeOK
    <3>3. QED  BY <1>1, <2>1, <2>2, <3>1, <3>2, OthersFollow
  <2>3. CASE k = id
    <3>1. Uncounted(rust, rust', k, now)  BY <1>2, <2>1, <2>3, IdsAssumption
    <3>2. /\ Num(rust, k)' = Num(rust', k) /\ Last(rust, k)' = Last(rust', k)
          /\ Gained(rust, k, now)' = Gained(rust', k, now) /\ Total(rust, k)' = Total(rust', k)
      BY <1>1 DEF Num, Last, Total, Running, Gained
    <3>3. Gained(rust', k, now) <= Gained(rust, k, now)  BY <1>4, <2>1 DEF Kept
    <3>4. rust \in Tables /\ rust' \in Tables /\ now \in Nat  BY <1>1, <1>5 DEF TypeOK
    <3>5. Gained(rust, k, now) \in Int /\ Gained(rust', k, now) \in Int /\ Num(rust, k) \in Nat
      BY <2>1, <3>4, GainedIs, EntryAt
    <3>6. /\ online[k] \in Nat /\ online[k] > 0 /\ online'[k] = online[k] - 1
          /\ began' = began /\ lost' = lost /\ mixed' = mixed /\ real' = real /\ real[k] \in Nat
      BY <1>1, <2>1, <2>3 DEF TypeOK
    <3>7. Num(rust, k) = 0 => Num(rust', k) = 0  BY <3>1 DEF Uncounted
    <3>8. Num(rust, k) > 0 =>
            /\ Num(rust', k) = Num(rust, k) - 1
            /\ Num(rust, k) > 1 => Last(rust', k) = Last(rust, k) /\ Total(rust', k) = Total(rust, k)
      BY <3>1 DEF Uncounted
    <3>9. QED  BY <2>1, <3>2, <3>3, <3>5, <3>6, <3>7, <3>8 DEF Follows, Gained
  <2>4. QED  BY <2>2, <2>3
<1>10. (\A k \in Clients : Follows(k))'  BY <1>9 DEF Clients
<1>11. Past'  BY <1>1, <1>2, PastKept
<1>12. QED
  BY <1>2, <1>4, <1>5, <1>6, <1>7, <1>8, <1>10, <1>11, IdsAssumption DEF Inv, Clients

\* A line that is missing changes no table.
LEMMA UnloggedSafe ==
    ASSUME Inv, NEW id \in Ids, ConnectUnlogged(id) \/ DisconnectUnlogged(id)
    PROVE  Inv' /\ lost'[id] # {} /\ rust' = rust
               /\ \A k \in Ids \ {id} : stays'[k] = stays[k] /\ lost'[k] = lost[k]
<1> DEFINE kind == IF ConnectUnlogged(id) THEN "connect" ELSE "disconnect"
<1>1. /\ TypeOK /\ Jumped /\ Past /\ Coherent(rust) /\ Coherent(cpp) /\ rust' = rust /\ cpp' = cpp
      /\ UNCHANGED <<now, since, real, jumped, crossed>> /\ kind \in Kinds /\ missed' = missed + 1
      /\ lost' = [lost EXCEPT ![id] = @ \union {kind}]
      /\ mixed' = IF Cardinality(lost[id] \union {kind}) > 1 THEN mixed \union {id} ELSE mixed
  BY DEF Inv, ConnectUnlogged, DisconnectUnlogged, Comes, Leaves, Misses, Kinds, tables, jumps
<1>2. /\ kind = "connect" => /\ online' = [online EXCEPT ![id] = @ + 1] /\ stays' = stays
                             /\ began' = [began EXCEPT ![id] = IF online[id] = 0 THEN now ELSE @]
      /\ kind = "disconnect" =>
            /\ online[id] > 0 /\ online' = [online EXCEPT ![id] = @ - 1] /\ began' = began
            /\ stays' = [stays EXCEPT ![id] = IF online[id] = 1 THEN @ + (now - began[id]) ELSE @]
  BY DEF ConnectUnlogged, DisconnectUnlogged, Comes, Leaves
<1> HIDE DEF kind
<1>3. kind = "connect" \/ kind = "disconnect"  BY <1>1 DEF Kinds
<1>4. Kept(rust, rust', now) /\ Bounded(cpp, cpp', StrToTime(now))
  BY <1>1, KeptByCount, TimeIs DEF TypeOK
<1>5. TypeOK'
  <2>1. lost' \in [Ids -> SUBSET Kinds] /\ mixed' \subseteq Ids  BY <1>1 DEF TypeOK
  <2>2. online' \in [Ids -> Nat] /\ stays' \in [Ids -> Nat] /\ began' \in [Ids -> Nat]
        /\ \A k \in Ids : began'[k] <= now
    BY <1>1, <1>2, <1>3 DEF TypeOK
  <2>3. QED  BY <1>1, <2>1, <2>2 DEF TypeOK
<1>6. Coherent(rust)' /\ Coherent(cpp)' /\ Jumped' /\ (\A k \in Clients : Within(k))'
  BY <1>1, <1>4, FoldSafe
<1>7. /\ (since = 0 => \A k \in Clients : Matches(k))' /\ Past'
      /\ (Bound < 0 => \A k \in Ids : cpp[k] = Absent)'
  BY <1>1 DEF Inv, Clients, Matches, Past, Bound, Num, Last, Total, StrToTime
<1>8. ASSUME NEW k \in Clients PROVE Follows(k)'
  <2>1. k \in Ids /\ k > 1 /\ Follows(k)  BY DEF Clients, Inv
  <2>2. CASE k # id
    <3>1. Others(rust, rust', id)  BY <1>1 DEF Others, TypeOK
    <3>2. /\ lost'[k] = lost[k] /\ online'[k] = online[k] /\ real'[k] = real[k]
          /\ began'[k] = began[k] /\ mixed \subseteq mixed'
      BY <1>1, <1>2, <1>3, <2>1, <2>2 DEF TypeOK
    <3>3. QED  BY <1>1, <2>1, <2>2, <3>1, <3>2, OthersFollow
  <2>3. CASE k = id
    <3>1. /\ Num(rust, k)' = Num(rust, k) /\ Last(rust, k)' = Last(rust, k)
          /\ Gained(rust, k, now)' = Gained(rust, k, now) /\ Total(rust, k)' = Total(rust, k)
      BY <1>1 DEF Num, Last, Total, Running, Gained
    <3>2. rust \in Tables /\ now \in Nat /\ Num(rust, k) \in Nat /\ Total(rust, k) \in Int
          /\ Gained(rust, k, now) \in Int /\ Last(rust, k) \in Nat /\ Last(rust, k) <= now
      BY <1>1, <2>1, GainedIs, EntryAt DEF TypeOK, Past
    <3>3. Total(rust, k) <= Gained(rust, k, now)  BY <3>2, RunningIs DEF Gained
    <3>4. lost[k] \in SUBSET Kinds /\ lost'[k] = lost[k] \union {kind} /\ lost'[k] # {}
      BY <1>1, <2>1, <2>3 DEF TypeOK
    <3>5. k \notin mixed' => lost'[k] = {kind} /\ k \notin mixed
      BY <1>1, <2>3, <3>4, OneKind
    <3>6. k \notin mixed' => lost[k] = {} \/ lost[k] = {kind}
      BY <3>4, <3>5
    <3>7. /\ online[k] \in Nat
          /\ kind = "connect" => online'[k] = online[k] + 1
          /\ kind = "disconnect" => online[k] > 0 /\ online'[k] = online[k] - 1
          /\ real' = real /\ real[k] \in Nat
      BY <1>1, <1>2, <2>1, <2>3 DEF TypeOK
    <3>8. QED
      BY <1>3, <2>1, <3>1, <3>2, <3>3, <3>4, <3>5, <3>6, <3>7 DEF Follows
  <2>4. QED  BY <2>2, <2>3
<1>9. (\A k \in Clients : Follows(k))'  BY <1>8 DEF Clients
<1>10. lost'[id] # {} /\ \A k \in Ids \ {id} : stays'[k] = stays[k] /\ lost'[k] = lost[k]
  BY <1>1, <1>2, <1>3 DEF TypeOK
<1>11. QED  BY <1>1, <1>5, <1>6, <1>7, <1>9, <1>10 DEF Inv

LEMMA NextFileSafe ==
    ASSUME Inv, NextFile
    PROVE  Inv' /\ UNCHANGED stays /\ \A id \in Ids : Total(rust', id) = Total(rust, id)
<1>1. /\ TypeOK /\ Jumped /\ Past /\ Coherent(rust) /\ Coherent(cpp)
      /\ UNCHANGED <<now, since, missed, mixed, real, began, stays, jumped, crossed>>
      /\ online' = [id \in Ids |-> 0] /\ lost' = [id \in Ids |-> {}]
      /\ rust' = [id \in Ids |-> Reset(rust[id])] /\ cpp' = [id \in Ids |-> Reset(cpp[id])]
  BY DEF Inv, NextFile, RustClear, CppReset, jumps
<1>2. ASSUME NEW db \in Tables, NEW new, new = [id \in Ids |-> Reset(db[id])]
      PROVE  /\ new \in Tables
             /\ \A id \in Ids : /\ Num(new, id) = 0 /\ Last(new, id) = 0
                                /\ Total(new, id) = Total(db, id) /\ (db[id] = Absent => new[id] = Absent)
  <2>1. ASSUME NEW id \in Ids
        PROVE  /\ new[id] \in Entry \union {Absent} /\ Num(new, id) = 0 /\ Last(new, id) = 0
               /\ Total(new, id) = Total(db, id) /\ (db[id] = Absent => new[id] = Absent)
    <3>1. CASE db[id] = Absent  BY <1>2, <3>1 DEF Reset, Num, Last, Total
    <3>2. CASE db[id] # Absent
      <4>1. db[id] \in Entry /\ new[id] = [db[id] EXCEPT !.num = 0, !.last = 0]
        BY <1>2, <3>2 DEF Reset, Tables
      <4>2. new[id] \in Entry /\ new[id].num = 0 /\ new[id].last = 0 /\ new[id].total = db[id].total
        <5> DEFINE n == 0
        <5>1. n \in Nat /\ new[id] = [db[id] EXCEPT !.num = n, !.last = n]  BY <4>1
        <5> HIDE DEF n
        <5>2. new[id] \in Entry /\ new[id].num = n /\ new[id].last = n /\ new[id].total = db[id].total
          BY <4>1, <5>1 DEF Entry
        <5>3. QED  BY <5>2 DEF n
      <4>3. Absent \notin Entry  BY AbsentAssumption DEF Entry
      <4>4. QED  BY <3>2, <4>2, <4>3 DEF Num, Last, Total
    <3>3. QED  BY <3>1, <3>2
  <2>2. QED  BY <1>2, <2>1 DEF Tables
<1>3. /\ rust' \in Tables
      /\ \A id \in Ids : /\ Num(rust', id) = 0 /\ Last(rust', id) = 0
                         /\ Total(rust', id) = Total(rust, id)
  BY <1>1, <1>2 DEF TypeOK
<1>4. /\ cpp' \in Tables
      /\ \A id \in Ids : /\ Num(cpp', id) = 0 /\ Last(cpp', id) = 0
                         /\ Total(cpp', id) = Total(cpp, id) /\ (cpp[id] = Absent => cpp'[id] = Absent)
  BY <1>1, <1>2 DEF TypeOK
<1>5. Kept(rust, rust', now)
  <2>1. Coherent(rust')  BY <1>3 DEF Coherent
  <2>2. ASSUME NEW id \in Ids PROVE Gained(rust', id, now) <= Gained(rust, id, now)
    <3>1. Last(rust, id) \in Nat /\ Last(rust, id) <= now /\ Total(rust, id) \in Int /\ now \in Nat
      BY <1>1, EntryAt DEF Past, TypeOK
    <3>2. QED  BY <1>3, <3>1 DEF Gained, Running
  <2>3. QED  BY <1>3, <2>1, <2>2 DEF Kept
<1>6. Bounded(cpp, cpp', StrToTime(now))
  <2>1. Coherent(cpp')  BY <1>4 DEF Coherent
  <2>2. ASSUME NEW id \in Ids
        PROVE  /\ Gained(cpp', id, StrToTime(now)) = Total(cpp, id)
               /\ Total(cpp', id) = Total(cpp, id) /\ Total(cpp, id) \in Int
    <3>1. cpp \in Tables  BY <1>1 DEF TypeOK
    <3>2. Total(cpp, id) \in Int  BY <3>1, EntryAt
    <3>3. QED  BY <1>4, <3>2 DEF Gained, Running
  <2>3. QED  BY <1>4, <2>1, <2>2 DEF Bounded
<1>7. TypeOK'  BY <1>1, <1>3, <1>4 DEF TypeOK
<1>8. Coherent(rust)' /\ Coherent(cpp)' /\ Jumped' /\ (\A k \in Clients : Within(k))'
  BY <1>1, <1>5, <1>6, FoldSafe
<1>9. /\ (since = 0 => \A k \in Clients : Matches(k))' /\ Past'
      /\ (Bound < 0 => \A k \in Ids : cpp[k] = Absent)'
  <2>1. Past'
    <3>1. now' = now /\ 0 <= now  BY <1>1 DEF TypeOK
    <3>2. \A k \in Ids : Last(rust, k)' = 0  BY <1>3 DEF Last
    <3>3. QED  BY <3>1, <3>2 DEF Past
  <2>2. (Bound < 0 => \A k \in Ids : cpp[k] = Absent)'  BY <1>1, <1>4 DEF Inv, Bound
  <2>3. ASSUME since = 0, NEW k \in Clients PROVE Matches(k)'
    <3>1. /\ Num(rust, k)' = 0 /\ Last(rust, k)' = 0 /\ Total(rust, k)' = Total(rust, k)
          /\ Num(cpp, k)' = 0 /\ Last(cpp, k)' = 0 /\ Total(cpp, k)' = Total(cpp, k)
      BY <1>3, <1>4 DEF Clients, Num, Last, Total
    <3>2. Matches(k)  BY <2>3 DEF Inv
    <3>3. QED  BY <1>1, <3>1, <3>2 DEF Matches
  <2>4. QED  BY <1>1, <2>1, <2>2, <2>3 DEF Clients
<1>10. ASSUME NEW k \in Clients PROVE Follows(k)'
  <2>1. k \in Ids /\ k > 1 /\ Follows(k)  BY DEF Clients, Inv
  <2>2. /\ Num(rust, k)' = 0 /\ Last(rust, k)' = 0
        /\ Gained(rust, k, now)' = Gained(rust', k, now)
    BY <1>1, <1>3, <2>1 DEF Num, Last, Gained, Total, Running
  <2>3. Gained(rust', k, now) = Total(rust, k) /\ Total(rust, k) <= Gained(rust, k, now)
    <3>1. Last(rust, k) \in Nat /\ Last(rust, k) <= now /\ Total(rust, k) \in Int /\ now \in Nat
      BY <1>1, <2>1, EntryAt DEF TypeOK, Past
    <3>2. QED  BY <1>3, <2>1, <3>1 DEF Gained, Running
  <2>4. /\ Total(rust, k) \in Int /\ Gained(rust, k, now) \in Int /\ online'[k] = 0 /\ lost'[k] = {}
        /\ mixed' = mixed /\ real' = real /\ real[k] \in Nat
    BY <1>1, <2>1, EntryAt, GainedIs DEF TypeOK
  <2>5. QED  BY <2>1, <2>2, <2>3, <2>4 DEF Follows
<1>11. (\A k \in Clients : Follows(k))'  BY <1>10 DEF Clients
<1>12. QED  BY <1>1, <1>3, <1>7, <1>8, <1>9, <1>11 DEF Inv

LEMMA TickSafe == ASSUME Inv, Tick PROVE Inv'
<1>1. /\ TypeOK /\ Jumped /\ Past /\ Coherent(rust) /\ Coherent(cpp) /\ now' = now + 1
      /\ UNCHANGED <<online, rust, cpp, since, missed, lost, mixed, began, stays>>
      /\ real' = [id \in Ids |-> IF online[id] > 0 THEN real[id] + 1 ELSE real[id]]
      /\ jumped' = IF now \notin Late /\ now + 1 \in Late THEN jumped + Day ELSE jumped
      /\ crossed' = IF now \in Late <=> now + 1 \in Late THEN crossed
                    ELSE crossed \union {id \in Ids : Connected(id)}
  BY DEF Inv, Tick, tables
<1> DEFINE t == StrToTime(now)
           u == StrToTime(now + 1)
           b == now + jumped - since
           c == now + 1 + jumped' - since
<1>2. TypeOK'  BY <1>1 DEF TypeOK
<1>3. ASSUME NEW db \in Tables, Coherent(db), NEW id \in Ids
      PROVE  /\ Num(db, id) \in Nat /\ Last(db, id) \in Nat /\ Total(db, id) \in Int
             /\ (Num(db, id) = 0 <=> Last(db, id) = 0)
  BY <1>3, EntryAt DEF Coherent
<1>4. /\ now \in Nat /\ t \in Nat /\ u \in Nat /\ Day \in Nat /\ jumped \in Nat /\ jumped' \in Nat
      /\ since \in Nat /\ b \in Int /\ c \in Int /\ b < c /\ u - t <= c - b
  BY <1>1, LateAssumption DEF TypeOK, StrToTime, Jumped
<1>4a. Bound = b /\ Bound' = c  BY <1>1 DEF Bound
<1>5. ASSUME NEW id \in Ids
      PROVE  /\ Total(rust, id)' = Total(rust, id) /\ Total(cpp, id)' = Total(cpp, id)
             /\ Num(rust, id)' = Num(rust, id) /\ Last(rust, id)' = Last(rust, id)
             /\ Num(cpp, id)' = Num(cpp, id) /\ Last(cpp, id)' = Last(cpp, id)
             /\ Gained(rust, id, now)' = Gained(rust, id, now + 1)
             /\ Gained(cpp, id, StrToTime(now))' = Gained(cpp, id, u)
  BY <1>1 DEF Num, Last, Total, Running, Gained, StrToTime
<1>6. Coherent(rust)' /\ Coherent(cpp)' /\ Past'
  BY <1>1, <1>3, <1>4, <1>5 DEF Coherent, TypeOK, Past
<1>7. Jumped'  BY <1>1, <1>4 DEF Jumped
<1>8. (Bound < 0 => \A k \in Ids : cpp[k] = Absent)'
  <2>1. c < 0 => b < 0
    <3> HIDE DEF b, c
    <3>1. QED  BY <1>4
  <2>2. b < 0 => \A k \in Ids : cpp[k] = Absent  BY <1>4a DEF Inv
  <2>3. cpp' = cpp  BY <1>1
  <2>4. QED  BY <1>4a, <2>1, <2>2, <2>3
<1>9. ASSUME since = 0, NEW k \in Clients PROVE Matches(k)'
  <2>1. k \in Ids /\ Matches(k) /\ rust \in Tables /\ cpp \in Tables
    BY <1>1, <1>9 DEF Inv, Clients, TypeOK
  <2>2. (Num(rust, k) = 0 <=> Last(rust, k) = 0) /\ Num(rust, k) \in Nat  BY <1>1, <1>3, <2>1
  <2>3. Connected(k) <=> Last(rust, k) # 0  BY <2>2 DEF Connected, Num
  <2>4. crossed \subseteq crossed'  BY <1>1
  <2>5. k \notin crossed' /\ Last(rust, k) # 0 => (now \in Late <=> now + 1 \in Late)
    BY <1>1, <2>1, <2>3
  <2>6. (Last(cpp, k) = IF Last(rust, k) = 0 THEN 0 ELSE StrToTime(Last(rust, k)))'
    BY <1>5, <2>1 DEF Matches, StrToTime
  <2>7. now' = now + 1  BY <1>1
  <2>8. QED  BY <1>5, <2>1, <2>4, <2>5, <2>6, <2>7 DEF Matches
<1>10. (since = 0 => \A k \in Clients : Matches(k))'  BY <1>1, <1>9 DEF Clients
<1>11. ASSUME NEW id \in Clients PROVE Within(id)'
  <2>1. id \in Ids /\ rust \in Tables /\ cpp \in Tables
    BY <1>1 DEF Clients, TypeOK
  <2>2. Within(id)  BY DEF Inv
  <2>3. Bound < 0 => Total(cpp, id) = 0 /\ Last(cpp, id) = 0
    BY <2>1 DEF Inv, Total, Last
  <2>4. /\ Last(rust, id) \in Nat /\ Total(rust, id) \in Int
        /\ Last(cpp, id) \in Nat /\ Total(cpp, id) \in Int
    BY <1>1, <1>3, <2>1
  <2>5. Gained(rust, id, now)' < now'
    <3>1. Gained(rust, id, now + 1) <= Gained(rust, id, now) + 1
      BY <1>4, <2>4 DEF Gained, Running
    <3>2. Gained(rust, id, now + 1) \in Int /\ Gained(rust, id, now) \in Int
      BY <1>4, <2>1, GainedIs
    <3>3. now' = now + 1  BY <1>1
    <3>4. QED  BY <1>4, <1>5, <2>1, <2>2, <3>1, <3>2, <3>3 DEF Within
  <2>6. 0 <= c => Gained(cpp, id, u) <= c /\ Total(cpp, id) <= c
    <3>1. 0 <= b => Gained(cpp, id, t) <= b /\ Total(cpp, id) <= b
      BY <2>2, <1>4a DEF Within
    <3>2. b < 0 => Total(cpp, id) = 0 /\ Last(cpp, id) = 0  BY <2>3, <1>4a
    <3> HIDE DEF t, u, b, c
    <3>3. Gained(cpp, id, u) = IF Last(cpp, id) = 0 THEN Total(cpp, id) ELSE Gained(cpp, id, t) + (u - t)
      BY <1>4, <2>4 DEF Gained, Running
    <3>4. Gained(cpp, id, t) \in Int  BY <1>4, <2>1, GainedIs
    <3>5. QED  BY <1>4, <2>4, <3>1, <3>2, <3>3, <3>4
  <2>7. (0 <= c => Gained(cpp, id, StrToTime(now))' <= c /\ Total(cpp, id)' <= c)
    BY <1>5, <2>1, <2>6
  <2>8. QED  BY <1>4a, <2>5, <2>7 DEF Within
<1>12. (\A id \in Clients : Within(id))'  BY <1>11 DEF Clients
<1>13. ASSUME NEW k \in Clients PROVE Follows(k)'
  <2>1. k \in Ids /\ Follows(k)  BY DEF Clients, Inv
  <2>2. /\ Num(rust, k) \in Nat /\ Last(rust, k) \in Nat /\ Total(rust, k) \in Int
        /\ (Num(rust, k) = 0 <=> Last(rust, k) = 0)
        /\ Gained(rust, k, now) \in Int /\ Gained(rust, k, now + 1) \in Int
        /\ Gained(rust, k, now + 1) =
              IF Last(rust, k) = 0 THEN Gained(rust, k, now) ELSE Gained(rust, k, now) + 1
    <3>1. rust \in Tables  BY <1>1 DEF TypeOK
    <3>2. Last(rust, k) \in Nat /\ Total(rust, k) \in Int  BY <1>1, <1>3, <2>1, <3>1
    <3>3. QED  BY <1>1, <1>3, <1>4, <2>1, <3>1, <3>2, GainedIs DEF Gained, Running
  <2>3. /\ real[k] \in Nat /\ online[k] \in Nat /\ now \in Nat
        /\ real'[k] = IF online[k] > 0 THEN real[k] + 1 ELSE real[k]
    BY <1>1, <2>1 DEF TypeOK
  <2>4. (lost[k] \in {{}, {"connect"}} /\ k \notin mixed => Num(rust, k) <= online[k])
    BY <2>1, <2>2, <2>3 DEF Follows
  <2>5. lost' = lost /\ mixed' = mixed /\ online' = online /\ began' = began  BY <1>1
  <2>6. lost[k] = {} =>
          Num(rust, k)' = online[k] /\ (Num(rust, k)' > 0 => Last(rust, k)' = began[k])
    BY <1>5, <2>1 DEF Follows
  <2>7. k \notin mixed /\ lost[k] = {"disconnect"} =>
          Num(rust, k)' > online[k] /\ Total(rust, k)' <= real'[k]
    BY <1>5, <2>1, <2>2, <2>3 DEF Follows
  <2>8. k \notin mixed /\ lost[k] # {"disconnect"} => Gained(rust, k, now)' <= real'[k]
    BY <1>5, <2>1, <2>2, <2>3, <2>4 DEF Follows
  <2>9. k \notin mixed /\ lost[k] = {"connect"} => Num(rust, k)' <= online[k]
    BY <1>5, <2>1 DEF Follows
  <2>10. k \notin mixed => lost[k] \in {{}, {"connect"}, {"disconnect"}}  BY <2>1 DEF Follows
  <2>11. QED  BY <2>5, <2>6, <2>7, <2>8, <2>9, <2>10 DEF Follows
<1>14. (\A k \in Clients : Follows(k))'  BY <1>13 DEF Clients
<1>15. QED  BY <1>2, <1>6, <1>7, <1>8, <1>10, <1>12, <1>14 DEF Inv

LEMMA Starts == Init => Inv
<1> SUFFICES ASSUME Init PROVE Inv  OBVIOUS
<1>1. TypeOK  BY SinceAssumption, AbsentAssumption DEF Init, TypeOK, Tables, Entry
<1>2. ASSUME NEW id \in Ids
      PROVE  /\ rust[id] = Absent /\ cpp[id] = Absent /\ online[id] = 0 /\ lost[id] = {} /\ real[id] = 0
             /\ Num(rust, id) = 0 /\ Last(rust, id) = 0 /\ Total(rust, id) = 0
             /\ Num(cpp, id) = 0 /\ Last(cpp, id) = 0 /\ Total(cpp, id) = 0
             /\ \A t : Gained(rust, id, t) = 0 /\ Gained(cpp, id, t) = 0
  BY DEF Init, Num, Last, Total, Running, Gained
<1>3. now = 1 /\ since \in Nat /\ mixed = {}  BY SinceAssumption DEF Init
<1>4. Coherent(rust) /\ Coherent(cpp) /\ Past  BY <1>2, <1>3 DEF Coherent, Past
<1>5. Jumped  BY LateAssumption DEF Init, Jumped
<1>6. \A id \in Clients : Follows(id)  BY <1>2, <1>3 DEF Follows, Clients
<1>7. \A id \in Clients : Matches(id)  BY <1>2, <1>3 DEF Matches, Clients
<1>8. \A id \in Clients : Within(id)  BY <1>2, <1>3 DEF Within, Clients
<1>9. QED  BY <1>1, <1>2, <1>4, <1>5, <1>6, <1>7, <1>8 DEF Inv

LEMMA StutterSafe == ASSUME Inv, UNCHANGED vars PROVE Inv'
<1>1. UNCHANGED <<now, online, rust, cpp, since, missed, lost, mixed, real, began, stays, jumped, crossed>>
  BY DEF vars, tables, jumps
<1>2. TypeOK' /\ Jumped'  BY <1>1 DEF Inv, TypeOK, Jumped
<1>3. Coherent(rust)' /\ Coherent(cpp)' /\ Past'  BY <1>1 DEF Inv, Coherent, Past, Num, Last
<1>4. (\A k \in Clients : Follows(k))'
  BY <1>1 DEF Inv, Follows, Clients, Num, Last, Total, Running, Gained
<1>5. (since = 0 => \A k \in Clients : Matches(k))'
  BY <1>1 DEF Inv, Matches, Clients, Num, Last, Total, StrToTime
<1>6. (Bound < 0 => \A k \in Ids : cpp[k] = Absent)'  BY <1>1 DEF Inv, Bound
<1>7. (\A k \in Clients : Within(k))'
  BY <1>1 DEF Inv, Within, Clients, Last, Total, Running, Gained, Bound, StrToTime
<1>8. QED  BY <1>2, <1>3, <1>4, <1>5, <1>6, <1>7 DEF Inv

LEMMA Invariance == Inv /\ [Next]_vars => Inv'
<1> SUFFICES ASSUME Inv, [Next]_vars PROVE Inv'  OBVIOUS
<1>1. CASE Tick  BY <1>1, TickSafe
<1>2. CASE NextFile  BY <1>2, NextFileSafe
<1>3. ASSUME NEW id \in Ids, Connect(id) PROVE Inv'  BY <1>3, ConnectSafe
<1>4. ASSUME NEW id \in Ids, Disconnect(id) PROVE Inv'  BY <1>4, DisconnectSafe
<1>5. ASSUME NEW id \in Ids, ConnectUnlogged(id) \/ DisconnectUnlogged(id) PROVE Inv'
  BY <1>5, UnloggedSafe
<1>6. CASE UNCHANGED vars  BY <1>6, StutterSafe
<1>7. QED  BY <1>1, <1>2, <1>3, <1>4, <1>5, <1>6 DEF Next

LEMMA Invariant == Spec => []Inv
  BY Starts, Invariance, PTL DEF Spec

----------------------------------------------------------------------------
(***************************************************************************)
(* The theorems                                                            *)
(***************************************************************************)
\* Without -d the two programs see the same connections, whatever the logs say, and
\* the same time of a client that never stayed over the beginning or the end of
\* the time of year that str_to_time gets wrong.
THEOREM EitherProgram == Spec => []ProgramsAgree
<1>1. Inv => ProgramsAgree  BY DEF Inv, Matches, ProgramsAgree
<1>2. QED  BY <1>1, Invariant, PTL

\* No client is credited more than the time the logs cover, and in the C++ program a
\* day for each leap year that began.
THEOREM NoMomentTwice == Spec => []WithinTheLogs
<1>1. ASSUME Inv, NEW id \in Clients
      PROVE  /\ Total(rust, id) + Running(rust, id, now) < now
             /\ now + jumped >= since =>
                   Total(cpp, id) + Running(cpp, id, StrToTime(now)) <= now + jumped - since
  <2>1. Within(id) /\ now \in Nat /\ jumped \in Nat /\ since \in Nat
    BY <1>1 DEF Inv, TypeOK, Jumped
  <2>2. QED  BY <2>1 DEF Within, Gained, Bound
<1>2. Inv => WithinTheLogs  BY <1>1 DEF WithinTheLogs
<1>3. QED  BY <1>2, Invariant, PTL

\* A client that missed lines of one kind only is not credited time it was away.
THEOREM NoTimeInvented == Spec => []InventsNoTime
<1>1. ASSUME Inv, NEW id \in Clients \ mixed PROVE Total(rust, id) <= real[id]
  <2>1. id \in Ids /\ Follows(id) /\ TypeOK /\ Past  BY <1>1 DEF Inv, Clients
  <2>2. /\ Last(rust, id) \in Nat /\ Last(rust, id) <= now /\ Total(rust, id) \in Int /\ now \in Nat
        /\ real[id] \in Nat
    BY <2>1, EntryAt DEF TypeOK, Past
  <2>3. Gained(rust, id, now) \in Int /\ Total(rust, id) <= Gained(rust, id, now)
    BY <2>2 DEF Gained, Running
  <2>4. QED  BY <2>1, <2>2, <2>3 DEF Follows
<1>2. Inv => InventsNoTime  BY <1>1 DEF InventsNoTime
<1>3. QED  BY <1>2, Invariant, PTL

\* In a file that misses none of its lines a client is credited with each of its
\* stays that ends, once and in full.
THEOREM StaysCredited == Spec => CreditsStays
<1> DEFINE Credits == \A id \in Clients : lost[id] = {} /\ lost'[id] = {} =>
                          Total(rust, id)' - Total(rust, id) = stays'[id] - stays[id]
<1>1. ASSUME Inv, [Next]_vars, NEW id \in Clients, lost[id] = {}, lost'[id] = {}
      PROVE  Total(rust, id)' - Total(rust, id) = stays'[id] - stays[id]
  <2>1. /\ id \in Ids /\ id > 1 /\ Follows(id) /\ TypeOK /\ Coherent(rust)
        /\ Total(rust, id)' = Total(rust', id)
    BY <1>1 DEF Inv, Clients, Total
  <2>2. /\ Total(rust, id) \in Int /\ stays[id] \in Nat /\ began[id] \in Nat /\ now \in Nat
        /\ online[id] \in Nat /\ Num(rust, id) = online[id]
        /\ Num(rust, id) > 0 => Last(rust, id) = began[id]
    BY <1>1, <2>1, EntryAt DEF TypeOK, Follows
  <2> SUFFICES \/ Total(rust', id) = Total(rust, id) /\ stays'[id] = stays[id]
               \/ /\ Total(rust', id) = Total(rust, id) + (now - began[id])
                  /\ stays'[id] = stays[id] + (now - began[id])
    BY <2>1, <2>2
  <2>3. CASE Tick \/ UNCHANGED vars  BY <2>1, <2>3 DEF Tick, vars, tables, Total
  <2>4. CASE NextFile  BY <1>1, <2>1, <2>4, NextFileSafe
  <2> DEFINE Right == \/ Total(rust', id) = Total(rust, id) /\ stays'[id] = stays[id]
                      \/ /\ Total(rust', id) = Total(rust, id) + (now - began[id])
                         /\ stays'[id] = stays[id] + (now - began[id])
  <2>5. ASSUME NEW k \in Ids, Connect(k) PROVE Right
    <3>1. stays' = stays /\ RustLogConnect(k)  BY <2>5 DEF Connect, Comes
    <3>2. IF k <= 1 THEN rust' = rust ELSE Counted(rust, rust', k, now)  BY <2>1, <3>1, RustCounts
    <3>3. Total(rust', id) = Total(rust, id)
      BY <2>1, <3>2, OtherEntry DEF Counted
    <3>4. QED  BY <3>1, <3>3
  <2>6. ASSUME NEW k \in Ids, Disconnect(k) PROVE Right
    <3>1. /\ online[k] > 0 /\ RustLogDisconnect(k)
          /\ stays' = [stays EXCEPT ![k] = IF online[k] = 1 THEN @ + (now - began[k]) ELSE @]
      BY <2>6 DEF Disconnect, Leaves
    <3>2. IF k <= 1 THEN rust' = rust ELSE Uncounted(rust, rust', k, now)  BY <2>1, <3>1, RustUncounts
    <3>3. CASE k = id
      <4>1. Uncounted(rust, rust', id, now)  BY <2>1, <3>2, <3>3, IdsAssumption
      <4>2. stays'[id] = IF online[id] = 1 THEN stays[id] + (now - began[id]) ELSE stays[id]
        BY <2>1, <3>1, <3>3 DEF TypeOK
      <4>3. QED  BY <2>2, <3>1, <3>3, <4>1, <4>2 DEF Uncounted
    <3>4. CASE k # id
      <4>1. stays'[id] = stays[id]  BY <2>1, <3>1, <3>4 DEF TypeOK
      <4>2. Total(rust', id) = Total(rust, id)  BY <2>1, <3>2, <3>4, OtherEntry DEF Uncounted
      <4>3. QED  BY <4>1, <4>2
    <3>5. QED  BY <3>3, <3>4
  <2>7. ASSUME NEW k \in Ids, ConnectUnlogged(k) \/ DisconnectUnlogged(k) PROVE Right
    <3>1. /\ lost'[k] # {} /\ rust' = rust
          /\ \A j \in Ids \ {k} : stays'[j] = stays[j] /\ lost'[j] = lost[j]
      BY <1>1, <2>7, UnloggedSafe
    <3>2. QED  BY <1>1, <2>1, <3>1
  <2>8. QED  BY <1>1, <2>3, <2>4, <2>5, <2>6, <2>7 DEF Next
<1>2. Inv /\ [Next]_vars => [Credits]_vars  BY <1>1
<1>3. QED  BY <1>2, Invariant, PTL DEF Spec, CreditsStays

----------------------------------------------------------------------------
(***************************************************************************)
(* str_to_time counts the days up to 2099, but for January and February of *)
(* leap years; 2100, which is none, ends the formula.                      *)
(***************************************************************************)
DateOK ==
    /\ year \in 1970 .. 2099 /\ month \in 1 .. 12 /\ mday \in 1 .. 31
    /\ mday <= DaysIn(year, month) /\ days \in Nat

\* Until 2099 every fourth year is a leap year.
LEMMA LeapYears ==
    ASSUME NEW y \in 1970 .. 2099
    PROVE  Leap(y) <=> y % 4 = 0
<1>1. CASE y = 2000  BY <1>1 DEF Leap
<1>2. CASE y # 2000
  <2>1. y % 100 # 0
    BY <1>2
  <2>2. y % 400 # 0
    BY <1>2
  <2>3. QED  BY <2>1, <2>2 DEF Leap
<1>3. QED  BY <1>1, <1>2

Leaps(y) == (y - 1900 - 70 + 2) \div 4
PastDays(m) == IF m - 1 > 0 THEN days_past_in_year[m - 1] ELSE 0

\* The formula's leap days grow by one when a leap year begins.
LEMMA LeapsGrow ==
    ASSUME NEW y \in 1970 .. 2099
    PROVE  /\ Leaps(y) \in Nat
           /\ Leaps(y + 1) = Leaps(y) + IF (y + 1) % 4 = 0 THEN 1 ELSE 0
  BY DEF Leaps

\* The table of days agrees with the lengths of the months.
LEMMA PastGrows ==
    /\ \A m \in 1 .. 12 : PastDays(m) \in Nat
    /\ \A m \in 1 .. 11 :
          PastDays(m + 1) = PastDays(m) + IF m = 2 THEN 28 ELSE IF m \in Long THEN 31 ELSE 30
    /\ PastDays(1) = 0 /\ PastDays(12) = 334
<1>1. \A m \in 1 .. 12 :
          PastDays(m) = CASE m = 1 -> 0 [] m = 2 -> 31 [] m = 3 -> 59 [] m = 4 -> 90
              [] m = 5 -> 120 [] m = 6 -> 151 [] m = 7 -> 181 [] m = 8 -> 212
              [] m = 9 -> 243 [] m = 10 -> 273 [] m = 11 -> 304 [] m = 12 -> 334
  BY DEF PastDays, days_past_in_year
<1> HIDE DEF PastDays
<1>2. QED  BY <1>1 DEF Long

\* The formula, in the terms of the lemmas.
DayCount(y, m, d) == PastDays(m) + (d - 1) + (y - 1900 - 70) * 365 + Leaps(y)
LEMMA TDaysIs ==
    ASSUME NEW y, NEW m, NEW d
    PROVE  TDays(y, m, d) = DayCount(y, m, d)
  BY DEF TDays, DayCount, PastDays, Leaps

DateInv == DateOK /\ RightFromMarch

LEMMA FirstDayInv == FirstDay => DateInv
<1> SUFFICES ASSUME FirstDay PROVE DateInv
  OBVIOUS
<1>1. DateOK  BY DEF FirstDay, DateOK, DaysIn, Long
<1>2. ~Leap(1970)  BY LeapYears
<1>3. TDays(1970, 1, 1) = 0  BY DEF TDays
<1>4. QED  BY <1>1, <1>2, <1>3 DEF FirstDay, DateInv, RightFromMarch

LEMMA TurnInv == LastYear \in 1970 .. 2099 /\ DateInv /\ [Turn]_date => DateInv'
<1> SUFFICES ASSUME LastYear \in 1970 .. 2099, DateInv, [Turn]_date PROVE DateInv'
  OBVIOUS
<1> USE DEF DateInv
<1>1. /\ days = PastDays(month) + (mday - 1) + (year - 1970) * 365 + Leaps(year)
                - IF Leap(year) /\ month <= 2 THEN 1 ELSE 0
      /\ PastDays(month) \in Nat /\ Leaps(year) \in Nat
  <2>1. year \in 1970 .. 2099 /\ month \in 1 .. 12 /\ mday \in 1 .. 31 /\ days \in Nat
    BY DEF DateOK
  <2>2. TDays(year, month, mday) = DayCount(year, month, mday)
    BY TDaysIs
  <2>3. PastDays(month) \in Nat  BY <2>1, PastGrows
  <2>4. Leaps(year) \in Nat  BY <2>1, LeapsGrow
  <2>5. TDays(year, month, mday) = IF Leap(year) /\ month <= 2 THEN days + 1 ELSE days
    BY DEF RightFromMarch
  <2>6. QED  BY <2>1, <2>2, <2>3, <2>4, <2>5 DEF DayCount
<1>2. CASE NextDay
  <2>1. DateOK'  BY <1>2 DEF NextDay, DateOK, DaysIn
  <2>2. TDays(year', month', mday') = PastDays(month) + mday + (year - 1970) * 365 + Leaps(year)
    <3>1. year \in 1970 .. 2099 /\ month \in 1 .. 12 /\ mday + 1 \in 1 .. 31 /\ mday \in Nat
      BY <2>1, <1>2 DEF NextDay, DateOK
    <3>2. TDays(year, month, mday + 1) = DayCount(year, month, mday + 1)
      BY TDaysIs
    <3>3. QED  BY <3>1, <3>2, <1>1, <1>2 DEF NextDay, DayCount
  <2>3. QED  BY <1>1, <1>2, <2>1, <2>2 DEF NextDay, DateOK, RightFromMarch
<1>3. CASE NextMonth
  <2>1. DateOK'  BY <1>3 DEF NextMonth, DateOK, DaysIn
  <2>2. TDays(year', month', mday') = PastDays(month + 1) + (year - 1970) * 365 + Leaps(year)
    <3>1. year \in 1970 .. 2099 /\ month + 1 \in 1 .. 12 /\ 1 \in 1 .. 31
      BY <2>1, <1>3 DEF NextMonth, DateOK
    <3>2. TDays(year, month + 1, 1) = DayCount(year, month + 1, 1)
      BY TDaysIs
    <3>3. PastDays(month + 1) \in Nat  BY <3>1, PastGrows
    <3>4. QED  BY <3>1, <3>2, <3>3, <1>1, <1>3 DEF NextMonth, DayCount
  <2>3. PastDays(month + 1) = PastDays(month) + IF month = 2 THEN 28 ELSE IF month \in Long THEN 31 ELSE 30
    BY <1>3, PastGrows DEF NextMonth, DateOK
  <2>4. mday = IF month = 2 THEN (IF Leap(year) THEN 29 ELSE 28) ELSE IF month \in Long THEN 31 ELSE 30
    BY <1>3 DEF NextMonth, DaysIn
  <2>5. year \in Nat /\ month \in Nat /\ PastDays(month) \in Nat /\ Leaps(year) \in Nat
    BY <1>1 DEF DateOK
  <2>6. TDays(year', month', mday') = IF Leap(year) /\ month + 1 <= 2 THEN days + 2 ELSE days + 1
    BY <1>1, <2>2, <2>3, <2>4, <2>5 DEF Long
  <2>7. year' = year /\ month' = month + 1 /\ days' = days + 1 /\ days \in Nat
    BY <1>3 DEF NextMonth, DateOK
  <2>8. RightFromMarch'
    BY <2>6, <2>7 DEF RightFromMarch
  <2>9. QED  BY <2>1, <2>8
<1>4. CASE NextYear
  <2>1. DateOK'  BY <1>4 DEF NextYear, DateOK, DaysIn, Long
  <2>2. mday = 31 /\ month = 12  BY <1>4 DEF NextYear, DaysIn, Long
  <2> DEFINE y == year'
  <2>3. /\ y = year + 1 /\ y \in 1970 .. 2099 /\ month' = 1 /\ mday' = 1
        /\ days' = days + 1 /\ days \in Nat
    BY <2>1, <1>4 DEF NextYear, DateOK
  <2> HIDE DEF y
  <2>4. TDays(y, 1, 1) = (y - 1970) * 365 + Leaps(y)
    <3>1. TDays(y, 1, 1) = DayCount(y, 1, 1)  BY TDaysIs
    <3>2. PastDays(1) = 0 /\ Leaps(y) \in Nat  BY <2>3, PastGrows, LeapsGrow
    <3>3. QED  BY <2>3, <3>1, <3>2 DEF DayCount
  <2>5. Leap(y) <=> y % 4 = 0  BY <2>3, LeapYears
  <2>6. Leaps(year + 1) = Leaps(year) + IF (year + 1) % 4 = 0 THEN 1 ELSE 0
    BY LeapsGrow DEF DateOK
  <2>7. days = 334 + 30 + (year - 1970) * 365 + Leaps(year)
    BY <1>1, <2>2, PastGrows DEF DateOK
  <2>8. year \in Nat /\ Leaps(year) \in Nat  BY <1>1 DEF DateOK
  <2>9. TDays(y, 1, 1) = IF Leap(y) THEN days + 2 ELSE days + 1
    BY <2>3, <2>4, <2>5, <2>6, <2>7, <2>8
  <2>10. RightFromMarch'
    BY <2>3, <2>9 DEF RightFromMarch, y
  <2>11. QED  BY <2>1, <2>10
<1>5. CASE UNCHANGED date
  BY <1>5 DEF date, DateOK, RightFromMarch
<1>6. QED  BY <1>2, <1>3, <1>4, <1>5 DEF Turn

\* On every day of the calendar up to 2099 str_to_time is right or, in January
\* and February of leap years, one day late.
THEOREM RightUpTo2099 == LastYear \in 1970 .. 2099 => (CalendarSpec => []RightFromMarch)
<1> SUFFICES ASSUME LastYear \in 1970 .. 2099 PROVE CalendarSpec => []RightFromMarch
  OBVIOUS
<1>1. DateInv /\ [Turn]_date => DateInv'  BY TurnInv
<1>2. DateInv => RightFromMarch  BY DEF DateInv
<1>3. QED  BY <1>1, <1>2, FirstDayInv, PTL DEF CalendarSpec
=============================================================================

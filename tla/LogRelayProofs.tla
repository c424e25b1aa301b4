--------------------------- MODULE LogRelayProofs ---------------------------
(***************************************************************************)
(* Proofs about LogRelay, for any modules, any length of the buffer and of *)
(* the pipes, and any bytes.                                               *)
(***************************************************************************)
EXTENDS LogRelay, SequenceTheorems, FiniteSetTheorems, TLAPS

Item == [of : Mods \union {"newline", "manager", "nothing"}, byte : Nat]

TypeOK ==
    /\ alive \subseteq Mods /\ open \subseteq Mods /\ marks \subseteq Mods
    /\ killed \in Nat /\ pending \in BOOLEAN
    /\ said \in [Mods -> Nat] /\ taken \in [Mods -> Nat]
    /\ breaks \in [Mods -> SUBSET Nat] /\ dropped \in [Mods -> SUBSET Nat]
    /\ entry \in Nat \ {0} /\ (pc = "read" => entry <= Len(ModList))
    /\ buf \in [1 .. BufLen -> Item] /\ left \in 1 .. BufLen
    /\ log \in Seq(Item) /\ restarts \in Nat /\ pc \in {"loop", "serve", "read"}

PipesOK == \A m \in Mods : taken[m] <= said[m] /\ dropped[m] \subseteq 1 .. taken[m]

----------------------------------------------------------------------------
(***************************************************************************)
(* Bursts: the places from a name, or a line of the manager's own, to the  *)
(* next                                                                    *)
(***************************************************************************)
Starts(x) == x = Line \/ (x.of \in Mods /\ x.byte = 0)

\* The burst that holds place p begins at q.
Begins(s, q, p) == q \in 1 .. p /\ Starts(s[q]) /\ \A r \in q + 1 .. p : ~Starts(s[r])

Grouped(s) == \A p \in 1 .. Len(s) : \E q \in 1 .. Len(s) : Begins(s, q, p)
Named(s) ==
    \A p, q \in 1 .. Len(s) : Begins(s, q, p) /\ s[p].of \in Mods => s[q] = Name(s[p].of)

\* b holds the newlines of each module.
Breaks(x, b) == x = Newline \/ (x.of \in Mods /\ x.byte \in b[x.of])
Broken(s, b, q, p) ==
    (\E r \in q .. p : Breaks(s[r], b)) \/ \E k \in Nat : p - q + 1 = k * BufLen

\* The burst that begins at q ends at p: it is broken, or being read.
EndsAt(s, b, reading, q, p) ==
    /\ Begins(s, q, p) /\ (p = Len(s) \/ Starts(s[p + 1]))
    /\ Broken(s, b, q, p) \/ (p = Len(s) /\ reading)
Broke(s, b, reading) ==
    \A q \in 1 .. Len(s) :
        Starts(s[q]) /\ s[q] # Line => \E p \in q .. Len(s) : EndsAt(s, b, reading, q, p)

\* What is in the buffer is of the last burst, which is whole buffers and what
\* was read since.
ReadingAt(s, q, m, b, n) ==
    /\ Begins(s, q, Len(s)) /\ s[q] = Name(m)
    /\ \E k \in Nat : Len(s) - q + 1 = k * BufLen + (BufLen - n)
    /\ \A i \in 1 .. BufLen : b[i] = Zero \/ \E p \in q .. Len(s) : s[p] = b[i]
ReadingOK == pc = "read" => \E q \in 1 .. Len(Out) : ReadingAt(Out, q, Module, buf, left)

\* The handler's lines stand where a burst ends, or behind whole buffers of one.
AsideIn(s, c) ==
    /\ c \in 0 .. Len(s)
    /\ \/ c < Len(s) /\ Starts(s[c + 1])
       \/ \E q \in 1 .. Len(s) : Begins(s, q, c) /\ \E k \in Nat : c - q + 1 = k * BufLen
AsidesOK(s, reading, places) ==
    \A c \in places : AsideIn(s, c) \/ (c = Len(s) /\ ~reading)

\* What a module said is there, once and in order, but for what was lost.
BytesIn(s, m) == {p \in 1 .. Len(s) : s[p].of = m /\ s[p].byte > 0}
Carries(s, got, lost) ==
    \A m \in Mods :
        /\ {s[p].byte : p \in BytesIn(s, m)} = (1 .. got[m]) \ lost[m]
        /\ \A p, q \in BytesIn(s, m) : p < q => s[p].byte < s[q].byte

Inv ==
    /\ TypeOK /\ PipesOK /\ Carries(Out, taken, dropped)
    /\ Grouped(Out) /\ Named(Out) /\ Broke(Out, breaks, pc = "read") /\ ReadingOK
    /\ AsidesOK(Out, pc = "read", asides)

Longer(s, t) ==
    s \in Seq(Item) /\ t \in Seq(Item) /\ Len(s) <= Len(t) /\ \A i \in 1 .. Len(s) : t[i] = s[i]

LEMMA BeginsOnce ==
    ASSUME NEW s, NEW p \in Nat, NEW q \in Nat, NEW r \in Nat, Begins(s, q, p), Begins(s, r, p)
    PROVE  q = r
BY DEF Begins

LEMMA BeginsKept ==
    ASSUME NEW s, NEW t, Longer(s, t), NEW p \in 1 .. Len(s), NEW q
    PROVE  Begins(t, q, p) <=> Begins(s, q, p)
<1>1. Len(s) \in Nat  BY DEF Longer
<1>2. ASSUME q \in 1 .. p PROVE t[q] = s[q] /\ \A r \in q + 1 .. p : t[r] = s[r]
  BY <1>1, <1>2 DEF Longer
<1>3. QED  BY <1>2 DEF Begins

\* What is not the start of a burst belongs to the one before it.
LEMMA BeginsLonger ==
    ASSUME NEW s, NEW t, Longer(s, t), \A i \in Len(s) + 1 .. Len(t) : ~Starts(t[i]),
           NEW q \in 1 .. Len(s), Begins(s, q, Len(s)), NEW p \in Len(s) .. Len(t)
    PROVE  Begins(t, q, p)
<1>1. Len(s) \in Nat /\ Len(t) \in Nat /\ Len(s) \in 1 .. Len(s)  BY DEF Longer
<1>2. Begins(t, q, Len(s))  BY <1>1, BeginsKept
<1>3. \A r \in q + 1 .. p : r \in q + 1 .. Len(s) \/ r \in Len(s) + 1 .. Len(t)  BY <1>1
<1>4. QED  BY <1>1, <1>2, <1>3 DEF Begins

\* What is added leaves the handler's lines where they may be: it is more of a
\* burst that is being read, or the start of one.
LEMMA AsideKept ==
    ASSUME NEW s, NEW t, Longer(s, t), NEW c, AsideIn(s, c)
    PROVE  AsideIn(t, c)
<1>1. Len(s) \in Nat /\ Len(t) \in Nat /\ Len(s) <= Len(t)  BY DEF Longer
<1>2. c \in 0 .. Len(s) /\ c \in 0 .. Len(t)
  <2>1. c \in 0 .. Len(s)  BY DEF AsideIn
  <2>2. QED  BY <1>1, <2>1
<1>3. CASE c < Len(s) /\ Starts(s[c + 1])
  <2>1. c + 1 \in 1 .. Len(s) /\ c < Len(t)  BY <1>1, <1>2, <1>3
  <2>2. t[c + 1] = s[c + 1]  BY <2>1 DEF Longer
  <2>3. QED  BY <1>2, <1>3, <2>1, <2>2 DEF AsideIn
<1>4. CASE \E q \in 1 .. Len(s) : Begins(s, q, c) /\ \E k \in Nat : c - q + 1 = k * BufLen
  <2>1. PICK q \in 1 .. Len(s) : Begins(s, q, c) /\ \E k \in Nat : c - q + 1 = k * BufLen
    BY <1>4
  <2>2. c \in 1 .. Len(s)  BY <1>1, <1>2, <2>1 DEF Begins
  <2>3. Begins(t, q, c) /\ q \in 1 .. Len(t)  BY <1>1, <2>1, <2>2, BeginsKept
  <2>4. QED  BY <1>2, <2>1, <2>3 DEF AsideIn
<1>5. QED  BY <1>3, <1>4 DEF AsideIn

LEMMA AsidesMore ==
    ASSUME NEW s, NEW t, Longer(s, t), NEW places, AsidesOK(s, TRUE, places), NEW reading
    PROVE  AsidesOK(t, reading, places)
BY AsideKept DEF AsidesOK

LEMMA AsidesBegin ==
    ASSUME NEW s, NEW t, Longer(s, t), NEW places, AsidesOK(s, FALSE, places), NEW reading,
           Len(s) < Len(t), Starts(t[Len(s) + 1])
    PROVE  AsidesOK(t, reading, places)
<1>1. Len(s) \in Nat /\ Len(t) \in Nat  BY DEF Longer
<1>2. AsideIn(t, Len(s))  BY <1>1 DEF AsideIn
<1>3. QED  BY <1>2, AsideKept DEF AsidesOK

\* More newlines break as much.
Grows(b, c) == \A m \in Mods : b[m] \subseteq c[m]

LEMMA BrokenKept ==
    ASSUME NEW s, NEW t, Longer(s, t), NEW b, NEW c, Grows(b, c),
           NEW p \in 1 .. Len(s), NEW q \in 1 .. p, Broken(s, b, q, p)
    PROVE  Broken(t, c, q, p)
<1>1. Len(s) \in Nat  BY DEF Longer
<1>2. \A r \in q .. p : t[r] = s[r]  BY <1>1 DEF Longer
<1>3. \A x : Breaks(x, b) => Breaks(x, c)  BY DEF Breaks, Grows
<1>4. QED  BY <1>2, <1>3 DEF Broken

\* A burst that begins changes nothing about those before it.
LEMMA OneBegins ==
    ASSUME NEW s, NEW t, Longer(s, t), Len(t) = Len(s) + 1, Starts(t[Len(t)]),
           t[Len(t)].of \in Mods => t[Len(t)] = Name(t[Len(t)].of),
           Grouped(s), Named(s)
    PROVE  /\ Begins(t, Len(t), Len(t)) /\ Grouped(t) /\ Named(t)
           /\ \A q \in 1 .. Len(t) : Begins(t, q, Len(t)) => q = Len(t)
<1>1. Len(s) \in Nat /\ Len(t) \in Nat \ {0} /\ 1 .. Len(t) = (1 .. Len(s)) \union {Len(t)}
  BY DEF Longer
<1>2. Begins(t, Len(t), Len(t))  BY <1>1 DEF Begins
<1>3. \A q \in 1 .. Len(t) : Begins(t, q, Len(t)) => q = Len(t)
  BY <1>1, <1>2, BeginsOnce
<1>4. Grouped(t)
  <2> SUFFICES ASSUME NEW p \in 1 .. Len(t) PROVE \E q \in 1 .. Len(t) : Begins(t, q, p)
    BY DEF Grouped
  <2>1. CASE p \in 1 .. Len(s)  BY <1>1, <2>1, BeginsKept DEF Grouped
  <2>2. CASE p = Len(t)  BY <1>1, <1>2, <2>2
  <2>3. QED  BY <1>1, <2>1, <2>2
<1>5. Named(t)
  <2> SUFFICES ASSUME NEW p \in 1 .. Len(t), NEW q \in 1 .. Len(t), Begins(t, q, p), t[p].of \in Mods
               PROVE  t[q] = Name(t[p].of)
    BY DEF Named
  <2>1. CASE p \in 1 .. Len(s)
    <3>1. Begins(s, q, p)  BY <2>1, BeginsKept
    <3>2. q \in 1 .. Len(s)  BY <1>1, <2>1 DEF Begins
    <3>3. t[p] = s[p] /\ t[q] = s[q]  BY <2>1, <3>2 DEF Longer
    <3>4. QED  BY <2>1, <3>1, <3>2, <3>3 DEF Named
  <2>2. CASE p = Len(t)  BY <1>3, <2>2
  <2>3. QED  BY <1>1, <2>1, <2>2
<1>6. QED  BY <1>2, <1>3, <1>4, <1>5

\* A burst that goes on.
LEMMA MoreOfOne ==
    ASSUME NEW s, NEW t, Longer(s, t), \A i \in Len(s) + 1 .. Len(t) : ~Starts(t[i]),
           NEW q \in 1 .. Len(s), Begins(s, q, Len(s)),
           \A i \in Len(s) + 1 .. Len(t) : t[i].of \in Mods => s[q] = Name(t[i].of),
           Grouped(s), Named(s)
    PROVE  Begins(t, q, Len(t)) /\ Grouped(t) /\ Named(t)
<1>1. Len(s) \in Nat /\ Len(t) \in Nat /\ Len(s) <= Len(t)
      /\ \A p \in 1 .. Len(t) : p \in 1 .. Len(s) \/ p \in Len(s) + 1 .. Len(t)
  BY DEF Longer
<1>2. \A p \in Len(s) .. Len(t) : Begins(t, q, p)  BY BeginsLonger
<1>3. Grouped(t)
  <2> SUFFICES ASSUME NEW p \in 1 .. Len(t) PROVE \E r \in 1 .. Len(t) : Begins(t, r, p)
    BY DEF Grouped
  <2>1. CASE p \in 1 .. Len(s)  BY <1>1, <2>1, BeginsKept DEF Grouped
  <2>2. CASE p \in Len(s) + 1 .. Len(t)  BY <1>1, <1>2, <2>2
  <2>3. QED  BY <1>1, <2>1, <2>2
<1>4. Named(t)
  <2> SUFFICES ASSUME NEW p \in 1 .. Len(t), NEW r \in 1 .. Len(t), Begins(t, r, p), t[p].of \in Mods
               PROVE  t[r] = Name(t[p].of)
    BY DEF Named
  <2>1. CASE p \in 1 .. Len(s)
    <3>1. Begins(s, r, p) /\ r \in 1 .. Len(s)  BY <1>1, <2>1, BeginsKept DEF Begins
    <3>2. t[p] = s[p] /\ t[r] = s[r]  BY <2>1, <3>1 DEF Longer
    <3>3. QED  BY <2>1, <3>1, <3>2 DEF Named
  <2>2. CASE p \in Len(s) + 1 .. Len(t)
    <3>1. Begins(t, q, p)  BY <1>1, <1>2, <2>2
    <3>2. r = q  BY <1>1, <2>2, <3>1, BeginsOnce
    <3>3. t[q] = s[q]  BY DEF Longer
    <3>4. QED  BY <2>2, <3>2, <3>3
  <2>3. QED  BY <1>1, <2>1, <2>2
<1>5. QED  BY <1>1, <1>2, <1>3, <1>4
\* The bursts that have ended stay so; the last one ends where another begins.
LEMMA BrokeOneBegins ==
    ASSUME NEW s, NEW t, Longer(s, t), Len(t) = Len(s) + 1, Starts(t[Len(t)]),
           NEW b, NEW reading \in BOOLEAN, t[Len(t)] # Line => reading, Broke(s, b, FALSE)
    PROVE  Broke(t, b, reading)
<1>1. Len(s) \in Nat /\ Len(t) \in Nat \ {0} /\ 1 .. Len(t) = (1 .. Len(s)) \union {Len(t)}
  BY DEF Longer
<1> SUFFICES ASSUME NEW q \in 1 .. Len(t), Starts(t[q]), t[q] # Line
             PROVE  \E p \in q .. Len(t) : EndsAt(t, b, reading, q, p)
  BY DEF Broke
<1>2. CASE q = Len(t)
  <2>1. Begins(t, q, q)  BY <1>1, <1>2 DEF Begins
  <2>2. EndsAt(t, b, reading, q, q)  BY <1>2, <2>1 DEF EndsAt
  <2>3. q \in q .. Len(t)  BY <1>1, <1>2
  <2>4. QED  BY <2>2, <2>3
<1>3. CASE q \in 1 .. Len(s)
  <2>1. t[q] = s[q]  BY <1>3 DEF Longer
  <2>2. PICK p \in q .. Len(s) : EndsAt(s, b, FALSE, q, p)  BY <1>3, <2>1 DEF Broke
  <2>3. p \in 1 .. Len(s) /\ q \in 1 .. p /\ p \in q .. Len(t)  BY <1>1, <1>3
  <2>4. Begins(t, q, p)  BY <2>2, <2>3, BeginsKept DEF EndsAt
  <2>5. Broken(t, b, q, p)  BY <2>2, <2>3, BrokenKept DEF EndsAt, Grows
  <2>6. p = Len(t) \/ Starts(t[p + 1])
    <3>1. CASE p = Len(s)  BY <3>1
    <3>2. CASE p # Len(s)
      <4>1. Starts(s[p + 1]) /\ p + 1 \in 1 .. Len(s)  BY <1>1, <2>2, <2>3, <3>2 DEF EndsAt
      <4>2. QED  BY <4>1 DEF Longer
    <3>3. QED  BY <3>1, <3>2
  <2>7. EndsAt(t, b, reading, q, p)  BY <2>4, <2>5, <2>6 DEF EndsAt
  <2>8. QED  BY <2>3, <2>7
<1>4. QED  BY <1>1, <1>2, <1>3

LEMMA BrokeMore ==
    ASSUME NEW s, NEW t, Longer(s, t), \A i \in Len(s) + 1 .. Len(t) : ~Starts(t[i]),
           NEW q0 \in 1 .. Len(s), Begins(s, q0, Len(s)),
           NEW b, NEW c, Grows(b, c), NEW reading \in BOOLEAN,
           reading \/ Broken(t, c, q0, Len(t)),
           Broke(s, b, TRUE)
    PROVE  Broke(t, c, reading)
<1>1. /\ Len(s) \in Nat /\ Len(t) \in Nat /\ Len(s) <= Len(t) /\ Len(s) \in 1 .. Len(s)
      /\ \A q \in 1 .. Len(t) : q \in 1 .. Len(s) \/ q \in Len(s) + 1 .. Len(t)
  BY DEF Longer
<1> SUFFICES ASSUME NEW q \in 1 .. Len(t), Starts(t[q]), t[q] # Line
             PROVE  \E p \in q .. Len(t) : EndsAt(t, c, reading, q, p)
  BY DEF Broke
<1>2. q \in 1 .. Len(s) /\ t[q] = s[q]  BY <1>1 DEF Longer
<1>3. PICK p \in q .. Len(s) : EndsAt(s, b, TRUE, q, p)  BY <1>2 DEF Broke
<1>4. p \in 1 .. Len(s) /\ q \in 1 .. p /\ p \in q .. Len(t) /\ Len(t) \in q .. Len(t)
  BY <1>1, <1>2
<1>5. CASE p = Len(s)
  <2>1. q = q0  BY <1>1, <1>2, <1>3, <1>5, BeginsOnce DEF EndsAt
  <2>2. Begins(t, q0, Len(t))  BY <1>1, BeginsLonger
  <2>3. EndsAt(t, c, reading, q, Len(t))  BY <2>1, <2>2 DEF EndsAt
  <2>4. QED  BY <1>4, <2>3
<1>6. CASE p # Len(s)
  <2>1. Starts(s[p + 1]) /\ p + 1 \in 1 .. Len(s)  BY <1>1, <1>3, <1>4, <1>6 DEF EndsAt
  <2>2. Starts(t[p + 1])  BY <2>1 DEF Longer
  <2>3. Begins(t, q, p)  BY <1>3, <1>4, BeginsKept DEF EndsAt
  <2>4. Broken(s, b, q, p)  BY <1>3, <1>6 DEF EndsAt
  <2>5. Broken(t, c, q, p)  BY <1>4, <2>4, BrokenKept
  <2>6. EndsAt(t, c, reading, q, p)  BY <2>2, <2>3, <2>5 DEF EndsAt
  <2>7. QED  BY <1>4, <2>6
<1>7. QED  BY <1>5, <1>6

\* What is no byte of a module changes nothing about them.
LEMMA CarriesNone ==
    ASSUME NEW s, NEW t, Longer(s, t), NEW got, NEW lost, Carries(s, got, lost),
           \A i \in Len(s) + 1 .. Len(t) : t[i].of \notin Mods \/ t[i].byte = 0
    PROVE  Carries(t, got, lost)
<1>1. /\ Len(s) \in Nat /\ Len(t) \in Nat /\ Len(s) <= Len(t)
      /\ \A i \in 1 .. Len(t) : i \in 1 .. Len(s) \/ i \in Len(s) + 1 .. Len(t)
  BY DEF Longer
<1> SUFFICES ASSUME NEW m \in Mods
             PROVE  /\ {t[p].byte : p \in BytesIn(t, m)} = (1 .. got[m]) \ lost[m]
                    /\ \A p, q \in BytesIn(t, m) : p < q => t[p].byte < t[q].byte
  BY DEF Carries
<1>2. BytesIn(t, m) = BytesIn(s, m) /\ \A p \in BytesIn(s, m) : t[p] = s[p]
  BY <1>1 DEF BytesIn, Longer
<1>3. {t[p].byte : p \in BytesIn(t, m)} = {s[p].byte : p \in BytesIn(s, m)}  BY <1>2
<1>4. QED  BY <1>2, <1>3 DEF Carries

\* The next bytes of a module come after all that it said.
LEMMA CarriesMore ==
    ASSUME NEW s, NEW t, Longer(s, t), NEW m0 \in Mods, NEW n \in Nat, Len(t) = Len(s) + n,
           NEW got \in [Mods -> Nat], NEW lost, Carries(s, got, lost), lost[m0] \subseteq 1 .. got[m0],
           \A i \in 1 .. n : t[Len(s) + i] = Byte(m0, got[m0] + i)
    PROVE  Carries(t, [got EXCEPT ![m0] = @ + n], lost)
<1> DEFINE more == [got EXCEPT ![m0] = @ + n]
<1>1. /\ Len(s) \in Nat /\ Len(t) \in Nat
      /\ \A i \in 1 .. Len(t) : i \in 1 .. Len(s) \/ i \in Len(s) + 1 .. Len(t)
      /\ 1 .. Len(t) = (1 .. Len(s)) \union (Len(s) + 1 .. Len(t))
  BY DEF Longer
<1>2. more[m0] = got[m0] + n /\ got[m0] \in Nat /\ \A m \in Mods \ {m0} : more[m] = got[m]
  OBVIOUS
<1>3. \A i \in Len(s) + 1 .. Len(t) : t[i].of = m0 /\ t[i].byte = got[m0] + (i - Len(s))
  <2> SUFFICES ASSUME NEW i \in Len(s) + 1 .. Len(t)
               PROVE  t[i].of = m0 /\ t[i].byte = got[m0] + (i - Len(s))
    OBVIOUS
  <2>1. i - Len(s) \in 1 .. n /\ i = Len(s) + (i - Len(s))  BY <1>1
  <2>2. t[i] = Byte(m0, got[m0] + (i - Len(s)))  BY <2>1
  <2>3. QED  BY <2>2 DEF Byte
<1> HIDE DEF more
<1> SUFFICES ASSUME NEW m \in Mods
             PROVE  /\ {t[p].byte : p \in BytesIn(t, m)} = (1 .. more[m]) \ lost[m]
                    /\ \A p, q \in BytesIn(t, m) : p < q => t[p].byte < t[q].byte
  BY DEF Carries, more
<1>4. \A p \in BytesIn(s, m) : p \in 1 .. Len(s) /\ p \in BytesIn(t, m) /\ t[p] = s[p]
  BY <1>1 DEF BytesIn, Longer
<1>5. \A p \in BytesIn(t, m) : p \in BytesIn(s, m) \/ (p \in Len(s) + 1 .. Len(t) /\ m = m0)
  BY <1>1, <1>3 DEF BytesIn, Longer
<1>6. CASE m # m0
  <2>1. BytesIn(t, m) = BytesIn(s, m)  BY <1>4, <1>5, <1>6
  <2>2. {t[p].byte : p \in BytesIn(t, m)} = {s[p].byte : p \in BytesIn(s, m)}  BY <1>4, <2>1
  <2>3. QED  BY <1>2, <1>4, <1>6, <2>1, <2>2 DEF Carries
<1>7. CASE m = m0
  <2>1. \A p \in Len(s) + 1 .. Len(t) : p \in BytesIn(t, m) /\ t[p].byte = got[m] + (p - Len(s))
    BY <1>1, <1>2, <1>3, <1>7 DEF BytesIn
  <2>2. {s[p].byte : p \in BytesIn(s, m)} = (1 .. got[m]) \ lost[m]  BY DEF Carries
  <2>3. \A p \in BytesIn(s, m) : s[p].byte \in 1 .. got[m]  BY <2>2
  <2>4. ASSUME NEW p \in BytesIn(t, m) PROVE t[p].byte \in (1 .. more[m]) \ lost[m]
    <3>1. CASE p \in BytesIn(s, m)
      <4>1. t[p].byte \in (1 .. got[m]) \ lost[m]  BY <1>4, <2>2, <3>1
      <4>2. QED  BY <1>2, <1>7, <4>1
    <3>2. CASE p \in Len(s) + 1 .. Len(t)
      <4>1. t[p].byte = got[m] + (p - Len(s)) /\ p - Len(s) \in 1 .. n  BY <1>1, <2>1, <3>2
      <4>2. QED  BY <1>2, <1>7, <4>1
    <3>3. QED  BY <1>5, <3>1, <3>2
  <2>5. ASSUME NEW k \in (1 .. more[m]) \ lost[m] PROVE \E p \in BytesIn(t, m) : k = t[p].byte
    <3>1. CASE k <= got[m]
      <4>1. k \in (1 .. got[m]) \ lost[m]  BY <1>2, <1>7, <3>1
      <4>2. PICK p \in BytesIn(s, m) : k = s[p].byte  BY <2>2, <4>1
      <4>3. QED  BY <1>4, <4>2
    <3>2. CASE k > got[m]
      <4> DEFINE p == Len(s) + (k - got[m])
      <4>1. p \in Len(s) + 1 .. Len(t) /\ got[m] + (p - Len(s)) = k  BY <1>1, <1>2, <1>7, <3>2
      <4> HIDE DEF p
      <4>2. QED  BY <2>1, <4>1
    <3>3. QED  BY <1>2, <1>7, <3>1, <3>2
  <2>6. ASSUME NEW p \in BytesIn(t, m), NEW q \in BytesIn(t, m), p < q
        PROVE  t[p].byte < t[q].byte
    <3>1. CASE p \in BytesIn(s, m) /\ q \in BytesIn(s, m)
      <4>1. t[p] = s[p] /\ t[q] = s[q]  BY <1>4, <3>1
      <4>2. QED  BY <2>6, <3>1, <4>1 DEF Carries
    <3>2. CASE p \in BytesIn(s, m) /\ q \in Len(s) + 1 .. Len(t)
      <4>1. t[p].byte \in 1 .. got[m]  BY <1>4, <2>3, <3>2
      <4>2. t[q].byte = got[m] + (q - Len(s)) /\ q - Len(s) \in 1 .. n  BY <1>1, <2>1, <3>2
      <4>3. QED  BY <1>2, <1>7, <4>1, <4>2
    <3>3. CASE p \in Len(s) + 1 .. Len(t) /\ q \in Len(s) + 1 .. Len(t)
      <4>1. t[p].byte = got[m] + (p - Len(s)) /\ t[q].byte = got[m] + (q - Len(s))
        BY <2>1, <3>3
      <4>2. QED  BY <1>1, <1>2, <1>7, <2>6, <3>3, <4>1
    <3>4. CASE p \in Len(s) + 1 .. Len(t) /\ q \in BytesIn(s, m)
      BY <1>1, <1>4, <2>6, <3>4
    <3>5. QED  BY <1>5, <3>1, <3>2, <3>3, <3>4
  <2>7. {t[p].byte : p \in BytesIn(t, m)} = (1 .. more[m]) \ lost[m]  BY <2>4, <2>5
  <2>8. QED  BY <2>6, <2>7
<1>8. QED  BY <1>6, <1>7
----------------------------------------------------------------------------
(***************************************************************************)
(* The steps                                                               *)
(***************************************************************************)
LEMMA ModuleIs == ASSUME TypeOK, entry <= Len(ModList) PROVE Module \in Mods
<1>1. entry \in 1 .. Len(ModList) /\ DOMAIN ModList = 1 .. Len(ModList)
  BY ModListAssumption DEF TypeOK
<1>2. QED  BY <1>1 DEF Module, Mods, ToSet

LEMMA Apart == /\ "newline" \notin Mods /\ "manager" \notin Mods /\ "nothing" \notin Mods
               /\ Line \in Item /\ Newline \in Item /\ Zero \in Item
               /\ \A m \in Mods : Name(m) \in Item /\ \A i \in Nat : Byte(m, i) \in Item
BY ModListAssumption DEF Line, Newline, Zero, Name, Byte, Item

LEMMA ConcatAt ==
    ASSUME NEW S, NEW s \in Seq(S), NEW t \in Seq(S)
    PROVE  /\ s \o t \in Seq(S) /\ Len(s \o t) = Len(s) + Len(t)
           /\ \A i \in 1 .. Len(s) : (s \o t)[i] = s[i]
           /\ \A i \in 1 .. Len(t) : (s \o t)[Len(s) + i] = t[i]
<1>1. Len(s) \in Nat /\ Len(t) \in Nat  OBVIOUS
<1>2. s \o t \in Seq(S) /\ Len(s \o t) = Len(s) + Len(t)  BY ConcatProperties
<1>3. ASSUME NEW i \in 1 .. Len(s) PROVE (s \o t)[i] = s[i]
  BY <1>1, ConcatProperties
<1>4. ASSUME NEW i \in 1 .. Len(t) PROVE (s \o t)[Len(s) + i] = t[i]
  <2> DEFINE k == Len(s) + i
  <2>1. k \in 1 .. Len(s) + Len(t) /\ ~(k <= Len(s)) /\ k - Len(s) = i  BY <1>1
  <2> HIDE DEF k
  <2>2. (s \o t)[k] = t[k - Len(s)]  BY <2>1, ConcatProperties
  <2>3. QED  BY <2>1, <2>2 DEF k
<1>5. QED  BY <1>2, <1>3, <1>4

\* The log and the part of the buffer that is used.
LEMMA UsedAt ==
    ASSUME NEW l \in Seq(Item), NEW b \in [1 .. BufLen -> Item], NEW n \in 1 .. BufLen
    PROVE  LET t == l \o SubSeq(b, 1, BufLen - n)
           IN  /\ t \in Seq(Item) /\ Len(t) = Len(l) + (BufLen - n)
               /\ \A i \in 1 .. Len(l) : t[i] = l[i]
               /\ \A i \in 1 .. BufLen - n : t[Len(l) + i] = b[i]
<1>1. b \in Seq(Item) /\ Len(b) = BufLen /\ BufLen \in Nat  BY RelayAssumption
<1> DEFINE k == BufLen - n
           u == SubSeq(b, 1, k)
<1>2. k \in 0 .. BufLen  BY <1>1
<1> HIDE DEF k
<1>3. u \in Seq(Item) /\ Len(u) = k /\ \A i \in 1 .. k : u[i] = b[i]  BY <1>1, <1>2
<1> HIDE DEF u
<1>4. /\ l \o u \in Seq(Item) /\ Len(l \o u) = Len(l) + Len(u)
      /\ \A i \in 1 .. Len(l) : (l \o u)[i] = l[i]
      /\ \A i \in 1 .. Len(u) : (l \o u)[Len(l) + i] = u[i]
  <2>1. u \in Seq(Item)  BY <1>3
  <2>2. QED  BY ONLY <2>1, ConcatAt
<1>5. QED  BY <1>3, <1>4 DEF u, k

LEMMA OutIs ==
    ASSUME TypeOK
    PROVE  Out \in Seq(Item) /\ (pc # "read" => Out = log)
<1>1. log \in Seq(Item) /\ buf \in [1 .. BufLen -> Item] /\ left \in 1 .. BufLen  BY DEF TypeOK
<1>2. CASE pc # "read"
  <2>1. Out = log \o <<>>  BY <1>2 DEF Out
  <2>2. QED  BY <1>1, <2>1
<1>3. CASE pc = "read"
  <2>1. Out = log \o SubSeq(buf, 1, BufLen - left)  BY <1>3 DEF Out, Used
  <2>2. QED  BY <1>1, <1>3, <2>1, UsedAt
<1>4. QED  BY <1>2, <1>3

LEMMA BrokeGrows ==
    ASSUME NEW s \in Seq(Item), NEW b, NEW c, Grows(b, c), NEW reading, Broke(s, b, reading)
    PROVE  Broke(s, c, reading)
<1>1. Longer(s, s) /\ Len(s) \in Nat  BY DEF Longer
<1>2. ASSUME NEW q \in 1 .. Len(s), NEW p \in q .. Len(s), EndsAt(s, b, reading, q, p)
      PROVE  EndsAt(s, c, reading, q, p)
  <2>1. p \in 1 .. Len(s) /\ q \in 1 .. p  BY <1>1
  <2>2. Broken(s, b, q, p) => Broken(s, c, q, p)  BY <1>1, <2>1, BrokenKept
  <2>3. QED  BY <1>2, <2>2 DEF EndsAt
<1>3. QED  BY <1>2 DEF Broke

\* The parts of the invariant, of what is out after the step.
LEMMA InvIs ==
    ASSUME TypeOK', PipesOK', Carries(Out', taken', dropped'), Grouped(Out'), Named(Out'),
           Broke(Out', breaks', pc' = "read"), ReadingOK', AsidesOK(Out', pc' = "read", asides')
    PROVE  Inv'
BY DEF Inv, Carries, BytesIn, Grouped, Named, Begins, Starts, Broke, EndsAt, Broken, Breaks,
       AsidesOK, AsideIn, Name, Line, Newline, Mods

LEMMA ReadingIs ==
    ASSUME \E q \in 1 .. Len(Out') : ReadingAt(Out', q, Module', buf', left')
    PROVE  ReadingOK'
BY DEF ReadingOK, ReadingAt, Begins, Starts, Name, Line, Zero, Mods

\* A step that leaves what is out as it is.
LEMMA StillSafe ==
    ASSUME Inv, TypeOK', PipesOK', Out' = Out, Carries(Out, taken', dropped'),
           Grows(breaks, breaks'), AsidesOK(Out, pc = "read", asides'),
           (pc # "read" /\ pc' # "read") \/ UNCHANGED <<pc, buf, left, entry>>
    PROVE  Inv'
<1>1. Out \in Seq(Item)  BY OutIs DEF Inv
<1>2. Broke(Out, breaks', pc = "read")  BY <1>1, BrokeGrows DEF Inv
<1>3. (pc' = "read") = (pc = "read")  OBVIOUS
<1>4. Broke(Out', breaks', pc' = "read")  BY <1>2, <1>3
<1>5. ReadingOK'
  <2>1. CASE pc' # "read"  BY <2>1 DEF ReadingOK
  <2>2. CASE UNCHANGED <<pc, buf, left, entry>>
    <3>1. Module' = Module  BY <2>2 DEF Module
    <3>2. CASE pc = "read"
      <4>1. \E q \in 1 .. Len(Out') : ReadingAt(Out', q, Module', buf', left')
        BY <2>2, <3>1, <3>2 DEF Inv, ReadingOK
      <4>2. QED  BY <4>1, ReadingIs
    <3>3. CASE pc # "read"  BY <2>2, <3>3 DEF ReadingOK
    <3>4. QED  BY <3>2, <3>3
  <2>3. QED  BY <2>1, <2>2
<1>6. Grouped(Out') /\ Named(Out') /\ Carries(Out', taken', dropped')  BY DEF Inv
<1>7. AsidesOK(Out', pc' = "read", asides')  BY <1>3
<1>8. QED  BY <1>4, <1>5, <1>6, <1>7, InvIs

LEMMA OthersSafe ==
    ASSUME Inv, (\E m \in Mods : Die(m)) \/ Obey \/ Poll \/ Skip \/ PassDone \/ UNCHANGED vars
    PROVE  Inv'
<1>1. /\ TypeOK /\ PipesOK /\ Carries(Out, taken, dropped)
      /\ UNCHANGED <<asides, open, said, breaks, taken, dropped, buf, left, log, restarts>>
      /\ killed' \in Nat /\ pending' \in BOOLEAN /\ alive' \subseteq alive /\ marks' \subseteq Mods
      /\ \/ UNCHANGED <<pc, entry>>
         \/ pc # "read" /\ pc' \in {"loop", "serve"} /\ entry' \in {1, entry + 1}
  <2>1. TypeOK /\ PipesOK /\ Carries(Out, taken, dropped)  BY DEF Inv
  <2>2. killed \in Nat /\ pending \in BOOLEAN /\ marks \subseteq Mods /\ open \subseteq Mods
    BY <2>1 DEF TypeOK
  <2>3. CASE \E m \in Mods : Die(m)  BY <2>1, <2>2, <2>3 DEF Die, relay
  <2>4. CASE Obey
    <3>1. killed' \in Nat  BY <2>2, <2>4 DEF Obey
    <3>2. QED  BY <2>1, <2>2, <2>4, <3>1 DEF Obey, relay
  <2>5. CASE Poll \/ Skip \/ PassDone
    BY <2>1, <2>2, <2>5 DEF Poll, Skip, PassDone, modules, children
  <2>6. CASE UNCHANGED vars  BY <2>1, <2>2, <2>6 DEF vars, children
  <2>7. QED  BY <2>3, <2>4, <2>5, <2>6
<1>2. TypeOK'  BY <1>1 DEF TypeOK
<1>3. PipesOK'  BY <1>1 DEF PipesOK
<1>4. Out' = Out
  <2>1. CASE UNCHANGED <<pc, entry>>  BY <1>1, <2>1 DEF Out, Used
  <2>2. CASE pc # "read" /\ pc' # "read"  BY <1>1, <2>2 DEF Out
  <2>3. QED  BY <1>1, <2>1, <2>2
<1>5. Grows(breaks, breaks') /\ Carries(Out, taken', dropped')
      /\ AsidesOK(Out, pc = "read", asides')
  BY <1>1 DEF Grows, Inv
<1>6. QED  BY <1>1, <1>2, <1>3, <1>4, <1>5, StillSafe

\* The handler writes behind what the thread has written: when a burst is being
\* read, that is before it, or behind whole buffers of it.
LEMMA ReapSafe == ASSUME Inv, Reap PROVE Inv'
<1>1. /\ TypeOK /\ PipesOK /\ Carries(Out, taken, dropped) /\ AsidesOK(Out, pc = "read", asides)
      /\ pending' = FALSE /\ (asides' = asides \/ asides' = asides \union {Len(log)})
      /\ UNCHANGED <<alive, killed, open, said, breaks, taken, dropped, relay, log, restarts, pc>>
  BY DEF Inv, Reap
<1>2. TypeOK'  BY <1>1 DEF TypeOK, relay
<1>3. PipesOK'  BY <1>1 DEF PipesOK
<1>4. Out' = Out  BY <1>1 DEF Out, Used, relay
<1>5. AsideIn(Out, Len(log)) \/ (Len(log) = Len(Out) /\ ~(pc = "read"))
  <2>1. Len(log) \in Nat /\ Len(Out) \in Nat /\ Out \in Seq(Item) /\ (pc # "read" => Out = log)
    BY <1>1, OutIs DEF TypeOK
  <2>2. CASE pc # "read"  BY <2>1, <2>2
  <2>3. CASE pc = "read"
    <3>1. Len(Out) = Len(log) + (BufLen - left) /\ BufLen - left \in Nat
          /\ left \in Nat /\ BufLen \in Nat
      <4> DEFINE t == log \o SubSeq(buf, 1, BufLen - left)
      <4>1. Out = t  BY <2>3 DEF Out, Used
      <4>2. log \in Seq(Item) /\ buf \in [1 .. BufLen -> Item] /\ left \in 1 .. BufLen /\ BufLen \in Nat
        BY <1>1, RelayAssumption DEF TypeOK
      <4>3. Len(t) = Len(log) + (BufLen - left)  BY <4>2, UsedAt
      <4> HIDE DEF t
      <4>4. QED  BY <4>1, <4>2, <4>3
    <3>2. PICK q \in 1 .. Len(Out) : ReadingAt(Out, q, Module, buf, left)
      BY <2>3 DEF Inv, ReadingOK
    <3>3. PICK k \in Nat : Len(Out) - q + 1 = k * BufLen + (BufLen - left)
      BY <3>2 DEF ReadingAt
    <3> DEFINE whole == k * BufLen
    <3>4. whole \in Nat  BY <3>1
    <3>5. Len(log) - q + 1 = whole  BY <2>1, <3>1, <3>3, <3>4
    <3>6. Begins(Out, q, Len(Out))  BY <3>2 DEF ReadingAt
    <3> HIDE DEF whole
    <3>7. CASE whole = 0
      <4>1. q = Len(log) + 1  BY <2>1, <3>5, <3>7
      <4>2. QED  BY <2>1, <3>6, <4>1 DEF AsideIn, Begins
    <3>8. CASE whole > 0
      <4>1. q \in 1 .. Len(log) /\ Len(log) <= Len(Out)  BY <2>1, <3>1, <3>4, <3>5, <3>8
      <4>2. Begins(Out, q, Len(log))  BY <2>1, <3>6, <4>1 DEF Begins
      <4>3. Len(log) - q + 1 = k * BufLen  BY <3>5 DEF whole
      <4>4. Len(log) \in 0 .. Len(Out)  BY <2>1, <4>1
      <4>5. QED  BY <4>2, <4>3, <4>4 DEF AsideIn
    <3>9. QED  BY <3>4, <3>7, <3>8
  <2>4. QED  BY <2>2, <2>3
<1>6. AsidesOK(Out, pc = "read", asides')  BY <1>1, <1>5 DEF AsidesOK
<1>7. Grows(breaks, breaks') /\ Carries(Out, taken', dropped')  BY <1>1 DEF Grows
<1>8. QED  BY <1>1, <1>2, <1>3, <1>4, <1>6, <1>7, StillSafe DEF relay

LEMMA SaySafe == ASSUME Inv, NEW m \in Mods, NEW b \in BOOLEAN, Say(m, b) PROVE Inv'
<1>1. /\ TypeOK /\ PipesOK /\ Carries(Out, taken, dropped)
      /\ said' = [said EXCEPT ![m] = @ + 1]
      /\ breaks' = breaks \/ breaks' = [breaks EXCEPT ![m] = @ \union {said'[m]}]
      /\ UNCHANGED <<children, open, taken, dropped, relay, log, restarts, pc>>
  BY DEF Inv, Say
<1>2. said[m] \in Nat /\ said'[m] = said[m] + 1 /\ \A n \in Mods \ {m} : said'[n] = said[n]
  BY <1>1 DEF TypeOK
<1>3. said' \in [Mods -> Nat] /\ said'[m] \in Nat
  <2>1. said[m] + 1 \in Nat  BY <1>2
  <2>2. QED  BY <1>1, <1>2, <2>1 DEF TypeOK
<1>4. breaks' \in [Mods -> SUBSET Nat] /\ Grows(breaks, breaks')
  <2>1. breaks \in [Mods -> SUBSET Nat]  BY <1>1 DEF TypeOK
  <2>2. CASE breaks' = breaks  BY <2>1, <2>2 DEF Grows
  <2>3. CASE breaks' = [breaks EXCEPT ![m] = @ \union {said'[m]}]
    <3> DEFINE new == breaks[m] \union {said'[m]}
    <3>1. new \in SUBSET Nat /\ breaks[m] \subseteq new  BY <1>3, <2>1
    <3>2. breaks' = [breaks EXCEPT ![m] = new]  BY <2>3
    <3> HIDE DEF new
    <3>3. QED  BY <2>1, <3>1, <3>2 DEF Grows
  <2>4. QED  BY <1>1, <2>2, <2>3
<1>5. TypeOK'  BY <1>1, <1>3, <1>4 DEF TypeOK, relay, children
<1>6. PipesOK'
  <2> SUFFICES ASSUME NEW n \in Mods PROVE taken'[n] <= said'[n] /\ dropped'[n] \subseteq 1 .. taken'[n]
    BY DEF PipesOK
  <2>1. taken[n] \in Nat /\ said[n] \in Nat /\ taken[n] <= said[n] /\ dropped[n] \subseteq 1 .. taken[n]
    BY <1>1 DEF PipesOK, TypeOK
  <2>2. said[n] <= said'[n] /\ said'[n] \in Nat  BY <1>2, <2>1
  <2>3. QED  BY <1>1, <2>1, <2>2
<1>7. Out' = Out  BY <1>1 DEF Out, Used, relay
<1>8. AsidesOK(Out, pc = "read", asides')  BY <1>1 DEF Inv, children
<1>9. QED  BY <1>1, <1>4, <1>5, <1>6, <1>7, <1>8, StillSafe DEF relay

\* What a closed pipe held is taken and dropped at once.
LEMMA ExitSafe == ASSUME Inv, NEW m \in Mods, Exit(m) PROVE Inv'
<1>1. /\ TypeOK /\ PipesOK /\ Carries(Out, taken, dropped) /\ pc # "read"
      /\ open' \subseteq open /\ alive' \subseteq alive /\ marks' \subseteq marks
      /\ dropped' = [dropped EXCEPT ![m] = @ \union (taken[m] + 1) .. said[m]]
      /\ taken' = [taken EXCEPT ![m] = said[m]]
      /\ killed' \in Nat
      /\ UNCHANGED <<pending, asides, said, breaks, entry, buf, left, log, restarts, pc>>
  BY DEF Inv, Exit, BetweenReads, TypeOK
<1>2. /\ said[m] \in Nat /\ taken[m] \in Nat /\ taken[m] <= said[m]
      /\ dropped[m] \subseteq 1 .. taken[m]
      /\ taken'[m] = said[m] /\ dropped'[m] = dropped[m] \union (taken[m] + 1) .. said[m]
      /\ \A n \in Mods \ {m} : taken'[n] = taken[n] /\ dropped'[n] = dropped[n]
  BY <1>1 DEF TypeOK, PipesOK
<1>3. TypeOK'
  <2>1. taken' \in [Mods -> Nat]  BY <1>1, <1>2 DEF TypeOK
  <2>2. dropped' \in [Mods -> SUBSET Nat]
    <3>1. dropped[m] \union (taken[m] + 1) .. said[m] \in SUBSET Nat  BY <1>2
    <3>2. QED  BY <1>1, <3>1 DEF TypeOK
  <2>3. QED  BY <1>1, <2>1, <2>2 DEF TypeOK
<1>4. 1 .. said[m] = (1 .. taken[m]) \union (taken[m] + 1 .. said[m])  BY <1>2
<1>5. PipesOK'
  <2> SUFFICES ASSUME NEW n \in Mods PROVE taken'[n] <= said'[n] /\ dropped'[n] \subseteq 1 .. taken'[n]
    BY DEF PipesOK
  <2>1. CASE n = m  BY <1>1, <1>2, <1>4, <2>1
  <2>2. CASE n # m  BY <1>1, <1>2, <2>2 DEF PipesOK
  <2>3. QED  BY <2>1, <2>2
<1>6. Carries(Out, taken', dropped')
  <2>1. (1 .. taken'[m]) \ dropped'[m] = (1 .. taken[m]) \ dropped[m]
    <3>1. \A x \in 1 .. taken[m] : x \notin taken[m] + 1 .. said[m]  BY <1>2
    <3>2. QED  BY <1>2, <1>4, <3>1
  <2>2. \A n \in Mods : (1 .. taken'[n]) \ dropped'[n] = (1 .. taken[n]) \ dropped[n]
    BY <1>2, <2>1
  <2>3. QED  BY <1>1, <2>2 DEF Carries
<1>7. Out' = Out  BY <1>1 DEF Out
<1>8. Grows(breaks, breaks')  BY <1>1 DEF Grows
<1>9. AsidesOK(Out, pc = "read", asides')  BY <1>1 DEF Inv
<1>10. QED  BY <1>1, <1>3, <1>5, <1>6, <1>7, <1>8, <1>9, StillSafe

\* The manager's own line begins another burst.
LEMMA StartSafe == ASSUME Inv, NEW m \in Mods, Start(m) PROVE Inv'
<1>1. /\ Inv /\ TypeOK /\ PipesOK /\ Carries(Out, taken, dropped) /\ pc # "read"
      /\ open' \subseteq Mods /\ alive' \subseteq Mods /\ marks' \subseteq Mods
      /\ log' = Append(log, Line) /\ restarts' = restarts + 1
      /\ UNCHANGED <<killed, pending, asides, said, breaks, taken, dropped, entry, buf, left, pc>>
  BY DEF Inv, Start, BetweenReads, TypeOK
<1>2. Out = log /\ log \in Seq(Item)  BY <1>1, OutIs DEF TypeOK
<1> DEFINE t == Append(log, Line)
<1>3. /\ t \in Seq(Item) /\ Len(t) = Len(log) + 1 /\ t[Len(t)] = Line /\ Len(log) \in Nat
      /\ \A i \in 1 .. Len(log) : t[i] = log[i]
  BY <1>2, Apart
<1>4. Out' = t
  <2>1. Out' = log' \o <<>>  BY <1>1 DEF Out
  <2>2. QED  BY <1>1, <1>3, <2>1
<1> HIDE DEF t
<1>5. TypeOK'
  <2>1. log' \in Seq(Item)  BY <1>1, <1>3 DEF t
  <2>2. QED  BY <1>1, <2>1 DEF TypeOK
<1>6. PipesOK'  BY <1>1 DEF PipesOK
<1>7. Longer(Out, t)  BY <1>2, <1>3 DEF Longer
<1>8. Starts(Line) /\ Line.of \notin Mods  BY Apart DEF Starts, Line
<1>9. Grouped(t) /\ Named(t)
  <2>1. Grouped(Out) /\ Named(Out)  BY DEF Inv
  <2>2. QED  BY <1>2, <1>3, <1>7, <1>8, <2>1, OneBegins
<1>10. Broke(t, breaks, FALSE)
  <2>1. Broke(Out, breaks, FALSE)
    <3>1. (pc = "read") = FALSE  BY <1>1
    <3>2. QED  BY <1>1, <3>1 DEF Inv
  <2>2. QED  BY <1>2, <1>3, <1>7, <1>8, <2>1, BrokeOneBegins
<1>11. Carries(t, taken, dropped)
  <2>1. \A i \in Len(Out) + 1 .. Len(t) : t[i] = Line  BY <1>2, <1>3
  <2>2. QED  BY <1>1, <1>7, <1>8, <2>1, CarriesNone
<1>12. ReadingOK'  BY <1>1 DEF ReadingOK
<1>13. Broke(Out', breaks', pc' = "read")
  <2>1. (pc' = "read") = FALSE  BY <1>1
  <2>2. QED  BY <1>1, <1>4, <1>10, <2>1
<1>14. AsidesOK(Out', pc' = "read", asides')
  <2>1. (pc = "read") = FALSE /\ (pc' = "read") = FALSE  BY <1>1
  <2>2. AsidesOK(Out, FALSE, asides)  BY <2>1 DEF Inv
  <2>3. Starts(t[Len(Out) + 1]) /\ Len(Out) < Len(t)  BY <1>2, <1>3, <1>8
  <2>4. AsidesOK(t, FALSE, asides)  BY <1>7, <2>2, <2>3, AsidesBegin
  <2>5. QED  BY <1>1, <1>4, <2>1, <2>4
<1>15. QED  BY <1>1, <1>4, <1>5, <1>6, <1>9, <1>11, <1>12, <1>13, <1>14, InvIs

\* The name begins another burst, that is being read.
LEMMA BeginSafe == ASSUME Inv, Begin PROVE Inv'
<1>1. /\ Inv /\ TypeOK /\ PipesOK /\ Carries(Out, taken, dropped) /\ pc = "serve"
      /\ entry <= Len(ModList)
      /\ buf' = [Blank EXCEPT ![1] = Name(Module)] /\ left' = BufLen - 1 /\ pc' = "read"
      /\ UNCHANGED <<modules, taken, marks, entry, log>>
  BY DEF Inv, Begin, Fill
<1>2. Module \in Mods /\ BufLen \in Nat /\ BufLen > 1  BY <1>1, ModuleIs, RelayAssumption
<1>3. Out = log /\ log \in Seq(Item) /\ Name(Module) \in Item
  BY <1>1, <1>2, OutIs, Apart DEF TypeOK
<1>4. TypeOK'
  <2>1. Blank \in [1 .. BufLen -> Item]  BY Apart DEF Blank
  <2>2. buf' \in [1 .. BufLen -> Item]  BY <1>1, <1>3, <2>1
  <2>3. left' \in 1 .. BufLen  BY <1>1, <1>2
  <2>4. QED  BY <1>1, <2>2, <2>3 DEF TypeOK, modules, children
<1>5. /\ buf'[1] = Name(Module)
      /\ \A i \in 1 .. BufLen : i = 1 \/ buf'[i] = Zero
  BY <1>1, <1>2 DEF Blank
<1> DEFINE t == Out'
<1>6. /\ t \in Seq(Item) /\ Len(t) = Len(log) + 1 /\ t[Len(t)] = Name(Module) /\ Len(log) \in Nat
      /\ \A i \in 1 .. Len(log) : t[i] = log[i]
  <2>1. BufLen - left' = 1  BY <1>1, <1>2
  <2>2. t = log \o SubSeq(buf', 1, BufLen - left')  BY <1>1 DEF Out, Used
  <2>3. buf' \in [1 .. BufLen -> Item] /\ left' \in 1 .. BufLen  BY <1>4 DEF TypeOK
  <2> HIDE DEF t
  <2>4. /\ t \in Seq(Item) /\ Len(t) = Len(log) + (BufLen - left')
        /\ \A i \in 1 .. Len(log) : t[i] = log[i]
        /\ \A i \in 1 .. BufLen - left' : t[Len(log) + i] = buf'[i]
    BY <1>3, <2>2, <2>3, UsedAt
  <2>5. QED  BY <1>3, <1>5, <2>1, <2>4
<1>7. Out' = t  OBVIOUS
<1> HIDE DEF t
<1>8. PipesOK'  BY <1>1 DEF PipesOK, modules
<1>9. Longer(Out, t)  BY <1>3, <1>6 DEF Longer
<1>10. Starts(Name(Module)) /\ Name(Module).of = Module /\ Name(Module).byte = 0
  BY <1>2 DEF Starts, Name
<1>11. Grouped(t) /\ Named(t) /\ Begins(t, Len(t), Len(t))
  <2>1. Grouped(Out) /\ Named(Out)  BY DEF Inv
  <2>2. t[Len(t)] = Name(t[Len(t)].of)  BY <1>6, <1>10
  <2>3. QED  BY <1>3, <1>6, <1>9, <1>10, <2>1, <2>2, OneBegins
<1>12. Broke(t, breaks, TRUE)
  <2>1. Broke(Out, breaks, FALSE)
    <3>1. (pc = "read") = FALSE  BY <1>1
    <3>2. QED  BY <1>1, <3>1 DEF Inv
  <2>2. QED  BY <1>3, <1>6, <1>9, <1>10, <2>1, BrokeOneBegins
<1>13. Carries(t, taken, dropped)
  <2>1. \A i \in Len(Out) + 1 .. Len(t) : t[i] = Name(Module)  BY <1>3, <1>6
  <2>2. QED  BY <1>1, <1>9, <1>10, <2>1, CarriesNone
<1>14. ReadingOK'
  <2>1. Module' = Module  BY <1>1 DEF Module
  <2>2. Len(t) - Len(t) + 1 = 0 * BufLen + (BufLen - left')  BY <1>1, <1>2, <1>6
  <2>3. \A i \in 1 .. BufLen : buf'[i] = Zero \/ \E p \in Len(t) .. Len(t) : t[p] = buf'[i]
    BY <1>5, <1>6
  <2>4. ReadingAt(t, Len(t), Module', buf', left')
    BY <1>6, <1>11, <2>1, <2>2, <2>3 DEF ReadingAt
  <2>5. Len(t) \in 1 .. Len(t)  BY <1>6
  <2>6. QED  BY <1>7, <2>4, <2>5, ReadingIs
<1>15. Broke(Out', breaks', pc' = "read")
  <2>1. (pc' = "read") = TRUE /\ breaks' = breaks  BY <1>1 DEF modules
  <2>2. QED  BY <1>7, <1>12, <2>1
<1>16. UNCHANGED <<taken, dropped>>  BY <1>1 DEF modules
<1>17. AsidesOK(Out', pc' = "read", asides')
  <2>1. (pc = "read") = FALSE /\ (pc' = "read") = TRUE /\ asides' = asides
    BY <1>1 DEF modules, children
  <2>2. AsidesOK(Out, FALSE, asides)  BY <2>1 DEF Inv
  <2>3. Starts(t[Len(Out) + 1]) /\ Len(Out) < Len(t)  BY <1>3, <1>6, <1>10
  <2>4. AsidesOK(t, TRUE, asides)  BY <1>9, <2>2, <2>3, AsidesBegin
  <2>5. QED  BY <1>7, <2>1, <2>4
<1>18. QED  BY <1>4, <1>7, <1>8, <1>11, <1>13, <1>14, <1>15, <1>16, <1>17, InvIs

\* min of what there is room for and what there is.
LEMMA MinOfTwo ==
    ASSUME NEW a \in Nat, NEW b \in Nat
    PROVE  Min({a, b}) = IF a <= b THEN a ELSE b
BY DEF Min

\* What is read comes after what is out, whether the buffer is written or not.
LEMMA ReadSafe == ASSUME Inv, Read PROVE Inv'
<1> DEFINE n == Min({left, Unread(Module)})
           at == BufLen - left
<1>1. /\ Inv /\ TypeOK /\ PipesOK /\ Carries(Out, taken, dropped) /\ pc = "read" /\ pc' = "read"
      /\ Unread(Module) > 0 /\ Reading(at, n)
      /\ taken' = [taken EXCEPT ![Module] = @ + n]
      /\ IF n = left THEN log' = log \o buf' /\ left' = BufLen
                     ELSE left' = left - n /\ log' = log
      /\ UNCHANGED <<alive, killed, pending, asides, open, said, breaks, dropped, restarts, marks, entry>>
  BY DEF Inv, Read, modules, children
<1>2. /\ Module \in Mods /\ BufLen \in Nat /\ BufLen > 1 /\ left \in 1 .. BufLen
      /\ buf \in [1 .. BufLen -> Item] /\ log \in Seq(Item) /\ Len(log) \in Nat
      /\ taken[Module] \in Nat /\ said[Module] \in Nat
  BY <1>1, ModuleIs, RelayAssumption DEF TypeOK
<1>3. n \in Nat /\ 1 <= n /\ n <= left /\ taken[Module] + n <= said[Module]
  <2>1. Unread(Module) \in Nat /\ Unread(Module) >= 1
        /\ taken[Module] + Unread(Module) = said[Module]
    BY <1>1, <1>2 DEF Unread
  <2>2. n = IF left <= Unread(Module) THEN left ELSE Unread(Module)
    BY <1>2, <2>1, MinOfTwo
  <2>3. QED  BY <1>2, <2>1, <2>2
<1>4. at \in Nat /\ at + n <= BufLen /\ at + left = BufLen  BY <1>2, <1>3
<1> HIDE DEF n, at
<1>5. /\ \A i \in 1 .. at : buf'[i] = buf[i]
      /\ \A i \in 1 .. n : buf'[at + i] = Byte(Module, taken[Module] + i)
      /\ \A i \in at + n + 1 .. BufLen : buf'[i] = buf[i]
  <2>1. buf' = [i \in 1 .. BufLen |-> IF i - at \in 1 .. n THEN Byte(Module, taken[Module] + i - at)
                                      ELSE buf[i]]
    BY <1>1 DEF Reading
  <2>2. ASSUME NEW i \in 1 .. n PROVE buf'[at + i] = Byte(Module, taken[Module] + i)
    <3> DEFINE k == at + i
    <3>1. k \in 1 .. BufLen /\ k - at = i /\ taken[Module] + k - at = taken[Module] + i
      BY <1>2, <1>4, <1>3
    <3> HIDE DEF k
    <3>2. buf'[k] = Byte(Module, taken[Module] + k - at)  BY <2>1, <3>1
    <3>3. QED  BY <3>1, <3>2 DEF k
  <2>3. ASSUME NEW i \in 1 .. BufLen, i \in 1 .. at \/ i \in at + n + 1 .. BufLen PROVE buf'[i] = buf[i]
    <3>1. i - at \notin 1 .. n  BY <1>3, <1>4, <2>3
    <3>2. QED  BY <2>1, <3>1
  <2>4. (1 .. at) \subseteq 1 .. BufLen /\ (at + n + 1 .. BufLen) \subseteq 1 .. BufLen
    BY <1>2, <1>3, <1>4
  <2>5. QED  BY <2>2, <2>3, <2>4
<1>6. buf' \in [1 .. BufLen -> Item]
  <2>1. DOMAIN buf' = 1 .. BufLen /\ buf' = [i \in 1 .. BufLen |-> buf'[i]]
    BY <1>1 DEF Reading
  <2>2. ASSUME NEW i \in 1 .. BufLen PROVE buf'[i] \in Item
    <3>1. CASE i \in 1 .. at \/ i \in at + n + 1 .. BufLen  BY <1>2, <1>5, <3>1
    <3>2. CASE at < i /\ i <= at + n
      <4> DEFINE k == i - at
      <4>1. k \in 1 .. n /\ at + k = i /\ taken[Module] + k \in Nat  BY <1>2, <1>3, <1>4, <3>2
      <4> HIDE DEF k
      <4>2. buf'[i] = Byte(Module, taken[Module] + k)  BY <1>5, <4>1
      <4>3. QED  BY <1>2, <4>1, <4>2, Apart
    <3>3. QED  BY <1>3, <1>4, <3>1, <3>2
  <2>3. QED  BY <2>1, <2>2
<1>7. left' \in 1 .. BufLen /\ (n # left => left' = left - n) /\ (n = left => left' = BufLen)
  BY <1>1, <1>2, <1>3
<1>8. log' \in Seq(Item)
  <2>1. buf' \in Seq(Item)  BY <1>2, <1>6
  <2>2. log \o buf' \in Seq(Item)  BY <1>2, <2>1, ConcatAt
  <2>3. QED  BY <1>1, <1>2, <2>2
<1>9. taken' \in [Mods -> Nat] /\ taken'[Module] = taken[Module] + n
      /\ \A m \in Mods \ {Module} : taken'[m] = taken[m]
  <2>1. taken[Module] + n \in Nat  BY <1>2, <1>3
  <2>2. QED  BY <1>1, <1>2, <2>1 DEF TypeOK
<1>10. TypeOK'  BY <1>1, <1>6, <1>7, <1>8, <1>9 DEF TypeOK
<1>11. PipesOK'
  <2> SUFFICES ASSUME NEW m \in Mods PROVE taken'[m] <= said'[m] /\ dropped'[m] \subseteq 1 .. taken'[m]
    BY DEF PipesOK
  <2>1. taken[m] \in Nat /\ taken[m] <= said[m] /\ dropped[m] \subseteq 1 .. taken[m]
    BY <1>1 DEF PipesOK, TypeOK
  <2>2. CASE m = Module  BY <1>1, <1>3, <1>9, <2>1, <2>2
  <2>3. CASE m # Module  BY <1>1, <1>9, <2>1, <2>3
  <2>4. QED  BY <2>2, <2>3
<1> DEFINE s == Out  t == Out'
\* What is out, before and after.
<1>12. /\ s \in Seq(Item) /\ Len(s) = Len(log) + at
       /\ \A i \in 1 .. Len(log) : s[i] = log[i]
       /\ \A i \in 1 .. at : s[Len(log) + i] = buf[i]
  <2>1. s = log \o SubSeq(buf, 1, BufLen - left)  BY <1>1 DEF Out, Used
  <2> HIDE DEF s
  <2>2. QED  BY <1>2, <2>1, UsedAt DEF at
<1>13. /\ t \in Seq(Item) /\ Len(t) = Len(log) + at + n
       /\ \A i \in 1 .. Len(log) : t[i] = log[i]
       /\ \A i \in 1 .. at + n : t[Len(log) + i] = buf'[i]
  <2>1. t = log' \o SubSeq(buf', 1, BufLen - left')  BY <1>1 DEF Out, Used
  <2> HIDE DEF t
  <2>2. /\ t \in Seq(Item) /\ Len(t) = Len(log') + (BufLen - left')
        /\ \A i \in 1 .. Len(log') : t[i] = log'[i]
        /\ \A i \in 1 .. BufLen - left' : t[Len(log') + i] = buf'[i]
    BY <1>6, <1>7, <1>8, <2>1, UsedAt
  <2>3. CASE n # left
    <3>1. log' = log /\ BufLen - left' = at + n  BY <1>1, <1>2, <1>3, <1>4, <1>7, <2>3
    <3>2. QED  BY <1>2, <1>3, <1>4, <2>2, <3>1
  <2>4. CASE n = left
    <3>1. log' = log \o buf' /\ BufLen - left' = 0 /\ at + n = BufLen
      BY <1>1, <1>2, <1>4, <1>7, <2>4
    <3>2. buf' \in Seq(Item) /\ Len(buf') = BufLen  BY <1>2, <1>6
    <3>3. /\ Len(log') = Len(log) + BufLen
          /\ \A i \in 1 .. Len(log) : log'[i] = log[i]
          /\ \A i \in 1 .. BufLen : log'[Len(log) + i] = buf'[i]
      <4> DEFINE b == buf'
      <4>1. log \in Seq(Item) /\ b \in Seq(Item) /\ Len(b) = BufLen /\ log' = log \o b
        BY <1>2, <3>1, <3>2
      <4> HIDE DEF b
      <4>2. Len(log \o b) = Len(log) + Len(b)  BY <4>1, ConcatAt
      <4>3. \A i \in 1 .. Len(log) : (log \o b)[i] = log[i]  BY <4>1, ConcatAt
      <4>4. \A i \in 1 .. Len(b) : (log \o b)[Len(log) + i] = b[i]  BY <4>1, ConcatAt
      <4>5. QED  BY <4>1, <4>2, <4>3, <4>4 DEF b
    <3>4. \A i \in 1 .. Len(log) + BufLen : t[i] = log'[i]  BY <2>2, <3>3
    <3>5. Len(t) = Len(log) + at + n
      <4>1. Len(t) = Len(log') + 0  BY <2>2, <3>1
      <4>2. Len(log') = Len(log) + (at + n)  BY <3>1, <3>3
      <4>3. QED  BY <1>2, <1>3, <1>4, <4>1, <4>2
    <3>6. ASSUME NEW i \in 1 .. Len(log) PROVE t[i] = log[i]
      <4>1. i \in 1 .. Len(log) + BufLen  BY <1>2
      <4>2. QED  BY <3>3, <3>4, <4>1
    <3>7. ASSUME NEW i \in 1 .. at + n PROVE t[Len(log) + i] = buf'[i]
      <4>1. i \in 1 .. BufLen /\ Len(log) + i \in 1 .. Len(log) + BufLen  BY <1>2, <3>1
      <4>2. QED  BY <3>3, <3>4, <4>1
    <3>8. QED  BY <2>2, <3>5, <3>6, <3>7
  <2>5. QED  BY <2>3, <2>4
<1> HIDE DEF s, t
<1>14. /\ Longer(s, t) /\ Len(t) = Len(s) + n /\ Len(s) \in Nat
       /\ \A i \in 1 .. n : t[Len(s) + i] = Byte(Module, taken[Module] + i)
  <2>1. Len(t) = Len(s) + n /\ Len(s) \in Nat /\ Len(s) <= Len(t)  BY <1>2, <1>3, <1>4, <1>12, <1>13
  <2>2. ASSUME NEW i \in 1 .. Len(s) PROVE t[i] = s[i]
    <3>1. CASE i \in 1 .. Len(log)  BY <1>12, <1>13, <3>1
    <3>2. CASE i > Len(log)
      <4> DEFINE k == i - Len(log)
      <4>1. k \in 1 .. at /\ k \in 1 .. at + n /\ Len(log) + k = i
        BY <1>2, <1>3, <1>4, <1>12, <3>2
      <4> HIDE DEF k
      <4>2. t[i] = buf'[k] /\ s[i] = buf[k]  BY <1>12, <1>13, <4>1
      <4>3. QED  BY <1>5, <4>1, <4>2
    <3>3. QED  BY <1>2, <3>1, <3>2
  <2>3. ASSUME NEW i \in 1 .. n PROVE t[Len(s) + i] = Byte(Module, taken[Module] + i)
    <3> DEFINE k == at + i
    <3>1. k \in 1 .. at + n /\ Len(log) + k = Len(s) + i  BY <1>2, <1>3, <1>4, <1>12
    <3> HIDE DEF k
    <3>2. t[Len(s) + i] = buf'[k]  BY <1>13, <3>1
    <3>3. buf'[k] = Byte(Module, taken[Module] + i)  BY <1>5 DEF k
    <3>4. QED  BY <3>2, <3>3
  <2>4. QED  BY <1>12, <1>13, <2>1, <2>2, <2>3 DEF Longer
<1>15. \A i \in Len(s) + 1 .. Len(t) : ~Starts(t[i]) /\ t[i].of = Module
  <2> SUFFICES ASSUME NEW i \in Len(s) + 1 .. Len(t) PROVE ~Starts(t[i]) /\ t[i].of = Module
    OBVIOUS
  <2> DEFINE k == i - Len(s)
  <2>1. k \in 1 .. n /\ Len(s) + k = i /\ taken[Module] + k # 0  BY <1>2, <1>3, <1>14
  <2> HIDE DEF k
  <2>2. t[i] = Byte(Module, taken[Module] + k)  BY <1>14, <2>1
  <2>3. QED  BY <1>2, <2>1, <2>2, Apart DEF Starts, Byte, Line
<1>16. PICK q \in 1 .. Len(s) : ReadingAt(s, q, Module, buf, left)  BY <1>1 DEF Inv, ReadingOK, s
<1>17. Begins(s, q, Len(s)) /\ s[q] = Name(Module)  BY <1>16 DEF ReadingAt
<1>18. Grouped(s) /\ Named(s) /\ Broke(s, breaks, TRUE)
  <2>1. (pc = "read") = TRUE  BY <1>1
  <2>2. QED  BY <2>1 DEF Inv, s
<1>19. Begins(t, q, Len(t)) /\ Grouped(t) /\ Named(t)
  BY <1>14, <1>15, <1>17, <1>18, MoreOfOne
<1>20. Broke(t, breaks, TRUE)
  <2>1. Grows(breaks, breaks)  BY DEF Grows
  <2>2. QED  BY <1>14, <1>15, <1>17, <1>18, <2>1, BrokeMore
<1>21. Carries(t, taken', dropped)
  <2>1. dropped[Module] \subseteq 1 .. taken[Module]  BY <1>1, <1>2 DEF PipesOK
  <2>2. Carries(s, taken, dropped) /\ taken \in [Mods -> Nat]  BY <1>1 DEF s, TypeOK
  <2>3. QED  BY <1>1, <1>2, <1>3, <1>14, <2>1, <2>2, CarriesMore
<1>22. ReadingOK'
  <2>1. Module' = Module  BY <1>1 DEF Module
  <2>2. PICK k \in Nat : Len(s) - q + 1 = k * BufLen + (BufLen - left)  BY <1>16 DEF ReadingAt
  <2>3. \E j \in Nat : Len(t) - q + 1 = j * BufLen + (BufLen - left')
    <3> DEFINE whole == k * BufLen
    <3>1. whole \in Nat /\ (k + 1) * BufLen = whole + BufLen  BY <1>2
    <3>2. Len(s) - q + 1 = whole + (BufLen - left)  BY <2>2
    <3> HIDE DEF whole
    <3>3. CASE n # left
      <4>1. Len(t) - q + 1 = whole + (BufLen - left')  BY <1>2, <1>3, <1>7, <1>14, <3>1, <3>2, <3>3
      <4>2. QED  BY <4>1 DEF whole
    <3>4. CASE n = left
      <4>1. Len(t) - q + 1 = whole + BufLen + (BufLen - left')
        BY <1>2, <1>3, <1>7, <1>14, <3>1, <3>2, <3>4
      <4>2. k + 1 \in Nat /\ Len(t) - q + 1 = (k + 1) * BufLen + (BufLen - left')  BY <3>1, <4>1
      <4>3. QED  BY <4>2
    <3>5. QED  BY <3>3, <3>4
  <2>4. ASSUME NEW i \in 1 .. BufLen PROVE buf'[i] = Zero \/ \E p \in q .. Len(t) : t[p] = buf'[i]
    <3>1. CASE i \in 1 .. at \/ i \in at + n + 1 .. BufLen
      <4>1. buf'[i] = buf[i]  BY <1>5, <3>1
      <4>2. buf[i] = Zero \/ \E p \in q .. Len(s) : s[p] = buf[i]  BY <1>16 DEF ReadingAt
      <4>3. \A p \in q .. Len(s) : p \in q .. Len(t) /\ t[p] = s[p]  BY <1>3, <1>14 DEF Longer
      <4>4. QED  BY <4>1, <4>2, <4>3
    <3>2. CASE at < i /\ i <= at + n
      <4> DEFINE p == Len(log) + i
      <4>1. i \in 1 .. at + n /\ p \in Len(s) + 1 .. Len(t)
        BY <1>2, <1>3, <1>4, <1>12, <1>13, <3>2
      <4>2. t[p] = buf'[i]  BY <1>13, <4>1
      <4>3. p \in q .. Len(t)  BY <1>14, <4>1
      <4>4. QED  BY <4>2, <4>3
    <3>3. QED  BY <1>2, <1>3, <1>4, <3>1, <3>2
  <2>5. ReadingAt(t, q, Module', buf', left')
    <3>1. t[q] = Name(Module)  BY <1>14, <1>17 DEF Longer
    <3>2. QED  BY <1>19, <2>1, <2>3, <2>4, <3>1 DEF ReadingAt
  <2>6. q \in 1 .. Len(t)  BY <1>3, <1>14
  <2>7. QED  BY <2>5, <2>6, ReadingIs DEF t
<1>23. Broke(Out', breaks', pc' = "read")
  <2>1. (pc' = "read") = TRUE  BY <1>1
  <2>2. QED  BY <1>1, <1>20, <2>1 DEF t
<1>24. AsidesOK(Out', pc' = "read", asides')
  <2>1. (pc = "read") = TRUE /\ (pc' = "read") = TRUE  BY <1>1
  <2>2. AsidesOK(s, TRUE, asides)  BY <2>1 DEF Inv, s
  <2>3. AsidesOK(t, TRUE, asides)  BY <1>14, <2>2, AsidesMore
  <2>4. QED  BY <1>1, <2>1, <2>3 DEF t
<1>25. QED  BY <1>1, <1>10, <1>11, <1>19, <1>21, <1>22, <1>23, <1>24, InvIs DEF t

\* A burst that ends has a newline or fills the buffer.
LEMMA FinishSafe == ASSUME Inv, Finish PROVE Inv'
<1> DEFINE whole == left = BufLen \/ \E i \in 1 .. BufLen : IsBreak(buf[i])
           s == Out  t == Out'
<1>1. /\ Inv /\ TypeOK /\ PipesOK /\ Carries(s, taken, dropped) /\ pc = "read" /\ pc' = "serve"
      /\ log' = log \o (IF whole THEN Used ELSE Append(Used, Newline))
      /\ entry' = entry + 1 /\ buf' = Blank /\ left' = BufLen
      /\ UNCHANGED <<modules, taken, marks>>
  BY DEF Inv, Finish, Served
<1>2. log \in Seq(Item) /\ s \in Seq(Item) /\ s = log \o Used /\ Newline \in Item
      /\ BufLen \in Nat /\ BufLen > 1
  BY <1>1, OutIs, Apart, RelayAssumption DEF TypeOK, Out
<1>3. Used \in Seq(Item)
  <2>1. buf \in Seq(Item) /\ Len(buf) = BufLen /\ left \in 1 .. BufLen
    BY <1>1, <1>2 DEF TypeOK
  <2> DEFINE k == BufLen - left
  <2>2. k \in 0 .. BufLen  BY <1>2, <2>1
  <2> HIDE DEF k
  <2>3. SubSeq(buf, 1, k) \in Seq(Item)  BY <1>2, <2>1, <2>2
  <2>4. QED  BY <2>3 DEF Used, k
<1>4. IF whole THEN log' = s ELSE log' = Append(s, Newline)
  <2> DEFINE u == Used
  <2>1. u \in Seq(Item)  BY <1>3
  <2> HIDE DEF u
  <2>2. log \o Append(u, Newline) = Append(log \o u, Newline)  BY <1>2, <2>1
  <2>3. QED  BY <1>1, <1>2, <2>2 DEF u
<1>5. /\ Append(s, Newline) \in Seq(Item) /\ Len(Append(s, Newline)) = Len(s) + 1 /\ Len(s) \in Nat
      /\ Append(s, Newline)[Len(s) + 1] = Newline
      /\ \A i \in 1 .. Len(s) : Append(s, Newline)[i] = s[i]
  <2> HIDE DEF s
  <2>1. QED  BY <1>2
<1>6. log' \in Seq(Item) /\ t = log'
  <2>1. log' \in Seq(Item)  BY <1>2, <1>4, <1>5
  <2>2. t = log' \o <<>>  BY <1>1 DEF Out
  <2>3. QED  BY <2>1, <2>2
<1> HIDE DEF s, t, whole
<1>7. TypeOK'
  <2>1. Blank \in [1 .. BufLen -> Item]  BY Apart DEF Blank
  <2>2. BufLen \in 1 .. BufLen  BY <1>2
  <2>3. entry' \in Nat \ {0}  BY <1>1 DEF TypeOK
  <2>4. QED  BY <1>1, <1>6, <2>1, <2>2, <2>3 DEF TypeOK, modules, children
<1>8. PipesOK'  BY <1>1 DEF PipesOK, modules
<1>9. PICK q \in 1 .. Len(s) : ReadingAt(s, q, Module, buf, left)  BY <1>1 DEF Inv, ReadingOK, s
<1>10. Begins(s, q, Len(s)) /\ s[q] = Name(Module)  BY <1>9 DEF ReadingAt
<1>11. Grouped(s) /\ Named(s) /\ Broke(s, breaks, TRUE)
  <2>1. (pc = "read") = TRUE  BY <1>1
  <2>2. QED  BY <2>1 DEF Inv, s
<1>12. Longer(s, t)
  <2>1. CASE whole  BY <1>2, <1>4, <1>5, <1>6, <2>1 DEF Longer
  <2>2. CASE ~whole
    <3>1. t = Append(s, Newline)  BY <1>4, <1>6, <2>2
    <3>2. Len(s) <= Len(t)  BY <1>5, <3>1
    <3>3. QED  BY <1>2, <1>5, <3>1, <3>2 DEF Longer
  <2>3. QED  BY <2>1, <2>2
<1>13. \A i \in Len(s) + 1 .. Len(t) : t[i] = Newline  BY <1>4, <1>5, <1>6
<1>14. ~Starts(Newline) /\ Newline.of \notin Mods  BY Apart DEF Starts, Newline, Line
<1>15. Grouped(t) /\ Named(t)  BY <1>10, <1>11, <1>12, <1>13, <1>14, MoreOfOne
<1>16. Broken(t, breaks, q, Len(t))
  <2>1. CASE ~whole
    <3>1. t[Len(t)] = Newline /\ Len(t) \in q .. Len(t)  BY <1>4, <1>5, <1>6, <2>1
    <3>2. QED  BY <3>1 DEF Broken, Breaks
  <2>2. CASE whole /\ left = BufLen
    <3>1. PICK k \in Nat : Len(s) - q + 1 = k * BufLen + (BufLen - left)  BY <1>9 DEF ReadingAt
    <3> DEFINE m == k * BufLen
    <3>2. m \in Nat /\ Len(s) - q + 1 = m + (BufLen - left)  BY <1>2, <3>1
    <3> HIDE DEF m
    <3>3. Len(t) - q + 1 = m  BY <1>2, <1>4, <1>5, <1>6, <2>2, <3>2
    <3>4. QED  BY <3>3 DEF Broken, m
  <2>3. CASE whole /\ \E i \in 1 .. BufLen : IsBreak(buf[i])
    <3>1. PICK i \in 1 .. BufLen : IsBreak(buf[i])  BY <2>3
    <3>2. buf[i] # Zero  BY <3>1, Apart DEF IsBreak, Zero, Newline
    <3>3. PICK p \in q .. Len(s) : s[p] = buf[i]  BY <1>9, <3>2 DEF ReadingAt
    <3>4. t = s  BY <1>4, <1>6, <2>3
    <3>5. QED  BY <3>1, <3>3, <3>4 DEF Broken, Breaks, IsBreak
  <2>4. QED  BY <2>1, <2>2, <2>3 DEF whole
<1>17. Broke(t, breaks, FALSE)
  <2>1. Grows(breaks, breaks)  BY DEF Grows
  <2>2. QED  BY <1>10, <1>11, <1>12, <1>13, <1>14, <1>16, <2>1, BrokeMore
<1>18. Carries(t, taken, dropped)  BY <1>1, <1>12, <1>13, <1>14, CarriesNone
<1>19. ReadingOK'  BY <1>1 DEF ReadingOK
<1>20. Broke(Out', breaks', pc' = "read")
  <2>1. (pc' = "read") = FALSE /\ breaks' = breaks  BY <1>1 DEF modules
  <2>2. QED  BY <1>17, <2>1 DEF t
<1>21. UNCHANGED <<taken, dropped>>  BY <1>1 DEF modules
<1>22. AsidesOK(Out', pc' = "read", asides')
  <2>1. (pc = "read") = TRUE /\ (pc' = "read") = FALSE /\ asides' = asides
    BY <1>1 DEF modules, children
  <2>2. AsidesOK(s, TRUE, asides)  BY <2>1 DEF Inv, s
  <2>3. AsidesOK(t, FALSE, asides)  BY <1>12, <2>2, AsidesMore
  <2>4. QED  BY <2>1, <2>3 DEF t
<1>23. QED  BY <1>7, <1>8, <1>15, <1>18, <1>19, <1>20, <1>21, <1>22, InvIs DEF t

LEMMA Begun == Init => Inv
<1> SUFFICES ASSUME Init PROVE Inv  OBVIOUS
<1>1. BufLen \in Nat /\ BufLen > 1  BY RelayAssumption
<1>2. TypeOK
  <2>1. buf \in [1 .. BufLen -> Item]  BY Apart DEF Init, Blank
  <2>2. left \in 1 .. BufLen  BY <1>1 DEF Init
  <2>3. log \in Seq(Item)  BY DEF Init
  <2>4. killed \in Nat /\ pending \in BOOLEAN /\ alive \subseteq Mods /\ open \subseteq Mods
        /\ marks \subseteq Mods /\ restarts \in Nat /\ pc = "loop" /\ entry = 1
    BY DEF Init
  <2>5. /\ said \in [Mods -> Nat] /\ taken \in [Mods -> Nat]
        /\ breaks \in [Mods -> SUBSET Nat] /\ dropped \in [Mods -> SUBSET Nat]
    BY DEF Init
  <2>6. QED  BY <2>1, <2>2, <2>3, <2>4, <2>5 DEF TypeOK
<1>3. PipesOK  BY DEF Init, PipesOK
<1>4. Out = <<>>
  <2>1. pc # "read" /\ log = <<>>  BY DEF Init
  <2>2. QED  BY <1>2, <2>1, OutIs
<1>5. Len(Out) = 0 /\ 1 .. Len(Out) = {}  BY <1>4
<1>6. Carries(Out, taken, dropped)
  <2>1. \A m \in Mods : BytesIn(Out, m) = {} /\ (1 .. taken[m]) \ dropped[m] = {}
    BY <1>5 DEF Init, BytesIn
  <2>2. QED  BY <2>1 DEF Carries
<1>7. Grouped(Out) /\ Named(Out) /\ Broke(Out, breaks, pc = "read")
  BY <1>5 DEF Grouped, Named, Broke
<1>8. ReadingOK  BY DEF Init, ReadingOK
<1>9. AsidesOK(Out, pc = "read", asides)  BY DEF Init, AsidesOK
<1>10. QED  BY <1>2, <1>3, <1>6, <1>7, <1>8, <1>9 DEF Inv

LEMMA Invariance == ASSUME Inv, [Next]_vars PROVE Inv'
<1>1. ASSUME NEW m \in Mods, (\E b \in BOOLEAN : Say(m, b)) \/ Exit(m) \/ Start(m) PROVE Inv'
  BY <1>1, SaySafe, ExitSafe, StartSafe
<1>2. CASE (\E m \in Mods : Die(m)) \/ Obey \/ Poll \/ Skip \/ PassDone \/ UNCHANGED vars
  BY <1>2, OthersSafe
<1>3. CASE Begin  BY <1>3, BeginSafe
<1>4. CASE Read  BY <1>4, ReadSafe
<1>5. CASE Finish  BY <1>5, FinishSafe
<1>6. CASE Reap  BY <1>6, ReapSafe
<1>7. QED  BY <1>1, <1>2, <1>3, <1>4, <1>5, <1>6 DEF Next, Manages

LEMMA Invariant == Spec => []Inv
<1>1. QED  BY Begun, Invariance, PTL DEF Spec

----------------------------------------------------------------------------
(***************************************************************************)
(* What a reader of the log sees                                           *)
(***************************************************************************)
\* What a module said is in the log, or on its way there, once and in order, but
\* for what was in a pipe that was closed.
THEOREM NothingIsLost == Spec => []Relayed
<1>1. Inv => Relayed  BY DEF Inv, Carries, BytesIn, Relayed, BytesOf
<1>2. QED  BY <1>1, Invariant, PTL

LEMMA MaxIs ==
    ASSUME NEW S \in SUBSET Nat, NEW b \in S, \A x \in S : x <= b
    PROVE  Max(S) = b
<1>1. \A x \in S : b >= x  OBVIOUS
<1>2. \A c \in S : (\A x \in S : c >= x) => c = b  OBVIOUS
<1>3. QED  BY <1>1, <1>2 DEF Max

\* Burst finds where the burst of a place begins.
LEMMA BurstIs ==
    ASSUME TypeOK, NEW p \in 1 .. Len(log), NEW q, Begins(log, q, p)
    PROVE  Burst(p) = q
<1>1. log \in Seq(Item) /\ Len(log) \in Nat /\ q \in 1 .. p  BY DEF TypeOK, Begins
<1> DEFINE S == {0} \union {r \in 1 .. p : StartsBurst(r) \/ log[r] = Line}
<1>2. \A r \in 1 .. p : StartsBurst(r) \/ log[r] = Line <=> Starts(log[r])
  BY DEF StartsBurst, Starts
<1>3. S \in SUBSET Nat  OBVIOUS
<1>4. q \in S  BY <1>1, <1>2 DEF Begins
<1>5. \A x \in S : x <= q
  <2> SUFFICES ASSUME NEW x \in S, x > q PROVE FALSE  BY <1>1, <1>3
  <2>1. x \in q + 1 .. p /\ Starts(log[x])  BY <1>1, <1>2
  <2>2. QED  BY <2>1 DEF Begins
<1> HIDE DEF S
<1>6. Max(S) = q  BY <1>3, <1>4, <1>5, MaxIs
<1>7. QED  BY <1>6 DEF Burst, S

\* What is in the log is its beginning of what is out.
LEMMA LogIsOut ==
    ASSUME TypeOK
    PROVE  /\ Len(log) \in Nat /\ Len(log) <= Len(Out) /\ Len(Out) \in Nat
           /\ \A i \in 1 .. Len(log) : Out[i] = log[i]
<1>1. log \in Seq(Item) /\ buf \in [1 .. BufLen -> Item] /\ left \in 1 .. BufLen /\ BufLen \in Nat
  BY RelayAssumption DEF TypeOK
<1>2. CASE pc # "read"  BY <1>1, <1>2, OutIs
<1>3. CASE pc = "read"
  <2> DEFINE t == log \o SubSeq(buf, 1, BufLen - left)
  <2>1. Out = t  BY <1>3 DEF Out, Used
  <2>2. t \in Seq(Item) /\ Len(t) = Len(log) + (BufLen - left) /\ \A i \in 1 .. Len(log) : t[i] = log[i]
    BY <1>1, UsedAt
  <2> HIDE DEF t
  <2>3. QED  BY <1>1, <2>1, <2>2
<1>4. QED  BY <1>2, <1>3

LEMMA WholeBuffers ==
    ASSUME NEW n \in Nat, NEW k \in Nat, n = k * BufLen
    PROVE  n % BufLen = 0
BY RelayAssumption

\* What a module said is under its name, with nothing of the manager's between
\* but a line of the handler's, behind whole buffers.
THEOREM UnderItsName == Spec => []Attributed
<1>1. Inv => Attributed
  <2> SUFFICES ASSUME Inv, NEW p \in 1 .. Len(log), log[p].of \in Mods
               PROVE  /\ Burst(p) > 0 /\ log[Burst(p)] = Name(log[p].of)
                      /\ \A c \in asides \intersect Burst(p) .. p - 1 :
                            (c - Burst(p) + 1) % BufLen = 0
    BY DEF Attributed
  <2>1. TypeOK /\ Grouped(Out) /\ Named(Out) /\ AsidesOK(Out, pc = "read", asides)
    BY DEF Inv
  <2>2. Len(log) \in Nat /\ p \in 1 .. Len(Out) /\ Out[p] = log[p] /\ Len(Out) \in Nat
        /\ \A i \in 1 .. Len(log) : Out[i] = log[i]
    BY <2>1, LogIsOut
  <2>3. PICK q \in 1 .. Len(Out) : Begins(Out, q, p)  BY <2>1, <2>2 DEF Grouped
  <2>4. Out[q] = Name(log[p].of)  BY <2>1, <2>2, <2>3 DEF Named
  <2>5. Begins(log, q, p) /\ q \in 1 .. Len(log)  BY <2>2, <2>3 DEF Begins
  <2>6. Burst(p) = q  BY <2>1, <2>5, BurstIs
  <2>7. ASSUME NEW c \in asides, c \in q .. p - 1 PROVE (c - q + 1) % BufLen = 0
    <3>1. AsideIn(Out, c)
      <4>1. c < Len(Out)  BY <2>2, <2>5, <2>7
      <4>2. QED  BY <2>1, <2>7, <4>1 DEF AsidesOK
    <3>2. Begins(Out, q, c) /\ c + 1 \in q + 1 .. p  BY <2>2, <2>3, <2>7 DEF Begins
    <3>3. ~Starts(Out[c + 1])  BY <2>3, <3>2 DEF Begins
    <3>4. PICK o \in 1 .. Len(Out) : Begins(Out, o, c) /\ \E k \in Nat : c - o + 1 = k * BufLen
      BY <2>2, <2>7, <3>1, <3>3 DEF AsideIn
    <3>5. o = q  BY <2>2, <2>7, <3>2, <3>4, BeginsOnce
    <3>6. c - q + 1 \in Nat  BY <2>2, <2>7
    <3>7. QED  BY <3>4, <3>5, <3>6, WholeBuffers
  <2>8. QED  BY <2>2, <2>4, <2>5, <2>6, <2>7
<1>2. QED  BY <1>1, Invariant, PTL

\* A burst has a newline, unless it ends where the buffer does.
THEOREM EveryBurstBreaks == Spec => []BurstsBreak
<1>1. Inv => BurstsBreak
  <2> SUFFICES ASSUME Inv, pc # "read", NEW q \in 1 .. Len(log), StartsBurst(q)
               PROVE  LET burst == {p \in q .. Len(log) : Burst(p) = q}
                      IN  \/ \E p \in burst : IsBreak(log[p])
                          \/ Cardinality(burst) % BufLen = 0
    BY DEF BurstsBreak
  <2> DEFINE burst == {p \in q .. Len(log) : Burst(p) = q}
  <2>1. TypeOK /\ Grouped(log) /\ Broke(log, breaks, FALSE) /\ log \in Seq(Item) /\ Len(log) \in Nat
    <3>1. (pc = "read") = FALSE /\ TypeOK  BY DEF Inv
    <3>2. Out = log /\ log \in Seq(Item)  BY <3>1, OutIs DEF TypeOK
    <3>3. Grouped(log) /\ Broke(log, breaks, FALSE)
      <4>1. Grouped(Out) /\ Broke(Out, breaks, pc = "read")  BY DEF Inv
      <4>2. QED  BY <3>1, <3>2, <4>1
    <3>4. Len(log) \in Nat  BY <3>2
    <3>5. QED  BY <3>1, <3>2, <3>3, <3>4, Zenon
  <2>2. Starts(log[q]) /\ log[q] # Line  BY Apart DEF StartsBurst, Starts, Line
  <2>3. PICK p \in q .. Len(log) : EndsAt(log, breaks, FALSE, q, p)  BY <2>1, <2>2 DEF Broke
  <2>4. Begins(log, q, p) /\ Broken(log, breaks, q, p) /\ (p = Len(log) \/ Starts(log[p + 1]))
    BY <2>3 DEF EndsAt
  <2>5. burst = q .. p
    <3>1. ASSUME NEW r \in q .. p PROVE r \in burst
      <4>1. r \in 1 .. Len(log) /\ Begins(log, q, r)  BY <2>1, <2>4 DEF Begins
      <4>2. QED  BY <2>1, <4>1, BurstIs
    <3>2. ASSUME NEW r \in burst PROVE r \in q .. p
      <4>1. r \in q .. Len(log) /\ r \in 1 .. Len(log) /\ Burst(r) = q  BY <2>1
      <4>2. PICK o \in 1 .. Len(log) : Begins(log, o, r)  BY <2>1, <4>1 DEF Grouped
      <4>3. o = q  BY <2>1, <4>1, <4>2, BurstIs
      <4>4. ~(r > p)
        <5> SUFFICES ASSUME r > p PROVE FALSE  OBVIOUS
        <5>1. p + 1 \in q + 1 .. r /\ p # Len(log)  BY <2>1, <4>1
        <5>2. QED  BY <2>4, <4>2, <4>3, <5>1 DEF Begins
      <4>5. QED  BY <4>1, <4>4
    <3>3. QED  BY <3>1, <3>2
  <2>6. CASE \E r \in q .. p : Breaks(log[r], breaks)  BY <2>5, <2>6 DEF Breaks, IsBreak
  <2>7. CASE \E k \in Nat : p - q + 1 = k * BufLen
    <3>1. Cardinality(q .. p) = p - q + 1
      BY <2>1, FS_Interval
    <3>2. p - q + 1 \in Nat  BY <2>1
    <3>3. (p - q + 1) % BufLen = 0  BY <2>7, <3>2, WholeBuffers
    <3>4. QED  BY <2>5, <3>1, <3>3
  <2>8. QED  BY <2>4, <2>6, <2>7 DEF Broken
<1>2. QED  BY <1>1, Invariant, PTL
=============================================================================

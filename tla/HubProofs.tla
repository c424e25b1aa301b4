----------------------------- MODULE HubProofs -----------------------------
(***************************************************************************)
(* Proofs about Hub, for any pages, any room in their sockets, any chat    *)
(* and any number of changes.                                              *)
(***************************************************************************)
EXTENDS Hub, SequenceTheorems, TLAPS

Msg == [kind : {"clientlist", "servermsg"}, n : Nat]

TypeOK ==
    /\ up \in BOOLEAN /\ asks \in BOOLEAN /\ listens \in BOOLEAN /\ registered \in BOOLEAN
    /\ conn \in [Pages -> {"none", "open", "gone"}] /\ clients \subseteq Pages
    /\ inbox \in [Pages -> Seq(Msg)] /\ seen \in [Pages -> Seq(Nat)]
    /\ shows \in [Pages -> Nat] /\ since \in [Pages -> Nat]
    /\ msg \in Msg \union {Nothing} /\ todo \subseteq clients
    /\ lister \in {"query", "push"} /\ pairs \in Nat
    /\ listener \in {"scan", "push"} /\ heard \in Nat /\ events \in Seq(Nat)
    /\ room \in Nat /\ chat \in Nat /\ lost \subseteq Nat /\ posted \in Seq(Nat)

IsChat(m) == m.kind = "servermsg"

\* What the broadcaster is doing, and for whom: every page that is there is in the
\* map, and one that has not come has nothing yet.
HubOK ==
    /\ msg = Nothing <=> todo = {}
    /\ msg # Nothing /\ IsChat(msg) => Len(posted) > 0 /\ msg.n = posted[Len(posted)]
    /\ \A p \in Pages :
          /\ conn[p] = "open" => p \in clients
          /\ conn[p] = "none" =>
                p \notin clients /\ inbox[p] = <<>> /\ seen[p] = <<>> /\ shows[p] = 0
          /\ conn[p] = "open" =>
                IF p \in todo /\ IsChat(msg) THEN since[p] < Len(posted) ELSE since[p] <= Len(posted)

\* Those that the listener passes on.
Relayable(S) == {n \in S : ~HoldsServerId(n)}

\* The chat is numbered as it was said: ascending in each place, and from the
\* oldest place to the newest.
ChatOK ==
    /\ \A i, j \in 1 .. Len(posted) : i < j => posted[i] < posted[j]
    /\ \A i \in 1 .. Len(posted) : ~HoldsServerId(posted[i])
    /\ listener = "push" <=> heard # 0
    /\ heard # 0 => ~HoldsServerId(heard)
    /\ heard # 0 => \A i \in 1 .. Len(posted) : posted[i] < heard
    /\ \A i, j \in 1 .. Len(events) : i < j /\ events[j] # 0 => events[i] < events[j]
    /\ \A j \in 1 .. Len(events) : events[j] # 0 =>
          heard < events[j] /\ \A i \in 1 .. Len(posted) : posted[i] < events[j]
    /\ ToSet(posted) \union {heard} \union ToSet(events) \subseteq 0 .. chat
    /\ Relayable(ToSet(posted) \union {heard} \union ToSet(events)) = ((1 .. chat) \ lost) \ Quotes
    /\ lost \subseteq 1 .. chat

----------------------------------------------------------------------------
(***************************************************************************)
(* The chat on its way to a page                                           *)
(***************************************************************************)
InOrder(a, s) ==
    /\ \A i, j \in 1 .. Len(a) : i < j => a[i] < a[j]
    /\ \A i, j \in ChatAt(s) : i < j => s[i].n < s[j].n
    /\ \A n \in ToSet(a), m \in ChatIn(s) : n < m

LEMMA ChatAppended ==
    ASSUME NEW s \in Seq(Msg), NEW m \in Msg
    PROVE  /\ Append(s, m) \in Seq(Msg)
           /\ \A i \in ChatAt(s) : i \in 1 .. Len(s) /\ Append(s, m)[i] = s[i]
           /\ ChatAt(Append(s, m)) = ChatAt(s) \union IF IsChat(m) THEN {Len(s) + 1} ELSE {}
           /\ ChatIn(Append(s, m)) = ChatIn(s) \union IF IsChat(m) THEN {m.n} ELSE {}
<1> DEFINE t == Append(s, m)
<1>1. t \in Seq(Msg) /\ Len(t) = Len(s) + 1 /\ t[Len(s) + 1] = m /\ Len(s) \in Nat
      /\ \A i \in 1 .. Len(s) : t[i] = s[i]
  OBVIOUS
<1> HIDE DEF t
<1>2. \A i \in 1 .. Len(t) : i \in 1 .. Len(s) \/ i = Len(s) + 1  BY <1>1
<1>3. ChatAt(t) = ChatAt(s) \union IF IsChat(m) THEN {Len(s) + 1} ELSE {}
  BY <1>1, <1>2 DEF ChatAt, IsChat
<1>4. ChatIn(t) = ChatIn(s) \union IF IsChat(m) THEN {m.n} ELSE {}
  <2>1. \A i \in ChatAt(s) : t[i] = s[i]  BY <1>1 DEF ChatAt
  <2>2. QED  BY <1>1, <1>3, <2>1 DEF ChatIn
<1>5. QED  BY <1>1, <1>3, <1>4 DEF t, ChatAt

LEMMA ChatTail ==
    ASSUME NEW s \in Seq(Msg), s # <<>>
    PROVE  /\ Head(s) \in Msg /\ Tail(s) \in Seq(Msg)
           /\ \A i \in ChatAt(Tail(s)) : i + 1 \in ChatAt(s) /\ Tail(s)[i] = s[i + 1] /\ i \in Nat \ {0}
           /\ IsChat(Head(s)) => 1 \in ChatAt(s) /\ s[1] = Head(s)
           /\ ChatIn(s) = ChatIn(Tail(s)) \union IF IsChat(Head(s)) THEN {Head(s).n} ELSE {}
<1> DEFINE t == Tail(s)
<1>1. /\ Head(s) = s[1] /\ s[1] \in Msg /\ t \in Seq(Msg) /\ Len(t) = Len(s) - 1 /\ Len(s) \in Nat \ {0}
      /\ \A i \in 1 .. Len(t) : t[i] = s[i + 1]
  BY HeadTailProperties, EmptySeq
<1> HIDE DEF t
<1>2. \A i \in ChatAt(t) : i + 1 \in ChatAt(s) /\ t[i] = s[i + 1] /\ i \in Nat \ {0}
  BY <1>1 DEF ChatAt
<1>3. IsChat(Head(s)) <=> 1 \in ChatAt(s)  BY <1>1 DEF ChatAt, IsChat
<1>4. \A i \in ChatAt(s) : i = 1 \/ (i - 1 \in ChatAt(t) /\ t[i - 1] = s[i])
  BY <1>1 DEF ChatAt
<1>5. ChatIn(s) = ChatIn(t) \union IF IsChat(Head(s)) THEN {Head(s).n} ELSE {}
  <2>1. ASSUME NEW x \in ChatIn(s) PROVE x \in ChatIn(t) \/ (IsChat(Head(s)) /\ x = Head(s).n)
    BY <1>1, <1>3, <1>4 DEF ChatIn
  <2>2. ASSUME NEW x \in ChatIn(t) PROVE x \in ChatIn(s)
    BY <1>2 DEF ChatIn
  <2>3. IsChat(Head(s)) => Head(s).n \in ChatIn(s)  BY <1>1, <1>3 DEF ChatIn
  <2>4. QED  BY <2>1, <2>2, <2>3
<1>6. QED  BY <1>1, <1>2, <1>3, <1>5 DEF t

LEMMA SetAppended ==
    ASSUME NEW S, NEW a \in Seq(S), NEW x \in S
    PROVE  Append(a, x) \in Seq(S) /\ ToSet(Append(a, x)) = ToSet(a) \union {x}
<1> DEFINE b == Append(a, x)
<1>1. b \in Seq(S) /\ Len(b) = Len(a) + 1 /\ b[Len(a) + 1] = x /\ Len(a) \in Nat
      /\ \A i \in 1 .. Len(a) : b[i] = a[i]
  OBVIOUS
<1>2. DOMAIN a = 1 .. Len(a) /\ DOMAIN b = 1 .. Len(b)  OBVIOUS
<1> HIDE DEF b
<1>3. \A i \in 1 .. Len(b) : i \in 1 .. Len(a) \/ i = Len(a) + 1  BY <1>1
<1>4. QED  BY <1>1, <1>2, <1>3 DEF ToSet, b

LEMMA AppendInOrder ==
    ASSUME NEW a \in Seq(Nat), NEW s \in Seq(Msg), NEW m \in Msg, InOrder(a, s),
           IsChat(m) => \A x \in ToSet(a) \union ChatIn(s) : x < m.n
    PROVE  InOrder(a, Append(s, m))
<1> DEFINE t == Append(s, m)
<1>1. /\ \A i \in ChatAt(s) : i \in 1 .. Len(s) /\ t[i] = s[i]
      /\ ChatAt(t) = ChatAt(s) \union IF IsChat(m) THEN {Len(s) + 1} ELSE {}
      /\ ChatIn(t) = ChatIn(s) \union IF IsChat(m) THEN {m.n} ELSE {}
      /\ t[Len(s) + 1] = m /\ Len(s) \in Nat
  BY ChatAppended
<1> HIDE DEF t
<1>2. \A i, j \in ChatAt(t) : i < j => t[i].n < t[j].n
  <2> SUFFICES ASSUME NEW i \in ChatAt(t), NEW j \in ChatAt(t), i < j PROVE t[i].n < t[j].n
    OBVIOUS
  <2>1. CASE i \in ChatAt(s) /\ j \in ChatAt(s)  BY <1>1, <2>1 DEF InOrder
  <2>2. CASE i \in ChatAt(s) /\ j = Len(s) + 1 /\ IsChat(m)
    BY <1>1, <2>2 DEF ChatIn
  <2>3. QED  BY <1>1, <2>1, <2>2
<1>3. QED  BY <1>1, <1>2 DEF InOrder, t

LEMMA ReadInOrder ==
    ASSUME NEW a \in Seq(Nat), NEW s \in Seq(Msg), s # <<>>, InOrder(a, s)
    PROVE  InOrder(IF IsChat(Head(s)) THEN Append(a, Head(s).n) ELSE a, Tail(s))
<1> DEFINE t == Tail(s)
<1>1. /\ Head(s) \in Msg
      /\ \A i \in ChatAt(t) : i + 1 \in ChatAt(s) /\ t[i] = s[i + 1] /\ i \in Nat \ {0}
      /\ IsChat(Head(s)) => 1 \in ChatAt(s) /\ s[1] = Head(s)
      /\ ChatIn(s) = ChatIn(t) \union IF IsChat(Head(s)) THEN {Head(s).n} ELSE {}
  BY ChatTail
<1> HIDE DEF t
<1>2. \A i, j \in ChatAt(t) : i < j => t[i].n < t[j].n  BY <1>1 DEF InOrder
<1>3. CASE ~IsChat(Head(s))  BY <1>1, <1>2, <1>3 DEF InOrder, t
<1>4. CASE IsChat(Head(s))
  <2> DEFINE b == Append(a, Head(s).n)
  <2>1. Head(s).n \in Nat  BY <1>1 DEF Msg
  <2>2. b \in Seq(Nat) /\ ToSet(b) = ToSet(a) \union {Head(s).n}  BY <2>1, SetAppended
  <2>3. Len(b) = Len(a) + 1 /\ b[Len(a) + 1] = Head(s).n /\ Len(a) \in Nat
        /\ \A i \in 1 .. Len(a) : b[i] = a[i]
    BY <2>1
  <2>4. Head(s).n \in ChatIn(s)  BY <1>1, <1>4
  <2>5. \A i \in 1 .. Len(a) : a[i] \in ToSet(a)  BY DEF ToSet
  <2>6. \A n \in ToSet(a) : n < Head(s).n  BY <2>4 DEF InOrder
  <2>7. \A m \in ChatIn(t) : Head(s).n < m
    <3> SUFFICES ASSUME NEW i \in ChatAt(t) PROVE Head(s).n < t[i].n  BY DEF ChatIn
    <3>1. 1 \in ChatAt(s) /\ i + 1 \in ChatAt(s) /\ 1 < i + 1 /\ s[1] = Head(s) /\ t[i] = s[i + 1]
      BY <1>1, <1>4
    <3>2. QED  BY <3>1 DEF InOrder
  <2> HIDE DEF b
  <2>8. \A i, j \in 1 .. Len(b) : i < j => b[i] < b[j]
    <3> SUFFICES ASSUME NEW i \in 1 .. Len(b), NEW j \in 1 .. Len(b), i < j PROVE b[i] < b[j]
      OBVIOUS
    <3>1. i \in 1 .. Len(a) /\ (j \in 1 .. Len(a) \/ j = Len(a) + 1)  BY <2>3
    <3>2. QED  BY <2>3, <2>5, <2>6, <3>1 DEF InOrder
  <2>9. \A n \in ToSet(b), m \in ChatIn(t) : n < m
    BY <1>1, <2>2, <2>7 DEF InOrder
  <2>10. InOrder(b, t)  BY <1>2, <2>8, <2>9 DEF InOrder
  <2>11. QED  BY <1>4, <2>10 DEF b, t
<1>5. QED  BY <1>3, <1>4

----------------------------------------------------------------------------
(***************************************************************************)
(* The lists on their way to a page: w is what it shows                    *)
(***************************************************************************)
ListAt(s) == {i \in 1 .. Len(s) : ~IsChat(s[i])}

Rising(w, s, top) ==
    /\ w <= top
    /\ \A i \in ListAt(s) : w <= s[i].n /\ s[i].n <= top
    /\ \A i, j \in ListAt(s) : i < j => s[i].n <= s[j].n

LEMMA AppendRising ==
    ASSUME NEW w \in Nat, NEW s \in Seq(Msg), NEW top \in Nat, NEW m \in Msg, Rising(w, s, top),
           ~IsChat(m) => m.n = top
    PROVE  Rising(w, Append(s, m), top)
<1> DEFINE t == Append(s, m)
<1>1. t \in Seq(Msg) /\ Len(t) = Len(s) + 1 /\ t[Len(s) + 1] = m /\ Len(s) \in Nat
      /\ \A i \in 1 .. Len(s) : t[i] = s[i]
  OBVIOUS
<1> HIDE DEF t
<1>2. \A i \in ListAt(t) : (i \in ListAt(s) /\ t[i] = s[i] /\ i <= Len(s)) \/ (i = Len(s) + 1 /\ ~IsChat(m))
  BY <1>1 DEF ListAt
<1>3. \A i \in ListAt(t) : w <= t[i].n /\ t[i].n <= top
  BY <1>1, <1>2 DEF Rising
<1>4. ASSUME NEW i \in ListAt(t), NEW j \in ListAt(t), i < j PROVE t[i].n <= t[j].n
  <2>1. i \in Nat /\ j \in Nat /\ i <= Len(s) + 1 /\ j <= Len(s) + 1  BY <1>1 DEF ListAt
  <2>2. i \in ListAt(s) /\ t[i] = s[i]  BY <1>1, <1>2, <1>4, <2>1
  <2>3. CASE j \in ListAt(s) /\ t[j] = s[j]  BY <1>4, <2>2, <2>3 DEF Rising
  <2>4. CASE j = Len(s) + 1 /\ ~IsChat(m)  BY <1>1, <2>2, <2>4 DEF Rising
  <2>5. QED  BY <1>2, <2>3, <2>4
<1>5. QED  BY <1>3, <1>4 DEF Rising, t

LEMMA ReadRising ==
    ASSUME NEW w \in Nat, NEW s \in Seq(Msg), NEW top \in Nat, s # <<>>, Rising(w, s, top)
    PROVE  /\ Rising(IF IsChat(Head(s)) THEN w ELSE Head(s).n, Tail(s), top)
           /\ ~IsChat(Head(s)) => w <= Head(s).n
<1> DEFINE t == Tail(s)
<1>1. /\ Head(s) = s[1] /\ s[1] \in Msg /\ t \in Seq(Msg) /\ Len(t) = Len(s) - 1 /\ Len(s) \in Nat \ {0}
      /\ \A i \in 1 .. Len(t) : t[i] = s[i + 1]
  BY HeadTailProperties, EmptySeq
<1> HIDE DEF t
<1>2. \A i \in ListAt(t) : i + 1 \in ListAt(s) /\ t[i] = s[i + 1] /\ i \in Nat \ {0}
  BY <1>1 DEF ListAt
<1>3. ~IsChat(Head(s)) => 1 \in ListAt(s)  BY <1>1 DEF ListAt
<1>4. \A i, j \in ListAt(t) : i < j => t[i].n <= t[j].n  BY <1>2 DEF Rising
<1>5. CASE IsChat(Head(s))  BY <1>2, <1>4, <1>5 DEF Rising, t
<1>6. CASE ~IsChat(Head(s))
  <2>1. w <= Head(s).n /\ Head(s).n <= top  BY <1>1, <1>3, <1>6 DEF Rising
  <2>2. ASSUME NEW i \in ListAt(t) PROVE Head(s).n <= t[i].n /\ t[i].n <= top
    <3>1. 1 \in ListAt(s) /\ i + 1 \in ListAt(s) /\ 1 < i + 1 /\ t[i] = s[i + 1]
      BY <1>2, <1>3, <1>6
    <3>2. QED  BY <1>1, <3>1 DEF Rising
  <2>3. QED  BY <1>4, <1>6, <2>1, <2>2 DEF Rising, t
<1>7. QED  BY <1>5, <1>6

LEMMA TopRises ==
    ASSUME NEW w \in Nat, NEW s \in Seq(Msg), NEW top \in Nat, Rising(w, s, top),
           NEW new \in Nat, top <= new
    PROVE  Rising(w, s, new)
<1>1. \A i \in ListAt(s) : s[i] \in Msg  BY DEF ListAt
<1>2. \A m \in Msg : m.n \in Nat  BY DEF Msg
<1>3. QED  BY <1>1, <1>2 DEF Rising

----------------------------------------------------------------------------
\* The chat that is due to a page has come to it or is on its way.
Due(p) == since[p] + 1 .. Len(posted) - IF p \in todo /\ IsChat(msg) THEN 1 ELSE 0
Gets(p) ==
    /\ ToSet(seen[p]) \union ChatIn(inbox[p]) = {posted[i] : i \in Due(p)}
    /\ InOrder(seen[p], inbox[p])

\* No page has a newer list than the broadcaster hands out or will hand out next.
Top == IF msg # Nothing /\ ~IsChat(msg) THEN msg.n ELSE pairs
ListsOK ==
    /\ pairs <= room /\ (msg # Nothing /\ ~IsChat(msg) => msg.n <= pairs)
    /\ \A p \in Pages : conn[p] = "open" => Rising(shows[p], inbox[p], Top)

PagesOK == \A p \in Pages : conn[p] = "open" => Gets(p)

Inv == TypeOK /\ HubOK /\ PagesOK /\ ListsOK /\ ChatOK

LEMMA Starts == Init => Inv
<1> SUFFICES ASSUME Init PROVE Inv  OBVIOUS
<1>1. TypeOK  BY DEF Init, TypeOK
<1>2. HubOK /\ PagesOK /\ ListsOK  BY DEF Init, HubOK, PagesOK, ListsOK, IsChat
<1>3. ChatOK
  <2>1. Len(posted) = 0 /\ Len(events) = 0 /\ ToSet(posted) = {} /\ ToSet(events) = {}
    BY DEF Init, ToSet
  <2>2. HoldsServerId(0) /\ 1 .. 0 = {}  BY DEF HoldsServerId
  <2>3. heard = 0 /\ chat = 0 /\ lost = {} /\ listener = "scan" /\ 0 \in 0 .. chat
    BY DEF Init
  <2> DEFINE all == ToSet(posted) \union {heard} \union ToSet(events)
  <2>4. all = {0}  BY <2>1, <2>3
  <2> HIDE DEF all
  <2>5. Relayable(all) = {} /\ all \subseteq 0 .. chat /\ 1 .. chat = {}
    BY <2>2, <2>3, <2>4 DEF Relayable
  <2>6. QED  BY <2>1, <2>2, <2>3, <2>5 DEF ChatOK, all
<1>4. QED  BY <1>1, <1>2, <1>3 DEF Inv

\* What the pages and the broadcaster see does not change.
LEMMA PagesStill ==
    ASSUME Inv, UNCHANGED <<pages, hub, posted>>
    PROVE  HubOK' /\ PagesOK'
<1> USE DEF pages, hub
<1>1. HubOK'  BY DEF Inv, HubOK, IsChat
<1>2. ASSUME NEW p \in Pages PROVE Gets(p)' <=> Gets(p)
  BY DEF Gets, Due, InOrder, ChatAt, ChatIn, IsChat
<1>3. PagesOK'  BY <1>2 DEF Inv, PagesOK
<1>4. QED  BY <1>1, <1>3

LEMMA ListsStill ==
    ASSUME Inv, UNCHANGED <<pages, hub>>, pairs' = pairs \/ pairs' = room, room <= room',
           room' \in Nat
    PROVE  ListsOK'
<1>1. /\ UNCHANGED <<conn, shows, inbox, msg>>
      /\ TypeOK /\ ListsOK /\ pairs <= pairs' /\ pairs' <= room' /\ pairs' \in Nat
  BY DEF Inv, pages, hub, TypeOK, ListsOK
<1>2. Top <= Top' /\ Top \in Nat /\ Top' \in Nat
  BY <1>1 DEF Top, TypeOK, Msg, IsChat, ListsOK
<1>3. ASSUME NEW p \in Pages, conn[p] = "open" PROVE Rising(shows[p], inbox[p], Top)'
  <2>1. Rising(shows[p], inbox[p], Top)  BY <1>1, <1>3 DEF ListsOK
  <2>2. shows[p] \in Nat /\ inbox[p] \in Seq(Msg)  BY <1>1 DEF TypeOK
  <2>3. Rising(shows[p], inbox[p], Top')  BY <1>2, <2>1, <2>2, TopRises
  <2>4. QED  BY <1>1, <2>3 DEF Rising, ListAt, IsChat
<1>4. pairs' <= room' /\ (msg' # Nothing /\ ~IsChat(msg') => msg'.n <= pairs')
  BY <1>1 DEF ListsOK, TypeOK, Msg
<1>5. QED  BY <1>1, <1>3, <1>4 DEF ListsOK, IsChat

LEMMA ChatStill ==
    ASSUME Inv, UNCHANGED <<chatter, chat, posted>>
    PROVE  ChatOK'
  BY DEF Inv, ChatOK, Relayable, HoldsServerId, chatter, ToSet

----------------------------------------------------------------------------
(***************************************************************************)
(* The steps                                                               *)
(***************************************************************************)
LEMMA UserSaysSafe == ASSUME Inv, UserSays PROVE Inv'
<1>1. /\ TypeOK /\ ChatOK /\ chat' = chat + 1
      /\ UNCHANGED <<up, pages, hub, lists, listener, heard, links, room, posted>>
      /\ IF Tells THEN events' = Append(events, chat + 1) /\ lost' = lost
                  ELSE lost' = lost \union {chat + 1} /\ events' = events
  BY DEF UserSays, Inv
<1>2. /\ chat \in Nat /\ events \in Seq(Nat) /\ posted \in Seq(Nat) /\ heard \in Nat /\ lost \subseteq Nat
      /\ Len(events) \in Nat
  BY <1>1 DEF TypeOK
<1>3. TypeOK'
  <2>1. chat' \in Nat /\ events' \in Seq(Nat) /\ lost' \subseteq Nat
    <3>1. chat + 1 \in Nat  BY <1>2
    <3>2. Append(events, chat + 1) \in Seq(Nat)  BY <1>2, <3>1, SetAppended
    <3>3. QED  BY <1>1, <1>2, <3>1, <3>2
  <2>2. QED  BY <1>1, <2>1 DEF TypeOK, pages, hub, lists, links
<1>4. HubOK' /\ PagesOK'  BY <1>1, PagesStill
<1>5. ListsOK'  BY <1>1, ListsStill DEF lists, TypeOK
<1>6. ChatOK'
  <2>1. \A n \in ToSet(posted) \union {heard} \union ToSet(events) : n \in Nat /\ n <= chat
    BY <1>1, <1>2 DEF ChatOK
  <2>2. CASE ~Tells
    <3>1. ((1 .. chat') \ lost') \ Quotes = ((1 .. chat) \ lost) \ Quotes
          /\ lost' \subseteq 1 .. chat' /\ 0 .. chat \subseteq 0 .. chat'
      <4>1. 1 .. chat + 1 = (1 .. chat) \union {chat + 1} /\ chat + 1 \notin 1 .. chat
        BY <1>2
      <4>2. lost \subseteq 1 .. chat  BY <1>1 DEF ChatOK
      <4>3. lost' = lost \union {chat + 1} /\ chat' = chat + 1  BY <1>1, <2>2
      <4>4. 0 .. chat \subseteq 0 .. chat + 1  BY <1>2
      <4>5. QED  BY <4>1, <4>2, <4>3, <4>4
    <3>2. UNCHANGED <<events, listener, heard, posted>>  BY <1>1, <2>2
    <3>3. UNCHANGED Relayable(ToSet(posted) \union {heard} \union ToSet(events))
      BY <3>2 DEF Relayable, HoldsServerId, ToSet
    <3>4. ToSet(posted') \union {heard'} \union ToSet(events') \subseteq 0 .. chat'
      <4>1. ToSet(posted) \union {heard} \union ToSet(events) \subseteq 0 .. chat  BY <1>1 DEF ChatOK
      <4>2. QED  BY <3>1, <3>2, <4>1
    <3>5. QED  BY <1>1, <3>1, <3>2, <3>3, <3>4 DEF ChatOK, HoldsServerId, ToSet
  <2>3. CASE Tells
    <3> DEFINE new == Append(events, chat + 1)
    <3>1. /\ new \in Seq(Nat) /\ ToSet(new) = ToSet(events) \union {chat + 1}
      BY <1>2, SetAppended
    <3>2. /\ Len(new) = Len(events) + 1 /\ new[Len(events) + 1] = chat + 1
          /\ \A i \in 1 .. Len(events) : new[i] = events[i]
      BY <1>2
    <3>3. events' = new /\ lost' = lost /\ UNCHANGED <<listener, heard, posted>>  BY <1>1, <2>3
    <3> HIDE DEF new
    <3>4. /\ \A i \in 1 .. Len(posted) : posted[i] \in ToSet(posted)
          /\ \A i \in 1 .. Len(events) : events[i] \in ToSet(events)
      BY <1>2 DEF ToSet
    <3>5. \A j \in 1 .. Len(new) : j \in 1 .. Len(events) \/ j = Len(events) + 1  BY <1>2, <3>2
    <3>6. ASSUME NEW i \in 1 .. Len(new), NEW j \in 1 .. Len(new), i < j, new[j] # 0
          PROVE  new[i] < new[j]
      <4>1. i \in 1 .. Len(events)  BY <1>2, <3>2, <3>6
      <4>2. CASE j \in 1 .. Len(events)  BY <1>1, <3>2, <3>6, <4>1, <4>2 DEF ChatOK
      <4>3. CASE j = Len(events) + 1  BY <1>2, <2>1, <3>2, <3>4, <4>1, <4>3
      <4>4. QED  BY <3>5, <4>2, <4>3
    <3>7. ASSUME NEW j \in 1 .. Len(new), new[j] # 0
          PROVE  heard < new[j] /\ \A i \in 1 .. Len(posted) : posted[i] < new[j]
      <4>1. CASE j \in 1 .. Len(events)  BY <1>1, <3>2, <3>7, <4>1 DEF ChatOK
      <4>2. CASE j = Len(events) + 1
        <5>1. new[j] = chat + 1  BY <3>2, <4>2
        <5>2. heard < chat + 1
          <6>1. heard <= chat  BY <2>1
          <6>2. QED  BY <1>2, <6>1
        <5>3. \A i \in 1 .. Len(posted) : posted[i] < chat + 1  BY <1>2, <2>1, <3>4
        <5>4. QED  BY <5>1, <5>2, <5>3
      <4>3. QED  BY <3>5, <4>1, <4>2
    <3> DEFINE old == ToSet(posted) \union {heard} \union ToSet(events)
               all == ToSet(posted) \union {heard} \union ToSet(new)
    <3>8. /\ Relayable(all) = ((1 .. chat + 1) \ lost) \ Quotes
          /\ lost \subseteq 1 .. chat + 1 /\ all \subseteq 0 .. chat + 1
      <4>1. lost \subseteq 1 .. chat /\ Relayable(old) = ((1 .. chat) \ lost) \ Quotes
            /\ old \subseteq 0 .. chat
        BY <1>1 DEF ChatOK
      <4>2. /\ chat + 1 \notin lost /\ 1 .. chat + 1 = (1 .. chat) \union {chat + 1} /\ chat + 1 # 0
            /\ 0 .. chat \subseteq 0 .. chat + 1 /\ chat + 1 \in 0 .. chat + 1
        BY <1>2, <4>1
      <4>3. all = old \union {chat + 1}  BY <3>1
      <4> HIDE DEF old, all
      <4>4. Relayable(all) = Relayable(old) \union ({chat + 1} \ Quotes)
        BY <4>2, <4>3 DEF Relayable, HoldsServerId
      <4>5. QED  BY <4>1, <4>2, <4>3, <4>4
    <3>9. Relayable(ToSet(posted) \union {heard} \union ToSet(events))' = Relayable(all)
      BY <3>3 DEF Relayable, HoldsServerId, ToSet
    <3>10. QED  BY <1>1, <3>3, <3>6, <3>7, <3>8, <3>9 DEF ChatOK, HoldsServerId, ToSet
  <2>4. QED  BY <2>2, <2>3
<1>7. QED  BY <1>3, <1>4, <1>5, <1>6 DEF Inv

\* A zero at the end changes nothing.
LEMMA PageSaysSafe == ASSUME Inv, NEW p \in Pages, PageSays(p) PROVE Inv'
<1>1. /\ TypeOK /\ ChatOK
      /\ UNCHANGED <<up, pages, hub, lists, listener, heard, lost, world, links, posted>>
      /\ events' = Append(events, 0) \/ events' = events
  BY DEF PageSays, Inv
<1>2. events \in Seq(Nat) /\ posted \in Seq(Nat) /\ Len(events) \in Nat /\ 0 \in Nat
  BY <1>1 DEF TypeOK
<1>3. TypeOK'
  <2>1. events' \in Seq(Nat)  BY <1>1, <1>2, SetAppended
  <2>2. QED  BY <1>1, <2>1 DEF TypeOK, pages, hub, lists, world, links
<1>4. HubOK' /\ PagesOK'  BY <1>1, PagesStill
<1>5. ListsOK'  BY <1>1, ListsStill DEF lists, world, TypeOK
<1>6. ChatOK'
  <2>1. CASE events' = events
    <3>1. UNCHANGED <<chatter, chat, posted>>  BY <1>1, <2>1 DEF chatter, world
    <3>2. QED  BY <3>1, ChatStill
  <2>2. CASE events' = Append(events, 0)
    <3> DEFINE new == Append(events, 0)
    <3>1. ToSet(new) = ToSet(events) \union {0}  BY <1>2, SetAppended
    <3>2. /\ Len(new) = Len(events) + 1 /\ new[Len(events) + 1] = 0
          /\ \A i \in 1 .. Len(events) : new[i] = events[i]
      BY <1>2
    <3>3. events' = new /\ UNCHANGED <<lost, chat, listener, heard, posted>>
      BY <1>1, <2>2 DEF world
    <3> HIDE DEF new
    <3>4. \A j \in 1 .. Len(new) : new[j] # 0 => j \in 1 .. Len(events)  BY <1>2, <3>2
    <3>5. ASSUME NEW i \in 1 .. Len(new), NEW j \in 1 .. Len(new), i < j, new[j] # 0
          PROVE  new[i] < new[j]
      <4>1. j \in 1 .. Len(events) /\ i \in 1 .. Len(events)  BY <1>2, <3>2, <3>4, <3>5
      <4>2. QED  BY <1>1, <3>2, <3>5, <4>1 DEF ChatOK
    <3>6. ASSUME NEW j \in 1 .. Len(new), new[j] # 0
          PROVE  heard < new[j] /\ \A i \in 1 .. Len(posted) : posted[i] < new[j]
      BY <1>1, <3>2, <3>4, <3>6 DEF ChatOK
    <3> DEFINE old == ToSet(posted) \union {heard} \union ToSet(events)
               all == ToSet(posted) \union {heard} \union ToSet(new)
    <3>7. Relayable(all) = ((1 .. chat) \ lost) \ Quotes /\ all \subseteq 0 .. chat
      <4>1. Relayable(old) = ((1 .. chat) \ lost) \ Quotes /\ old \subseteq 0 .. chat /\ chat \in Nat
        BY <1>1 DEF ChatOK, TypeOK
      <4>2. all = old \union {0} /\ 0 \in 0 .. chat  BY <3>1, <4>1
      <4> HIDE DEF old, all
      <4>3. Relayable(all) = Relayable(old)  BY <4>2 DEF Relayable, HoldsServerId
      <4>4. QED  BY <4>1, <4>2, <4>3
    <3>8. Relayable(ToSet(posted) \union {heard} \union ToSet(events))' = Relayable(all)
      BY <3>3 DEF Relayable, HoldsServerId, ToSet
    <3>9. QED  BY <1>1, <3>3, <3>5, <3>6, <3>7, <3>8 DEF ChatOK, HoldsServerId, ToSet
  <2>3. QED  BY <1>1, <2>1, <2>2
<1>7. QED  BY <1>3, <1>4, <1>5, <1>6 DEF Inv

\* The oldest event leaves the queue, to be passed on unless it is a zero.
LEMMA ScanSafe == ASSUME Inv, Scan PROVE Inv'
<1>1. /\ TypeOK /\ ChatOK /\ listener = "scan" /\ events # <<>> /\ events' = Tail(events)
      /\ UNCHANGED <<up, pages, hub, lists, lost, world, links, posted>>
      /\ IF HoldsServerId(Head(events)) THEN UNCHANGED <<heard, listener>>
         ELSE heard' = Head(events) /\ listener' = "push"
  BY DEF Scan, Listens, Inv, links
<1>2. /\ events \in Seq(Nat) /\ posted \in Seq(Nat) /\ Len(events) \in Nat \ {0} /\ heard = 0
      /\ Head(events) = events[1] /\ Head(events) \in Nat /\ 1 \in 1 .. Len(events)
  BY <1>1, EmptySeq DEF TypeOK, ChatOK
<1> DEFINE new == Tail(events)
<1>3. new \in Seq(Nat) /\ Len(new) = Len(events) - 1 /\ \A i \in 1 .. Len(new) : new[i] = events[i + 1]
  BY <1>1, <1>2, HeadTailProperties
<1>4. TypeOK'
  <2>1. events' \in Seq(Nat) /\ heard' \in Nat /\ listener' \in {"scan", "push"}
    BY <1>1, <1>2, <1>3 DEF TypeOK
  <2>2. QED  BY <1>1, <2>1 DEF TypeOK, pages, hub, lists, world, links
<1>5. HubOK' /\ PagesOK'  BY <1>1, PagesStill
<1>6. ListsOK'  BY <1>1, ListsStill DEF lists, world, TypeOK
<1>7. /\ events' = new /\ UNCHANGED <<lost, chat, posted>>
      /\ (listener' = "push" <=> heard' # 0)
      /\ (heard' # 0 => heard' = Head(events) /\ ~HoldsServerId(heard'))
      /\ (HoldsServerId(Head(events)) => heard' = 0)
      /\ (~HoldsServerId(Head(events)) => heard' = Head(events))
  BY <1>1, <1>2 DEF world, HoldsServerId
<1> HIDE DEF new
<1>8. \A i \in 1 .. Len(new) : i + 1 \in 1 .. Len(events)  BY <1>2, <1>3
<1>9. \A i, j \in 1 .. Len(new) : i < j /\ new[j] # 0 => new[i] < new[j]
  <2> SUFFICES ASSUME NEW i \in 1 .. Len(new), NEW j \in 1 .. Len(new), i < j, new[j] # 0
               PROVE  new[i] < new[j]
    OBVIOUS
  <2>1. i + 1 \in 1 .. Len(events) /\ j + 1 \in 1 .. Len(events)  BY <1>8
  <2>2. new[i] = events[i + 1] /\ new[j] = events[j + 1]  BY <1>3
  <2>3. i + 1 < j + 1  BY <1>3
  <2>4. QED  BY <1>1, <2>1, <2>2, <2>3 DEF ChatOK
<1>10. \A j \in 1 .. Len(new) : new[j] # 0 =>
           events[1] < new[j] /\ \A i \in 1 .. Len(posted) : posted[i] < new[j]
  <2> SUFFICES ASSUME NEW j \in 1 .. Len(new), new[j] # 0
               PROVE  events[1] < new[j] /\ \A i \in 1 .. Len(posted) : posted[i] < new[j]
    OBVIOUS
  <2>1. j + 1 \in 1 .. Len(events) /\ 1 < j + 1 /\ events[j + 1] # 0 /\ new[j] = events[j + 1]
    BY <1>2, <1>3, <1>8
  <2>2. QED  BY <1>1, <1>2, <2>1 DEF ChatOK
<1>11. heard' # 0 => \A i \in 1 .. Len(posted) : posted[i] < heard'
  BY <1>1, <1>2, <1>7 DEF ChatOK
<1>12. ToSet(events) = ToSet(new) \union {Head(events)}
  <2>1. DOMAIN events = 1 .. Len(events) /\ DOMAIN new = 1 .. Len(new)  BY <1>2, <1>3
  <2>2. \A i \in 1 .. Len(events) : i = 1 \/ (i - 1 \in 1 .. Len(new) /\ events[i] = new[i - 1])
    BY <1>2, <1>3
  <2>3. ASSUME NEW x \in ToSet(events) PROVE x \in ToSet(new) \union {Head(events)}
    BY <1>2, <2>1, <2>2 DEF ToSet
  <2>4. ASSUME NEW x \in ToSet(new) PROVE x \in ToSet(events)
    BY <1>3, <1>8, <2>1 DEF ToSet
  <2>5. Head(events) \in ToSet(events)  BY <1>2, <2>1 DEF ToSet
  <2>6. QED  BY <2>3, <2>4, <2>5
<1> DEFINE old == ToSet(posted) \union {heard} \union ToSet(events)
           all == ToSet(posted) \union {heard'} \union ToSet(new)
<1>13. Relayable(all) = ((1 .. chat) \ lost) \ Quotes /\ all \subseteq 0 .. chat
  <2>1. Relayable(old) = ((1 .. chat) \ lost) \ Quotes /\ old \subseteq 0 .. chat
    BY <1>1 DEF ChatOK
  <2>2. HoldsServerId(0)  BY DEF HoldsServerId
  <2>3. all \subseteq old  BY <1>2, <1>7, <1>12
  <2>4. \A n \in old : n \in all \/ HoldsServerId(n)  BY <1>2, <1>7, <1>12, <2>2
  <2> HIDE DEF old, all
  <2>5. Relayable(all) = Relayable(old)  BY <2>3, <2>4 DEF Relayable
  <2>6. QED  BY <2>1, <2>3, <2>5
<1>14. ChatOK'
  <2>1. Relayable(ToSet(posted) \union {heard} \union ToSet(events))' = Relayable(all)
    BY <1>7 DEF Relayable, HoldsServerId, ToSet
  <2>2. \A j \in 1 .. Len(new) : new[j] # 0 => heard' < new[j]
    BY <1>2, <1>3, <1>7, <1>10
  <2>3. QED
    BY <1>1, <1>2, <1>7, <1>9, <1>10, <1>11, <1>13, <2>1, <2>2 DEF ChatOK, HoldsServerId, ToSet
<1>15. QED  BY <1>4, <1>5, <1>6, <1>14 DEF Inv

\* Steps that touch neither pages nor chat.
LEMMA OthersSafe ==
    ASSUME Inv, Move \/ HangUp \/ Query \/ Reconnect \/ ListenerFatal
                \/ (\E p \in Pages : EnterFatal(p)) \/ UNCHANGED vars
    PROVE  Inv'
<1>1. /\ TypeOK /\ UNCHANGED <<pages, hub, posted, chatter, chat>>
      /\ pairs' = pairs \/ pairs' = room
      /\ room' = room \/ room' = room + 1
      /\ lister' \in {"query", "push"}
      /\ up' \in BOOLEAN /\ asks' \in BOOLEAN /\ listens' \in BOOLEAN /\ registered' \in BOOLEAN
  BY DEF Inv, TypeOK, Move, HangUp, Query, Asked, Reconnect, Listens, ListenerFatal, EnterFatal, vars,
         lists, world, chatter, links
<1>2. TypeOK'  BY <1>1 DEF TypeOK, pages, hub, chatter, links
<1>3. HubOK' /\ PagesOK'  BY <1>1, PagesStill
<1>4. room <= room' /\ room' \in Nat  BY <1>1 DEF TypeOK
<1>5. ListsOK'  BY <1>1, <1>4, ListsStill
<1>6. ChatOK'  BY <1>1, ChatStill
<1>7. QED  BY <1>2, <1>3, <1>5, <1>6 DEF Inv
----------------------------------------------------------------------------
\* What is due to a page, and what it has, does not change.
Same(p) ==
    /\ since'[p] = since[p] /\ inbox'[p] = inbox[p] /\ seen'[p] = seen[p]
    /\ shows'[p] = shows[p]
    /\ p \in todo' <=> p \in todo
    /\ p \in todo => msg' = msg

LEMMA SameGets ==
    ASSUME NEW p \in Pages, Same(p), posted' = posted
    PROVE  /\ Gets(p)' <=> Gets(p)
           /\ (p \in todo /\ IsChat(msg))' <=> (p \in todo /\ IsChat(msg))
<1>1. (p \in todo /\ IsChat(msg))' <=> (p \in todo /\ IsChat(msg))  BY DEF Same, IsChat
<1>2. Due(p)' = Due(p)  BY <1>1 DEF Due, Same
<1>3. QED  BY <1>1, <1>2 DEF Same, Gets, InOrder, ChatAt, ChatIn

LEMMA EmptyGets ==
    ASSUME TRUE
    PROVE  /\ ToSet(<<>>) = {} /\ ChatIn(<<>>) = {} /\ InOrder(<<>>, <<>>)
           /\ \A top \in Nat : Rising(0, <<>>, top)
<1>1. Len(<<>>) = 0  OBVIOUS
<1>2. ToSet(<<>>) = {}  BY DEF ToSet
<1>3. ChatAt(<<>>) = {} /\ ListAt(<<>>) = {}  BY <1>1 DEF ChatAt, ListAt
<1>4. ChatIn(<<>>) = {}  BY <1>3 DEF ChatIn
<1>5. QED  BY <1>1, <1>2, <1>3, <1>4 DEF InOrder, Rising

LEMMA TopIsNat == ASSUME TypeOK PROVE Top \in Nat
  BY DEF TypeOK, Top, Msg

\* A page that comes has nothing, and nothing is due to it but what is being written.
LEMMA EnterSafe == ASSUME Inv, NEW p \in Pages, Enter(p) PROVE Inv'
<1>1. /\ TypeOK /\ HubOK /\ PagesOK /\ ListsOK /\ conn[p] = "none"
      /\ conn' = [conn EXCEPT ![p] = "open"] /\ clients' = clients \union {p}
      /\ UNCHANGED <<up, inbox, shows, seen, msg, lists, chatter, world, links, posted>>
  BY DEF Enter, Inv
<1>2. PICK visited \in IF msg = Nothing THEN {FALSE} ELSE BOOLEAN :
          /\ todo' = IF visited THEN todo \union {p} ELSE todo
          /\ since' = [since EXCEPT ![p] =
                Len(posted) - IF visited /\ msg.kind = "servermsg" THEN 1 ELSE 0]
  BY DEF Enter
<1> DEFINE now == Len(posted) - IF visited /\ IsChat(msg) THEN 1 ELSE 0
<1>3. p \notin clients /\ p \notin todo /\ inbox[p] = <<>> /\ seen[p] = <<>> /\ shows[p] = 0
  BY <1>1 DEF HubOK, TypeOK
<1>4. visited \in BOOLEAN /\ (visited => msg # Nothing)  BY <1>2
<1>5. Len(posted) \in Nat /\ (visited /\ IsChat(msg) => Len(posted) > 0)
  BY <1>1, <1>4 DEF HubOK, TypeOK
<1>6. now \in Nat /\ since' = [since EXCEPT ![p] = now]
  BY <1>2, <1>5 DEF IsChat
<1>7. since'[p] = now /\ \A q \in Pages \ {p} : since'[q] = since[q] /\ conn'[q] = conn[q]
  BY <1>1, <1>6 DEF TypeOK
<1>8. p \in todo' <=> visited  BY <1>2, <1>3, <1>4
<1>9. TypeOK'
  <2>1. conn' \in [Pages -> {"none", "open", "gone"}]  BY <1>1 DEF TypeOK
  <2>2. since' \in [Pages -> Nat]
    <3> HIDE DEF now
    <3>1. QED  BY <1>1, <1>6 DEF TypeOK
  <2>3. clients' \subseteq Pages /\ todo' \subseteq clients'  BY <1>1, <1>2 DEF TypeOK
  <2>4. QED  BY <1>1, <2>1, <2>2, <2>3 DEF TypeOK, lists, chatter, world, links
<1>10. \A q \in Pages \ {p} : Same(q)  BY <1>1, <1>2, <1>7 DEF Same
<1>11. HubOK'
  <2>1. msg' = Nothing <=> todo' = {}
    <3>1. CASE msg = Nothing  BY <1>1, <1>2, <1>4, <3>1 DEF HubOK
    <3>2. CASE msg # Nothing  BY <1>1, <1>2, <3>2 DEF HubOK
    <3>3. QED  BY <3>1, <3>2
  <2>2. msg' # Nothing /\ IsChat(msg') => Len(posted') > 0 /\ msg'.n = posted'[Len(posted')]
    BY <1>1 DEF HubOK
  <2>3. ASSUME NEW q \in Pages
        PROVE  /\ conn'[q] = "open" => q \in clients'
               /\ conn'[q] = "none" =>
                     q \notin clients' /\ inbox'[q] = <<>> /\ seen'[q] = <<>> /\ shows'[q] = 0
               /\ conn'[q] = "open" =>
                     IF q \in todo' /\ IsChat(msg') THEN since'[q] < Len(posted')
                                                    ELSE since'[q] <= Len(posted')
    <3>1. CASE q = p
      <4>1. conn'[p] = "open" /\ p \in clients'  BY <1>1 DEF TypeOK
      <4>2. IF p \in todo' /\ IsChat(msg') THEN since'[p] < Len(posted')
                                           ELSE since'[p] <= Len(posted')
        BY <1>1, <1>5, <1>7, <1>8
      <4>3. QED  BY <3>1, <4>1, <4>2
    <3>2. CASE q # p
      <4>1. Same(q)  BY <1>10, <3>2
      <4>2. (q \in todo /\ IsChat(msg))' <=> (q \in todo /\ IsChat(msg))
        BY <1>1, <4>1 DEF Same
      <4>3. QED  BY <1>1, <1>7, <3>2, <4>1, <4>2 DEF HubOK, Same
    <3>3. QED  BY <3>1, <3>2
  <2>4. QED  BY <2>1, <2>2, <2>3 DEF HubOK
<1>12. PagesOK'
  <2> SUFFICES ASSUME NEW q \in Pages, conn'[q] = "open" PROVE Gets(q)'  BY DEF PagesOK
  <2>1. CASE q = p
    <3>1. Due(p)' = {}  BY <1>1, <1>5, <1>7, <1>8 DEF Due, IsChat
    <3>2. inbox'[p] = <<>> /\ seen'[p] = <<>>  BY <1>1, <1>3
    <3>3. InOrder(seen[p], inbox[p])' <=> InOrder(seen'[p], inbox'[p])
      BY DEF InOrder, ChatAt, ChatIn
    <3>4. ChatIn(inbox[p])' = ChatIn(inbox'[p])  BY DEF ChatIn, ChatAt
    <3>5. QED  BY <2>1, <3>1, <3>2, <3>3, <3>4, EmptyGets DEF Gets
  <2>2. CASE q # p
    <3>1. Same(q) /\ conn[q] = "open"  BY <1>7, <1>10, <2>2
    <3>2. QED  BY <1>1, <3>1, SameGets DEF PagesOK
  <2>3. QED  BY <2>1, <2>2
<1>13. ListsOK'
  <2>1. Top' = Top  BY <1>1 DEF Top, IsChat, lists
  <2>2. Top \in Nat  BY <1>1, TopIsNat
  <2>3. ASSUME NEW q \in Pages, conn'[q] = "open" PROVE Rising(shows[q], inbox[q], Top)
    <3>1. CASE q = p  BY <1>3, <2>2, <3>1, EmptyGets
    <3>2. CASE q # p  BY <1>1, <1>7, <2>3, <3>2 DEF ListsOK
    <3>3. QED  BY <3>1, <3>2
  <2>4. \A q \in Pages : conn'[q] = "open" => Rising(shows[q], inbox[q], Top)'
    BY <1>1, <2>1, <2>3 DEF Rising, ListAt, IsChat
  <2>5. QED  BY <1>1, <2>4 DEF ListsOK, lists, world
<1>14. ChatOK'  BY <1>1, ChatStill DEF world, Inv
<1>15. QED  BY <1>9, <1>11, <1>12, <1>13, <1>14 DEF Inv

\* A page that goes is asked for nothing any more.
LEMMA LeaveSafe == ASSUME Inv, NEW p \in Pages, Leave(p) PROVE Inv'
<1>1. /\ TypeOK /\ HubOK /\ PagesOK /\ ListsOK /\ conn[p] = "open"
      /\ conn' = [conn EXCEPT ![p] = "gone"]
      /\ inbox' = [inbox EXCEPT ![p] = <<>>] /\ seen' = [seen EXCEPT ![p] = <<>>]
      /\ shows' = [shows EXCEPT ![p] = 0] /\ since' = [since EXCEPT ![p] = 0]
      /\ UNCHANGED <<up, clients, hub, lists, chatter, world, links, posted>>
  BY DEF Leave, Inv
<1>2. conn'[p] = "gone" /\ \A q \in Pages \ {p} : conn'[q] = conn[q] /\ Same(q)
  BY <1>1 DEF TypeOK, Same, hub, links
<1>3. TypeOK'
  <2>1. conn' \in [Pages -> {"none", "open", "gone"}]  BY <1>1 DEF TypeOK
  <2>2. shows' \in [Pages -> Nat] /\ since' \in [Pages -> Nat]  BY <1>1 DEF TypeOK
  <2>3. inbox' \in [Pages -> Seq(Msg)] /\ seen' \in [Pages -> Seq(Nat)]
    <3>1. <<>> \in Seq(Msg) /\ <<>> \in Seq(Nat)  OBVIOUS
    <3>2. QED  BY <1>1, <3>1 DEF TypeOK
  <2>4. QED  BY <1>1, <2>1, <2>2, <2>3 DEF TypeOK, hub, lists, chatter, world, links
<1>4. HubOK'
  <2>1. ASSUME NEW q \in Pages
        PROVE  /\ conn'[q] = "open" => q \in clients'
               /\ conn'[q] = "none" =>
                     q \notin clients' /\ inbox'[q] = <<>> /\ seen'[q] = <<>> /\ shows'[q] = 0
               /\ conn'[q] = "open" =>
                     IF q \in todo' /\ IsChat(msg') THEN since'[q] < Len(posted')
                                                    ELSE since'[q] <= Len(posted')
    BY <1>1, <1>2 DEF HubOK, Same, hub
  <2>2. QED  BY <1>1, <2>1 DEF HubOK, hub
<1>5. PagesOK'
  <2> SUFFICES ASSUME NEW q \in Pages, conn'[q] = "open" PROVE Gets(q)'  BY DEF PagesOK
  <2>1. Same(q) /\ conn[q] = "open"  BY <1>2
  <2>2. QED  BY <1>1, <2>1, SameGets DEF PagesOK
<1>6. ListsOK'
  <2>1. Top' = Top  BY <1>1 DEF Top, IsChat, lists, hub
  <2>2. ASSUME NEW q \in Pages, conn'[q] = "open" PROVE Rising(shows[q], inbox[q], Top)'
    <3>1. Same(q) /\ Rising(shows[q], inbox[q], Top)  BY <1>1, <1>2, <2>2 DEF ListsOK
    <3>2. QED  BY <2>1, <3>1 DEF Same, Rising, ListAt, IsChat
  <2>3. QED  BY <1>1, <2>2 DEF ListsOK, lists, world, hub, IsChat
<1>7. ChatOK'  BY <1>1, ChatStill DEF world, Inv
<1>8. QED  BY <1>3, <1>4, <1>5, <1>6, <1>7 DEF Inv
\* What a page reads goes from its inbox to what it shows.
LEMMA ReadPageSafe == ASSUME Inv, NEW p \in Pages, ReadPage(p) PROVE Inv'
<1> DEFINE m == Head(inbox[p])
<1>1. /\ TypeOK /\ HubOK /\ PagesOK /\ ListsOK /\ conn[p] = "open" /\ inbox[p] # <<>>
      /\ inbox' = [inbox EXCEPT ![p] = Tail(inbox[p])]
      /\ shows' = [shows EXCEPT ![p] = IF IsChat(m) THEN shows[p] ELSE m.n]
      /\ seen' = [seen EXCEPT ![p] = IF IsChat(m) THEN Append(seen[p], m.n) ELSE seen[p]]
      /\ UNCHANGED <<up, conn, clients, since, hub, lists, chatter, world, links, posted>>
  <2>1. /\ TypeOK /\ HubOK /\ PagesOK /\ ListsOK /\ conn[p] = "open" /\ inbox[p] # <<>>
        /\ inbox' = [inbox EXCEPT ![p] = Tail(inbox[p])]
        /\ UNCHANGED <<up, conn, clients, since, hub, lists, chatter, world, links, posted>>
    BY DEF ReadPage, Inv
  <2>2. m \in Msg  BY <2>1, ChatTail DEF TypeOK
  <2>3. IF m.kind = "clientlist" THEN shows' = [shows EXCEPT ![p] = m.n] /\ UNCHANGED seen
        ELSE seen' = [seen EXCEPT ![p] = Append(@, m.n)] /\ UNCHANGED shows
    BY DEF ReadPage
  <2>4. IsChat(m) <=> m.kind # "clientlist"  BY <2>2 DEF Msg, IsChat
  <2>5. shows = [shows EXCEPT ![p] = shows[p]] /\ seen = [seen EXCEPT ![p] = seen[p]]
    BY <2>1 DEF TypeOK
  <2>6. QED  BY <2>1, <2>3, <2>4, <2>5
<1>2. inbox[p] \in Seq(Msg) /\ seen[p] \in Seq(Nat) /\ shows[p] \in Nat  BY <1>1 DEF TypeOK
<1>3. /\ m \in Msg /\ Tail(inbox[p]) \in Seq(Msg)
      /\ ChatIn(inbox[p]) = ChatIn(Tail(inbox[p])) \union IF IsChat(m) THEN {m.n} ELSE {}
  BY <1>1, <1>2, ChatTail
<1>4. m.n \in Nat  BY <1>3 DEF Msg
<1>5. /\ Append(seen[p], m.n) \in Seq(Nat)
      /\ ToSet(Append(seen[p], m.n)) = ToSet(seen[p]) \union {m.n}
  BY <1>2, <1>4, SetAppended
<1>6. /\ inbox'[p] = Tail(inbox[p])
      /\ shows'[p] = IF IsChat(m) THEN shows[p] ELSE m.n
      /\ seen'[p] = IF IsChat(m) THEN Append(seen[p], m.n) ELSE seen[p]
      /\ \A q \in Pages \ {p} : Same(q)
  BY <1>1 DEF TypeOK, Same, hub, links
<1> HIDE DEF m
<1>7. TypeOK'
  <2>1. inbox' \in [Pages -> Seq(Msg)]  BY <1>1, <1>3 DEF TypeOK
  <2>2. shows' \in [Pages -> Nat]  BY <1>1, <1>2, <1>4 DEF TypeOK
  <2>3. seen' \in [Pages -> Seq(Nat)]  BY <1>1, <1>2, <1>5 DEF TypeOK
  <2>4. QED  BY <1>1, <2>1, <2>2, <2>3 DEF TypeOK, hub, lists, chatter, world, links
<1>8. HubOK'
  <2>1. ASSUME NEW q \in Pages
        PROVE  /\ conn'[q] = "open" => q \in clients'
               /\ conn'[q] = "none" =>
                     q \notin clients' /\ inbox'[q] = <<>> /\ seen'[q] = <<>> /\ shows'[q] = 0
               /\ conn'[q] = "open" =>
                     IF q \in todo' /\ IsChat(msg') THEN since'[q] < Len(posted')
                                                    ELSE since'[q] <= Len(posted')
    BY <1>1, <1>6 DEF HubOK, Same, hub
  <2>2. QED  BY <1>1, <2>1 DEF HubOK, hub
<1>9. PagesOK'
  <2> SUFFICES ASSUME NEW q \in Pages, conn'[q] = "open" PROVE Gets(q)'  BY DEF PagesOK
  <2>1. CASE q = p
    <3>1. Gets(p)  BY <1>1 DEF PagesOK
    <3>2. InOrder(seen'[p], inbox'[p])
      BY <1>1, <1>2, <1>6, <3>1, ReadInOrder DEF Gets, m
    <3>3. ToSet(seen'[p]) \union ChatIn(inbox'[p]) = ToSet(seen[p]) \union ChatIn(inbox[p])
      <4>1. CASE IsChat(m)  BY <1>3, <1>5, <1>6, <4>1
      <4>2. CASE ~IsChat(m)  BY <1>3, <1>6, <4>2
      <4>3. QED  BY <4>1, <4>2
    <3>4. Due(p)' = Due(p) /\ posted' = posted  BY <1>1 DEF Due, IsChat, hub
    <3>5. InOrder(seen[p], inbox[p])' <=> InOrder(seen'[p], inbox'[p])
      BY DEF InOrder, ChatAt, ChatIn
    <3>6. ChatIn(inbox[p])' = ChatIn(inbox'[p])  BY DEF ChatIn, ChatAt
    <3>7. QED  BY <2>1, <3>1, <3>2, <3>3, <3>4, <3>5, <3>6 DEF Gets
  <2>2. CASE q # p
    <3>1. Same(q) /\ conn[q] = "open"  BY <1>1, <1>6, <2>2
    <3>2. QED  BY <1>1, <3>1, SameGets DEF PagesOK
  <2>3. QED  BY <2>1, <2>2
<1>10. ListsOK'
  <2>1. Top' = Top  BY <1>1 DEF Top, IsChat, lists, hub
  <2>2. Top \in Nat  BY <1>1, TopIsNat
  <2>3. ASSUME NEW q \in Pages, conn'[q] = "open" PROVE Rising(shows'[q], inbox'[q], Top)
    <3>1. Rising(shows[q], inbox[q], Top)  BY <1>1, <2>3 DEF ListsOK
    <3>2. CASE q = p  BY <1>1, <1>2, <1>6, <2>2, <3>1, <3>2, ReadRising DEF m
    <3>3. CASE q # p  BY <1>6, <3>1, <3>3 DEF Same
    <3>4. QED  BY <3>2, <3>3
  <2>4. \A q \in Pages : conn'[q] = "open" => Rising(shows[q], inbox[q], Top)'
    BY <2>1, <2>3 DEF Rising, ListAt, IsChat
  <2>5. QED  BY <1>1, <2>4 DEF ListsOK, lists, world, hub, IsChat
<1>11. ChatOK'  BY <1>1, ChatStill DEF world, Inv
<1>12. QED  BY <1>7, <1>8, <1>9, <1>10, <1>11 DEF Inv

\* A list is handed to the broadcaster, for every page in the map.
LEMMA TakeListSafe == ASSUME Inv, TakeList PROVE Inv'
<1>1. /\ TypeOK /\ HubOK /\ PagesOK /\ ListsOK /\ msg = Nothing /\ todo = {} /\ todo' = clients
      /\ msg' = IF clients = {} THEN Nothing ELSE List(pairs)
      /\ lister' = "query"
      /\ UNCHANGED <<up, pages, pairs, chatter, world, links, posted>>
  BY DEF TakeList, Takes, Inv, HubOK
<1>2. List(pairs) \in Msg /\ List(pairs).n = pairs /\ ~IsChat(List(pairs))
  BY <1>1 DEF TypeOK, Msg, List, IsChat
<1>3. msg' = Nothing <=> todo' = {}
  BY <1>1, <1>2, NothingAssumption DEF Msg
<1>4. ~(msg' # Nothing /\ IsChat(msg'))  BY <1>1, <1>2
<1>5. \A p \in todo' : ~IsChat(msg')  BY <1>1, <1>2
<1>6. TypeOK'  BY <1>1, <1>2 DEF TypeOK, pages, chatter, world, links
<1>7. HubOK'
  <2>1. ASSUME NEW q \in Pages
        PROVE  /\ conn'[q] = "open" => q \in clients'
               /\ conn'[q] = "none" =>
                     q \notin clients' /\ inbox'[q] = <<>> /\ seen'[q] = <<>> /\ shows'[q] = 0
               /\ conn'[q] = "open" =>
                     IF q \in todo' /\ IsChat(msg') THEN since'[q] < Len(posted')
                                                    ELSE since'[q] <= Len(posted')
    BY <1>1, <1>5 DEF HubOK, pages
  <2>2. QED  BY <1>3, <1>4, <2>1 DEF HubOK
<1>8. PagesOK'
  <2> SUFFICES ASSUME NEW q \in Pages, conn'[q] = "open" PROVE Gets(q)'  BY DEF PagesOK
  <2>1. Gets(q)  BY <1>1 DEF PagesOK, pages
  <2>2. Due(q)' = Due(q)  BY <1>1, <1>5 DEF Due, pages
  <2>3. UNCHANGED <<inbox, seen, posted>>  BY <1>1 DEF pages
  <2>4. InOrder(seen[q], inbox[q])' <=> InOrder(seen[q], inbox[q])
    BY <2>3 DEF InOrder, ChatAt, ChatIn
  <2>5. ChatIn(inbox[q])' = ChatIn(inbox[q])  BY <2>3 DEF ChatIn, ChatAt
  <2>6. QED  BY <2>1, <2>2, <2>3, <2>4, <2>5 DEF Gets
<1>9. ListsOK'
  <2>1. Top = pairs /\ Top' = pairs  BY <1>1, <1>2 DEF Top
  <2>2. msg' # Nothing => msg'.n <= pairs'  BY <1>1, <1>2 DEF TypeOK
  <2>3. \A q \in Pages : conn'[q] = "open" => Rising(shows[q], inbox[q], Top)'
    BY <1>1, <2>1 DEF ListsOK, Rising, ListAt, IsChat, pages
  <2>4. QED  BY <1>1, <2>2, <2>3 DEF ListsOK, world
<1>10. ChatOK'  BY <1>1, ChatStill DEF world, Inv
<1>11. QED  BY <1>6, <1>7, <1>8, <1>9, <1>10 DEF Inv

\* A chat message is handed to the broadcaster: it is due to every page that is
\* there, and on its way to it.
LEMMA TakeChatSafe == ASSUME Inv, TakeChat PROVE Inv'
<1>1. /\ TypeOK /\ HubOK /\ PagesOK /\ ListsOK /\ ChatOK
      /\ msg = Nothing /\ todo = {} /\ todo' = clients
      /\ msg' = IF clients = {} THEN Nothing ELSE Chat(heard)
      /\ listener = "push" /\ listener' = "scan" /\ heard' = 0 /\ posted' = Append(posted, heard)
      /\ UNCHANGED <<up, pages, lists, events, lost, world, links>>
  BY DEF TakeChat, Takes, Inv, HubOK
<1>2. heard \in Nat /\ posted \in Seq(Nat) /\ Len(posted) \in Nat /\ events \in Seq(Nat)
  BY <1>1 DEF TypeOK
<1>3. Chat(heard) \in Msg /\ Chat(heard).n = heard /\ IsChat(Chat(heard))
  BY <1>2 DEF Msg, Chat, IsChat
<1> DEFINE new == Append(posted, heard)
<1>4. new \in Seq(Nat) /\ ToSet(new) = ToSet(posted) \union {heard}  BY <1>2, SetAppended
<1>5. /\ Len(new) = Len(posted) + 1 /\ new[Len(posted) + 1] = heard
      /\ \A i \in 1 .. Len(posted) : new[i] = posted[i]
  BY <1>2
<1>6. posted' = new  BY <1>1
<1> HIDE DEF new
<1>7. \A p \in todo' : IsChat(msg')  BY <1>1, <1>3
<1>8. TypeOK'
  <2>1. msg' \in Msg \union {Nothing} /\ todo' \subseteq clients'  BY <1>1, <1>3 DEF pages
  <2>2. QED  BY <1>1, <1>2, <1>4, <1>6, <2>1 DEF TypeOK, pages, lists, world, links
<1>9. HubOK'
  <2>1. msg' = Nothing <=> todo' = {}  BY <1>1, <1>3, NothingAssumption DEF Msg
  <2>2. msg' # Nothing => Len(posted') > 0 /\ msg'.n = posted'[Len(posted')]
    BY <1>1, <1>2, <1>3, <1>5, <1>6
  <2>3. ASSUME NEW q \in Pages
        PROVE  /\ conn'[q] = "open" => q \in clients'
               /\ conn'[q] = "none" =>
                     q \notin clients' /\ inbox'[q] = <<>> /\ seen'[q] = <<>> /\ shows'[q] = 0
               /\ conn'[q] = "open" =>
                     IF q \in todo' /\ IsChat(msg') THEN since'[q] < Len(posted')
                                                    ELSE since'[q] <= Len(posted')
    <3>1. conn'[q] = "open" => since[q] \in Nat /\ since[q] <= Len(posted)
      BY <1>1 DEF HubOK, TypeOK, pages
    <3>2. conn'[q] = "open" => since'[q] < Len(posted')
      BY <1>1, <1>2, <1>5, <1>6, <3>1 DEF pages
    <3>3. conn'[q] = "open" => q \in clients' /\ q \in todo'  BY <1>1 DEF HubOK, pages
    <3>4. QED  BY <1>1, <1>7, <3>2, <3>3 DEF HubOK, pages
  <2>4. QED  BY <2>1, <2>2, <2>3 DEF HubOK
<1>10. PagesOK'
  <2> SUFFICES ASSUME NEW q \in Pages, conn'[q] = "open" PROVE Gets(q)'  BY DEF PagesOK
  <2>1. Gets(q) /\ q \in todo' /\ since'[q] = since[q] /\ since[q] \in Nat
    BY <1>1 DEF PagesOK, HubOK, TypeOK, pages
  <2>2. Due(q) = since[q] + 1 .. Len(posted)  BY <1>1, <1>2 DEF Due
  <2>3. Due(q)' = since[q] + 1 .. Len(posted)
    BY <1>2, <1>5, <1>6, <1>7, <2>1 DEF Due
  <2>4. \A i \in Due(q) : posted'[i] = posted[i]  BY <1>2, <1>5, <1>6, <2>1, <2>2
  <2>5. {posted[i] : i \in Due(q)}' = {posted[i] : i \in Due(q)}  BY <2>2, <2>3, <2>4
  <2>6. UNCHANGED <<inbox, seen>>  BY <1>1 DEF pages
  <2>7. InOrder(seen[q], inbox[q])' <=> InOrder(seen[q], inbox[q])
    BY <2>6 DEF InOrder, ChatAt, ChatIn
  <2>8. ChatIn(inbox[q])' = ChatIn(inbox[q])  BY <2>6 DEF ChatIn, ChatAt
  <2>9. QED  BY <2>1, <2>5, <2>6, <2>7, <2>8 DEF Gets
<1>11. ListsOK'
  <2>1. Top = pairs /\ Top' = pairs  BY <1>1, <1>3 DEF Top, lists
  <2>2. ~(msg' # Nothing /\ ~IsChat(msg'))  BY <1>1, <1>3
  <2>3. \A q \in Pages : conn'[q] = "open" => Rising(shows[q], inbox[q], Top)'
    BY <1>1, <2>1 DEF ListsOK, Rising, ListAt, IsChat, pages
  <2>4. QED  BY <1>1, <2>2, <2>3 DEF ListsOK, world, lists
<1>12. ChatOK'
  <2>1. heard # 0 /\ \A i \in 1 .. Len(posted) : posted[i] < heard  BY <1>1 DEF ChatOK
  <2>2. \A i \in 1 .. Len(new) : i \in 1 .. Len(posted) \/ i = Len(posted) + 1  BY <1>2, <1>5
  <2>3. \A i, j \in 1 .. Len(new) : i < j => new[i] < new[j]
    <3> SUFFICES ASSUME NEW i \in 1 .. Len(new), NEW j \in 1 .. Len(new), i < j
                 PROVE  new[i] < new[j]
      OBVIOUS
    <3>1. i \in 1 .. Len(posted)  BY <1>2, <1>5
    <3>2. CASE j \in 1 .. Len(posted)  BY <1>1, <1>5, <3>1, <3>2 DEF ChatOK
    <3>3. CASE j = Len(posted) + 1  BY <1>5, <2>1, <3>1, <3>3
    <3>4. QED  BY <2>2, <3>2, <3>3
  <2>4. \A i \in 1 .. Len(new) : ~HoldsServerId(new[i])  BY <1>1, <1>5, <2>1, <2>2 DEF ChatOK
  <2>5. ASSUME NEW j \in 1 .. Len(events), events[j] # 0
        PROVE  0 < events[j] /\ \A i \in 1 .. Len(new) : new[i] < events[j]
    <3>1. events[j] \in Nat /\ heard < events[j] /\ \A i \in 1 .. Len(posted) : posted[i] < events[j]
      BY <1>1, <1>2, <2>5 DEF ChatOK
    <3>2. QED  BY <1>5, <2>2, <2>5, <3>1
  <2> DEFINE old == ToSet(posted) \union {heard} \union ToSet(events)
             all == ToSet(new) \union {0} \union ToSet(events)
  <2>6. Relayable(all) = ((1 .. chat) \ lost) \ Quotes /\ all \subseteq 0 .. chat
    <3>1. Relayable(old) = ((1 .. chat) \ lost) \ Quotes /\ old \subseteq 0 .. chat /\ chat \in Nat
      BY <1>1 DEF ChatOK, TypeOK
    <3>2. all = old \union {0} /\ 0 \in 0 .. chat  BY <1>4, <3>1
    <3> HIDE DEF old, all
    <3>3. Relayable(all) = Relayable(old)  BY <3>2 DEF Relayable, HoldsServerId
    <3>4. QED  BY <3>1, <3>2, <3>3
  <2>7. UNCHANGED <<events, lost, chat>>  BY <1>1 DEF world
  <2>8. Relayable(ToSet(posted) \union {heard} \union ToSet(events))' = Relayable(all)
    BY <1>1, <1>6, <2>7 DEF Relayable, HoldsServerId, ToSet
  <2>9. QED
    BY <1>1, <1>6, <2>3, <2>4, <2>5, <2>6, <2>7, <2>8 DEF ChatOK, HoldsServerId, ToSet
<1>13. QED  BY <1>8, <1>9, <1>10, <1>11, <1>12 DEF Inv
\* The broadcaster has done with p, for which nothing else changes but, maybe, its
\* inbox; msg goes with the last page.
LEMMA VisitsOthers ==
    ASSUME Inv, NEW p \in Pages, Visits(p)
    PROVE  /\ p \in todo /\ msg \in Msg /\ p \notin todo'
           /\ msg' = Nothing <=> todo' = {}
           /\ msg' \in {msg, Nothing}
           /\ \A q \in Pages \ {p} : (q \in todo' <=> q \in todo) /\ (q \in todo => msg' = msg)
           /\ Top \in Nat /\ Top' \in Nat /\ Top <= Top'
           /\ msg' # Nothing /\ IsChat(msg') =>
                 Len(posted') > 0 /\ msg'.n = posted'[Len(posted')]
           /\ msg' # Nothing /\ ~IsChat(msg') => msg'.n <= pairs'
<1>1. /\ TypeOK /\ HubOK /\ ListsOK /\ p \in todo /\ todo' = todo \ {p}
      /\ msg' = IF todo = {p} THEN Nothing ELSE msg
      /\ UNCHANGED <<lister, pairs, posted>>
  BY DEF Inv, Visits, lists
<1>2. msg \in Msg /\ msg # Nothing  BY <1>1 DEF HubOK, TypeOK
<1>3. msg' = Nothing <=> todo' = {}  BY <1>1, <1>2
<1>4. \A q \in Pages \ {p} : (q \in todo' <=> q \in todo) /\ (q \in todo => msg' = msg)
  BY <1>1
<1>5. Top \in Nat /\ Top' \in Nat /\ Top <= Top'
  <2>1. msg.n \in Nat /\ pairs \in Nat  BY <1>1, <1>2 DEF TypeOK, Msg
  <2>2. CASE msg' = msg  BY <1>1, <2>1, <2>2 DEF Top, IsChat
  <2>3. CASE msg' = Nothing
    <3>1. Top' = pairs  BY <1>1, <2>3 DEF Top
    <3>2. Top \in Nat /\ Top <= pairs  BY <1>1, <1>2, <2>1 DEF Top, ListsOK
    <3>3. QED  BY <2>1, <3>1, <3>2
  <2>4. QED  BY <1>1, <2>2, <2>3
<1>6. QED  BY <1>1, <1>2, <1>3, <1>4, <1>5 DEF HubOK, ListsOK

\* What is being written comes last in the inbox of the page.
LEMMA WriteSafe == ASSUME Inv, NEW p \in Pages, Write(p) PROVE Inv'
<1>1. /\ TypeOK /\ HubOK /\ PagesOK /\ ListsOK /\ ChatOK /\ Visits(p) /\ conn[p] = "open"
      /\ inbox' = [inbox EXCEPT ![p] = Append(inbox[p], msg)]
      /\ UNCHANGED <<conn, clients, shows, seen, since>>
      /\ UNCHANGED <<up, lists, chatter, world, links, posted>>
      /\ todo' = todo \ {p}
  BY DEF Write, Visits, Inv
<1>2. /\ p \in todo /\ msg \in Msg /\ p \notin todo'
      /\ msg' = Nothing <=> todo' = {}
      /\ msg' \in {msg, Nothing}
      /\ \A q \in Pages \ {p} : (q \in todo' <=> q \in todo) /\ (q \in todo => msg' = msg)
      /\ Top \in Nat /\ Top' \in Nat /\ Top <= Top'
      /\ msg' # Nothing /\ IsChat(msg') => Len(posted') > 0 /\ msg'.n = posted'[Len(posted')]
      /\ msg' # Nothing /\ ~IsChat(msg') => msg'.n <= pairs'
  BY <1>1, VisitsOthers
<1>3. /\ inbox[p] \in Seq(Msg) /\ seen[p] \in Seq(Nat) /\ shows[p] \in Nat /\ since[p] \in Nat
      /\ posted \in Seq(Nat) /\ Len(posted) \in Nat
  BY <1>1 DEF TypeOK
<1>4. /\ Append(inbox[p], msg) \in Seq(Msg)
      /\ ChatIn(Append(inbox[p], msg)) = ChatIn(inbox[p]) \union IF IsChat(msg) THEN {msg.n} ELSE {}
  BY <1>2, <1>3, ChatAppended
<1>5. inbox'[p] = Append(inbox[p], msg) /\ \A q \in Pages \ {p} : Same(q)
  BY <1>1, <1>2 DEF TypeOK, Same
<1>6. TypeOK'
  <2>1. inbox' \in [Pages -> Seq(Msg)]  BY <1>1, <1>4 DEF TypeOK
  <2>2. msg' \in Msg \union {Nothing}  BY <1>2
  <2>3. QED  BY <1>1, <2>1, <2>2 DEF TypeOK, lists, chatter, world, links
<1>7. HubOK'
  <2>1. ASSUME NEW q \in Pages
        PROVE  /\ conn'[q] = "open" => q \in clients'
               /\ conn'[q] = "none" =>
                     q \notin clients' /\ inbox'[q] = <<>> /\ seen'[q] = <<>> /\ shows'[q] = 0
               /\ conn'[q] = "open" =>
                     IF q \in todo' /\ IsChat(msg') THEN since'[q] < Len(posted')
                                                    ELSE since'[q] <= Len(posted')
    <3>1. CASE q = p
      <4>1. since[p] <= Len(posted)  BY <1>1, <1>3 DEF HubOK
      <4>2. QED  BY <1>1, <1>2, <3>1, <4>1 DEF HubOK
    <3>2. CASE q # p
      <4>1. Same(q)  BY <1>5, <3>2
      <4>2. (q \in todo /\ IsChat(msg))' <=> (q \in todo /\ IsChat(msg))
        BY <4>1, SameGets, <1>1
      <4>3. QED  BY <1>1, <4>1, <4>2 DEF HubOK, Same
    <3>3. QED  BY <3>1, <3>2
  <2>2. QED  BY <1>2, <2>1 DEF HubOK
<1>8. PagesOK'
  <2> SUFFICES ASSUME NEW q \in Pages, conn'[q] = "open" PROVE Gets(q)'  BY DEF PagesOK
  <2>1. CASE q # p
    <3>1. Same(q) /\ conn[q] = "open"  BY <1>1, <1>5, <2>1
    <3>2. QED  BY <1>1, <3>1, SameGets DEF PagesOK
  <2>2. CASE q = p
    <3>1. Gets(p)  BY <1>1 DEF PagesOK
    <3>2. Due(p)' = since[p] + 1 .. Len(posted)  BY <1>1, <1>2, <1>3 DEF Due
    <3>3. Due(p) = since[p] + 1 .. Len(posted) - IF IsChat(msg) THEN 1 ELSE 0
      BY <1>2 DEF Due
    <3>4. IsChat(msg) => msg.n = posted[Len(posted)] /\ since[p] < Len(posted)
      <4>1. msg # Nothing  BY <1>1, <1>2 DEF HubOK
      <4>2. QED  BY <1>1, <1>2, <4>1 DEF HubOK
    <3>5. IsChat(msg) => Due(p)' = Due(p) \union {Len(posted)}
      BY <1>3, <3>2, <3>3, <3>4
    <3>6. {posted[i] : i \in Due(p)'} =
              {posted[i] : i \in Due(p)} \union IF IsChat(msg) THEN {msg.n} ELSE {}
      <4>1. CASE IsChat(msg)  BY <3>4, <3>5, <4>1
      <4>2. CASE ~IsChat(msg)  BY <1>3, <3>2, <3>3, <4>2
      <4>3. QED  BY <4>1, <4>2
    <3>7. ToSet(seen[p]) \union ChatIn(inbox[p]) = {posted[i] : i \in Due(p)}
      BY <3>1 DEF Gets
    <3>8. IsChat(msg) => \A x \in ToSet(seen[p]) \union ChatIn(inbox[p]) : x < msg.n
      <4> SUFFICES ASSUME IsChat(msg), NEW i \in Due(p) PROVE posted[i] < msg.n
        BY <3>7
      <4>1. i \in 1 .. Len(posted) /\ Len(posted) \in 1 .. Len(posted) /\ i < Len(posted)
        BY <1>3, <3>3, <3>4
      <4>2. QED  BY <1>1, <3>4, <4>1 DEF ChatOK
    <3>9. InOrder(seen[p], inbox'[p])
      BY <1>2, <1>3, <1>5, <3>1, <3>8, AppendInOrder DEF Gets
    <3>10. InOrder(seen[p], inbox[p])' <=> InOrder(seen[p], inbox'[p])
      BY <1>1 DEF InOrder, ChatAt, ChatIn
    <3>11. ChatIn(inbox[p])' = ChatIn(inbox'[p])  BY DEF ChatIn, ChatAt
    <3>12. {posted[i] : i \in Due(p)}' = {posted[i] : i \in Due(p)'}  BY <1>1
    <3>13. QED  BY <1>1, <1>4, <1>5, <2>2, <3>6, <3>7, <3>9, <3>10, <3>11, <3>12 DEF Gets
  <2>3. QED  BY <2>1, <2>2
<1>9. ListsOK'
  <2>1. ASSUME NEW q \in Pages, conn'[q] = "open" PROVE Rising(shows'[q], inbox'[q], Top')
    <3>1. conn[q] = "open" /\ Rising(shows[q], inbox[q], Top) /\ shows[q] \in Nat /\ inbox[q] \in Seq(Msg)
      BY <1>1, <2>1 DEF ListsOK, TypeOK
    <3>2. CASE q = p
      <4>1. ~IsChat(msg) => msg.n = Top  BY <1>1, <1>2 DEF Top, HubOK
      <4>2. Rising(shows[p], Append(inbox[p], msg), Top)
        BY <1>2, <1>3, <3>1, <3>2, <4>1, AppendRising
      <4>3. Rising(shows[p], Append(inbox[p], msg), Top')
        BY <1>2, <1>3, <1>4, <4>2, TopRises
      <4>4. QED  BY <1>1, <1>5, <3>2, <4>3
    <3>3. CASE q # p
      <4>1. Rising(shows[q], inbox[q], Top')  BY <1>2, <3>1, TopRises
      <4>2. QED  BY <1>5, <3>3, <4>1 DEF Same
    <3>4. QED  BY <3>2, <3>3
  <2>2. \A q \in Pages : conn'[q] = "open" => Rising(shows[q], inbox[q], Top)'
    BY <2>1 DEF Rising, ListAt, IsChat
  <2>3. pairs' <= room'  BY <1>1 DEF ListsOK, lists, world
  <2>4. QED  BY <1>2, <2>2, <2>3 DEF ListsOK
<1>10. ChatOK'  BY <1>1, ChatStill DEF world, Inv
<1>11. QED  BY <1>6, <1>7, <1>8, <1>9, <1>10 DEF Inv

\* Of a page that is gone nothing is asked.
LEMMA WriteFailsSafe == ASSUME Inv, NEW p \in Pages, WriteFails(p) PROVE Inv'
<1>1. /\ TypeOK /\ HubOK /\ PagesOK /\ ListsOK /\ ChatOK /\ Visits(p) /\ conn[p] = "gone"
      /\ clients' = clients \/ clients' = clients \ {p}
      /\ UNCHANGED <<conn, inbox, shows, seen, since>>
      /\ UNCHANGED <<up, lists, chatter, world, links, posted>>
      /\ todo' = todo \ {p}
  BY DEF WriteFails, Visits, Inv
<1>2. /\ msg \in Msg
      /\ msg' = Nothing <=> todo' = {}
      /\ msg' \in {msg, Nothing}
      /\ \A q \in Pages \ {p} : (q \in todo' <=> q \in todo) /\ (q \in todo => msg' = msg)
      /\ Top \in Nat /\ Top' \in Nat /\ Top <= Top'
      /\ msg' # Nothing /\ IsChat(msg') => Len(posted') > 0 /\ msg'.n = posted'[Len(posted')]
      /\ msg' # Nothing /\ ~IsChat(msg') => msg'.n <= pairs'
  BY <1>1, VisitsOthers
<1>3. \A q \in Pages \ {p} : Same(q)  BY <1>1, <1>2 DEF Same
<1>4. TypeOK'  BY <1>1, <1>2 DEF TypeOK, lists, chatter, world, links
<1>5. HubOK'
  <2>1. ASSUME NEW q \in Pages
        PROVE  /\ conn'[q] = "open" => q \in clients'
               /\ conn'[q] = "none" =>
                     q \notin clients' /\ inbox'[q] = <<>> /\ seen'[q] = <<>> /\ shows'[q] = 0
               /\ conn'[q] = "open" =>
                     IF q \in todo' /\ IsChat(msg') THEN since'[q] < Len(posted')
                                                    ELSE since'[q] <= Len(posted')
    <3>1. CASE q = p  BY <1>1, <3>1
    <3>2. CASE q # p
      <4>1. Same(q)  BY <1>3, <3>2
      <4>2. (q \in todo /\ IsChat(msg))' <=> (q \in todo /\ IsChat(msg))
        BY <4>1, SameGets, <1>1
      <4>3. QED  BY <1>1, <3>2, <4>1, <4>2 DEF HubOK, Same
    <3>3. QED  BY <3>1, <3>2
  <2>2. QED  BY <1>2, <2>1 DEF HubOK
<1>6. PagesOK'
  <2> SUFFICES ASSUME NEW q \in Pages, conn'[q] = "open" PROVE Gets(q)'  BY DEF PagesOK
  <2>1. Same(q) /\ conn[q] = "open"  BY <1>1, <1>3
  <2>2. QED  BY <1>1, <2>1, SameGets DEF PagesOK
<1>7. ListsOK'
  <2>1. ASSUME NEW q \in Pages, conn'[q] = "open" PROVE Rising(shows'[q], inbox'[q], Top')
    <3>1. Rising(shows[q], inbox[q], Top) /\ shows[q] \in Nat /\ inbox[q] \in Seq(Msg)
      BY <1>1, <2>1 DEF ListsOK, TypeOK
    <3>2. Rising(shows[q], inbox[q], Top')  BY <1>2, <3>1, TopRises
    <3>3. QED  BY <1>1, <3>2
  <2>2. \A q \in Pages : conn'[q] = "open" => Rising(shows[q], inbox[q], Top)'
    BY <2>1 DEF Rising, ListAt, IsChat
  <2>3. pairs' <= room'  BY <1>1 DEF ListsOK, lists, world
  <2>4. QED  BY <1>2, <2>2, <2>3 DEF ListsOK
<1>8. ChatOK'  BY <1>1, ChatStill DEF world, Inv
<1>9. QED  BY <1>4, <1>5, <1>6, <1>7, <1>8 DEF Inv

LEMMA Invariance == ASSUME Inv, [Next]_vars PROVE Inv'
<1>1. CASE Move \/ HangUp \/ Query \/ Reconnect \/ ListenerFatal
           \/ (\E p \in Pages : EnterFatal(p)) \/ UNCHANGED vars
  BY <1>1, OthersSafe
<1>2. CASE UserSays  BY <1>2, UserSaysSafe
<1>3. CASE Scan  BY <1>3, ScanSafe
<1>4. CASE TakeList  BY <1>4, TakeListSafe
<1>5. CASE TakeChat  BY <1>5, TakeChatSafe
<1>6. ASSUME NEW p \in Pages,
             Enter(p) \/ PageSays(p) \/ ReadPage(p) \/ Leave(p) \/ Write(p) \/ WriteFails(p)
      PROVE  Inv'
  BY <1>6, EnterSafe, PageSaysSafe, ReadPageSafe, LeaveSafe, WriteSafe, WriteFailsSafe
<1>7. QED  BY <1>1, <1>2, <1>3, <1>4, <1>5, <1>6 DEF Next, Broadcasts, Hears

LEMMA Invariant == Spec => []Inv
<1>1. QED  BY Starts, Invariance, PTL DEF Spec

----------------------------------------------------------------------------
(***************************************************************************)
(* What users see                                                          *)
(***************************************************************************)
\* A page has what was broadcast since it came, all of it, once and in order, but
\* for the one message that is on its way to it.
THEOREM EveryPageHasTheChat == Spec => []PagesMissNothing
<1>1. Inv => PagesMissNothing
  BY DEF Inv, PagesOK, PagesMissNothing, Gets, Due, InOrder, IsChat
<1>2. QED  BY <1>1, Invariant, PTL

LEMMA ConcatAt ==
    ASSUME NEW S, NEW s \in Seq(S), NEW t \in Seq(S)
    PROVE  /\ s \o t \in Seq(S) /\ Len(s \o t) = Len(s) + Len(t)
           /\ \A i \in 1 .. Len(s) : (s \o t)[i] = s[i]
           /\ \A i \in 1 .. Len(t) : (s \o t)[Len(s) + i] = t[i]
<1>1. Len(s) \in Nat /\ Len(t) \in Nat  OBVIOUS
<1>2. s \o t \in Seq(S) /\ Len(s \o t) = Len(s) + Len(t)  BY ConcatProperties
<1>3. ASSUME NEW i \in 1 .. Len(s) PROVE (s \o t)[i] = s[i]
  BY <1>1, ConcatProperties
<1>4. ASSUME NEW i \in 1 .. Len(t) PROVE (s \o t)[Len(s) + i] = t[i]
  <2> DEFINE k == Len(s) + i
  <2>1. k \in 1 .. Len(s) + Len(t) /\ ~(k <= Len(s)) /\ k - Len(s) = i  BY <1>1
  <2> HIDE DEF k
  <2>2. (s \o t)[k] = t[k - Len(s)]  BY <2>1, ConcatProperties
  <2>3. QED  BY <2>1, <2>2 DEF k
<1>5. QED  BY <1>2, <1>3, <1>4

\* What users say is broadcast once and in order, or is on its way, unless the
\* listener was not registered or the line holds "invokerid=0"; what pages say does
\* not come back.
THEOREM TheChatIsRelayed == Spec => []ChatIsRelayed
<1>1. Inv => ChatIsRelayed
  <2> SUFFICES ASSUME Inv PROVE ChatIsRelayed  OBVIOUS
  <2>1. /\ ChatOK /\ listener \in {"scan", "push"} /\ heard \in Nat
        /\ events \in Seq(Nat) /\ posted \in Seq(Nat)
    BY DEF Inv, TypeOK
  <2> DEFINE mid == IF listener = "push" THEN <<heard>> ELSE <<>>
             a == Len(posted)  b == Len(mid)  c == Len(events)
  <2>2. /\ mid \in Seq(Nat) /\ b \in {0, 1}
        /\ b = 1 <=> heard # 0
        /\ b = 1 => mid[1] = heard
    <3>1. CASE listener = "push"  BY <2>1, <3>1 DEF ChatOK
    <3>2. CASE listener = "scan"  BY <2>1, <3>2 DEF ChatOK
    <3>3. QED  BY <2>1, <3>1, <3>2
  \* The three parts of what the listener was told.
  <2>3. /\ Told \in Seq(Nat) /\ Len(Told) = a + b + c
        /\ \A i \in 1 .. a : Told[i] = posted[i]
        /\ b = 1 => Told[a + 1] = heard
        /\ \A i \in 1 .. c : Told[a + b + i] = events[i]
    <3> HIDE DEF mid
    <3> DEFINE early == posted \o mid
    <3>1. /\ early \in Seq(Nat) /\ Len(early) = a + b
          /\ \A i \in 1 .. a : early[i] = posted[i]
          /\ \A i \in 1 .. b : early[a + i] = mid[i]
      BY <2>1, <2>2, ConcatAt
    <3>2. Told = early \o events  BY DEF Told, mid
    <3> HIDE DEF early
    <3>3. /\ Told \in Seq(Nat) /\ Len(Told) = Len(early) + c
          /\ \A i \in 1 .. Len(early) : Told[i] = early[i]
          /\ \A i \in 1 .. c : Told[Len(early) + i] = events[i]
      <4>1. early \in Seq(Nat)  BY <3>1
      <4>2. events \in Seq(Nat)  BY <2>1
      <4> HIDE DEF a, b
      <4>3. QED  BY ONLY <3>2, <4>1, <4>2, ConcatAt
    <3>4. a \in Nat /\ b \in Nat /\ c \in Nat  BY <2>1, <2>2
    <3> HIDE DEF a, b, c
    <3>5. \A i \in 1 .. a : Told[i] = posted[i]  BY <3>1, <3>3, <3>4
    <3>6. b = 1 => Told[a + 1] = heard
      <4> SUFFICES ASSUME b = 1 PROVE Told[a + 1] = heard  OBVIOUS
      <4>1. 1 \in 1 .. b /\ a + 1 \in 1 .. a + b  BY <3>4
      <4>2. QED  BY <2>2, <3>1, <3>3, <4>1
    <3>7. QED  BY <3>1, <3>3, <3>5, <3>6
  <2>4. a \in Nat /\ c \in Nat  BY <2>1
  <2> HIDE DEF mid, a, b, c
  <2>5. ASSUME NEW i \in 1 .. Len(Told)
        PROVE  \/ i \in 1 .. a /\ Told[i] = posted[i]
               \/ i = a + 1 /\ heard # 0 /\ b = 1 /\ Told[i] = heard
               \/ i - (a + b) \in 1 .. c /\ Told[i] = events[i - (a + b)]
    <3>1. CASE i <= a  BY <2>3, <2>4, <3>1
    <3>2. CASE a < i /\ i <= a + b
      <4>1. i = a + 1 /\ b = 1  BY <2>2, <2>3, <2>4, <3>2
      <4>2. QED  BY <2>2, <2>3, <4>1
    <3>3. CASE a + b < i
      <4> DEFINE k == i - (a + b)
      <4>1. k \in 1 .. c /\ a + b + k = i  BY <2>2, <2>3, <2>4, <3>3
      <4> HIDE DEF k
      <4>2. Told[i] = events[k]  BY <2>3, <4>1
      <4>3. QED  BY <4>1, <4>2 DEF k
    <3>4. QED  BY <2>2, <2>4, <3>1, <3>2, <3>3
  <2>6. ASSUME NEW i \in 1 .. Len(Told), NEW j \in 1 .. Len(Told), i < j, Told[j] # 0
        PROVE  Told[i] < Told[j]
    <3>1. CASE j \in 1 .. a /\ Told[j] = posted[j]
      <4>1. i \in 1 .. a /\ Told[i] = posted[i]  BY <2>3, <2>4, <2>6, <3>1
      <4>2. QED  BY <2>1, <2>6, <3>1, <4>1 DEF ChatOK, a
    <3>2. CASE j = a + 1 /\ heard # 0 /\ b = 1 /\ Told[j] = heard
      <4>1. i \in 1 .. a /\ Told[i] = posted[i]  BY <2>3, <2>4, <2>6, <3>2
      <4>2. QED  BY <2>1, <3>2, <4>1 DEF ChatOK, a
    <3>3. CASE j - (a + b) \in 1 .. c /\ Told[j] = events[j - (a + b)]
      <4>1. /\ heard < Told[j] /\ \A k \in 1 .. a : posted[k] < Told[j]
            /\ \A k \in 1 .. c : k < j - (a + b) => events[k] < Told[j]
        BY <2>1, <2>6, <3>3 DEF ChatOK, a, c
      <4>2. i - (a + b) < j - (a + b)  BY <2>2, <2>3, <2>4, <2>6
      <4>3. QED  BY <2>5, <4>1, <4>2
    <3>4. QED  BY <2>5, <3>1, <3>2, <3>3
  <2>7. ToSet(Told) \ {0} = (ToSet(posted) \union {heard} \union ToSet(events)) \ {0}
    <3>1. /\ DOMAIN Told = 1 .. a + b + c /\ DOMAIN posted = 1 .. a /\ DOMAIN events = 1 .. c
      BY <2>1, <2>3 DEF a, c
    <3>2. ASSUME NEW x \in ToSet(Told), x # 0
          PROVE  x \in ToSet(posted) \union {heard} \union ToSet(events)
      <4>1. PICK i \in 1 .. Len(Told) : x = Told[i]  BY <2>3, <3>1 DEF ToSet
      <4>2. QED  BY <2>5, <3>1, <4>1 DEF ToSet
    <3>3. ASSUME NEW i \in 1 .. a PROVE posted[i] \in ToSet(Told)
      <4>1. i \in 1 .. a + b + c /\ Told[i] = posted[i]  BY <2>2, <2>3, <2>4
      <4>2. QED  BY <3>1, <4>1 DEF ToSet
    <3>4. ASSUME NEW i \in 1 .. c PROVE events[i] \in ToSet(Told)
      <4>1. a + b + i \in 1 .. a + b + c /\ Told[a + b + i] = events[i]  BY <2>2, <2>3, <2>4
      <4>2. QED  BY <3>1, <4>1 DEF ToSet
    <3>5. heard # 0 => heard \in ToSet(Told)
      <4>1. heard # 0 => a + 1 \in 1 .. a + b + c /\ Told[a + 1] = heard  BY <2>2, <2>3, <2>4
      <4>2. QED  BY <3>1, <4>1 DEF ToSet
    <3>6. \A x \in ToSet(posted) : x \in ToSet(Told)  BY <3>1, <3>3 DEF ToSet
    <3>7. \A x \in ToSet(events) : x \in ToSet(Told)  BY <3>1, <3>4 DEF ToSet
    <3>8. QED  BY <3>2, <3>5, <3>6, <3>7
  <2>8. \A n \in ToSet(posted) : ~HoldsServerId(n)
    <3>1. DOMAIN posted = 1 .. Len(posted)  BY <2>1
    <3>2. QED  BY <2>1, <3>1 DEF ChatOK, ToSet
  <2>9. {n \in ToSet(Told) : ~HoldsServerId(n)} = ((1 .. chat) \ lost) \ Quotes
    <3> DEFINE all == ToSet(posted) \union {heard} \union ToSet(events)
    <3>1. Relayable(all) = ((1 .. chat) \ lost) \ Quotes  BY <2>1 DEF ChatOK
    <3> HIDE DEF all
    <3>2. HoldsServerId(0)  BY DEF HoldsServerId
    <3>3. \A n : ~HoldsServerId(n) => (n \in ToSet(Told) <=> n \in all)  BY <2>7, <3>2 DEF all
    <3>4. QED  BY <3>1, <3>3 DEF Relayable
  <2>10. QED  BY <2>6, <2>8, <2>9 DEF ChatIsRelayed
<1>2. QED  BY <1>1, Invariant, PTL

\* No page goes back to an older list.
THEOREM NoOlderList == Spec => ListsGoForward
<1>1. ASSUME Inv, Inv', [Next]_vars, NEW p \in Pages, conn'[p] = "open"
      PROVE  shows'[p] >= shows[p]
  <2>1. TypeOK /\ TypeOK' /\ HubOK /\ ListsOK  BY <1>1 DEF Inv
  <2>2. shows[p] \in Nat /\ inbox[p] \in Seq(Msg) /\ Top \in Nat  BY <2>1, TopIsNat DEF TypeOK
  <2>3. CASE ReadPage(p)
    <3>1. inbox[p] # <<>> /\ conn[p] = "open"  BY <2>3 DEF ReadPage
    <3>2. Head(inbox[p]) \in Msg  BY <2>2, <3>1, ChatTail
    <3>3. ~IsChat(Head(inbox[p])) => shows[p] <= Head(inbox[p]).n
      BY <1>1, <2>1, <2>2, <3>1, ReadRising DEF ListsOK
    <3>4. shows'[p] = shows[p] \/ (~IsChat(Head(inbox[p])) /\ shows'[p] = Head(inbox[p]).n)
      BY <2>1, <2>3 DEF ReadPage, TypeOK, IsChat
    <3>5. Head(inbox[p]).n \in Nat  BY <3>2 DEF Msg
    <3>6. QED  BY <2>2, <3>3, <3>4, <3>5
  <2>4. CASE Leave(p)  BY <1>1, <2>1, <2>4 DEF Leave, TypeOK
  <2>5. CASE \E q \in Pages \ {p} : ReadPage(q) \/ Leave(q)
    <3>1. shows'[p] = shows[p]  BY <2>1, <2>5 DEF ReadPage, Leave, TypeOK
    <3>2. QED  BY <2>2, <3>1
  <2>6. CASE UNCHANGED shows  BY <2>2, <2>6
  <2>7. QED
    <3>1. [Next]_vars => UNCHANGED shows \/ \E q \in Pages : ReadPage(q) \/ Leave(q)
      BY DEF Next, vars, pages, Move, UserSays, HangUp, Enter, EnterFatal, PageSays, Broadcasts, TakeList,
             TakeChat, Write, WriteFails, Query, Asked, Hears, Scan, Reconnect, Listens, ListenerFatal
    <3>2. QED  BY <1>1, <2>3, <2>4, <2>5, <2>6, <3>1
<1>2. Inv /\ Inv' /\ [Next]_vars => [\A p \in Pages : conn'[p] = "open" => shows'[p] >= shows[p]]_vars
  BY <1>1
<1>3. QED  BY <1>2, Invariant, PTL DEF Spec, ListsGoForward
=============================================================================

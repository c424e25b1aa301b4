----------------------------- MODULE ListProofs -----------------------------
(***************************************************************************)
(* Proofs about List, for any heads and entries: whatever functions are    *)
(* called, the pointers of the nodes in lists form rings, no ring has two  *)
(* heads, and a safe iteration stays in its list; the pointers implement   *)
(* Rows, the predicates tell the rows, and a safe iteration visits all.    *)
(***************************************************************************)
EXTENDS List, FiniteSetTheorems, SequenceTheorems, TLAPS

\* Along each ring numbers grow from the head on and the owner is the head.
Ordered(m, on, rank, owner) ==
    /\ rank \in [Nodes -> Nat] /\ owner \in [Nodes -> Nodes]
    /\ \A h \in Heads : owner[h] = h
    /\ \A n \in on :
          /\ owner[m.next[n]] = owner[n]
          /\ m.next[n] \notin Heads => rank[m.next[n]] > rank[n]

Ringed(m, on) ==
    /\ m \in Memories /\ Heads \subseteq on /\ on \subseteq Nodes
    /\ \A n \in on :
          /\ m.next[n] \in on /\ m.prev[m.next[n]] = n
          /\ m.prev[n] \in on /\ m.next[m.prev[n]] = n

Good(m, on) == Ringed(m, on) /\ \E rank, owner : Ordered(m, on, rank, owner)

\* What Connect writes.
LEMMA Connected ==
    ASSUME NEW m \in Memories, NEW a \in Nodes, NEW b \in Nodes
    PROVE  /\ Connect(m, a, b) \in Memories
           /\ Connect(m, a, b).next = [m.next EXCEPT ![a] = b]
           /\ Connect(m, a, b).prev = [m.prev EXCEPT ![b] = a]
  BY DEF Connect, Memories

\* Taking an entry out keeps the numbers and owners of the others.
LEMMA DelKeeps ==
    ASSUME NEW m, NEW on, Ringed(m, on), NEW n \in on \ Heads, NEW rank, NEW owner,
           Ordered(m, on, rank, owner)
    PROVE  Ringed(del(m, n), on \ {n}) /\ Ordered(del(m, n), on \ {n}, rank, owner)
<1> DEFINE p == m.prev[n]  x == m.next[n]  d == del(m, n)
<1>1. p \in on /\ x \in on /\ p # n /\ x # n /\ p \in Nodes /\ x \in Nodes /\ n \in Nodes
  BY DEF Ringed, Ordered
<1>2. d \in Memories /\ d.next = [m.next EXCEPT ![p] = x] /\ d.prev = [m.prev EXCEPT ![x] = p]
  <2>1. m \in Memories /\ d = Connect(m, p, x)  BY DEF del, Ringed
  <2> HIDE DEF d, p, x
  <2>2. QED  BY <1>1, <2>1, Connected
<1>3. m.next \in [Nodes -> Nodes \union {Null}] /\ m.prev \in [Nodes -> Nodes \union {Null}]
  BY DEF Ringed, Memories
<1> HIDE DEF d
<1>4. Ringed(d, on \ {n})
  BY <1>1, <1>2, <1>3 DEF Ringed
<1>5. Ordered(d, on \ {n}, rank, owner)
  BY <1>1, <1>2, <1>3 DEF Ringed, Ordered
<1>6. QED  BY <1>4, <1>5 DEF d

LEMMA DelGood ==
    ASSUME NEW m, NEW on, Good(m, on), NEW n \in on \ Heads
    PROVE  Good(del(m, n), on \ {n})
  BY DelKeeps DEF Good

\* What a node outside the lists points to does not matter.
LEMMA InitKeeps ==
    ASSUME NEW m, NEW on, Ringed(m, on), NEW n \in Nodes \ on, NEW rank, NEW owner,
           Ordered(m, on, rank, owner)
    PROVE  /\ Ringed(init_list_node(m, n), on)
           /\ Ordered(init_list_node(m, n), on, rank, owner)
<1>1. m \in Memories /\ m.next \in [Nodes -> Nodes \union {Null}]
                     /\ m.prev \in [Nodes -> Nodes \union {Null}]
  BY DEF Ringed, Memories
<1> DEFINE d == init_list_node(m, n)
<1>2. d \in Memories /\ d.next = [m.next EXCEPT ![n] = n] /\ d.prev = [m.prev EXCEPT ![n] = n]
  BY <1>1, Connected DEF init_list_node
<1> HIDE DEF d
<1>3. Ringed(d, on) /\ Ordered(d, on, rank, owner)
  BY <1>1, <1>2 DEF Ringed, Ordered
<1>4. QED  BY <1>3 DEF d

\* The numbers are doubled to make room for the new entry's.
LEMMA AddGood ==
    ASSUME NEW m, NEW on, Good(m, on), NEW new \in Entries \ on, NEW cur \in on
    PROVE  Good(add_post(m, new, cur), on \union {new})
<1> USE ListAssumption
<1> DEFINE x == m.next[cur]
           half == Connect(m, new, x)
           d == add_post(m, new, cur)
<1>1. m \in Memories /\ m.next \in [Nodes -> Nodes \union {Null}]
                     /\ m.prev \in [Nodes -> Nodes \union {Null}]
  BY DEF Good, Ringed, Memories
<1>2. x \in on /\ m.prev[x] = cur /\ x \in Nodes /\ cur \in Nodes /\ new \in Nodes /\ new \notin Heads
  BY DEF Good, Ringed, Nodes
<1>3. half \in Memories /\ half.next = [m.next EXCEPT ![new] = x]
                        /\ half.prev = [m.prev EXCEPT ![x] = new]
  BY <1>1, <1>2, Connected
<1>4. d \in Memories /\ d.next = [half.next EXCEPT ![cur] = new]
                     /\ d.prev = [half.prev EXCEPT ![new] = cur]
  <2>1. d = Connect(half, cur, new)  BY DEF add_post
  <2>2. half \in Memories /\ cur \in Nodes /\ new \in Nodes  BY <1>2, <1>3
  <2> HIDE DEF d, half, x
  <2>3. QED  BY ONLY <2>1, <2>2, Connected
<1> HIDE DEF d, half
<1>5. Ringed(d, on \union {new})
  BY <1>1, <1>2, <1>3, <1>4 DEF Good, Ringed
<1>6. PICK rank, owner : Ordered(m, on, rank, owner)
  BY DEF Good
<1> DEFINE rank2 == [n \in Nodes |-> IF n = new THEN 2 * rank[cur] + 1 ELSE 2 * rank[n]]
           owner2 == [owner EXCEPT ![new] = owner[cur]]
<1>7. rank2 \in [Nodes -> Nat] /\ owner2 \in [Nodes -> Nodes]
  BY <1>2, <1>6 DEF Ordered
<1>8. \A h \in Heads : owner2[h] = h
  BY <1>2, <1>6 DEF Ordered, Nodes
<1>9. ASSUME NEW n \in on \union {new}
      PROVE  /\ owner2[d.next[n]] = owner2[n]
             /\ d.next[n] \notin Heads => rank2[d.next[n]] > rank2[n]
  <2>1. on \subseteq Nodes /\ n \in Nodes /\ rank \in [Nodes -> Nat]
    BY <1>2, <1>6 DEF Good, Ringed, Ordered
  <2>2. CASE n = new
    <3>1. d.next[n] = x /\ x # new  BY <2>2, <1>1, <1>2, <1>3, <1>4
    <3>2. owner[x] = owner[cur] /\ (x \notin Heads => rank[x] > rank[cur])
      BY <1>6, <1>2 DEF Ordered
    <3>3. QED  BY <2>1, <2>2, <3>1, <3>2, <1>2, <1>6 DEF Ordered
  <2>3. CASE n = cur /\ n # new
    <3>1. d.next[n] = new  BY <2>3, <1>1, <1>2, <1>3, <1>4
    <3>2. QED  BY <2>1, <2>3, <3>1, <1>2, <1>6 DEF Ordered
  <2>4. CASE n # cur /\ n # new
    <3>1. d.next[n] = m.next[n]  BY <2>1, <2>4, <1>1, <1>2, <1>3, <1>4
    <3>2. n \in on /\ m.next[n] \in on /\ m.next[n] # new /\ m.next[n] \in Nodes
      BY <2>4, <2>1 DEF Good, Ringed
    <3>3. owner[m.next[n]] = owner[n] /\ (m.next[n] \notin Heads => rank[m.next[n]] > rank[n])
      BY <3>2, <1>6 DEF Ordered
    <3>4. QED  BY <2>1, <2>4, <3>1, <3>2, <3>3, <1>6 DEF Ordered
  <2>5. QED  BY <2>2, <2>3, <2>4
<1>10. Ordered(d, on \union {new}, rank2, owner2)
  BY <1>7, <1>8, <1>9 DEF Ordered
<1>11. QED  BY <1>5, <1>10 DEF Good, d

\* Two memories with the same pointers are the same.
LEMMA SameMemory ==
    ASSUME NEW m \in Memories, NEW o \in Memories, m.next = o.next, m.prev = o.prev
    PROVE  m = o
  BY DEF Memories

\* Adding before a node is adding after the one before it.
LEMMA PrevIsPost ==
    ASSUME NEW m, NEW on, Good(m, on), NEW new \in Entries \ on, NEW cur \in on
    PROVE  m.prev[cur] \in on /\ add_prev(m, new, cur) = add_post(m, new, m.prev[cur])
<1> DEFINE p == m.prev[cur]
           a == Connect(m, p, new)  b == Connect(m, new, cur)
           pre == Connect(a, new, cur)  post == Connect(b, p, new)
<1>1. /\ m \in Memories /\ p \in on /\ m.next[p] = cur /\ on \subseteq Nodes
      /\ p \in Nodes /\ cur \in Nodes /\ new \in Nodes /\ p # new /\ cur # new
      /\ m.next \in [Nodes -> Nodes \union {Null}] /\ m.prev \in [Nodes -> Nodes \union {Null}]
  BY DEF Good, Ringed, Nodes, Memories
<1>2. add_prev(m, new, cur) = pre /\ add_post(m, new, p) = post
  BY <1>1 DEF add_prev, add_post
<1> HIDE DEF p
<1>3. a = Connect(m, p, new) /\ b = Connect(m, new, cur)
  OBVIOUS
<1>4. pre = Connect(a, new, cur) /\ post = Connect(b, p, new)
  OBVIOUS
<1> HIDE DEF a, b, pre, post
<1>5. a \in Memories /\ a.next = [m.next EXCEPT ![p] = new] /\ a.prev = [m.prev EXCEPT ![new] = p]
  BY <1>1, <1>3, Connected
<1>6. b \in Memories /\ b.next = [m.next EXCEPT ![new] = cur] /\ b.prev = [m.prev EXCEPT ![cur] = new]
  BY <1>1, <1>3, Connected
<1>7. /\ pre \in Memories /\ pre.next = [a.next EXCEPT ![new] = cur]
      /\ pre.prev = [a.prev EXCEPT ![cur] = new]
  <2>1. a \in Memories /\ new \in Nodes /\ cur \in Nodes  BY <1>1, <1>5
  <2>2. QED  BY <2>1, <1>4, Connected
<1>8. /\ post \in Memories /\ post.next = [b.next EXCEPT ![p] = new]
      /\ post.prev = [b.prev EXCEPT ![new] = p]
  <2>1. b \in Memories /\ p \in Nodes /\ new \in Nodes  BY <1>1, <1>6
  <2>2. QED  BY <2>1, <1>4, Connected
<1>9. pre.next = post.next /\ pre.prev = post.prev
  BY <1>1, <1>5, <1>6, <1>7, <1>8
<1>10. pre = post  BY <1>7, <1>8, <1>9, SameMemory
<1>11. QED  BY <1>1, <1>2, <1>10 DEF p

\* The new entry takes the old one's place, number and owner.
LEMMA ReplaceGood ==
    ASSUME NEW m, NEW on, Good(m, on), NEW old \in on \ Heads, NEW new \in Entries \ on
    PROVE  Good(replace(m, old, new), (on \ {old}) \union {new})
<1> USE ListAssumption
<1> DEFINE x == m.next[old]  p == m.prev[old]
           half == Connect(m, new, x)
           d == replace(m, old, new)
           on2 == (on \ {old}) \union {new}
<1>1. /\ m \in Memories /\ m.next \in [Nodes -> Nodes \union {Null}]
      /\ m.prev \in [Nodes -> Nodes \union {Null}] /\ on \subseteq Nodes /\ Heads \subseteq on
  BY DEF Good, Ringed, Memories
<1>2. PICK rank, owner : Ordered(m, on, rank, owner)
  BY DEF Good
<1>3. x # old
  <2>1. owner[x] = owner[old] /\ (x \notin Heads => rank[x] > rank[old]) /\ rank[old] \in Nat
    BY <1>1, <1>2 DEF Ordered
  <2>2. QED  BY <2>1
<1>4. /\ x \in on /\ p \in on /\ m.prev[x] = old /\ m.next[p] = old /\ p # old
      /\ new \in Nodes /\ old \in Nodes /\ new \notin Heads /\ new # old /\ new # x /\ new # p
  BY <1>1, <1>3 DEF Good, Ringed, Nodes
<1> HIDE DEF x, p
<1>5. half = Connect(m, new, x)
  OBVIOUS
<1> HIDE DEF half
<1>6. half \in Memories /\ half.next = [m.next EXCEPT ![new] = x] /\ half.prev = [m.prev EXCEPT ![x] = new]
  BY <1>1, <1>4, <1>5, Connected
<1>7. half.prev[old] = p
  BY <1>1, <1>3, <1>4, <1>6 DEF p
<1>8. d = Connect(half, p, new)
  BY <1>5, <1>7 DEF replace, x
<1> HIDE DEF d
<1>9. d \in Memories /\ d.next = [half.next EXCEPT ![p] = new] /\ d.prev = [half.prev EXCEPT ![new] = p]
  <2>1. half \in Memories /\ p \in Nodes /\ new \in Nodes  BY <1>1, <1>4, <1>6
  <2>2. QED  BY <2>1, <1>8, Connected
<1>10. d.next[new] = x /\ d.next[p] = new /\ d.prev[x] = new /\ d.prev[new] = p
  BY <1>1, <1>4, <1>6, <1>9
<1>11. ASSUME NEW n \in on \ {old}
       PROVE  /\ n # p => d.next[n] = m.next[n] /\ m.next[n] \in on \ {old}
              /\ n # x => d.prev[n] = m.prev[n] /\ m.prev[n] \in on \ {old}
  <2>1. /\ m.next[n] \in on /\ m.prev[m.next[n]] = n
        /\ m.prev[n] \in on /\ m.next[m.prev[n]] = n /\ n \in Nodes /\ n # new
    BY <1>1 DEF Good, Ringed
  <2>2. (m.next[n] = old => n = p) /\ (m.prev[n] = old => n = x)
    BY <2>1 DEF p, x
  <2>3. QED  BY <1>1, <1>6, <1>9, <2>1, <2>2
<1>12. Ringed(d, on2)
  <2>1. Heads \subseteq on2 /\ on2 \subseteq Nodes  BY <1>1, <1>4
  <2>2. ASSUME NEW n \in on2
        PROVE  /\ d.next[n] \in on2 /\ d.prev[d.next[n]] = n
               /\ d.prev[n] \in on2 /\ d.next[d.prev[n]] = n
    <3>1. CASE n = new  BY <3>1, <1>4, <1>3, <1>10
    <3>2. CASE n # new
      <4>1. n \in on \ {old}  BY <3>2
      <4>2. /\ m.prev[m.next[n]] = n /\ m.next[m.prev[n]] = n
        BY <4>1 DEF Good, Ringed
      <4>3. d.next[n] \in on2 /\ d.prev[d.next[n]] = n
        <5>1. CASE n = p  BY <5>1, <1>10
        <5>2. CASE n # p
          <6>1. m.next[n] # x  BY <4>1, <4>2, <1>4
          <6>2. m.next[n] \in on \ {old} /\ d.next[n] = m.next[n]  BY <1>11, <4>1, <5>2
          <6>3. d.prev[m.next[n]] = m.prev[m.next[n]]  BY <1>11, <6>1, <6>2
          <6>4. QED  BY <6>2, <6>3, <4>2
        <5>3. QED  BY <5>1, <5>2
      <4>4. d.prev[n] \in on2 /\ d.next[d.prev[n]] = n
        <5>1. CASE n = x  BY <5>1, <1>10
        <5>2. CASE n # x
          <6>1. m.prev[n] # p  BY <4>1, <4>2, <1>4
          <6>2. m.prev[n] \in on \ {old} /\ d.prev[n] = m.prev[n]  BY <1>11, <4>1, <5>2
          <6>3. d.next[m.prev[n]] = m.next[m.prev[n]]  BY <1>11, <6>1, <6>2
          <6>4. QED  BY <6>2, <6>3, <4>2
        <5>3. QED  BY <5>1, <5>2
      <4>5. QED  BY <4>3, <4>4
    <3>3. QED  BY <3>1, <3>2
  <2>3. QED  BY <1>9, <2>1, <2>2 DEF Ringed
<1> DEFINE rank2 == [rank EXCEPT ![new] = rank[old]]
           owner2 == [owner EXCEPT ![new] = owner[old]]
<1>13. /\ rank2 \in [Nodes -> Nat] /\ owner2 \in [Nodes -> Nodes]
       /\ rank2[new] = rank[old] /\ owner2[new] = owner[old]
       /\ \A n \in Nodes \ {new} : rank2[n] = rank[n] /\ owner2[n] = owner[n]
  BY <1>2, <1>4 DEF Ordered
<1> HIDE DEF rank2, owner2
<1>14. \A h \in Heads : owner2[h] = h
  BY <1>1, <1>2, <1>4, <1>13 DEF Ordered
<1>15. ASSUME NEW n \in on2
       PROVE  /\ owner2[d.next[n]] = owner2[n]
              /\ d.next[n] \notin Heads => rank2[d.next[n]] > rank2[n]
  <2>1. \A k \in on : /\ owner[m.next[k]] = owner[k]
                      /\ m.next[k] \notin Heads => rank[m.next[k]] > rank[k]
    BY <1>2 DEF Ordered
  <2>2. CASE n = new
    BY <2>1, <2>2, <1>1, <1>4, <1>10, <1>13 DEF x
  <2>3. CASE n = p /\ n # new
    BY <2>1, <2>3, <1>1, <1>4, <1>10, <1>13
  <2>4. CASE n # p /\ n # new
    <3>1. n \in on \ {old} /\ d.next[n] = m.next[n] /\ m.next[n] \in on \ {old}
      BY <1>11, <2>4
    <3>2. n \in Nodes \ {new} /\ m.next[n] \in Nodes \ {new}  BY <3>1, <1>1
    <3>3. QED  BY <2>1, <3>1, <3>2, <1>13
  <2>5. QED  BY <2>2, <2>3, <2>4
<1>16. Ordered(d, on2, rank2, owner2)
  BY <1>13, <1>14, <1>15 DEF Ordered
<1>17. QED  BY <1>12, <1>16 DEF Good, d

\* An entry that is taken out goes anywhere in the lists.
LEMMA MoveGood ==
    ASSUME NEW m, NEW on, Good(m, on), NEW n \in on \ Heads, NEW to \in on \ {n}
    PROVE  Good(add_post(del(m, n), n, to), on)
<1>1. Good(del(m, n), on \ {n})  BY DelGood
<1>2. n \in Entries \ (on \ {n})  BY DEF Good, Ringed, Nodes
<1>3. Good(add_post(del(m, n), n, to), (on \ {n}) \union {n})
  BY <1>1, <1>2, AddGood
<1>4. (on \ {n}) \union {n} = on
  OBVIOUS
<1>5. QED  BY <1>3, <1>4

\* e takes the place of d, and d that of e, which is after e if they stood
\* next to each other.
LEMMA SwapGood ==
    ASSUME NEW m, NEW on, Good(m, on), NEW d \in on \ Heads, NEW e \in on \ Heads, d # e
    PROVE  Good(swap(m, d, e), on)
<1> DEFINE p == m.prev[e]
           to == IF p = d THEN e ELSE p
           on2 == ((on \ {e}) \ {d}) \union {e}
<1>1. p \in on /\ on \subseteq Nodes /\ m.next[p] = e
  BY DEF Good, Ringed
<1>2. Good(del(m, e), on \ {e})  BY DelGood
<1>3. d \in (on \ {e}) \ Heads /\ e \in Entries \ (on \ {e}) /\ d \in Entries \ on2
  BY <1>1 DEF Nodes
<1>4. Good(replace(del(m, e), d, e), on2)
  BY <1>2, <1>3, ReplaceGood
<1>5. to \in on2
  BY <1>1
<1>6. Good(add_post(replace(del(m, e), d, e), d, to), on2 \union {d})
  BY <1>3, <1>4, <1>5, AddGood
<1>7. on2 \union {d} = on
  OBVIOUS
<1>8. swap(m, d, e) = add_post(replace(del(m, e), d, e), d, to)
  BY DEF swap
<1>9. QED  BY <1>6, <1>7, <1>8

----------------------------------------------------------------------------
\* An iteration is at a node of its own list, and looks one node ahead.
Walks(owner) ==
    head # Null =>
        /\ head \in Heads /\ pos \in linked /\ owner[pos] = head
        /\ ahead = mem.next[pos]

IInv ==
    /\ Ringed(mem, linked)
    /\ \E rank, owner : Ordered(mem, linked, rank, owner) /\ Walks(owner)

\* An iteration is at a node of a list while it lasts, so that it never reads
\* through what it has taken out (list.h 252-256).
IterationInLists == head # Null => pos \in linked /\ ahead \in linked

LEMMA InitInv == Init => IInv
<1> SUFFICES ASSUME Init PROVE IInv
  OBVIOUS
<1> USE ListAssumption
<1>1. /\ mem \in Memories /\ linked = Heads /\ head = Null
      /\ \A h \in Heads : mem.next[h] = h /\ mem.prev[h] = h
  BY DEF Init, Memories, Nodes
<1>2. Ringed(mem, linked)  BY <1>1 DEF Ringed, Nodes
<1> DEFINE rank == [n \in Nodes |-> 0]  owner == [n \in Nodes |-> n]
<1>3. Ordered(mem, linked, rank, owner) /\ Walks(owner)
  BY <1>1 DEF Ordered, Walks, Nodes
<1>4. QED  BY <1>2, <1>3 DEF IInv

\* Outside an iteration only the rings count.
LEMMA IdleInv ==
    ASSUME Good(mem, linked)', head' = Null
    PROVE  IInv'
  BY DEF Good, IInv, Walks

LEMMA NextInv == IInv /\ [Next]_vars => IInv'
<1> SUFFICES ASSUME IInv, [Next]_vars PROVE IInv'
  OBVIOUS
<1> USE ListAssumption
<1>1. Good(mem, linked) /\ linked \subseteq Nodes /\ Heads \subseteq linked
  BY DEF IInv, Good, Ringed
<1>2. ASSUME NEW m \in Nodes, NEW n \in Nodes, list_add_post(m, n) PROVE IInv'
  <2>1. Good(add_post(mem, m, n), linked \union {m})
    BY <1>1, <1>2, AddGood DEF list_add_post, Out
  <2>2. Good(mem, linked)' /\ head' = Null
    BY <2>1, <1>2 DEF list_add_post, Idle, iteration, Good, Ringed, Ordered
  <2>3. QED  BY <2>2, IdleInv
<1>3. ASSUME NEW m \in Nodes, NEW n \in Nodes, list_add_prev(m, n) PROVE IInv'
  <2>1. m \in Entries \ linked /\ n \in linked  BY <1>3 DEF list_add_prev, Out
  <2>2. mem.prev[n] \in linked /\ add_prev(mem, m, n) = add_post(mem, m, mem.prev[n])
    BY <1>1, <2>1, PrevIsPost
  <2>3. Good(add_prev(mem, m, n), linked \union {m})
    BY <1>1, <2>1, <2>2, AddGood
  <2>4. Good(mem, linked)' /\ head' = Null
    BY <2>3, <1>3 DEF list_add_prev, Idle, iteration, Good, Ringed, Ordered
  <2>5. QED  BY <2>4, IdleInv
<1>4. ASSUME NEW m \in Nodes, NEW n \in Nodes, list_move(m, n) PROVE IInv'
  <2>1. Good(add_post(del(mem, m), m, n), linked)
    BY <1>1, <1>4, MoveGood DEF list_move, In
  <2>2. Good(mem, linked)' /\ head' = Null
    BY <2>1, <1>4 DEF list_move, Idle, iteration, Good, Ringed, Ordered
  <2>3. QED  BY <2>2, IdleInv
<1>5. ASSUME NEW m \in Nodes, NEW n \in Nodes, list_replace(m, n) PROVE IInv'
  <2>1. Good(replace(mem, m, n), (linked \ {m}) \union {n})
    BY <1>1, <1>5, ReplaceGood DEF list_replace, In, Out
  <2>2. Good(mem, linked)' /\ head' = Null
    BY <2>1, <1>5 DEF list_replace, Idle, iteration, Good, Ringed, Ordered
  <2>3. QED  BY <2>2, IdleInv
<1>6. ASSUME NEW m \in Nodes, NEW n \in Nodes, list_swap(m, n) PROVE IInv'
  <2>1. Good(swap(mem, m, n), linked)
    BY <1>1, <1>6, SwapGood DEF list_swap, In
  <2>2. Good(mem, linked)' /\ head' = Null
    BY <2>1, <1>6 DEF list_swap, Idle, iteration, Good, Ringed, Ordered
  <2>3. QED  BY <2>2, IdleInv
<1>7. ASSUME NEW n \in Nodes, list_del(n) PROVE IInv'
  <2>1. Good(del(mem, n), linked \ {n})
    BY <1>1, <1>7, DelGood DEF list_del, In
  <2>2. Good(mem, linked)' /\ head' = Null
    BY <2>1, <1>7 DEF list_del, Idle, iteration, Good, Ringed, Ordered
  <2>3. QED  BY <2>2, IdleInv
<1>8. ASSUME NEW n \in Nodes, list_del_init(n) PROVE IInv'
  <2>1. n \in linked \ Heads  BY <1>8 DEF list_del_init, In
  <2>2. Good(del(mem, n), linked \ {n}) /\ n \in Nodes \ (linked \ {n})
    BY <1>1, <2>1, DelGood
  <2>3. Good(init_list_node(del(mem, n), n), linked \ {n})
    BY <2>2, InitKeeps DEF Good
  <2>4. Good(mem, linked)' /\ head' = Null
    BY <2>3, <1>8 DEF list_del_init, Idle, iteration, Good, Ringed, Ordered
  <2>5. QED  BY <2>4, IdleInv
<1>9. PICK rank, owner : Ordered(mem, linked, rank, owner) /\ Walks(owner)
  BY DEF IInv
<1>10. ASSUME NEW h \in Heads, Begin(h) PROVE IInv'
  <2>1. h \in linked /\ mem.next[h] \in linked /\ owner[mem.next[h]] = h
    BY <1>1, <1>9 DEF Good, Ringed, Ordered
  <2>2. Ringed(mem, linked)' /\ Ordered(mem', linked', rank, owner) /\ Walks(owner)'
    BY <1>1, <1>9, <1>10, <2>1 DEF Begin, Good, Walks, Ringed
  <2>3. QED  BY <2>2 DEF IInv
<1>11. CASE Keep
  <2>1. /\ pos \in linked /\ ahead = mem.next[pos] /\ owner[pos] = head /\ head \in Heads
        /\ ahead \in linked /\ owner[ahead] = head
    BY <1>1, <1>9, <1>11 DEF Keep, Visits, Walks, Good, Ringed, Ordered
  <2>2. Ringed(mem, linked)' /\ Ordered(mem', linked', rank, owner) /\ Walks(owner)'
    BY <1>1, <1>9, <1>11, <2>1 DEF Keep, Visits, Advance, Good, Walks, Ringed
  <2>3. QED  BY <2>2 DEF IInv
<1>12. CASE Drop
  <2>1. /\ pos \in linked /\ ahead = mem.next[pos] /\ owner[pos] = head /\ head \in Heads
        /\ ahead \in linked /\ owner[ahead] = head /\ pos # head
    BY <1>1, <1>9, <1>12 DEF Drop, Visits, Walks, Good, Ringed, Ordered
  <2>2. pos \notin Heads  BY <2>1, <1>9 DEF Ordered
  <2>3. ahead # pos
    <3>1. /\ ahead \notin Heads => rank[ahead] > rank[pos]
          /\ rank[pos] \in Nat /\ rank[ahead] \in Nat
      BY <1>1, <1>9, <2>1 DEF Ordered
    <3>2. QED  BY <2>2, <3>1
  <2> DEFINE d == del(mem, pos)  o == init_list_node(d, pos)
  <2>4. Ringed(mem, linked) /\ pos \in linked \ Heads  BY <2>1, <2>2 DEF IInv
  <2>5. Ringed(d, linked \ {pos}) /\ Ordered(d, linked \ {pos}, rank, owner)
    BY <2>4, <1>9, DelKeeps
  <2>6. pos \in Nodes \ (linked \ {pos})  BY <1>1, <2>1
  <2> HIDE DEF d
  <2>7. Ringed(o, linked \ {pos}) /\ Ordered(o, linked \ {pos}, rank, owner)
    BY <2>5, <2>6, InitKeeps
  <2>8. mem' = o /\ linked' = linked \ {pos} /\ head' = head /\ pos' = ahead /\ ahead' = mem'.next[ahead]
    BY <1>12 DEF Drop, Visits, Advance, d
  <2> HIDE DEF o
  <2>9. Ringed(mem, linked)' /\ Ordered(mem', linked', rank, owner)
    BY <2>7, <2>8 DEF Ringed
  <2>10. Walks(owner)'
    BY <2>1, <2>3, <2>8 DEF Walks
  <2>11. QED  BY <2>9, <2>10 DEF IInv
<1>13. CASE End
  <2>1. Good(mem, linked)' /\ head' = Null
    BY <1>1, <1>13 DEF End, Good, Ringed, Ordered
  <2>2. QED  BY <2>1, IdleInv
<1>14. CASE UNCHANGED vars
  <2>1. Ringed(mem, linked)' /\ Ordered(mem', linked', rank, owner) /\ Walks(owner)'
    BY <1>1, <1>9, <1>14 DEF vars, Good, Walks, Ringed
  <2>2. QED  BY <2>1 DEF IInv
<1>15. QED
  BY <1>2, <1>3, <1>4, <1>5, <1>6, <1>7, <1>8, <1>10, <1>11, <1>12, <1>13, <1>14 DEF Next

\* Whatever functions are called, in any order, the nodes in lists form rings.
THEOREM RingsKept == Spec => []Rings
<1>1. IInv => Rings  BY DEF IInv, Ringed, Rings
<1>2. QED  BY <1>1, InitInv, NextInv, PTL DEF Spec

\* A safe iteration stays in its lists, whatever its body takes out.
THEOREM IterationStays == Spec => []IterationInLists
<1>1. IInv => IterationInLists  BY DEF IInv, Ringed, Walks, IterationInLists
<1>2. QED  BY <1>1, InitInv, NextInv, PTL DEF Spec

----------------------------------------------------------------------------
(***************************************************************************)
(* Rows.  Induction over the natural numbers comes from the library's      *)
(* theorem that finite sets are well founded under inclusion.              *)
(***************************************************************************)
LEMMA Naturally ==
    ASSUME NEW S, 0 \in S, \A n \in Nat : n \in S => n + 1 \in S
    PROVE  \A n \in Nat : n \in S
<1> SUFFICES ASSUME NEW bad \in Nat, bad \notin S PROVE FALSE
  OBVIOUS
<1> DEFINE T == {1 .. n : n \in Nat \ S}  R == StrictSubsetOrdering(Nat)
<1>1. T \subseteq FiniteSubsetsOf(Nat)
  <2> SUFFICES ASSUME NEW n \in Nat PROVE 1 .. n \in FiniteSubsetsOf(Nat)
    OBVIOUS
  <2>1. IsFiniteSet(1 .. n)  BY FS_Interval
  <2>2. QED  BY <2>1 DEF FiniteSubsetsOf
<1>2. 1 .. bad \in T  OBVIOUS
<1>3. IsWellFoundedOn(R, FiniteSubsetsOf(Nat))
  BY FS_StrictSubsetOrderingWellFounded
<1> HIDE DEF R
<1>4. PICK x \in T : \A y \in T : ~(<<y, x>> \in R)
  <2>1. T # {}  BY <1>2
  <2> HIDE DEF T
  <2>2. QED  BY <1>1, <1>3, <2>1, WFMin
<1>5. PICK n \in Nat \ S : x = 1 .. n
  OBVIOUS
<1>6. n # 0  OBVIOUS
<1>7. n - 1 \in Nat /\ (n - 1) + 1 = n  BY <1>6
<1>8. n - 1 \notin S  BY <1>7
<1>9. 1 .. (n - 1) \in T  BY <1>7, <1>8
<1>10. n \in 1 .. n /\ n \notin 1 .. (n - 1) /\ 1 .. (n - 1) \subseteq 1 .. n
  BY <1>6
<1>11. <<1 .. (n - 1), 1 .. n>> \in R
  BY <1>10 DEF R, StrictSubsetOrdering
<1>12. QED  BY <1>4, <1>5, <1>9, <1>11

\* The function by which Along follows the pointers.
Walk(ptr, h, n, at) == at = [k \in 0 .. n |-> IF k = 0 THEN h ELSE ptr[at[k - 1]]]

LEMMA Follow ==
    ASSUME NEW ptr, NEW h
    PROVE  \A n \in Nat : \E at : Walk(ptr, h, n, at)
<1> DEFINE S == {n \in Nat : \E at : Walk(ptr, h, n, at)}
<1>1. 0 \in S
  <2>1. Walk(ptr, h, 0, [k \in 0 .. 0 |-> h])  BY DEF Walk
  <2>2. QED  BY <2>1
<1>2. ASSUME NEW n \in Nat, n \in S PROVE n + 1 \in S
  <2>1. PICK at : Walk(ptr, h, n, at)  BY <1>2
  <2> DEFINE more == [k \in 0 .. n + 1 |-> IF k = n + 1 THEN ptr[at[n]] ELSE at[k]]
  <2>2. \A k \in 0 .. n + 1 : more[k] = IF k = 0 THEN h ELSE ptr[more[k - 1]]
    <3> SUFFICES ASSUME NEW k \in 0 .. n + 1
                 PROVE  more[k] = IF k = 0 THEN h ELSE ptr[more[k - 1]]
      OBVIOUS
    <3>1. CASE k = n + 1  BY <3>1
    <3>2. CASE k # n + 1
      <4>1. k \in 0 .. n  BY <3>2
      <4>2. at[k] = IF k = 0 THEN h ELSE ptr[at[k - 1]]  BY <2>1, <4>1 DEF Walk
      <4>3. k # 0 => k - 1 \in 0 .. n /\ k - 1 # n + 1 /\ k - 1 \in 0 .. n + 1  BY <4>1
      <4>4. QED  BY <3>2, <4>2, <4>3
    <3>3. QED  BY <3>1, <3>2
  <2>3. more = [k \in 0 .. n + 1 |-> more[k]]  OBVIOUS
  <2> HIDE DEF more
  <2>4. Walk(ptr, h, n + 1, more)  BY <2>2, <2>3 DEF Walk
  <2>5. QED  BY <2>4
<1> HIDE DEF S
<1>3. \A n \in Nat : n \in S  BY <1>1, <1>2, Naturally
<1>4. QED  BY <1>3 DEF S

\* Along, without the choice of that function.
Stations(ptr, h, n, at) ==
    at[0] = h /\ \A k \in 1 .. n + 1 : at[k] = ptr[at[k - 1]]
Backs(h, n, at) == {k \in 0 .. n : at[k + 1] = h}
Returns(h, n, at) == IF Backs(h, n, at) = {} THEN n ELSE Min(Backs(h, n, at))

LEMMA AlongIs ==
    ASSUME NEW ptr, NEW h, NEW n \in Nat, n = Cardinality(Entries)
    PROVE  \E at : /\ Stations(ptr, h, n, at)
                   /\ Along(ptr, h) = [k \in 1 .. Returns(h, n, at) |-> at[k]]
<1> DEFINE at == CHOOSE f : Walk(ptr, h, n + 1, f)
<1>1. Walk(ptr, h, n + 1, at)
  <2>1. n + 1 \in Nat  OBVIOUS
  <2>2. \E f : Walk(ptr, h, n + 1, f)  BY <2>1, Follow
  <2>3. QED  BY <2>2
<1>2. Along(ptr, h) = [k \in 1 .. Returns(h, n, at) |-> at[k]]
  BY DEF Along, Returns, Backs, Walk
<1> HIDE DEF at
<1>3. Stations(ptr, h, n, at)
  BY <1>1 DEF Stations, Walk
<1>4. QED  BY <1>2, <1>3

\* What stands at place i of h's row; before and after it stands h.
Spot(h, s, i) == IF i \in 1 .. Len(s) THEN s[i] ELSE h

\* The pointers lead from h along s and back to h.
Strings(ptr, h, s) == \A i \in 0 .. Len(s) : ptr[Spot(h, s, i)] = Spot(h, s, i + 1)

Apart(s) == \A i, j \in 1 .. Len(s) : s[i] = s[j] => i = j

LEMMA RowFits ==
    ASSUME NEW s \in Seq(Entries), Apart(s)
    PROVE  Cardinality(Entries) \in Nat /\ Len(s) <= Cardinality(Entries)
<1>1. IsFiniteSet(Entries)  BY EntriesAssumption
<1>2. Cardinality(Entries) \in Nat  BY <1>1, FS_CardinalityType
<1>3. s \in Injection(1 .. Len(s), Entries)
  BY DEF Apart, Injection, IsInjective
<1>4. Cardinality(1 .. Len(s)) <= Cardinality(Entries)
  BY <1>1, <1>3, FS_Injection
<1>5. Cardinality(1 .. Len(s)) = Len(s)
  <2>1. 1 \in Int /\ Len(s) \in Int /\ Len(s) >= 0  OBVIOUS
  <2>2. Cardinality(1 .. Len(s)) = IF 1 > Len(s) THEN 0 ELSE Len(s) - 1 + 1
    BY <2>1, FS_Interval
  <2>3. QED  BY <2>1, <2>2
<1>6. QED  BY <1>2, <1>4, <1>5

\* Who follows such pointers finds s.
LEMMA RowFound ==
    ASSUME NEW ptr, NEW h, h \notin Entries, NEW s \in Seq(Entries), Apart(s), Strings(ptr, h, s)
    PROVE  Along(ptr, h) = s
<1> DEFINE n == Cardinality(Entries)
<1>1. n \in Nat /\ Len(s) <= n /\ Len(s) \in Nat
  BY RowFits
<1> HIDE DEF n
<1>2. PICK at : /\ Stations(ptr, h, n, at)
                /\ Along(ptr, h) = [k \in 1 .. Returns(h, n, at) |-> at[k]]
  BY <1>1, AlongIs DEF n
<1>3. \A k \in Nat : k <= Len(s) + 1 => at[k] = Spot(h, s, k)
  <2> DEFINE S == {k \in Nat : k <= Len(s) + 1 => at[k] = Spot(h, s, k)}
  <2>1. 0 \in S  BY <1>2 DEF Stations, Spot
  <2>2. ASSUME NEW k \in Nat, k \in S PROVE k + 1 \in S
    <3> SUFFICES ASSUME k + 1 <= Len(s) + 1 PROVE at[k + 1] = Spot(h, s, k + 1)
      OBVIOUS
    <3>1. at[k] = Spot(h, s, k)  BY <1>1, <2>2
    <3>2. k + 1 \in 1 .. n + 1 /\ (k + 1) - 1 = k  BY <1>1
    <3>3. at[k + 1] = ptr[at[k]]  BY <1>2, <3>2 DEF Stations
    <3>4. k \in 0 .. Len(s)  BY <1>1
    <3>5. QED  BY <3>1, <3>3, <3>4 DEF Strings
  <2> HIDE DEF S
  <2>3. \A k \in Nat : k \in S  BY <2>1, <2>2, Naturally
  <2>4. QED  BY <2>3 DEF S
<1>4. \A k \in 1 .. Len(s) : at[k] = s[k] /\ at[k] # h
  BY <1>1, <1>3 DEF Spot
<1>5. at[Len(s) + 1] = h
  BY <1>1, <1>3 DEF Spot
<1>6. Len(s) \in Backs(h, n, at) /\ \A k \in Backs(h, n, at) : k \in Nat /\ Len(s) <= k
  <2>1. Len(s) \in Backs(h, n, at)  BY <1>1, <1>5 DEF Backs
  <2>2. ASSUME NEW k \in Backs(h, n, at) PROVE k \in Nat /\ Len(s) <= k
    <3>1. k \in 0 .. n /\ at[k + 1] = h  BY DEF Backs
    <3>2. k + 1 \notin 1 .. Len(s)  BY <1>4, <3>1
    <3>3. QED  BY <1>1, <3>1, <3>2
  <2>3. QED  BY <2>1, <2>2
<1>7. Min(Backs(h, n, at)) = Len(s)
  <2>1. ASSUME NEW x \in Backs(h, n, at), \A y \in Backs(h, n, at) : x <= y PROVE x = Len(s)
    BY <1>1, <1>6, <2>1
  <2>2. QED  BY <1>6, <2>1 DEF Min
<1>8. Along(ptr, h) = [k \in 1 .. Len(s) |-> at[k]]
  BY <1>2, <1>6, <1>7 DEF Returns
<1>9. s = [k \in 1 .. Len(s) |-> s[k]]
  OBVIOUS
<1>10. QED  BY <1>4, <1>8, <1>9

\* A concatenation, place by place.
LEMMA ConcatAt ==
    ASSUME NEW S, NEW s \in Seq(S), NEW t \in Seq(S)
    PROVE  /\ s \o t \in Seq(S) /\ Len(s \o t) = Len(s) + Len(t)
           /\ \A i \in 1 .. Len(s) : (s \o t)[i] = s[i]
           /\ \A i \in 1 .. Len(t) : (s \o t)[Len(s) + i] = t[i]
<1>1. Len(s) \in Nat /\ Len(t) \in Nat  OBVIOUS
<1>2. s \o t \in Seq(S) /\ Len(s \o t) = Len(s) + Len(t)  BY ConcatProperties
<1>3. ASSUME NEW i \in 1 .. Len(s) PROVE (s \o t)[i] = s[i]
  BY <1>1, ConcatProperties
<1>4. ASSUME NEW i \in 1 .. Len(t) PROVE (s \o t)[Len(s) + i] = t[i]
  <2> DEFINE k == Len(s) + i
  <2>1. k \in 1 .. Len(s) + Len(t) /\ ~(k <= Len(s)) /\ k - Len(s) = i  BY <1>1
  <2> HIDE DEF k
  <2>2. (s \o t)[k] = t[k - Len(s)]  BY <2>1, ConcatProperties
  <2>3. QED  BY <2>1, <2>2 DEF k
<1>5. QED  BY <1>2, <1>3, <1>4

\* What the operations on rows do, place by place.
LEMMA Inserted ==
    ASSUME NEW S, NEW s \in Seq(S), NEW i \in 1 .. Len(s) + 1, NEW e \in S
    PROVE  LET t == InsertAt(s, i, e)
           IN  /\ t \in Seq(S) /\ Len(t) = Len(s) + 1
               /\ \A k \in 1 .. Len(s) + 1 :
                     t[k] = IF k < i THEN s[k] ELSE IF k = i THEN e ELSE s[k - 1]
<1> DEFINE a == SubSeq(s, 1, i - 1)  b == SubSeq(s, i, Len(s))
           c == a \o <<e>>  t == c \o b
<1>1. /\ a \in Seq(S) /\ Len(a) = i - 1 /\ \A k \in 1 .. i - 1 : a[k] = s[k]
  OBVIOUS
<1>2. /\ b \in Seq(S) /\ Len(b) = Len(s) - i + 1 /\ \A k \in 1 .. Len(s) - i + 1 : b[k] = s[k + i - 1]
  OBVIOUS
<1>3. InsertAt(s, i, e) = t
  BY DEF InsertAt
<1> HIDE DEF a, b
<1>4. c \in Seq(S) /\ Len(c) = i /\ c[i] = e /\ \A k \in 1 .. i - 1 : c[k] = s[k]
  BY <1>1
<1> HIDE DEF c
<1>5. /\ t \in Seq(S) /\ Len(t) = Len(c) + Len(b)
      /\ \A k \in 1 .. Len(c) : t[k] = c[k]
      /\ \A k \in 1 .. Len(b) : t[Len(c) + k] = b[k]
  BY ONLY <1>2, <1>4, ConcatAt
<1> HIDE DEF t
<1>6. i \in Nat /\ Len(s) \in Nat
  OBVIOUS
<1>7. ASSUME NEW k \in 1 .. Len(s) + 1
      PROVE  t[k] = IF k < i THEN s[k] ELSE IF k = i THEN e ELSE s[k - 1]
  <2>1. CASE k <= i
    BY <1>4, <1>5, <1>6, <2>1
  <2>2. CASE k > i
    <3> DEFINE j == k - i
    <3>1. j \in 1 .. Len(b) /\ i + j = k /\ j + i - 1 = k - 1  BY <1>2, <1>6, <2>2
    <3> HIDE DEF j
    <3>2. b[j] = s[k - 1]  BY <1>2, <3>1
    <3>3. t[k] = b[j]  BY <1>4, <1>5, <3>1
    <3>4. QED  BY <1>6, <2>2, <3>2, <3>3
  <2>3. QED  BY <1>6, <2>1, <2>2
<1>8. Len(t) = Len(s) + 1
  BY <1>2, <1>4, <1>5, <1>6
<1>9. QED  BY <1>3, <1>5, <1>7, <1>8

LEMMA Removed ==
    ASSUME NEW S, NEW s \in Seq(S), NEW i \in 1 .. Len(s)
    PROVE  LET t == RemoveAt(s, i)
           IN  /\ t \in Seq(S) /\ Len(t) = Len(s) - 1
               /\ \A k \in 1 .. Len(s) - 1 : t[k] = IF k < i THEN s[k] ELSE s[k + 1]
<1> DEFINE a == SubSeq(s, 1, i - 1)  b == SubSeq(s, i + 1, Len(s))  t == a \o b
<1>1. /\ a \in Seq(S) /\ Len(a) = i - 1 /\ \A k \in 1 .. i - 1 : a[k] = s[k]
  OBVIOUS
<1>2. /\ b \in Seq(S) /\ Len(b) = Len(s) - i /\ \A k \in 1 .. Len(s) - i : b[k] = s[k + i]
  OBVIOUS
<1>3. RemoveAt(s, i) = t
  BY DEF RemoveAt
<1> HIDE DEF a, b
<1>4. /\ t \in Seq(S) /\ Len(t) = Len(a) + Len(b)
      /\ \A k \in 1 .. Len(a) : t[k] = a[k]
      /\ \A k \in 1 .. Len(b) : t[Len(a) + k] = b[k]
  <2>1. a \in Seq(S) /\ b \in Seq(S)  BY <1>1, <1>2
  <2>2. QED  BY ONLY <2>1, ConcatAt
<1> HIDE DEF t
<1>5. i \in Nat /\ Len(s) \in Nat
  OBVIOUS
<1>6. ASSUME NEW k \in 1 .. Len(s) - 1
      PROVE  t[k] = IF k < i THEN s[k] ELSE s[k + 1]
  <2>1. CASE k < i  BY <1>1, <1>4, <1>5, <2>1
  <2>2. CASE k >= i
    <3> DEFINE j == k - (i - 1)
    <3>1. j \in 1 .. Len(b) /\ Len(a) + j = k /\ j + i = k + 1
      BY <1>1, <1>2, <1>5, <2>2
    <3> HIDE DEF j
    <3>2. b[j] = s[k + 1]  BY <1>2, <3>1
    <3>3. t[k] = b[j]  BY <1>4, <3>1
    <3>4. QED  BY <1>5, <2>2, <3>2, <3>3
  <2>3. QED  BY <1>5, <2>1, <2>2
<1>7. Len(t) = Len(s) - 1
  BY <1>1, <1>2, <1>4, <1>5
<1>8. QED  BY <1>3, <1>4, <1>6, <1>7

\* The rows of all heads: the pointers string them together, nothing stands in
\* two places, and what stands is what is in a list.
Rowed(ptr, on, rows) ==
    /\ rows \in [Heads -> Seq(Entries)]
    /\ \A h \in Heads : Strings(ptr, h, rows[h])
    /\ \A h, g \in Heads : \A i \in 0 .. Len(rows[h]), j \in 0 .. Len(rows[g]) :
          Spot(h, rows[h], i) = Spot(g, rows[g], j) => h = g /\ i = j
    /\ \A n : n \in on <=> \E h \in Heads : \E i \in 0 .. Len(rows[h]) : n = Spot(h, rows[h], i)

\* There is one such way to see the rows, Along.
LEMMA RowsAre ==
    ASSUME NEW ptr, NEW on, NEW rows, Rowed(ptr, on, rows)
    PROVE  rows = [h \in Heads |-> Along(ptr, h)]
<1> SUFFICES ASSUME NEW h \in Heads PROVE Along(ptr, h) = rows[h]
  BY DEF Rowed
<1> DEFINE s == rows[h]
<1>1. s \in Seq(Entries) /\ Len(s) \in Nat  BY DEF Rowed
<1>2. Strings(ptr, h, s)  BY DEF Rowed
<1>3. Apart(s)
  <2> SUFFICES ASSUME NEW i \in 1 .. Len(s), NEW j \in 1 .. Len(s), s[i] = s[j] PROVE i = j
    BY DEF Apart
  <2>1. Spot(h, s, i) = Spot(h, s, j)  BY DEF Spot
  <2>2. i \in 0 .. Len(s) /\ j \in 0 .. Len(s)  BY <1>1
  <2>3. QED  BY <2>1, <2>2 DEF Rowed
<1>4. h \notin Entries  BY ListAssumption
<1> HIDE DEF s
<1>5. Along(ptr, h) = s  BY <1>1, <1>2, <1>3, <1>4, RowFound
<1>6. QED  BY <1>5 DEF s

\* An entry that stands somewhere, and what is before it.
LEMMA StandsAt ==
    ASSUME NEW ptr, NEW on, NEW rows, Rowed(ptr, on, rows), NEW n \in on
    PROVE  \E h \in Heads : \E i \in 0 .. Len(rows[h]) :
              /\ n = Spot(h, rows[h], i) /\ (i = 0 <=> n \in Heads)
              /\ n \notin Heads => n = rows[h][i] /\ i \in 1 .. Len(rows[h])
<1>1. PICK h \in Heads : \E i \in 0 .. Len(rows[h]) : n = Spot(h, rows[h], i)
  BY DEF Rowed
<1>2. PICK i \in 0 .. Len(rows[h]) : n = Spot(h, rows[h], i)
  BY <1>1
<1>3. rows[h] \in Seq(Entries)  BY DEF Rowed
<1>4. CASE i = 0
  BY <1>2, <1>3, <1>4 DEF Spot
<1>5. CASE i # 0
  <2>1. i \in 1 .. Len(rows[h])  BY <1>3, <1>5
  <2>2. n = rows[h][i] /\ n \in Entries  BY <1>2, <1>3, <2>1 DEF Spot
  <2>3. QED  BY <1>2, <1>5, <2>1, <2>2, ListAssumption
<1>6. QED  BY <1>4, <1>5

LEMMA InsertSpots ==
    ASSUME NEW h, NEW s \in Seq(Entries), NEW i \in 0 .. Len(s), NEW e \in Entries
    PROVE  LET t == InsertAt(s, i + 1, e)
           IN  /\ t \in Seq(Entries) /\ Len(t) = Len(s) + 1
               /\ \A k \in 0 .. Len(s) + 2 :
                     Spot(h, t, k) = IF k <= i THEN Spot(h, s, k)
                                     ELSE IF k = i + 1 THEN e ELSE Spot(h, s, k - 1)
<1> DEFINE t == InsertAt(s, i + 1, e)
<1>1. i + 1 \in 1 .. Len(s) + 1 /\ Len(s) \in Nat /\ i \in Nat  OBVIOUS
<1>2. /\ t \in Seq(Entries) /\ Len(t) = Len(s) + 1
      /\ \A k \in 1 .. Len(s) + 1 :
            t[k] = IF k < i + 1 THEN s[k] ELSE IF k = i + 1 THEN e ELSE s[k - 1]
  BY <1>1, Inserted
<1> HIDE DEF t
<1>3. ASSUME NEW k \in 0 .. Len(s) + 2
      PROVE  Spot(h, t, k) = IF k <= i THEN Spot(h, s, k)
                             ELSE IF k = i + 1 THEN e ELSE Spot(h, s, k - 1)
  <2>1. CASE k \in 1 .. Len(s) + 1
    <3>1. Spot(h, t, k) = IF k < i + 1 THEN s[k] ELSE IF k = i + 1 THEN e ELSE s[k - 1]
      BY <1>1, <1>2, <2>1 DEF Spot
    <3>2. k <= i => k \in 1 .. Len(s)  BY <1>1, <2>1
    <3>3. k > i + 1 => k - 1 \in 1 .. Len(s)  BY <1>1, <2>1
    <3>4. QED  BY <1>1, <2>1, <3>1, <3>2, <3>3 DEF Spot
  <2>2. CASE k = 0  BY <1>1, <1>2, <2>2 DEF Spot
  <2>3. CASE k = Len(s) + 2  BY <1>1, <1>2, <2>3 DEF Spot
  <2>4. QED  BY <1>1, <2>1, <2>2, <2>3
<1>4. QED  BY <1>2, <1>3 DEF t

LEMMA RemoveSpots ==
    ASSUME NEW h, NEW s \in Seq(Entries), NEW i \in 1 .. Len(s)
    PROVE  LET t == RemoveAt(s, i)
           IN  /\ t \in Seq(Entries) /\ Len(t) = Len(s) - 1
               /\ \A k \in 0 .. Len(s) :
                     Spot(h, t, k) = IF k < i THEN Spot(h, s, k) ELSE Spot(h, s, k + 1)
<1> DEFINE t == RemoveAt(s, i)
<1>1. Len(s) \in Nat /\ i \in Nat  OBVIOUS
<1>2. /\ t \in Seq(Entries) /\ Len(t) = Len(s) - 1
      /\ \A k \in 1 .. Len(s) - 1 : t[k] = IF k < i THEN s[k] ELSE s[k + 1]
  BY Removed
<1> HIDE DEF t
<1>3. ASSUME NEW k \in 0 .. Len(s)
      PROVE  Spot(h, t, k) = IF k < i THEN Spot(h, s, k) ELSE Spot(h, s, k + 1)
  <2>1. CASE k \in 1 .. Len(s) - 1
    <3>1. Spot(h, t, k) = IF k < i THEN s[k] ELSE s[k + 1]
      BY <1>1, <1>2, <2>1 DEF Spot
    <3>2. k \in 1 .. Len(s) /\ k + 1 \in 1 .. Len(s)  BY <1>1, <2>1
    <3>3. QED  BY <3>1, <3>2 DEF Spot
  <2>2. CASE k = 0  BY <1>1, <1>2, <2>2 DEF Spot
  <2>3. CASE k = Len(s)  BY <1>1, <1>2, <2>3 DEF Spot
  <2>4. QED  BY <1>1, <2>1, <2>2, <2>3
<1>4. QED  BY <1>2, <1>3 DEF t

LEMMA ReplaceSpots ==
    ASSUME NEW h, NEW s \in Seq(Entries), NEW i \in 1 .. Len(s), NEW e \in Entries
    PROVE  LET t == ReplaceAt(s, i, e)
           IN  /\ t \in Seq(Entries) /\ Len(t) = Len(s)
               /\ \A k \in 0 .. Len(s) + 1 : Spot(h, t, k) = IF k = i THEN e ELSE Spot(h, s, k)
  BY DEF ReplaceAt, Spot

----------------------------------------------------------------------------
(***************************************************************************)
(* What changes of the pointers do to the rows                             *)
(***************************************************************************)
\* new is put behind the i-th of h.
LEMMA InsertRow ==
    ASSUME NEW ptr, NEW ptr2, NEW on, NEW rows, Rowed(ptr, on, rows),
           NEW h \in Heads, NEW i \in 0 .. Len(rows[h]), NEW new \in Entries, new \notin on,
           NEW cur, cur = Spot(h, rows[h], i),
           ptr2[cur] = new, ptr2[new] = ptr[cur], \A n \in on : n # cur => ptr2[n] = ptr[n]
    PROVE  Rowed(ptr2, on \union {new}, [rows EXCEPT ![h] = InsertAt(@, i + 1, new)])
<1> DEFINE s == rows[h]  t == InsertAt(s, i + 1, new)  rows2 == [rows EXCEPT ![h] = t]
<1>1. /\ rows \in [Heads -> Seq(Entries)] /\ s \in Seq(Entries)
      /\ \A g \in Heads : Len(rows[g]) \in Nat
      /\ i \in Nat /\ i <= Len(s)
  BY DEF Rowed
<1>2. /\ t \in Seq(Entries) /\ Len(t) = Len(s) + 1
      /\ \A k \in 0 .. Len(s) + 2 :
            Spot(h, t, k) = IF k <= i THEN Spot(h, s, k)
                            ELSE IF k = i + 1 THEN new ELSE Spot(h, s, k - 1)
  BY <1>1, InsertSpots
<1> HIDE DEF t
<1>3. rows2 \in [Heads -> Seq(Entries)] /\ rows2[h] = t /\ \A g \in Heads : g # h => rows2[g] = rows[g]
  BY <1>1, <1>2
<1> HIDE DEF rows2
<1>4. \A g \in Heads : \A k \in 0 .. Len(rows[g]) :
         /\ Spot(g, rows[g], k) \in on /\ Spot(g, rows[g], k) # new
         /\ ptr[Spot(g, rows[g], k)] = Spot(g, rows[g], k + 1)
         /\ Spot(g, rows[g], k) = cur => g = h /\ k = i
  BY DEF Rowed, Strings
<1>5. ASSUME NEW g \in Heads PROVE Strings(ptr2, g, rows2[g])
  <2> SUFFICES ASSUME NEW k \in 0 .. Len(rows2[g])
               PROVE  ptr2[Spot(g, rows2[g], k)] = Spot(g, rows2[g], k + 1)
    BY DEF Strings
  <2>1. CASE g # h
    <3>1. rows2[g] = rows[g] /\ k \in 0 .. Len(rows[g])  BY <1>3, <2>1
    <3>2. QED  BY <1>4, <2>1, <3>1
  <2>2. CASE g = h
    <3>1. k \in 0 .. Len(s) + 1 /\ k \in 0 .. Len(s) + 2 /\ k + 1 \in 0 .. Len(s) + 2
      BY <1>1, <1>2, <1>3, <2>2
    <3>2. Spot(h, t, k) = IF k <= i THEN Spot(h, s, k)
                            ELSE IF k = i + 1 THEN new ELSE Spot(h, s, k - 1)
      BY <1>2, <3>1
    <3>3. Spot(h, t, k + 1) = IF k + 1 <= i THEN Spot(h, s, k + 1)
                            ELSE IF k + 1 = i + 1 THEN new ELSE Spot(h, s, k)
      BY <1>2, <3>1
    <3>4. CASE k <= i
      <4>1. k \in 0 .. Len(s)  BY <1>1, <3>1, <3>4
      <4>2. QED  BY <1>1, <1>3, <1>4, <2>2, <3>2, <3>3, <3>4, <4>1
    <3>5. CASE k = i + 1
      BY <1>1, <1>3, <1>4, <2>2, <3>2, <3>3, <3>5
    <3>6. CASE k > i + 1
      <4> DEFINE j == k - 1
      <4>1. j \in 0 .. Len(s) /\ j # i /\ k = j + 1  BY <1>1, <3>1, <3>6
      <4>2. Spot(h, t, k) = Spot(h, s, j) /\ Spot(h, t, k + 1) = Spot(h, s, k)
        BY <1>1, <3>1, <3>2, <3>3, <3>6
      <4> HIDE DEF j
      <4>3. QED  BY <1>3, <1>4, <2>2, <4>1, <4>2
    <3>7. QED  BY <1>1, <3>1, <3>4, <3>5, <3>6
  <2>3. QED  BY <2>1, <2>2
\* Each spot is the new one's or one from before.
<1> DEFINE Was(g, k) == IF g = h /\ k > i THEN k - 1 ELSE k
<1>6. ASSUME NEW g \in Heads, NEW k \in 0 .. Len(rows2[g])
      PROVE  IF g = h /\ k = i + 1 THEN Spot(g, rows2[g], k) = new
             ELSE Was(g, k) \in 0 .. Len(rows[g]) /\ Spot(g, rows2[g], k) = Spot(g, rows[g], Was(g, k))
  <2>1. CASE g # h  BY <1>3, <2>1
  <2>2. CASE g = h
    <3>1. k \in 0 .. Len(s) + 1 /\ k \in 0 .. Len(s) + 2
      BY <1>1, <1>2, <1>3, <2>2
    <3>2. Spot(h, t, k) = IF k <= i THEN Spot(h, s, k)
                            ELSE IF k = i + 1 THEN new ELSE Spot(h, s, k - 1)
      BY <1>2, <3>1
    <3>3. k # i + 1 => Was(h, k) \in 0 .. Len(s)  BY <1>1, <3>1
    <3>4. QED  BY <1>1, <1>3, <2>2, <3>1, <3>2, <3>3
  <2>3. QED  BY <2>1, <2>2
<1>7. ASSUME NEW g \in Heads, NEW f \in Heads, NEW k \in 0 .. Len(rows2[g]), NEW j \in 0 .. Len(rows2[f]),
             Spot(g, rows2[g], k) = Spot(f, rows2[f], j)
      PROVE  g = f /\ k = j
  <2>1. k \in Nat /\ j \in Nat  BY <1>3
  <2>2. CASE g = h /\ k = i + 1
    <3>1. Spot(f, rows2[f], j) = new  BY <1>6, <1>7, <2>2
    <3>2. QED  BY <1>4, <1>6, <2>2, <3>1
  <2>3. CASE f = h /\ j = i + 1
    <3>1. Spot(g, rows2[g], k) = new  BY <1>6, <1>7, <2>3
    <3>2. QED  BY <1>4, <1>6, <2>3, <3>1
  <2>4. CASE ~(g = h /\ k = i + 1) /\ ~(f = h /\ j = i + 1)
    <3>1. /\ Was(g, k) \in 0 .. Len(rows[g]) /\ Was(f, j) \in 0 .. Len(rows[f])
          /\ Spot(g, rows[g], Was(g, k)) = Spot(f, rows[f], Was(f, j))
      BY <1>6, <1>7, <2>4
    <3>2. g = f /\ Was(g, k) = Was(f, j)
      BY <3>1 DEF Rowed
    <3>3. QED  BY <1>1, <2>1, <2>4, <3>2
  <2>5. QED  BY <2>2, <2>3, <2>4
<1>8. ASSUME NEW n
      PROVE  n \in on \union {new} <=> \E g \in Heads : \E k \in 0 .. Len(rows2[g]) : n = Spot(g, rows2[g], k)
  <2>1. ASSUME NEW g \in Heads, NEW k \in 0 .. Len(rows2[g]), n = Spot(g, rows2[g], k)
        PROVE  n \in on \union {new}
    BY <1>4, <1>6, <2>1
  <2>2. CASE n = new
    <3>1. i + 1 \in 0 .. Len(rows2[h]) /\ i + 1 \in 0 .. Len(s) + 2  BY <1>1, <1>2, <1>3
    <3>2. Spot(h, rows2[h], i + 1) = new  BY <1>1, <1>2, <1>3, <3>1
    <3>3. QED  BY <2>2, <3>1, <3>2
  <2>3. ASSUME NEW g \in Heads, NEW k \in 0 .. Len(rows[g]), n = Spot(g, rows[g], k)
        PROVE  \E j \in 0 .. Len(rows2[g]) : n = Spot(g, rows2[g], j)
    <3>1. CASE g # h  BY <1>3, <2>3, <3>1
    <3>2. CASE g = h /\ k <= i
      <4>1. k \in 0 .. Len(rows2[h]) /\ k \in 0 .. Len(s) + 2  BY <1>1, <1>2, <1>3, <3>2
      <4>2. Spot(h, rows2[h], k) = n  BY <1>2, <1>3, <2>3, <3>2, <4>1
      <4>3. QED  BY <3>2, <4>1, <4>2
    <3>3. CASE g = h /\ k > i
      <4> DEFINE j == k + 1
      <4>1. /\ j \in 0 .. Len(rows2[h]) /\ j \in 0 .. Len(s) + 2
            /\ ~(j <= i) /\ j # i + 1 /\ j - 1 = k
        BY <1>1, <1>2, <1>3, <3>3
      <4> HIDE DEF j
      <4>2. Spot(h, rows2[h], j) = n  BY <1>2, <1>3, <2>3, <3>3, <4>1
      <4>3. QED  BY <3>3, <4>1, <4>2
    <3>4. QED  BY <1>1, <3>1, <3>2, <3>3
  <2>4. n \in on => \E g \in Heads : \E k \in 0 .. Len(rows[g]) : n = Spot(g, rows[g], k)
    BY DEF Rowed
  <2>5. QED  BY <2>1, <2>2, <2>3, <2>4
<1>9. Rowed(ptr2, on \union {new}, rows2)
  BY <1>3, <1>5, <1>7, <1>8 DEF Rowed
<1>10. QED  BY <1>9 DEF rows2, t

\* The i-th of h is taken out.
LEMMA RemoveRow ==
    ASSUME NEW ptr, NEW ptr2, NEW on, NEW rows, Rowed(ptr, on, rows),
           NEW h \in Heads, NEW i \in 1 .. Len(rows[h]), NEW gone, gone = rows[h][i],
           NEW before, before = Spot(h, rows[h], i - 1),
           ptr2[before] = ptr[gone], \A n \in on : n \notin {before, gone} => ptr2[n] = ptr[n]
    PROVE  Rowed(ptr2, on \ {gone}, [rows EXCEPT ![h] = RemoveAt(@, i)])
<1> DEFINE s == rows[h]  t == RemoveAt(s, i)  rows2 == [rows EXCEPT ![h] = t]
<1>1. /\ rows \in [Heads -> Seq(Entries)] /\ s \in Seq(Entries)
      /\ \A g \in Heads : Len(rows[g]) \in Nat
      /\ i \in Nat /\ 1 <= i /\ i <= Len(s) /\ gone = Spot(h, s, i)
  BY DEF Rowed, Spot
<1>2. /\ t \in Seq(Entries) /\ Len(t) = Len(s) - 1
      /\ \A k \in 0 .. Len(s) :
            Spot(h, t, k) = IF k < i THEN Spot(h, s, k) ELSE Spot(h, s, k + 1)
  BY <1>1, RemoveSpots
<1> HIDE DEF t
<1>3. rows2 \in [Heads -> Seq(Entries)] /\ rows2[h] = t /\ \A g \in Heads : g # h => rows2[g] = rows[g]
  BY <1>1, <1>2
<1> HIDE DEF rows2
<1>4. \A g \in Heads : \A k \in 0 .. Len(rows[g]) :
         /\ Spot(g, rows[g], k) \in on
         /\ ptr[Spot(g, rows[g], k)] = Spot(g, rows[g], k + 1)
         /\ Spot(g, rows[g], k) = gone => g = h /\ k = i
         /\ Spot(g, rows[g], k) = before => g = h /\ k = i - 1
  <2>1. i - 1 \in 0 .. Len(s) /\ i \in 0 .. Len(s)  BY <1>1
  <2>2. QED  BY <1>1, <2>1 DEF Rowed, Strings
\* Each spot is one from before, and none is the one that is gone.
<1> DEFINE Was(g, k) == IF g = h /\ k >= i THEN k + 1 ELSE k
<1>5. ASSUME NEW g \in Heads, NEW k \in 0 .. Len(rows2[g])
      PROVE  /\ Was(g, k) \in 0 .. Len(rows[g]) /\ ~(g = h /\ Was(g, k) = i)
             /\ Spot(g, rows2[g], k) = Spot(g, rows[g], Was(g, k))
  <2>1. CASE g # h  BY <1>3, <2>1
  <2>2. CASE g = h
    <3>1. k \in 0 .. Len(s) - 1 /\ k \in 0 .. Len(s)
      BY <1>1, <1>2, <1>3, <2>2
    <3>2. Spot(h, t, k) = IF k < i THEN Spot(h, s, k) ELSE Spot(h, s, k + 1)
      BY <1>2, <3>1
    <3>3. QED  BY <1>1, <1>3, <2>2, <3>1, <3>2
  <2>3. QED  BY <2>1, <2>2
<1>6. ASSUME NEW g \in Heads PROVE Strings(ptr2, g, rows2[g])
  <2> SUFFICES ASSUME NEW k \in 0 .. Len(rows2[g])
               PROVE  ptr2[Spot(g, rows2[g], k)] = Spot(g, rows2[g], k + 1)
    BY DEF Strings
  <2>1. CASE g # h
    <3>1. rows2[g] = rows[g] /\ k \in 0 .. Len(rows[g])  BY <1>3, <2>1
    <3>2. QED  BY <1>4, <2>1, <3>1
  <2>2. CASE g = h
    <3>1. k \in 0 .. Len(s) - 1 /\ k \in 0 .. Len(s) /\ k + 1 \in 0 .. Len(s)
      BY <1>1, <1>2, <1>3, <2>2
    <3>2. /\ Spot(h, t, k) = IF k < i THEN Spot(h, s, k) ELSE Spot(h, s, k + 1)
          /\ Spot(h, t, k + 1) = IF k + 1 < i THEN Spot(h, s, k + 1) ELSE Spot(h, s, k + 2)
      BY <1>1, <1>2, <3>1
    <3>3. CASE k < i - 1
      BY <1>1, <1>3, <1>4, <2>2, <3>1, <3>2, <3>3
    <3>4. CASE k = i - 1
      <4>1. Spot(h, t, k) = before /\ Spot(h, t, k + 1) = Spot(h, s, i + 1)
        BY <1>1, <3>2, <3>4
      <4>2. ptr[gone] = Spot(h, s, i + 1)  BY <1>1, <1>4
      <4>3. QED  BY <1>3, <2>2, <4>1, <4>2
    <3>5. CASE k >= i
      <4> DEFINE j == k + 1
      <4>1. j \in 0 .. Len(s) /\ j # i /\ j # i - 1 /\ j + 1 = k + 2  BY <1>1, <3>1, <3>5
      <4>2. Spot(h, t, k) = Spot(h, s, j) /\ Spot(h, t, k + 1) = Spot(h, s, j + 1)
        BY <1>1, <3>1, <3>2, <3>5, <4>1
      <4> HIDE DEF j
      <4>3. QED  BY <1>3, <1>4, <2>2, <4>1, <4>2
    <3>6. QED  BY <1>1, <3>1, <3>3, <3>4, <3>5
  <2>3. QED  BY <2>1, <2>2
<1>7. ASSUME NEW g \in Heads, NEW f \in Heads, NEW k \in 0 .. Len(rows2[g]), NEW j \in 0 .. Len(rows2[f]),
             Spot(g, rows2[g], k) = Spot(f, rows2[f], j)
      PROVE  g = f /\ k = j
  <2>1. k \in Nat /\ j \in Nat  BY <1>3
  <2>2. /\ Was(g, k) \in 0 .. Len(rows[g]) /\ Was(f, j) \in 0 .. Len(rows[f])
        /\ Spot(g, rows[g], Was(g, k)) = Spot(f, rows[f], Was(f, j))
    BY <1>5, <1>7
  <2>3. g = f /\ Was(g, k) = Was(f, j)
    BY <2>2 DEF Rowed
  <2>4. QED  BY <1>1, <2>1, <2>3
<1>8. ASSUME NEW n
      PROVE  n \in on \ {gone} <=> \E g \in Heads : \E k \in 0 .. Len(rows2[g]) : n = Spot(g, rows2[g], k)
  <2>1. ASSUME NEW g \in Heads, NEW k \in 0 .. Len(rows2[g]), n = Spot(g, rows2[g], k)
        PROVE  n \in on \ {gone}
    BY <1>4, <1>5, <2>1
  <2>2. ASSUME NEW g \in Heads, NEW k \in 0 .. Len(rows[g]), n = Spot(g, rows[g], k), n # gone
        PROVE  \E j \in 0 .. Len(rows2[g]) : n = Spot(g, rows2[g], j)
    <3>1. CASE g # h  BY <1>3, <2>2, <3>1
    <3>2. CASE g = h /\ k < i
      <4>1. k \in 0 .. Len(rows2[h]) /\ k \in 0 .. Len(s)  BY <1>1, <1>2, <1>3, <3>2
      <4>2. Spot(h, rows2[h], k) = n  BY <1>2, <1>3, <2>2, <3>2, <4>1
      <4>3. QED  BY <3>2, <4>1, <4>2
    <3>3. CASE g = h /\ k > i
      <4> DEFINE j == k - 1
      <4>1. j \in 0 .. Len(rows2[h]) /\ j \in 0 .. Len(s) /\ ~(j < i) /\ j + 1 = k
        BY <1>1, <1>2, <1>3, <3>3
      <4> HIDE DEF j
      <4>2. Spot(h, rows2[h], j) = n  BY <1>2, <1>3, <2>2, <3>3, <4>1
      <4>3. QED  BY <3>3, <4>1, <4>2
    <3>4. CASE g = h /\ k = i  BY <1>1, <2>2, <3>4
    <3>5. QED  BY <1>1, <3>1, <3>2, <3>3, <3>4
  <2>3. n \in on => \E g \in Heads : \E k \in 0 .. Len(rows[g]) : n = Spot(g, rows[g], k)
    BY DEF Rowed
  <2>4. QED  BY <2>1, <2>2, <2>3
<1>9. Rowed(ptr2, on \ {gone}, rows2)
  BY <1>3, <1>6, <1>7, <1>8 DEF Rowed
<1>10. QED  BY <1>9 DEF rows2, t

\* new takes the place of the i-th of h.
LEMMA ReplaceRow ==
    ASSUME NEW ptr, NEW ptr2, NEW on, NEW rows, Rowed(ptr, on, rows),
           NEW h \in Heads, NEW i \in 1 .. Len(rows[h]), NEW gone, gone = rows[h][i],
           NEW new \in Entries, new \notin on,
           NEW before, before = Spot(h, rows[h], i - 1),
           ptr2[before] = new, ptr2[new] = ptr[gone],
           \A n \in on : n \notin {before, gone} => ptr2[n] = ptr[n]
    PROVE  Rowed(ptr2, (on \ {gone}) \union {new}, [rows EXCEPT ![h] = ReplaceAt(@, i, new)])
<1> DEFINE s == rows[h]  t == ReplaceAt(s, i, new)  rows2 == [rows EXCEPT ![h] = t]
<1>1. /\ rows \in [Heads -> Seq(Entries)] /\ s \in Seq(Entries)
      /\ \A g \in Heads : Len(rows[g]) \in Nat
      /\ i \in Nat /\ 1 <= i /\ i <= Len(s) /\ gone = Spot(h, s, i)
  BY DEF Rowed, Spot
<1>2. /\ t \in Seq(Entries) /\ Len(t) = Len(s)
      /\ \A k \in 0 .. Len(s) + 1 : Spot(h, t, k) = IF k = i THEN new ELSE Spot(h, s, k)
  <2>1. s \in Seq(Entries) /\ i \in 1 .. Len(s)  BY <1>1
  <2> HIDE DEF s
  <2>2. QED  BY <2>1, ReplaceSpots
<1> HIDE DEF t
<1>3. rows2 \in [Heads -> Seq(Entries)] /\ rows2[h] = t /\ \A g \in Heads : g # h => rows2[g] = rows[g]
  BY <1>1, <1>2
<1> HIDE DEF rows2
<1>4. \A g \in Heads : \A k \in 0 .. Len(rows[g]) :
         /\ Spot(g, rows[g], k) \in on /\ Spot(g, rows[g], k) # new
         /\ ptr[Spot(g, rows[g], k)] = Spot(g, rows[g], k + 1)
         /\ Spot(g, rows[g], k) = gone => g = h /\ k = i
         /\ Spot(g, rows[g], k) = before => g = h /\ k = i - 1
  <2>1. i - 1 \in 0 .. Len(s) /\ i \in 0 .. Len(s)  BY <1>1
  <2>2. QED  BY <1>1, <2>1 DEF Rowed, Strings
<1>5. \A g \in Heads : /\ Len(rows2[g]) = Len(rows[g])
                       /\ \A k \in 0 .. Len(rows[g]) + 1 :
                             Spot(g, rows2[g], k) = IF g = h /\ k = i THEN new ELSE Spot(g, rows[g], k)
  BY <1>1, <1>2, <1>3
<1>6. ASSUME NEW g \in Heads PROVE Strings(ptr2, g, rows2[g])
  <2> SUFFICES ASSUME NEW k \in 0 .. Len(rows[g])
               PROVE  ptr2[Spot(g, rows2[g], k)] = Spot(g, rows2[g], k + 1)
    BY <1>5 DEF Strings
  <2>1. k \in 0 .. Len(rows[g]) + 1 /\ k + 1 \in 0 .. Len(rows[g]) + 1 /\ k \in Nat  BY <1>1
  <2>2. /\ Spot(g, rows2[g], k) = IF g = h /\ k = i THEN new ELSE Spot(g, rows[g], k)
        /\ Spot(g, rows2[g], k + 1) = IF g = h /\ k + 1 = i THEN new ELSE Spot(g, rows[g], k + 1)
    BY <1>5, <2>1
  <2>3. CASE g = h /\ k = i - 1
    <3>1. Spot(g, rows[g], k) = before /\ k + 1 = i /\ k # i  BY <1>1, <2>1, <2>3
    <3>2. QED  BY <2>2, <2>3, <3>1
  <2>4. CASE g = h /\ k = i
    <3>1. k + 1 # i /\ Spot(g, rows[g], k) = gone  BY <1>1, <2>1, <2>4
    <3>2. QED  BY <1>4, <2>2, <2>4, <3>1
  <2>5. CASE ~(g = h /\ k \in {i - 1, i})
    <3>1. ~(g = h /\ k + 1 = i)  BY <1>1, <2>1, <2>5
    <3>2. QED  BY <1>4, <2>2, <2>5, <3>1
  <2>6. QED  BY <2>3, <2>4, <2>5
<1>7. ASSUME NEW g \in Heads, NEW f \in Heads, NEW k \in 0 .. Len(rows[g]), NEW j \in 0 .. Len(rows[f]),
             Spot(g, rows2[g], k) = Spot(f, rows2[f], j)
      PROVE  g = f /\ k = j
  <2>1. k \in 0 .. Len(rows[g]) + 1 /\ j \in 0 .. Len(rows[f]) + 1  BY <1>1
  <2>2. /\ Spot(g, rows2[g], k) = IF g = h /\ k = i THEN new ELSE Spot(g, rows[g], k)
        /\ Spot(f, rows2[f], j) = IF f = h /\ j = i THEN new ELSE Spot(f, rows[f], j)
    BY <1>5, <2>1
  <2>3. Spot(g, rows[g], k) # new /\ Spot(f, rows[f], j) # new  BY <1>4
  <2>4. Spot(g, rows[g], k) = Spot(f, rows[f], j) => g = f /\ k = j  BY DEF Rowed
  <2>5. QED  BY <1>7, <2>2, <2>3, <2>4
<1>8. ASSUME NEW n
      PROVE  n \in (on \ {gone}) \union {new} <=>
                \E g \in Heads : \E k \in 0 .. Len(rows[g]) : n = Spot(g, rows2[g], k)
  <2>1. ASSUME NEW g \in Heads, NEW k \in 0 .. Len(rows[g])
        PROVE  Spot(g, rows2[g], k) = IF g = h /\ k = i THEN new ELSE Spot(g, rows[g], k)
    <3>1. k \in 0 .. Len(rows[g]) + 1  BY <1>1
    <3>2. QED  BY <1>5, <3>1
  <2>2. ASSUME NEW g \in Heads, NEW k \in 0 .. Len(rows[g]), n = Spot(g, rows2[g], k)
        PROVE  n \in (on \ {gone}) \union {new}
    BY <1>4, <2>1, <2>2
  <2>3. CASE n = new
    <3>1. i \in 0 .. Len(rows[h])  BY <1>1
    <3>2. QED  BY <2>1, <2>3, <3>1
  <2>4. ASSUME NEW g \in Heads, NEW k \in 0 .. Len(rows[g]), n = Spot(g, rows[g], k), n # gone
        PROVE  n = Spot(g, rows2[g], k)
    BY <1>1, <2>1, <2>4
  <2>5. n \in on => \E g \in Heads : \E k \in 0 .. Len(rows[g]) : n = Spot(g, rows[g], k)
    BY DEF Rowed
  <2>6. QED  BY <2>2, <2>3, <2>4, <2>5
<1>9. Rowed(ptr2, (on \ {gone}) \union {new}, rows2)
  <2>1. \A g \in Heads : 0 .. Len(rows2[g]) = 0 .. Len(rows[g])  BY <1>5
  <2>2. \A g, f \in Heads : \A k \in 0 .. Len(rows2[g]), j \in 0 .. Len(rows2[f]) :
            Spot(g, rows2[g], k) = Spot(f, rows2[f], j) => g = f /\ k = j
    BY <1>7, <2>1
  <2>3. \A n : n \in (on \ {gone}) \union {new} <=>
                \E g \in Heads : \E k \in 0 .. Len(rows2[g]) : n = Spot(g, rows2[g], k)
    <3> SUFFICES ASSUME NEW n
                 PROVE  n \in (on \ {gone}) \union {new} <=>
                          \E g \in Heads : \E k \in 0 .. Len(rows2[g]) : n = Spot(g, rows2[g], k)
      OBVIOUS
    <3>1. \A g \in Heads : (\E k \in 0 .. Len(rows2[g]) : n = Spot(g, rows2[g], k))
                             <=> \E k \in 0 .. Len(rows[g]) : n = Spot(g, rows2[g], k)
      BY <2>1
    <3>2. QED  BY <1>8, <3>1
  <2>4. QED  BY <1>3, <1>6, <2>2, <2>3 DEF Rowed
<1>10. QED  BY <1>9 DEF rows2, t

----------------------------------------------------------------------------
(***************************************************************************)
(* What the functions do to the pointers                                   *)
(***************************************************************************)
LEMMA AddNext ==
    ASSUME NEW m, NEW on, Ringed(m, on), NEW new \in Entries \ on, NEW cur \in on
    PROVE  LET d == add_post(m, new, cur)
           IN  /\ d.next[cur] = new /\ d.next[new] = m.next[cur]
               /\ \A n \in on : n # cur => d.next[n] = m.next[n]
<1> DEFINE x == m.next[cur]  half == Connect(m, new, x)  d == add_post(m, new, cur)
<1>1. /\ m \in Memories /\ m.next \in [Nodes -> Nodes \union {Null}] /\ on \subseteq Nodes
      /\ x \in Nodes /\ cur \in Nodes /\ new \in Nodes /\ new # cur
  BY DEF Ringed, Memories, Nodes
<1>2. half \in Memories /\ half.next = [m.next EXCEPT ![new] = x]
                        /\ half.prev = [m.prev EXCEPT ![x] = new]
  <2>1. half = Connect(m, new, x) /\ m \in Memories /\ new \in Nodes /\ x \in Nodes  BY <1>1
  <2> HIDE DEF half, x
  <2>2. QED  BY ONLY <2>1, Connected
<1>3. d \in Memories /\ d.next = [half.next EXCEPT ![cur] = new]
                     /\ d.prev = [half.prev EXCEPT ![new] = cur]
  <2>1. d = Connect(half, cur, new) /\ half \in Memories /\ cur \in Nodes /\ new \in Nodes
    BY <1>1, <1>2 DEF add_post
  <2> HIDE DEF d, half, x
  <2>2. QED  BY ONLY <2>1, Connected
<1> HIDE DEF d, half
<1>4. QED  BY <1>1, <1>2, <1>3 DEF d

LEMMA DelNext ==
    ASSUME NEW m, NEW on, Ringed(m, on), NEW n \in on
    PROVE  /\ del(m, n).next[m.prev[n]] = m.next[n]
           /\ \A k \in on : k # m.prev[n] => del(m, n).next[k] = m.next[k]
<1> DEFINE p == m.prev[n]  x == m.next[n]  d == del(m, n)
<1>1. /\ m \in Memories /\ m.next \in [Nodes -> Nodes \union {Null}] /\ on \subseteq Nodes
      /\ p \in Nodes /\ x \in Nodes
  BY DEF Ringed, Memories
<1>2. d \in Memories /\ d.next = [m.next EXCEPT ![p] = x] /\ d.prev = [m.prev EXCEPT ![x] = p]
  <2>1. d = Connect(m, p, x) /\ m \in Memories /\ p \in Nodes /\ x \in Nodes  BY <1>1 DEF del
  <2> HIDE DEF d, p, x
  <2>2. QED  BY ONLY <2>1, Connected
<1> HIDE DEF d
<1>3. QED  BY <1>1, <1>2 DEF d

LEMMA InitNext ==
    ASSUME NEW m, NEW on, Ringed(m, on), NEW n \in Nodes \ on
    PROVE  \A k \in on : init_list_node(m, n).next[k] = m.next[k]
<1>1. /\ m \in Memories /\ m.next \in [Nodes -> Nodes \union {Null}] /\ on \subseteq Nodes
  BY DEF Ringed, Memories
<1> DEFINE d == init_list_node(m, n)
<1>2. d \in Memories /\ d.next = [m.next EXCEPT ![n] = n] /\ d.prev = [m.prev EXCEPT ![n] = n]
  <2>1. d = Connect(m, n, n) /\ m \in Memories /\ n \in Nodes  BY <1>1 DEF init_list_node
  <2> HIDE DEF d
  <2>2. QED  BY ONLY <2>1, Connected
<1> HIDE DEF d
<1>3. \A k \in on : d.next[k] = m.next[k]  BY <1>1, <1>2
<1>4. QED  BY <1>3 DEF d

LEMMA ReplaceNext ==
    ASSUME NEW m, NEW on, Good(m, on), NEW old \in on \ Heads, NEW new \in Entries \ on
    PROVE  LET d == replace(m, old, new)
           IN  /\ d.next[m.prev[old]] = new /\ d.next[new] = m.next[old]
               /\ \A n \in on : n # m.prev[old] => d.next[n] = m.next[n]
<1> DEFINE x == m.next[old]  p == m.prev[old]
           half == Connect(m, new, x)
           d == replace(m, old, new)
<1>1. /\ m \in Memories /\ m.next \in [Nodes -> Nodes \union {Null}]
      /\ m.prev \in [Nodes -> Nodes \union {Null}] /\ on \subseteq Nodes
  BY DEF Good, Ringed, Memories
<1>2. PICK rank, owner : Ordered(m, on, rank, owner)
  BY DEF Good
<1>3. x # old
  <2>1. owner[x] = owner[old] /\ (x \notin Heads => rank[x] > rank[old]) /\ rank[old] \in Nat
    BY <1>1, <1>2 DEF Ordered
  <2>2. QED  BY <2>1
<1>4. /\ x \in on /\ p \in on /\ x \in Nodes /\ p \in Nodes
      /\ new \in Nodes /\ new # old /\ new # x /\ new # p /\ old \in Nodes
  BY <1>1 DEF Good, Ringed, Nodes
<1>5. half \in Memories /\ half.next = [m.next EXCEPT ![new] = x] /\ half.prev = [m.prev EXCEPT ![x] = new]
  BY <1>1, <1>4, Connected
<1>6. half.prev[old] = p
  BY <1>1, <1>3, <1>4, <1>5
<1>7. d = Connect(half, p, new)
  BY <1>6 DEF replace
<1> HIDE DEF d, half, x, p
<1>8. d \in Memories /\ d.next = [half.next EXCEPT ![p] = new] /\ d.prev = [half.prev EXCEPT ![new] = p]
  <2>1. half \in Memories /\ p \in Nodes /\ new \in Nodes  BY <1>4, <1>5
  <2>2. QED  BY ONLY <1>7, <2>1, Connected
<1>9. d.next[p] = new /\ d.next[new] = x /\ \A n \in on : n # p => d.next[n] = m.next[n]
  BY <1>1, <1>4, <1>5, <1>8
<1>10. QED  BY <1>9 DEF d, x, p

----------------------------------------------------------------------------
(***************************************************************************)
(* What the functions do to the rows                                       *)
(***************************************************************************)
LEMMA BeforeIs ==
    ASSUME NEW m, NEW on, Ringed(m, on), NEW rows, Rowed(m.next, on, rows),
           NEW h \in Heads, NEW i \in 0 .. Len(rows[h])
    PROVE  /\ Spot(h, rows[h], i) \in on
           /\ m.prev[Spot(h, rows[h], i + 1)] = Spot(h, rows[h], i)
<1>1. Spot(h, rows[h], i) \in on /\ m.next[Spot(h, rows[h], i)] = Spot(h, rows[h], i + 1)
  BY DEF Rowed, Strings
<1>2. QED  BY <1>1 DEF Ringed

LEMMA AddRows ==
    ASSUME NEW m, NEW on, Ringed(m, on), NEW rows, Rowed(m.next, on, rows),
           NEW new \in Entries \ on,
           NEW h \in Heads, NEW i \in 0 .. Len(rows[h])
    PROVE  Rowed(add_post(m, new, Spot(h, rows[h], i)).next, on \union {new},
                 [rows EXCEPT ![h] = InsertAt(@, i + 1, new)])
<1> DEFINE cur == Spot(h, rows[h], i)  d == add_post(m, new, cur)
<1>1. cur \in on  BY BeforeIs
<1> HIDE DEF cur
<1>2. d.next[cur] = new /\ d.next[new] = m.next[cur] /\ \A n \in on : n # cur => d.next[n] = m.next[n]
  BY <1>1, AddNext
<1> HIDE DEF d
<1>3. Rowed(d.next, on \union {new}, [rows EXCEPT ![h] = InsertAt(@, i + 1, new)])
  BY <1>2, InsertRow DEF cur
<1>4. QED  BY <1>3 DEF d, cur

LEMMA DelRows ==
    ASSUME NEW m, NEW on, Ringed(m, on), NEW rows, Rowed(m.next, on, rows),
           NEW h \in Heads, NEW i \in 1 .. Len(rows[h])
    PROVE  Rowed(del(m, rows[h][i]).next, on \ {rows[h][i]}, [rows EXCEPT ![h] = RemoveAt(@, i)])
<1> DEFINE n == rows[h][i]  p == Spot(h, rows[h], i - 1)  d == del(m, n)
<1>1. n = Spot(h, rows[h], i)  BY DEF Spot
<1>2. n \in on /\ m.prev[n] = p
  <2>1. i - 1 \in 0 .. Len(rows[h]) /\ (i - 1) + 1 = i /\ i \in 0 .. Len(rows[h])
    BY DEF Rowed
  <2>2. QED  BY <1>1, <2>1, BeforeIs
<1> HIDE DEF n, p
<1>3. d.next[p] = m.next[n] /\ \A k \in on : k # p => d.next[k] = m.next[k]
  BY <1>2, DelNext
<1> HIDE DEF d
<1>4. Rowed(d.next, on \ {n}, [rows EXCEPT ![h] = RemoveAt(@, i)])
  BY <1>3, RemoveRow DEF n, p
<1>5. QED  BY <1>4 DEF d, n

LEMMA ReplaceRows ==
    ASSUME NEW m, NEW on, Good(m, on), NEW rows, Rowed(m.next, on, rows),
           NEW new \in Entries \ on,
           NEW h \in Heads, NEW i \in 1 .. Len(rows[h])
    PROVE  Rowed(replace(m, rows[h][i], new).next, (on \ {rows[h][i]}) \union {new},
                 [rows EXCEPT ![h] = ReplaceAt(@, i, new)])
<1> DEFINE n == rows[h][i]  p == Spot(h, rows[h], i - 1)  d == replace(m, n, new)
<1>1. n = Spot(h, rows[h], i)  BY DEF Spot
<1>2. n \in on \ Heads /\ m.prev[n] = p
  <2>1. i - 1 \in 0 .. Len(rows[h]) /\ (i - 1) + 1 = i /\ i \in 0 .. Len(rows[h])
    BY DEF Rowed
  <2>2. Ringed(m, on) /\ n \in Entries  BY DEF Good, Rowed
  <2>3. QED  BY <1>1, <2>1, <2>2, BeforeIs, ListAssumption
<1> HIDE DEF n, p
<1>3. d.next[p] = new /\ d.next[new] = m.next[n] /\ \A k \in on : k # p => d.next[k] = m.next[k]
  BY <1>2, ReplaceNext
<1> HIDE DEF d
<1>4. Rowed(d.next, (on \ {n}) \union {new}, [rows EXCEPT ![h] = ReplaceAt(@, i, new)])
  BY <1>3, ReplaceRow DEF n, p
<1>5. QED  BY <1>4 DEF d, n

LEMMA RowsElsewhere ==
    ASSUME NEW ptr, NEW ptr2, NEW on, NEW rows, Rowed(ptr, on, rows), \A n \in on : ptr2[n] = ptr[n]
    PROVE  Rowed(ptr2, on, rows)
  BY DEF Rowed, Strings

----------------------------------------------------------------------------
(***************************************************************************)
(* Every step is one of Rows, or one that Rows does not see                *)
(***************************************************************************)
RowsNow == [h \in Heads |-> Along(mem.next, h)]
RowsOK == Rowed(mem.next, linked, RowsNow)

LEMMA RowsThen ==
    ASSUME NEW rows, Rowed(mem'.next, linked', rows)
    PROVE  RowsOK' /\ RowsNow' = rows
<1>1. rows = [h \in Heads |-> Along(mem'.next, h)]  BY RowsAre
<1>2. RowsNow' = rows  BY <1>1 DEF RowsNow
<1>3. QED  BY <1>2 DEF RowsOK

LEMMA RowInserts ==
    ASSUME NEW h \in Heads, NEW i \in 1 .. Len(RowsNow[h]) + 1, NEW e \in Entries, e \notin In,
           In' = In \union {e}, RowsNow' = [RowsNow EXCEPT ![h] = InsertAt(@, i, e)]
    PROVE  Row!Next
<1>1. Row!Insert(h, i, e)  BY DEF Row!Insert, RowsNow, InsertAt, Row!InsertAt
<1>2. i \in 1 .. Len([g \in Heads |-> Along(mem.next, g)][h]) + 1  BY DEF RowsNow
<1>3. QED  BY <1>1, <1>2 DEF Row!Next

LEMMA RowReplaces ==
    ASSUME NEW h \in Heads, NEW i \in 1 .. Len(RowsNow[h]), NEW e \in Entries, e \notin In,
           In' = (In \ {RowsNow[h][i]}) \union {e}, RowsNow' = [RowsNow EXCEPT ![h] = ReplaceAt(@, i, e)]
    PROVE  Row!Next
<1>1. Row!Replace(h, i, e)  BY DEF Row!Replace, RowsNow, ReplaceAt, Row!ReplaceAt
<1>2. i \in Row!Places(h)  BY DEF RowsNow, Row!Places
<1>3. QED  BY <1>1, <1>2 DEF Row!Next

LEMMA RowLeaves ==
    ASSUME NEW h \in Heads, NEW i \in 1 .. Len(RowsNow[h]),
           In' = In \ {RowsNow[h][i]}, RowsNow' = [RowsNow EXCEPT ![h] = RemoveAt(@, i)]
    PROVE  Row!Next
<1>1. Row!Leave(h, i)  BY DEF Row!Leave, RowsNow, RemoveAt, Row!RemoveAt
<1>2. i \in Row!Places(h)  BY DEF RowsNow, Row!Places
<1>3. QED  BY <1>1, <1>2 DEF Row!Next

Without(h, i) == [RowsNow EXCEPT ![h] = RemoveAt(@, i)]
LEMMA RowMoves ==
    ASSUME NEW h \in Heads, NEW i \in 1 .. Len(RowsNow[h]), NEW k \in Heads,
           NEW j \in 1 .. Len(RowsNow[k]) + 1, j <= Len(Without(h, i)[k]) + 1,
           In' = In, RowsNow' = [Without(h, i) EXCEPT ![k] = InsertAt(@, j, RowsNow[h][i])]
    PROVE  Row!Next
<1>1. Row!Move(h, i, k, j)  BY DEF Row!Move, RowsNow, Without, InsertAt, RemoveAt, Row!InsertAt, Row!RemoveAt
<1>2. i \in Row!Places(h)  BY DEF RowsNow, Row!Places
<1>3. j \in 1 .. Len([g \in Heads |-> Along(mem.next, g)][k]) + 1  BY DEF RowsNow
<1>4. QED  BY <1>1, <1>2, <1>3 DEF Row!Next

Swapped(rows, d, e) ==
    [h \in Heads |-> [i \in 1 .. Len(rows[h]) |->
        IF rows[h][i] = d THEN e ELSE IF rows[h][i] = e THEN d ELSE rows[h][i]]]
LEMMA RowSwaps ==
    ASSUME NEW d \in In, NEW e \in In, In' = In, RowsNow' = Swapped(RowsNow, d, e)
    PROVE  Row!Next
<1>1. Row!Swap(d, e)  BY DEF Row!Swap, Row!Places, RowsNow, Swapped
<1>2. QED  BY <1>1 DEF Row!Next

\* The functions.
LEMMA AddSteps ==
    ASSUME Ringed(mem, linked), RowsOK, NEW new \in Entries \ linked, NEW cur \in linked,
           mem' = add_post(mem, new, cur), linked' = linked \union {new}
    PROVE  RowsOK' /\ Row!Next
<1>1. PICK h \in Heads : \E i \in 0 .. Len(RowsNow[h]) : cur = Spot(h, RowsNow[h], i)
  BY StandsAt DEF RowsOK
<1>2. PICK i \in 0 .. Len(RowsNow[h]) : cur = Spot(h, RowsNow[h], i)
  BY <1>1
<1>3. Rowed(mem'.next, linked', [RowsNow EXCEPT ![h] = InsertAt(@, i + 1, new)])
  BY <1>2, AddRows DEF RowsOK
<1>4. RowsOK' /\ RowsNow' = [RowsNow EXCEPT ![h] = InsertAt(@, i + 1, new)]
  BY <1>3, RowsThen
<1>5. new \notin In /\ In' = In \union {new}
  BY ListAssumption DEF In
<1>6. i + 1 \in 1 .. Len(RowsNow[h]) + 1
  BY DEF RowsOK, Rowed
<1>7. Row!Next  BY <1>4, <1>5, <1>6, RowInserts
<1>8. QED  BY <1>4, <1>7

LEMMA DelSteps ==
    ASSUME Good(mem, linked), RowsOK, NEW n \in linked \ Heads, linked' = linked \ {n},
           mem' \in {del(mem, n), init_list_node(del(mem, n), n)}
    PROVE  RowsOK' /\ Row!Next
<1>1. PICK h \in Heads : \E i \in 1 .. Len(RowsNow[h]) : n = RowsNow[h][i]
  BY StandsAt DEF RowsOK
<1>2. PICK i \in 1 .. Len(RowsNow[h]) : n = RowsNow[h][i]
  BY <1>1
<1> DEFINE rows2 == [RowsNow EXCEPT ![h] = RemoveAt(@, i)]  d == del(mem, n)
<1>3. Rowed(d.next, linked', rows2)
  BY <1>2, DelRows DEF RowsOK, Good
<1>4. Ringed(d, linked') /\ n \in Nodes \ linked'
  <2>1. Good(d, linked')  BY DelGood
  <2>2. n \in Nodes /\ n \notin linked'  BY DEF Good, Ringed
  <2>3. QED  BY <2>1, <2>2 DEF Good
<1> HIDE DEF d
<1>5. Rowed(mem'.next, linked', rows2)
  <2>1. CASE mem' = d  BY <1>3, <2>1
  <2>2. CASE mem' = init_list_node(d, n)
    <3>1. \A k \in linked' : mem'.next[k] = d.next[k]
      BY <1>4, <2>2, InitNext
    <3> HIDE DEF rows2
    <3>2. QED  BY <1>3, <3>1, RowsElsewhere
  <2>3. QED  BY <2>1, <2>2 DEF d
<1>6. RowsOK' /\ RowsNow' = rows2
  BY <1>5, RowsThen
<1>7. In' = In \ {RowsNow[h][i]}
  BY <1>2 DEF In
<1>8. Row!Next  BY <1>6, <1>7, RowLeaves
<1>9. QED  BY <1>6, <1>8

LEMMA ReplaceSteps ==
    ASSUME Good(mem, linked), RowsOK, NEW old \in linked \ Heads, NEW new \in Entries \ linked,
           mem' = replace(mem, old, new), linked' = (linked \ {old}) \union {new}
    PROVE  RowsOK' /\ Row!Next
<1>1. PICK h \in Heads : \E i \in 1 .. Len(RowsNow[h]) : old = RowsNow[h][i]
  BY StandsAt DEF RowsOK
<1>2. PICK i \in 1 .. Len(RowsNow[h]) : old = RowsNow[h][i]
  BY <1>1
<1>3. Rowed(mem'.next, linked', [RowsNow EXCEPT ![h] = ReplaceAt(@, i, new)])
  BY <1>2, ReplaceRows DEF RowsOK
<1>4. RowsOK' /\ RowsNow' = [RowsNow EXCEPT ![h] = ReplaceAt(@, i, new)]
  BY <1>3, RowsThen
<1>5. new \notin In /\ In' = (In \ {RowsNow[h][i]}) \union {new}
  BY <1>2, ListAssumption DEF In
<1>6. Row!Next  BY <1>4, <1>5, RowReplaces
<1>7. QED  BY <1>4, <1>6

LEMMA MoveSteps ==
    ASSUME Good(mem, linked), RowsOK, NEW n \in linked \ Heads, NEW to \in linked \ {n},
           mem' = add_post(del(mem, n), n, to), linked' = linked
    PROVE  RowsOK' /\ Row!Next
<1>1. PICK h \in Heads : \E i \in 1 .. Len(RowsNow[h]) : n = RowsNow[h][i]
  BY StandsAt DEF RowsOK
<1>2. PICK i \in 1 .. Len(RowsNow[h]) : n = RowsNow[h][i]
  BY <1>1
<1> DEFINE d == del(mem, n)  on == linked \ {n}
<1>3. Rowed(d.next, on, Without(h, i))
  BY <1>2, DelRows DEF RowsOK, Good, Without
<1>4. Ringed(d, on) /\ n \in Entries \ on
  <2>1. Good(d, on)  BY DelGood
  <2>2. n \in Entries /\ n \notin on  BY DEF Good, Ringed, Nodes
  <2>3. QED  BY <2>1, <2>2 DEF Good
<1> HIDE DEF d
<1>5. PICK k \in Heads : \E j \in 0 .. Len(Without(h, i)[k]) : to = Spot(k, Without(h, i)[k], j)
  BY <1>3, StandsAt
<1>6. PICK j \in 0 .. Len(Without(h, i)[k]) : to = Spot(k, Without(h, i)[k], j)
  BY <1>5
<1>7. Rowed(mem'.next, linked', [Without(h, i) EXCEPT ![k] = InsertAt(@, j + 1, RowsNow[h][i])])
  <2>1. Rowed(add_post(d, n, to).next, on \union {n}, [Without(h, i) EXCEPT ![k] = InsertAt(@, j + 1, n)])
    BY <1>3, <1>4, <1>6, AddRows
  <2>2. on \union {n} = linked' /\ mem' = add_post(d, n, to)
    BY DEF d
  <2>3. QED  BY <1>2, <2>1, <2>2
<1>8. RowsOK' /\ RowsNow' = [Without(h, i) EXCEPT ![k] = InsertAt(@, j + 1, RowsNow[h][i])]
  BY <1>7, RowsThen
<1>9. j + 1 \in 1 .. Len(RowsNow[k]) + 1 /\ j + 1 <= Len(Without(h, i)[k]) + 1
  <2>1. /\ RowsNow \in [Heads -> Seq(Entries)] /\ Without(h, i) \in [Heads -> Seq(Entries)]
    BY <1>3 DEF RowsOK, Rowed
  <2>2. Len(RemoveAt(RowsNow[h], i)) = Len(RowsNow[h]) - 1
    BY <2>1, Removed
  <2>3. Len(Without(h, i)[k]) <= Len(RowsNow[k]) /\ Len(Without(h, i)[k]) \in Nat /\ Len(RowsNow[k]) \in Nat
    BY <2>1, <2>2 DEF Without
  <2>4. QED  BY <2>3
<1>10. In' = In  BY DEF In
<1>11. Row!Next  BY <1>8, <1>9, <1>10, RowMoves
<1>12. QED  BY <1>8, <1>11

\* e stands at the i-th place of h, and nowhere else.
Standing(rows, h, i, e) ==
    /\ h \in Heads /\ i \in 1 .. Len(rows[h]) /\ e = rows[h][i] /\ e \in Entries
    /\ \A f \in Heads : \A k \in 1 .. Len(rows[f]) : rows[f][k] = e => f = h /\ k = i

\* The rows with one taken out, one in place of another, one put in.
Less(rows, h, i) == [rows EXCEPT ![h] = RemoveAt(@, i)]
Instead(rows, h, i, e) == [rows EXCEPT ![h] = ReplaceAt(@, i, e)]
More(rows, h, i, e) == [rows EXCEPT ![h] = InsertAt(@, i, e)]

\* What swap does to the rows: e is taken out, takes the place of d, and d is
\* put where e was.
LEMMA SwapRow ==
    ASSUME NEW rows \in [Heads -> Seq(Entries)],
           NEW h, NEW i, NEW e, Standing(rows, h, i, e),
           NEW g, NEW j, NEW d, Standing(rows, g, j, d), d # e,
           NEW j1, j1 = IF g = h /\ j > i THEN j - 1 ELSE j,
           NEW rows1, rows1 = Less(rows, h, i),
           NEW rows2, rows2 = Instead(rows1, g, j1, e),
           NEW rows3, rows3 = More(rows2, h, i, d)
    PROVE  /\ rows1 \in [Heads -> Seq(Entries)] /\ j1 \in 1 .. Len(rows1[g]) /\ rows1[g][j1] = d
           /\ rows2 \in [Heads -> Seq(Entries)] /\ i - 1 \in 0 .. Len(rows2[h])
           /\ Spot(h, rows2[h], i - 1) = IF Spot(h, rows[h], i - 1) = d THEN e ELSE Spot(h, rows[h], i - 1)
           /\ rows3 = Swapped(rows, d, e)
<1> USE DEF Standing, Less, Instead, More
<1> DEFINE s == rows[h]  a == RemoveAt(s, i)
<1>1. /\ s \in Seq(Entries) /\ i \in Nat /\ j \in Nat /\ i \in 1 .. Len(s) /\ Len(s) \in Nat
      /\ j >= 1 /\ (g = h => j # i)
      /\ h \in Heads /\ g \in Heads /\ j \in 1 .. Len(rows[g])
      /\ e \in Entries /\ e = s[i] /\ d \in Entries /\ d = rows[g][j]
  OBVIOUS
<1>2. \A f \in Heads : \A k \in 1 .. Len(rows[f]) :
          (rows[f][k] = e => f = h /\ k = i) /\ (rows[f][k] = d => f = g /\ k = j)
  OBVIOUS
<1>3. /\ a \in Seq(Entries) /\ Len(a) = Len(s) - 1
      /\ \A k \in 1 .. Len(s) - 1 : a[k] = IF k < i THEN s[k] ELSE s[k + 1]
  <2> HIDE DEF s
  <2>1. QED  BY <1>1, Removed
<1>4. /\ rows1 \in [Heads -> Seq(Entries)] /\ rows1[h] = a
      /\ \A f \in Heads : f # h => rows1[f] = rows[f]
  BY <1>3
<1> HIDE DEF a
<1>5. j1 \in Nat /\ j1 \in 1 .. Len(rows1[g]) /\ rows1[g][j1] = d
  <2>1. CASE g # h  BY <1>1, <1>4, <2>1
  <2>2. CASE g = h
    <3>1. j \in 1 .. Len(s) /\ j # i /\ s[j] = d  BY <1>1, <2>2
    <3>2. j1 \in 1 .. Len(s) - 1  BY <1>1, <2>2, <3>1
    <3>3. a[j1] = IF j1 < i THEN s[j1] ELSE s[j1 + 1]  BY <1>3, <3>2
    <3>4. (IF j1 < i THEN j1 ELSE j1 + 1) = j  BY <1>1, <2>2, <3>1
    <3>5. a[j1] = d  BY ONLY <3>1, <3>3, <3>4
    <3>6. rows1[g] = a /\ Len(a) = Len(s) - 1  BY <1>3, <1>4, <2>2
    <3>7. QED  BY ONLY <1>1, <3>2, <3>5, <3>6
  <2>3. QED  BY <2>1, <2>2
<1> DEFINE b == rows2[h]
<1>6. /\ rows2 \in [Heads -> Seq(Entries)]
      /\ \A f \in Heads : Len(rows2[f]) = Len(rows1[f])
      /\ \A f \in Heads : \A k \in 1 .. Len(rows1[f]) :
            rows2[f][k] = IF f = g /\ k = j1 THEN e ELSE rows1[f][k]
  <2> DEFINE u == rows1[g]  v == ReplaceAt(u, j1, e)
  <2>1. u \in Seq(Entries) /\ j1 \in 1 .. Len(u)  BY <1>4, <1>5
  <2>2. rows2 = [rows1 EXCEPT ![g] = v]  OBVIOUS
  <2> HIDE DEF u
  <2>3. v \in Seq(Entries) /\ Len(v) = Len(u) /\ \A k \in 1 .. Len(u) : v[k] = IF k = j1 THEN e ELSE u[k]
    BY <2>1 DEF ReplaceAt
  <2> HIDE DEF v
  <2>4. rows2 \in [Heads -> Seq(Entries)] /\ rows2[g] = v /\ \A f \in Heads : f # g => rows2[f] = rows1[f]
    BY ONLY <1>4, <2>2, <2>3, <1>1
  <2>5. QED  BY ONLY <2>3, <2>4 DEF u
<1>7. /\ b \in Seq(Entries) /\ Len(b) = Len(s) - 1
      /\ \A k \in 1 .. Len(s) - 1 : b[k] = IF g = h /\ k = j1 THEN e ELSE a[k]
  BY ONLY <1>3, <1>4, <1>6, <1>1
<1> HIDE DEF b
<1>8. i - 1 \in 0 .. Len(b)
  BY <1>1, <1>7
<1>9. Spot(h, b, i - 1) = IF Spot(h, s, i - 1) = d THEN e ELSE Spot(h, s, i - 1)
  <2>1. CASE i = 1
    <3>1. Spot(h, b, i - 1) = h /\ Spot(h, s, i - 1) = h  BY <1>1, <1>7, <2>1 DEF Spot
    <3>2. h # d  BY ListAssumption
    <3>3. QED  BY <3>1, <3>2
  <2>2. CASE i # 1
    <3> DEFINE k == i - 1
    <3>1. k \in 1 .. Len(s) - 1 /\ k < i /\ k \in 1 .. Len(s)  BY <1>1, <2>2
    <3> HIDE DEF k
    <3>2. Spot(h, b, k) = b[k] /\ Spot(h, s, k) = s[k] /\ a[k] = s[k]
      BY <1>3, <1>7, <3>1 DEF Spot
    <3>3. (g = h /\ k = j1) <=> s[k] = d
      <4>1. s[k] = d => g = h /\ k = j  BY <3>1
      <4>2. QED  BY <1>1, <3>1, <4>1 DEF k
    <3>4. QED  BY <1>7, <3>1, <3>2, <3>3 DEF k
  <2>3. QED  BY <2>1, <2>2
<1> DEFINE c == InsertAt(b, i, d)
<1>10. /\ c \in Seq(Entries) /\ Len(c) = Len(s)
      /\ \A k \in 1 .. Len(s) : c[k] = IF k < i THEN b[k] ELSE IF k = i THEN d ELSE b[k - 1]
  <2>1. i \in 1 .. Len(b) + 1  BY <1>1, <1>7
  <2>2. b \in Seq(Entries) /\ d \in Entries  BY <1>7
  <2>3. c \in Seq(Entries) /\ Len(c) = Len(b) + 1
    BY ONLY <2>1, <2>2, Inserted
  <2>4. ASSUME NEW k \in 1 .. Len(b) + 1
        PROVE  c[k] = IF k < i THEN b[k] ELSE IF k = i THEN d ELSE b[k - 1]
    BY ONLY <2>1, <2>2, Inserted, k \in 1 .. Len(b) + 1
  <2>5. Len(b) + 1 = Len(s)  BY <1>1, <1>7
  <2>6. QED  BY <2>3, <2>4, <2>5
<1>11. rows3[h] = c /\ \A f \in Heads : f # h => rows3[f] = rows2[f]
  BY <1>6 DEF b
<1> HIDE DEF c
<1>12. ASSUME NEW f \in Heads
       PROVE  /\ rows3[f] \in Seq(Entries) /\ Len(rows3[f]) = Len(rows[f])
              /\ \A k \in 1 .. Len(rows[f]) : rows3[f][k] =
                    IF rows[f][k] = d THEN e ELSE IF rows[f][k] = e THEN d ELSE rows[f][k]
  <2>1. CASE f # h
    <3>1. rows3[f] = rows2[f] /\ rows1[f] = rows[f] /\ (f = g => j1 = j)
      BY <1>4, <1>11, <2>1
    <3>2. QED  BY <1>6, <2>1, <3>1
  <2>2. CASE f = h
    <3> SUFFICES ASSUME NEW k \in 1 .. Len(s)
                 PROVE  c[k] = IF s[k] = d THEN e ELSE IF s[k] = e THEN d ELSE s[k]
      BY <1>10, <1>11, <2>2
    <3>1. s[k] = e <=> k = i  OBVIOUS
    <3>2. s[k] = d <=> g = h /\ k = j  OBVIOUS
    <3>3. CASE k < i
      <4>1. k \in 1 .. Len(s) - 1 /\ ((g = h /\ k = j1) <=> (g = h /\ k = j))  BY <1>1, <3>3
      <4>2. c[k] = b[k] /\ a[k] = s[k]  BY <1>3, <1>10, <3>3, <4>1
      <4>3. QED  BY <1>1, <1>7, <3>1, <3>2, <3>3, <4>1, <4>2
    <3>4. CASE k = i
      BY <1>1, <1>10, <3>1, <3>4
    <3>5. CASE k > i
      <4> DEFINE l == k - 1
      <4>1. /\ l \in 1 .. Len(s) - 1 /\ ~(l < i) /\ l + 1 = k
            /\ (g = h /\ l = j1) <=> (g = h /\ k = j)
        BY <1>1, <3>5
      <4> HIDE DEF l
      <4>2. c[k] = b[l] /\ a[l] = s[k]  BY <1>1, <1>3, <1>10, <3>5, <4>1 DEF l
      <4>3. QED  BY <1>1, <1>7, <3>1, <3>2, <3>5, <4>1, <4>2
    <3>6. QED  BY <1>1, <3>3, <3>4, <3>5
  <2>3. QED  BY <2>1, <2>2
<1>13. rows3 = Swapped(rows, d, e)
  <2>1. rows3 = [f \in Heads |-> rows3[f]]  BY <1>6
  <2>2. ASSUME NEW f \in Heads PROVE rows3[f] = Swapped(rows, d, e)[f]
    <3>1. rows3[f] = [k \in 1 .. Len(rows[f]) |-> rows3[f][k]]
      <4> DEFINE t == rows3[f]
      <4>1. t \in Seq(Entries) /\ Len(t) = Len(rows[f])  BY <1>12
      <4> HIDE DEF t
      <4>2. t = [k \in 1 .. Len(rows[f]) |-> t[k]]  BY <4>1
      <4>3. QED  BY <4>2 DEF t
    <3>2. QED  BY ONLY <1>12, <2>2, <3>1 DEF Swapped
  <2>3. QED  BY <2>1, <2>2 DEF Swapped
<1>14. QED  BY <1>4, <1>5, <1>6, <1>8, <1>9, <1>13 DEF b

LEMMA SwapSteps ==
    ASSUME Good(mem, linked), RowsOK, NEW d \in linked \ Heads, NEW e \in linked \ Heads, d # e,
           mem' = swap(mem, d, e), linked' = linked
    PROVE  RowsOK' /\ Row!Next
<1>1. PICK h \in Heads : \E i \in 1 .. Len(RowsNow[h]) : e = RowsNow[h][i]
  BY StandsAt DEF RowsOK
<1>2. PICK i \in 1 .. Len(RowsNow[h]) : e = RowsNow[h][i]
  BY <1>1
<1>3. PICK g \in Heads : \E j \in 1 .. Len(RowsNow[g]) : d = RowsNow[g][j]
  BY StandsAt DEF RowsOK
<1>4. PICK j \in 1 .. Len(RowsNow[g]) : d = RowsNow[g][j]
  BY <1>3
<1> DEFINE rows == RowsNow
           j1 == IF g = h /\ j > i THEN j - 1 ELSE j
           rows1 == [rows EXCEPT ![h] = RemoveAt(@, i)]
           rows2 == [rows1 EXCEPT ![g] = ReplaceAt(@, j1, e)]
           rows3 == [rows2 EXCEPT ![h] = InsertAt(@, i, d)]
           m1 == del(mem, e)
           m2 == replace(m1, d, e)
           p == Spot(h, rows[h], i - 1)
           to == IF p = d THEN e ELSE p
           on1 == linked \ {e}
           on2 == (on1 \ {d}) \union {e}
<1>5. /\ rows \in [Heads -> Seq(Entries)] /\ d \in Entries /\ e \in Entries
      /\ i \in 1 .. Len(rows[h]) /\ i \in Nat
  BY <1>2, <1>4 DEF RowsOK, Rowed
<1>6. Standing(rows, h, i, e) /\ Standing(rows, g, j, d)
  <2>1. ASSUME NEW f \in Heads, NEW k \in 1 .. Len(rows[f])
        PROVE  (rows[f][k] = e => f = h /\ k = i) /\ (rows[f][k] = d => f = g /\ k = j)
    <3>1. /\ Spot(f, rows[f], k) = rows[f][k] /\ Spot(h, rows[h], i) = e /\ Spot(g, rows[g], j) = d
          /\ k \in 0 .. Len(rows[f]) /\ i \in 0 .. Len(rows[h]) /\ j \in 0 .. Len(rows[g])
      BY <1>2, <1>4, <1>5 DEF Spot
    <3>2. QED  BY <3>1 DEF RowsOK, Rowed
  <2>2. QED  BY <1>2, <1>4, <1>5, <2>1 DEF Standing
<1>7. /\ rows1 \in [Heads -> Seq(Entries)] /\ j1 \in 1 .. Len(rows1[g]) /\ rows1[g][j1] = d
      /\ rows2 \in [Heads -> Seq(Entries)] /\ i - 1 \in 0 .. Len(rows2[h])
      /\ Spot(h, rows2[h], i - 1) = to
      /\ rows3 = Swapped(rows, d, e)
  <2> HIDE DEF rows, rows1, rows2, rows3, j1
  <2>1. /\ j1 = IF g = h /\ j > i THEN j - 1 ELSE j
        /\ rows1 = Less(rows, h, i) /\ rows2 = Instead(rows1, g, j1, e)
        /\ rows3 = More(rows2, h, i, d)
    BY DEF rows1, rows2, rows3, j1, Less, Instead, More
  <2>2. QED
    BY ONLY <1>5, <1>6, <2>1, SwapRow, d # e DEF to, p
<1>8. mem.prev[e] = p
  <2>1. e = Spot(h, rows[h], i)  BY <1>2 DEF Spot
  <2>2. i - 1 \in 0 .. Len(rows[h]) /\ (i - 1) + 1 = i  BY <1>5
  <2>3. Ringed(mem, linked) /\ Rowed(mem.next, linked, rows)  BY DEF Good, RowsOK
  <2>4. QED  BY <2>1, <2>2, <2>3, BeforeIs
<1>9. Rowed(m1.next, on1, rows1) /\ Good(m1, on1)
  <2>1. Ringed(mem, linked) /\ Rowed(mem.next, linked, rows)  BY DEF Good, RowsOK
  <2>2. Rowed(m1.next, on1, rows1)  BY <1>2, <2>1, DelRows
  <2>3. QED  BY <2>2, DelGood
<1> HIDE DEF rows, rows1, rows2, rows3, m1, j1
<1>10. Rowed(m2.next, on2, rows2) /\ Good(m2, on2)
  <2>1. d \in on1 \ Heads /\ e \in Entries \ on1  BY <1>5
  <2>2. Rowed(replace(m1, rows1[g][j1], e).next, (on1 \ {rows1[g][j1]}) \union {e},
              [rows1 EXCEPT ![g] = ReplaceAt(@, j1, e)])
    BY <1>7, <1>9, <2>1, ReplaceRows
  <2>3. Good(m2, on2)  BY <1>9, <2>1, ReplaceGood
  <2>4. QED  BY <1>7, <2>2, <2>3 DEF rows2
<1>11. mem' = add_post(m2, d, to)
  BY <1>8 DEF swap, m1
<1> HIDE DEF m2, on2, to
<1>12. Rowed(mem'.next, linked', rows3)
  <2>1. d \in Entries \ on2 /\ on2 \union {d} = linked'
    BY <1>5 DEF on2
  <2>2. Rowed(add_post(m2, d, Spot(h, rows2[h], i - 1)).next, on2 \union {d},
              [rows2 EXCEPT ![h] = InsertAt(@, (i - 1) + 1, d)])
    BY <1>7, <1>10, <2>1, AddRows DEF Good
  <2>3. (i - 1) + 1 = i  BY <1>5
  <2>4. QED  BY <1>7, <1>11, <2>1, <2>2, <2>3 DEF rows3
<1>13. RowsOK' /\ RowsNow' = Swapped(RowsNow, d, e)
  BY <1>7, <1>12, RowsThen DEF rows
<1>14. d \in In /\ e \in In /\ In' = In  BY DEF In
<1>15. Row!Next  BY <1>13, <1>14, RowSwaps
<1>16. QED  BY <1>13, <1>15

\* A step that leaves the rows alone.
LEMMA StillSteps ==
    ASSUME RowsOK, UNCHANGED <<mem, linked>>
    PROVE  RowsOK' /\ UNCHANGED Row!vars
<1>1. RowsNow' = RowsNow  BY DEF RowsNow
<1>2. QED  BY <1>1 DEF RowsOK, RowsNow, Row!vars, In

LEMMA RowsInit == Init => RowsOK /\ Row!Init
<1> SUFFICES ASSUME Init PROVE RowsOK /\ Row!Init
  OBVIOUS
<1> DEFINE rows == [h \in Heads |-> <<>>]
<1>1. linked = Heads /\ \A h \in Heads : mem.next[h] = h
  BY DEF Init, Nodes
<1>2. rows \in [Heads -> Seq(Entries)] /\ \A h \in Heads : Len(rows[h]) = 0 /\ \A i : Spot(h, rows[h], i) = h
  BY DEF Spot
<1> HIDE DEF rows
<1>3. \A h \in Heads : Strings(mem.next, h, rows[h])
  BY <1>1, <1>2 DEF Strings
<1>4. \A h, g \in Heads : \A i \in 0 .. Len(rows[h]), j \in 0 .. Len(rows[g]) :
          Spot(h, rows[h], i) = Spot(g, rows[g], j) => h = g /\ i = j
  BY <1>2
<1>5. \A n : n \in linked <=> \E h \in Heads : \E i \in 0 .. Len(rows[h]) : n = Spot(h, rows[h], i)
  <2>1. \A h \in Heads : 0 \in 0 .. Len(rows[h])  BY <1>2
  <2>2. QED  BY <1>1, <1>2, <2>1
<1>6. Rowed(mem.next, linked, rows)
  BY <1>2, <1>3, <1>4, <1>5 DEF Rowed
<1>7. RowsNow = rows  BY <1>6, RowsAre DEF RowsNow
<1>8. In = {}  BY <1>1 DEF In
<1>9. QED  BY <1>6, <1>7, <1>8 DEF RowsOK, RowsNow, Row!Init, rows

LEMMA RowsNext ==
    ASSUME IInv, RowsOK, [Next]_vars
    PROVE  RowsOK' /\ [Row!Next]_Row!vars
<1> USE ListAssumption
<1>1. Good(mem, linked) /\ Ringed(mem, linked) /\ linked \subseteq Nodes
  BY DEF IInv, Good, Ringed
<1> HIDE DEF RowsOK
<1>2. ASSUME NEW m \in Nodes, NEW n \in Nodes, list_add_post(m, n) PROVE RowsOK' /\ Row!Next
  BY <1>1, <1>2, AddSteps DEF list_add_post, Out
<1>3. ASSUME NEW m \in Nodes, NEW n \in Nodes, list_add_prev(m, n) PROVE RowsOK' /\ Row!Next
  <2>1. /\ m \in Entries \ linked /\ n \in linked
        /\ mem' = add_prev(mem, m, n) /\ linked' = linked \union {m}
    BY <1>3 DEF list_add_prev, Out
  <2>2. mem.prev[n] \in linked /\ add_prev(mem, m, n) = add_post(mem, m, mem.prev[n])
    BY <1>1, <2>1, PrevIsPost
  <2>3. mem' = add_post(mem, m, mem.prev[n])
    BY <2>1, <2>2
  <2>4. QED  BY <1>1, <2>1, <2>2, <2>3, AddSteps
<1>4. ASSUME NEW m \in Nodes, NEW n \in Nodes, list_move(m, n) PROVE RowsOK' /\ Row!Next
  BY <1>1, <1>4, MoveSteps DEF list_move, In
<1>5. ASSUME NEW m \in Nodes, NEW n \in Nodes, list_replace(m, n) PROVE RowsOK' /\ Row!Next
  BY <1>1, <1>5, ReplaceSteps DEF list_replace, In, Out
<1>6. ASSUME NEW m \in Nodes, NEW n \in Nodes, list_swap(m, n) PROVE RowsOK' /\ Row!Next
  BY <1>1, <1>6, SwapSteps DEF list_swap, In
<1>7. ASSUME NEW n \in Nodes, list_del(n) PROVE RowsOK' /\ Row!Next
  BY <1>1, <1>7, DelSteps DEF list_del, In
<1>8. ASSUME NEW n \in Nodes, list_del_init(n) PROVE RowsOK' /\ Row!Next
  BY <1>1, <1>8, DelSteps DEF list_del_init, In
<1>9. CASE Drop
  <2>1. pos \in linked \ Heads
    <3>1. PICK rank, owner : Ordered(mem, linked, rank, owner) /\ Walks(owner)
      BY DEF IInv
    <3>2. QED  BY <1>9, <3>1 DEF Drop, Visits, Walks, Ordered
  <2>2. mem' = init_list_node(del(mem, pos), pos) /\ linked' = linked \ {pos}
    BY <1>9 DEF Drop
  <2>3. QED  BY <1>1, <2>1, <2>2, DelSteps
<1>10. CASE (\E h \in Heads : Begin(h)) \/ Keep \/ End \/ UNCHANGED vars
  <2>1. UNCHANGED <<mem, linked>>  BY <1>10 DEF Begin, Keep, End, vars
  <2>2. QED  BY <2>1, StillSteps
<1>11. QED
  BY <1>2, <1>3, <1>4, <1>5, <1>6, <1>7, <1>8, <1>9, <1>10 DEF Next

\* Whatever functions are called, in any order, what the pointers say is what
\* Rows says: an addition puts one entry in one place and nothing else moves,
\* a removal takes one out, and so on for list_move, list_replace and list_swap
\* (list.h 86-245), for any number of heads and of entries.
THEOREM ListsAreRows == Spec => ImplementsRows
<1>1. Init => IInv /\ RowsOK /\ Row!Init
  BY InitInv, RowsInit
<1>2. IInv /\ RowsOK /\ [Next]_vars => IInv' /\ RowsOK' /\ [Row!Next]_Row!vars
  BY NextInv, RowsNext
<1>3. QED  BY <1>1, <1>2, PTL DEF Spec, ImplementsRows, Row!Spec

----------------------------------------------------------------------------
(***************************************************************************)
(* What the predicates tell of a row                                       *)
(***************************************************************************)
LEMMA ReverseSpots ==
    ASSUME NEW h, NEW s \in Seq(Entries)
    PROVE  /\ Reverse(s) \in Seq(Entries) /\ Len(Reverse(s)) = Len(s)
           /\ \A i \in 0 .. Len(s) + 1 : Spot(h, Reverse(s), i) = Spot(h, s, Len(s) + 1 - i)
<1> DEFINE t == Reverse(s)
<1>1. Len(s) \in Nat  OBVIOUS
<1>2. /\ t \in Seq(Entries) /\ Len(t) = Len(s)
      /\ \A i \in 1 .. Len(s) : t[i] = s[Len(s) - i + 1]
  BY <1>1 DEF Reverse
<1> HIDE DEF t
<1>3. ASSUME NEW i \in 0 .. Len(s) + 1 PROVE Spot(h, t, i) = Spot(h, s, Len(s) + 1 - i)
  <2> DEFINE k == Len(s) + 1 - i
  <2>1. k = Len(s) - i + 1 /\ (k \in 1 .. Len(s) <=> i \in 1 .. Len(s))  BY <1>1
  <2> HIDE DEF k
  <2>2. Spot(h, t, i) = Spot(h, s, k)  BY <1>2, <2>1 DEF Spot
  <2>3. QED  BY <2>2 DEF k
<1>4. QED  BY <1>2, <1>3 DEF t

\* The other way along the pointers.
LEMMA BackAlong ==
    ASSUME Ringed(mem, linked), RowsOK, NEW h \in Heads
    PROVE  Along(mem.prev, h) = Reverse(RowsNow[h])
<1> DEFINE s == RowsNow[h]  t == Reverse(s)
<1>1. s \in Seq(Entries) /\ Len(s) \in Nat  BY DEF RowsOK, Rowed
<1>2. \A i, j \in 0 .. Len(s) : Spot(h, s, i) = Spot(h, s, j) => i = j
  BY DEF RowsOK, Rowed
<1>3. \A i \in 0 .. Len(s) : mem.prev[Spot(h, s, i + 1)] = Spot(h, s, i)
  BY BeforeIs DEF RowsOK
<1> HIDE DEF s
<1>4. /\ t \in Seq(Entries) /\ Len(t) = Len(s)
      /\ \A i \in 0 .. Len(s) + 1 : Spot(h, t, i) = Spot(h, s, Len(s) + 1 - i)
  BY <1>1, ReverseSpots
<1> HIDE DEF t
<1>5. Apart(t)
  <2> SUFFICES ASSUME NEW i \in 1 .. Len(t), NEW j \in 1 .. Len(t), t[i] = t[j] PROVE i = j
    BY DEF Apart
  <2> DEFINE k == Len(s) + 1 - i  l == Len(s) + 1 - j
  <2>1. /\ k \in 0 .. Len(s) /\ l \in 0 .. Len(s)
        /\ i \in 0 .. Len(s) + 1 /\ j \in 0 .. Len(s) + 1
        /\ (k = l => i = j)
    BY <1>1, <1>4
  <2>2. Spot(h, t, i) = Spot(h, s, k) /\ Spot(h, t, j) = Spot(h, s, l)  BY <1>4, <2>1
  <2>3. Spot(h, t, i) = t[i] /\ Spot(h, t, j) = t[j]  BY DEF Spot
  <2> HIDE DEF k, l
  <2>4. QED  BY <1>2, <2>1, <2>2, <2>3
<1>6. Strings(mem.prev, h, t)
  <2> SUFFICES ASSUME NEW i \in 0 .. Len(s) PROVE mem.prev[Spot(h, t, i)] = Spot(h, t, i + 1)
    BY <1>4 DEF Strings
  <2> DEFINE k == Len(s) - i
  <2>1. /\ k \in 0 .. Len(s) /\ Len(s) + 1 - i = k + 1 /\ Len(s) + 1 - (i + 1) = k
        /\ i \in 0 .. Len(s) + 1 /\ i + 1 \in 0 .. Len(s) + 1
    BY <1>1
  <2> HIDE DEF k
  <2>2. Spot(h, t, i) = Spot(h, s, k + 1) /\ Spot(h, t, i + 1) = Spot(h, s, k)  BY <1>4, <2>1
  <2>3. QED  BY <1>3, <2>1, <2>2
<1>7. h \notin Entries  BY ListAssumption
<1>8. Along(mem.prev, h) = t  BY <1>4, <1>5, <1>6, <1>7, RowFound
<1>9. QED  BY <1>8 DEF s, t

LEMMA PredicatesInv == Ringed(mem, linked) /\ RowsOK => PredicatesTell
<1> SUFFICES ASSUME Ringed(mem, linked), RowsOK, NEW h \in Heads
             PROVE  LET r == RowsNow[h]
                    IN  /\ Along(mem.prev, h) = Reverse(r)
                        /\ list_empty(h) <=> r = <<>>
                        /\ list_is_singular(h) <=> Len(r) = 1
                        /\ \A n \in linked \ Heads :
                              /\ list_is_first(n, h) <=> r # <<>> /\ Head(r) = n
                              /\ list_is_tail(n, h) <=> r # <<>> /\ Last(r) = n
  BY DEF PredicatesTell, RowsNow
<1> DEFINE r == RowsNow[h]
<1>1. Along(mem.prev, h) = Reverse(r)  BY BackAlong
<1>2. r \in Seq(Entries) /\ Len(r) \in Nat /\ (r = <<>> <=> Len(r) = 0)
  BY DEF RowsOK, Rowed
<1>3. \A g \in Heads : \A i \in 0 .. Len(r), j \in 0 .. Len(RowsNow[g]) :
          Spot(h, r, i) = Spot(g, RowsNow[g], j) => h = g /\ i = j
  BY DEF RowsOK, Rowed
<1>4. mem.next[h] = Spot(h, r, 1) /\ mem.prev[h] = Spot(h, r, Len(r)) /\ h = Spot(h, r, 0)
  <2>1. 0 \in 0 .. Len(r) /\ Spot(h, r, 0) = h /\ 0 + 1 = 1  BY <1>2 DEF Spot
  <2>2. mem.next[h] = Spot(h, r, 1)  BY <2>1 DEF RowsOK, Rowed, Strings
  <2>3. Len(r) \in 0 .. Len(r) /\ Spot(h, r, Len(r) + 1) = h  BY <1>2 DEF Spot
  <2>4. mem.prev[Spot(h, r, Len(r) + 1)] = Spot(h, r, Len(r))  BY <2>3, BeforeIs DEF RowsOK
  <2>5. QED  BY <2>1, <2>2, <2>3, <2>4
<1>5. ASSUME NEW n \in linked \ Heads
      PROVE  list_is_first(n, h) <=> r # <<>> /\ Head(r) = n
  <2>1. PICK g \in Heads : \E i \in 1 .. Len(RowsNow[g]) : n = RowsNow[g][i]
    BY StandsAt DEF RowsOK
  <2>2. PICK i \in 1 .. Len(RowsNow[g]) : n = RowsNow[g][i]
    BY <2>1
  <2> DEFINE k == i - 1
  <2>3. Len(RowsNow[g]) \in Nat  BY DEF RowsOK, Rowed
  <2>4. k \in 0 .. Len(RowsNow[g]) /\ k + 1 = i /\ n = Spot(g, RowsNow[g], i)
    BY <2>2, <2>3 DEF Spot
  <2> HIDE DEF k
  <2>5. mem.prev[n] = Spot(g, RowsNow[g], k)  BY <2>4, BeforeIs DEF RowsOK
  <2>6. list_is_first(n, h) <=> g = h /\ k = 0
    <3>1. 0 \in 0 .. Len(r)  BY <1>2
    <3>2. QED  BY <1>3, <1>4, <2>4, <2>5, <3>1 DEF list_is_first
  <2>7. (g = h /\ k = 0) <=> r # <<>> /\ Head(r) = n
    <3>1. ASSUME g = h, k = 0 PROVE r # <<>> /\ Head(r) = n
      <4>1. i = 1  BY ONLY <2>4, <3>1
      <4>2. n = r[i] /\ i \in 1 .. Len(r)  BY <2>2, <3>1
      <4> HIDE DEF r
      <4>3. QED  BY <1>2, <4>1, <4>2
    <3>2. ASSUME r # <<>>, Head(r) = n PROVE g = h /\ k = 0
      <4>1. 1 \in 1 .. Len(r) /\ 1 \in 0 .. Len(r) /\ r[1] = n  BY <1>2, <3>2
      <4>2. Spot(h, r, 1) = n  BY <4>1 DEF Spot
      <4>3. i \in 0 .. Len(RowsNow[g])  BY <2>3
      <4>4. h = g /\ 1 = i  BY <1>3, <2>4, <4>1, <4>2, <4>3
      <4>5. QED  BY <4>4 DEF k
    <3>3. QED  BY <3>1, <3>2
  <2>8. QED  BY <2>6, <2>7
<1> HIDE DEF r
<1>6. list_empty(h) <=> r = <<>>
  <2>1. r # <<>> => 1 \in 1 .. Len(r) /\ r[1] \in Entries  BY <1>2
  <2>2. QED  BY <1>2, <1>4, <2>1, ListAssumption DEF list_empty, Spot
<1>7. list_is_singular(h) <=> Len(r) = 1
  <2>1. CASE r = <<>>  BY <1>2, <1>6, <2>1 DEF list_is_singular
  <2>2. CASE r # <<>>
    <3>1. 1 \in 0 .. Len(r) /\ Len(r) \in 0 .. Len(r)  BY <1>2, <2>2
    <3>2. mem.next[h] = mem.prev[h] <=> Len(r) = 1
      BY <1>3, <1>4, <3>1 DEF r
    <3>3. QED  BY <1>6, <2>2, <3>2 DEF list_is_singular
  <2>3. QED  BY <2>1, <2>2
<1>8. ASSUME NEW n \in linked \ Heads
      PROVE  list_is_tail(n, h) <=> r # <<>> /\ Last(r) = n
  <2>1. CASE r = <<>>
    BY <1>2, <1>4, <1>8, <2>1 DEF list_is_tail, Spot
  <2>2. CASE r # <<>>
    <3>1. Len(r) \in 1 .. Len(r)  BY <1>2, <2>2
    <3>2. mem.prev[h] = Last(r)  BY <1>4, <3>1 DEF Spot, Last
    <3>3. QED  BY <2>2, <3>2 DEF list_is_tail
  <2>3. QED  BY <2>1, <2>2
<1>9. QED  BY <1>1, <1>5, <1>6, <1>7, <1>8 DEF r

\* Whatever functions are called, list_empty() and the predicates beside it
\* (list.h 46-84) tell the length and the ends of the list, and the list reads
\* the same along either pointer, for any number of heads and of entries.
THEOREM PredicatesAreRight == Spec => []PredicatesTell
<1>1. Init => IInv /\ RowsOK
  BY InitInv, RowsInit
<1>2. IInv /\ RowsOK /\ [Next]_vars => IInv' /\ RowsOK'
  BY NextInv, RowsNext
<1>3. IInv /\ RowsOK => PredicatesTell
  BY PredicatesInv DEF IInv
<1>4. QED  BY <1>1, <1>2, <1>3, PTL DEF Spec

----------------------------------------------------------------------------
(***************************************************************************)
(* An iteration and the row it began with                                  *)
(***************************************************************************)
\* What is visited is the row so far, and the pointers still lead along the
\* rest of it, whatever the body has taken out.
VisitOK ==
    head # Null =>
        LET k == Len(visited)
        IN  /\ row \in Seq(Entries) /\ Apart(row)
            /\ visited \in Seq(Entries) /\ k <= Len(row)
            /\ \A i \in 1 .. k : visited[i] = row[i]
            /\ pos = Spot(head, row, k + 1)
            /\ \A i \in k + 1 .. Len(row) :
                  row[i] \in linked \ Heads /\ mem.next[row[i]] = Spot(head, row, i + 1)

LEMMA VisitBegins ==
    ASSUME IInv, RowsOK, NEW h \in Heads, Begin(h)
    PROVE  VisitOK'
<1> DEFINE s == RowsNow[h]
<1>1. /\ head' = h /\ pos' = mem.next[h] /\ row' = s /\ visited' = <<>>
      /\ mem' = mem /\ linked' = linked
  BY DEF Begin, RowsNow
<1>2. s \in Seq(Entries) /\ Len(s) \in Nat
  BY DEF RowsOK, Rowed
<1>3. \A i \in 0 .. Len(s) : Spot(h, s, i) \in linked /\ mem.next[Spot(h, s, i)] = Spot(h, s, i + 1)
  BY DEF RowsOK, Rowed, Strings
<1>4. \A i, j \in 0 .. Len(s) : Spot(h, s, i) = Spot(h, s, j) => i = j
  BY DEF RowsOK, Rowed
<1> HIDE DEF s
<1>5. \A i \in 1 .. Len(s) : i \in 0 .. Len(s) /\ Spot(h, s, i) = s[i] /\ s[i] \in Entries
  BY <1>2 DEF Spot
<1>6. Apart(s)
  BY <1>4, <1>5 DEF Apart
<1>7. pos' = Spot(h, s, 1)
  <2>1. 0 \in 0 .. Len(s) /\ Spot(h, s, 0) = h /\ 0 + 1 = 1  BY <1>2 DEF Spot
  <2>2. QED  BY <1>1, <1>3, <2>1
<1>8. \A i \in 1 .. Len(s) : s[i] \in linked \ Heads /\ mem.next[s[i]] = Spot(h, s, i + 1)
  <2> SUFFICES ASSUME NEW i \in 1 .. Len(s)
               PROVE  s[i] \in linked \ Heads /\ mem.next[s[i]] = Spot(h, s, i + 1)
    OBVIOUS
  <2>1. i \in 0 .. Len(s) /\ Spot(h, s, i) = s[i] /\ s[i] \in Entries  BY <1>5
  <2>2. QED  BY <1>3, <2>1, ListAssumption
<1>9. visited' \in Seq(Entries) /\ Len(visited') = 0 /\ 0 + 1 = 1
  BY <1>1
<1>10. QED  BY <1>1, <1>2, <1>6, <1>7, <1>8, <1>9 DEF VisitOK

LEMMA VisitGoesOn ==
    ASSUME IInv, VisitOK, Keep \/ Drop
    PROVE  VisitOK'
<1> USE ListAssumption
<1> DEFINE k == Len(visited)
<1>1. /\ head # Null /\ pos # head /\ visited' = Append(visited, pos) /\ head' = head /\ row' = row
      /\ pos' = ahead
  BY DEF Keep, Drop, Visits, Advance
<1>2. /\ row \in Seq(Entries) /\ Apart(row) /\ Len(row) \in Nat
      /\ visited \in Seq(Entries) /\ k \in Nat /\ k <= Len(row)
      /\ \A i \in 1 .. k : visited[i] = row[i]
      /\ pos = Spot(head, row, k + 1)
      /\ \A i \in k + 1 .. Len(row) :
            row[i] \in linked \ Heads /\ mem.next[row[i]] = Spot(head, row, i + 1)
  BY <1>1 DEF VisitOK
<1>3. head \in Heads /\ ahead = mem.next[pos]
  BY <1>1 DEF IInv, Walks
<1> HIDE DEF k
<1>4. k + 1 \in 1 .. Len(row) /\ pos = row[k + 1] /\ k + 1 \in k + 1 .. Len(row) /\ pos \in linked \ Heads
  <2>1. k + 1 \in 1 .. Len(row) /\ pos = row[k + 1]  BY <1>1, <1>2 DEF Spot
  <2>2. k + 1 \in k + 1 .. Len(row)  BY <1>2, <2>1
  <2>3. QED  BY <1>2, <2>1, <2>2
<1>5. pos' = Spot(head, row, k + 2)
  <2>1. (k + 1) + 1 = k + 2  BY <1>2
  <2>2. QED  BY <1>1, <1>2, <1>3, <1>4, <2>1
<1>6. /\ visited' \in Seq(Entries) /\ Len(visited') = k + 1
      /\ \A i \in 1 .. k + 1 : visited'[i] = row[i]
  <2>1. pos \in Entries  BY <1>2, <1>4
  <2>2. /\ visited' \in Seq(Entries) /\ Len(visited') = k + 1
        /\ \A i \in 1 .. k + 1 : visited'[i] = IF i = k + 1 THEN pos ELSE visited[i]
    BY <1>1, <1>2, <2>1 DEF k
  <2>3. QED  BY <1>2, <1>4, <2>2
<1>7. ASSUME NEW i \in k + 2 .. Len(row)
      PROVE  row[i] \in linked' \ Heads /\ mem'.next[row[i]] = Spot(head, row, i + 1)
  <2>1. i \in k + 1 .. Len(row) /\ i \in 1 .. Len(row) /\ i # k + 1 /\ i + 1 # k + 1  BY <1>2
  <2>2. row[i] \in linked \ Heads /\ mem.next[row[i]] = Spot(head, row, i + 1) /\ row[i] # pos
    BY <1>2, <1>4, <2>1 DEF Apart
  <2>3. CASE Keep  BY <2>2, <2>3 DEF Keep
  <2>4. CASE Drop
    <3>1. mem' = init_list_node(del(mem, pos), pos) /\ linked' = linked \ {pos}
      BY <2>4 DEF Drop
    <3>2. Good(mem, linked)  BY DEF IInv, Good
    <3>3. Ringed(mem, linked) /\ linked \subseteq Nodes /\ mem.next[mem.prev[pos]] = pos
      BY <1>4, <3>2 DEF Good, Ringed
    <3>4. Spot(head, row, i + 1) # pos
      <4>1. CASE i + 1 \in 1 .. Len(row)  BY <1>2, <1>4, <2>1, <4>1 DEF Apart, Spot
      <4>2. CASE i + 1 \notin 1 .. Len(row)  BY <1>1, <4>2 DEF Spot
      <4>3. QED  BY <4>1, <4>2
    <3>5. row[i] # mem.prev[pos]  BY <2>2, <3>3, <3>4
    <3> DEFINE d == del(mem, pos)
    <3>6. d.next[row[i]] = mem.next[row[i]]  BY <1>4, <2>2, <3>3, <3>5, DelNext
    <3>7. Ringed(d, linked \ {pos}) /\ pos \in Nodes \ (linked \ {pos})
      <4>1. Good(d, linked \ {pos})  BY <1>4, <3>2, DelGood
      <4>2. QED  BY <1>4, <3>3, <4>1 DEF Good
    <3> HIDE DEF d
    <3>8. row[i] \in linked \ {pos}  BY <2>2
    <3>9. init_list_node(d, pos).next[row[i]] = d.next[row[i]]  BY <3>7, <3>8, InitNext
    <3>10. QED  BY <2>2, <3>1, <3>6, <3>8, <3>9 DEF d
  <2>5. QED  BY <2>3, <2>4
<1>8. (k + 1) + 1 = k + 2 /\ k + 1 <= Len(row)  BY <1>2, <1>4
<1>9. QED  BY <1>1, <1>2, <1>5, <1>6, <1>7, <1>8 DEF VisitOK

LEMMA VisitNext == IInv /\ RowsOK /\ VisitOK /\ [Next]_vars => VisitOK'
<1> SUFFICES ASSUME IInv, RowsOK, VisitOK, [Next]_vars PROVE VisitOK'
  OBVIOUS
<1>1. CASE \E h \in Heads : Begin(h)  BY <1>1, VisitBegins
<1>2. CASE Keep \/ Drop  BY <1>2, VisitGoesOn
<1>3. CASE UNCHANGED vars  BY <1>3 DEF vars, VisitOK
<1>4. CASE head' = Null  BY <1>4 DEF VisitOK
<1>5. [Next]_vars => \/ \E h \in Heads : Begin(h)
                     \/ Keep \/ Drop \/ UNCHANGED vars \/ head' = Null
  BY DEF Next, End, Idle, iteration, list_add_post, list_add_prev, list_move, list_replace,
         list_swap, list_del, list_del_init
<1>6. QED  BY <1>1, <1>2, <1>3, <1>4, <1>5

LEMMA VisitTells == IInv /\ VisitOK => VisitsAll
<1> SUFFICES ASSUME IInv, VisitOK, head # Null
             PROVE  /\ IsPrefix(visited, row)
                    /\ pos = head <=> Len(visited) = Len(row)
                    /\ pos # head => pos = row[Len(visited) + 1]
  BY DEF VisitsAll
<1> DEFINE k == Len(visited)
<1>1. /\ row \in Seq(Entries) /\ visited \in Seq(Entries)
      /\ Len(row) \in Nat /\ k \in Nat /\ k <= Len(row)
      /\ \A i \in 1 .. k : visited[i] = row[i]
      /\ pos = Spot(head, row, k + 1)
      /\ \A i \in k + 1 .. Len(row) : row[i] \in linked \ Heads
      /\ head \notin Entries
  BY ListAssumption DEF VisitOK, IInv, Walks
<1> HIDE DEF k
<1>2. IsPrefix(visited, row)
  <2>1. SubSeq(visited, 1, k) = SubSeq(row, 1, k)
    <3>1. SubSeq(visited, 1, k) = [i \in 1 .. k |-> visited[i]]  BY <1>1
    <3>2. SubSeq(row, 1, k) = [i \in 1 .. k |-> row[i]]  BY <1>1
    <3>3. QED  BY <1>1, <3>1, <3>2
  <2>2. QED  BY <1>1, <2>1 DEF IsPrefix, k
<1>3. CASE k = Len(row)
  <2>1. pos = head  BY <1>1, <1>3 DEF Spot
  <2>2. QED  BY <1>2, <1>3, <2>1 DEF k
<1>4. CASE k # Len(row)
  <2>1. k + 1 \in 1 .. Len(row)  BY <1>1, <1>4
  <2>2. pos = row[k + 1] /\ row[k + 1] \in Entries  BY <1>1, <2>1 DEF Spot
  <2>3. QED  BY <1>1, <1>2, <1>4, <2>2 DEF k
<1>5. QED  BY <1>3, <1>4

\* Whatever the bodies of iterations take out, every entry is visited once and
\* in order (list.h 252-256), for any number of heads and of entries.
THEOREM IterationVisitsAll == Spec => []VisitsAll
<1>1. Init => IInv /\ RowsOK /\ VisitOK
  BY InitInv, RowsInit DEF Init, VisitOK
<1>2. IInv /\ RowsOK /\ VisitOK /\ [Next]_vars => IInv' /\ RowsOK' /\ VisitOK'
  BY NextInv, RowsNext, VisitNext
<1>3. IInv /\ VisitOK => VisitsAll
  BY VisitTells
<1>4. QED  BY <1>1, <1>2, <1>3, PTL DEF Spec
=============================================================================

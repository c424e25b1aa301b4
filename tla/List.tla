-------------------------------- MODULE List --------------------------------
(***************************************************************************)
(* The circular, doubly linked list of man/list.h, which holds the         *)
(* manager's sessions: the pointers of heads and entries, and what each    *)
(* function writes to them.                                                *)
(***************************************************************************)
EXTENDS Naturals, Sequences, FiniteSets, SequencesExt, FiniteSetsExt

CONSTANTS
    Heads,   \* list heads
    Entries, \* entries of any list
    Null     \* a pointer that was never written

Nodes == Heads \union Entries
ASSUME ListAssumption == Heads \intersect Entries = {} /\ Null \notin Nodes
\* They are in memory.
ASSUME EntriesAssumption == IsFiniteSet(Entries)

VARIABLES
    mem,     \* the pointers: mem.next[n], mem.prev[n]
    linked,  \* history: the nodes that are in a list, the heads included
    head,    \* the list that is iterated over with list_for_each_entry_safe, or Null
    pos,     \* its cursor
    ahead,   \* the entry after it, read in advance
    row,     \* history: the list when the iteration began
    visited  \* history: the entries visited
vars == <<mem, linked, head, pos, ahead, row, visited>>
iteration == <<head, pos, ahead, row, visited>>

Memories == [next : [Nodes -> Nodes \union {Null}], prev : [Nodes -> Nodes \union {Null}]]

\* b comes after a.
Connect(m, a, b) == [m EXCEPT !.next[a] = b, !.prev[b] = a]

list_empty(h) == mem.next[h] = h
\* Mutant: the empty list is forgotten.
SingularOrEmpty(h) == mem.next[h] = mem.prev[h]

list_is_singular(h) == ~list_empty(h) /\ mem.next[h] = mem.prev[h]
list_is_tail(n, h) == mem.prev[h] = n
list_is_first(n, h) == mem.prev[n] = h

init_list_node(m, n) == Connect(m, n, n)

add_post(m, new, cur) == Connect(Connect(m, new, m.next[cur]), cur, new)
add_prev(m, new, cur) == Connect(Connect(m, m.prev[cur], new), new, cur)

\* Mutant: only one of the neighbours is told.
DelOneWay(m, n) == [m EXCEPT !.next[m.prev[n]] = m.next[n]]

\* __list_del: n itself is left as it is.
del(m, n) == Connect(m, m.prev[n], m.next[n])

replace(m, old, new) ==
    LET half == Connect(m, new, m.next[old]) IN Connect(half, half.prev[old], new)

\* Mutant: entries that stand next to each other are not seen to.
SwapApart(m, d, e) == add_post(replace(del(m, e), d, e), d, m.prev[e])

swap(m, d, e) ==
    add_post(replace(del(m, e), d, e), d, IF m.prev[e] = d THEN e ELSE m.prev[e])

Init ==
    /\ mem = [next |-> [n \in Nodes |-> IF n \in Heads THEN n ELSE Null],
              prev |-> [n \in Nodes |-> IF n \in Heads THEN n ELSE Null]]
    /\ linked = Heads
    /\ head = Null /\ pos = Null /\ ahead = Null
    /\ row = <<>> /\ visited = <<>>

----------------------------------------------------------------------------
(***************************************************************************)
(* The functions, called as they may be: an entry is added that is in no   *)
(* list, next to a node that is; one is taken out that is in one.          *)
(***************************************************************************)
Idle == head = Null /\ UNCHANGED iteration
In == linked \ Heads
Out == Entries \ linked

list_add_post(new, cur) ==
    /\ Idle /\ new \in Out /\ cur \in linked
    /\ mem' = add_post(mem, new, cur) /\ linked' = linked \union {new}

list_add_prev(new, cur) ==
    /\ Idle /\ new \in Out /\ cur \in linked
    /\ mem' = add_prev(mem, new, cur) /\ linked' = linked \union {new}

list_del(n) ==
    /\ Idle /\ n \in In
    /\ mem' = del(mem, n) /\ linked' = linked \ {n}

list_del_init(n) ==
    /\ Idle /\ n \in In
    /\ mem' = init_list_node(del(mem, n), n) /\ linked' = linked \ {n}

list_move(n, to) ==
    /\ Idle /\ n \in In /\ to \in linked \ {n}
    /\ mem' = add_post(del(mem, n), n, to) /\ UNCHANGED linked

list_replace(old, new) ==
    /\ Idle /\ old \in In /\ new \in Out
    /\ mem' = replace(mem, old, new) /\ linked' = (linked \ {old}) \union {new}

list_swap(d, e) ==
    /\ Idle /\ d \in In /\ e \in In \ {d}
    /\ mem' = swap(mem, d, e) /\ UNCHANGED linked

----------------------------------------------------------------------------
(***************************************************************************)
(* list_for_each_entry_safe, whose body may delete the entry it visits     *)
(***************************************************************************)
\* The entries from h on along the pointers, until they lead back to h.
Along(ptr, h) ==
    LET n == Cardinality(Entries)
        At[k \in 0 .. n + 1] == IF k = 0 THEN h ELSE ptr[At[k - 1]]
        Back == {k \in 0 .. n : At[k + 1] = h}
    IN  [k \in 1 .. (IF Back = {} THEN n ELSE Min(Back)) |-> At[k]]

Begin(h) ==
    /\ head = Null /\ head' = h
    /\ pos' = mem.next[h] /\ ahead' = mem.next[mem.next[h]]
    /\ row' = Along(mem.next, h) /\ visited' = <<>>
    /\ UNCHANGED <<mem, linked>>

Visits == head # Null /\ pos # head /\ visited' = Append(visited, pos) /\ UNCHANGED <<head, row>>

\* Mutant: the next entry is looked up when the body is done.
AdvanceLate == pos' = mem'.next[pos] /\ ahead' = mem'.next[pos']

Advance == pos' = ahead /\ ahead' = mem'.next[ahead]

Keep == Visits /\ UNCHANGED <<mem, linked>> /\ Advance
Drop == Visits /\ mem' = init_list_node(del(mem, pos), pos) /\ linked' = linked \ {pos} /\ Advance

End == 
    /\ head # Null /\ pos = head
    /\ head' = Null /\ pos' = Null /\ ahead' = Null /\ row' = <<>> /\ visited' = <<>>
    /\ UNCHANGED <<mem, linked>>

----------------------------------------------------------------------------
Next ==
    \/ \E m, n \in Nodes :
          list_add_post(m, n) \/ list_add_prev(m, n) \/ list_move(m, n) \/ list_replace(m, n)
          \/ list_swap(m, n)
    \/ \E n \in Nodes : list_del(n) \/ list_del_init(n)
    \/ (\E h \in Heads : Begin(h)) \/ Keep \/ Drop \/ End

Spec == Init /\ [][Next]_vars

----------------------------------------------------------------------------

\* From a node in a list both pointers lead to nodes in lists and from there
\* back again, whatever deleted entries still point to (list.h 86-245).
Rings ==
    \A n \in linked :
        /\ mem.next[n] \in linked /\ mem.prev[mem.next[n]] = n
        /\ mem.prev[n] \in linked /\ mem.next[mem.prev[n]] = n

\* The list's predicates tell its length and its ends (list.h 46-84), whichever
\* way it is walked.
PredicatesTell ==
    \A h \in Heads :
        LET r == Along(mem.next, h)
        IN  /\ Along(mem.prev, h) = Reverse(r)
            /\ list_empty(h) <=> r = <<>>
            /\ list_is_singular(h) <=> Len(r) = 1
            /\ \A n \in linked \ Heads :
                  /\ list_is_first(n, h) <=> r # <<>> /\ Head(r) = n
                  /\ list_is_tail(n, h) <=> r # <<>> /\ Last(r) = n

\* A safe iteration visits every entry once and in order, though its body takes
\* entries out (list.h 252-256).
VisitsAll ==
    head # Null =>
        /\ IsPrefix(visited, row)
        /\ pos = head <=> Len(visited) = Len(row)
        /\ pos # head => pos = row[Len(visited) + 1]

\* The pointers implement rows of entries.
Row == INSTANCE Rows WITH rows     <- [h \in Heads |-> Along(mem.next, h)],
                          standing <- In
ImplementsRows == Row!Spec
=============================================================================

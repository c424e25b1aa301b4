-------------------------------- MODULE Rows --------------------------------
(***************************************************************************)
(* What the lists of man/list.h are to those who use them: each head has a *)
(* row of entries, and no entry is in two places.                          *)
(***************************************************************************)
EXTENDS Naturals, Sequences, SequencesExt

CONSTANTS Heads, Entries

VARIABLES
    rows,     \* rows[h]: the entries of h's list
    standing  \* the entries that are in some list
vars == <<rows, standing>>

Init == rows = [h \in Heads |-> <<>>] /\ standing = {}

Places(h) == 1 .. Len(rows[h])

Insert(h, i, e) ==
    /\ e \notin standing /\ standing' = standing \union {e}
    /\ rows' = [rows EXCEPT ![h] = InsertAt(@, i, e)]

Leave(h, i) ==
    /\ standing' = standing \ {rows[h][i]}
    /\ rows' = [rows EXCEPT ![h] = RemoveAt(@, i)]

Replace(h, i, e) ==
    /\ e \notin standing /\ standing' = (standing \ {rows[h][i]}) \union {e}
    /\ rows' = [rows EXCEPT ![h] = ReplaceAt(@, i, e)]

\* The entry at place i of row h goes to place j of what is then row k.
Move(h, i, k, j) ==
    LET without == [rows EXCEPT ![h] = RemoveAt(@, i)]
    IN  /\ j <= Len(without[k]) + 1
        /\ rows' = [without EXCEPT ![k] = InsertAt(@, j, rows[h][i])]
        /\ UNCHANGED standing

Swap(d, e) ==
    /\ rows' = [h \in Heads |-> [i \in Places(h) |->
                  IF rows[h][i] = d THEN e ELSE IF rows[h][i] = e THEN d ELSE rows[h][i]]]
    /\ UNCHANGED standing

Next ==
    \/ \E h \in Heads, e \in Entries :
          \/ \E i \in 1 .. Len(rows[h]) + 1 : Insert(h, i, e)
          \/ \E i \in Places(h) : Replace(h, i, e)
    \/ \E h, k \in Heads : \E i \in Places(h) :
          Leave(h, i) \/ \E j \in 1 .. Len(rows[k]) + 1 : Move(h, i, k, j)
    \/ \E d, e \in standing : Swap(d, e)

Spec == Init /\ [][Next]_vars
=============================================================================

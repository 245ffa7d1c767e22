------------------------------- MODULE Cells -------------------------------
(***************************************************************************)
(* What the node page promises of its cells: a choice puts the ids and the *)
(* names of the same rows side by side, typing changes the ids of one cell *)
(* only, and a table that is loaded shows what is stored.                  *)
(***************************************************************************)
CONSTANTS Tasks, Kinds, Selections, Typed, Stored

VARIABLE cells

vars == <<cells>>

Pair(c) == [ids |-> c, names |-> c]

Init == cells = Stored

Choose(t, k) == \E c \in Selections[k] : cells' = [cells EXCEPT ![t][k] = Pair(c)]

Type(t, k) == \E x \in Typed : cells' = [cells EXCEPT ![t][k].ids = x]

Load == cells' = Stored

Next == Load \/ \E t \in Tasks, k \in Kinds : Choose(t, k) \/ Type(t, k)

Spec == Init /\ [][Next]_vars

=============================================================================

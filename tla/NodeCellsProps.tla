--------------------------- MODULE NodeCellsProps ---------------------------
(* What is claimed of the cells of the node page. *)
EXTENDS NodeCells

(* Every variable keeps its type; a cell of users never holds groups. *)
Calls   == [task : Tasks, rendering : Nat]
Inputs  == UNION {[task : Tasks, kind : {k}, text : Texts(k)] : k \in Kinds}

TypeOK ==
  /\ cells \in CellTables
  /\ shown \in BOOLEAN
  /\ rendering \in Nat
  /\ input \in Inputs \cup {NoInput}
  /\ tables \in Nat
  /\ coming \subseteq [div : Nat, kind : Kinds, task : Tasks, rendering : Nat]
  /\ dialogs \in [Kinds -> Seq(Popup(Calls))]
  /\ listing \subseteq [from : Nat, into : Nat]
  /\ listed \subseteq Nat
  /\ stuck \in BOOLEAN
  /\ sends \in 0..MaxSends
  /\ history \in [doubled : BOOLEAN, astray : BOOLEAN]

(* The input holds the text the cell had when it was clicked (bpmn.js:27, 55) and      *)
(* writes it back when the focus leaves it (bpmn.js:68-72).  It never does so after a  *)
(* choice: unless a cell is as it was stored, the names beside the ids are those of    *)
(* the same choice, or the ids were typed by hand.                                     *)
NamesMatchIds ==
  \A t \in Tasks, k \in Kinds :
    \/ cells[t][k].ids \in Typed
    \/ cells[t][k].ids = cells[t][k].names
    \/ cells[t][k] = Stored[t][k]

(* Every dialog has the same ids, and a later one replaces the callback of the first   *)
(* (bpmn.js:12).  A choice still goes to the task its dialog was asked for, unless two *)
(* dialogs of the kind were asked for at once.                                         *)
LandsWhereAsked == history.astray => history.doubled

(* Whatever arrives when, each cell only ever changes by a whole choice, by typing, or *)
(* by a table that is loaded.                                                          *)
C == INSTANCE Cells
ImplementsCells == C!Spec

=============================================================================

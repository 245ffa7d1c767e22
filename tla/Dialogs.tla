------------------------------ MODULE Dialogs ------------------------------
(***************************************************************************)
(* The dialogs of main.html as they lie in the document.  load(url, data,  *)
(* null, callback) of common.js appends an empty <div> and fills it when   *)
(* the answer arrives.  Every dialog of one kind has the same element ids, *)
(* and $("#id") finds the first in the document: the script that comes     *)
(* with a dialog works on the first dialog, which need not be its own.     *)
(***************************************************************************)
EXTENDS Integers, SequencesExt

(* A dialog: the number of its <div> (in the order of the calls of load),  *)
(* what it was asked for (a history), whether it is open, how often the     *)
(* script has bound its handlers to it, and what its data("callback") is to *)
(* do; without handlers it has no callback yet.                             *)
Dialog(div, callback) ==
  [div |-> div, for |-> callback, open |-> FALSE, handlers |-> 0, callback |-> callback]

Popup(callbacks) ==
  [div : Nat, for : callbacks, open : BOOLEAN, handlers : Nat, callback : callbacks]

(* The answer is put into its <div>, wherever that is in the document. *)
Placed(ds, d) == InsertAt(ds, Cardinality({i \in DOMAIN ds : ds[i].div < d.div}) + 1, d)

OpenedItself(ds, div, callback) ==   (* a variant the properties reject *)
  [e \in DOMAIN Placed(ds, Dialog(div, callback)) |->
     LET d == Placed(ds, Dialog(div, callback))[e] IN
     IF d.div = div THEN [d EXCEPT !.open = TRUE, !.handlers = 1, !.callback = callback] ELSE d]
(* The script opens the first dialog, binds its handlers, and the caller's *)
(* function becomes its callback.                                          *)
Scripted(d, callback) ==
  [d EXCEPT !.open = TRUE, !.handlers = d.handlers + 1, !.callback = callback]

Opened(ds, div, callback) ==
  LET all == Placed(ds, Dialog(div, callback)) IN
  [all EXCEPT ![1] = Scripted(all[1], callback)]

(* hidden.bs.modal of dialog i: each of its handlers removes the first dialog. *)
HiddenStays(ds, i) == [ds EXCEPT ![i].open = FALSE]   (* a variant the properties reject *)
Hidden(ds, i) ==
  SubSeq([ds EXCEPT ![i].open = FALSE], ds[i].handlers + 1, Len(ds))

(* A dialog removed while it is open leaves its backdrop over the page. *)
LeavesBackdrop(ds, i) == \E j \in 1..Len(ds) : j <= ds[i].handlers /\ j # i /\ ds[j].open

(* While one is open the page behind it cannot be clicked; of two, the later one in *)
(* the document lies over the other.                                               *)
NoneOpen(ds) == \A i \in DOMAIN ds : ~ds[i].open
IsTop(ds, i) == ds[i].open /\ \A j \in DOMAIN ds : ds[j].open => j <= i

=============================================================================

----------------------------- MODULE NodeCells -----------------------------
(***************************************************************************)
(* The cells of the node page and the dialogs that fill them (bpmn.js,     *)
(* user/choose.js, group/choose.js, config.js).  A click on a cell puts an *)
(* input into it; a click on the input loads the dialog for that cell; the *)
(* focus leaving the input writes its text back.  Every answer takes its   *)
(* time, and the table may be loaded anew in the meantime: a dialog keeps  *)
(* the cell it was opened for, in the document or not.                     *)
(*                                                                         *)
(* A choice stands for the rows that are checked, on either side: their    *)
(* ids and their names.                                                    *)
(***************************************************************************)
EXTENDS Dialogs

CONSTANTS
  Tasks,     (* the user tasks of the definition; other nodes take no click *)
  NoTask,
  Selections,(* Selections[k]: what may be checked in a dialog of kind k    *)
  Typed,     (* texts that may be typed by hand                             *)
  Stored,    (* the cells as the server renders them                        *)
  MaxSends   (* bound: dialogs and tables asked for                         *)

Kinds == {"user", "group"}

(* What a cell of a kind may hold, and the tables made of such cells *)
Texts(k) == Typed \cup Selections[k] \cup {""}

CellTables ==
  {c \in [Tasks -> [Kinds -> [ids : UNION {Texts(k) : k \in Kinds},
                             names : UNION {Texts(k) : k \in Kinds}]]] :
     \A t \in Tasks, k \in Kinds : c[t][k] \in [ids : Texts(k), names : Texts(k)]}

ASSUME NodeCellsAssumption ==
  /\ MaxSends \in Nat
  /\ NoTask \notin Tasks
  /\ Stored \in CellTables

VARIABLES
  cells,     (* [ids, names] of each task and kind                          *)
  shown,     (* the table is there, not the text of an error                *)
  rendering, (* tables shown so far; a cell of an earlier one is detached   *)
  input,     (* the input in a cell: [task, kind, text]                     *)
  tables,    (* loads of the table on their way                             *)
  coming,    (* dialogs on their way: [div, kind, task, rendering]          *)
  dialogs,   (* of each kind, those in the document                         *)
  listing,   (* lists of users or groups on their way: [from, into]         *)
  listed,    (* the <div>s of dialogs that show a list                      *)
  stuck,     (* a backdrop without a dialog covers the page                 *)
  sends,     (* dialogs and tables asked for so far                         *)
  history    (* what happened; it guards no action                          *)

vars == <<cells, shown, rendering, input, tables, coming, dialogs, listing, listed, stuck,
          sends, history>>

table  == <<cells, shown, rendering>>
popups == <<coming, dialogs, listing, listed, stuck>>

NoInput == [task |-> NoTask, kind |-> "none", text |-> ""]

Init ==
  /\ cells = Stored
  /\ shown = TRUE
  /\ rendering = 1
  /\ input = NoInput
  /\ tables = 0
  /\ coming = {}
  /\ dialogs = [k \in Kinds |-> <<>>]
  /\ listing = {}
  /\ listed = {}
  /\ stuck = FALSE
  /\ sends = 0
  /\ history = [doubled |-> FALSE,    (* two dialogs of a kind were on their way at once *)
                astray |-> FALSE]     (* a choice went to another task than it was made for *)

-----------------------------------------------------------------------------
(* The cells (bpmn.js) *)

Usable == ~stuck /\ \A k \in Kinds : NoneOpen(dialogs[k])

(* blur: the text of the input becomes the ids of its cell. *)
Blurred ==
  IF input = NoInput THEN cells ELSE [cells EXCEPT ![input.task][input.kind].ids = input.text]

(* The input begins with what the cell holds; another one loses the focus to it. *)
ClickCell(t, k) ==
  /\ Usable
  /\ shown
  /\ cells' = Blurred
  /\ input' = [task |-> t, kind |-> k, text |-> Blurred[t][k].ids]
  /\ UNCHANGED <<shown, rendering, tables, popups, sends, history>>

ClickUserCell(t)  == ClickCell(t, "user")
ClickGroupCell(t) == ClickCell(t, "group")

TypeText(text) ==
  /\ Usable
  /\ input # NoInput
  /\ input' = [input EXCEPT !.text = text]
  /\ UNCHANGED <<table, tables, popups, sends, history>>

Leave ==
  /\ Usable
  /\ input # NoInput
  /\ cells' = Blurred
  /\ input' = NoInput
  /\ UNCHANGED <<shown, rendering, tables, popups, sends, history>>

(* Nothing stops a second click before the first dialog is there. *)
ClickInput ==
  /\ Usable
  /\ input # NoInput
  /\ sends < MaxSends
  /\ sends' = sends + 1
  /\ coming' = coming \cup {[div |-> sends + 1, kind |-> input.kind, task |-> input.task,
                             rendering |-> rendering]}
  /\ history' = [history EXCEPT !.doubled = @ \/ \E d \in coming : d.kind = input.kind]
  /\ UNCHANGED <<table, input, tables, dialogs, listing, listed, stuck>>

(* config.js: the tab of the nodes loads the table; the other one ends in an exception. *)
ClickTab ==
  /\ Usable
  /\ sends < MaxSends
  /\ sends' = sends + 1
  /\ tables' = tables + 1
  /\ cells' = Blurred
  /\ input' = NoInput
  /\ UNCHANGED <<shown, rendering, popups, history>>

(* The table, or the text of an error, takes the place of the old one and its input. *)
TableArrives ==
  /\ tables > 0
  /\ tables' = tables - 1
  /\ cells' = Stored
  /\ shown' \in BOOLEAN
  /\ rendering' = rendering + 1
  /\ input' = NoInput
  /\ UNCHANGED <<popups, sends, history>>

-----------------------------------------------------------------------------
(* The dialogs (choose.js of users and of groups) *)

Place(d) == Opened(dialogs[d.kind], d.div, [task |-> d.task, rendering |-> d.rendering])

(* The dialog takes the focus.  Its script asks for the list, for the first dialog. *)
ArrivesBehindInput(d) ==   (* a variant the properties reject *)
  /\ UNCHANGED <<cells, input>>
  /\ coming' = coming \ {d}
  /\ dialogs' = [dialogs EXCEPT ![d.kind] = Place(d)]
  /\ listing' = listing \cup {[from |-> d.div, into |-> Place(d)[1].div]}
  /\ UNCHANGED <<shown, rendering, tables, listed, stuck, sends, history>>
DialogArrives(d) ==
  /\ cells' = Blurred
  /\ input' = NoInput
  /\ coming' = coming \ {d}
  /\ dialogs' = [dialogs EXCEPT ![d.kind] = Place(d)]
  /\ listing' = listing \cup {[from |-> d.div, into |-> Place(d)[1].div]}
  /\ UNCHANGED <<shown, rendering, tables, listed, stuck, sends, history>>

DialogFails(d) ==
  /\ coming' = coming \ {d}
  /\ UNCHANGED <<table, input, tables, dialogs, listing, listed, stuck, sends, history>>

(* The list, or an error. *)
ListArrives(l) ==
  /\ listing' = listing \ {l}
  /\ listed' \in {listed \cup {l.into}, listed \ {l.into}}
  /\ UNCHANGED <<table, input, tables, coming, dialogs, stuck, sends, history>>

(* Of all dialogs that are open the last in the document takes the clicks. *)
OnTop(k, i) ==
  /\ dialogs[k][i].open
  /\ \A k2 \in Kinds : \A j \in DOMAIN dialogs[k2] :
       dialogs[k2][j].open => dialogs[k2][j].div <= dialogs[k][i].div

(* A list for a dialog that is gone reaches nothing. *)
Hide(k, i) ==
  LET gone == {dialogs[k][j].div : j \in {h \in DOMAIN dialogs[k] : h <= dialogs[k][i].handlers}} IN
  /\ dialogs' = [dialogs EXCEPT ![k] = Hidden(@, i)]
  /\ stuck' = (stuck \/ LeavesBackdrop(dialogs[k], i))
  /\ listed' = listed \ gone
  /\ listing' = {l \in listing : l.into \notin gone}

Cancel(k, i) ==
  /\ OnTop(k, i)
  /\ Hide(k, i)
  /\ UNCHANGED <<table, input, tables, coming, sends, history>>

ChosenIds(cb, k, c) ==   (* variants the properties reject *)
  IF cb.rendering = rendering THEN [cells EXCEPT ![cb.task][k].ids = c] ELSE cells
ChosenForUsers(cb, k, c) ==
  IF cb.rendering = rendering THEN [cells EXCEPT ![cb.task].user = [ids |-> c, names |-> c]] ELSE cells
(* The callback of bpmn.js; a detached cell takes the choice in vain. *)
Chosen(cb, k, c) ==
  IF cb.rendering = rendering THEN [cells EXCEPT ![cb.task][k] = [ids |-> c, names |-> c]] ELSE cells

(* Its rows are checked in the list on top.  They are read from the first list in the *)
(* document, handed to the callback of the first dialog, and the first is cancelled.  *)
(* Nothing checked there: a message, and nothing happens.                             *)
Submit(k, i, c) ==
  LET first == dialogs[k][1] IN
  /\ OnTop(k, i)
  /\ dialogs[k][i].div \in listed
  /\ \A j \in 1..(i - 1) : dialogs[k][j].div \notin listed
  /\ IF first.handlers > 0
     THEN /\ cells' = Chosen(first.callback, k, c)
          /\ history' = [history EXCEPT !.astray = @ \/ first.callback.task # dialogs[k][i].for.task]
     ELSE UNCHANGED <<cells, history>>
  /\ IF first.open THEN Hide(k, 1) ELSE UNCHANGED <<dialogs, stuck, listed, listing>>
  /\ UNCHANGED <<shown, rendering, input, tables, coming, sends>>

SubmitUsers(i)  == \E c \in Selections["user"] : Submit("user", i, c)
SubmitGroups(i) == \E c \in Selections["group"] : Submit("group", i, c)

Next ==
  \/ \E t \in Tasks : ClickUserCell(t) \/ ClickGroupCell(t)
  \/ (\E text \in Typed : TypeText(text)) \/ Leave \/ ClickInput
  \/ ClickTab \/ TableArrives
  \/ \E d \in coming : DialogArrives(d) \/ DialogFails(d)
  \/ \E l \in listing : ListArrives(l)
  \/ \E k \in Kinds : \E i \in DOMAIN dialogs[k] : Cancel(k, i)
  \/ \E i \in DOMAIN dialogs["user"] : SubmitUsers(i)
  \/ \E i \in DOMAIN dialogs["group"] : SubmitGroups(i)

Spec == Init /\ [][Next]_vars

=============================================================================

----------------------------- MODULE TaskConfig -----------------------------
(***************************************************************************)
(* The node page of one process definition (bpmn.html, bpmn.js) with its   *)
(* button dialog (oper-button.js), and ProcessDefinitionService behind it. *)
(*                                                                         *)
(* Administrators choose users and groups for the user tasks and save the  *)
(* whole table, or open the dialog of one task and save its buttons.  A    *)
(* save is a transaction: it deletes and inserts row by row, any statement *)
(* may fail, and the failure rolls all of it back.                         *)
(*                                                                         *)
(* A cell of the page is a sequence of strings, the parts between commas.  *)
(***************************************************************************)
EXTENDS Filters

CONSTANTS
  Admins,      (* open pages                                                    *)
  Nobody,      (* no administrator, no task                                     *)
  Nodes,       (* the bpmn ids of the definition's nodes, in page order         *)
  Type,        (* Type[n]: the type of node n                                   *)
  RadioHtml,   (* RadioHtml[n]: the radio button in the first cell, with its id *)
  Within,      (* Within[s]: the tasks whose id contains the id s (s LIKE %s%)  *)
  UserChoices, (* what the user dialog may hand over: [ids, names]              *)
  GroupChoices,(* the same for groups                                           *)
  Blank,       (* the empty string                                              *)
  TypedIds,    (* ids that may be typed into a cell by hand                     *)
  Lines,       (* what may be typed in the button dialog: [title, value]        *)
  MaxEdits,    (* bound: choices made, lines typed or removed                   *)
  MaxSubmits   (* bound: saves sent                                             *)

UserTasks == {n \in Range(Nodes) : Type[n] = "UserTask"}

Texts   == Seq(STRING)
Offers  == [ids : Texts, names : Texts]

(* LIKE is reflexive and transitive. *)
ASSUME TaskConfigAssumption ==
  /\ Nobody \notin Admins \cup UserTasks
  /\ Nodes \in Seq(STRING)
  /\ {Type, RadioHtml} \subseteq [Range(Nodes) -> STRING]
  /\ Within \in [UserTasks -> SUBSET UserTasks]
  /\ \A t \in UserTasks : t \in Within[t] /\ \A s \in Within[t] : Within[s] \subseteq Within[t]
  /\ UserChoices \subseteq Offers
  /\ GroupChoices \subseteq Offers
  /\ TypedIds \subseteq Texts
  /\ Blank \in STRING
  /\ Lines \subseteq [title : STRING, value : STRING]
  /\ MaxEdits \in Nat
  /\ MaxSubmits \in Nat

VARIABLES
  db,       (* the committed tables: users, groups, buttons, as sequences of rows *)
  work,     (* the tables as the running transaction sees them                    *)
  writer,   (* who runs it, or Nobody                                             *)
  todo,     (* its statements still to execute                                    *)
  page,     (* each administrator's table: four cells for each node               *)
  dialog,   (* the button dialog: [task, rows, removed, seen]                     *)
  request,  (* the save on its way: [kind, task, inserts]                         *)
  answer,   (* the message on the screen                                          *)
  edits,    (* edits so far                                                       *)
  submits,  (* saves so far                                                       *)
  commits,  (* history: committed transactions                                    *)
  last,     (* history: the rows of the last committed saves                      *)
  typed     (* history: [task, line] of every line typed                          *)

vars == <<db, work, writer, todo, page, dialog, request, answer, edits, submits,
          commits, last, typed>>

server  == <<db, work, writer, todo, commits, last>>
counted == <<edits, submits>>

NoRequest == [kind |-> "none", task |-> Nobody, inserts |-> <<>>]
Closed    == [task |-> Nobody, rows |-> <<>>, removed |-> {}, seen |-> 0]

-----------------------------------------------------------------------------
(* String.split(","): an empty text has one part, the empty string. *)
Split(text) == IF text = <<>> THEN <<Blank>> ELSE text

(* The columns of bpmn.html from the left; the first holds the radio button, and *)
(* the server shows users and groups for user tasks.                             *)
Row(n, cells) == << <<RadioHtml[n]>>, <<n>>, <<n>>, <<Type[n]>>,
                    cells.userIds, cells.userNames, cells.groupIds, cells.groupNames >>

(* The columns bpmn.js reads: tds[0], tds[3], ..., tds[6]. *)
Config(n, cells) ==
  LET row == Row(n, cells) IN
  [bpmnId |-> row[1][1], userIds |-> row[4], userNames |-> row[5],
   groupIds |-> row[6], groupNames |-> row[7]]

-----------------------------------------------------------------------------
(* The statements of the service. *)

InsertRow(table, row) == [op |-> "insert", table |-> table, row |-> row]
Throw == [op |-> "throw", table |-> "none", row |-> <<>>]

(* One insert for each id, with the name at the same index; beyond the last *)
(* name an ArrayIndexOutOfBoundsException.                                   *)
InsertPairs(table, bpmnId, ids, names) ==
  LET pairs == [i \in 1..(IF Len(ids) <= Len(names) THEN Len(ids) ELSE Len(names)) |->
                  InsertRow(table, [bpmn |-> bpmnId, id |-> ids[i], name |-> names[i]])]
  IN  IF Len(ids) <= Len(names) THEN pairs ELSE Append(pairs, Throw)

(* The group ids are split off the user ids (line 151). *)
InsertConfig(config) ==
  (IF config.groupIds = <<>> THEN <<>>
   ELSE InsertPairs("groups", config.bpmnId, Split(config.userIds), Split(config.groupNames)))
  \o
  (IF config.userIds = <<>> THEN <<>>
   ELSE InsertPairs("users", config.bpmnId, Split(config.userIds), Split(config.userNames)))

(* saveBpmnConfigUserGroup goes through all nodes, saveOperBtn through the lines. *)
InsertAll(cells) ==
  FlattenSeq([i \in DOMAIN Nodes |-> InsertConfig(Config(Nodes[i], cells[Nodes[i]]))])

InsertButtons(t, lines) ==
  [i \in DOMAIN lines |->
     InsertRow("buttons", [bpmn |-> t, id |-> lines[i].value, name |-> lines[i].title])]

(* Both services select and delete by equality. *)
RowsOf(rows, t)      == Kept(rows, {r \in Range(rows) : r.bpmn = t})
RowsOfOthers(rows, t) == Kept(rows, {r \in Range(rows) : r.bpmn # t})

DeleteOld(tables, req) ==
  IF req.kind = "config" THEN [tables EXCEPT !.users = <<>>, !.groups = <<>>]
  ELSE [tables EXCEPT !.buttons = RowsOfOthers(@, req.task)]

(* The button dialog is filled by LIKE, on both columns. *)
ShownOfAllNodes(rows, t) == rows   (* a variant the properties reject *)
ShownButtons(rows, t) == Kept(rows, {r \in Range(rows) : r.bpmn \in Within[t]})

(* The cells of a user task: what is stored under its id. *)
CellsOf(tables, n) ==
  LET us == RowsOf(tables.users, n)
      gs == RowsOf(tables.groups, n)
  IN  [userIds    |-> [i \in DOMAIN us |-> us[i].id],
       userNames  |-> [i \in DOMAIN us |-> us[i].name],
       groupIds   |-> [i \in DOMAIN gs |-> gs[i].id],
       groupNames |-> [i \in DOMAIN gs |-> gs[i].name]]

NoCells == [userIds |-> <<>>, userNames |-> <<>>, groupIds |-> <<>>, groupNames |-> <<>>]

(* findProcessDefinitionBPMN *)
Shown(tables) ==
  [n \in Range(Nodes) |-> IF n \in UserTasks THEN CellsOf(tables, n) ELSE NoCells]

Tables == [users |-> <<>>, groups |-> <<>>, buttons |-> <<>>]

Init ==
  /\ db = Tables
  /\ work = Tables
  /\ writer = Nobody
  /\ todo = <<>>
  /\ page = [a \in Admins |-> Shown(Tables)]
  /\ dialog = [a \in Admins |-> Closed]
  /\ request = [a \in Admins |-> NoRequest]
  /\ answer = [a \in Admins |-> "none"]
  /\ edits = 0
  /\ submits = 0
  /\ commits = 0
  /\ last = Tables
  /\ typed = {}

-----------------------------------------------------------------------------
(* The page *)

(* Nothing else happens on a page while a save is on its way or a message is up *)
(* (the dialog is modal; the table is not clickable behind it).                  *)
Free(a)     == request[a] = NoRequest /\ answer[a] = "none"
OnPage(a)   == Free(a) /\ dialog[a].task = Nobody
InDialog(a) == Free(a) /\ dialog[a].task # Nobody

Edit == edits < MaxEdits /\ edits' = edits + 1

LoadPage(a) ==
  /\ OnPage(a)
  /\ page' = [page EXCEPT ![a] = Shown(db)]
  /\ UNCHANGED <<server, dialog, request, answer, counted, typed>>

ChooseUsers(a, n) ==
  /\ OnPage(a)
  /\ Edit
  /\ \E c \in UserChoices :
       page' = [page EXCEPT ![a][n].userIds = c.ids, ![a][n].userNames = c.names]
  /\ UNCHANGED <<server, dialog, request, answer, submits, typed>>

ChooseGroups(a, n) ==
  /\ OnPage(a)
  /\ Edit
  /\ \E c \in GroupChoices :
       page' = [page EXCEPT ![a][n].groupIds = c.ids, ![a][n].groupNames = c.names]
  /\ UNCHANGED <<server, dialog, request, answer, submits, typed>>

(* The text that is left in the input of a cell; the names beside it stay. *)
TypeIds(a, n) ==
  /\ OnPage(a)
  /\ Edit
  /\ \E ids \in TypedIds : \/ page' = [page EXCEPT ![a][n].userIds = ids]
                          \/ page' = [page EXCEPT ![a][n].groupIds = ids]
  /\ UNCHANGED <<server, dialog, request, answer, submits, typed>>

Submit(a, req) ==
  /\ submits < MaxSubmits
  /\ submits' = submits + 1
  /\ request' = [request EXCEPT ![a] = req]
  /\ UNCHANGED <<server, page, dialog, answer, edits, typed>>

SubmitPage(a) ==
  /\ OnPage(a)
  /\ Submit(a, [kind |-> "config", task |-> Nobody, inserts |-> InsertAll(page[a])])

-----------------------------------------------------------------------------
(* The dialog *)

OpenDialog(a, n) ==
  /\ OnPage(a)
  /\ LET rows == ShownButtons(db.buttons, n) IN
       dialog' = [dialog EXCEPT ![a] =
         [task |-> n, removed |-> {}, seen |-> commits,
          rows |-> [i \in DOMAIN rows |-> [title |-> rows[i].name, value |-> rows[i].id]]]]
  /\ UNCHANGED <<server, page, request, answer, counted, typed>>

(* A new line, with what is typed into it. *)
TypeLine(a) ==
  /\ InDialog(a)
  /\ Edit
  /\ \E line \in Lines :
       /\ dialog' = [dialog EXCEPT ![a].rows = Append(@, line)]
       /\ typed' = typed \cup {[task |-> dialog[a].task, line |-> line]}
  /\ UNCHANGED <<server, page, request, answer, submits>>

RemoveLine(a) ==
  /\ InDialog(a)
  /\ Edit
  /\ \E i \in DOMAIN dialog[a].rows :
       dialog' = [dialog EXCEPT ![a].rows = RemoveAt(@, i),
                                ![a].removed = @ \cup {dialog[a].rows[i]}]
  /\ UNCHANGED <<server, page, request, answer, submits, typed>>

Filled(lines) == {l \in Range(lines) : l.title # Blank /\ l.value # Blank}

CompleteSkipsFirst(lines) == Kept(Tail(lines), Filled(lines))   (* a variant the properties reject *)
(* Lines with an empty cell are left out; without a line nothing is sent. *)
Complete(lines) == Kept(lines, Filled(lines))

SubmitDialog(a) ==
  /\ InDialog(a)
  /\ dialog[a].rows # <<>>
  /\ Submit(a, [kind |-> "buttons", task |-> dialog[a].task,
                inserts |-> InsertButtons(dialog[a].task, Complete(dialog[a].rows))])

CloseDialog(a) ==
  /\ InDialog(a)
  /\ dialog' = [dialog EXCEPT ![a] = Closed]
  /\ UNCHANGED <<server, page, request, answer, counted, typed>>

(* The message is read. *)
Dismiss(a) ==
  /\ answer[a] # "none"
  /\ answer' = [answer EXCEPT ![a] = "none"]
  /\ UNCHANGED <<server, page, dialog, request, counted, typed>>

-----------------------------------------------------------------------------
(* The server *)

(* The transaction begins with its deletes.  Its locks keep other writers out *)
(* until it ends.                                                             *)
Begin(a) ==
  /\ request[a] # NoRequest
  /\ writer = Nobody
  /\ writer' = a
  /\ work' = DeleteOld(db, request[a])
  /\ todo' = request[a].inserts
  /\ UNCHANGED <<db, page, dialog, request, answer, counted, commits, last, typed>>

(* An insert of the loop *)
Insert(a) ==
  /\ writer = a
  /\ todo # <<>>
  /\ Head(todo).op = "insert"
  /\ work' = [work EXCEPT ![Head(todo).table] = Append(@, Head(todo).row)]
  /\ todo' = Tail(todo)
  /\ UNCHANGED <<db, writer, page, dialog, request, answer, counted, commits, last, typed>>

(* A variant the properties reject: what has not been executed stays behind. *)
AnswerLeavesBatch(a, text) ==
  /\ writer' = Nobody
  /\ request' = [request EXCEPT ![a] = NoRequest]
  /\ answer' = [answer EXCEPT ![a] = text]
  /\ UNCHANGED <<todo, page, dialog, counted, typed>>

(* The controller answers. *)
Answer(a, text) ==
  /\ writer' = Nobody
  /\ todo' = <<>>
  /\ request' = [request EXCEPT ![a] = NoRequest]
  /\ answer' = [answer EXCEPT ![a] = text]
  /\ UNCHANGED <<page, dialog, counted, typed>>

(* The rows that statements insert into a table *)
Inserted(stmts, table) ==
  LET into == Kept(stmts, {s \in Range(stmts) : s.table = table})
  IN  [i \in DOMAIN into |-> into[i].row]

(* The history: the rows of a save, next to those it does not replace. *)
LastAfter(req) ==
  IF req.kind = "config"
  THEN [last EXCEPT !.users = Inserted(req.inserts, "users"),
                    !.groups = Inserted(req.inserts, "groups")]
  ELSE [last EXCEPT !.buttons = RowsOfOthers(@, req.task) \o Inserted(req.inserts, "buttons")]

Commit(a) ==
  /\ writer = a
  /\ todo = <<>>
  /\ db' = work
  /\ commits' = commits + 1
  /\ last' = LastAfter(request[a])
  /\ Answer(a, "saved")
  /\ UNCHANGED work

(* A variant the properties reject: a save that fails keeps what it has done. *)
CommitWhatIsDone(a) ==
  /\ writer = a
  /\ db' = work
  /\ Answer(a, "failed")
  /\ UNCHANGED <<work, commits, last>>

(* A statement fails, or the loop throws: everything is rolled back. *)
Fail(a) ==
  /\ writer = a
  /\ work' = db
  /\ Answer(a, "failed")
  /\ UNCHANGED <<db, commits, last>>

Page(a) ==
  \/ LoadPage(a) \/ SubmitPage(a) \/ TypeLine(a) \/ RemoveLine(a) \/ SubmitDialog(a)
  \/ CloseDialog(a) \/ Dismiss(a)
  \/ \E n \in UserTasks : ChooseUsers(a, n) \/ ChooseGroups(a, n) \/ TypeIds(a, n) \/ OpenDialog(a, n)

Service(a) == Begin(a) \/ Insert(a) \/ Commit(a) \/ Fail(a)

Next == \E a \in Admins : Page(a) \/ Service(a)

Spec == Init /\ [][Next]_vars

=============================================================================

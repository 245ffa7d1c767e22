----------------------------- MODULE ListPages -----------------------------
(***************************************************************************)
(* One browser page of the workflow console (main.html): the lists that    *)
(* are loaded into #main_content (process definitions, form bindings,      *)
(* process instances), their paging (page.js), the dialog that binds a     *)
(* form and the one that deploys a definition, over load, loadTable, ajax  *)
(* and ajaxBody of common.js; and ProcessDefinitionController behind them. *)
(*                                                                         *)
(* Answers come in any order; the database answers at one moment and the   *)
(* page takes the answer at another.  Other people change the tables.      *)
(***************************************************************************)
EXTENDS Dialogs, Filters

CONSTANTS
  Keys,      (* process definition keys, none contained in another           *)
  NewKeys,   (* those of the rows that are added                             *)
  AnyKey,    (* an empty search field                                        *)
  Fresh,     (* the params of ajaxPage while they are still a function       *)
  Texts,     (* what may be typed as a page number: [kind, n, plain]         *)
  PageSize,  (* rows of a page                                               *)
  Start,     (* the tables at the beginning                                  *)
  MaxSends,  (* bound: pages and dialogs the user asks for                   *)
  MaxSaves,  (* bound: buttons that change a table, files dropped            *)
  MaxOthers  (* bound: changes by others                                     *)

Lists == {"pd", "forms", "pi"}

ASSUME ListPagesAssumption ==
  /\ PageSize \in Nat \ {0}
  /\ NewKeys \subseteq Keys
  /\ AnyKey \notin Keys
  /\ Fresh \notin Keys \cup {AnyKey}
  /\ Start \in [Lists -> Seq([id : Nat, key : Keys])]
  /\ \A text \in Texts : text.n \in Int
  /\ {MaxSends, MaxSaves, MaxOthers} \subseteq Nat

VARIABLES
  db,       (* the rows of each list, in the order of its SELECT: [id, key] *)
  panel,    (* what #main_content shows                                     *)
  field,    (* the text in the search field                                 *)
  params,   (* the params of the list's ajaxPage: Fresh, or the search key  *)
            (* of the object that has taken the function's place            *)
  loads,    (* loads into #main_content on their way                        *)
  coming,   (* the <div>s of form dialogs on their way                      *)
  dialogs,  (* the form dialogs in the document                             *)
  stuck,    (* a backdrop without a dialog covers the page                  *)
  upload,   (* the deployment dialog: "closed", "coming", "open"            *)
  file,     (* the file in it: [state, save]                                *)
  saves,    (* ajax calls on their way                                      *)
  sends,    (* loads sent so far                                            *)
  pressed,  (* buttons pressed that change a table, files dropped           *)
  version,  (* changes of the tables so far                                 *)
  others,   (* those by others                                              *)
  history   (* what happened; it guards no action                           *)

vars == <<db, panel, field, params, loads, coming, dialogs, stuck, upload, file, saves,
          sends, pressed, version, others, history>>

tables == <<db, version, others>>
view   == <<panel, field, params>>
popups == <<coming, dialogs, stuck, upload, file>>

(* A page of #main_content that is no list *)
Plain(name) ==
  [view |-> name, key |-> AnyKey, page |-> 1, pages |-> 0, rows |-> <<>>,
   version |-> version, from |-> AnyKey]

NoFile == [state |-> "none", save |-> 0]

-----------------------------------------------------------------------------
(* The server *)

Matching(v, key) == Kept(db[v], {r \in Range(db[v]) : key = AnyKey \/ r.key = key})

PagesOf(v, key) == (Len(Matching(v, key)) + PageSize - 1) \div PageSize

(* PageHelper: the rows of the page that is asked for, even beyond the last. *)
Rendered(v, key, page, from) ==
  LET hits == Matching(v, key)
      last == IF page * PageSize <= Len(hits) THEN page * PageSize ELSE Len(hits)
  IN  [view |-> v, key |-> key, page |-> page,
       pages |-> PagesOf(v, key),
       rows |-> SubSeq(hits, (page - 1) * PageSize + 1, last),
       version |-> version, from |-> from]

(* A page number that Integer.valueOf refuses *)
Refused == 0

(* find, queryBindForm, query; to-config.  A parameter that is no number is an error. *)
Reply(l) ==
  IF l.page = Refused THEN Plain("error")
  ELSE IF l.view \in Lists THEN Rendered(l.view, l.key, l.page, l.from)
  ELSE Plain(l.view)

(* The start page, or a list that has been loaded *)
Init ==
  /\ db = Start
  /\ version = 0
  /\ panel \in {Plain("home")} \cup {Rendered(v, AnyKey, 1, AnyKey) : v \in Lists}
  /\ field = AnyKey
  /\ params = Fresh
  /\ loads = {}
  /\ coming = {}
  /\ dialogs = <<>>
  /\ stuck = FALSE
  /\ upload = "closed"
  /\ file = NoFile
  /\ saves = {}
  /\ sends = 0
  /\ pressed = 0
  /\ others = 0
  /\ history = [overlapped |-> FALSE,  (* a load was sent while another was on its way   *)
                asked |-> AnyKey,      (* the search field at the last load              *)
                doubled |-> FALSE,     (* two form dialogs were on their way at once     *)
                reordered |-> FALSE,   (* and the later one came first                   *)
                refreshed |-> 0,       (* the tables when a save last clicked "search"   *)
                removed |-> FALSE,     (* a row was deleted                              *)
                bindClicks |-> 0,      (* clicks on "save" in a form dialog              *)
                binds |-> 0]           (* the calls of save-bind-form they have made     *)

-----------------------------------------------------------------------------
(* common.js *)

NoReply == [view |-> "none"]

(* load into #main_content.  Nothing stops a second one, or orders the answers. *)
(* h is the history up to here, asked the conditions the user sees.             *)
Load(v, key, page, asked, h) ==
  /\ sends' = sends + 1
  /\ loads' = loads \cup {[n |-> sends + 1, view |-> v, key |-> key, page |-> page,
                           from |-> panel.key, reply |-> NoReply]}
  /\ history' = [h EXCEPT !.overlapped = @ \/ loads # {}, !.asked = asked]

LoadNothing(h) == history' = h /\ UNCHANGED <<sends, loads>>

(* initPageOption: the attributes of the pagination element; no list gives options. *)
PageOption == [currentPage |-> panel.page, totalPages |-> panel.pages]

(* The paginator refuses a current page beyond the last one with an exception, which *)
(* ends the script of the list before it has bound its buttons.                      *)
Paginated == PageOption.totalPages > 0
Wired ==
  panel.view \in Lists /\ (Paginated => PageOption.currentPage <= PageOption.totalPages)

(* The "search" button.  A variant the properties reject sends nothing while a load *)
(* is on its way.                                                                    *)
ClickSearchOnce(h) ==
  IF Wired /\ panel.view # "pi" /\ loads = {} THEN Load(panel.view, field, 1, field, h) ELSE LoadNothing(h)

(* pi/list.js reads a variable that is not defined when it collects the conditions, *)
(* so that its search and its paging end in an exception before anything is sent.   *)
Unsearchable == Wired /\ panel.view = "pi"

ClickSearch(h) ==
  IF Wired /\ ~Unsearchable THEN Load(panel.view, field, 1, field, h) ELSE LoadNothing(h)

(* ajax and ajaxBody: as many calls as there are handlers.  Nobody is told when one fails. *)
Call(op, row, n, handlers) ==
  saves' = saves \cup {[n |-> n, i |-> i, op |-> op, row |-> row, answer |-> "none"] : i \in 1..handlers}

-----------------------------------------------------------------------------
(* What the user does with the page.  An open dialog, or a backdrop, is in the way. *)

Usable == NoneOpen(dialogs) /\ upload # "open" /\ ~stuck
Ask    == Usable /\ sends < MaxSends

(* main.js *)
Menu(v) ==
  /\ Ask
  /\ Load(v, AnyKey, 1, AnyKey, history)
  /\ UNCHANGED <<tables, view, popups, saves, pressed>>

TypeKey(key) ==
  /\ Usable
  /\ panel.view \in Lists
  /\ key # field
  /\ field' = key
  /\ UNCHANGED <<tables, panel, params, loads, popups, saves, sends, pressed, history>>

(* loadTable evaluates the function that collects the conditions. *)
Search ==
  /\ Ask
  /\ Wired
  /\ ~Unsearchable
  /\ ClickSearch(history)
  /\ UNCHANGED <<tables, view, popups, saves, pressed>>

(* ajaxPage: the object the function returns takes its place. *)
TurnTo(page) ==
  /\ Ask
  /\ Wired
  /\ ~Unsearchable
  /\ Paginated
  /\ params' = IF params = Fresh THEN field ELSE params
  /\ Load(panel.view, params', page, field, history)
  /\ UNCHANGED <<tables, panel, field, popups, saves, pressed>>

ClickPage == \E page \in 1..panel.pages : TurnTo(page)

EnteredNegative(text) ==   (* variants the properties reject *)
  IF text.n > panel.pages THEN panel.pages ELSE IF text.plain THEN text.n ELSE Refused
EnteredUncapped(text) ==
  IF text.n <= 0 THEN 1 ELSE IF text.plain THEN text.n ELSE Refused
(* Anything that equals an integer counts as a page number, 1.0 too; it is sent as it *)
(* was typed unless it is out of range.                                               *)
Entered(text) ==
  IF text.n <= 0 THEN 1
  ELSE IF text.n > panel.pages THEN panel.pages
  ELSE IF text.plain THEN text.n
  ELSE Refused

EnterPage == \E text \in {t \in Texts : t.kind = "integer"} : TurnTo(Entered(text))

(* The row that is selected is configured. *)
Configure ==
  /\ Ask
  /\ Wired
  /\ panel.view = "pd"
  /\ panel.rows # <<>>
  /\ Load("config", AnyKey, 1, AnyKey, history)
  /\ UNCHANGED <<tables, view, popups, saves, pressed>>

-----------------------------------------------------------------------------
(* Answers to the page *)

Serve(l) ==
  /\ l.reply = NoReply
  /\ loads' = (loads \ {l}) \cup {[l EXCEPT !.reply = Reply(l)]}
  /\ UNCHANGED <<tables, view, popups, saves, sends, pressed, history>>

(* The new page brings its own field and runs its script anew. *)
ShowKeepingParams(new) ==   (* a variant the properties reject *)
  /\ panel' = new
  /\ field' = new.key
  /\ params' = IF new.view = panel.view THEN params ELSE Fresh
Show(new) ==
  /\ panel' = new
  /\ field' = new.key
  /\ params' = Fresh

Arrive(l) ==
  /\ l.reply # NoReply
  /\ loads' = loads \ {l}
  /\ Show(l.reply)
  /\ UNCHANGED <<tables, popups, saves, sends, pressed, history>>

(* Before or after the server has answered: the text of the error takes the place. *)
LoadFailsQuietly(l) ==   (* a variant the properties reject *)
  /\ loads' = loads \ {l}
  /\ UNCHANGED <<tables, view, popups, saves, sends, pressed, history>>
LoadFails(l) ==
  /\ loads' = loads \ {l}
  /\ Show(Plain("error"))
  /\ UNCHANGED <<tables, popups, saves, sends, pressed, history>>

-----------------------------------------------------------------------------
(* Binding a form *)

AddForm ==
  /\ Ask
  /\ Wired
  /\ panel.view = "forms"
  /\ sends' = sends + 1
  /\ coming' = coming \cup {sends + 1}
  /\ history' = [history EXCEPT !.doubled = @ \/ coming # {}]
  /\ UNCHANGED <<tables, view, loads, dialogs, stuck, upload, file, saves, pressed>>

FormArrives(div) ==
  /\ coming' = coming \ {div}
  /\ dialogs' = Opened(dialogs, div, "search")
  /\ history' = [history EXCEPT !.reordered = @ \/ \E earlier \in coming : earlier < div]
  /\ UNCHANGED <<tables, view, loads, stuck, upload, file, saves, sends, pressed>>

FormFails(div) ==
  /\ coming' = coming \ {div}
  /\ UNCHANGED <<tables, view, loads, dialogs, stuck, upload, file, saves, sends, pressed, history>>

Hide(i) ==
  /\ dialogs' = Hidden(dialogs, i)
  /\ stuck' = (stuck \/ LeavesBackdrop(dialogs, i))

CancelForm(i) ==
  /\ IsTop(dialogs, i)
  /\ Hide(i)
  /\ UNCHANGED <<tables, view, loads, coming, upload, file, saves, sends, pressed, history>>

(* Both fields are filled in: those of the first dialog are read, and typing reaches the *)
(* top one.  Each handler bound to the button makes its own call, and the button can be  *)
(* clicked again before the answer.                                                      *)
SubmitForm(key) ==
  /\ dialogs # <<>>
  /\ IsTop(dialogs, 1)
  /\ pressed < MaxSaves
  /\ pressed' = pressed + 1
  /\ Call("insert", [id |-> 0, key |-> key], pressed + 1, dialogs[1].handlers)
  /\ history' = [history EXCEPT !.bindClicks = @ + 1, !.binds = @ + dialogs[1].handlers]
  /\ UNCHANGED <<tables, view, loads, popups, sends>>

(* The selected row, once the question is answered *)
DeleteForm(r) ==
  /\ Usable
  /\ Wired
  /\ panel.view = "forms"
  /\ pressed < MaxSaves
  /\ pressed' = pressed + 1
  /\ Call("delete", r, pressed + 1, 1)
  /\ UNCHANGED <<tables, view, loads, popups, sends, history>>

-----------------------------------------------------------------------------
(* Deploying a definition *)

OpenUpload ==
  /\ Ask
  /\ Wired
  /\ panel.view = "pd"
  /\ upload = "closed"
  /\ sends' = sends + 1
  /\ upload' = "coming"
  /\ UNCHANGED <<tables, view, loads, coming, dialogs, stuck, file, saves, pressed, history>>

UploadArrives ==
  /\ upload = "coming"
  /\ upload' \in {"open", "closed"}   (* or fails *)
  /\ UNCHANGED <<tables, view, loads, coming, dialogs, stuck, file, saves, sends, pressed, history>>

(* One file at a time; nothing is sent yet. *)
DropFile ==
  /\ upload = "open"
  /\ file.state = "none"
  /\ pressed < MaxSaves
  /\ pressed' = pressed + 1
  /\ file' = [state |-> "queued", save |-> pressed + 1]
  /\ UNCHANGED <<tables, view, loads, coming, dialogs, stuck, upload, saves, sends, history>>

RemoveFile ==
  /\ upload = "open"
  /\ file.state \in {"queued", "over"}
  /\ file' = NoFile
  /\ UNCHANGED <<tables, view, loads, coming, dialogs, stuck, upload, saves, sends, pressed, history>>

(* processQueue sends what is queued, and only that. *)
SubmitUpload(key) ==
  /\ upload = "open"
  /\ file.state = "queued"
  /\ file' = [file EXCEPT !.state = "sent"]
  /\ Call("deploy", [id |-> 0, key |-> key], file.save, 1)
  /\ UNCHANGED <<tables, view, loads, coming, dialogs, stuck, upload, sends, pressed, history>>

(* The dialog is closed; a file on its way goes on. *)
CloseUpload ==
  /\ upload = "open"
  /\ upload' = "closed"
  /\ file' = NoFile
  /\ UNCHANGED <<tables, view, loads, coming, dialogs, stuck, saves, sends, pressed, history>>

-----------------------------------------------------------------------------
(* The tables *)

(* Forms in the order of their ids, definitions with the last deployment first *)
Stored(op, row) ==
  LET new == [row EXCEPT !.id = version + 1] IN
  IF op = "insert" THEN [db EXCEPT !.forms = Append(@, new)]
  ELSE IF op = "deploy" THEN [db EXCEPT !.pd = <<new>> \o @]
  ELSE [db EXCEPT !.forms = Kept(@, {r \in Range(@) : r.id # row.id})]

Answered(s, text) == saves' = (saves \ {s}) \cup {[s EXCEPT !.answer = text]}

Execute(s) ==
  /\ s.answer = "none"
  /\ db' = Stored(s.op, s.row)
  /\ version' = version + 1
  /\ Answered(s, "true")
  /\ history' = [history EXCEPT !.removed = @ \/ s.op = "delete"]
  /\ UNCHANGED <<view, loads, popups, sends, pressed, others>>

(* The statement fails, or the file is no definition. *)
ExecuteFails(s) ==
  /\ s.answer = "none"
  /\ Answered(s, "false")
  /\ UNCHANGED <<tables, view, loads, popups, sends, pressed, history>>

(* The call, or its answer, is lost. *)
Lose(s) ==
  /\ saves' = saves \ {s}
  /\ file' = IF s.op = "deploy" /\ file.save = s.n THEN [file EXCEPT !.state = "over"] ELSE file
  /\ UNCHANGED <<tables, view, loads, coming, dialogs, stuck, upload, sends, pressed, history>>

Seen == IF Wired /\ ~Unsearchable THEN [history EXCEPT !.refreshed = version] ELSE history

(* save-bind-form: the callback of the first dialog clicks "search", then the dialog is *)
(* cancelled, unless the callback ended in an exception.                                *)
AnswerInsert(s) ==
  /\ s.op = "insert"
  /\ s.answer \in {"true", "false"}
  /\ saves' = saves \ {s}
  /\ IF s.answer = "true" /\ dialogs # <<>> /\ dialogs[1].open
     THEN /\ ClickSearch(Seen)
          /\ IF Unsearchable THEN UNCHANGED <<dialogs, stuck>> ELSE Hide(1)
     ELSE LoadNothing(history) /\ UNCHANGED <<dialogs, stuck>>
  /\ UNCHANGED <<tables, view, coming, upload, file, pressed>>

AnswerDelete(s) ==
  /\ s.op = "delete"
  /\ s.answer \in {"true", "false"}
  /\ saves' = saves \ {s}
  /\ IF s.answer = "true" THEN ClickSearch(Seen) ELSE LoadNothing(history)
  /\ UNCHANGED <<tables, view, popups, pressed>>

(* Both answers of deploy are a success for Dropzone, which calls the callback of the *)
(* dialog if there is still one.                                                      *)
AnswerDeploy(s) ==
  /\ s.op = "deploy"
  /\ s.answer \in {"true", "false"}
  /\ saves' = saves \ {s}
  /\ file' = IF file.save = s.n THEN [file EXCEPT !.state = "over"] ELSE file
  /\ IF upload = "open" THEN ClickSearch(Seen) ELSE LoadNothing(history)
  /\ UNCHANGED <<tables, view, coming, dialogs, stuck, upload, pressed>>

(* Other people do the same. *)
Others ==
  /\ others < MaxOthers
  /\ others' = others + 1
  /\ version' = version + 1
  /\ \/ /\ \E op \in {"insert", "deploy"}, key \in NewKeys : db' = Stored(op, [id |-> 0, key |-> key])
        /\ UNCHANGED history
     \/ /\ \E i \in DOMAIN db.forms : db' = Stored("delete", db.forms[i])
        /\ history' = [history EXCEPT !.removed = TRUE]
  /\ UNCHANGED <<view, loads, popups, saves, sends, pressed>>

User ==
  \/ \E v \in Lists : Menu(v)
  \/ \E key \in Keys \cup {AnyKey} : TypeKey(key)
  \/ Search \/ ClickPage \/ EnterPage \/ Configure
  \/ AddForm \/ (\E i \in DOMAIN dialogs : CancelForm(i)) \/ \E key \in NewKeys : SubmitForm(key)
  \/ \E j \in DOMAIN panel.rows : DeleteForm(panel.rows[j])
  \/ OpenUpload \/ DropFile \/ RemoveFile \/ CloseUpload \/ \E key \in NewKeys : SubmitUpload(key)

Server ==
  \/ \E l \in loads : Serve(l)
  \/ \E s \in saves : Execute(s) \/ ExecuteFails(s)
  \/ Others

Answers ==
  \/ \E l \in loads : Arrive(l) \/ LoadFails(l)
  \/ \E div \in coming : FormArrives(div) \/ FormFails(div)
  \/ UploadArrives
  \/ \E s \in saves : AnswerInsert(s) \/ AnswerDelete(s) \/ AnswerDeploy(s) \/ Lose(s)

Next == User \/ Server \/ Answers

Spec == Init /\ [][Next]_vars

=============================================================================

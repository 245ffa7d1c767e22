--------------------------- MODULE ListPagesProps ---------------------------
(* What is claimed of the list pages. *)
EXTENDS ListPages

Row   == [id : Nat, key : Keys]
Table == Seq(Row)

SearchKeys == Keys \cup {AnyKey}

Page(views) ==
  [view : views, key : SearchKeys, page : Nat, pages : Nat, rows : Table, version : Nat, from : SearchKeys]
Request ==
  [n : Nat, view : Lists \cup {"config"}, key : SearchKeys, page : Nat, from : SearchKeys,
   reply : Page(Lists \cup {"config", "error"}) \cup {NoReply}]
Save ==
  [n : Nat, i : Nat, op : {"insert", "delete", "deploy"}, row : Row,
   answer : {"none", "true", "false"}]

History(changes) ==
  [overlapped : BOOLEAN, asked : SearchKeys, doubled : BOOLEAN, reordered : BOOLEAN,
   refreshed : 0..changes, removed : BOOLEAN, bindClicks : Nat, binds : Nat]

TablesTyped == /\ db \in [Lists -> Table]
               /\ version \in Nat /\ others \in Nat
ShownTyped  == /\ panel \in Page(Lists \cup {"home", "config", "error"})
               /\ field \in SearchKeys
               /\ params \in SearchKeys \cup {Fresh}
LoadsTyped  == /\ sends \in Nat
               /\ loads \subseteq Request /\ \A l \in loads : l.n \in 1..sends
               /\ coming \subseteq 1..sends
PopupsTyped == /\ dialogs \in Seq(Popup({"search"}))
               /\ stuck \in BOOLEAN
               /\ upload \in {"closed", "coming", "open"}
SavesTyped  == /\ pressed \in Nat
               /\ saves \subseteq Save /\ \A s \in saves : s.n \in 1..pressed
               /\ file \in [state : {"none", "queued", "sent", "over"}, save : 0..pressed]
               /\ file.save = 0 <=> file.state = "none"

TypeOK ==
  TablesTyped /\ ShownTyped /\ LoadsTyped /\ PopupsTyped /\ SavesTyped /\ history \in History(version)

(* ajaxPage replaces its function by the object of the first page turn, with the     *)
(* conditions of that moment (page.js:64-67, 107-109).  That is harmless only while  *)
(* the answer, or the error, renders the list anew: conditions are never out of date *)
(* unless a page is still on its way.                                                *)
FrozenOnlyWhileLoading == params # Fresh => loads # {}

(* So the list shows what was in the search field when it was asked for, unless loads *)
(* overtook one another.                                                              *)
AskedIsShown ==
  loads = {} /\ ~history.overlapped /\ panel.view \in Lists => panel.key = history.asked

(* Binding, deleting and deploying end in a click on "search" (bind-form-list.js:29,  *)
(* 43; list.js:29).  When everything has arrived the list shows tables that have the  *)
(* change, unless loads overtook one another.                                         *)
RefreshShowsTheChange ==
  loads = {} /\ ~history.overlapped /\ panel.view \in Lists => panel.version >= history.refreshed

(* A list whose buttons do nothing (the paginator ended its script): somebody deleted *)
(* rows, or a page was turned after another key had been typed into the search field. *)
DeadOnlyWhenListShrank ==
  panel.view \in Lists /\ ~Wired => history.removed \/ panel.from # panel.key

(* One click on "save" binds one form, as long as the "add" button was not pressed    *)
(* again before its dialog was there.                                                 *)
OneBindPerClick == ~history.doubled => history.binds = history.bindClicks

(* A dialog is never closed in another one's place, which would leave a backdrop over *)
(* the page for ever, unless the answer to the second "add" overtook the first.       *)
BlockedOnlyByReordering == stuck => history.reordered

=============================================================================

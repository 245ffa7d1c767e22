-------------------------- MODULE TaskConfigProps --------------------------
(* What is claimed of the node page and of ProcessDefinitionService. *)
EXTENDS TaskConfig

TableRows == [bpmn : STRING, id : STRING, name : STRING]

Database  == [users : Seq(TableRows), groups : Seq(TableRows), buttons : Seq(TableRows)]

(* Every variable stays in its type; the tables hold rows only, and nothing is *)
(* left to execute outside a transaction.                                      *)
TypeOK ==
  /\ db \in Database /\ work \in Database
  /\ writer \in Admins \cup {Nobody}
  /\ writer = Nobody => todo = <<>>
  /\ \A a \in Admins :
       /\ dialog[a].task \in UserTasks \cup {Nobody}
       /\ request[a].kind \in {"none", "config", "buttons"}
       /\ answer[a] \in {"none", "saved", "failed"}

(* Whatever saves run, fail and wait for one another, the tables always hold *)
(* for each task the buttons, and for the definition the users and groups,   *)
(* of the last save that was answered with success: never a part of a save,  *)
(* never the rows of a task nobody saved.                                    *)
TablesHoldLastSave ==
  \A n \in UserTasks :
    /\ RowsOf(db.buttons, n) = RowsOf(last.buttons, n)
    /\ db.users = last.users
    /\ db.groups = last.groups

(* A stored button was typed, completely, by somebody in the dialog of its   *)
(* task, or of a task whose id contains the id of its task: the dialog finds *)
(* its lines by LIKE (CompletOperButtonMapper.xml:15) and saves them as its  *)
(* own.                                                                      *)
ButtonsHaveAnOrigin ==
  \A r \in Range(db.buttons) :
    /\ r.id # Blank /\ r.name # Blank
    /\ \E t \in typed : /\ t.line = [title |-> r.name, value |-> r.id]
                        /\ t.task \in Within[r.bpmn]

(* If nobody else saved since the dialog was opened, its save loses no       *)
(* button of the task but those removed in the dialog.                       *)
LosesOnlyRemoved(a) ==
  /\ writer = a /\ commits' = commits + 1 /\ request[a].kind = "buttons"
  /\ dialog[a].seen = commits
  => \A r \in Range(RowsOf(db.buttons, dialog[a].task)) :
       \/ r \in Range(RowsOf(db'.buttons, dialog[a].task))
       \/ [title |-> r.name, value |-> r.id] \in dialog[a].removed

OwnButtonsSurvive == [][\A a \in Admins : LosesOnlyRemoved(a)]_vars

-----------------------------------------------------------------------------
(* What the sources say and the code does not do. *)

(* "Saved" (bpmn.js:104, the message for a save that was answered with true): *)
(* when the message is up the server shows for every user task the users of   *)
(* the page that was saved.                                                   *)
SavedUsersAreShown ==
  \A a \in Admins : answer[a] = "saved" /\ dialog[a].task = Nobody =>
    \A n \in UserTasks : Shown(db)[n].userIds = page[a][n].userIds

(* "group id" (PDGroupConfigVo.java:11): the group column of the table holds  *)
(* ids of groups.                                                             *)
GroupIdsAreGroups ==
  \A r \in Range(db.groups) : \E c \in GroupChoices : r.id \in Range(c.ids)

=============================================================================

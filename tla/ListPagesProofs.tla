-------------------------- MODULE ListPagesProofs --------------------------
(* Proofs about the list pages, for any keys, page sizes, tables, texts and  *)
(* numbers of loads, dialogs, saves and changes by others.                   *)
EXTENDS ListPagesProps, DialogsProofs, FiltersProofs

-----------------------------------------------------------------------------
(* Types *)

(* The numbers of pages that a number of rows make *)
LEMMA PagesMonotone ==
  ASSUME NEW a \in Nat, NEW b \in Nat, a <= b
  PROVE  /\ (a + PageSize - 1) \div PageSize \in Nat
         /\ (a + PageSize - 1) \div PageSize <= (b + PageSize - 1) \div PageSize
<1>1. PageSize \in Nat \ {0}
  BY ListPagesAssumption
<1>2. ASSUME NEW c \in Nat, NEW d \in Nat, c <= d
      PROVE  c \div PageSize \in Nat /\ c \div PageSize <= d \div PageSize
  BY <1>1, <1>2
<1>3. a + PageSize - 1 \in Nat /\ b + PageSize - 1 \in Nat /\ a + PageSize - 1 <= b + PageSize - 1
  BY <1>1
<1>4. QED
  BY <1>2, <1>3

(* The rows of a list that match a key *)
LEMMA MatchingTyped ==
  ASSUME TablesTyped, NEW v \in Lists, NEW key
  PROVE  Matching(v, key) \in Table /\ Len(Matching(v, key)) \in Nat /\ PagesOf(v, key) \in Nat
<1>1. db[v] \in Seq(Row)
  BY DEF TablesTyped, Table
<1>2. Matching(v, key) \in Seq(Row)
  BY <1>1, KeptRange DEF Matching
<1>3. Len(Matching(v, key)) \in Nat
  BY <1>2, LenProperties
<1>4. QED
  BY <1>2, <1>3, PagesMonotone DEF PagesOf, Table

(* A page of a list is a page, even one beyond the last. *)
LEMMA RenderedTyped ==
  ASSUME TablesTyped, NEW v \in Lists, NEW key \in SearchKeys, NEW page \in Nat \ {0}, NEW from \in SearchKeys
  PROVE  Rendered(v, key, page, from) \in Page(Lists)
<1> DEFINE hits == Matching(v, key)
           first == (page - 1) * PageSize + 1
           last == IF page * PageSize <= Len(hits) THEN page * PageSize ELSE Len(hits)
<1>1. hits \in Table /\ Len(hits) \in Nat /\ PagesOf(v, key) \in Nat
  BY MatchingTyped
<1>2. PageSize \in Nat /\ page * PageSize \in Nat /\ (page - 1) * PageSize \in Nat
  BY ListPagesAssumption
<1>3. first \in Nat /\ first >= 1 /\ last \in Nat /\ last <= Len(hits)
  BY <1>1, <1>2
<1>4. SubSeq(hits, first, last) \in Table
  <2> HIDE DEF hits, first, last
  <2>1. \A i \in first..last : hits[i] \in Row
    BY <1>1, <1>3, ElementOfSeq DEF Table
  <2>2. first \in Int /\ last \in Int
    BY <1>3
  <2>3. QED
    BY <2>1, <2>2, SubSeqProperties DEF Table
<1>5. Rendered(v, key, page, from) =
        [view |-> v, key |-> key, page |-> page, pages |-> PagesOf(v, key),
         rows |-> SubSeq(hits, first, last), version |-> version, from |-> from]
  BY DEF Rendered
<1>6. version \in Nat
  BY DEF TablesTyped
<1>7. QED
  <2> HIDE DEF hits, first, last
  <2>1. QED
    BY <1>1, <1>4, <1>5, <1>6 DEF Page

(* Pages that are no lists *)
LEMMA PlainTyped ==
  ASSUME version \in Nat, NEW name
  PROVE  Plain(name) \in Page({name}) /\ Plain(name).view = name
<1>1. <<>> \in Table
  BY EmptySeq DEF Table
<1>2. AnyKey \in SearchKeys
  BY DEF SearchKeys
<1>3. QED
  BY <1>1, <1>2 DEF Plain, Page

(* The answer to a request *)
LEMMA ReplyTyped ==
  ASSUME TablesTyped, NEW l \in Request
  PROVE  Reply(l) \in Page(Lists \cup {"config", "error"})
<1>1. /\ l.view \in Lists \cup {"config"} /\ l.key \in SearchKeys /\ l.page \in Nat
      /\ l.from \in SearchKeys /\ version \in Nat
  BY DEF Request, TablesTyped
<1>2. CASE l.page # Refused /\ l.view \in Lists
  <2>1. Rendered(l.view, l.key, l.page, l.from) \in Page(Lists)
    BY <1>1, <1>2, RenderedTyped DEF Refused
  <2>2. QED
    BY <1>2, <2>1 DEF Reply, Page
<1>3. CASE ~(l.page # Refused /\ l.view \in Lists)
  <2>1. Reply(l) = Plain("error") \/ Reply(l) = Plain("config")
    BY <1>1, <1>3 DEF Reply
  <2>2. Plain("error") \in Page({"error"}) /\ Plain("config") \in Page({"config"})
    BY <1>1, PlainTyped
  <2>3. QED
    BY <2>1, <2>2 DEF Page
<1>4. QED
  BY <1>2, <1>3

(* A statement makes tables of tables. *)
LEMMA StoredTyped ==
  ASSUME TablesTyped, NEW op, NEW row \in Row
  PROVE  Stored(op, row) \in [Lists -> Table]
<1> DEFINE new == [row EXCEPT !.id = version + 1]
<1>1. new \in Row
  BY DEF TablesTyped, Row
<1> HIDE DEF new
<1>2. "forms" \in Lists /\ "pd" \in Lists
  BY DEF Lists
<1>3. db \in [Lists -> Table] /\ db["forms"] \in Seq(Row) /\ db["pd"] \in Seq(Row)
  BY <1>2 DEF TablesTyped, Table
<1>4. Append(db["forms"], new) \in Table
  BY <1>1, <1>3, AppendProperties DEF Table
<1>5. <<new>> \o db["pd"] \in Table
  BY <1>1, <1>3, ConcatProperties DEF Table
<1>6. ASSUME NEW S
      PROVE  Kept(db["forms"], S) \in Table
  BY <1>3, KeptRange DEF Table
<1>7. QED
  BY <1>2, <1>3, <1>4, <1>5, <1>6 DEF Stored, new

(* The types in the beginning *)
LEMMA TypesInit == Init => TypeOK
<1> SUFFICES ASSUME Init
             PROVE  TypeOK
  OBVIOUS
<1>1. TablesTyped
  BY ListPagesAssumption DEF Init, TablesTyped, Table, Row
<1>2. panel \in Page(Lists \cup {"home", "config", "error"})
  <2>1. CASE panel = Plain("home")
    <3>1. Plain("home") \in Page({"home"})
      BY <1>1, PlainTyped DEF TablesTyped
    <3>2. QED
      BY <2>1, <3>1 DEF Page
  <2>2. ASSUME NEW v \in Lists, panel = Rendered(v, AnyKey, 1, AnyKey)
        PROVE  panel \in Page(Lists)
    BY <1>1, <2>2, RenderedTyped DEF SearchKeys
  <2>3. QED
    BY <2>1, <2>2 DEF Init, Page
<1>3. /\ field \in SearchKeys /\ params = Fresh /\ loads = {} /\ coming = {} /\ dialogs = <<>>
      /\ stuck = FALSE /\ upload = "closed" /\ file = [state |-> "none", save |-> 0] /\ saves = {}
      /\ sends = 0 /\ pressed = 0 /\ version = 0
  BY DEF Init, SearchKeys, NoFile
<1>4. history \in History(version)
  BY DEF Init, History, SearchKeys
<1>5. dialogs \in Seq(Popup({"search"}))
  BY <1>3, EmptySeq
<1>6. SavesTyped
  BY <1>3 DEF SavesTyped
<1>7. ShownTyped /\ LoadsTyped /\ PopupsTyped
  BY <1>2, <1>3, <1>5 DEF ShownTyped, LoadsTyped, PopupsTyped
<1>8. QED
  BY <1>1, <1>4, <1>6, <1>7 DEF TypeOK

(* A load, or none, with the history so far *)
LEMMA LoadTyped ==
  ASSUME LoadsTyped, version \in Nat, panel.key \in SearchKeys, UNCHANGED version, NEW h \in History(version),
         NEW v \in Lists \cup {"config"}, NEW key \in SearchKeys, NEW page \in Nat, NEW asked \in SearchKeys,
         Load(v, key, page, asked, h), coming' = coming
  PROVE  LoadsTyped' /\ history' \in History(version')
<1> DEFINE new == [n |-> sends + 1, view |-> v, key |-> key, page |-> page, from |-> panel.key,
                   reply |-> NoReply]
<1>1. loads' = loads \cup {new} /\ sends' = sends + 1
  BY DEF Load
<1>3. new \in Request /\ new.n = sends + 1
  BY DEF LoadsTyped, Request
<1> HIDE DEF new
<1>4. LoadsTyped'
  BY <1>1, <1>3 DEF LoadsTyped
<1>5. history' \in History(version)
  <2>1. history' = [h EXCEPT !.overlapped = h.overlapped \/ loads # {}, !.asked = asked]
    BY DEF Load
  <2>2. ASSUME NEW b \in BOOLEAN
        PROVE  [h EXCEPT !.overlapped = b, !.asked = asked] \in History(version)
    BY DEF History
  <2>3. (h.overlapped \/ loads # {}) \in BOOLEAN
    OBVIOUS
  <2>4. QED
    BY <2>1, <2>2, <2>3
<1>6. QED
  BY <1>4, <1>5

(* "search" is clicked, or not *)
LEMMA SearchTyped ==
  ASSUME TypeOK, UNCHANGED version, coming' = coming,
         ClickSearch(history) \/ ClickSearch(Seen) \/ LoadNothing(history)
  PROVE  LoadsTyped' /\ history' \in History(version')
<1>1. /\ version \in Nat /\ history \in History(version) /\ LoadsTyped
      /\ panel.key \in SearchKeys /\ field \in SearchKeys
  BY DEF TypeOK, TablesTyped, ShownTyped, Page
<1>2. Seen \in History(version)
  BY <1>1 DEF Seen, History
<1>3. CASE LoadNothing(history)
  BY <1>1, <1>3 DEF LoadNothing, LoadsTyped
<1>4. ASSUME NEW h \in History(version), ClickSearch(h)
      PROVE  LoadsTyped' /\ history' \in History(version')
  <2>1. CASE Wired /\ ~Unsearchable
    <3>1. Load(panel.view, field, 1, field, h) /\ panel.view \in Lists
      BY <1>4, <2>1 DEF ClickSearch, Wired
    <3>2. QED
      BY <1>1, <3>1, LoadTyped
  <2>2. CASE ~(Wired /\ ~Unsearchable)
    BY <1>1, <1>4, <2>2 DEF ClickSearch, LoadNothing, LoadsTyped
  <2>3. QED
    BY <2>1, <2>2
<1>5. QED
  BY <1>1, <1>2, <1>3, <1>4

(* The page that is turned to is a number, at worst the one that is refused. *)
LEMMA EnteredTyped ==
  ASSUME TypeOK, NEW text \in Texts
  PROVE  Entered(text) \in Nat
<1>1. text.n \in Int /\ panel.pages \in Nat
  BY ListPagesAssumption DEF TypeOK, ShownTyped, Page
<1>2. QED
  BY <1>1 DEF Entered, Refused

(* Statements, and other people, change the tables. *)
LEMMA TablesNext == TypeOK /\ Next => TablesTyped'
<1> SUFFICES ASSUME TypeOK, Next
             PROVE  TablesTyped'
  OBVIOUS
<1>1. TablesTyped /\ NewKeys \subseteq Keys
  BY ListPagesAssumption DEF TypeOK
<1>2. ASSUME NEW s \in saves, Execute(s)
      PROVE  TablesTyped'
  <2>1. s.row \in Row
    BY <1>2 DEF TypeOK, SavesTyped, Save
  <2>2. db' \in [Lists -> Table]
    BY <1>1, <1>2, <2>1, StoredTyped DEF Execute
  <2>3. QED
    BY <1>1, <1>2, <2>2 DEF Execute, TablesTyped
<1>3. CASE Others
  <2>1. ASSUME NEW key \in NewKeys
        PROVE  [id |-> 0, key |-> key] \in Row
    BY <1>1 DEF Row
  <2>2. ASSUME NEW i \in DOMAIN db.forms
        PROVE  db.forms[i] \in Row
    <3>1. db.forms \in Seq(Row)
      BY <1>1 DEF TablesTyped, Table, Lists
    <3>2. QED
      BY <3>1, ElementOfSeq, LenProperties
  <2>3. \E op \in {"insert", "deploy", "delete"}, row \in Row : db' = Stored(op, row)
    BY <1>3, <2>1, <2>2 DEF Others
  <2>4. db' \in [Lists -> Table]
    BY <1>1, <2>3, StoredTyped
  <2>5. QED
    BY <1>1, <1>3, <2>4 DEF Others, TablesTyped
<1>4. CASE UNCHANGED tables
  BY <1>1, <1>4 DEF tables, TablesTyped
<1>5. QED
  BY <1>2, <1>3, <1>4
  DEF Next, User, Server, Answers, Menu, TypeKey, Search, ClickPage, EnterPage, TurnTo, Configure,
      AddForm, CancelForm, SubmitForm, DeleteForm, OpenUpload, DropFile, RemoveFile, CloseUpload,
      SubmitUpload, Serve, ExecuteFails, Arrive, LoadFails, FormArrives, FormFails, UploadArrives,
      AnswerInsert, AnswerDelete, AnswerDeploy, Lose

(* Answers, typing and turning pages change what is shown. *)
LEMMA ShownNext == TypeOK /\ Next => ShownTyped'
<1> SUFFICES ASSUME TypeOK, Next
             PROVE  ShownTyped'
  OBVIOUS
<1>1. ShownTyped /\ version \in Nat
  BY DEF TypeOK, TablesTyped
<1>2. ASSUME NEW new \in Page(Lists \cup {"config", "error"}), Show(new)
      PROVE  ShownTyped'
  <2>1. new \in Page(Lists \cup {"home", "config", "error"}) /\ new.key \in SearchKeys
    BY <1>2 DEF Page
  <2>2. QED
    BY <1>2, <2>1 DEF Show, ShownTyped
<1>3. ASSUME NEW l \in loads, Arrive(l)
      PROVE  ShownTyped'
  <2>1. l.reply \in Page(Lists \cup {"config", "error"})
    BY <1>3 DEF Arrive, TypeOK, LoadsTyped, Request
  <2>2. QED
    BY <1>2, <1>3, <2>1 DEF Arrive
<1>4. ASSUME NEW l \in loads, LoadFails(l)
      PROVE  ShownTyped'
  <2>1. Plain("error") \in Page({"error"})
    BY <1>1, PlainTyped
  <2>2. Plain("error") \in Page(Lists \cup {"config", "error"})
    BY <2>1 DEF Page
  <2>3. QED
    BY <1>2, <1>4, <2>2 DEF LoadFails
<1>5. ASSUME NEW key \in SearchKeys, TypeKey(key)
      PROVE  ShownTyped'
  BY <1>1, <1>5 DEF TypeKey, ShownTyped
<1>6. ASSUME NEW page, TurnTo(page)
      PROVE  ShownTyped'
  BY <1>1, <1>6 DEF TurnTo, ShownTyped
<1>7. CASE UNCHANGED view
  BY <1>1, <1>7 DEF view, ShownTyped
<1>8. QED
  BY <1>3, <1>4, <1>5, <1>6, <1>7
  DEF Next, User, Server, Answers, Menu, SearchKeys, Search, ClickPage, EnterPage, Configure,
      AddForm, CancelForm, SubmitForm, DeleteForm, OpenUpload, DropFile, RemoveFile, CloseUpload,
      SubmitUpload, Serve, Execute, ExecuteFails, Others, FormArrives, FormFails, UploadArrives,
      AnswerInsert, AnswerDelete, AnswerDeploy, Lose, view

(* What was sent, and what happened so far *)
LEMMA LoadsNext == TypeOK /\ Next => LoadsTyped' /\ history' \in History(version')
<1> SUFFICES ASSUME TypeOK, Next
             PROVE  LoadsTyped' /\ history' \in History(version')
  OBVIOUS
<1>1. /\ version \in Nat /\ history \in History(version) /\ LoadsTyped
      /\ panel.key \in SearchKeys /\ field \in SearchKeys /\ AnyKey \in SearchKeys
      /\ TablesTyped
  BY DEF TypeOK, TablesTyped, ShownTyped, Page, SearchKeys
<1>2. ASSUME NEW v \in Lists, Menu(v)
      PROVE  LoadsTyped' /\ history' \in History(version')
  BY <1>1, <1>2, LoadTyped DEF Menu, tables, popups
<1>3. CASE Search
  BY <1>3, SearchTyped DEF Search, tables, popups
<1>4. ASSUME NEW page \in Nat, TurnTo(page)
      PROVE  LoadsTyped' /\ history' \in History(version')
  <2>1. ASSUME NEW key, key = params'
        PROVE  key \in SearchKeys
    BY <1>1, <1>4, <2>1 DEF TurnTo, TypeOK, ShownTyped
  <2>2. ASSUME NEW key \in SearchKeys, Load(panel.view, key, page, field, history)
        PROVE  LoadsTyped' /\ history' \in History(version')
    BY <1>1, <1>4, <2>2, LoadTyped DEF TurnTo, Wired, tables, popups
  <2>3. Load(panel.view, params', page, field, history)
    BY <1>4 DEF TurnTo
  <2>4. QED
    BY <2>1, <2>2, <2>3
<1>5. CASE Configure
  BY <1>1, <1>5, LoadTyped DEF Configure, tables, popups
<1>6. CASE AddForm
  <2>1. LoadsTyped'
    BY <1>1, <1>6 DEF AddForm, LoadsTyped
  <2>2. history' = [history EXCEPT !.doubled = history.doubled \/ coming # {}] /\ version' = version
    BY <1>6 DEF AddForm, tables
  <2>3. ASSUME NEW b \in BOOLEAN
        PROVE  [history EXCEPT !.doubled = b] \in History(version)
    BY <1>1 DEF History
  <2>4. (history.doubled \/ coming # {}) \in BOOLEAN
    OBVIOUS
  <2>5. QED
    BY <2>1, <2>2, <2>3, <2>4
<1>7. CASE OpenUpload
  BY <1>1, <1>7 DEF OpenUpload, LoadsTyped, tables
<1>8. ASSUME NEW l \in loads, Serve(l)
      PROVE  LoadsTyped' /\ history' \in History(version')
  <2>1. Reply(l) \in Page(Lists \cup {"config", "error"}) /\ l \in Request
    BY <1>1, <1>8, ReplyTyped DEF LoadsTyped
  <2>2. [l EXCEPT !.reply = Reply(l)] \in Request /\ [l EXCEPT !.reply = Reply(l)].n = l.n
    BY <2>1 DEF Request
  <2>3. QED
    BY <1>1, <1>8, <2>2 DEF Serve, LoadsTyped, tables, popups
<1>9. ASSUME NEW l \in loads, Arrive(l) \/ LoadFails(l)
      PROVE  LoadsTyped' /\ history' \in History(version')
  BY <1>1, <1>9 DEF Arrive, LoadFails, LoadsTyped, tables, popups
<1>10. ASSUME NEW div \in coming, FormArrives(div)
       PROVE  LoadsTyped' /\ history' \in History(version')
  <2>1. LoadsTyped'
    BY <1>1, <1>10 DEF FormArrives, LoadsTyped
  <2>2. /\ history' = [history EXCEPT !.reordered = history.reordered \/ \E earlier \in coming : earlier < div]
        /\ version' = version
    BY <1>10 DEF FormArrives, tables
  <2>3. ASSUME NEW b \in BOOLEAN
        PROVE  [history EXCEPT !.reordered = b] \in History(version)
    BY <1>1 DEF History
  <2>4. (history.reordered \/ \E earlier \in coming : earlier < div) \in BOOLEAN
    OBVIOUS
  <2>5. QED
    BY <2>1, <2>2, <2>3, <2>4
<1>11. ASSUME NEW div \in coming, FormFails(div)
       PROVE  LoadsTyped' /\ history' \in History(version')
  BY <1>1, <1>11 DEF FormFails, LoadsTyped, tables
<1>12. ASSUME NEW key \in NewKeys, SubmitForm(key)
       PROVE  LoadsTyped' /\ history' \in History(version')
  <2>1. dialogs[1].handlers \in Nat
    <3>1. 1 \in DOMAIN dialogs /\ dialogs \in Seq(Popup({"search"}))
      BY <1>12, LenProperties, EmptySeq DEF SubmitForm, TypeOK, PopupsTyped
    <3>2. dialogs[1] \in Popup({"search"})
      BY <3>1, ElementOfSeq, LenProperties
    <3>3. QED
      BY <3>2 DEF Popup
  <2>2. history' = [history EXCEPT !.bindClicks = history.bindClicks + 1,
                                   !.binds = history.binds + dialogs[1].handlers]
    BY <1>12 DEF SubmitForm
  <2>3. history.bindClicks + 1 \in Nat /\ history.binds + dialogs[1].handlers \in Nat
    BY <1>1, <2>1 DEF History
  <2>4. history' \in History(version)
    BY <1>1, <2>2, <2>3 DEF History
  <2>5. QED
    BY <1>1, <1>12, <2>4 DEF SubmitForm, LoadsTyped, tables, popups
<1>13. CASE Others \/ \E s \in saves : Execute(s)
  <2>1. /\ version' = version + 1 /\ UNCHANGED <<loads, sends, coming>>
        /\ history' = history \/ \E b \in BOOLEAN : history' = [history EXCEPT !.removed = b]
    <3>1. CASE Others
      BY <3>1 DEF Others, popups
    <3>2. ASSUME NEW s \in saves, Execute(s)
          PROVE  /\ version' = version + 1 /\ UNCHANGED <<loads, sends, coming>>
                 /\ \E b \in BOOLEAN : history' = [history EXCEPT !.removed = b]
      <4>1. (history.removed \/ s.op = "delete") \in BOOLEAN
        OBVIOUS
      <4>2. history' = [history EXCEPT !.removed = (history.removed \/ s.op = "delete")]
        BY <3>2 DEF Execute
      <4>3. QED
        BY <3>2, <4>1, <4>2 DEF Execute, popups
    <3>3. QED
      BY <1>13, <3>1, <3>2
  <2>2. history \in History(version + 1)
    BY <1>1 DEF History
  <2>3. ASSUME NEW b \in BOOLEAN
        PROVE  [history EXCEPT !.removed = b] \in History(version + 1)
    BY <2>2 DEF History
  <2>4. QED
    BY <1>1, <2>1, <2>2, <2>3 DEF LoadsTyped
<1>14. ASSUME NEW s \in saves, AnswerInsert(s) \/ AnswerDelete(s) \/ AnswerDeploy(s)
       PROVE  LoadsTyped' /\ history' \in History(version')
  <2>1. /\ ClickSearch(Seen) \/ LoadNothing(history)
        /\ UNCHANGED version /\ coming' = coming
    BY <1>14 DEF AnswerInsert, AnswerDelete, AnswerDeploy, tables, popups
  <2>2. QED
    BY <2>1, SearchTyped
<1>15. CASE UNCHANGED <<version, loads, sends, coming, history>>
  BY <1>1, <1>15 DEF LoadsTyped
<1>16. CASE ClickPage
  <2>1. PICK page \in 1..panel.pages : TurnTo(page)
    BY <1>16 DEF ClickPage
  <2>2. QED
    BY <1>4, <2>1
<1>17. CASE EnterPage
  <2>1. PICK text \in Texts : TurnTo(Entered(text))
    BY <1>17 DEF EnterPage
  <2>2. Entered(text) \in Nat
    BY EnteredTyped
  <2>3. QED
    BY <1>4, <2>1, <2>2
<1>18. QED
  BY <1>2, <1>3, <1>5, <1>6, <1>7, <1>8, <1>9, <1>10, <1>11, <1>12, <1>13, <1>14, <1>15, <1>16, <1>17
  DEF Next, User, Server, Answers, TypeKey, CancelForm, DeleteForm, DropFile, RemoveFile, CloseUpload,
      SubmitUpload, ExecuteFails, UploadArrives, Lose, tables, view, popups

(* Opening and closing change the dialogs. *)
LEMMA PopupsNext == TypeOK /\ Next => PopupsTyped'
<1> SUFFICES ASSUME TypeOK, Next
             PROVE  PopupsTyped'
  OBVIOUS
<1>1. PopupsTyped
  BY DEF TypeOK
<1>2. ASSUME NEW div \in coming, FormArrives(div)
      PROVE  PopupsTyped'
  <2>1. div \in Nat
    BY <1>2 DEF TypeOK, LoadsTyped
  <2>2. dialogs' \in Seq(Popup({"search"}))
    BY <1>1, <1>2, <2>1, OpenedTyped DEF FormArrives, PopupsTyped
  <2>3. QED
    BY <1>1, <1>2, <2>2 DEF FormArrives, PopupsTyped
<1>3. ASSUME NEW i \in DOMAIN dialogs, Hide(i), upload' = upload
      PROVE  PopupsTyped'
  <2>1. dialogs' \in Seq(Popup({"search"}))
    BY <1>1, <1>3, HiddenTyped DEF Hide, PopupsTyped
  <2>2. LeavesBackdrop(dialogs, i) \in BOOLEAN
    BY DEF LeavesBackdrop
  <2>3. QED
    BY <1>1, <1>3, <2>1, <2>2 DEF Hide, PopupsTyped
<1>4. ASSUME NEW s \in saves, AnswerInsert(s)
      PROVE  PopupsTyped'
  <2>1. CASE UNCHANGED <<dialogs, stuck>>
    BY <1>1, <1>4, <2>1 DEF AnswerInsert, PopupsTyped
  <2>2. CASE dialogs # <<>> /\ Hide(1)
    <3>1. 1 \in DOMAIN dialogs
      BY <1>1, <2>2, LenProperties, EmptySeq DEF PopupsTyped
    <3>2. QED
      BY <1>3, <1>4, <2>2, <3>1 DEF AnswerInsert
  <2>3. QED
    BY <1>4, <2>1, <2>2 DEF AnswerInsert
<1>5. ASSUME NEW i \in DOMAIN dialogs, CancelForm(i)
      PROVE  PopupsTyped'
  BY <1>3, <1>5 DEF CancelForm
<1>6. CASE OpenUpload \/ UploadArrives \/ CloseUpload
  BY <1>1, <1>6 DEF OpenUpload, UploadArrives, CloseUpload, PopupsTyped
<1>7. CASE UNCHANGED <<dialogs, stuck, upload>>
  BY <1>1, <1>7 DEF PopupsTyped
<1>8. QED
  BY <1>2, <1>4, <1>5, <1>6, <1>7
  DEF Next, User, Server, Answers, Menu, TypeKey, Search, ClickPage, EnterPage, TurnTo, Configure,
      AddForm, SubmitForm, DeleteForm, DropFile, RemoveFile, SubmitUpload, Serve, Execute, ExecuteFails,
      Others, Arrive, LoadFails, FormFails, AnswerDelete, AnswerDeploy, Lose, popups

(* The calls of a button *)
LEMMA CallTyped ==
  ASSUME SavesTyped, NEW op \in {"insert", "delete", "deploy"}, NEW row \in Row, NEW n \in 1..pressed',
         NEW handlers \in Nat, Call(op, row, n, handlers), pressed' \in Nat, pressed' >= pressed
  PROVE  saves' \subseteq Save /\ \A s \in saves' : s.n \in 1..pressed'
<1>1. ASSUME NEW i \in 1..handlers
      PROVE  [n |-> n, i |-> i, op |-> op, row |-> row, answer |-> "none"] \in Save
  BY DEF Save
<1>2. QED
  BY <1>1 DEF Call, SavesTyped

(* Buttons, statements and answers change the calls and the file. *)
LEMMA SavesNext == TypeOK /\ Next => SavesTyped'
<1> SUFFICES ASSUME TypeOK, Next
             PROVE  SavesTyped'
  OBVIOUS
<1>1. SavesTyped /\ NewKeys \subseteq Keys
  BY ListPagesAssumption DEF TypeOK
<1>2. ASSUME NEW key \in NewKeys
      PROVE  [id |-> 0, key |-> key] \in Row
  BY <1>1 DEF Row
<1>3. ASSUME NEW key \in NewKeys, SubmitForm(key)
      PROVE  SavesTyped'
  <2>1. dialogs[1].handlers \in Nat
    <3>1. 1 \in DOMAIN dialogs /\ dialogs \in Seq(Popup({"search"}))
      BY <1>3, LenProperties, EmptySeq DEF SubmitForm, TypeOK, PopupsTyped
    <3>2. dialogs[1] \in Popup({"search"})
      BY <3>1, ElementOfSeq, LenProperties
    <3>3. QED
      BY <3>2 DEF Popup
  <2>2. /\ Call("insert", [id |-> 0, key |-> key], pressed + 1, dialogs[1].handlers)
        /\ pressed' = pressed + 1 /\ pressed \in Nat /\ file' = file
    BY <1>1, <1>3 DEF SubmitForm, SavesTyped, popups
  <2>3. pressed + 1 \in 1..pressed' /\ pressed' \in Nat /\ pressed' >= pressed
    BY <2>2
  <2>4. saves' \subseteq Save /\ \A s \in saves' : s.n \in 1..pressed'
    BY <1>1, <1>2, <2>1, <2>2, <2>3, CallTyped
  <2>5. QED
    BY <1>1, <2>2, <2>4 DEF SavesTyped
<1>4. ASSUME NEW j \in DOMAIN panel.rows, DeleteForm(panel.rows[j])
      PROVE  SavesTyped'
  <2>1. panel.rows[j] \in Row
    <3>1. panel.rows \in Seq(Row)
      BY DEF TypeOK, ShownTyped, Page, Table
    <3>2. QED
      BY <3>1, ElementOfSeq, LenProperties
  <2>2. saves' \subseteq Save /\ \A s \in saves' : s.n \in 1..pressed'
    BY <1>1, <1>4, <2>1, CallTyped DEF DeleteForm, SavesTyped
  <2>3. QED
    BY <1>1, <1>4, <2>2 DEF DeleteForm, SavesTyped, popups
<1>5. CASE DropFile
  BY <1>1, <1>5 DEF DropFile, SavesTyped
<1>6. CASE RemoveFile \/ CloseUpload
  BY <1>1, <1>6 DEF RemoveFile, CloseUpload, NoFile, SavesTyped
<1>7. ASSUME NEW key \in NewKeys, SubmitUpload(key)
      PROVE  SavesTyped'
  <2>1. file.save \in 1..pressed
    BY <1>1, <1>7 DEF SubmitUpload, SavesTyped
  <2>2. saves' \subseteq Save /\ \A s \in saves' : s.n \in 1..pressed'
    BY <1>1, <1>2, <1>7, <2>1, CallTyped DEF SubmitUpload, SavesTyped
  <2>3. QED
    BY <1>1, <1>7, <2>1, <2>2 DEF SubmitUpload, SavesTyped
<1>8. ASSUME NEW s \in saves, Execute(s) \/ ExecuteFails(s)
      PROVE  SavesTyped'
  <2>1. PICK text \in {"true", "false"} : Answered(s, text)
    BY <1>8 DEF Execute, ExecuteFails
  <2>2. s \in Save /\ s.n \in 1..pressed
    BY <1>1, <1>8 DEF SavesTyped
  <2>3. [s EXCEPT !.answer = text] \in Save /\ [s EXCEPT !.answer = text].n = s.n
    BY <2>2 DEF Save
  <2>4. QED
    BY <1>1, <1>8, <2>1, <2>2, <2>3 DEF Execute, ExecuteFails, Answered, SavesTyped, popups
<1>9. ASSUME NEW s \in saves, Lose(s) \/ AnswerInsert(s) \/ AnswerDelete(s) \/ AnswerDeploy(s)
      PROVE  SavesTyped'
  <2>1. s.n \in 1..pressed
    BY <1>1, <1>9 DEF SavesTyped
  <2>2. /\ saves' = saves \ {s} /\ pressed' = pressed
        /\ \/ file' = file
           \/ file.save = s.n /\ file' = [file EXCEPT !.state = "over"]
    BY <1>9 DEF Lose, AnswerInsert, AnswerDelete, AnswerDeploy, popups
  <2>3. QED
    BY <1>1, <2>1, <2>2 DEF SavesTyped
<1>10. CASE UNCHANGED <<file, saves, pressed>>
  BY <1>1, <1>10 DEF SavesTyped
<1>11. QED
  BY <1>3, <1>4, <1>5, <1>6, <1>7, <1>8, <1>9, <1>10
  DEF Next, User, Server, Answers, Menu, TypeKey, Search, ClickPage, EnterPage, TurnTo, Configure,
      AddForm, CancelForm, OpenUpload, Serve, Others, Arrive, LoadFails, FormArrives, FormFails,
      UploadArrives, popups

(* Every variable keeps its type: page numbers are numbers, what is sent is numbered by *)
(* the loads so far, and the number of a file is that of the button press that put it  *)
(* there.                                                                              *)
THEOREM TypeCorrect == Spec => []TypeOK
<1>1. TypeOK /\ [Next]_vars => TypeOK'
  <2>1. CASE Next
    BY <2>1, TablesNext, ShownNext, LoadsNext, PopupsNext, SavesNext DEF TypeOK
  <2>2. CASE UNCHANGED vars
    BY <2>2 DEF vars, TypeOK, TablesTyped, ShownTyped, LoadsTyped, PopupsTyped, SavesTyped
  <2>3. QED
    BY <2>1, <2>2
<1>2. QED
  BY <1>1, TypesInit, PTL DEF Spec

-----------------------------------------------------------------------------
(* What the list shows *)

HistoryFields ==
  {"overlapped", "asked", "doubled", "reordered", "refreshed", "removed", "bindClicks", "binds"}
LoadFields == {"n", "view", "key", "page", "from", "reply"}

(* An answer to what was asked last, not older than the last refresh *)
Current(reply, h) ==
  reply.view \in Lists => reply.key = h.asked /\ reply.version >= h.refreshed

(* Unless loads overlapped there is one at most, for what was asked last; served or *)
(* shown, it is not older than the last save that clicked "search".                 *)
InStep ==
  ~history.overlapped =>
    /\ \A l, m \in loads : l = m
    /\ \A l \in loads : (l.view \in Lists => l.key = history.asked) /\ Current(l.reply, history)
    /\ loads = {} => Current(panel, history)

Counted == /\ version \in Nat
           /\ DOMAIN history = HistoryFields
           /\ history.refreshed \in 0..version
           /\ \A l \in loads : DOMAIN l = LoadFields

ListInv == Counted /\ FrozenOnlyWhileLoading /\ InStep

(* A list is rendered for the key it was asked for, from the tables of that moment. *)
LEMMA RenderedNow ==
  ASSUME NEW v, NEW key, NEW page, NEW from
  PROVE  LET r == Rendered(v, key, page, from) IN r.view = v /\ r.key = key /\ r.version = version
BY DEF Rendered

(* What has not been served is no list. *)
LEMMA NoReplyIsNoList == NoReply.view \notin Lists
BY DEF NoReply, Lists

(* The list in the beginning *)
LEMMA ListInit == Init => ListInv
<1> SUFFICES ASSUME Init
             PROVE  ListInv
  OBVIOUS
<1>1. Counted
  BY DEF Init, Counted, HistoryFields
<1>2. FrozenOnlyWhileLoading
  BY DEF Init, FrozenOnlyWhileLoading
<1>3. Current(panel, history)
  <2>1. history.asked = AnyKey /\ history.refreshed = 0 /\ version = 0
    BY DEF Init
  <2>2. CASE panel = Plain("home")
    BY <2>2 DEF Plain, Current, Lists
  <2>3. ASSUME NEW v \in Lists, panel = Rendered(v, AnyKey, 1, AnyKey)
        PROVE  Current(panel, history)
    BY <2>1, <2>3, RenderedNow DEF Current
  <2>4. QED
    BY <2>2, <2>3 DEF Init
<1>4. QED
  BY <1>1, <1>2, <1>3 DEF Init, InStep, ListInv

(* A load for what the user sees, after a save or not *)
LEMMA LoadKeeps ==
  ASSUME ListInv, NEW v, NEW key, NEW page, NEW asked, NEW h,
         h = history \/ h = [history EXCEPT !.refreshed = version],
         Load(v, key, page, asked, h), UNCHANGED <<panel, version>>,
         v \in Lists /\ loads = {} => key = asked
  PROVE  ListInv'
<1> DEFINE new == [n |-> sends + 1, view |-> v, key |-> key, page |-> page, from |-> panel.key,
                   reply |-> NoReply]
<1>1. loads' = loads \cup {new}
  BY DEF Load
<1>2. DOMAIN new = LoadFields /\ new.view = v /\ new.key = key /\ new.reply = NoReply
  BY DEF LoadFields
<1> HIDE DEF new
<1>3. /\ DOMAIN h = HistoryFields
      /\ h.refreshed \in 0..version
      /\ h.overlapped = history.overlapped
  BY DEF ListInv, Counted, HistoryFields
<1>4. /\ DOMAIN history' = HistoryFields
      /\ history'.refreshed = h.refreshed
      /\ history'.asked = asked
      /\ history'.overlapped = (history.overlapped \/ loads # {})
  BY <1>3 DEF Load, HistoryFields
<1>5. Counted'
  BY <1>1, <1>2, <1>3, <1>4 DEF ListInv, Counted
<1>6. FrozenOnlyWhileLoading'
  BY <1>1 DEF FrozenOnlyWhileLoading
<1>7. InStep'
  <2> SUFFICES ASSUME ~history'.overlapped
               PROVE  /\ \A l, m \in loads' : l = m
                      /\ \A l \in loads' : /\ l.view \in Lists => l.key = history'.asked
                                           /\ Current(l.reply, history')
                      /\ loads' = {} => Current(panel', history')
    BY DEF InStep
  <2>1. loads = {} /\ loads' = {new}
    BY <1>1, <1>4
  <2>2. new.view \in Lists => new.key = history'.asked
    BY <1>2, <1>4, <2>1
  <2>3. Current(new.reply, history')
    BY <1>2, NoReplyIsNoList DEF Current
  <2>4. QED
    BY <2>1, <2>2, <2>3
<1>8. QED
  BY <1>5, <1>6, <1>7 DEF ListInv

(* A step that neither loads nor shows anything *)
LEMMA AsideKeeps ==
  ASSUME ListInv, UNCHANGED <<panel, params, loads>>,
         version' = version \/ version' = version + 1,
         DOMAIN history' = DOMAIN history,
         history'.overlapped = history.overlapped,
         history'.asked = history.asked,
         history'.refreshed = history.refreshed
  PROVE  ListInv'
<1>1. Counted'
  BY DEF ListInv, Counted
<1>2. FrozenOnlyWhileLoading'
  BY DEF ListInv, FrozenOnlyWhileLoading
<1>3. ASSUME NEW r
      PROVE  Current(r, history') <=> Current(r, history)
  BY DEF Current
<1>4. InStep'
  BY <1>3 DEF ListInv, InStep
<1>5. QED
  BY <1>1, <1>2, <1>4 DEF ListInv

(* The page of a load, or an error in its place *)
LEMMA ShownKeeps ==
  ASSUME ListInv, NEW l \in loads, NEW new, loads' = loads \ {l}, Show(new),
         new.view \in Lists => new = l.reply,
         UNCHANGED <<version, history>>
  PROVE  ListInv'
<1>1. Counted'
  BY DEF ListInv, Counted
<1>2. params' = Fresh /\ panel' = new
  BY DEF Show
<1>3. FrozenOnlyWhileLoading'
  BY <1>2 DEF FrozenOnlyWhileLoading
<1>4. ~history.overlapped => Current(new, history)
  BY DEF ListInv, InStep, Current
<1>5. InStep'
  BY <1>2, <1>4 DEF ListInv, InStep
<1>6. QED
  BY <1>1, <1>3, <1>5 DEF ListInv

(* The server renders the tables of the moment. *)
LEMMA ServeKeeps ==
  ASSUME ListInv, NEW l \in loads, Serve(l)
  PROVE  ListInv'
<1> DEFINE new == [l EXCEPT !.reply = Reply(l)]
<1>1. loads' = (loads \ {l}) \cup {new} /\ UNCHANGED <<panel, params, version, history>>
  BY DEF Serve, view, tables
<1>2. DOMAIN new = LoadFields /\ new.view = l.view /\ new.key = l.key /\ new.reply = Reply(l)
  BY DEF ListInv, Counted, LoadFields
<1>3. Counted'
  BY <1>1, <1>2 DEF ListInv, Counted
<1>4. FrozenOnlyWhileLoading'
  BY <1>1 DEF ListInv, FrozenOnlyWhileLoading
<1>5. InStep'
  <2> SUFFICES ASSUME ~history.overlapped
               PROVE  /\ \A e, f \in loads' : e = f
                      /\ \A e \in loads' : /\ e.view \in Lists => e.key = history.asked
                                           /\ Current(e.reply, history)
                      /\ loads' = {} => Current(panel, history)
    BY <1>1 DEF InStep
  <2>1. loads = {l} /\ loads' = {new} /\ (l.view \in Lists => l.key = history.asked)
    BY <1>1 DEF ListInv, InStep
  <2>2. Current(Reply(l), history)
    <3>1. CASE l.page = Refused
      BY <3>1 DEF Reply, Plain, Current, Lists
    <3>2. CASE l.page # Refused /\ l.view \in Lists
      <4>1. Reply(l) = Rendered(l.view, l.key, l.page, l.from)
        BY <3>2 DEF Reply
      <4>2. history.refreshed <= version
        BY DEF ListInv, Counted
      <4>3. QED
        BY <2>1, <3>2, <4>1, <4>2, RenderedNow DEF Current
    <3>3. CASE l.page # Refused /\ l.view \notin Lists
      BY <3>3 DEF Reply, Plain, Current
    <3>4. QED
      BY <3>1, <3>2, <3>3
  <2> HIDE DEF new
  <2>3. QED
    BY <1>2, <2>1, <2>2
<1>6. QED
  BY <1>3, <1>4, <1>5 DEF ListInv

(* A click on "search" after a save, or none *)
LEMMA RefreshKeeps ==
  ASSUME ListInv, ClickSearch(Seen) \/ LoadNothing(history), UNCHANGED <<panel, params, version>>
  PROVE  ListInv'
<1>1. CASE LoadNothing(history)
  BY <1>1, AsideKeeps DEF LoadNothing
<1>2. CASE ClickSearch(Seen) /\ Wired /\ ~Unsearchable
  BY <1>2, LoadKeeps DEF ClickSearch, Seen
<1>3. CASE ClickSearch(Seen) /\ ~(Wired /\ ~Unsearchable)
  BY <1>3, AsideKeeps DEF ClickSearch, Seen, LoadNothing
<1>4. QED
  BY <1>1, <1>2, <1>3

(* Whatever the user does *)
LEMMA UserKeepsList ==
  ASSUME ListInv, User
  PROVE  ListInv'
<1>1. ASSUME NEW v \in Lists, Menu(v)
      PROVE  ListInv'
  BY <1>1, LoadKeeps DEF Menu, view, tables
<1>2. CASE Search
  BY <1>2, LoadKeeps DEF Search, ClickSearch, view, tables
<1>3. ASSUME NEW page, TurnTo(page)
      PROVE  ListInv'
  <2>1. loads = {} => params' = field
    BY <1>3 DEF TurnTo, ListInv, FrozenOnlyWhileLoading
  <2>2. Load(panel.view, params', page, field, history) /\ UNCHANGED <<panel, version>>
    BY <1>3 DEF TurnTo, tables
  <2>3. ASSUME NEW key, key = params', Load(panel.view, key, page, field, history)
        PROVE  ListInv'
    BY <2>1, <2>2, <2>3, LoadKeeps
  <2>4. QED
    BY <2>2, <2>3
<1>4. CASE Configure
  <2>1. "config" \notin Lists
    BY DEF Lists
  <2>2. QED
    BY <1>4, <2>1, LoadKeeps DEF Configure, view, tables
<1>5. CASE AddForm \/ \E key \in NewKeys : SubmitForm(key)
  BY <1>5, AsideKeeps DEF AddForm, SubmitForm, view, tables, ListInv, Counted, HistoryFields
<1>6. CASE UNCHANGED <<panel, params, loads, version, history>>
  BY <1>6, AsideKeeps
<1>7. QED
  BY <1>1, <1>2, <1>3, <1>4, <1>5, <1>6
  DEF User, ClickPage, EnterPage, TypeKey, CancelForm, DeleteForm, OpenUpload, DropFile, RemoveFile,
      CloseUpload, SubmitUpload, view, tables

(* Whatever the server does *)
LEMMA ServerKeepsList ==
  ASSUME ListInv, Server
  PROVE  ListInv'
<1>1. CASE \E s \in saves : Execute(s) \/ ExecuteFails(s)
  BY <1>1, AsideKeeps DEF Execute, ExecuteFails, view, tables, ListInv, Counted, HistoryFields
<1>2. CASE Others
  BY <1>2, AsideKeeps DEF Others, view, ListInv, Counted, HistoryFields
<1>3. QED
  BY <1>1, <1>2, ServeKeeps DEF Server

(* Whatever arrives *)
LEMMA AnswersKeepList ==
  ASSUME ListInv, Answers
  PROVE  ListInv'
<1>1. ASSUME NEW l \in loads, Arrive(l)
      PROVE  ListInv'
  BY <1>1, ShownKeeps DEF Arrive, tables
<1>2. ASSUME NEW l \in loads, LoadFails(l)
      PROVE  ListInv'
  <2>1. Plain("error").view \notin Lists
    BY DEF Plain, Lists
  <2>2. QED
    BY <1>2, <2>1, ShownKeeps DEF LoadFails, tables
<1>3. ASSUME NEW div \in coming, FormArrives(div)
      PROVE  ListInv'
  BY <1>3, AsideKeeps DEF FormArrives, view, tables, ListInv, Counted, HistoryFields
<1>4. ASSUME NEW s \in saves, AnswerInsert(s) \/ AnswerDelete(s) \/ AnswerDeploy(s)
      PROVE  ListInv'
  BY <1>4, RefreshKeeps DEF AnswerInsert, AnswerDelete, AnswerDeploy, view, tables
<1>5. CASE UNCHANGED <<panel, params, loads, version, history>>
  BY <1>5, AsideKeeps
<1>6. QED
  BY <1>1, <1>2, <1>3, <1>4, <1>5 DEF Answers, FormFails, UploadArrives, Lose, view, tables

(* So the list is in step with the loads at all times. *)
LEMMA ListInvariant == Spec => []ListInv
<1>1. ListInv /\ [Next]_vars => ListInv'
  BY UserKeepsList, ServerKeepsList, AnswersKeepList, AsideKeeps DEF Next, vars
<1>2. QED
  BY <1>1, ListInit, PTL DEF Spec

(* The conditions of a page turn are out of date only while a page is on its way, *)
(* whose answer renders the list anew (page.js:64-67, 107-109).                   *)
THEOREM FrozenWhileLoading == Spec => []FrozenOnlyWhileLoading
BY ListInvariant, PTL DEF ListInv

(* Once everything has arrived the list shows what was in the search field when it *)
(* was asked for, unless loads overtook one another (common.js:60-74).             *)
THEOREM ShowsWhatWasAsked == Spec => []AskedIsShown
<1>1. ListInv => AskedIsShown
  BY DEF ListInv, InStep, Current, AskedIsShown
<1>2. QED
  BY <1>1, ListInvariant, PTL

(* Once everything has arrived the list is not older than the last save that clicked *)
(* "search", unless loads overtook one another (bind-form.js:25-29, list.js:29).     *)
THEOREM ShowsTheChange == Spec => []RefreshShowsTheChange
<1>1. ListInv => RefreshShowsTheChange
  BY DEF ListInv, InStep, Current, RefreshShowsTheChange
<1>2. QED
  BY <1>1, ListInvariant, PTL

-----------------------------------------------------------------------------
(* Buttons that do nothing *)

(* A page beyond the first is one of the list's pages. *)
Reaches(page, v, key) == page <= 1 \/ page <= PagesOf(v, key)

(* The list has as many pages as when it was rendered, and shows one of them. *)
GrownSince(p) == p.view \in Lists => p.pages <= PagesOf(p.view, p.key)
Fits(p)       == p.view \in Lists /\ p.from = p.key /\ p.pages > 0 => p.page <= p.pages

(* Unless a row was deleted, a page that was there when it was asked for, with the   *)
(* same key, is there when the server renders it.                                    *)
Growing ==
  ~history.removed =>
    /\ GrownSince(panel) /\ Fits(panel)
    /\ \A l \in loads : /\ l.view \in Lists /\ l.from = l.key => Reaches(l.page, l.view, l.key)
                        /\ GrownSince(l.reply) /\ Fits(l.reply)

(* The rows that match a key, among all rows there can be *)
LEMMA MatchingAgrees ==
  ASSUME NEW t \in Table, NEW key
  PROVE  Kept(t, {r \in Range(t) : key = AnyKey \/ r.key = key}) =
         Kept(t, {r \in Row : key = AnyKey \/ r.key = key})
<1>1. t \in Seq(Row)
  BY DEF Table
<1>2. Range(t) = {t[i] : i \in 1..Len(t)} /\ \A i \in 1..Len(t) : t[i] \in Row
  BY <1>1, RangeEquality, ElementOfSeq
<1> DEFINE S == {r \in Range(t) : key = AnyKey \/ r.key = key}
           U == {r \in Row : key = AnyKey \/ r.key = key}
<1>3. ASSUME NEW r \in Range(t)
      PROVE  r \in S <=> r \in U
  <2>1. r \in Row
    BY <1>2
  <2>2. QED
    BY <2>1
<1>4. QED
  <2> HIDE DEF S, U
  <2>1. Kept(t, S) = Kept(t, U)
    BY <1>1, <1>3, KeptAgrees
  <2>2. QED
    BY <2>1 DEF S, U

(* The pages a table makes *)
Pages(t, key) == (Len(Kept(t, {r \in Range(t) : key = AnyKey \/ r.key = key})) + PageSize - 1) \div PageSize

(* A table with one more row at either end has no fewer pages. *)
LEMMA MorePages ==
  ASSUME NEW t \in Table, NEW new \in Row, NEW u, u = Append(t, new) \/ u = <<new>> \o t, NEW key
  PROVE  Pages(t, key) \in Nat /\ Pages(u, key) \in Nat /\ Pages(t, key) <= Pages(u, key)
<1> DEFINE S == {r \in Row : key = AnyKey \/ r.key = key}
<1>1. u \in Table
  <2>1. t \in Seq(Row) /\ <<new>> \in Seq(Row)
    BY DEF Table
  <2>2. Append(t, new) \in Seq(Row) /\ <<new>> \o t \in Seq(Row)
    BY <2>1, AppendProperties, ConcatProperties
  <2>3. QED
    BY <2>2 DEF Table
<1>2. Len(Kept(t, S)) <= Len(Kept(u, S))
  <2> HIDE DEF S
  <2>1. QED
    BY KeptGrows DEF Table
<1>3. Len(Kept(t, S)) \in Nat /\ Len(Kept(u, S)) \in Nat
  <2> HIDE DEF S
  <2>1. Kept(t, S) \in Seq(Row) /\ Kept(u, S) \in Seq(Row)
    BY <1>1, KeptRange DEF Table
  <2>2. QED
    BY <2>1, LenProperties
<1>4. /\ (Len(Kept(t, S)) + PageSize - 1) \div PageSize \in Nat
      /\ (Len(Kept(u, S)) + PageSize - 1) \div PageSize \in Nat
      /\ (Len(Kept(t, S)) + PageSize - 1) \div PageSize <= (Len(Kept(u, S)) + PageSize - 1) \div PageSize
  BY <1>2, <1>3, PagesMonotone
<1>5. /\ Kept(t, {r \in Range(t) : key = AnyKey \/ r.key = key}) = Kept(t, S)
      /\ Kept(u, {r \in Range(u) : key = AnyKey \/ r.key = key}) = Kept(u, S)
  BY <1>1, MatchingAgrees
<1>6. QED
  BY <1>4, <1>5 DEF Pages

(* What is inserted or deployed takes no page away. *)
LEMMA TablesGrow ==
  ASSUME TablesTyped, TablesTyped', NEW row \in Row,
         db' = Stored("insert", row) \/ db' = Stored("deploy", row)
  PROVE  \A v \in Lists, key \in SearchKeys :
           PagesOf(v, key) \in Nat /\ PagesOf(v, key)' \in Nat /\ PagesOf(v, key) <= PagesOf(v, key)'
<1> SUFFICES ASSUME NEW v \in Lists, NEW key \in SearchKeys
             PROVE  PagesOf(v, key) \in Nat /\ PagesOf(v, key)' \in Nat /\ PagesOf(v, key) <= PagesOf(v, key)'
  OBVIOUS
<1> DEFINE new == [row EXCEPT !.id = version + 1]
<1>1. new \in Row
  BY DEF TablesTyped, Row
<1>2. db \in [Lists -> Table] /\ db[v] \in Table
  BY DEF TablesTyped
<1>3. db'[v] = db[v] \/ db'[v] = Append(db[v], new) \/ db'[v] = <<new>> \o db[v]
  <2> HIDE DEF new
  <2>1. db' = [db EXCEPT !["forms"] = Append(db["forms"], new)] \/ db' = [db EXCEPT !["pd"] = <<new>> \o db["pd"]]
    BY DEF Stored, new
  <2>2. QED
    BY <1>2, <2>1
<1> HIDE DEF new
<1>4. CASE db'[v] = db[v]
  <2>1. PagesOf(v, key)' = PagesOf(v, key)
    BY <1>4 DEF PagesOf, Matching
  <2>2. QED
    BY <2>1, MatchingTyped
<1>5. CASE db'[v] = Append(db[v], new) \/ db'[v] = <<new>> \o db[v]
  <2>1. Pages(db[v], key) \in Nat /\ Pages(db'[v], key) \in Nat /\ Pages(db[v], key) <= Pages(db'[v], key)
    BY <1>1, <1>2, <1>5, MorePages
  <2>2. QED
    BY <2>1 DEF Pages, PagesOf, Matching
<1>6. QED
  BY <1>3, <1>4, <1>5

(* A page that the list has is shown with working buttons. *)
LEMMA RenderedFits ==
  ASSUME TablesTyped, NEW v \in Lists, NEW key \in SearchKeys, NEW page \in Nat, NEW from \in SearchKeys,
         from = key => Reaches(page, v, key)
  PROVE  Fits(Rendered(v, key, page, from)) /\ GrownSince(Rendered(v, key, page, from))
<1> DEFINE r == Rendered(v, key, page, from)
<1>1. r.view = v /\ r.key = key /\ r.page = page /\ r.pages = PagesOf(v, key) /\ r.from = from
  BY DEF Rendered
<1>2. PagesOf(v, key) \in Nat
  BY MatchingTyped
<1> HIDE DEF r
<1>3. Fits(r) /\ GrownSince(r)
  BY <1>1, <1>2 DEF Fits, GrownSince, Reaches
<1>4. QED
  BY <1>3 DEF r

(* Nothing has shrunk in the beginning. *)
LEMMA GrowingInit == Init => Growing
<1> SUFFICES ASSUME Init
             PROVE  Growing
  OBVIOUS
<1>1. TablesTyped /\ loads = {}
  BY TypesInit DEF Init, TypeOK
<1>2. CASE panel = Plain("home")
  BY <1>1, <1>2 DEF Plain, Growing, GrownSince, Fits, Lists
<1>3. ASSUME NEW v \in Lists, panel = Rendered(v, AnyKey, 1, AnyKey)
      PROVE  Growing
  <2>1. AnyKey \in SearchKeys /\ Reaches(1, v, AnyKey)
    BY DEF SearchKeys, Reaches
  <2>2. Fits(panel) /\ GrownSince(panel)
    BY <1>1, <1>3, <2>1, RenderedFits
  <2>3. QED
    BY <1>1, <2>2 DEF Growing
<1>4. QED
  BY <1>2, <1>3 DEF Init

(* A load of the first page, of a page of the list that is shown, or of no list *)
LEMMA LoadGrows ==
  ASSUME TypeOK, Growing, UNCHANGED <<db, panel>>,
         NEW h, h.removed = history.removed, h \in History(version),
         NEW v, NEW key, NEW page \in Nat, NEW asked, Load(v, key, page, asked, h),
         v \in Lists /\ page > 1 => v = panel.view /\ page <= panel.pages
  PROVE  Growing'
<1> DEFINE new == [n |-> sends + 1, view |-> v, key |-> key, page |-> page, from |-> panel.key,
                   reply |-> NoReply]
<1>1. /\ new.view = v /\ new.key = key /\ new.page = page /\ new.from = panel.key
      /\ new.reply.view = "none"
  BY DEF NoReply
<1>2. loads' = loads \cup {new}
  BY DEF Load
<1> HIDE DEF new
<1>3. history'.removed = history.removed
  BY DEF Load, History
<1>4. ASSUME NEW u, NEW k
      PROVE  PagesOf(u, k)' = PagesOf(u, k)
  BY DEF PagesOf, Matching
<1>5. ASSUME NEW p
      PROVE  GrownSince(p)' <=> GrownSince(p)
  BY <1>4 DEF GrownSince
<1>6. ASSUME ~history.removed, v \in Lists, key = panel.key
      PROVE  Reaches(page, v, key)
  <2>1. CASE page > 1
    <3>1. panel.pages <= PagesOf(v, key) /\ page <= panel.pages
      BY <1>6, <2>1 DEF Growing, GrownSince
    <3>2. PagesOf(v, key) \in Nat /\ panel.pages \in Nat
      BY <1>6, MatchingTyped DEF TypeOK, ShownTyped, Page
    <3>3. QED
      BY <3>1, <3>2 DEF Reaches
  <2>2. QED
    BY <2>1 DEF Reaches
<1>7. ASSUME NEW l \in loads, ~history.removed
      PROVE  /\ l.view \in Lists /\ l.from = l.key => Reaches(l.page, l.view, l.key)
             /\ GrownSince(l.reply) /\ Fits(l.reply)
  BY <1>7 DEF Growing
<1>8. "none" \notin Lists
  BY DEF Lists
<1>9. ASSUME NEW l \in loads', ~history.removed
      PROVE  /\ l.view \in Lists /\ l.from = l.key => Reaches(l.page, l.view, l.key)'
             /\ GrownSince(l.reply)' /\ Fits(l.reply)
  <2>1. Reaches(l.page, l.view, l.key)' <=> Reaches(l.page, l.view, l.key)
    BY <1>4 DEF Reaches
  <2>2. GrownSince(l.reply)' <=> GrownSince(l.reply)
    BY <1>5
  <2>3. CASE l = new
    BY <1>1, <1>6, <1>8, <1>9, <2>1, <2>2, <2>3 DEF GrownSince, Fits
  <2>4. CASE l \in loads
    BY <1>7, <1>9, <2>1, <2>2, <2>4
  <2>5. QED
    BY <1>2, <2>3, <2>4
<1>10. ~history.removed => GrownSince(panel)' /\ Fits(panel)'
  BY <1>4 DEF Growing, GrownSince, Fits
<1>11. QED
  BY <1>3, <1>9, <1>10 DEF Growing

(* A step that shows, loads and stores nothing *)
LEMMA GrowingAside ==
  ASSUME Growing, UNCHANGED <<db, panel, loads>>, history'.removed = history.removed
  PROVE  Growing'
BY DEF Growing, GrownSince, Fits, Reaches, PagesOf, Matching

(* "search" is clicked, or not. *)
LEMMA SearchGrows ==
  ASSUME TypeOK, Growing, UNCHANGED <<db, panel>>,
         ClickSearch(history) \/ ClickSearch(Seen) \/ LoadNothing(history)
  PROVE  Growing'
<1>1. /\ history \in History(version) /\ Seen \in History(version)
      /\ Seen.removed = history.removed
  BY DEF TypeOK, TablesTyped, Seen, History
<1>2. CASE LoadNothing(history)
  BY <1>2, GrowingAside DEF LoadNothing
<1>3. ASSUME NEW h, h = history \/ h = Seen, ClickSearch(h)
      PROVE  Growing'
  <2>1. CASE Wired /\ ~Unsearchable
    <3>1. Load(panel.view, field, 1, field, h)
      BY <1>3, <2>1 DEF ClickSearch
    <3>2. h \in History(version) /\ h.removed = history.removed
      BY <1>1, <1>3
    <3>3. QED
      BY <3>1, <3>2, LoadGrows
  <2>2. CASE ~(Wired /\ ~Unsearchable)
    BY <1>1, <1>3, <2>2, GrowingAside DEF ClickSearch, LoadNothing
  <2>3. QED
    BY <2>1, <2>2
<1>4. QED
  BY <1>2, <1>3

(* A row is inserted or deployed, or one is deleted. *)
LEMMA StoreGrows ==
  ASSUME TypeOK, TablesTyped', Growing, UNCHANGED <<panel, loads>>, NEW row \in Row, NEW op,
         op \in {"insert", "deploy"} \/ history'.removed, db' = Stored(op, row),
         history'.removed = FALSE => history.removed = FALSE, history'.removed \in BOOLEAN
  PROVE  Growing'
<1> SUFFICES ASSUME ~history'.removed
             PROVE  /\ GrownSince(panel)' /\ Fits(panel)'
                    /\ \A l \in loads :
                         /\ l.view \in Lists /\ l.from = l.key => Reaches(l.page, l.view, l.key)'
                         /\ GrownSince(l.reply)' /\ Fits(l.reply)
  BY DEF Growing, Fits
<1>1. Growing /\ ~history.removed /\ TablesTyped
  BY DEF TypeOK
<1>3. ASSUME NEW v \in Lists, NEW key \in SearchKeys
      PROVE  PagesOf(v, key) \in Nat /\ PagesOf(v, key)' \in Nat /\ PagesOf(v, key) <= PagesOf(v, key)'
  BY <1>1, TablesGrow
<1>4. ASSUME NEW p, p.view \in Lists => p \in Page(Lists \cup {"home", "config", "error"}), GrownSince(p)
      PROVE  GrownSince(p)'
  <2>1. p.view \in Lists => p.pages \in Nat /\ p.key \in SearchKeys
    BY <1>4 DEF Page
  <2>2. QED
    BY <1>3, <1>4, <2>1 DEF GrownSince
<1>5. GrownSince(panel)' /\ Fits(panel)'
  <2>1. panel \in Page(Lists \cup {"home", "config", "error"}) /\ GrownSince(panel) /\ Fits(panel)
    BY <1>1 DEF TypeOK, ShownTyped, Growing
  <2>2. panel' = panel
    OBVIOUS
  <2>3. ASSUME NEW p, p = panel
        PROVE  GrownSince(p)' /\ Fits(p)
    BY <1>4, <2>1, <2>3
  <2>4. QED
    BY <2>2, <2>3 DEF GrownSince, Fits
<1>6. ASSUME NEW l \in loads
      PROVE  /\ l.view \in Lists /\ l.from = l.key => Reaches(l.page, l.view, l.key)'
             /\ GrownSince(l.reply)' /\ Fits(l.reply)
  <2>1. /\ l.view \in Lists /\ l.from = l.key => Reaches(l.page, l.view, l.key)
        /\ GrownSince(l.reply) /\ Fits(l.reply)
    BY <1>1 DEF Growing
  <2>2. l.page \in Nat /\ l.key \in SearchKeys /\ l.reply \in Page(Lists \cup {"config", "error"}) \cup {NoReply}
    BY DEF TypeOK, LoadsTyped, Request
  <2>3. l.reply.view \in Lists => l.reply \in Page(Lists \cup {"home", "config", "error"})
    BY <2>2, NoReplyIsNoList DEF Page
  <2>4. l.view \in Lists /\ l.from = l.key => Reaches(l.page, l.view, l.key)'
    BY <1>3, <2>1, <2>2 DEF Reaches
  <2>5. QED
    BY <1>4, <2>1, <2>3, <2>4
<1>7. QED
  BY <1>5, <1>6

(* Every step keeps it, or deletes a row. *)
LEMMA GrowingNext == TypeOK /\ TypeOK' /\ Growing /\ Next => Growing'
<1> SUFFICES ASSUME TypeOK, TypeOK', Growing, Next
             PROVE  Growing'
  OBVIOUS
<1>1. history \in History(version) /\ history' \in History(version') /\ TablesTyped /\ TablesTyped'
  BY DEF TypeOK
<1>2. ASSUME NEW v \in Lists, Menu(v)
      PROVE  Growing'
  BY <1>1, <1>2, LoadGrows DEF Menu, tables, view
<1>3. CASE Search
  BY <1>3, SearchGrows DEF Search, tables, view
<1>4. ASSUME NEW page \in Nat, TurnTo(page), page <= 1 \/ page <= panel.pages
      PROVE  Growing'
  <2>1. Load(panel.view, params', page, field, history) /\ UNCHANGED <<db, panel>>
    BY <1>4 DEF TurnTo, tables
  <2>2. ASSUME NEW key, Load(panel.view, key, page, field, history)
        PROVE  Growing'
    BY <1>1, <1>4, <2>1, <2>2, LoadGrows
  <2>3. QED
    BY <2>1, <2>2
<1>5. CASE ClickPage
  BY <1>4, <1>5 DEF ClickPage
<1>6. CASE EnterPage
  <2>1. PICK text \in Texts : TurnTo(Entered(text))
    BY <1>6 DEF EnterPage
  <2>2. Entered(text) \in Nat
    BY EnteredTyped
  <2>3. Entered(text) <= 1 \/ Entered(text) <= panel.pages
    <3>1. text.n \in Int /\ panel.pages \in Nat
      BY ListPagesAssumption DEF TypeOK, ShownTyped, Page
    <3>2. QED
      BY <3>1 DEF Entered, Refused
  <2>4. QED
    BY <1>4, <2>1, <2>2, <2>3
<1>7. CASE Configure
  <2>1. "config" \notin Lists
    BY DEF Lists
  <2>2. QED
    BY <1>1, <1>7, <2>1, LoadGrows DEF Configure, tables, view
<1>8. ASSUME NEW l \in loads, Serve(l)
      PROVE  Growing'
  <2>1. l \in Request /\ history' = history /\ UNCHANGED <<db, panel, version>>
    BY <1>8 DEF Serve, tables, view, TypeOK, LoadsTyped
  <2>2. ASSUME ~history.removed
        PROVE  Fits(Reply(l)) /\ GrownSince(Reply(l))
    <3>1. CASE l.page # Refused /\ l.view \in Lists
      <4>1. Reply(l) = Rendered(l.view, l.key, l.page, l.from)
        BY <3>1 DEF Reply
      <4>2. l.from = l.key => Reaches(l.page, l.view, l.key)
        BY <2>2, <3>1 DEF Growing
      <4>3. l.key \in SearchKeys /\ l.page \in Nat /\ l.from \in SearchKeys
        BY <2>1 DEF Request
      <4>4. QED
        BY <1>1, <3>1, <4>1, <4>2, <4>3, RenderedFits
    <3>2. CASE ~(l.page # Refused /\ l.view \in Lists)
      <4>1. Reply(l).view \notin Lists
        BY <3>2 DEF Reply, Plain, Lists
      <4>2. QED
        BY <4>1 DEF Fits, GrownSince
    <3>3. QED
      BY <3>1, <3>2
  <2> DEFINE new == [l EXCEPT !.reply = Reply(l)]
  <2>3. loads' = (loads \ {l}) \cup {new}
    BY <1>8 DEF Serve
  <2>4. new.view = l.view /\ new.key = l.key /\ new.page = l.page /\ new.from = l.from /\ new.reply = Reply(l)
    BY <2>1 DEF Request
  <2> HIDE DEF new
  <2>5. ASSUME ~history.removed, NEW m \in loads'
        PROVE  /\ m.view \in Lists /\ m.from = m.key => Reaches(m.page, m.view, m.key)
               /\ GrownSince(m.reply) /\ Fits(m.reply)
    <3>1. CASE m = new
      BY <2>2, <2>4, <2>5, <3>1 DEF Growing
    <3>2. CASE m \in loads
      BY <2>5, <3>2 DEF Growing
    <3>3. QED
      BY <2>3, <2>5, <3>1, <3>2
  <2>6. ~history.removed => GrownSince(panel) /\ Fits(panel)
    BY DEF Growing
  <2>7. QED
    BY <2>1, <2>5, <2>6 DEF Growing, GrownSince, Fits, Reaches, PagesOf, Matching
<1>9. ASSUME NEW l \in loads, NEW new, loads' = loads \ {l}, panel' = new, new = l.reply \/ new.view \notin Lists,
             UNCHANGED <<db, history>>
      PROVE  Growing'
  <2>1. ~history.removed => GrownSince(new) /\ Fits(new)
    BY <1>9 DEF Growing, GrownSince, Fits
  <2>2. \A m \in loads' : m \in loads
    BY <1>9
  <2>3. QED
    BY <1>9, <2>1, <2>2 DEF Growing, GrownSince, Fits, Reaches, PagesOf, Matching
<1>10. ASSUME NEW l \in loads, Arrive(l) \/ LoadFails(l)
       PROVE  Growing'
  <2>1. Plain("error").view \notin Lists
    BY DEF Plain, Lists
  <2>2. QED
    BY <1>9, <1>10, <2>1 DEF Arrive, LoadFails, Show, tables
<1>11. ASSUME NEW s \in saves, Execute(s)
       PROVE  Growing'
  <2>1. s.row \in Row /\ s.op \in {"insert", "delete", "deploy"}
    BY DEF TypeOK, SavesTyped, Save
  <2>2. /\ db' = Stored(s.op, s.row) /\ UNCHANGED <<panel, loads>>
        /\ history' = [history EXCEPT !.removed = (history.removed \/ s.op = "delete")]
    BY <1>11 DEF Execute, view
  <2>3. history'.removed = (history.removed \/ s.op = "delete")
    BY <1>1, <2>2 DEF History
  <2>4. history'.removed \in BOOLEAN
    BY <1>1 DEF History
  <2>5. s.op \in {"insert", "deploy"} \/ history'.removed
    BY <2>1, <2>3
  <2>6. history'.removed = FALSE => history.removed = FALSE
    BY <1>1, <2>3 DEF History
  <2>7. QED
    BY <1>1, <2>1, <2>2, <2>4, <2>5, <2>6, StoreGrows
<1>12. CASE Others
  <2>1. UNCHANGED <<panel, loads>>
    BY <1>12 DEF Others, view
  <2>2. ASSUME NEW op \in {"insert", "deploy"}, NEW key \in NewKeys, db' = Stored(op, [id |-> 0, key |-> key]),
               UNCHANGED history
        PROVE  Growing'
    <3>1. [id |-> 0, key |-> key] \in Row
      BY ListPagesAssumption DEF Row
    <3>2. history'.removed \in BOOLEAN
      BY <1>1 DEF History
    <3>3. QED
      BY <1>1, <2>1, <2>2, <3>1, <3>2, StoreGrows
  <2>3. ASSUME history' = [history EXCEPT !.removed = TRUE]
        PROVE  Growing'
    <3>1. history'.removed
      BY <1>1, <2>3 DEF History
    <3>2. QED
      BY <3>1 DEF Growing
  <2>4. QED
    BY <1>12, <2>2, <2>3 DEF Others
<1>13. ASSUME NEW s \in saves, AnswerInsert(s) \/ AnswerDelete(s) \/ AnswerDeploy(s)
       PROVE  Growing'
  <2>1. /\ ClickSearch(Seen) \/ LoadNothing(history)
        /\ UNCHANGED <<db, panel>>
    BY <1>13 DEF AnswerInsert, AnswerDelete, AnswerDeploy, tables, view
  <2>2. QED
    BY <2>1, SearchGrows
<1>14. CASE AddForm \/ (\E key \in NewKeys : SubmitForm(key)) \/ \E div \in coming : FormArrives(div)
  <2>1. history'.removed = history.removed
    BY <1>1, <1>14 DEF AddForm, SubmitForm, FormArrives, History
  <2>2. UNCHANGED <<db, panel, loads>>
    BY <1>14 DEF AddForm, SubmitForm, FormArrives, tables, view
  <2>3. QED
    BY <2>1, <2>2, GrowingAside
<1>15. CASE UNCHANGED <<db, panel, loads, history>>
  BY <1>15, GrowingAside
<1>16. QED
  BY <1>2, <1>3, <1>5, <1>6, <1>7, <1>8, <1>10, <1>11, <1>12, <1>13, <1>14, <1>15
  DEF Next, User, Server, Answers, TypeKey, CancelForm, DeleteForm, OpenUpload, DropFile, RemoveFile,
      CloseUpload, SubmitUpload, ExecuteFails, FormFails, UploadArrives, Lose, tables, view

(* So it holds at all times. *)
LEMMA GrowingInvariant == Spec => []Growing
<1>1. TypeOK /\ TypeOK' /\ Growing /\ [Next]_vars => Growing'
  <2>1. Growing /\ UNCHANGED vars => Growing'
    BY GrowingAside DEF vars
  <2>2. QED
    BY <2>1, GrowingNext
<1>2. QED
  BY <1>1, GrowingInit, TypeCorrect, PTL DEF Spec

(* The buttons of a list do nothing only when somebody deleted rows or a page was turned *)
(* after another key had been typed (page.js:63-78).                                     *)
THEOREM AliveUnlessShrunk == Spec => []DeadOnlyWhenListShrank
<1>1. TypeOK /\ Growing => DeadOnlyWhenListShrank
  BY DEF TypeOK, ShownTyped, Page, Growing, Fits, DeadOnlyWhenListShrank, Wired, Paginated, PageOption
<1>2. QED
  BY <1>1, TypeCorrect, GrowingInvariant, PTL

-----------------------------------------------------------------------------
(* The form dialogs *)

FormDialogs == Seq(Popup({"search"}))

FormTyped == /\ sends \in Nat
             /\ coming \subseteq 1..sends
             /\ dialogs \in FormDialogs
             /\ DOMAIN history = HistoryFields
             /\ history.binds \in Nat /\ history.bindClicks \in Nat

(* Unless "add" was pressed again too early there is one form dialog at most, on its *)
(* way or open, and its script has run once.                                         *)
LoneForm ==
  ~history.doubled =>
    /\ \A c, e \in coming : c = e
    /\ coming # {} => dialogs = <<>>
    /\ dialogs # <<>> => Len(dialogs) = 1 /\ dialogs[1].open /\ dialogs[1].handlers = 1

(* Unless answers overtook one another they lie in the order of the clicks, and only *)
(* the first is open.                                                                *)
InOrder ==
  ~history.reordered =>
    /\ \A i \in DOMAIN dialogs : dialogs[i].div <= sends
    /\ \A i \in DOMAIN dialogs, c \in coming : dialogs[i].div < c
    /\ \A i \in DOMAIN dialogs : i # 1 => ~dialogs[i].open

FormInv == FormTyped /\ LoneForm /\ InOrder /\ OneBindPerClick /\ BlockedOnlyByReordering

(* No form dialog in the beginning *)
LEMMA FormInit == Init => FormInv
BY EmptySeq DEF Init, FormInv, FormTyped, FormDialogs, HistoryFields, LoneForm, InOrder, OneBindPerClick,
   BlockedOnlyByReordering

(* A step that leaves the form dialogs alone; it may count up the loads. *)
LEMMA FormAside ==
  ASSUME FormInv, UNCHANGED <<coming, dialogs, stuck>>,
         sends' = sends \/ sends' = sends + 1,
         DOMAIN history' = DOMAIN history,
         history'.doubled = history.doubled, history'.reordered = history.reordered,
         history'.binds = history.binds, history'.bindClicks = history.bindClicks
  PROVE  FormInv'
<1>1. FormTyped'
  BY DEF FormInv, FormTyped
<1>2. LoneForm'
  BY DEF FormInv, LoneForm
<1>3. InOrder'
  <2> SUFFICES ASSUME ~history.reordered, NEW i \in DOMAIN dialogs
               PROVE  /\ dialogs[i].div <= sends'
                      /\ \A c \in coming : dialogs[i].div < c
                      /\ i # 1 => ~dialogs[i].open
    BY DEF InOrder
  <2>1. dialogs[i] \in Popup({"search"})
    BY ElementOfSeq, LenProperties DEF FormInv, FormTyped, FormDialogs
  <2>2. dialogs[i].div \in Nat /\ dialogs[i].div <= sends
    BY <2>1 DEF Popup, FormInv, InOrder
  <2>3. QED
    BY <2>2 DEF FormInv, FormTyped, InOrder
<1>4. QED
  BY <1>1, <1>2, <1>3 DEF FormInv, OneBindPerClick, BlockedOnlyByReordering

(* Loads and clicks on "search" are such steps. *)
LEMMA LoadAside ==
  ASSUME FormInv, UNCHANGED <<coming, dialogs, stuck>>,
         NEW v, NEW key, NEW page, NEW asked, Load(v, key, page, asked, history)
  PROVE  FormInv'
BY FormAside DEF Load, FormInv, FormTyped, HistoryFields

(* A click on "search" counts the loads up at most. *)
LEMMA SearchAside ==
  ASSUME FormInv, ClickSearch(Seen) \/ ClickSearch(history) \/ LoadNothing(history)
  PROVE  /\ sends' = sends \/ sends' = sends + 1
         /\ DOMAIN history' = DOMAIN history
         /\ history'.doubled = history.doubled /\ history'.reordered = history.reordered
         /\ history'.binds = history.binds /\ history'.bindClicks = history.bindClicks
<1>1. ASSUME NEW h, ClickSearch(h), DOMAIN h = HistoryFields
      PROVE  /\ sends' = sends \/ sends' = sends + 1
             /\ DOMAIN history' = HistoryFields
             /\ history'.doubled = h.doubled /\ history'.reordered = h.reordered
             /\ history'.binds = h.binds /\ history'.bindClicks = h.bindClicks
  BY <1>1 DEF ClickSearch, Load, LoadNothing, HistoryFields
<1>2. /\ DOMAIN history = HistoryFields /\ DOMAIN Seen = HistoryFields
      /\ Seen.doubled = history.doubled /\ Seen.reordered = history.reordered
      /\ Seen.binds = history.binds /\ Seen.bindClicks = history.bindClicks
  BY DEF Seen, FormInv, FormTyped, HistoryFields
<1>3. QED
  BY <1>1, <1>2 DEF LoadNothing

(* "add" is pressed: the dialog will lie behind all others. *)
LEMMA AddFormKeeps ==
  ASSUME FormInv, AddForm
  PROVE  FormInv'
<1>1. /\ coming' = coming \cup {sends + 1} /\ sends' = sends + 1
      /\ UNCHANGED <<dialogs, stuck>>
      /\ NoneOpen(dialogs)
      /\ history' = [history EXCEPT !.doubled = @ \/ coming # {}]
  BY DEF AddForm, Ask, Usable
<1>2. /\ DOMAIN history' = HistoryFields
      /\ history'.doubled = (history.doubled \/ coming # {})
      /\ history'.reordered = history.reordered
      /\ history'.binds = history.binds /\ history'.bindClicks = history.bindClicks
  BY <1>1 DEF FormInv, FormTyped, HistoryFields
<1>3. FormTyped'
  BY <1>1, <1>2 DEF FormInv, FormTyped
<1>4. LoneForm'
  <2> SUFFICES ASSUME ~history'.doubled
               PROVE  coming' = {sends + 1} /\ dialogs = <<>>
    BY <1>1 DEF LoneForm
  <2>1. coming = {} /\ (dialogs # <<>> => Len(dialogs) = 1 /\ dialogs[1].open)
    BY <1>2 DEF FormInv, LoneForm
  <2>2. dialogs # <<>> => 1 \in DOMAIN dialogs
    BY <2>1, LenProperties DEF FormInv, FormTyped, FormDialogs
  <2>3. QED
    BY <1>1, <2>1, <2>2 DEF NoneOpen
<1>5. InOrder'
  <2> SUFFICES ASSUME ~history.reordered, NEW i \in DOMAIN dialogs
               PROVE  /\ dialogs[i].div <= sends + 1
                      /\ \A c \in coming' : dialogs[i].div < c
                      /\ i # 1 => ~dialogs[i].open
    BY <1>1, <1>2 DEF InOrder
  <2>1. dialogs[i] \in Popup({"search"})
    BY ElementOfSeq, LenProperties DEF FormInv, FormTyped, FormDialogs
  <2>2. dialogs[i].div \in Nat /\ dialogs[i].div <= sends
    BY <2>1 DEF Popup, FormInv, InOrder
  <2>3. QED
    BY <1>1, <2>2 DEF FormInv, FormTyped, InOrder
<1>6. QED
  BY <1>1, <1>2, <1>3, <1>4, <1>5 DEF FormInv, OneBindPerClick, BlockedOnlyByReordering

(* A dialog arrives. *)
LEMMA FormArrivesKeeps ==
  ASSUME FormInv, NEW div \in coming, FormArrives(div)
  PROVE  FormInv'
<1>1. /\ coming' = coming \ {div} /\ dialogs' = Opened(dialogs, div, "search")
      /\ UNCHANGED <<sends, stuck>>
  BY DEF FormArrives
<1>2. /\ DOMAIN history' = HistoryFields
      /\ history'.reordered = (history.reordered \/ \E earlier \in coming : earlier < div)
      /\ history'.doubled = history.doubled
      /\ history'.binds = history.binds /\ history'.bindClicks = history.bindClicks
  BY DEF FormArrives, FormInv, FormTyped, HistoryFields
<1>3. div \in 1..sends /\ div \in Nat /\ sends \in Nat
  BY DEF FormInv, FormTyped
<1>4. FormTyped'
  <2>1. dialogs' \in FormDialogs
    BY <1>1, <1>3, OpenedTyped DEF FormInv, FormTyped, FormDialogs
  <2>2. QED
    BY <1>1, <1>2, <2>1 DEF FormInv, FormTyped
<1>5. LoneForm'
  <2> SUFFICES ASSUME ~history.doubled
               PROVE  /\ coming' = {}
                      /\ Len(dialogs') = 1 /\ dialogs'[1].open /\ dialogs'[1].handlers = 1
    BY <1>2 DEF LoneForm
  <2>1. coming = {div} /\ dialogs = <<>>
    BY DEF FormInv, LoneForm
  <2>2. Len(Opened(<<>>, div, "search")) = 1
    BY <1>3, OpenedFirst
  <2>3. Opened(<<>>, div, "search")[1].open /\ Opened(<<>>, div, "search")[1].handlers = 1
    BY <1>3, OpenedFirst
  <2>4. QED
    BY <1>1, <2>1, <2>2, <2>3
<1>6. InOrder'
  <2> SUFFICES ASSUME ~history'.reordered
               PROVE  /\ \A i \in DOMAIN dialogs' : dialogs'[i].div <= sends
                      /\ \A i \in DOMAIN dialogs', c \in coming' : dialogs'[i].div < c
                      /\ \A i \in DOMAIN dialogs' : i # 1 => ~dialogs'[i].open
    BY <1>1 DEF InOrder
  <2>1. /\ \A i \in DOMAIN dialogs : dialogs[i].div < div
        /\ \A i \in DOMAIN dialogs : i # 1 => ~dialogs[i].open
        /\ \A c \in coming : ~(c < div)
    BY <1>2 DEF FormInv, InOrder
  <2>2. /\ \A i \in DOMAIN dialogs' : dialogs'[i].div <= div
        /\ \A i \in DOMAIN dialogs' : i # 1 => ~dialogs'[i].open
    BY <1>1, <1>3, <2>1, OpenedLast DEF FormInv, FormTyped, FormDialogs
  <2>3. \A c \in coming' : c \in Nat /\ c > div
    BY <1>1, <1>3, <2>1 DEF FormInv, FormTyped
  <2>4. ASSUME NEW i \in DOMAIN dialogs'
        PROVE  dialogs'[i].div \in Nat
    <3>1. dialogs'[i] \in Popup({"search"})
      BY <1>4, ElementOfSeq, LenProperties DEF FormTyped, FormDialogs
    <3>2. QED
      BY <3>1 DEF Popup
  <2>5. QED
    BY <1>3, <2>2, <2>3, <2>4
<1>7. QED
  BY <1>1, <1>2, <1>4, <1>5, <1>6 DEF FormInv, OneBindPerClick, BlockedOnlyByReordering

(* An open dialog is closed; the loads may be counted up in the same step. *)
LEMMA HideKeeps ==
  ASSUME FormInv, NEW i \in DOMAIN dialogs, dialogs[i].open, Hide(i), coming' = coming,
         sends' = sends \/ sends' = sends + 1,
         DOMAIN history' = DOMAIN history,
         history'.doubled = history.doubled, history'.reordered = history.reordered,
         history'.binds = history.binds, history'.bindClicks = history.bindClicks
  PROVE  FormInv'
<1>1. /\ dialogs' = Hidden(dialogs, i)
      /\ stuck' = (stuck \/ LeavesBackdrop(dialogs, i))
      /\ dialogs \in Seq(Popup({"search"}))
  BY DEF Hide, FormInv, FormTyped, FormDialogs
<1>2. FormTyped'
  BY <1>1, HiddenTyped DEF FormInv, FormTyped, FormDialogs
<1>3. LoneForm'
  <2> SUFFICES ASSUME ~history.doubled
               PROVE  dialogs' = <<>> /\ \A c, e \in coming : c = e
    BY DEF LoneForm
  <2>1. dialogs # <<>>
    BY <1>1, LenProperties, EmptySeq
  <2>2. Len(dialogs) = 1 /\ dialogs[1].handlers = 1 /\ \A c, e \in coming : c = e
    BY <2>1 DEF FormInv, LoneForm
  <2>3. i = 1
    BY <1>1, <2>2, LenProperties
  <2>4. QED
    BY <1>1, <2>2, <2>3, LoneHidden
<1>4. ASSUME ~history.reordered
      PROVE  InOrder' /\ ~LeavesBackdrop(dialogs, i)
  <2>1. \A m \in DOMAIN dialogs : m # 1 => ~dialogs[m].open
    BY <1>4 DEF FormInv, InOrder
  <2>2. \A m \in DOMAIN dialogs : dialogs[m].div \in Nat /\ m \in Nat /\ m >= 1
    <3>1. ASSUME NEW m \in DOMAIN dialogs
          PROVE  dialogs[m] \in Popup({"search"}) /\ m \in Nat /\ m >= 1
      BY <1>1, ElementOfSeq, LenProperties
    <3>2. QED
      BY <3>1 DEF Popup
  <2>3. ~LeavesBackdrop(dialogs, i)
    <3>1. i = 1
      BY <2>1
    <3>2. DOMAIN dialogs = 1..Len(dialogs)
      BY <1>1, LenProperties
    <3>3. QED
      BY <2>1, <3>1, <3>2 DEF LeavesBackdrop
  <2>4. ASSUME NEW j \in DOMAIN dialogs'
        PROVE  /\ dialogs'[j].div <= sends'
               /\ \A c \in coming : dialogs'[j].div < c
               /\ j # 1 => ~dialogs'[j].open
    <3>1. PICK m \in DOMAIN dialogs : /\ m >= j
                                      /\ dialogs'[j].div = dialogs[m].div
                                      /\ dialogs'[j].open => dialogs[m].open
      BY <1>1, HiddenElements
    <3>2. j \in Nat /\ j >= 1
      BY <1>2, LenProperties DEF FormTyped, FormDialogs
    <3>3. /\ dialogs[m].div <= sends
          /\ \A c \in coming : dialogs[m].div < c
      BY <1>4 DEF FormInv, InOrder
    <3>4. dialogs[m].div <= sends'
      BY <2>2, <3>3 DEF FormInv, FormTyped
    <3>5. j # 1 => ~dialogs'[j].open
      BY <2>1, <2>2, <3>1, <3>2
    <3>6. QED
      BY <3>1, <3>3, <3>4, <3>5
  <2>5. QED
    BY <2>3, <2>4 DEF InOrder
<1>5. InOrder' /\ BlockedOnlyByReordering'
  BY <1>1, <1>4 DEF InOrder, BlockedOnlyByReordering, FormInv
<1>6. QED
  BY <1>2, <1>3, <1>5 DEF FormInv, OneBindPerClick

(* "save" is clicked. *)
LEMMA SubmitFormKeeps ==
  ASSUME FormInv, NEW key, SubmitForm(key)
  PROVE  FormInv'
<1>1. /\ dialogs # <<>>
      /\ UNCHANGED <<coming, dialogs, stuck, sends>>
      /\ dialogs \in Seq(Popup({"search"}))
  BY DEF SubmitForm, popups, FormInv, FormTyped, FormDialogs
<1>2. dialogs[1].handlers \in Nat
  <2>1. 1 \in DOMAIN dialogs
    BY <1>1, LenProperties, EmptySeq
  <2>2. dialogs[1] \in Popup({"search"})
    BY <1>1, <2>1, ElementOfSeq, LenProperties
  <2>3. QED
    BY <2>2 DEF Popup
<1>3. /\ DOMAIN history' = HistoryFields
      /\ history'.reordered = history.reordered /\ history'.doubled = history.doubled
      /\ history'.bindClicks = history.bindClicks + 1
      /\ history'.binds = history.binds + dialogs[1].handlers
  BY DEF SubmitForm, FormInv, FormTyped, HistoryFields
<1>4. FormTyped'
  BY <1>1, <1>2, <1>3 DEF FormInv, FormTyped
<1>5. LoneForm' /\ InOrder' /\ BlockedOnlyByReordering'
  BY <1>1, <1>3 DEF FormInv, LoneForm, InOrder, BlockedOnlyByReordering
<1>6. OneBindPerClick'
  BY <1>1, <1>3 DEF FormInv, FormTyped, LoneForm, OneBindPerClick
<1>7. QED
  BY <1>4, <1>5, <1>6 DEF FormInv

(* Whatever the user does *)
LEMMA UserKeepsForms ==
  ASSUME FormInv, User
  PROVE  FormInv'
<1>1. CASE \E v \in Lists : Menu(v)
  BY <1>1, LoadAside DEF Menu, popups
<1>2. CASE Search
  <2>1. UNCHANGED <<coming, dialogs, stuck>> /\ ClickSearch(history)
    BY <1>2 DEF Search, popups
  <2>2. QED
    BY <2>1, SearchAside, FormAside
<1>3. ASSUME NEW page, TurnTo(page)
      PROVE  FormInv'
  <2>1. UNCHANGED <<coming, dialogs, stuck>> /\ Load(panel.view, params', page, field, history)
    BY <1>3 DEF TurnTo, popups
  <2>2. ASSUME NEW key, key = params', Load(panel.view, key, page, field, history)
        PROVE  FormInv'
    BY <2>1, <2>2, LoadAside
  <2>3. QED
    BY <2>1, <2>2
<1>4. CASE Configure
  BY <1>4, LoadAside DEF Configure, popups
<1>5. ASSUME NEW i \in DOMAIN dialogs, CancelForm(i)
      PROVE  FormInv'
  BY <1>5, HideKeeps DEF CancelForm, IsTop
<1>6. CASE OpenUpload
  BY <1>6, FormAside DEF OpenUpload
<1>7. CASE UNCHANGED <<coming, dialogs, stuck, sends, history>>
  BY <1>7, FormAside
<1>8. QED
  BY <1>1, <1>2, <1>3, <1>4, <1>5, <1>6, <1>7, AddFormKeeps, SubmitFormKeeps
  DEF User, ClickPage, EnterPage, TypeKey, DeleteForm, DropFile, RemoveFile, CloseUpload, SubmitUpload,
      popups

(* Whatever arrives *)
LEMMA AnswersKeepForms ==
  ASSUME FormInv, Answers
  PROVE  FormInv'
<1>1. ASSUME NEW s \in saves, AnswerInsert(s)
      PROVE  FormInv'
  <2>1. CASE s.answer = "true" /\ dialogs # <<>> /\ dialogs[1].open /\ ~Unsearchable
    <3>1. ClickSearch(Seen) /\ Hide(1) /\ coming' = coming
      BY <1>1, <2>1 DEF AnswerInsert
    <3>2. 1 \in DOMAIN dialogs
      BY <2>1, LenProperties, EmptySeq DEF FormInv, FormTyped, FormDialogs
    <3>3. QED
      BY <2>1, <3>1, <3>2, SearchAside, HideKeeps
  <2>2. CASE ~(s.answer = "true" /\ dialogs # <<>> /\ dialogs[1].open /\ ~Unsearchable)
    <3>1. /\ ClickSearch(Seen) \/ LoadNothing(history)
          /\ UNCHANGED <<coming, dialogs, stuck>>
      BY <1>1, <2>2 DEF AnswerInsert
    <3>2. QED
      BY <3>1, SearchAside, FormAside
  <2>3. QED
    BY <2>1, <2>2
<1>2. ASSUME NEW s \in saves, AnswerDelete(s) \/ AnswerDeploy(s)
      PROVE  FormInv'
  <2>1. /\ ClickSearch(Seen) \/ LoadNothing(history)
        /\ UNCHANGED <<coming, dialogs, stuck>>
    BY <1>2 DEF AnswerDelete, AnswerDeploy, popups
  <2>2. QED
    BY <2>1, SearchAside, FormAside
<1>3. ASSUME NEW div \in coming, FormFails(div)
      PROVE  FormInv'
  <2>1. coming' = coming \ {div} /\ UNCHANGED <<dialogs, stuck, sends, history>>
    BY <1>3 DEF FormFails
  <2>2. QED
    BY <2>1 DEF FormInv, FormTyped, LoneForm, InOrder, OneBindPerClick, BlockedOnlyByReordering
<1>4. CASE UNCHANGED <<coming, dialogs, stuck, sends, history>>
  BY <1>4, FormAside
<1>5. QED
  BY <1>1, <1>2, <1>3, <1>4, FormArrivesKeeps
  DEF Answers, Arrive, LoadFails, UploadArrives, Lose, popups

(* Whatever the server does *)
LEMMA ServerKeepsForms ==
  ASSUME FormInv, Server
  PROVE  FormInv'
BY FormAside DEF Server, Serve, Execute, ExecuteFails, Others, popups, FormInv, FormTyped, HistoryFields

(* So the form dialogs are in order at all times. *)
LEMMA FormInvariant == Spec => []FormInv
<1>1. FormInv /\ [Next]_vars => FormInv'
  BY UserKeepsForms, ServerKeepsForms, AnswersKeepForms, FormAside DEF Next, vars
<1>2. QED
  BY <1>1, FormInit, PTL DEF Spec

(* One click on "save" binds one form, unless "add" was pressed again before its *)
(* dialog was there (bind-form-list.js:27-33, bind-form.js:11-31).                *)
THEOREM BindsOnce == Spec => []OneBindPerClick
BY FormInvariant, PTL DEF FormInv

(* No backdrop stays over the page, unless the answer to a later "add" overtook that *)
(* to an earlier one (common.js:60-66, bind-form.js:7-9).                            *)
THEOREM NeverBlocked == Spec => []BlockedOnlyByReordering
BY FormInvariant, PTL DEF FormInv

=============================================================================

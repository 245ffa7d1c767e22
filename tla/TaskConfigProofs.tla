-------------------------- MODULE TaskConfigProofs --------------------------
(* The saves of the node page keep their promises for any administrators,    *)
(* nodes, choices and lines, however many saves run, fail and wait.          *)
EXTENDS TaskConfigProps, FiltersProofs

Line  == [title : STRING, value : STRING]
Cells == [userIds : Texts, userNames : Texts, groupIds : Texts, groupNames : Texts]

(* The statements of the two services *)
ConfigStatements == [op : {"insert"}, table : {"users", "groups"}, row : TableRows] \cup {Throw}
ButtonStatements == [op : {"insert"}, table : {"buttons"}, row : TableRows]
Statements == ConfigStatements \cup ButtonStatements

ConfigSave == [kind : {"config"}, task : {Nobody}, inserts : Seq(ConfigStatements)]
ButtonSave == [kind : {"buttons"}, task : UserTasks, inserts : Seq(ButtonStatements)]
Dialogue   == [task : UserTasks \cup {Nobody}, rows : Seq(Line), removed : SUBSET Line, seen : Nat]

Types ==
  /\ db \in Database /\ work \in Database
  /\ writer \in Admins \cup {Nobody}
  /\ todo \in Seq(Statements)
  /\ writer = Nobody => todo = <<>>
  /\ page \in [Admins -> [Range(Nodes) -> Cells]]
  /\ dialog \in [Admins -> Dialogue]
  /\ request \in [Admins -> ConfigSave \cup ButtonSave \cup {NoRequest}]
  /\ answer \in [Admins -> {"none", "saved", "failed"}]
  /\ commits \in Nat
  /\ typed \subseteq [task : UserTasks, line : Line]

-----------------------------------------------------------------------------
(* The operators of the model *)

(* The nodes of the page are strings. *)
LEMMA NodesAreStrings == Range(Nodes) \subseteq STRING /\ UserTasks \subseteq Range(Nodes)
<1>1. Nodes \in Seq(STRING)
  BY TaskConfigAssumption
<1>2. Range(Nodes) \subseteq STRING
  BY <1>1, RangeOfSeq
<1> QED BY <1>2 DEF UserTasks

(* The rows of a task, and those of the others *)
LEMMA RowsOfType ==
  ASSUME NEW rows \in Seq(TableRows), NEW t
  PROVE  /\ RowsOf(rows, t) \in Seq(TableRows)
         /\ Range(RowsOf(rows, t)) = {r \in Range(rows) : r.bpmn = t}
         /\ RowsOfOthers(rows, t) \in Seq(TableRows)
         /\ Range(RowsOfOthers(rows, t)) = {r \in Range(rows) : r.bpmn # t}
<1> DEFINE own    == {r \in Range(rows) : r.bpmn = t}
           others == {r \in Range(rows) : r.bpmn # t}
<1>1. own \subseteq Range(rows) /\ others \subseteq Range(rows)
  OBVIOUS
<1>2. RowsOf(rows, t) = Kept(rows, own) /\ RowsOfOthers(rows, t) = Kept(rows, others)
  BY DEF RowsOf, RowsOfOthers
<1> HIDE DEF own, others
<1>3. Kept(rows, own) \in Seq(TableRows) /\ Range(Kept(rows, own)) = Range(rows) \cap own
  BY KeptRange
<1>4. Kept(rows, others) \in Seq(TableRows) /\ Range(Kept(rows, others)) = Range(rows) \cap others
  BY KeptRange
<1>5. /\ RowsOf(rows, t) \in Seq(TableRows) /\ Range(RowsOf(rows, t)) = own
      /\ RowsOfOthers(rows, t) \in Seq(TableRows) /\ Range(RowsOfOthers(rows, t)) = others
  BY <1>1, <1>2, <1>3, <1>4
<1> QED BY <1>5 DEF own, others

(* The lines the dialog shows *)
LEMMA ShownButtonsType ==
  ASSUME NEW rows \in Seq(TableRows), NEW t
  PROVE  /\ ShownButtons(rows, t) \in Seq(TableRows)
         /\ Range(ShownButtons(rows, t)) = {r \in Range(rows) : r.bpmn \in Within[t]}
<1> DEFINE S == {r \in Range(rows) : r.bpmn \in Within[t]}
<1>1. S \subseteq Range(rows)
  OBVIOUS
<1>2. ShownButtons(rows, t) = Kept(rows, S)
  BY DEF ShownButtons
<1> HIDE DEF S
<1>3. Kept(rows, S) \in Seq(TableRows) /\ Range(Kept(rows, S)) = Range(rows) \cap S
  BY KeptRange
<1>4. ShownButtons(rows, t) \in Seq(TableRows) /\ Range(ShownButtons(rows, t)) = S
  BY <1>1, <1>2, <1>3
<1> QED BY <1>4 DEF S

(* The lines that are sent *)
LEMMA CompleteType ==
  ASSUME NEW lines \in Seq(Line)
  PROVE  /\ Complete(lines) \in Seq(Line)
         /\ Range(Complete(lines)) = {l \in Range(lines) : l.title # Blank /\ l.value # Blank}
<1>1. /\ Complete(lines) \in Seq(Line)
      /\ Range(Complete(lines)) = Range(lines) \cap Filled(lines)
  BY KeptRange DEF Complete
<1> QED BY <1>1 DEF Filled

(* A function over the positions of a sequence is a sequence. *)
LEMMA MappedSeq ==
  ASSUME NEW n \in Nat, NEW U, NEW f \in [1..n -> U]
  PROVE  f \in Seq(U) /\ Len(f) = n /\ Range(f) = {f[i] : i \in 1..n}
<1>1. f \in Seq(U) /\ Len(f) = n
  OBVIOUS
<1> QED BY <1>1, RangeEquality

(* The page the server renders *)
LEMMA ShownType ==
  ASSUME NEW tables \in Database
  PROVE  Shown(tables) \in [Range(Nodes) -> Cells]
<1>1. NoCells \in Cells
  BY EmptySeq DEF NoCells, Cells, Texts
<1>2. ASSUME NEW n PROVE CellsOf(tables, n) \in Cells
  <2> DEFINE us == RowsOf(tables.users, n)
             gs == RowsOf(tables.groups, n)
  <2>1. us \in Seq(TableRows) /\ gs \in Seq(TableRows)
    BY RowsOfType DEF Database
  <2>2. CellsOf(tables, n) =
          [userIds    |-> [i \in DOMAIN us |-> us[i].id],
           userNames  |-> [i \in DOMAIN us |-> us[i].name],
           groupIds   |-> [i \in DOMAIN gs |-> gs[i].id],
           groupNames |-> [i \in DOMAIN gs |-> gs[i].name]]
    BY DEF CellsOf
  <2> HIDE DEF us, gs
  <2>3. ASSUME NEW rows \in Seq(TableRows)
        PROVE  [i \in DOMAIN rows |-> rows[i].id] \in Texts /\ [i \in DOMAIN rows |-> rows[i].name] \in Texts
    <3>1. \A i \in 1..Len(rows) : rows[i] \in TableRows
      BY ElementOfSeq
    <3>2. Len(rows) \in Nat /\ DOMAIN rows = 1..Len(rows)
      BY LenProperties
    <3>3. [i \in 1..Len(rows) |-> rows[i].id] \in [1..Len(rows) -> STRING]
      BY <3>1 DEF TableRows
    <3>4. [i \in 1..Len(rows) |-> rows[i].name] \in [1..Len(rows) -> STRING]
      BY <3>1 DEF TableRows
    <3> QED BY <3>2, <3>3, <3>4 DEF Texts
  <2>4. /\ [i \in DOMAIN us |-> us[i].id] \in Texts /\ [i \in DOMAIN us |-> us[i].name] \in Texts
        /\ [i \in DOMAIN gs |-> gs[i].id] \in Texts /\ [i \in DOMAIN gs |-> gs[i].name] \in Texts
    BY <2>1, <2>3
  <2> QED BY <2>2, <2>4 DEF Cells
<1> QED BY <1>1, <1>2 DEF Shown

(* What Split returns *)
LEMMA SplitType ==
  ASSUME NEW text \in Texts
  PROVE  Split(text) \in Texts
<1>1. <<Blank>> \in Seq(STRING)
  BY TaskConfigAssumption
<1> QED BY <1>1 DEF Split, Texts

(* The statements of one node *)
LEMMA InsertPairsType ==
  ASSUME NEW table \in {"users", "groups"}, NEW bpmnId \in STRING, NEW ids \in Texts, NEW names \in Texts
  PROVE  InsertPairs(table, bpmnId, ids, names) \in Seq(ConfigStatements)
<1> DEFINE n == IF Len(ids) <= Len(names) THEN Len(ids) ELSE Len(names)
           pairs == [i \in 1..n |-> InsertRow(table, [bpmn |-> bpmnId, id |-> ids[i], name |-> names[i]])]
<1>1. n \in Nat /\ n <= Len(ids) /\ n <= Len(names)
  BY LenProperties DEF Texts
<1>2. ASSUME NEW i \in 1..n
      PROVE  InsertRow(table, [bpmn |-> bpmnId, id |-> ids[i], name |-> names[i]]) \in ConfigStatements
  <2>1. ids[i] \in STRING /\ names[i] \in STRING
    BY <1>1, ElementOfSeq, LenProperties DEF Texts
  <2> QED BY <2>1 DEF InsertRow, ConfigStatements, TableRows
<1>3. pairs \in [1..n -> ConfigStatements]
  BY <1>2
<1>4. pairs \in Seq(ConfigStatements)
  <2> HIDE DEF pairs, n
  <2> QED BY <1>1, <1>3
<1>5. Throw \in ConfigStatements
  BY DEF ConfigStatements
<1>6. InsertPairs(table, bpmnId, ids, names) = IF Len(ids) <= Len(names) THEN pairs ELSE Append(pairs, Throw)
  BY DEF InsertPairs
<1> HIDE DEF pairs, n
<1> QED BY <1>4, <1>5, <1>6, AppendProperties

(* The statements of the whole page *)
LEMMA InsertAllType ==
  ASSUME NEW cells \in [Range(Nodes) -> Cells]
  PROVE  InsertAll(cells) \in Seq(ConfigStatements)
<1>1. ASSUME NEW n \in Range(Nodes), NEW c \in Cells
      PROVE  InsertConfig(Config(n, c)) \in Seq(ConfigStatements)
  <2> DEFINE config == Config(n, c)
  <2>1. n \in STRING /\ Type[n] \in STRING /\ RadioHtml[n] \in STRING
    BY NodesAreStrings, TaskConfigAssumption
  <2>2. /\ config.bpmnId = RadioHtml[n] /\ config.userIds = <<Type[n]>> /\ config.userNames = c.userIds
        /\ config.groupIds = c.userNames /\ config.groupNames = c.groupIds
    BY DEF Config, Row
  <2>3. /\ config.bpmnId \in STRING /\ config.userIds \in Texts /\ config.userNames \in Texts
        /\ config.groupIds \in Texts /\ config.groupNames \in Texts
    BY <2>1, <2>2 DEF Cells, Texts
  <2> HIDE DEF config
  <2> DEFINE gs == InsertPairs("groups", config.bpmnId, Split(config.userIds), Split(config.groupNames))
             us == InsertPairs("users", config.bpmnId, Split(config.userIds), Split(config.userNames))
  <2>4. gs \in Seq(ConfigStatements) /\ us \in Seq(ConfigStatements)
    BY <2>3, SplitType, InsertPairsType
  <2>5. InsertConfig(config) = (IF config.groupIds = <<>> THEN <<>> ELSE gs)
                               \o (IF config.userIds = <<>> THEN <<>> ELSE us)
    BY DEF InsertConfig
  <2> HIDE DEF gs, us
  <2>6. InsertConfig(config) \in Seq(ConfigStatements)
    BY <2>4, <2>5, EmptySeq, ConcatProperties
  <2> QED BY <2>6 DEF config
<1> DEFINE each == [i \in DOMAIN Nodes |-> InsertConfig(Config(Nodes[i], cells[Nodes[i]]))]
<1>2. \A i \in DOMAIN Nodes : Nodes[i] \in Range(Nodes)
  BY DEF Range
<1>3. Len(Nodes) \in Nat /\ DOMAIN Nodes = 1..Len(Nodes)
  BY TaskConfigAssumption, LenProperties
<1>4. each \in [1..Len(Nodes) -> Seq(ConfigStatements)]
  BY <1>1, <1>2, <1>3
<1>5. InsertAll(cells) = FlattenSeq(each)
  BY DEF InsertAll
<1> HIDE DEF each
<1>6. each \in Seq(Seq(ConfigStatements))
  BY <1>3, <1>4
<1> QED BY <1>5, <1>6, FlattenSeqType

(* The statements of the dialog: one for each line *)
LEMMA InsertButtonsType ==
  ASSUME NEW t \in UserTasks, NEW lines \in Seq(Line)
  PROVE  /\ InsertButtons(t, lines) \in Seq(ButtonStatements)
         /\ Range(InsertButtons(t, lines)) =
              {InsertRow("buttons", [bpmn |-> t, id |-> l.value, name |-> l.title]) : l \in Range(lines)}
<1> DEFINE ins == InsertButtons(t, lines)
           Of(l) == InsertRow("buttons", [bpmn |-> t, id |-> l.value, name |-> l.title])
<1>1. t \in STRING
  BY NodesAreStrings
<1>2. ins = [i \in DOMAIN lines |-> Of(lines[i])]
  BY DEF InsertButtons
<1>3. \A i \in 1..Len(lines) : lines[i] \in Line
  BY ElementOfSeq
<1>4. \A l \in Line : Of(l) \in ButtonStatements
  BY <1>1 DEF InsertRow, ButtonStatements, TableRows, Line
<1>5. Len(lines) \in Nat /\ DOMAIN lines = 1..Len(lines) /\ Range(lines) = {lines[i] : i \in 1..Len(lines)}
  BY LenProperties, RangeEquality
<1> HIDE DEF ins, Of
<1>6. \A i \in 1..Len(lines) : ins[i] = Of(lines[i])
  BY <1>2, <1>5
<1>7. ins \in Seq(ButtonStatements) /\ Range(ins) = {ins[i] : i \in 1..Len(lines)}
  <2>1. \A i \in 1..Len(lines) : ins[i] \in ButtonStatements
    BY <1>3, <1>4, <1>6
  <2>2. ins \in [1..Len(lines) -> ButtonStatements]
    BY <1>2, <1>5, <1>6, <2>1
  <2>3. Len(lines) \in Nat
    BY <1>5
  <2> QED BY <2>2, <2>3, MappedSeq
<1>8. Range(ins) = {Of(l) : l \in Range(lines)}
  BY <1>5, <1>6, <1>7
<1> QED BY <1>7, <1>8 DEF ins, Of

(* What a transaction sees after its deletes *)
LEMMA DeleteOldType ==
  ASSUME NEW d \in Database, NEW req
  PROVE  /\ DeleteOld(d, req) \in Database
         /\ req.kind = "config" => DeleteOld(d, req) = [users |-> <<>>, groups |-> <<>>, buttons |-> d.buttons]
         /\ req.kind # "config" => DeleteOld(d, req) =
              [users |-> d.users, groups |-> d.groups, buttons |-> RowsOfOthers(d.buttons, req.task)]
<1>1. RowsOfOthers(d.buttons, req.task) \in Seq(TableRows)
  BY RowsOfType DEF Database
<1>2. <<>> \in Seq(TableRows)
  BY EmptySeq
<1>3. d = [users |-> d.users, groups |-> d.groups, buttons |-> d.buttons]
  BY DEF Database
<1> QED BY <1>1, <1>2, <1>3 DEF DeleteOld, Database

(* A list of lines from a list of rows *)
LEMMA LinesType ==
  ASSUME NEW rows \in Seq(TableRows)
  PROVE  /\ [i \in DOMAIN rows |-> [title |-> rows[i].name, value |-> rows[i].id]] \in Seq(Line)
         /\ Range([i \in DOMAIN rows |-> [title |-> rows[i].name, value |-> rows[i].id]]) =
              {[title |-> r.name, value |-> r.id] : r \in Range(rows)}
<1> DEFINE lines == [i \in DOMAIN rows |-> [title |-> rows[i].name, value |-> rows[i].id]]
<1>1. \A i \in 1..Len(rows) : rows[i] \in TableRows
  BY ElementOfSeq
<1>2. Len(rows) \in Nat /\ DOMAIN rows = 1..Len(rows) /\ Range(rows) = {rows[i] : i \in 1..Len(rows)}
  BY LenProperties, RangeEquality
<1>3. lines \in [1..Len(rows) -> Line]
  BY <1>1, <1>2 DEF TableRows, Line
<1>4. \A i \in 1..Len(rows) : lines[i] = [title |-> rows[i].name, value |-> rows[i].id]
  BY <1>2
<1> HIDE DEF lines
<1>5. Len(rows) \in Nat
  BY <1>2
<1>6. lines \in Seq(Line) /\ Range(lines) = {lines[i] : i \in 1..Len(rows)}
  BY <1>3, <1>5, MappedSeq
<1>7. Range(lines) = {[title |-> r.name, value |-> r.id] : r \in Range(rows)}
  <2>1. ASSUME NEW i \in 1..Len(rows)
        PROVE  /\ lines[i] \in {[title |-> r.name, value |-> r.id] : r \in Range(rows)}
               /\ [title |-> rows[i].name, value |-> rows[i].id] \in Range(lines)
    BY <1>2, <1>4, <1>6
  <2> QED BY <1>2, <1>6, <2>1
<1> QED BY <1>6, <1>7 DEF lines

(* A sequence without one of its elements *)
LEMMA RemoveAtProperties ==
  ASSUME NEW T, NEW s \in Seq(T), NEW i \in 1..Len(s)
  PROVE  /\ RemoveAt(s, i) \in Seq(T)
         /\ Range(RemoveAt(s, i)) \cup {s[i]} = Range(s)
<1>1. Len(s) \in Nat /\ \A j \in 1..Len(s) : s[j] \in T
  BY LenProperties, ElementOfSeq
<1> DEFINE l == SubSeq(s, 1, i - 1)
           r == SubSeq(s, i + 1, Len(s))
<1>2. /\ l \in Seq(T) /\ Len(l) = i - 1
      /\ \A j \in 1..(i - 1) : l[j] = s[j]
  <2>1. 1 \in Int /\ i - 1 \in Int /\ \A j \in 1..(i - 1) : s[j] \in T
    BY <1>1
  <2>2. /\ SubSeq(s, 1, i - 1) \in Seq(T)
        /\ Len(SubSeq(s, 1, i - 1)) = IF 1 <= i - 1 THEN (i - 1) - 1 + 1 ELSE 0
        /\ \A j \in 1..((i - 1) - 1 + 1) : SubSeq(s, 1, i - 1)[j] = s[1 + j - 1]
    BY <2>1, SubSeqProperties
  <2>3. \A j \in 1..(i - 1) : 1 + j - 1 = j /\ (i - 1) - 1 + 1 = i - 1
    BY <1>1
  <2> QED BY <2>2, <2>3
<1>3. /\ r \in Seq(T) /\ Len(r) = Len(s) - i
      /\ \A j \in 1..(Len(s) - i) : r[j] = s[i + j]
  <2>1. i + 1 \in Int /\ Len(s) \in Int /\ \A j \in (i + 1)..Len(s) : s[j] \in T
    BY <1>1
  <2>2. /\ SubSeq(s, i + 1, Len(s)) \in Seq(T)
        /\ Len(SubSeq(s, i + 1, Len(s))) = IF i + 1 <= Len(s) THEN Len(s) - (i + 1) + 1 ELSE 0
        /\ \A j \in 1..(Len(s) - (i + 1) + 1) : SubSeq(s, i + 1, Len(s))[j] = s[i + 1 + j - 1]
    BY <2>1, SubSeqProperties
  <2>3. \A j \in 1..(Len(s) - i) : i + 1 + j - 1 = i + j /\ Len(s) - (i + 1) + 1 = Len(s) - i
    BY <1>1
  <2> QED BY <1>1, <2>2, <2>3
<1>4. RemoveAt(s, i) = l \o r
  BY DEF RemoveAt
<1> HIDE DEF l, r
<1>5. l \o r \in Seq(T) /\ Range(l \o r) = Range(l) \cup Range(r)
  BY <1>2, <1>3, ConcatProperties, RangeConcatenation
<1>6. /\ Range(l) = {l[j] : j \in 1..(i - 1)}
      /\ Range(r) = {r[j] : j \in 1..(Len(s) - i)}
      /\ Range(s) = {s[j] : j \in 1..Len(s)}
  BY <1>2, <1>3, RangeEquality
<1>7. Range(l) \subseteq Range(s) /\ Range(r) \subseteq Range(s) /\ s[i] \in Range(s)
  BY <1>1, <1>2, <1>3, <1>6
<1>8. ASSUME NEW j \in 1..Len(s) PROVE s[j] \in Range(l) \cup Range(r) \cup {s[i]}
  <2>1. CASE j < i
    <3>1. j \in 1..(i - 1) /\ s[j] = l[j]
      BY <1>1, <1>2, <2>1
    <3> QED BY <1>6, <3>1
  <2>2. CASE j > i
    <3>1. j - i \in 1..(Len(s) - i) /\ i + (j - i) = j
      BY <1>1, <2>2
    <3>2. r[j - i] = s[j]
      BY <1>3, <3>1
    <3> QED BY <1>6, <3>1, <3>2
  <2> QED BY <1>1, <2>1, <2>2
<1>9. Range(s) \subseteq Range(l) \cup Range(r) \cup {s[i]}
  BY <1>6, <1>8
<1> QED BY <1>4, <1>5, <1>7, <1>9

(* One insert leaves tables, and appends a row to the one it names. *)
LEMMA InsertedRow ==
  ASSUME NEW d \in Database, NEW s \in Statements, s.op = "insert"
  PROVE  /\ s.table \in {"users", "groups", "buttons"} /\ s.row \in TableRows
         /\ [d EXCEPT ![s.table] = Append(@, s.row)] \in Database
         /\ \A t \in {"users", "groups", "buttons"} :
              [d EXCEPT ![s.table] = Append(@, s.row)][t] = IF t = s.table THEN Append(d[t], s.row) ELSE d[t]
<1>1. s.table \in {"users", "groups", "buttons"} /\ s.row \in TableRows
  BY DEF Statements, ConfigStatements, ButtonStatements, Throw
<1>2. /\ d.users \in Seq(TableRows) /\ d.groups \in Seq(TableRows) /\ d.buttons \in Seq(TableRows)
  BY DEF Database
<1>3. \A rows \in Seq(TableRows) : Append(rows, s.row) \in Seq(TableRows)
  BY <1>1, AppendProperties
<1>4. CASE s.table = "users"
  BY <1>1, <1>2, <1>3, <1>4 DEF Database
<1>5. CASE s.table = "groups"
  BY <1>1, <1>2, <1>3, <1>5 DEF Database
<1>6. CASE s.table = "buttons"
  BY <1>1, <1>2, <1>3, <1>6 DEF Database
<1> QED BY <1>1, <1>4, <1>5, <1>6

-----------------------------------------------------------------------------
(* The types *)

(* The types in the beginning *)
LEMMA TypesInit == Init => Types
<1> SUFFICES ASSUME Init PROVE Types
  OBVIOUS
<1>1. Tables \in Database
  BY EmptySeq DEF Tables, Database
<1>2. Shown(Tables) \in [Range(Nodes) -> Cells]
  BY <1>1, ShownType
<1>3. Closed \in Dialogue
  BY EmptySeq DEF Closed, Dialogue
<1>4. <<>> \in Seq(Statements)
  BY EmptySeq
<1> QED BY <1>1, <1>2, <1>3, <1>4 DEF Init, Types

(* A cell is filled in. *)
LEMMA FilledCells ==
  ASSUME NEW c \in Cells, NEW u \in Texts, NEW v \in Texts
  PROVE  /\ [c EXCEPT !.userIds = u] \in Cells /\ [c EXCEPT !.groupIds = u] \in Cells
         /\ [c EXCEPT !.userIds = u, !.userNames = v] \in Cells
         /\ [c EXCEPT !.groupIds = u, !.groupNames = v] \in Cells
BY DEF Cells

(* What a user does with the table of the page *)
LEMMA TypesPage ==
  ASSUME Types, NEW a \in Admins,
         \/ LoadPage(a)
         \/ \E n \in UserTasks : ChooseUsers(a, n) \/ ChooseGroups(a, n) \/ TypeIds(a, n)
  PROVE  Types'
<1> USE DEF Types
<1>1. CASE LoadPage(a)
  <2>1. Shown(db) \in [Range(Nodes) -> Cells]
    BY ShownType
  <2> QED BY <1>1, <2>1 DEF LoadPage, server, counted
<1>2. ASSUME NEW n \in UserTasks, ChooseUsers(a, n) PROVE Types'
  <2>1. PICK c \in UserChoices : page' = [page EXCEPT ![a][n].userIds = c.ids, ![a][n].userNames = c.names]
    BY <1>2 DEF ChooseUsers
  <2>2. c.ids \in Texts /\ c.names \in Texts /\ n \in Range(Nodes)
    BY TaskConfigAssumption, NodesAreStrings DEF Offers
  <2>3. [page[a][n] EXCEPT !.userIds = c.ids, !.userNames = c.names] \in Cells
    <3>1. page[a][n] \in Cells
      BY <2>2
    <3> QED BY <2>2, <3>1, FilledCells
  <2>4. page' \in [Admins -> [Range(Nodes) -> Cells]]
    BY <2>1, <2>2, <2>3
  <2> QED BY <1>2, <2>4 DEF ChooseUsers, server, counted
<1>3. ASSUME NEW n \in UserTasks, ChooseGroups(a, n) PROVE Types'
  <2>1. PICK c \in GroupChoices : page' = [page EXCEPT ![a][n].groupIds = c.ids, ![a][n].groupNames = c.names]
    BY <1>3 DEF ChooseGroups
  <2>2. c.ids \in Texts /\ c.names \in Texts /\ n \in Range(Nodes)
    BY TaskConfigAssumption, NodesAreStrings DEF Offers
  <2>3. [page[a][n] EXCEPT !.groupIds = c.ids, !.groupNames = c.names] \in Cells
    <3>1. page[a][n] \in Cells
      BY <2>2
    <3> QED BY <2>2, <3>1, FilledCells
  <2>4. page' \in [Admins -> [Range(Nodes) -> Cells]]
    BY <2>1, <2>2, <2>3
  <2> QED BY <1>3, <2>4 DEF ChooseGroups, server, counted
<1>4. ASSUME NEW n \in UserTasks, TypeIds(a, n) PROVE Types'
  <2>1. PICK ids \in TypedIds : \/ page' = [page EXCEPT ![a][n].userIds = ids]
                               \/ page' = [page EXCEPT ![a][n].groupIds = ids]
    BY <1>4 DEF TypeIds
  <2>2. ids \in Texts /\ n \in Range(Nodes)
    BY TaskConfigAssumption, NodesAreStrings
  <2>3. [page[a][n] EXCEPT !.userIds = ids] \in Cells /\ [page[a][n] EXCEPT !.groupIds = ids] \in Cells
    <3>1. page[a][n] \in Cells
      BY <2>2
    <3> QED BY <2>2, <3>1, FilledCells
  <2>4. page' \in [Admins -> [Range(Nodes) -> Cells]]
    <3>1. CASE page' = [page EXCEPT ![a][n].userIds = ids]
      BY <2>2, <2>3, <3>1
    <3>2. CASE page' = [page EXCEPT ![a][n].groupIds = ids]
      BY <2>2, <2>3, <3>2
    <3> QED BY <2>1, <3>1, <3>2
  <2> QED BY <1>4, <2>4 DEF TypeIds, server, counted
<1> QED BY <1>1, <1>2, <1>3, <1>4

(* What a user does in the button dialog, and the messages *)
LEMMA TypesDialog ==
  ASSUME Types, NEW a \in Admins,
         \/ TypeLine(a) \/ RemoveLine(a) \/ CloseDialog(a) \/ Dismiss(a)
         \/ \E n \in UserTasks : OpenDialog(a, n)
  PROVE  Types'
<1> USE DEF Types
<1>0. dialog[a] \in Dialogue
  OBVIOUS
<1>1. CASE TypeLine(a)
  <2>1. PICK line \in Lines : /\ dialog' = [dialog EXCEPT ![a].rows = Append(@, line)]
                              /\ typed' = typed \cup {[task |-> dialog[a].task, line |-> line]}
    BY <1>1 DEF TypeLine
  <2>2. line \in Line
    BY TaskConfigAssumption DEF Line
  <2>3. Append(dialog[a].rows, line) \in Seq(Line)
    BY <1>0, <2>2, AppendProperties DEF Dialogue
  <2>4. [dialog[a] EXCEPT !.rows = Append(@, line)] \in Dialogue
    BY <1>0, <2>3 DEF Dialogue
  <2>5. dialog' \in [Admins -> Dialogue]
    BY <2>1, <2>4
  <2>6. dialog[a].task \in UserTasks
    BY <1>0, <1>1 DEF Dialogue, TypeLine, InDialog
  <2>7. typed' \subseteq [task : UserTasks, line : Line]
    BY <2>1, <2>2, <2>6
  <2> QED BY <1>1, <2>5, <2>7 DEF TypeLine, server, counted
<1>2. CASE RemoveLine(a)
  <2>1. PICK i \in DOMAIN dialog[a].rows :
          dialog' = [dialog EXCEPT ![a].rows = RemoveAt(@, i),
                                   ![a].removed = @ \cup {dialog[a].rows[i]}]
    BY <1>2 DEF RemoveLine
  <2>2. dialog[a].rows \in Seq(Line) /\ i \in 1..Len(dialog[a].rows)
    BY <1>0, LenProperties DEF Dialogue
  <2>3. dialog[a].rows[i] \in Line
    BY <2>2, ElementOfSeq
  <2>4. RemoveAt(dialog[a].rows, i) \in Seq(Line)
    BY <2>2, RemoveAtProperties
  <2>5. [dialog[a] EXCEPT !.rows = RemoveAt(@, i), !.removed = @ \cup {dialog[a].rows[i]}] \in Dialogue
    BY <1>0, <2>3, <2>4 DEF Dialogue
  <2>6. dialog' \in [Admins -> Dialogue]
    BY <2>1, <2>5
  <2> QED BY <1>2, <2>6 DEF RemoveLine, server, counted
<1>3. CASE CloseDialog(a)
  <2>1. Closed \in Dialogue
    BY EmptySeq DEF Closed, Dialogue
  <2> QED BY <1>3, <2>1 DEF CloseDialog, server, counted
<1>4. CASE Dismiss(a)
  BY <1>4 DEF Dismiss, server, counted
<1>5. ASSUME NEW n \in UserTasks, OpenDialog(a, n) PROVE Types'
  <2> DEFINE rows  == ShownButtons(db.buttons, n)
             lines == [i \in DOMAIN rows |-> [title |-> rows[i].name, value |-> rows[i].id]]
  <2>1. dialog' = [dialog EXCEPT ![a] = [task |-> n, removed |-> {}, seen |-> commits, rows |-> lines]]
    BY <1>5 DEF OpenDialog
  <2>2. rows \in Seq(TableRows)
    BY ShownButtonsType DEF Database
  <2>3. lines \in Seq(Line)
    BY <2>2, LinesType
  <2> HIDE DEF lines
  <2>4. [task |-> n, removed |-> {}, seen |-> commits, rows |-> lines] \in Dialogue
    BY <2>3 DEF Dialogue
  <2>5. dialog' \in [Admins -> Dialogue]
    BY <2>1, <2>4
  <2> QED BY <1>5, <2>5 DEF OpenDialog, server, counted
<1> QED BY <1>1, <1>2, <1>3, <1>4, <1>5

(* Sending a save *)
LEMMA TypesSubmit ==
  ASSUME Types, NEW a \in Admins, SubmitPage(a) \/ SubmitDialog(a)
  PROVE  Types'
<1> USE DEF Types
<1>1. CASE SubmitPage(a)
  <2>1. InsertAll(page[a]) \in Seq(ConfigStatements)
    BY InsertAllType
  <2>2. [kind |-> "config", task |-> Nobody, inserts |-> InsertAll(page[a])] \in ConfigSave
    BY <2>1 DEF ConfigSave
  <2> QED BY <1>1, <2>2 DEF SubmitPage, Submit, server
<1>2. CASE SubmitDialog(a)
  <2>1. dialog[a].rows \in Seq(Line) /\ dialog[a].task \in UserTasks
    BY <1>2 DEF SubmitDialog, InDialog, Dialogue
  <2> DEFINE ins == InsertButtons(dialog[a].task, Complete(dialog[a].rows))
  <2>2. Complete(dialog[a].rows) \in Seq(Line)
    BY <2>1, CompleteType
  <2>3. ins \in Seq(ButtonStatements)
    BY <2>1, <2>2, InsertButtonsType
  <2> HIDE DEF ins
  <2>4. [kind |-> "buttons", task |-> dialog[a].task, inserts |-> ins] \in ButtonSave
    BY <2>1, <2>3 DEF ButtonSave
  <2> QED BY <1>2, <2>4 DEF SubmitDialog, Submit, server, ins
<1> QED BY <1>1, <1>2

(* The transaction *)
LEMMA TypesService ==
  ASSUME Types, NEW a \in Admins, Service(a)
  PROVE  Types'
<1> USE DEF Types
<1>0. NoRequest \in ConfigSave \cup ButtonSave \cup {NoRequest} /\ <<>> \in Seq(Statements)
  BY EmptySeq
<1>1. CASE Begin(a)
  <2>1. request[a] \in ConfigSave \cup ButtonSave
    BY <1>1 DEF Begin
  <2>2. request[a].inserts \in Seq(Statements)
    BY <2>1, SeqMonotonic DEF ConfigSave, ButtonSave, Statements
  <2>3. DeleteOld(db, request[a]) \in Database
    BY DeleteOldType
  <2>4. a # Nobody
    BY TaskConfigAssumption
  <2> QED BY <1>1, <2>2, <2>3, <2>4 DEF Begin, counted
<1>2. CASE Insert(a)
  <2>1. Head(todo) \in Statements /\ Tail(todo) \in Seq(Statements)
    BY <1>2, HeadTailProperties DEF Insert
  <2>2. work' \in Database
    <3> DEFINE s == Head(todo)
    <3>1. s \in Statements /\ s.op = "insert" /\ work' = [work EXCEPT ![s.table] = Append(@, s.row)]
      BY <1>2, <2>1 DEF Insert
    <3> HIDE DEF s
    <3> QED BY <3>1, InsertedRow
  <2>3. a # Nobody
    BY TaskConfigAssumption
  <2> QED BY <1>2, <2>1, <2>2, <2>3 DEF Insert, counted
<1>3. CASE Commit(a)
  BY <1>0, <1>3 DEF Commit, Answer, counted
<1>4. CASE Fail(a)
  BY <1>0, <1>4 DEF Fail, Answer, counted
<1> QED BY <1>1, <1>2, <1>3, <1>4 DEF Service

(* Every step keeps the types. *)
LEMMA TypesNext == Types /\ [Next]_vars => Types'
<1> SUFFICES ASSUME Types, [Next]_vars PROVE Types'
  OBVIOUS
<1>1. CASE UNCHANGED vars
  BY <1>1 DEF Types, vars
<1>2. ASSUME NEW a \in Admins, Page(a) PROVE Types'
  BY <1>2, TypesPage, TypesDialog, TypesSubmit DEF Page
<1>3. ASSUME NEW a \in Admins, Service(a) PROVE Types'
  BY <1>3, TypesService
<1> QED BY <1>1, <1>2, <1>3 DEF Next

(* So every variable keeps its type. *)
LEMMA TypesInvariant == Spec => []Types
<1> QED BY TypesInit, TypesNext, PTL DEF Spec

(* Every variable of the node page and of the service behind it stays in its   *)
(* type: the statements of a save only ever put rows into the tables, and none *)
(* is left when a transaction has ended.                                       *)
THEOREM TypeCorrect == Spec => []TypeOK
<1>1. Types => TypeOK
  BY DEF Types, TypeOK, Dialogue, ConfigSave, ButtonSave, NoRequest
<1> QED BY <1>1, TypesInvariant, PTL

-----------------------------------------------------------------------------
(* Saves *)

TableNames == {"users", "groups", "buttons"}

(* The transaction that runs has executed a first part of its statements: every *)
(* table holds what the deletes have left and the rows of that part.            *)
Saving ==
  /\ last = db
  /\ writer # Nobody =>
       /\ request[writer] # NoRequest
       /\ \E done \in Seq(Statements) :
            /\ request[writer].inserts = done \o todo
            /\ \A t \in TableNames :
                 work[t] = DeleteOld(db, request[writer])[t] \o Inserted(done, t)

(* The rows that statements insert into a table *)
LEMMA InsertedRows ==
  ASSUME NEW stmts \in Seq(Statements), NEW table \in TableNames
  PROVE  /\ Inserted(stmts, table) \in Seq(TableRows)
         /\ Range(Inserted(stmts, table)) = {s.row : s \in {x \in Range(stmts) : x.table = table}}
<1> DEFINE S    == {s \in Range(stmts) : s.table = table}
           into == Kept(stmts, S)
           rows == [i \in DOMAIN into |-> into[i].row]
<1>1. into \in Seq(Statements) /\ Range(into) = Range(stmts) \cap S
  <2> HIDE DEF S
  <2> QED BY KeptRange
<1>2. S \subseteq Statements /\ S \subseteq Range(stmts)
  BY RangeOfSeq
<1>3. \A s \in S : s.row \in TableRows
  BY <1>2 DEF Statements, ConfigStatements, ButtonStatements, Throw, TableNames
<1>4. Inserted(stmts, table) = rows
  BY DEF Inserted
<1>5. Range(into) = S
  BY <1>1, <1>2
<1> HIDE DEF into, S
<1>6. Len(into) \in Nat /\ DOMAIN into = 1..Len(into) /\ Range(into) = {into[i] : i \in 1..Len(into)}
  BY <1>1, LenProperties, RangeEquality
<1>7. \A i \in 1..Len(into) : rows[i] = into[i].row /\ into[i] \in S
  BY <1>5, <1>6
<1>8. rows \in [1..Len(into) -> TableRows]
  BY <1>3, <1>6, <1>7
<1> HIDE DEF rows
<1>9. Len(into) \in Nat
  BY <1>6
<1>10. rows \in Seq(TableRows) /\ Range(rows) = {rows[i] : i \in 1..Len(into)}
  BY <1>8, <1>9, MappedSeq
<1>11. Range(rows) = {s.row : s \in S}
  <2>1. \A i \in 1..Len(into) : rows[i] \in {s.row : s \in S} /\ into[i].row \in Range(rows)
    BY <1>7, <1>10
  <2>2. \A s \in S : \E i \in 1..Len(into) : s = into[i]
    BY <1>5, <1>6
  <2> QED BY <1>10, <2>1, <2>2
<1> QED BY <1>4, <1>10, <1>11 DEF S

(* One more statement *)
LEMMA InsertedOfAppend ==
  ASSUME NEW stmts \in Seq(Statements), NEW s \in Statements, NEW table
  PROVE  Inserted(Append(stmts, s), table) =
           IF s.table = table THEN Append(Inserted(stmts, table), s.row) ELSE Inserted(stmts, table)
<1> DEFINE more == Append(stmts, s)
           S == {x \in Range(stmts) : x.table = table}
           U == {x \in Range(more) : x.table = table}
           into == Kept(stmts, S)
<1>1. Range(more) = Range(stmts) \cup {s}
  BY RangeOfAppend
<1>2. into \in Seq(Statements)
  <2> HIDE DEF S
  <2> QED BY KeptRange
<1>3. into = Kept(stmts, U)
  <2>1. \A x \in Range(stmts) : x \in S <=> x \in U
    BY <1>1
  <2> HIDE DEF S, U
  <2> QED BY <2>1, KeptAgrees
<1>4. Kept(more, U) = IF s \in U THEN Append(into, s) ELSE into
  <2> HIDE DEF U, into
  <2> QED BY <1>3, KeptOfAppend
<1>5. s \in U <=> s.table = table
  BY <1>1
<1>6. Inserted(stmts, table) = [i \in DOMAIN into |-> into[i].row]
  BY DEF Inserted
<1>7. Inserted(more, table) = [i \in DOMAIN Kept(more, U) |-> Kept(more, U)[i].row]
  BY DEF Inserted
<1> HIDE DEF U, into, more
<1>8. Len(into) \in Nat /\ DOMAIN into = 1..Len(into)
  BY <1>2, LenProperties
<1>9. CASE s.table = table
  <2> DEFINE rows == [i \in 1..Len(into) |-> into[i].row]
             both == Append(into, s)
  <2>1. both \in Seq(Statements) /\ Len(both) = Len(into) + 1
        /\ (\A i \in 1..Len(into) : both[i] = into[i]) /\ both[Len(into) + 1] = s
    BY <1>2, AppendProperties
  <2>2. DOMAIN both = 1..(Len(into) + 1)
    BY <1>8, <2>1, LenProperties
  <2> HIDE DEF both
  <2>3. rows \in Seq({into[i].row : i \in 1..Len(into)} \cup {s.row}) /\ Len(rows) = Len(into)
    BY <1>8
  <2>4. Append(rows, s.row) = [i \in 1..(Len(into) + 1) |-> IF i = Len(into) + 1 THEN s.row ELSE rows[i]]
    BY <1>8, <2>3
  <2>5. [i \in DOMAIN both |-> both[i].row] = Append(rows, s.row)
    <3>1. \A i \in 1..(Len(into) + 1) : both[i].row = IF i = Len(into) + 1 THEN s.row ELSE rows[i]
      BY <1>8, <2>1
    <3> HIDE DEF rows
    <3> QED BY <2>2, <2>4, <3>1
  <2> QED BY <1>4, <1>5, <1>6, <1>7, <1>8, <1>9, <2>5 DEF both, more
<1>10. CASE s.table # table
  BY <1>4, <1>5, <1>6, <1>7, <1>10 DEF more
<1> QED BY <1>9, <1>10

(* No statement *)
LEMMA InsertedOfNone ==
  ASSUME NEW table
  PROVE  Inserted(<<>>, table) = <<>>
<1> DEFINE S == {x \in Range(<<>>) : x.table = table}
<1>1. Inserted(<<>>, table) = [i \in DOMAIN Kept(<<>>, S) |-> Kept(<<>>, S)[i].row]
  BY DEF Inserted
<1> HIDE DEF S
<1>2. Kept(<<>>, S) = <<>>
  BY KeptOfEmpty
<1> QED BY <1>1, <1>2

(* No statement for this table *)
LEMMA InsertedElsewhere ==
  ASSUME NEW stmts \in Seq(Statements), NEW table \in TableNames, \A s \in Range(stmts) : s.table # table
  PROVE  Inserted(stmts, table) = <<>>
<1> DEFINE S == {x \in Range(stmts) : x.table = table}
<1>1. Inserted(stmts, table) = [i \in DOMAIN Kept(stmts, S) |-> Kept(stmts, S)[i].row]
  BY DEF Inserted
<1>2. \A s \in Range(stmts) : s \notin S
  OBVIOUS
<1> HIDE DEF S
<1>3. Kept(stmts, S) = <<>>
  BY <1>2, KeptNothing
<1> QED BY <1>1, <1>3

(* Nothing is being saved in the beginning. *)
LEMMA SavingInit == Init => Saving
BY DEF Init, Saving

(* The deletes *)
LEMMA SavingBegin ==
  ASSUME Types, Saving, NEW a \in Admins, Begin(a)
  PROVE  Saving'
<1>1. /\ writer' = a /\ request' = request /\ db' = db /\ last' = last /\ request[a] # NoRequest
      /\ work' = DeleteOld(db, request[a]) /\ todo' = request[a].inserts
  BY DEF Begin
<1>2. request[a].inserts \in Seq(Statements)
  <2>1. request[a] \in ConfigSave \cup ButtonSave
    BY <1>1 DEF Types
  <2> QED BY <2>1, SeqMonotonic DEF ConfigSave, ButtonSave, Statements
<1>3. <<>> \in Seq(Statements) /\ request[a].inserts = <<>> \o request[a].inserts
  BY <1>2, EmptySeq, ConcatEmptySeq
<1>4. DeleteOld(db, request[a]) \in Database
  BY DeleteOldType DEF Types
<1>5. ASSUME NEW t \in TableNames
      PROVE  DeleteOld(db, request[a])[t] = DeleteOld(db, request[a])[t] \o Inserted(<<>>, t)
  <2>1. DeleteOld(db, request[a])[t] \in Seq(TableRows)
    BY <1>4 DEF Database, TableNames
  <2> QED BY <2>1, InsertedOfNone, ConcatEmptySeq
<1> QED BY <1>1, <1>3, <1>5 DEF Saving

(* A row is inserted. *)
LEMMA SavingInsert ==
  ASSUME Types, Saving, NEW a \in Admins, Insert(a)
  PROVE  Saving'
<1> DEFINE s == Head(todo)
<1>1. /\ writer = a /\ writer' = a /\ request' = request /\ db' = db /\ last' = last
      /\ todo # <<>> /\ s.op = "insert" /\ todo' = Tail(todo)
      /\ work' = [work EXCEPT ![s.table] = Append(@, s.row)]
  BY DEF Insert
<1>2. s \in Statements /\ Tail(todo) \in Seq(Statements) /\ todo = <<s>> \o Tail(todo)
  BY <1>1, HeadTailProperties DEF Types
<1> HIDE DEF s
<1>3. PICK done \in Seq(Statements) :
        /\ request[a].inserts = done \o todo
        /\ \A t \in TableNames : work[t] = DeleteOld(db, request[a])[t] \o Inserted(done, t)
  <2>1. a # Nobody
    BY TaskConfigAssumption
  <2> QED BY <1>1, <2>1 DEF Saving
<1> DEFINE more == Append(done, s)
<1>4. more \in Seq(Statements) /\ more = done \o <<s>>
  BY <1>2, AppendProperties, AppendIsConcat
<1>5. request[a].inserts = more \o Tail(todo)
  <2>1. <<s>> \in Seq(Statements)
    BY <1>2
  <2> QED BY <1>2, <1>3, <1>4, <2>1, ConcatAssociative
<1>6. ASSUME NEW t \in TableNames
      PROVE  work'[t] = DeleteOld(db, request[a])[t] \o Inserted(more, t)
  <2> DEFINE base == DeleteOld(db, request[a])[t]
             rows == Inserted(done, t)
  <2>1. work'[t] = IF t = s.table THEN Append(work[t], s.row) ELSE work[t]
    <3>1. work \in Database
      BY DEF Types
    <3> QED BY <1>1, <1>2, <3>1, InsertedRow DEF TableNames
  <2>2. Inserted(more, t) = IF s.table = t THEN Append(rows, s.row) ELSE rows
    BY <1>2, InsertedOfAppend
  <2>3. work[t] = base \o rows
    BY <1>3
  <2>4. base \in Seq(TableRows) /\ rows \in Seq(TableRows) /\ s.row \in TableRows
    <3>1. DeleteOld(db, request[a]) \in Database
      BY DeleteOldType DEF Types
    <3>2. base \in Seq(TableRows)
      BY <3>1 DEF Database, TableNames
    <3> QED BY <1>1, <1>2, <3>2, InsertedRows, InsertedRow DEF Types
  <2> HIDE DEF base, rows, more
  <2>5. Append(base \o rows, s.row) = base \o Append(rows, s.row)
    <3>1. Append(base \o rows, s.row) = (base \o rows) \o <<s.row>>
      BY <2>4, ConcatProperties, AppendIsConcat
    <3>2. Append(rows, s.row) = rows \o <<s.row>>
      BY <2>4, AppendIsConcat
    <3>3. <<s.row>> \in Seq(TableRows)
      BY <2>4
    <3> QED BY <2>4, <3>1, <3>2, <3>3, ConcatAssociative
  <2>6. work'[t] = base \o Inserted(more, t)
    BY <2>1, <2>2, <2>3, <2>5
  <2> QED BY <2>6 DEF base
<1> HIDE DEF more
<1>7. last' = db' /\ request'[writer'] # NoRequest
  BY <1>1, TaskConfigAssumption DEF Saving
<1>8. request'[writer'].inserts = more \o todo'
  BY <1>1, <1>5
<1>9. \A t \in TableNames : work'[t] = DeleteOld(db', request'[writer'])[t] \o Inserted(more, t)
  BY <1>1, <1>6
<1> QED BY <1>4, <1>7, <1>8, <1>9 DEF Saving

(* What a committed save leaves: the rows of the request in the place of the *)
(* rows it deletes.                                                           *)
LEMMA Committed ==
  ASSUME Types, Saving, NEW a \in Admins, Commit(a)
  PROVE  /\ request[a] \in ConfigSave \cup ButtonSave
         /\ request[a].inserts \in Seq(Statements)
         /\ \A t \in TableNames :
              db'[t] = DeleteOld(db, request[a])[t] \o Inserted(request[a].inserts, t)
<1>1. writer = a /\ a # Nobody /\ todo = <<>> /\ db' = work
  BY TaskConfigAssumption DEF Commit
<1>2. request[a] \in ConfigSave \cup ButtonSave
  BY <1>1 DEF Types, Saving
<1>3. PICK done \in Seq(Statements) :
        /\ request[a].inserts = done \o todo
        /\ \A t \in TableNames : work[t] = DeleteOld(db, request[a])[t] \o Inserted(done, t)
  BY <1>1 DEF Saving
<1>4. done \o todo = done
  BY <1>1, ConcatEmptySeq
<1> QED BY <1>1, <1>2, <1>3, <1>4

(* All rows are in, and nothing else is in the tables that the save leaves alone. *)
LEMMA SavingCommit ==
  ASSUME Types, Saving, NEW a \in Admins, Commit(a)
  PROVE  Saving'
<1> DEFINE req == request[a]
<1>1. writer' = Nobody /\ last' = LastAfter(req) /\ last = db /\ db' = work
  BY DEF Commit, Answer, Saving
<1>2. /\ req \in ConfigSave \cup ButtonSave /\ req.inserts \in Seq(Statements)
      /\ \A t \in TableNames : db'[t] = DeleteOld(db, req)[t] \o Inserted(req.inserts, t)
  BY Committed
<1>3. db \in Database /\ db' \in Database
  BY <1>1 DEF Types
<1> HIDE DEF req
<1>4. /\ db.users \in Seq(TableRows) /\ db.groups \in Seq(TableRows) /\ db.buttons \in Seq(TableRows)
      /\ db = [users |-> db.users, groups |-> db.groups, buttons |-> db.buttons]
      /\ db' = [users |-> db'.users, groups |-> db'.groups, buttons |-> db'.buttons]
  BY <1>3 DEF Database
<1>5. \A t \in TableNames : Inserted(req.inserts, t) \in Seq(TableRows)
  BY <1>2, InsertedRows
<1>6. /\ db'.users = DeleteOld(db, req).users \o Inserted(req.inserts, "users")
      /\ db'.groups = DeleteOld(db, req).groups \o Inserted(req.inserts, "groups")
      /\ db'.buttons = DeleteOld(db, req).buttons \o Inserted(req.inserts, "buttons")
  BY <1>2 DEF TableNames
<1>7. CASE req \in ConfigSave
  <2>1. req.kind = "config" /\ req.inserts \in Seq(ConfigStatements)
    BY <1>7 DEF ConfigSave
  <2>2. DeleteOld(db, req) = [users |-> <<>>, groups |-> <<>>, buttons |-> db.buttons]
    BY <1>3, <2>1, DeleteOldType
  <2>3. Inserted(req.inserts, "buttons") = <<>>
    <3>1. Range(req.inserts) \subseteq ConfigStatements
      BY <2>1, RangeOfSeq
    <3>2. \A s \in ConfigStatements : s.table # "buttons"
      BY DEF ConfigStatements, Throw
    <3> QED BY <1>2, <3>1, <3>2, InsertedElsewhere DEF TableNames
  <2>4. /\ db'.users = Inserted(req.inserts, "users") /\ db'.groups = Inserted(req.inserts, "groups")
        /\ db'.buttons = db.buttons
    BY <1>4, <1>5, <1>6, <2>2, <2>3, ConcatEmptySeq DEF TableNames
  <2>5. last' = [users |-> Inserted(req.inserts, "users"), groups |-> Inserted(req.inserts, "groups"),
                 buttons |-> db.buttons]
    <3> DEFINE us == Inserted(req.inserts, "users")
               gs == Inserted(req.inserts, "groups")
    <3>1. last' = [db EXCEPT !.users = us, !.groups = gs]
      BY <1>1, <2>1 DEF LastAfter
    <3> HIDE DEF us, gs
    <3>2. last' = [users |-> us, groups |-> gs, buttons |-> db.buttons]
      BY <1>4, <3>1
    <3> QED BY <3>2 DEF us, gs
  <2> QED BY <1>1, <1>4, <2>4, <2>5 DEF Saving
<1>8. CASE req \in ButtonSave
  <2>1. req.kind = "buttons" /\ req.inserts \in Seq(ButtonStatements)
    BY <1>8 DEF ButtonSave
  <2>2. DeleteOld(db, req) = [users |-> db.users, groups |-> db.groups,
                              buttons |-> RowsOfOthers(db.buttons, req.task)]
    BY <1>3, <2>1, DeleteOldType
  <2>3. Inserted(req.inserts, "users") = <<>> /\ Inserted(req.inserts, "groups") = <<>>
    <3>1. Range(req.inserts) \subseteq ButtonStatements
      BY <2>1, RangeOfSeq
    <3>2. \A s \in ButtonStatements : s.table # "users" /\ s.table # "groups"
      BY DEF ButtonStatements
    <3> QED BY <1>2, <3>1, <3>2, InsertedElsewhere DEF TableNames
  <2>4. /\ db'.users = db.users /\ db'.groups = db.groups
        /\ db'.buttons = RowsOfOthers(db.buttons, req.task) \o Inserted(req.inserts, "buttons")
    BY <1>4, <1>6, <2>2, <2>3, ConcatEmptySeq
  <2>5. last' = [users |-> db.users, groups |-> db.groups,
                 buttons |-> RowsOfOthers(db.buttons, req.task) \o Inserted(req.inserts, "buttons")]
    <3> DEFINE bs == RowsOfOthers(db.buttons, req.task) \o Inserted(req.inserts, "buttons")
    <3>1. last' = [db EXCEPT !.buttons = bs]
      BY <1>1, <2>1 DEF LastAfter
    <3> HIDE DEF bs
    <3>2. last' = [users |-> db.users, groups |-> db.groups, buttons |-> bs]
      BY <1>4, <3>1
    <3> QED BY <3>2 DEF bs
  <2> QED BY <1>1, <1>4, <2>4, <2>5 DEF Saving
<1> QED BY <1>2, <1>7, <1>8

(* Nobody sends a save while his last one is on its way. *)
LEMMA PageLeavesServer ==
  ASSUME NEW a \in Admins, Page(a)
  PROVE  /\ UNCHANGED server
         /\ \/ request' = request
            \/ request[a] = NoRequest /\ \E req : request' = [request EXCEPT ![a] = req]
BY DEF Page, LoadPage, SubmitPage, TypeLine, RemoveLine, SubmitDialog, CloseDialog, Dismiss,
       ChooseUsers, ChooseGroups, TypeIds, OpenDialog, Submit, OnPage, InDialog, Free

(* Every step keeps what is known of the saves. *)
LEMMA SavingNext == Types /\ Saving /\ [Next]_vars => Saving'
<1> SUFFICES ASSUME Types, Saving, [Next]_vars PROVE Saving'
  OBVIOUS
<1>1. CASE UNCHANGED vars
  BY <1>1 DEF Saving, vars
<1>2. ASSUME NEW a \in Admins, Page(a) PROVE Saving'
  <2>1. UNCHANGED <<db, work, writer, todo, last>>
    BY <1>2, PageLeavesServer DEF server
  <2>2. writer # Nobody => request'[writer] = request[writer]
    BY <1>2, PageLeavesServer DEF Types, Saving
  <2> QED BY <2>1, <2>2 DEF Saving
<1>3. ASSUME NEW a \in Admins, Fail(a) PROVE Saving'
  BY <1>3 DEF Fail, Answer, Saving
<1>4. ASSUME NEW a \in Admins, Service(a) PROVE Saving'
  BY <1>3, <1>4, SavingBegin, SavingInsert, SavingCommit DEF Service
<1> QED BY <1>1, <1>2, <1>4 DEF Next

(* So it holds at all times. *)
LEMMA SavingInvariant == Spec => []Saving
<1> QED BY SavingInit, SavingNext, TypesInvariant, PTL DEF Spec

(* Whatever saves run, fail and wait for one another, the tables hold what the *)
(* last successful saves asked for: a save is executed row by row, but no part *)
(* of one is ever seen, and none touches a table that is not its own.          *)
THEOREM SavesAreWhole == Spec => []TablesHoldLastSave
<1>1. Saving => TablesHoldLastSave
  BY DEF Saving, TablesHoldLastSave
<1> QED BY <1>1, SavingInvariant, PTL

-----------------------------------------------------------------------------
(* Buttons *)

LineOf(r) == [title |-> r.name, value |-> r.id]

(* One of the entries es is the line, typed in the dialog of t or of a task that *)
(* the dialog of t shows.                                                        *)
HasOrigin(es, line, t) == \E e \in es : e.line = line /\ e.task \in Within[t]
Traceable(es, r) == r.id # Blank /\ r.name # Blank /\ HasOrigin(es, LineOf(r), r.bpmn)

(* While a save of the dialog is on its way, the dialog stays as it was. *)
Pending ==
  \A a \in Admins : request[a].kind = "buttons" =>
    /\ request[a].task = dialog[a].task
    /\ request[a].inserts = InsertButtons(dialog[a].task, Complete(dialog[a].rows))

(* Lines have an origin wherever they are: in the tables, in the statements still *)
(* to execute, in an open dialog.                                                 *)
Origins ==
  /\ \A r \in Range(db.buttons) \cup Range(work.buttons) : Traceable(typed, r)
  /\ \A s \in Range(todo) : s.table = "buttons" => Traceable(typed, s.row)
  /\ \A a \in Admins : \A l \in Range(dialog[a].rows) : HasOrigin(typed, l, dialog[a].task)

(* No rows are on their way in the beginning. *)
LEMMA PendingInit == Init => Pending
BY DEF Init, Pending, NoRequest

(* Every step keeps what is known of them. *)
LEMMA PendingNext == Types /\ Pending /\ [Next]_vars => Pending'
<1> SUFFICES ASSUME Types, Pending, [Next]_vars PROVE Pending'
  OBVIOUS
<1> USE DEF Pending
<1>1. CASE UNCHANGED vars
  BY <1>1 DEF vars
<1>2. ASSUME NEW a \in Admins,
             \/ LoadPage(a) \/ Dismiss(a) \/ Begin(a) \/ Insert(a)
             \/ \E n \in UserTasks : ChooseUsers(a, n) \/ ChooseGroups(a, n) \/ TypeIds(a, n)
      PROVE  Pending'
  <2>1. request' = request /\ dialog' = dialog
    BY <1>2 DEF LoadPage, Dismiss, Begin, Insert, ChooseUsers, ChooseGroups, TypeIds
  <2> QED BY <2>1
<1>3. ASSUME NEW a \in Admins,
             \/ TypeLine(a) \/ RemoveLine(a) \/ CloseDialog(a)
             \/ \E n \in UserTasks : OpenDialog(a, n)
      PROVE  Pending'
  <2>1. request' = request /\ request[a] = NoRequest /\ \A b \in Admins \ {a} : dialog'[b] = dialog[b]
    BY <1>3 DEF TypeLine, RemoveLine, CloseDialog, OpenDialog, OnPage, InDialog, Free, Types
  <2> QED BY <2>1 DEF NoRequest
<1>4. ASSUME NEW a \in Admins, SubmitPage(a) PROVE Pending'
  <2> DEFINE ins == InsertAll(page[a])
  <2>1. /\ dialog' = dialog
        /\ request' = [request EXCEPT ![a] = [kind |-> "config", task |-> Nobody, inserts |-> ins]]
    BY <1>4 DEF SubmitPage, Submit
  <2> HIDE DEF ins
  <2>2. request'[a].kind # "buttons" /\ \A b \in Admins \ {a} : request'[b] = request[b]
    BY <2>1 DEF Types
  <2> QED BY <2>1, <2>2
<1>5. ASSUME NEW a \in Admins, SubmitDialog(a) PROVE Pending'
  <2>1. /\ dialog' = dialog
        /\ request' = [request EXCEPT ![a] =
             [kind |-> "buttons", task |-> dialog[a].task,
              inserts |-> InsertButtons(dialog[a].task, Complete(dialog[a].rows))]]
    BY <1>5 DEF SubmitDialog, Submit
  <2> QED BY <2>1 DEF Types
<1>6. ASSUME NEW a \in Admins, Commit(a) \/ Fail(a) PROVE Pending'
  <2>1. dialog' = dialog /\ request' = [request EXCEPT ![a] = NoRequest]
    BY <1>6 DEF Commit, Fail, Answer
  <2> QED BY <2>1 DEF Types, NoRequest
<1> QED BY <1>1, <1>2, <1>3, <1>4, <1>5, <1>6 DEF Next, Page, Service

(* So it holds at all times. *)
LEMMA PendingInvariant == Spec => []Pending
<1> QED BY PendingInit, PendingNext, TypesInvariant, PTL DEF Spec

(* What was typed stays typed. *)
LEMMA OriginStays ==
  ASSUME typed \subseteq typed'
  PROVE  /\ \A l, t : HasOrigin(typed, l, t) => HasOrigin(typed', l, t)
         /\ \A r : Traceable(typed, r) => Traceable(typed', r)
BY DEF HasOrigin, Traceable

(* What was typed once stays typed. *)
LEMMA TypedGrows == [Next]_vars => typed \subseteq typed'
BY DEF Next, vars, Page, Service, LoadPage, SubmitPage, TypeLine, RemoveLine, SubmitDialog, CloseDialog,
       Dismiss, ChooseUsers, ChooseGroups, TypeIds, OpenDialog, Begin, Insert, Commit, Fail, Answer, Submit

(* The buttons in the beginning *)
LEMMA OriginsInit == Init => Origins
<1> SUFFICES ASSUME Init PROVE Origins
  OBVIOUS
<1>1. Range(<<>>) = {}
  BY DEF Range
<1> QED BY <1>1 DEF Init, Origins, Tables, Closed

(* The dialog is filled with lines of tasks whose id contains the task's, and *)
(* those lines come from tasks whose ids contain theirs.                      *)
LEMMA OriginsOpen ==
  ASSUME Types, Origins, NEW a \in Admins, NEW n \in UserTasks, OpenDialog(a, n)
  PROVE  Origins'
<1> DEFINE rows  == ShownButtons(db.buttons, n)
           lines == [i \in DOMAIN rows |-> [title |-> rows[i].name, value |-> rows[i].id]]
<1>1. /\ dialog' = [dialog EXCEPT ![a] = [task |-> n, removed |-> {}, seen |-> commits, rows |-> lines]]
      /\ UNCHANGED <<db, work, todo, typed>>
  BY DEF OpenDialog, server
<1>2. rows \in Seq(TableRows) /\ Range(rows) = {r \in Range(db.buttons) : r.bpmn \in Within[n]}
  BY ShownButtonsType DEF Types, Database
<1>3. Range(lines) = {LineOf(r) : r \in Range(rows)}
  BY <1>2, LinesType DEF LineOf
<1> HIDE DEF lines, rows
<1>4. \A r \in Range(rows) : HasOrigin(typed, LineOf(r), n)
  <2> SUFFICES ASSUME NEW r \in Range(rows) PROVE HasOrigin(typed, LineOf(r), n)
    OBVIOUS
  <2>1. Traceable(typed, r) /\ r.bpmn \in Within[n]
    BY <1>2 DEF Origins
  <2>2. Within[r.bpmn] \subseteq Within[n]
    BY <2>1, TaskConfigAssumption
  <2> QED BY <2>1, <2>2 DEF Traceable, HasOrigin
<1>5. \A l \in Range(lines) : HasOrigin(typed, l, n)
  BY <1>3, <1>4
<1>6. dialog'[a].task = n /\ dialog'[a].rows = lines /\ \A b \in Admins \ {a} : dialog'[b] = dialog[b]
  BY <1>1 DEF Types
<1> QED BY <1>1, <1>5, <1>6 DEF Origins, HasOrigin, Traceable

(* The other steps in the dialog *)
LEMMA OriginsDialog ==
  ASSUME Types, Origins, NEW a \in Admins, TypeLine(a) \/ RemoveLine(a) \/ CloseDialog(a)
  PROVE  Origins'
<1>0. /\ UNCHANGED <<db, work, todo>> /\ typed \subseteq typed'
      /\ \A b \in Admins \ {a} : dialog'[b] = dialog[b]
  BY DEF TypeLine, RemoveLine, CloseDialog, server, Types
<1>1. /\ \A l, t : HasOrigin(typed, l, t) => HasOrigin(typed', l, t)
      /\ \A r : Traceable(typed, r) => Traceable(typed', r)
  BY <1>0, OriginStays
<1>2. SUFFICES \A l \in Range(dialog'[a].rows) : HasOrigin(typed', l, dialog'[a].task)
  BY <1>0, <1>1 DEF Origins
<1>3. dialog[a] \in Dialogue /\ dialog[a].rows \in Seq(Line)
  BY DEF Types, Dialogue
<1>4. CASE TypeLine(a)
  <2>1. PICK line \in Lines : /\ dialog' = [dialog EXCEPT ![a].rows = Append(@, line)]
                              /\ typed' = typed \cup {[task |-> dialog[a].task, line |-> line]}
    BY <1>4 DEF TypeLine
  <2>2. line \in Line
    BY TaskConfigAssumption DEF Line
  <2>3. dialog'[a].rows = Append(dialog[a].rows, line) /\ dialog'[a].task = dialog[a].task
    BY <1>3, <2>1 DEF Types, Dialogue
  <2>4. Range(dialog'[a].rows) = Range(dialog[a].rows) \cup {line}
    BY <1>3, <2>2, <2>3, RangeOfAppend
  <2>5. HasOrigin(typed', line, dialog[a].task)
    <3>1. dialog[a].task \in UserTasks
      BY <1>3, <1>4 DEF TypeLine, InDialog, Dialogue
    <3>2. [task |-> dialog[a].task, line |-> line] \in typed' /\ dialog[a].task \in Within[dialog[a].task]
      BY <2>1, <3>1, TaskConfigAssumption
    <3> QED BY <3>2 DEF HasOrigin
  <2> QED BY <1>1, <2>3, <2>4, <2>5 DEF Origins
<1>5. CASE RemoveLine(a)
  <2>1. PICK i \in DOMAIN dialog[a].rows :
          dialog' = [dialog EXCEPT ![a].rows = RemoveAt(@, i),
                                   ![a].removed = @ \cup {dialog[a].rows[i]}]
    BY <1>5 DEF RemoveLine
  <2>2. dialog'[a].rows = RemoveAt(dialog[a].rows, i) /\ dialog'[a].task = dialog[a].task
    BY <1>3, <2>1 DEF Types, Dialogue
  <2>3. Range(dialog'[a].rows) \subseteq Range(dialog[a].rows)
    <3>1. i \in 1..Len(dialog[a].rows)
      BY <1>3, <2>1, LenProperties
    <3>2. Range(RemoveAt(dialog[a].rows, i)) \cup {dialog[a].rows[i]} = Range(dialog[a].rows)
      BY <1>3, <3>1, RemoveAtProperties
    <3> QED BY <2>2, <3>2
  <2> QED BY <1>1, <2>2, <2>3 DEF Origins
<1>6. CASE CloseDialog(a)
  <2>1. dialog'[a].rows = <<>>
    BY <1>6 DEF CloseDialog, Closed, Types
  <2>2. Range(<<>>) = {}
    BY DEF Range
  <2> QED BY <2>1, <2>2
<1> QED BY <1>4, <1>5, <1>6

(* The transaction takes its rows from the dialog, line by line. *)
LEMMA OriginsService ==
  ASSUME Types, Pending, Origins, NEW a \in Admins, Service(a)
  PROVE  Origins'
<1>1. CASE Begin(a)
  <2>1. /\ UNCHANGED <<db, dialog, typed>> /\ work' = DeleteOld(db, request[a]) /\ todo' = request[a].inserts
        /\ request[a] \in ConfigSave \cup ButtonSave
    BY <1>1 DEF Begin, Types
  <2>2. Range(work'.buttons) \subseteq Range(db.buttons)
    <3>1. db \in Database /\ db.buttons \in Seq(TableRows)
      BY DEF Types, Database
    <3>2. Range(RowsOfOthers(db.buttons, request[a].task)) \subseteq Range(db.buttons)
      BY <3>1, RowsOfType
    <3>3. work'.buttons = db.buttons \/ work'.buttons = RowsOfOthers(db.buttons, request[a].task)
      <4> DEFINE req == request[a]
      <4>1. work' = DeleteOld(db, req)
        BY <2>1
      <4> HIDE DEF req
      <4>2. \/ work' = [users |-> <<>>, groups |-> <<>>, buttons |-> db.buttons]
            \/ work' = [users |-> db.users, groups |-> db.groups, buttons |-> RowsOfOthers(db.buttons, req.task)]
        BY <3>1, <4>1, DeleteOldType
      <4>3. work'.buttons = db.buttons \/ work'.buttons = RowsOfOthers(db.buttons, req.task)
        BY <4>2
      <4> QED BY <4>3 DEF req
    <3> QED BY <3>2, <3>3
  <2>3. ASSUME NEW s \in Range(todo'), s.table = "buttons" PROVE Traceable(typed, s.row)
    <3>1. CASE request[a] \in ConfigSave
      <4>1. Range(request[a].inserts) \subseteq ConfigStatements
        BY <3>1, RangeOfSeq DEF ConfigSave
      <4>2. \A x \in ConfigStatements : x.table # "buttons"
        BY DEF ConfigStatements, Throw
      <4> QED BY <2>1, <2>3, <4>1, <4>2
    <3>2. CASE request[a] \in ButtonSave
      <4> DEFINE d == dialog[a]
      <4>1. d \in Dialogue /\ d.rows \in Seq(Line) /\ d.task \in UserTasks
        BY <3>2 DEF Types, Dialogue, Pending, ButtonSave
      <4>2. request[a].inserts = InsertButtons(d.task, Complete(d.rows))
        BY <3>2 DEF Pending, ButtonSave
      <4> HIDE DEF d
      <4>3. /\ Complete(d.rows) \in Seq(Line)
            /\ Range(Complete(d.rows)) = {l \in Range(d.rows) : l.title # Blank /\ l.value # Blank}
        BY <4>1, CompleteType
      <4>4. Range(InsertButtons(d.task, Complete(d.rows))) =
              {InsertRow("buttons", [bpmn |-> d.task, id |-> l.value, name |-> l.title]) : l \in Range(Complete(d.rows))}
        BY <4>1, <4>3, InsertButtonsType
      <4>5. PICK l \in Range(Complete(d.rows)) :
              s = InsertRow("buttons", [bpmn |-> d.task, id |-> l.value, name |-> l.title])
        BY <2>1, <2>3, <4>2, <4>4
      <4>6. s.row = [bpmn |-> d.task, id |-> l.value, name |-> l.title]
        BY <4>5 DEF InsertRow
      <4>7. l \in Line /\ l \in Range(d.rows) /\ l.title # Blank /\ l.value # Blank
        BY <4>1, <4>3, <4>5, RangeOfSeq
      <4>8. LineOf(s.row) = l
        BY <4>6, <4>7 DEF LineOf, Line
      <4>9. HasOrigin(typed, l, d.task)
        BY <4>7 DEF Origins, d
      <4> QED BY <4>6, <4>7, <4>8, <4>9 DEF Traceable
    <3> QED BY <2>1, <3>1, <3>2
  <2>4. \A r \in Range(db.buttons) \cup Range(work'.buttons) : Traceable(typed, r)
    BY <2>2 DEF Origins
  <2> QED BY <2>1, <2>3, <2>4 DEF Origins, Traceable, HasOrigin
<1>2. CASE Insert(a)
  <2> DEFINE s == Head(todo)
  <2>1. /\ UNCHANGED <<db, dialog, typed>> /\ todo # <<>> /\ s.op = "insert" /\ todo' = Tail(todo)
        /\ work' = [work EXCEPT ![s.table] = Append(@, s.row)]
    BY <1>2 DEF Insert
  <2>2. s \in Statements /\ s \in Range(todo) /\ Range(todo') \subseteq Range(todo)
    <3>1. todo \in Seq(Statements) /\ Len(todo) \in Nat /\ Len(todo) # 0
      BY <2>1, LenProperties, EmptySeq DEF Types
    <3>2. Head(todo) \in Statements /\ Tail(todo) \in Seq(Statements) /\ Len(Tail(todo)) = Len(todo) - 1
          /\ \A i \in 1..Len(Tail(todo)) : Tail(todo)[i] = todo[i + 1]
      BY <2>1, <3>1, HeadTailProperties
    <3>3. Range(todo) = {todo[i] : i \in 1..Len(todo)}
      BY <3>1, RangeEquality
    <3>4. Range(Tail(todo)) = {Tail(todo)[i] : i \in 1..Len(Tail(todo))}
      BY <3>2, RangeEquality
    <3>5. Head(todo) = todo[1] /\ 1 \in 1..Len(todo)
      BY <3>1
    <3>6. \A i \in 1..Len(Tail(todo)) : i + 1 \in 1..Len(todo)
      BY <3>1, <3>2
    <3> QED BY <2>1, <3>2, <3>3, <3>4, <3>5, <3>6
  <2> HIDE DEF s
  <2>3. /\ s.row \in TableRows
        /\ work'.buttons = IF s.table = "buttons" THEN Append(work.buttons, s.row) ELSE work.buttons
    <3>1. work \in Database
      BY DEF Types
    <3>2. /\ s.row \in TableRows
          /\ \A t \in {"users", "groups", "buttons"} :
               [work EXCEPT ![s.table] = Append(@, s.row)][t] = IF t = s.table THEN Append(work[t], s.row) ELSE work[t]
      BY <2>1, <2>2, <3>1, InsertedRow
    <3>3. work'["buttons"] = IF "buttons" = s.table THEN Append(work["buttons"], s.row) ELSE work["buttons"]
      BY <2>1, <3>2
    <3> QED BY <3>2, <3>3
  <2>4. \A r \in Range(work'.buttons) : r \in Range(work.buttons) \/ (s.table = "buttons" /\ r = s.row)
    <3>1. Range(Append(work.buttons, s.row)) = Range(work.buttons) \cup {s.row}
      <4>1. work.buttons \in Seq(TableRows)
        BY DEF Types, Database
      <4> QED BY <2>3, <4>1, RangeOfAppend
    <3> QED BY <2>3, <3>1
  <2>5. \A r \in Range(work'.buttons) : Traceable(typed, r)
    BY <2>2, <2>4 DEF Origins
  <2>6. \A x \in Range(todo') : x.table = "buttons" => Traceable(typed, x.row)
    BY <2>2 DEF Origins
  <2> QED BY <2>1, <2>5, <2>6 DEF Origins, Traceable, HasOrigin
<1>3. CASE Commit(a) \/ Fail(a)
  <2>1. /\ todo' = <<>> /\ UNCHANGED <<dialog, typed>>
        /\ (db' = work /\ work' = work) \/ (db' = db /\ work' = db)
    BY <1>3 DEF Commit, Fail, Answer
  <2>2. Range(<<>>) = {}
    BY DEF Range
  <2> QED BY <2>1, <2>2 DEF Origins, Traceable, HasOrigin
<1> QED BY <1>1, <1>2, <1>3 DEF Service

(* Every step keeps the origins. *)
LEMMA OriginsNext == Types /\ Pending /\ Origins /\ [Next]_vars => Origins'
<1> SUFFICES ASSUME Types, Pending, Origins, [Next]_vars PROVE Origins'
  OBVIOUS
<1>1. CASE UNCHANGED vars
  BY <1>1 DEF vars, Origins, Traceable, HasOrigin
<1>2. ASSUME NEW a \in Admins,
             \/ LoadPage(a) \/ SubmitPage(a) \/ SubmitDialog(a) \/ Dismiss(a)
             \/ \E n \in UserTasks : ChooseUsers(a, n) \/ ChooseGroups(a, n) \/ TypeIds(a, n)
      PROVE  Origins'
  <2>1. UNCHANGED <<db, work, todo, dialog, typed>>
    BY <1>2 DEF LoadPage, SubmitPage, SubmitDialog, Dismiss, ChooseUsers, ChooseGroups, TypeIds, Submit, server
  <2> QED BY <2>1 DEF Origins, Traceable, HasOrigin
<1>3. ASSUME NEW a \in Admins, Page(a) PROVE Origins'
  BY <1>2, <1>3, OriginsOpen, OriginsDialog DEF Page
<1>4. ASSUME NEW a \in Admins, Service(a) PROVE Origins'
  BY <1>4, OriginsService
<1> QED BY <1>1, <1>3, <1>4 DEF Next

(* So every button has one at all times. *)
LEMMA OriginsInvariant == Spec => []Origins
<1> QED BY OriginsInit, OriginsNext, TypesInvariant, PendingInvariant, PTL DEF Spec

(* A stored button was typed by somebody, both cells filled in, in the dialog of *)
(* its task or of one whose id contains its task's.                              *)
THEOREM ButtonsWereTyped == Spec => []ButtonsHaveAnOrigin
<1>1. Origins => ButtonsHaveAnOrigin
  BY DEF Origins, ButtonsHaveAnOrigin, Traceable, HasOrigin, LineOf
<1> QED BY <1>1, OriginsInvariant, PTL

-----------------------------------------------------------------------------
(* What a save of the dialog leaves *)

(* As long as nothing has been saved since the dialog was opened, it holds every *)
(* button of its task, but for those removed in it.                              *)
Known ==
  \A a \in Admins :
    /\ dialog[a].seen <= commits
    /\ dialog[a].task # Nobody /\ dialog[a].seen = commits =>
         \A r \in Range(db.buttons) :
           r.bpmn = dialog[a].task => LineOf(r) \in Range(dialog[a].rows) \cup dialog[a].removed

(* The rows in the beginning *)
LEMMA KnownInit == Init => Known
BY DEF Init, Known, Closed

(* Steps in the dialog of a *)
LEMMA KnownDialog ==
  ASSUME Types, Known, NEW a \in Admins,
         \/ TypeLine(a) \/ RemoveLine(a) \/ CloseDialog(a)
         \/ \E n \in UserTasks : OpenDialog(a, n)
  PROVE  Known'
<1>1. UNCHANGED <<db, commits>> /\ \A b \in Admins \ {a} : dialog'[b] = dialog[b]
  BY DEF TypeLine, RemoveLine, CloseDialog, OpenDialog, server, Types
<1>2. dialog[a] \in Dialogue /\ dialog[a].rows \in Seq(Line) /\ dialog[a].seen \in Nat /\ commits \in Nat
  BY DEF Types, Dialogue
<1>3. SUFFICES /\ dialog'[a].seen <= commits
               /\ dialog'[a].task # Nobody /\ dialog'[a].seen = commits =>
                    \A r \in Range(db.buttons) :
                      r.bpmn = dialog'[a].task => LineOf(r) \in Range(dialog'[a].rows) \cup dialog'[a].removed
  BY <1>1 DEF Known
<1>4. CASE TypeLine(a)
  <2>1. PICK line \in Lines : dialog' = [dialog EXCEPT ![a].rows = Append(@, line)]
    BY <1>4 DEF TypeLine
  <2>2. line \in Line
    BY TaskConfigAssumption DEF Line
  <2>3. /\ dialog'[a].rows = Append(dialog[a].rows, line) /\ dialog'[a].task = dialog[a].task
        /\ dialog'[a].seen = dialog[a].seen /\ dialog'[a].removed = dialog[a].removed
    BY <1>2, <2>1 DEF Types, Dialogue
  <2>4. Range(dialog'[a].rows) = Range(dialog[a].rows) \cup {line}
    BY <1>2, <2>2, <2>3, RangeOfAppend
  <2> QED BY <2>3, <2>4 DEF Known
<1>5. CASE RemoveLine(a)
  <2>1. PICK i \in DOMAIN dialog[a].rows :
          dialog' = [dialog EXCEPT ![a].rows = RemoveAt(@, i),
                                   ![a].removed = @ \cup {dialog[a].rows[i]}]
    BY <1>5 DEF RemoveLine
  <2>2. /\ dialog'[a].rows = RemoveAt(dialog[a].rows, i) /\ dialog'[a].task = dialog[a].task
        /\ dialog'[a].seen = dialog[a].seen
        /\ dialog'[a].removed = dialog[a].removed \cup {dialog[a].rows[i]}
    BY <1>2, <2>1 DEF Types, Dialogue
  <2>3. Range(dialog'[a].rows) \cup {dialog[a].rows[i]} = Range(dialog[a].rows)
    <3>1. i \in 1..Len(dialog[a].rows)
      BY <1>2, <2>1, LenProperties
    <3> QED BY <1>2, <2>2, <3>1, RemoveAtProperties
  <2>4. Range(dialog[a].rows) \cup dialog[a].removed \subseteq Range(dialog'[a].rows) \cup dialog'[a].removed
    BY <2>2, <2>3
  <2> QED BY <2>2, <2>4 DEF Known
<1>6. CASE CloseDialog(a)
  <2>1. dialog'[a] = Closed
    BY <1>6 DEF CloseDialog, Types
  <2> QED BY <1>2, <2>1 DEF Closed
<1>7. ASSUME NEW n \in UserTasks, OpenDialog(a, n)
      PROVE  /\ dialog'[a].seen <= commits
             /\ \A r \in Range(db.buttons) : r.bpmn = dialog'[a].task => LineOf(r) \in Range(dialog'[a].rows)
  <2> DEFINE rows  == ShownButtons(db.buttons, n)
             lines == [i \in DOMAIN rows |-> [title |-> rows[i].name, value |-> rows[i].id]]
  <2>1. dialog' = [dialog EXCEPT ![a] = [task |-> n, removed |-> {}, seen |-> commits, rows |-> lines]]
    BY <1>7 DEF OpenDialog
  <2>2. rows \in Seq(TableRows) /\ Range(rows) = {r \in Range(db.buttons) : r.bpmn \in Within[n]}
    BY ShownButtonsType DEF Types, Database
  <2>3. Range(lines) = {LineOf(r) : r \in Range(rows)}
    BY <2>2, LinesType DEF LineOf
  <2> HIDE DEF lines, rows
  <2>4. n \in Within[n]
    BY TaskConfigAssumption
  <2>5. dialog'[a].task = n /\ dialog'[a].seen = commits /\ dialog'[a].rows = lines
    BY <2>1 DEF Types
  <2> QED BY <1>2, <2>2, <2>3, <2>4, <2>5
<1> QED BY <1>4, <1>5, <1>6, <1>7

(* Every step keeps what the dialog knows. *)
LEMMA KnownNext == Types /\ Known /\ [Next]_vars => Known'
<1> SUFFICES ASSUME Types, Known, [Next]_vars PROVE Known'
  OBVIOUS
<1>1. CASE UNCHANGED vars
  BY <1>1 DEF vars, Known
<1>2. ASSUME NEW a \in Admins,
             \/ LoadPage(a) \/ SubmitPage(a) \/ SubmitDialog(a) \/ Dismiss(a)
             \/ \E n \in UserTasks : ChooseUsers(a, n) \/ ChooseGroups(a, n) \/ TypeIds(a, n)
             \/ Begin(a) \/ Insert(a) \/ Fail(a)
      PROVE  Known'
  <2>1. UNCHANGED <<db, dialog, commits>>
    BY <1>2 DEF LoadPage, SubmitPage, SubmitDialog, Dismiss, ChooseUsers, ChooseGroups, TypeIds, Submit, server,
                Begin, Insert, Fail, Answer
  <2> QED BY <2>1 DEF Known
<1>3. ASSUME NEW a \in Admins, Commit(a) PROVE Known'
  <2>1. dialog' = dialog /\ commits' = commits + 1 /\ commits \in Nat
    BY <1>3 DEF Commit, Answer, Types
  <2>2. \A b \in Admins : dialog'[b].seen \in Nat /\ dialog'[b].seen <= commits
    BY <2>1 DEF Known, Types, Dialogue
  <2>3. \A b \in Admins : dialog'[b].seen <= commits' /\ dialog'[b].seen # commits'
    BY <2>1, <2>2
  <2> QED BY <2>3 DEF Known
<1> QED BY <1>1, <1>2, <1>3, KnownDialog DEF Next, Page, Service

(* So it holds at all times. *)
LEMMA KnownInvariant == Spec => []Known
<1> QED BY KnownInit, KnownNext, TypesInvariant, PTL DEF Spec

(* A commit of the dialog of a *)
LEMMA CommitKeepsButtons ==
  ASSUME Types, Saving, Pending, Origins, Known, NEW a \in Admins, Commit(a),
         request[a].kind = "buttons", dialog[a].seen = commits,
         NEW r \in Range(RowsOf(db.buttons, dialog[a].task))
  PROVE  \/ r \in Range(RowsOf(db'.buttons, dialog[a].task))
         \/ LineOf(r) \in dialog[a].removed
<1> DEFINE req == request[a]
           d   == dialog[a]
<1>1. /\ req \in ConfigSave \cup ButtonSave /\ req.inserts \in Seq(Statements)
      /\ \A t \in TableNames : db'[t] = DeleteOld(db, req)[t] \o Inserted(req.inserts, t)
  BY Committed
<1>2. req \in ButtonSave /\ req.task = d.task /\ req.inserts = InsertButtons(d.task, Complete(d.rows))
  BY <1>1 DEF Pending, ConfigSave
<1>3. d \in Dialogue /\ d.rows \in Seq(Line) /\ d.task \in UserTasks /\ d.task # Nobody
  BY <1>2, TaskConfigAssumption DEF ButtonSave, Types, Dialogue
<1>4. db \in Database /\ db' \in Database /\ db.buttons \in Seq(TableRows) /\ db'.buttons \in Seq(TableRows)
  BY DEF Commit, Types, Database
<1>5. r \in Range(db.buttons) /\ r.bpmn = d.task /\ r \in TableRows
  BY <1>4, RowsOfType, RangeOfSeq
<1>6. Traceable(typed, r)
  BY <1>5 DEF Origins
<1>7. SUFFICES ASSUME LineOf(r) \notin d.removed PROVE r \in Range(db'.buttons)
  BY <1>4, <1>5, RowsOfType
<1>8. LineOf(r) \in Range(d.rows)
  BY <1>3, <1>5, <1>7 DEF Known
<1> HIDE DEF req, d
<1>9. LineOf(r) \in Range(Complete(d.rows)) /\ Complete(d.rows) \in Seq(Line)
  <2>1. LineOf(r).title = r.name /\ LineOf(r).value = r.id
    BY DEF LineOf
  <2> QED BY <1>3, <1>6, <1>8, <2>1, CompleteType DEF Traceable
<1> DEFINE s == InsertRow("buttons", [bpmn |-> d.task, id |-> LineOf(r).value, name |-> LineOf(r).title])
<1>10. s \in Range(req.inserts)
  <2>1. Range(req.inserts) =
          {InsertRow("buttons", [bpmn |-> d.task, id |-> l.value, name |-> l.title]) : l \in Range(Complete(d.rows))}
    BY <1>2, <1>3, <1>9, InsertButtonsType
  <2> QED BY <1>9, <2>1
<1>11. s.table = "buttons" /\ s.row = r
  BY <1>5 DEF InsertRow, LineOf, TableRows
<1> HIDE DEF s
<1>12. /\ Inserted(req.inserts, "buttons") \in Seq(TableRows)
       /\ r \in Range(Inserted(req.inserts, "buttons"))
  <2>1. /\ Inserted(req.inserts, "buttons") \in Seq(TableRows)
        /\ Range(Inserted(req.inserts, "buttons")) = {x.row : x \in {y \in Range(req.inserts) : y.table = "buttons"}}
    BY <1>1, InsertedRows DEF TableNames
  <2> QED BY <1>10, <1>11, <2>1
<1> DEFINE base == DeleteOld(db, req).buttons
           ins  == Inserted(req.inserts, "buttons")
<1>13. db'.buttons = base \o ins /\ base \in Seq(TableRows)
  <2>1. DeleteOld(db, req) \in Database
    BY <1>4, DeleteOldType
  <2> QED BY <1>1, <2>1 DEF TableNames, Database
<1> HIDE DEF base
<1>14. Range(base \o ins) = Range(base) \cup Range(ins)
  BY <1>12, <1>13, RangeConcatenation
<1> QED BY <1>12, <1>13, <1>14

(* If nobody else has saved since the dialog was opened, its save drops no button *)
(* of the task that was not removed in it: the lines the server sent come back.   *)
THEOREM DialogKeepsButtons == Spec => OwnButtonsSurvive
<1>1. Types /\ Saving /\ Pending /\ Origins /\ Known /\ [Next]_vars
        => [\A a \in Admins : LosesOnlyRemoved(a)]_vars
  <2> SUFFICES ASSUME Types, Saving, Pending, Origins, Known, Next,
                      NEW a \in Admins, writer = a, commits' = commits + 1,
                      request[a].kind = "buttons", dialog[a].seen = commits,
                      NEW r \in Range(RowsOf(db.buttons, dialog[a].task))
               PROVE  \/ r \in Range(RowsOf(db'.buttons, dialog[a].task))
                      \/ LineOf(r) \in dialog[a].removed
    BY DEF LosesOnlyRemoved, LineOf
  <2>1. Commit(a)
    <3>1. PICK b \in Admins : Page(b) \/ Service(b)
      BY DEF Next
    <3>2. commits' # commits
      BY DEF Types
    <3>3. ~Page(b)
      BY <3>2, PageLeavesServer DEF server
    <3>4. ~(Begin(b) \/ Insert(b) \/ Fail(b))
      BY <3>2 DEF Begin, Insert, Fail
    <3> QED BY <3>1, <3>3, <3>4 DEF Service, Commit
  <2> QED BY <2>1, CommitKeepsButtons
<1> QED BY <1>1, TypesInvariant, SavingInvariant, PendingInvariant, OriginsInvariant, KnownInvariant, PTL
        DEF Spec, OwnButtonsSurvive

=============================================================================

-------------------------- MODULE NodeCellsProofs --------------------------
(* Proofs about the cells of the node page, for any tasks, selections, texts *)
(* and numbers of dialogs and tables that are asked for.                     *)
EXTENDS NodeCellsProps, DialogsProofs

-----------------------------------------------------------------------------
(* The cells *)

(* Other ids in one cell. *)
LEMMA IdsTyped ==
  ASSUME NEW c \in CellTables, NEW t \in Tasks, NEW k \in Kinds, NEW x \in Texts(k)
  PROVE  [c EXCEPT ![t][k].ids = x] \in CellTables
BY DEF CellTables

(* A whole selection in one cell. *)
LEMMA PairTyped ==
  ASSUME NEW c \in CellTables, NEW t \in Tasks, NEW k \in Kinds, NEW x \in Selections[k]
  PROVE  [c EXCEPT ![t][k] = [ids |-> x, names |-> x]] \in CellTables
<1>1. x \in Texts(k)
  BY DEF Texts
<1>2. ASSUME NEW pair \in [ids : Texts(k), names : Texts(k)]
      PROVE  [c EXCEPT ![t][k] = pair] \in CellTables
  BY DEF CellTables
<1>3. QED
  BY <1>1, <1>2

(* Writing back what is there changes nothing. *)
LEMMA SameIds ==
  ASSUME NEW c \in CellTables, NEW t \in Tasks, NEW k \in Kinds
  PROVE  [c EXCEPT ![t][k].ids = c[t][k].ids] = c
BY DEF CellTables

(* The input, while there is one, holds what was typed or what its cell holds, and *)
(* no dialog is open: what is written back when the focus leaves it is not stale.  *)
InputCurrent ==
  input # NoInput =>
    /\ input.text \in Typed \/ input.text = cells[input.task][input.kind].ids
    /\ \A k \in Kinds : NoneOpen(dialogs[k])

Inv == TypeOK /\ InputCurrent

(* An input belongs to a cell. *)
LEMMA InputTyped ==
  ASSUME TypeOK, input # NoInput
  PROVE  input.task \in Tasks /\ input.kind \in Kinds /\ input.text \in Texts(input.kind)
BY DEF TypeOK, Inputs

(* A table that differs from the cells by what was typed into one of them. *)
TypedInto(table2, t, k) == \E x \in Typed : table2 = [cells EXCEPT ![t][k].ids = x]

(* The focus leaves the input: a cell is typed into, or nothing changes. *)
LEMMA BlurTypes ==
  ASSUME Inv
  PROVE  /\ Blurred \in CellTables
         /\ \/ Blurred = cells
            \/ \E t \in Tasks, k \in Kinds : TypedInto(Blurred, t, k)
<1>1. CASE input = NoInput
  BY <1>1 DEF Blurred, Inv, TypeOK
<1>2. CASE input # NoInput
  <2>1. input.task \in Tasks /\ input.kind \in Kinds /\ input.text \in Texts(input.kind)
    BY <1>2, InputTyped DEF Inv
  <2>2. Blurred = [cells EXCEPT ![input.task][input.kind].ids = input.text]
    BY <1>2 DEF Blurred
  <2>3. Blurred \in CellTables
    BY <2>1, <2>2, IdsTyped DEF Inv, TypeOK
  <2>4. CASE input.text \in Typed
    <3>1. TypedInto(Blurred, input.task, input.kind)
      BY <2>2, <2>4 DEF TypedInto
    <3>2. QED
      BY <2>1, <2>3, <3>1
  <2>5. CASE input.text = cells[input.task][input.kind].ids
    <3>1. cells \in CellTables
      BY DEF Inv, TypeOK
    <3>2. Blurred = [cells EXCEPT ![input.task][input.kind].ids = cells[input.task][input.kind].ids]
      BY <2>2, <2>5
    <3>3. Blurred = cells
      BY <2>1, <3>1, <3>2, SameIds
    <3>4. QED
      BY <3>1, <3>3
  <2>6. QED
    BY <1>2, <2>4, <2>5 DEF Inv, InputCurrent
<1>3. QED
  BY <1>1, <1>2

(* A selection goes to a cell of its kind as a whole, or nowhere. *)
LEMMA ChosenTypes ==
  ASSUME TypeOK, NEW cb \in Calls, NEW k \in Kinds, NEW c \in Selections[k]
  PROVE  /\ Chosen(cb, k, c) \in CellTables
         /\ \/ Chosen(cb, k, c) = cells
            \/ Chosen(cb, k, c) = [cells EXCEPT ![cb.task][k] = [ids |-> c, names |-> c]]
<1>1. cb.task \in Tasks
  BY DEF Calls
<1>2. QED
  BY <1>1, PairTyped DEF Chosen, TypeOK

-----------------------------------------------------------------------------
(* Types *)

(* At the beginning, and where nothing changes. *)
LEMMA InitTyped == Init => Inv
<1> SUFFICES ASSUME Init PROVE Inv
  OBVIOUS
<1>1. <<>> \in Seq(Popup(Calls))
  BY EmptySeq
<1>2. dialogs \in [Kinds -> Seq(Popup(Calls))]
  BY <1>1 DEF Init
<1>3. MaxSends \in Nat /\ Stored \in CellTables
  BY NodeCellsAssumption
<1>4. TypeOK
  <2>1. history \in [doubled : BOOLEAN, astray : BOOLEAN]
    BY DEF Init
  <2>2. cells \in CellTables /\ input \in Inputs \cup {NoInput} /\ sends \in 0..MaxSends
    BY <1>3 DEF Init
  <2>3. QED
    BY <1>2, <2>1, <2>2 DEF Init, TypeOK
<1>5. QED
  BY <1>4 DEF Inv, InputCurrent, Init

(* A dialog is closed: the rest is in the document. *)
LEMMA HideTyped ==
  ASSUME TypeOK, NEW k \in Kinds, NEW i \in DOMAIN dialogs[k], Hide(k, i)
  PROVE  /\ dialogs' \in [Kinds -> Seq(Popup(Calls))]
         /\ stuck' \in BOOLEAN
         /\ listing' \subseteq [from : Nat, into : Nat]
         /\ listed' \subseteq Nat
<1>1. dialogs[k] \in Seq(Popup(Calls))
  BY DEF TypeOK
<1>2. Hidden(dialogs[k], i) \in Seq(Popup(Calls))
  BY <1>1, HiddenTyped
<1>3. stuck' \in BOOLEAN
  BY DEF Hide, LeavesBackdrop, TypeOK
<1>4. QED
  BY <1>2, <1>3 DEF Hide, TypeOK

(* A dialog arrives. *)
LEMMA PlaceTyped ==
  ASSUME TypeOK, NEW d \in coming
  PROVE  /\ d.kind \in Kinds
         /\ Place(d) \in Seq(Popup(Calls))
         /\ [from |-> d.div, into |-> Place(d)[1].div] \in [from : Nat, into : Nat]
<1>1. d.div \in Nat /\ d.kind \in Kinds /\ [task |-> d.task, rendering |-> d.rendering] \in Calls
  BY DEF TypeOK, Calls
<1>2. dialogs[d.kind] \in Seq(Popup(Calls))
  BY <1>1 DEF TypeOK
<1>3. Place(d) \in Seq(Popup(Calls)) /\ Place(d) # <<>>
  BY <1>1, <1>2, OpenedTyped DEF Place
<1>4. Place(d)[1] \in Popup(Calls)
  BY <1>3, EmptySeq, ElementOfSeq
<1>5. QED
  BY <1>1, <1>3, <1>4 DEF Popup

(* Every step keeps the types. *)
LEMMA StepKeepsTypes ==
  ASSUME Inv, [Next]_vars
  PROVE  TypeOK'
<1> USE DEF Inv
<1>1. ASSUME NEW t \in Tasks, NEW k \in Kinds, ClickCell(t, k)
      PROVE  TypeOK'
  <2>1. Blurred \in CellTables
    BY BlurTypes
  <2>2. Blurred[t][k].ids \in Texts(k)
    BY <2>1 DEF CellTables
  <2>3. input' \in Inputs
    BY <1>1, <2>2 DEF ClickCell, Inputs
  <2>4. QED
    BY <1>1, <2>1, <2>3 DEF ClickCell, TypeOK, popups
<1>2. ASSUME NEW text \in Typed, TypeText(text)
      PROVE  TypeOK'
  <2>1. input.task \in Tasks /\ input.kind \in Kinds /\ input \in Inputs
    BY <1>2, InputTyped DEF TypeText, TypeOK
  <2>2. text \in Texts(input.kind)
    BY DEF Texts
  <2>3. input' \in Inputs
    BY <1>2, <2>1, <2>2 DEF TypeText, Inputs
  <2>4. QED
    BY <1>2, <2>3 DEF TypeText, TypeOK, popups, table
<1>3. CASE Leave
  BY <1>3, BlurTypes DEF Leave, TypeOK, popups
<1>4. CASE ClickInput
  <2>1. input.task \in Tasks /\ input.kind \in Kinds /\ sends + 1 \in 0..MaxSends
    BY <1>4, InputTyped, NodeCellsAssumption DEF ClickInput, TypeOK
  <2>2. [div |-> sends + 1, kind |-> input.kind, task |-> input.task, rendering |-> rendering]
          \in [div : Nat, kind : Kinds, task : Tasks, rendering : Nat]
    BY <2>1 DEF TypeOK
  <2>3. coming' \subseteq [div : Nat, kind : Kinds, task : Tasks, rendering : Nat]
    BY <1>4, <2>2 DEF ClickInput, TypeOK
  <2>4. history' \in [doubled : BOOLEAN, astray : BOOLEAN]
    BY <1>4 DEF ClickInput, TypeOK
  <2>5. QED
    BY <1>4, <2>1, <2>3, <2>4 DEF ClickInput, TypeOK, table
<1>5. CASE ClickTab
  BY <1>5, BlurTypes, NodeCellsAssumption DEF ClickTab, TypeOK, popups
<1>6. CASE TableArrives
  BY <1>6, NodeCellsAssumption DEF TableArrives, TypeOK, popups
<1>7. ASSUME NEW d \in coming, DialogArrives(d)
      PROVE  TypeOK'
  BY <1>7, BlurTypes, PlaceTyped DEF DialogArrives, TypeOK
<1>8. ASSUME NEW d \in coming, DialogFails(d)
      PROVE  TypeOK'
  BY <1>8 DEF DialogFails, TypeOK, table
<1>9. ASSUME NEW l \in listing, ListArrives(l)
      PROVE  TypeOK'
  BY <1>9 DEF ListArrives, TypeOK, table
<1>10. ASSUME NEW k \in Kinds, NEW i \in DOMAIN dialogs[k], Cancel(k, i)
       PROVE  TypeOK'
  BY <1>10, HideTyped DEF Cancel, TypeOK, table
<1>11. ASSUME NEW k \in Kinds, NEW i \in DOMAIN dialogs[k], NEW c \in Selections[k], Submit(k, i, c)
       PROVE  TypeOK'
  <2>1. dialogs[k][1] \in Popup(Calls) /\ 1 \in DOMAIN dialogs[k] /\ dialogs[k][i] \in Popup(Calls)
    BY FirstTyped DEF TypeOK
  <2>2. cells' \in CellTables
    <3>1. dialogs[k][1].callback \in Calls
      BY <2>1 DEF Popup
    <3>2. Chosen(dialogs[k][1].callback, k, c) \in CellTables
      BY <3>1, ChosenTypes
    <3>3. cells' = Chosen(dialogs[k][1].callback, k, c) \/ cells' = cells
      BY <1>11 DEF Submit
    <3>4. QED
      BY <3>2, <3>3 DEF TypeOK
  <2>3. history' \in [doubled : BOOLEAN, astray : BOOLEAN]
    BY <1>11 DEF Submit, TypeOK
  <2>4. /\ dialogs' \in [Kinds -> Seq(Popup(Calls))]
        /\ stuck' \in BOOLEAN
        /\ listing' \subseteq [from : Nat, into : Nat]
        /\ listed' \subseteq Nat
    BY <1>11, <2>1, HideTyped DEF Submit, TypeOK
  <2>5. QED
    BY <1>11, <2>2, <2>3, <2>4 DEF Submit, TypeOK
<1>12. CASE UNCHANGED vars
  BY <1>12 DEF vars, TypeOK
<1>13. QED
  BY <1>1, <1>2, <1>3, <1>4, <1>5, <1>6, <1>7, <1>8, <1>9, <1>10, <1>11, <1>12
  DEF Next, ClickUserCell, ClickGroupCell, SubmitUsers, SubmitGroups, Kinds

-----------------------------------------------------------------------------
(* What the input holds *)

(* An open dialog and an input exclude one another. *)
LEMMA NoInputUnderDialog ==
  ASSUME Inv, NEW k \in Kinds, NEW i \in DOMAIN dialogs[k], OnTop(k, i)
  PROVE  input = NoInput
BY DEF Inv, InputCurrent, OnTop, NoneOpen

(* Every step keeps what is known of the inputs. *)
LEMMA StepKeepsInput ==
  ASSUME Inv, [Next]_vars
  PROVE  InputCurrent'
<1>1. ASSUME NEW t \in Tasks, NEW k \in Kinds, ClickCell(t, k)
      PROVE  InputCurrent'
  BY <1>1 DEF ClickCell, InputCurrent, Usable, NoneOpen, popups
<1>2. ASSUME NEW text \in Typed, TypeText(text)
      PROVE  InputCurrent'
  <2>1. input \in Inputs
    BY <1>2 DEF TypeText, Inv, TypeOK
  <2>2. input'.text = text
    BY <1>2, <2>1 DEF TypeText, Inputs
  <2>3. QED
    BY <1>2, <2>2 DEF TypeText, InputCurrent, Usable, NoneOpen, popups
<1>3. CASE Leave
  BY <1>3 DEF Leave, InputCurrent
<1>4. CASE ClickInput
  BY <1>4 DEF ClickInput, InputCurrent, NoneOpen, table, Inv
<1>5. CASE ClickTab
  BY <1>5 DEF ClickTab, InputCurrent
<1>6. CASE TableArrives
  BY <1>6 DEF TableArrives, InputCurrent
<1>7. ASSUME NEW d \in coming, DialogArrives(d)
      PROVE  InputCurrent'
  BY <1>7 DEF DialogArrives, InputCurrent
<1>8. ASSUME NEW d \in coming, DialogFails(d)
      PROVE  InputCurrent'
  BY <1>8 DEF DialogFails, InputCurrent, NoneOpen, table, Inv
<1>9. ASSUME NEW l \in listing, ListArrives(l)
      PROVE  InputCurrent'
  BY <1>9 DEF ListArrives, InputCurrent, NoneOpen, table, Inv
<1>10. ASSUME NEW k \in Kinds, NEW i \in DOMAIN dialogs[k], Cancel(k, i)
       PROVE  InputCurrent'
  BY <1>10, NoInputUnderDialog DEF Cancel, InputCurrent, NoInput
<1>11. ASSUME NEW k \in Kinds, NEW i \in DOMAIN dialogs[k], NEW c \in Selections[k], Submit(k, i, c)
       PROVE  InputCurrent'
  BY <1>11, NoInputUnderDialog DEF Submit, InputCurrent, NoInput
<1>12. CASE UNCHANGED vars
  BY <1>12 DEF vars, InputCurrent, NoneOpen, Inv
<1>13. QED
  BY <1>1, <1>2, <1>3, <1>4, <1>5, <1>6, <1>7, <1>8, <1>9, <1>10, <1>11, <1>12
  DEF Next, ClickUserCell, ClickGroupCell, SubmitUsers, SubmitGroups, Kinds

(* So both hold at all times. *)
LEMMA Invariant == Spec => []Inv
<1>1. Inv /\ [Next]_vars => Inv'
  BY StepKeepsTypes, StepKeepsInput DEF Inv
<1>2. QED
  BY <1>1, InitTyped, PTL DEF Spec

(* Every variable keeps its type: no cell ever holds a choice of the other kind. *)
THEOREM TypeCorrect == Spec => []TypeOK
BY Invariant, PTL DEF Inv

-----------------------------------------------------------------------------
(* The cells implement Cells *)

(* Every step is one of the cells, or leaves them alone. *)
LEMMA StepImplements ==
  ASSUME Inv, [Next]_vars
  PROVE  [C!Next]_(C!vars)
<1> USE DEF C!vars, C!Next, C!Choose, C!Type, C!Load, C!Pair
<1>1. ASSUME cells' = Blurred
      PROVE  [C!Next]_(C!vars)
  BY <1>1, BlurTypes DEF TypedInto
<1>2. ASSUME NEW t \in Tasks, NEW k \in Kinds, ClickCell(t, k)
      PROVE  [C!Next]_(C!vars)
  BY <1>1, <1>2 DEF ClickCell
<1>3. ASSUME NEW text \in Typed, TypeText(text)
      PROVE  [C!Next]_(C!vars)
  BY <1>3 DEF TypeText, table
<1>4. CASE Leave \/ ClickTab
  BY <1>1, <1>4 DEF Leave, ClickTab
<1>5. CASE ClickInput
  BY <1>5 DEF ClickInput, table
<1>6. CASE TableArrives
  BY <1>6 DEF TableArrives
<1>7. ASSUME NEW d \in coming, DialogArrives(d)
      PROVE  [C!Next]_(C!vars)
  BY <1>1, <1>7 DEF DialogArrives
<1>8. ASSUME NEW d \in coming, DialogFails(d)
      PROVE  [C!Next]_(C!vars)
  BY <1>8 DEF DialogFails, table
<1>9. ASSUME NEW l \in listing, ListArrives(l)
      PROVE  [C!Next]_(C!vars)
  BY <1>9 DEF ListArrives, table
<1>10. ASSUME NEW k \in Kinds, NEW i \in DOMAIN dialogs[k], Cancel(k, i)
       PROVE  [C!Next]_(C!vars)
  BY <1>10 DEF Cancel, table
<1>11. ASSUME NEW k \in Kinds, NEW i \in DOMAIN dialogs[k], NEW c \in Selections[k], Submit(k, i, c)
       PROVE  [C!Next]_(C!vars)
  <2>1. dialogs[k][1].callback \in Calls /\ dialogs[k][1].callback.task \in Tasks
    BY FirstTyped DEF Inv, TypeOK, Popup, Calls
  <2>2. cells' = Chosen(dialogs[k][1].callback, k, c) \/ cells' = cells
    BY <1>11 DEF Submit
  <2>3. \/ cells' = cells
        \/ cells' = [cells EXCEPT ![dialogs[k][1].callback.task][k] = [ids |-> c, names |-> c]]
    BY <2>1, <2>2, ChosenTypes DEF Inv
  <2>4. QED
    BY <2>1, <2>3
<1>12. CASE UNCHANGED vars
  BY <1>12 DEF vars
<1>13. QED
  BY <1>2, <1>3, <1>4, <1>5, <1>6, <1>7, <1>8, <1>9, <1>10, <1>11, <1>12
  DEF Next, ClickUserCell, ClickGroupCell, SubmitUsers, SubmitGroups, Kinds

(* Whatever arrives when, a cell changes by a whole choice, by typing, or by a table *)
(* that is loaded (bpmn.js:20-21, 68-72).                                            *)
THEOREM CellsImplemented == Spec => ImplementsCells
<1>1. Init => C!Init
  BY DEF Init, C!Init
<1>2. Inv /\ [Next]_vars => [C!Next]_(C!vars)
  BY StepImplements
<1>3. QED
  BY <1>1, <1>2, Invariant, PTL DEF Spec, ImplementsCells, C!Spec

(* So the ids and the names of a cell never come from two different choices. *)
THEOREM NamesAgree == Spec => []NamesMatchIds
<1>1. Init => NamesMatchIds
  BY DEF Init, NamesMatchIds
<1>2. Inv /\ NamesMatchIds /\ [Next]_vars => NamesMatchIds'
  <2> SUFFICES ASSUME Inv, NamesMatchIds, [Next]_vars, NEW t \in Tasks, NEW k \in Kinds
               PROVE  \/ cells'[t][k].ids \in Typed
                      \/ cells'[t][k].ids = cells'[t][k].names
                      \/ cells'[t][k] = Stored[t][k]
    BY DEF NamesMatchIds
  <2>1. [C!Next]_(C!vars)
    BY StepImplements
  <2>2. cells \in CellTables
    BY DEF Inv, TypeOK
  <2>3. ASSUME NEW t2 \in Tasks, NEW k2 \in Kinds, C!Choose(t2, k2)
        PROVE  cells'[t][k].ids = cells'[t][k].names \/ cells'[t][k] = cells[t][k]
    BY <2>2, <2>3 DEF C!Choose, C!Pair, CellTables
  <2>4. ASSUME NEW t2 \in Tasks, NEW k2 \in Kinds, C!Type(t2, k2)
        PROVE  cells'[t][k].ids \in Typed \/ cells'[t][k] = cells[t][k]
    BY <2>2, <2>4 DEF C!Type, CellTables
  <2>5. CASE C!Load
    BY <2>5 DEF C!Load
  <2>6. CASE UNCHANGED C!vars
    BY <2>6 DEF C!vars, NamesMatchIds
  <2>7. QED
    BY <2>1, <2>3, <2>4, <2>5, <2>6 DEF C!Next, NamesMatchIds
<1>3. QED
  BY <1>1, <1>2, Invariant, PTL DEF Spec

-----------------------------------------------------------------------------
(* Where a choice goes *)

(* Unless two dialogs of a kind were asked for at once there is one at most, on its *)
(* way or open; its script has run once, and its callback is its own.               *)
Lone ==
  ~history.doubled => \A k \in Kinds :
    /\ \A d, e \in coming : d.kind = k /\ e.kind = k => d = e
    /\ \A d \in coming : d.kind = k => dialogs[k] = <<>>
    /\ dialogs[k] # <<>> =>
         /\ Len(dialogs[k]) = 1
         /\ dialogs[k][1].open
         /\ dialogs[k][1].handlers = 1
         /\ dialogs[k][1].callback = dialogs[k][1].for

(* Every step keeps the dialogs alone. *)
LEMMA StepKeepsLone ==
  ASSUME Inv, Lone, [Next]_vars
  PROVE  Lone'
<1> USE DEF Lone
<1>1. CASE /\ UNCHANGED <<dialogs, history>>
           /\ coming' \subseteq coming
  BY <1>1
<1>2. CASE ClickInput
  <2>1. input.kind \in Kinds /\ \A k \in Kinds : NoneOpen(dialogs[k])
    BY <1>2, InputTyped DEF ClickInput, Usable, Inv
  <2>2. ~history'.doubled => ~history.doubled /\ \A d \in coming : d.kind # input.kind
    BY <1>2 DEF ClickInput, Inv, TypeOK
  <2>3. ~history.doubled => \A k \in Kinds : dialogs[k] = <<>>
    <3> SUFFICES ASSUME ~history.doubled, NEW k \in Kinds, dialogs[k] # <<>>
                 PROVE  FALSE
      OBVIOUS
    <3>1. dialogs[k] \in Seq(Popup(Calls))
      BY DEF Inv, TypeOK
    <3>2. 1 \in DOMAIN dialogs[k]
      BY <3>1, LenProperties
    <3>3. QED
      BY <2>1, <3>2 DEF NoneOpen
  <2>4. dialogs' = dialogs /\ \E d : d.kind = input.kind /\ coming' = coming \cup {d}
    BY <1>2 DEF ClickInput
  <2>5. QED
    BY <2>1, <2>2, <2>3, <2>4
<1>3. ASSUME NEW d \in coming, DialogArrives(d)
      PROVE  Lone'
  <2> SUFFICES ASSUME ~history.doubled, NEW k \in Kinds
               PROVE  /\ \A e, f \in coming' : e.kind = k /\ f.kind = k => e = f
                      /\ \A e \in coming' : e.kind = k => dialogs'[k] = <<>>
                      /\ dialogs'[k] # <<>> =>
                           /\ Len(dialogs'[k]) = 1
                           /\ dialogs'[k][1].open
                           /\ dialogs'[k][1].handlers = 1
                           /\ dialogs'[k][1].callback = dialogs'[k][1].for
    BY <1>3 DEF DialogArrives
  <2>1. coming' = coming \ {d} /\ dialogs' = [dialogs EXCEPT ![d.kind] = Place(d)]
    BY <1>3 DEF DialogArrives
  <2>2. dialogs' \in [Kinds -> Seq(Popup(Calls))] /\ dialogs \in [Kinds -> Seq(Popup(Calls))]
    BY <1>3, StepKeepsTypes DEF TypeOK, Inv
  <2>3. CASE k # d.kind
    BY <2>1, <2>2, <2>3
  <2>4. CASE k = d.kind
    <3>1. dialogs[k] = <<>> /\ \A e \in coming' : e.kind # k
      BY <2>1, <2>4
    <3> DEFINE call == [task |-> d.task, rendering |-> d.rendering]
    <3>2. d.div \in Nat /\ call \in Calls
      BY DEF Inv, TypeOK, Calls
    <3>3. dialogs'[k] = Opened(<<>>, d.div, call)
      BY <2>1, <2>2, <2>4, <3>1 DEF Place
    <3> HIDE DEF call
    <3>4. /\ Len(dialogs'[k]) = 1
          /\ dialogs'[k][1].open
          /\ dialogs'[k][1].handlers = 1
          /\ dialogs'[k][1].callback = dialogs'[k][1].for
      BY <3>2, <3>3, OpenedFirst
    <3>5. QED
      BY <3>1, <3>4
  <2>5. QED
    BY <2>3, <2>4
<1>4. ASSUME NEW k \in Kinds, NEW i \in DOMAIN dialogs[k], Hide(k, i), coming' = coming,
             history'.doubled = history.doubled
      PROVE  Lone'
  <2> SUFFICES ASSUME ~history.doubled
               PROVE  Lone'
    BY <1>4
  <2>1. dialogs[k] \in Seq(Popup(Calls)) /\ dialogs \in [Kinds -> Seq(Popup(Calls))]
    BY DEF Inv, TypeOK
  <2>2. i = 1 /\ Len(dialogs[k]) = 1 /\ dialogs[k][1].handlers = 1
    BY <2>1, LenProperties, EmptySeq
  <2>3. dialogs' = [dialogs EXCEPT ![k] = <<>>]
    BY <1>4, <2>1, <2>2, LoneHidden DEF Hide
  <2>4. QED
    BY <1>4, <2>1, <2>3
<1>5. ASSUME NEW k \in Kinds, NEW i \in DOMAIN dialogs[k], NEW c \in Selections[k], Submit(k, i, c)
      PROVE  Lone'
  <2>1. history'.doubled = history.doubled /\ coming' = coming
    BY <1>5 DEF Submit, Inv, TypeOK
  <2>2. 1 \in DOMAIN dialogs[k]
    BY FirstTyped DEF Inv, TypeOK
  <2>3. Hide(k, 1) \/ dialogs' = dialogs
    BY <1>5 DEF Submit
  <2>4. QED
    BY <1>4, <2>1, <2>2, <2>3
<1>6. QED
  BY <1>1, <1>2, <1>3, <1>4, <1>5
  DEF Next, ClickUserCell, ClickGroupCell, SubmitUsers, SubmitGroups, Kinds, vars, ClickCell, TypeText,
      Leave, ClickTab, TableArrives, DialogFails, ListArrives, Cancel, popups

(* A choice goes to the task its dialog was asked for, unless two dialogs of the kind *)
(* were asked for at once (bpmn.js:12, choose.js:9-33).                               *)
THEOREM ChoicesLand == Spec => []LandsWhereAsked
<1>1. Init => Lone /\ LandsWhereAsked
  BY DEF Init, Lone, LandsWhereAsked
<1>2. Inv /\ Lone /\ LandsWhereAsked /\ [Next]_vars => LandsWhereAsked'
  <2> SUFFICES ASSUME Inv, Lone, LandsWhereAsked, [Next]_vars
               PROVE  LandsWhereAsked'
    OBVIOUS
  <2>1. ASSUME NEW k \in Kinds, NEW i \in DOMAIN dialogs[k], NEW c \in Selections[k], Submit(k, i, c)
        PROVE  LandsWhereAsked'
    <3>1. CASE history.doubled
      BY <2>1, <3>1 DEF Submit, LandsWhereAsked, Inv, TypeOK
    <3>2. CASE ~history.doubled
      <4>1. dialogs[k] \in Seq(Popup(Calls))
        BY DEF Inv, TypeOK
      <4>2. i = 1 /\ dialogs[k][1].callback = dialogs[k][1].for
        BY <3>2, <4>1, LenProperties, EmptySeq DEF Lone
      <4>3. ~history.astray
        BY <3>2 DEF LandsWhereAsked
      <4>4. ~history'.astray
        BY <2>1, <4>2, <4>3 DEF Submit, Inv, TypeOK
      <4>5. QED
        BY <4>4 DEF LandsWhereAsked
    <3>3. QED
      BY <3>1, <3>2
  <2>2. CASE ClickInput
    BY <2>2 DEF ClickInput, LandsWhereAsked, Inv, TypeOK
  <2>3. CASE UNCHANGED history
    BY <2>3 DEF LandsWhereAsked
  <2>4. QED
    BY <2>1, <2>2, <2>3
    DEF Next, ClickUserCell, ClickGroupCell, SubmitUsers, SubmitGroups, Kinds, vars, ClickCell, TypeText,
        Leave, ClickTab, TableArrives, DialogArrives, DialogFails, ListArrives, Cancel
<1>3. Inv /\ Lone /\ [Next]_vars => Lone'
  BY StepKeepsLone
<1>4. QED
  BY <1>1, <1>2, <1>3, Invariant, PTL DEF Spec

=============================================================================

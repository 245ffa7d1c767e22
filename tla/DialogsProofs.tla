--------------------------- MODULE DialogsProofs ---------------------------
(* Lemmas about the dialogs in the document, whatever their callbacks are. *)
EXTENDS Dialogs, SequenceTheorems, FiniteSetTheorems, TLAPS

(* The number of dialogs before a <div> is an index, or 0. *)
LEMMA BeforeIsIndex ==
  ASSUME NEW S, NEW ds \in Seq(S), NEW n
  PROVE  Cardinality({i \in DOMAIN ds : ds[i].div < n}) \in 0..Len(ds)
<1> DEFINE before == {i \in DOMAIN ds : ds[i].div < n}
<1>1. Len(ds) \in Nat /\ DOMAIN ds = 1..Len(ds)
  BY LenProperties
<1>2. IsFiniteSet(1..Len(ds)) /\ Cardinality(1..Len(ds)) = Len(ds)
  BY <1>1, FS_Interval
<1>3. Cardinality(before) \in Nat /\ Cardinality(before) <= Len(ds)
  BY <1>1, <1>2, FS_Subset, FS_CardinalityType
<1>4. QED
  BY <1>1, <1>3

(* A dialog whose script has run is a dialog. *)
LEMMA ScriptedTyped ==
  ASSUME NEW CB, NEW d \in Popup(CB), NEW callback \in CB
  PROVE  Scripted(d, callback) \in Popup(CB)
<1>1. d.handlers + 1 \in Nat
  BY DEF Popup
<1>2. ASSUME NEW h \in Nat
      PROVE  [d EXCEPT !.open = TRUE, !.handlers = h, !.callback = callback] \in Popup(CB)
  BY DEF Popup
<1>3. QED
  BY <1>1, <1>2 DEF Scripted

(* A dialog more, and the first one open. *)
LEMMA OpenedTyped ==
  ASSUME NEW CB, NEW ds \in Seq(Popup(CB)), NEW div \in Nat, NEW callback \in CB
  PROVE  /\ Opened(ds, div, callback) \in Seq(Popup(CB))
         /\ Opened(ds, div, callback) # <<>>
<1> DEFINE d == Dialog(div, callback)
           n == Cardinality({i \in DOMAIN ds : ds[i].div < d.div}) + 1
           p == Placed(ds, d)
<1>1. Len(ds) \in Nat /\ n \in 1..(Len(ds) + 1)
  <2>1. Cardinality({i \in DOMAIN ds : ds[i].div < d.div}) \in 0..Len(ds)
    BY BeforeIsIndex
  <2> HIDE DEF d
  <2>2. QED
    BY <2>1, LenProperties
<1>2. d \in Popup(CB)
  BY DEF Dialog, Popup
<1>3. p \in Seq(Popup(CB)) /\ Len(p) # 0
  <2> HIDE DEF d, n
  <2>1. SubSeq(ds, 1, n - 1) \in Seq(Popup(CB)) /\ SubSeq(ds, n, Len(ds)) \in Seq(Popup(CB))
    BY <1>1, SubSeqProperties, ElementOfSeq
  <2>2. <<d>> \in Seq(Popup(CB)) /\ Len(<<d>>) = 1
    BY <1>2
  <2>3. /\ SubSeq(ds, 1, n - 1) \o <<d>> \in Seq(Popup(CB))
        /\ Len(SubSeq(ds, 1, n - 1) \o <<d>>) >= 1
    BY <2>1, <2>2, ConcatProperties, LenProperties
  <2>4. p = (SubSeq(ds, 1, n - 1) \o <<d>>) \o SubSeq(ds, n, Len(ds))
    BY DEF p, Placed, n, InsertAt
  <2>5. QED
    BY <2>1, <2>3, <2>4, ConcatProperties, LenProperties
<1>4. p[1] \in Popup(CB) /\ 1 \in 1..Len(p)
  <2> HIDE DEF d, p
  <2>1. QED
    BY <1>3, LenProperties, ElementOfSeq
<1>5. Scripted(p[1], callback) \in Popup(CB)
  <2> HIDE DEF d, p
  <2>1. QED
    BY <1>4, ScriptedTyped
<1>6. Opened(ds, div, callback) = [p EXCEPT ![1] = Scripted(p[1], callback)]
  BY DEF Opened
<1>7. QED
  <2> HIDE DEF d, p
  <2>1. QED
    BY <1>3, <1>4, <1>5, <1>6, ExceptSeq, EmptySeq

(* The first of the dialogs in the document is one. *)
LEMMA FirstTyped ==
  ASSUME NEW CB, NEW ds \in Seq(Popup(CB)), NEW i \in DOMAIN ds
  PROVE  ds[1] \in Popup(CB) /\ 1 \in DOMAIN ds /\ ds[i] \in Popup(CB) /\ i \in Nat
<1>1. Len(ds) \in Nat /\ DOMAIN ds = 1..Len(ds)
  BY LenProperties
<1>2. QED
  BY <1>1, ElementOfSeq

(* What is left when a dialog is closed. *)
LEMMA HiddenTyped ==
  ASSUME NEW CB, NEW ds \in Seq(Popup(CB)), NEW i \in DOMAIN ds
  PROVE  Hidden(ds, i) \in Seq(Popup(CB))
<1>1. Len(ds) \in Nat /\ DOMAIN ds = 1..Len(ds) /\ ds[i] \in Popup(CB)
  BY LenProperties, ElementOfSeq
<1> DEFINE e == [ds EXCEPT ![i].open = FALSE]
<1>2. [ds[i] EXCEPT !.open = FALSE] \in Popup(CB)
  BY <1>1 DEF Popup
<1>3. e \in Seq(Popup(CB)) /\ Len(e) = Len(ds)
  BY <1>1, <1>2, ExceptSeq
<1>4. ds[i].handlers \in Nat
  BY <1>1 DEF Popup
<1>5. SubSeq(e, ds[i].handlers + 1, Len(ds)) \in Seq(Popup(CB))
  <2> HIDE DEF e
  <2>1. CASE ds[i].handlers + 1 <= Len(ds)
    BY <2>1, <1>1, <1>3, <1>4, SubSeqProperties
  <2>2. CASE ~(ds[i].handlers + 1 <= Len(ds))
    BY <2>2, <1>1, <1>3, <1>4, SubSeqEmpty
  <2>3. QED
    BY <2>1, <2>2
<1>6. QED
  BY <1>5 DEF Hidden

(* The first dialog of a kind, after its script has run *)
LEMMA OpenedFirst ==
  ASSUME NEW CB, NEW div \in Nat, NEW callback \in CB
  PROVE  LET ds == Opened(<<>>, div, callback) IN
         /\ Len(ds) = 1
         /\ ds[1].open
         /\ ds[1].handlers = 1
         /\ ds[1].callback = ds[1].for
<1> DEFINE d == Dialog(div, callback)
<1>1. {i \in DOMAIN <<>> : <<>>[i].div < d.div} = {}
  OBVIOUS
<1>2. Placed(<<>>, d) = <<d>>
  <2> HIDE DEF d
  <2>1. Placed(<<>>, d) = SubSeq(<<>>, 1, 0) \o <<d>> \o SubSeq(<<>>, 1, 0)
    BY FS_EmptySet DEF Placed, InsertAt
  <2>2. SubSeq(<<>>, 1, 0) = <<>>
    BY SubSeqEmpty
  <2>3. <<d>> \in Seq({d})
    OBVIOUS
  <2>4. QED
    BY <2>1, <2>2, <2>3, ConcatEmptySeq
<1> DEFINE r == Scripted(d, callback)
<1>3. r.open /\ r.handlers = 1 /\ r.callback = r.for
  <2>1. d.handlers = 0 /\ d.for = callback
    BY DEF Dialog
  <2>2. r.callback = callback /\ r.for = d.for /\ r.handlers = d.handlers + 1 /\ r.open
    BY DEF Scripted, Dialog
  <2>3. QED
    BY <2>1, <2>2
<1>4. Opened(<<>>, div, callback) = [<<d>> EXCEPT ![1] = r]
  <2> HIDE DEF d
  <2>1. QED
    BY <1>2 DEF Opened, d
<1>5. QED
  <2> HIDE DEF d, r
  <2>1. QED
    BY <1>3, <1>4

(* A lone dialog leaves nothing behind. *)
LEMMA LoneHidden ==
  ASSUME NEW CB, NEW ds \in Seq(Popup(CB)), Len(ds) = 1, ds[1].handlers = 1
  PROVE  Hidden(ds, 1) = <<>>
BY SubSeqEmpty DEF Hidden

(* A dialog that is asked for after all those in the document is placed last. *)
LEMMA PlacedLast ==
  ASSUME NEW S, NEW ds \in Seq(S), NEW d \in S, \A i \in DOMAIN ds : ds[i].div < d.div
  PROVE  Placed(ds, d) = Append(ds, d)
<1>1. Len(ds) \in Nat /\ DOMAIN ds = 1..Len(ds)
  BY LenProperties
<1>2. Cardinality({i \in DOMAIN ds : ds[i].div < d.div}) = Len(ds)
  <2>1. {i \in DOMAIN ds : ds[i].div < d.div} = 1..Len(ds)
    BY <1>1
  <2>2. Cardinality(1..Len(ds)) = Len(ds)
    BY <1>1, FS_Interval
  <2>3. QED
    BY <2>1, <2>2
<1>3. Placed(ds, d) = SubSeq(ds, 1, Len(ds)) \o <<d>> \o SubSeq(ds, Len(ds) + 1, Len(ds))
  <2>1. Placed(ds, d) = InsertAt(ds, Len(ds) + 1, d)
    BY <1>2 DEF Placed
  <2>2. Len(ds) + 1 - 1 = Len(ds)
    BY <1>1
  <2>3. QED
    BY <2>1, <2>2 DEF InsertAt
<1>4. SubSeq(ds, 1, Len(ds)) = ds
  BY <1>1
<1>5. SubSeq(ds, Len(ds) + 1, Len(ds)) = <<>>
  BY <1>1, SubSeqEmpty
<1>6. ds \o <<d>> \in Seq(S)
  BY ConcatProperties
<1>7. QED
  BY <1>3, <1>4, <1>5, <1>6, ConcatEmptySeq, AppendIsConcat

(* Then no dialog but the first is opened. *)
LEMMA OpenedLast ==
  ASSUME NEW CB, NEW ds \in Seq(Popup(CB)), NEW div \in Nat, NEW callback \in CB,
         \A i \in DOMAIN ds : ds[i].div < div,
         \A i \in DOMAIN ds : i # 1 => ~ds[i].open
  PROVE  LET all == Opened(ds, div, callback) IN
         /\ \A i \in DOMAIN all : all[i].div <= div
         /\ \A i \in DOMAIN all : i # 1 => ~all[i].open
<1> DEFINE d == Dialog(div, callback)
           all == Append(ds, d)
           r == Scripted(all[1], callback)
<1>1. d \in Popup(CB) /\ d.div = div /\ ~d.open
  BY DEF Dialog, Popup
<1> HIDE DEF d
<1>2. Opened(ds, div, callback) = [all EXCEPT ![1] = r]
  BY <1>1, PlacedLast DEF Opened, d
<1>3. Len(ds) \in Nat /\ DOMAIN ds = 1..Len(ds)
  BY LenProperties
<1>4. /\ DOMAIN all = 1..(Len(ds) + 1)
      /\ \A i \in DOMAIN all : all[i] = IF i = Len(ds) + 1 THEN d ELSE ds[i]
  BY <1>1, <1>3, AppendProperties
<1> HIDE DEF all
<1>5. \A i \in DOMAIN all : all[i] \in Popup(CB) /\ all[i].div <= div /\ (i # 1 => ~all[i].open)
  <2>1. ASSUME NEW i \in DOMAIN all
        PROVE  all[i] \in Popup(CB) /\ all[i].div <= div /\ (i # 1 => ~all[i].open)
    <3>1. CASE i = Len(ds) + 1
      BY <1>1, <1>4, <2>1, <3>1
    <3>2. CASE i # Len(ds) + 1
      <4>1. i \in DOMAIN ds /\ all[i] = ds[i]
        BY <1>3, <1>4, <2>1, <3>2
      <4>2. ds[i] \in Popup(CB)
        BY <1>3, <4>1, ElementOfSeq
      <4>3. ds[i].div \in Nat
        BY <4>2 DEF Popup
      <4>4. QED
        BY <4>1, <4>2, <4>3
    <3>3. QED
      BY <3>1, <3>2
  <2>2. QED
    BY <2>1
<1>6. 1 \in DOMAIN all
  BY <1>3, <1>4
<1>7. r.div = all[1].div
  BY <1>5, <1>6 DEF Scripted, Popup
<1> HIDE DEF r
<1>8. QED
  BY <1>2, <1>5, <1>6, <1>7

(* What is left after a dialog was closed are dialogs from behind those removed. *)
LEMMA HiddenElements ==
  ASSUME NEW CB, NEW ds \in Seq(Popup(CB)), NEW i \in DOMAIN ds
  PROVE  \A j \in DOMAIN Hidden(ds, i) : \E m \in DOMAIN ds :
           m >= j /\ Hidden(ds, i)[j].div = ds[m].div /\ (Hidden(ds, i)[j].open => ds[m].open)
<1>1. Len(ds) \in Nat /\ DOMAIN ds = 1..Len(ds)
  BY LenProperties
<1> DEFINE e == [ds EXCEPT ![i].open = FALSE]
           h == ds[i].handlers
<1>2. \A m \in DOMAIN ds : ds[m] \in Popup(CB)
  BY <1>1, ElementOfSeq
<1>3. h \in Nat
  BY <1>2 DEF Popup
<1>4. [ds[i] EXCEPT !.open = FALSE] \in Popup(CB)
  BY <1>2 DEF Popup
<1>5. e \in Seq(Popup(CB)) /\ Len(e) = Len(ds)
  BY <1>1, <1>4, ExceptSeq
<1>6. \A m \in DOMAIN ds : e[m].div = ds[m].div /\ (e[m].open => ds[m].open)
  <2>1. [ds[i] EXCEPT !.open = FALSE].div = ds[i].div /\ ~[ds[i] EXCEPT !.open = FALSE].open
    BY <1>2 DEF Popup
  <2>2. QED
    BY <1>1, <2>1
<1>7. Hidden(ds, i) = SubSeq(e, h + 1, Len(ds))
  BY DEF Hidden
<1> HIDE DEF e, h
<1>8. CASE h + 1 <= Len(ds)
  <2>1. /\ Len(SubSeq(e, h + 1, Len(ds))) = Len(ds) - h
        /\ \A j \in 1..(Len(ds) - h) : SubSeq(e, h + 1, Len(ds))[j] = e[h + j]
    BY <1>1, <1>3, <1>5, <1>8, SubSeqProperties
  <2>2. SubSeq(e, h + 1, Len(ds)) \in Seq(Popup(CB))
    BY <1>7, HiddenTyped
  <2>3. DOMAIN Hidden(ds, i) = 1..(Len(ds) - h)
    BY <1>7, <2>1, <2>2, LenProperties
  <2>4. ASSUME NEW j \in DOMAIN Hidden(ds, i)
        PROVE  /\ h + j \in DOMAIN ds
               /\ h + j >= j
               /\ Hidden(ds, i)[j] = e[h + j]
    <3>1. j \in 1..(Len(ds) - h)
      BY <2>3
    <3>2. h + j \in 1..Len(ds) /\ h + j >= j
      BY <1>1, <1>3, <3>1
    <3>3. Hidden(ds, i)[j] = e[h + j]
      BY <1>7, <2>1, <3>1
    <3>4. QED
      BY <1>1, <3>2, <3>3
  <2>5. QED
    BY <1>6, <2>4
<1>9. CASE ~(h + 1 <= Len(ds))
  <2>1. Hidden(ds, i) = <<>>
    BY <1>1, <1>3, <1>5, <1>7, <1>9, SubSeqEmpty
  <2>2. QED
    BY <2>1
<1>10. QED
  BY <1>8, <1>9

=============================================================================

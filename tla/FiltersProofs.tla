--------------------------- MODULE FiltersProofs ---------------------------
(* Induction over numbers and sequences, with a set in the place of the      *)
(* property, and what it shows of filtered sequences.                        *)
EXTENDS Filters, SequenceTheorems, WellFoundedInduction, TLAPS

(* A set of numbers that is not empty has a least element. *)
LEMMA LeastNumber ==
  ASSUME NEW T \in SUBSET Nat, T # {}
  PROVE  \E n \in T : \A m \in T : n <= m
<1> DEFINE R == OpToRel(<, Nat)
<1>1. IsWellFoundedOn(R, Nat)
  BY NatLessThanWellFounded
<1>2. \E x \in T : \A y \in T : <<y, x>> \notin R
  <2> HIDE DEF R
  <2> QED BY <1>1, WFMin
<1>3. \A x, y \in Nat : <<y, x>> \notin R => x <= y
  BY DEF OpToRel
<1> QED BY <1>2, <1>3

(* A set of numbers with 0 and with the successor of each of its numbers has *)
(* all of them.                                                              *)
LEMMA NumberInduction ==
  ASSUME NEW Good, 0 \in Good, \A n \in Nat : n \in Good => n + 1 \in Good
  PROVE  \A n \in Nat : n \in Good
<1> DEFINE Bad == {n \in Nat : n \notin Good}
<1>1. SUFFICES ASSUME Bad # {} PROVE FALSE
  OBVIOUS
<1>2. PICK n \in Bad : \A m \in Bad : n <= m
  <2>1. Bad \in SUBSET Nat
    OBVIOUS
  <2> HIDE DEF Bad
  <2> QED BY <1>1, <2>1, LeastNumber
<1>3. n \in Nat /\ n # 0 /\ n - 1 \in Nat
  BY <1>2
<1>4. n - 1 \notin Bad
  BY <1>2, <1>3
<1>5. (n - 1) + 1 \in Good
  BY <1>3, <1>4
<1> QED BY <1>2, <1>3, <1>5

(* A set of sequences with the empty one and with whatever is appended to one *)
(* of its sequences has all of them.                                          *)
LEMMA SequenceInduction ==
  ASSUME NEW T, NEW Good, <<>> \in Good,
         \A s \in Seq(T), x \in T : s \in Good => Append(s, x) \in Good
  PROVE  \A s \in Seq(T) : s \in Good
<1> DEFINE N == {n \in Nat : \A s \in Seq(T) : Len(s) = n => s \in Good}
<1>1. 0 \in N
  <2> SUFFICES ASSUME NEW s \in Seq(T), Len(s) = 0 PROVE s \in Good
    OBVIOUS
  <2>1. s = <<>>
    BY EmptySeq
  <2> QED BY <2>1
<1>2. ASSUME NEW n \in Nat, n \in N PROVE n + 1 \in N
  <2> SUFFICES ASSUME NEW s \in Seq(T), Len(s) = n + 1 PROVE s \in Good
    OBVIOUS
  <2>1. s # <<>>
    BY EmptySeq
  <2>2. PICK t \in Seq(T), x \in T : s = Append(t, x)
    BY <2>1, SequenceEmptyOrAppend
  <2>3. Len(t) = n
    BY <2>2, AppendProperties, LenProperties
  <2> QED BY <1>2, <2>2, <2>3
<1>3. \A n \in Nat : n \in N
  <2> HIDE DEF N
  <2> QED BY <1>1, <1>2, NumberInduction
<1> QED
  <2> TAKE s \in Seq(T)
  <2>1. Len(s) \in N
    BY <1>3, LenProperties
  <2> QED BY <2>1

(* The step of the recursion: what is kept up to position i of s *)
Step(s, S, f, i) == IF i = 0 THEN <<>>
                    ELSE IF s[i] \in S THEN Append(f[i - 1], s[i])
                    ELSE f[i - 1]

(* f holds the values of the recursion up to n. *)
Steps(s, S, n, f) == \A i \in 0..n : f[i] = Step(s, S, f, i)

(* The recursion defines a function on any initial segment. *)
LEMMA StepsExist ==
  ASSUME NEW s, NEW S
  PROVE  \A n \in Nat : \E f : f = [i \in 0..n |-> Step(s, S, f, i)]
<1> DEFINE Good == {n \in Nat : \E f : f = [i \in 0..n |-> Step(s, S, f, i)]}
<1>1. 0 \in Good
  <2> DEFINE f == [i \in 0..0 |-> <<>>]
  <2>1. f = [i \in 0..0 |-> Step(s, S, f, i)]
    BY DEF Step
  <2> QED BY <2>1
<1>2. ASSUME NEW n \in Nat, n \in Good PROVE n + 1 \in Good
  <2>1. PICK f : f = [i \in 0..n |-> Step(s, S, f, i)]
    BY <1>2
  <2> DEFINE g == [i \in 0..(n + 1) |-> IF i <= n THEN f[i] ELSE Step(s, S, f, i)]
  <2>2. ASSUME NEW i \in 0..(n + 1) PROVE g[i] = Step(s, S, g, i)
    <3>1. CASE i = 0
      <4>1. g[i] = f[0]
        BY <3>1
      <4>2. f[0] = Step(s, S, f, 0)
        BY <2>1
      <4> QED BY <3>1, <4>1, <4>2 DEF Step
    <3>2. CASE i # 0
      <4>1. i - 1 \in 0..n /\ g[i - 1] = f[i - 1]
        BY <3>2
      <4>2. g[i] = Step(s, S, f, i)
        BY <2>1
      <4> HIDE DEF g
      <4> QED BY <3>2, <4>1, <4>2 DEF Step
    <3> QED BY <3>1, <3>2
  <2>3. g = [i \in 0..(n + 1) |-> Step(s, S, g, i)]
    <3>1. g = [i \in 0..(n + 1) |-> g[i]]
      OBVIOUS
    <3> HIDE DEF g
    <3> QED BY <2>2, <3>1
  <2> HIDE DEF g
  <2> QED BY <2>3
<1> HIDE DEF Good
<1>3. \A n \in Nat : n \in Good
  BY <1>1, <1>2, NumberInduction
<1> QED BY <1>3 DEF Good

(* Kept is the last value of its recursion. *)
LEMMA KeptSteps ==
  ASSUME NEW T, NEW s \in Seq(T), NEW S
  PROVE  \E f : /\ Steps(s, S, Len(s), f)
                /\ Kept(s, S) = f[Len(s)]
<1>1. Len(s) \in Nat
  BY LenProperties
<1> DEFINE F == CHOOSE f : f = [i \in 0..Len(s) |-> Step(s, S, f, i)]
<1>2. F = [i \in 0..Len(s) |-> Step(s, S, F, i)]
  BY <1>1, StepsExist
<1>3. Kept(s, S) = F[Len(s)]
  BY DEF Kept, Step
<1> HIDE DEF F
<1>4. \A i \in 0..Len(s) : F[i] = Step(s, S, F, i)
  BY <1>2
<1> QED BY <1>3, <1>4 DEF Steps

(* Two sequences that agree up to n on what they hold and what is kept of it *)
(* have the same values of the recursion up to n.                            *)
LEMMA StepsAgree ==
  ASSUME NEW s, NEW S, NEW t, NEW U, NEW n \in Nat, NEW f, NEW g,
         \A i \in 1..n : s[i] = t[i] /\ (s[i] \in S <=> s[i] \in U),
         Steps(s, S, n, f), Steps(t, U, n, g)
  PROVE  f[n] = g[n]
<1> DEFINE Good == {i \in Nat : i <= n => f[i] = g[i]}
<1>1. 0 \in Good
  BY DEF Step, Steps
<1>2. ASSUME NEW i \in Nat, i \in Good PROVE i + 1 \in Good
  <2> SUFFICES ASSUME i + 1 <= n PROVE f[i + 1] = g[i + 1]
    OBVIOUS
  <2>1. f[i] = g[i] /\ i + 1 \in 1..n /\ i + 1 \in 0..n /\ (i + 1) - 1 = i
    BY <1>2
  <2>2. f[i + 1] = Step(s, S, f, i + 1) /\ g[i + 1] = Step(t, U, g, i + 1)
    BY <2>1 DEF Steps
  <2> QED BY <2>1, <2>2 DEF Step
<1> HIDE DEF Good
<1>3. n \in Good
  BY <1>1, <1>2, NumberInduction
<1> QED BY <1>3 DEF Good

(* Nothing is left of the empty sequence. *)
LEMMA KeptOfEmpty ==
  ASSUME NEW S
  PROVE  Kept(<<>>, S) = <<>>
<1>1. <<>> \in Seq({}) /\ Len(<<>>) = 0
  BY EmptySeq
<1>2. PICK f : Steps(<<>>, S, 0, f) /\ Kept(<<>>, S) = f[0]
  BY <1>1, KeptSteps
<1> QED BY <1>2 DEF Step, Steps

(* What is kept of a sequence with one more element *)
LEMMA KeptOfAppend ==
  ASSUME NEW T, NEW s \in Seq(T), NEW x \in T, NEW S
  PROVE  Kept(Append(s, x), S) = IF x \in S THEN Append(Kept(s, S), x) ELSE Kept(s, S)
<1> DEFINE n == Len(s)
           t == Append(s, x)
<1>1. /\ n \in Nat /\ t \in Seq(T) /\ Len(t) = n + 1
      /\ \A i \in 1..n : t[i] = s[i]
      /\ t[n + 1] = x
  BY LenProperties, AppendProperties
<1>2. PICK f : Steps(s, S, n, f) /\ Kept(s, S) = f[n]
  BY KeptSteps
<1>3. PICK g : Steps(t, S, n + 1, g) /\ Kept(t, S) = g[n + 1]
  <2> HIDE DEF t
  <2>1. \E g : Steps(t, S, Len(t), g) /\ Kept(t, S) = g[Len(t)]
    BY <1>1, KeptSteps
  <2> QED BY <1>1, <2>1
<1> HIDE DEF n, t
<1>4. f[n] = g[n]
  <2>1. \A i \in 1..n : s[i] = t[i] /\ (s[i] \in S <=> s[i] \in S)
    BY <1>1
  <2>2. Steps(t, S, n, g)
    BY <1>1, <1>3 DEF Steps
  <2> QED BY <1>1, <1>2, <2>1, <2>2, StepsAgree
<1>5. g[n + 1] = Step(t, S, g, n + 1) /\ (n + 1) - 1 = n /\ n + 1 # 0
  BY <1>1, <1>3 DEF Steps
<1>6. Kept(t, S) = IF x \in S THEN Append(Kept(s, S), x) ELSE Kept(s, S)
  BY <1>1, <1>2, <1>3, <1>4, <1>5 DEF Step
<1> QED BY <1>6 DEF t

(* Only the membership of the elements matters. *)
LEMMA KeptAgrees ==
  ASSUME NEW T, NEW s \in Seq(T), NEW S, NEW U, \A x \in Range(s) : x \in S <=> x \in U
  PROVE  Kept(s, S) = Kept(s, U)
<1>1. Len(s) \in Nat /\ \A i \in 1..Len(s) : s[i] \in Range(s)
  BY LenProperties, RangeEquality
<1>2. PICK f : Steps(s, S, Len(s), f) /\ Kept(s, S) = f[Len(s)]
  BY KeptSteps
<1>3. PICK g : Steps(s, U, Len(s), g) /\ Kept(s, U) = g[Len(s)]
  BY KeptSteps
<1>4. f[Len(s)] = g[Len(s)]
  <2>1. \A i \in 1..Len(s) : s[i] = s[i] /\ (s[i] \in S <=> s[i] \in U)
    BY <1>1
  <2> QED BY <1>1, <1>2, <1>3, <2>1, StepsAgree
<1> QED BY <1>2, <1>3, <1>4

(* The range of a sequence with one more element *)
LEMMA RangeOfAppend ==
  ASSUME NEW T, NEW s \in Seq(T), NEW x \in T
  PROVE  Range(Append(s, x)) = Range(s) \cup {x}
<1> DEFINE t == Append(s, x)
<1>1. /\ Len(s) \in Nat /\ t \in Seq(T) /\ Len(t) = Len(s) + 1
      /\ \A i \in 1..Len(s) : t[i] = s[i]
      /\ t[Len(s) + 1] = x
  BY LenProperties, AppendProperties
<1> HIDE DEF t
<1>2. Range(t) = {t[i] : i \in 1..(Len(s) + 1)} /\ Range(s) = {s[i] : i \in 1..Len(s)}
  BY <1>1, RangeEquality
<1>3. \A i \in 1..(Len(s) + 1) : i \in 1..Len(s) \/ i = Len(s) + 1
  BY <1>1
<1>4. Range(t) \subseteq Range(s) \cup {x}
  BY <1>1, <1>2, <1>3
<1>5. x \in Range(t)
  BY <1>1, <1>2
<1>6. Range(s) \subseteq Range(t)
  BY <1>1, <1>2
<1> QED BY <1>4, <1>5, <1>6 DEF t

(* What is kept of a sequence are its elements that are in the set. *)
LEMMA KeptRange ==
  ASSUME NEW T, NEW s \in Seq(T), NEW S
  PROVE  /\ Kept(s, S) \in Seq(T)
         /\ Range(Kept(s, S)) = Range(s) \cap S
<1> DEFINE Good == {r \in Seq(T) : /\ Kept(r, S) \in Seq(T)
                                   /\ Range(Kept(r, S)) = Range(r) \cap S}
<1>1. <<>> \in Good
  <2>1. <<>> \in Seq(T) /\ Len(<<>>) = 0
    BY EmptySeq
  <2>2. Range(<<>>) = {}
    BY DEF Range
  <2> QED BY <2>1, <2>2, KeptOfEmpty
<1>2. ASSUME NEW r \in Seq(T), NEW x \in T, r \in Good PROVE Append(r, x) \in Good
  <2>1. Append(r, x) \in Seq(T)
    BY AppendProperties
  <2>2. Range(Append(r, x)) = Range(r) \cup {x}
    BY RangeOfAppend
  <2>3. Kept(r, S) \in Seq(T) /\ Range(Kept(r, S)) = Range(r) \cap S
    BY <1>2
  <2>4. CASE x \in S
    <3>1. Kept(Append(r, x), S) = Append(Kept(r, S), x)
      BY <2>4, KeptOfAppend
    <3>2. Append(Kept(r, S), x) \in Seq(T)
      BY <2>3, AppendProperties
    <3>3. Range(Append(Kept(r, S), x)) = Range(Kept(r, S)) \cup {x}
      BY <2>3, RangeOfAppend
    <3> QED BY <2>1, <2>2, <2>3, <2>4, <3>1, <3>2, <3>3
  <2>5. CASE x \notin S
    <3>1. Kept(Append(r, x), S) = Kept(r, S)
      BY <2>5, KeptOfAppend
    <3> QED BY <2>1, <2>2, <2>3, <2>5, <3>1
  <2> QED BY <2>4, <2>5
<1> HIDE DEF Good
<1>3. s \in Good
  BY <1>1, <1>2, SequenceInduction
<1> QED BY <1>3 DEF Good

(* Nothing is kept when no element is in the set. *)
LEMMA KeptNothing ==
  ASSUME NEW T, NEW s \in Seq(T), NEW S, \A x \in Range(s) : x \notin S
  PROVE  Kept(s, S) = <<>>
<1> DEFINE k == Kept(s, S)
<1>1. k \in Seq(T) /\ Range(k) = {}
  BY KeptRange
<1> HIDE DEF k
<1>2. Len(k) \in Nat /\ Range(k) = {k[i] : i \in 1..Len(k)}
  BY <1>1, LenProperties, RangeEquality
<1>3. Len(k) = 0
  <2> SUFFICES ASSUME Len(k) # 0 PROVE FALSE
    OBVIOUS
  <2>1. 1 \in 1..Len(k)
    BY <1>2
  <2>2. k[1] \in Range(k)
    BY <1>2, <2>1
  <2> QED BY <1>1, <2>2
<1>4. k = <<>>
  BY <1>1, <1>3, EmptySeq
<1> QED BY <1>4 DEF k

(* One element more at either end leaves no fewer. *)
LEMMA KeptGrows ==
  ASSUME NEW T, NEW s \in Seq(T), NEW x \in T, NEW S
  PROVE  /\ Len(Kept(s, S)) <= Len(Kept(Append(s, x), S))
         /\ Len(Kept(s, S)) <= Len(Kept(<<x>> \o s, S))
<1>1. ASSUME NEW r \in Seq(T), NEW y \in T
      PROVE  /\ Len(Kept(r, S)) \in Nat
             /\ Len(Kept(Append(r, y), S)) = Len(Kept(r, S)) + IF y \in S THEN 1 ELSE 0
  <2>1. Kept(r, S) \in Seq(T)
    BY KeptRange
  <2>2. Len(Append(Kept(r, S), y)) = Len(Kept(r, S)) + 1
    BY <2>1, AppendProperties
  <2> QED BY <2>1, <2>2, LenProperties, KeptOfAppend
<1> DEFINE Good == {r \in Seq(T) : Len(Kept(r, S)) <= Len(Kept(<<x>> \o r, S))}
<1>2. <<>> \in Good
  <2>1. Len(Kept(<<>>, S)) = 0
    BY KeptOfEmpty, EmptySeq
  <2>2. <<x>> \o <<>> \in Seq(T) /\ <<>> \in Seq(T)
    BY ConcatProperties, EmptySeq
  <2>3. Len(Kept(<<x>> \o <<>>, S)) \in Nat
    BY <2>2, KeptRange, LenProperties
  <2> QED BY <2>1, <2>2, <2>3
<1>3. ASSUME NEW r \in Seq(T), NEW y \in T, r \in Good PROVE Append(r, y) \in Good
  <2> DEFINE xr == <<x>> \o r
  <2>1. xr \in Seq(T) /\ <<x>> \in Seq(T) /\ <<y>> \in Seq(T)
    BY ConcatProperties
  <2>2. <<x>> \o Append(r, y) = Append(xr, y)
    <3>1. Append(r, y) = r \o <<y>> /\ Append(xr, y) = xr \o <<y>>
      BY <2>1, AppendIsConcat
    <3> QED BY <2>1, <3>1, ConcatAssociative
  <2>3. Len(Kept(r, S)) <= Len(Kept(xr, S))
    BY <1>3
  <2> HIDE DEF xr
  <2>4. /\ Len(Kept(r, S)) \in Nat
        /\ Len(Kept(Append(r, y), S)) = Len(Kept(r, S)) + IF y \in S THEN 1 ELSE 0
    BY <1>1
  <2>5. /\ Len(Kept(xr, S)) \in Nat
        /\ Len(Kept(Append(xr, y), S)) = Len(Kept(xr, S)) + IF y \in S THEN 1 ELSE 0
    BY <1>1, <2>1
  <2>6. Append(r, y) \in Seq(T)
    BY AppendProperties
  <2>7. Len(Kept(Append(r, y), S)) <= Len(Kept(Append(xr, y), S))
    BY <2>3, <2>4, <2>5
  <2> QED BY <2>2, <2>6, <2>7
<1> HIDE DEF Good
<1>4. s \in Good
  BY <1>2, <1>3, SequenceInduction
<1> QED BY <1>1, <1>4 DEF Good

-----------------------------------------------------------------------------
(* FlattenSeq recurs in the same way. *)
Joined(ss, f, i) == IF i = 1 THEN ss[i] ELSE f[i - 1] \o ss[i]

(* The sequence of the joined prefixes exists. *)
LEMMA JoinsExist ==
  ASSUME NEW ss
  PROVE  \A n \in Nat : \E f : f = [i \in 1..n |-> Joined(ss, f, i)]
<1> DEFINE Good == {n \in Nat : \E f : f = [i \in 1..n |-> Joined(ss, f, i)]}
<1>1. 0 \in Good
  <2> DEFINE f == [i \in 1..0 |-> <<>>]
  <2>1. f = [i \in 1..0 |-> Joined(ss, f, i)]
    OBVIOUS
  <2> QED BY <2>1
<1>2. ASSUME NEW n \in Nat, n \in Good PROVE n + 1 \in Good
  <2>1. PICK f : f = [i \in 1..n |-> Joined(ss, f, i)]
    BY <1>2
  <2> DEFINE g == [i \in 1..(n + 1) |-> IF i <= n THEN f[i] ELSE Joined(ss, f, i)]
  <2>2. ASSUME NEW i \in 1..(n + 1) PROVE g[i] = Joined(ss, g, i)
    <3>1. g[i] = Joined(ss, f, i)
      BY <2>1
    <3>2. CASE i = 1
      BY <3>1, <3>2 DEF Joined
    <3>3. CASE i # 1
      <4>1. i - 1 \in 1..n /\ g[i - 1] = f[i - 1]
        BY <3>3
      <4> HIDE DEF g
      <4> QED BY <3>1, <3>3, <4>1 DEF Joined
    <3> QED BY <3>2, <3>3
  <2>3. g = [i \in 1..(n + 1) |-> Joined(ss, g, i)]
    <3>1. g = [i \in 1..(n + 1) |-> g[i]]
      OBVIOUS
    <3> HIDE DEF g
    <3> QED BY <2>2, <3>1
  <2> HIDE DEF g
  <2> QED BY <2>3
<1> HIDE DEF Good
<1>3. \A n \in Nat : n \in Good
  BY <1>1, <1>2, NumberInduction
<1> QED BY <1>3 DEF Good

(* Sequences over a set are joined to one over that set. *)
LEMMA FlattenSeqType ==
  ASSUME NEW T, NEW ss \in Seq(Seq(T))
  PROVE  FlattenSeq(ss) \in Seq(T)
<1>1. Len(ss) \in Nat
  BY LenProperties
<1>2. CASE Len(ss) = 0
  <2>1. ss = <<>>
    BY <1>2, EmptySeq
  <2> QED BY <1>2, <2>1, EmptySeq DEF FlattenSeq
<1>3. CASE Len(ss) # 0
  <2> DEFINE F == CHOOSE f : f = [i \in 1..Len(ss) |-> Joined(ss, f, i)]
  <2>1. F = [i \in 1..Len(ss) |-> Joined(ss, F, i)]
    BY <1>1, JoinsExist
  <2>2. FlattenSeq(ss) = F[Len(ss)]
    BY <1>3 DEF FlattenSeq, Joined
  <2> HIDE DEF F
  <2>3. \A i \in 1..Len(ss) : F[i] = Joined(ss, F, i)
    BY <2>1
  <2> DEFINE Good == {i \in Nat : i + 1 <= Len(ss) => F[i + 1] \in Seq(T)}
  <2>4. 0 \in Good
    <3>1. 1 \in 1..Len(ss)
      BY <1>1, <1>3
    <3>2. F[1] = ss[1] /\ ss[1] \in Seq(T)
      BY <2>3, <3>1, ElementOfSeq DEF Joined
    <3> QED BY <3>2
  <2>5. ASSUME NEW i \in Nat, i \in Good PROVE i + 1 \in Good
    <3> SUFFICES ASSUME (i + 1) + 1 <= Len(ss) PROVE F[(i + 1) + 1] \in Seq(T)
      OBVIOUS
    <3>1. F[i + 1] \in Seq(T)
      BY <1>1, <2>5
    <3>2. /\ i + 2 \in 1..Len(ss) /\ (i + 1) + 1 = i + 2 /\ (i + 2) - 1 = i + 1 /\ i + 2 # 1
      BY <1>1
    <3>3. F[i + 2] = F[i + 1] \o ss[i + 2]
      BY <2>3, <3>2 DEF Joined
    <3>4. ss[i + 2] \in Seq(T)
      BY <3>2, ElementOfSeq
    <3>5. F[i + 1] \o ss[i + 2] \in Seq(T)
      BY <3>1, <3>4, ConcatProperties
    <3> QED BY <3>2, <3>3, <3>5
  <2> HIDE DEF Good
  <2>6. \A i \in Nat : i \in Good
    BY <2>4, <2>5, NumberInduction
  <2>7. Len(ss) - 1 \in Good
    BY <1>1, <1>3, <2>6
  <2> QED BY <1>1, <1>3, <2>2, <2>7 DEF Good
<1> QED BY <1>2, <1>3

=============================================================================

--------------------------- MODULE HttpPoolProofs ---------------------------
(* Proofs about the requests of HttpClientUtil for every number of threads, *)
(* connections, requests and failures.                                      *)
EXTENDS HttpPoolProps, FiniteSets, SequenceTheorems, FiniteSetTheorems, TLAPS

(* Where a connection can be, by place: a waiting request holds none, one on  *)
(* its way holds one, and what is held is not in the pool and held only once. *)
Holding ==
  /\ \A t \in Callers : pc[t] \in {"idle", "lease"} => ~held[t]
  /\ \A t \in Callers : pc[t] \in {"send", "head", "body"} => held[t]
  /\ \A t \in Callers : held[t] => conn[t] \in Connections \ pool
  /\ \A t, u \in Callers : held[t] /\ held[u] /\ conn[t] = conn[u] => t = u
  /\ \A c \in Connections \ pool : \E t \in Callers : held[t] /\ conn[t] = c

(* A thread inside a request has made one. *)
Counted == \A t \in Callers : pc[t] # "idle" => calls[t] \in 1..MaxCalls

(* The three parts need one another: that only connections are given back  *)
(* follows from who holds one, that a connection is asked a request of its *)
(* thread from the count of requests.                                      *)
Inv == TypeOK /\ Holding /\ Counted

(* What is taken from a wire, and what is left on it. *)
LEMMA WireTyped ==
  ASSUME NEW l \in Links, l.wire # <<>>
  PROVE  /\ Head(l.wire) \in Pieces
         /\ Tail(l.wire) \in Seq(Pieces)
         /\ \A n \in {1, 2} :
              n <= Len(l.wire) => SubSeq(l.wire, n + 1, Len(l.wire)) \in Seq(Pieces)
<1>1. l.wire \in Seq(Pieces)
  BY DEF Links
<1>2. Head(l.wire) \in Pieces /\ Tail(l.wire) \in Seq(Pieces)
  BY <1>1, HeadTailProperties
<1>3. ASSUME NEW n \in {1, 2}, n <= Len(l.wire)
      PROVE  SubSeq(l.wire, n + 1, Len(l.wire)) \in Seq(Pieces)
  BY <1>1, <1>3, SubSeqProperties, LenProperties
<1>4. QED
  BY <1>2, <1>3

(* What a thread asks inside a request is one of the requests. *)
LEMMA RequestTyped ==
  ASSUME Inv, NEW t \in Callers, pc[t] # "idle"
  PROVE  Req(t) \in Requests
BY DEF Inv, Counted, Req, Requests, TypeOK

(* The library closes a connection into its initial state. *)
LEMMA ClosedTyped == Closed \in Links
BY DEF Closed, Links

(* What is held is a connection outside the pool. *)
LEMMA HeldConnection ==
  ASSUME Inv, NEW t \in Callers, held[t]
  PROVE  conn[t] \in Connections /\ conn[t] \notin pool
BY DEF Inv, Holding

(* Inside a request the context's connection is the held one. *)
LEMMA OnTheWay ==
  ASSUME Inv, NEW t \in Callers, pc[t] \in {"send", "head", "body"}
  PROVE  held[t] /\ conn[t] \in Connections /\ conn[t] \notin pool /\ link[conn[t]] \in Links
BY DEF Inv, Holding, TypeOK

(* What a step writes is of the type of the variable. *)
LEMMA StepKeepsTypes ==
  ASSUME Inv, [Next]_vars
  PROVE  TypeOK'
<1> USE HttpAssumption DEF Inv, Places
<1>1. ASSUME NEW t \in Callers, Call(t) PROVE TypeOK'
  BY <1>1 DEF Call, Goto, Outcome, TypeOK, thread, history
<1>2. ASSUME NEW t \in Callers, Lease(t) PROVE TypeOK'
  <2>1. PICK c \in pool :
          /\ pool' = pool \ {c}
          /\ conn' = [conn EXCEPT ![t] = c]
          /\ link' = [link EXCEPT ![c].state = IF @ = "closed" THEN "open" ELSE @]
    BY <1>2 DEF Lease
  <2>2. c \in Connections /\ link[c] \in Links
    BY DEF TypeOK
  <2>3. [link[c] EXCEPT !.state = IF @ = "closed" THEN "open" ELSE @] \in Links
    BY <2>2 DEF Links
  <2>4. QED
    BY <1>2, <2>1, <2>2, <2>3 DEF Lease, Goto, TypeOK, thread, history
<1>3. ASSUME NEW t \in Callers, Send(t) PROVE TypeOK'
  BY <1>3, OnTheWay, RequestTyped DEF Send, Goto, Links, TypeOK, thread, history
<1>4. ASSUME NEW t \in Callers, SendTooLate(t) PROVE TypeOK'
  BY <1>4, OnTheWay, ClosedTyped
     DEF SendTooLate, Abort, Goto, Outcome, TypeOK, thread, history
<1>5. ASSUME NEW t \in Callers, ReadHead(t) PROVE TypeOK'
  <2> DEFINE l == link[conn[t]]
  <2>1. l \in Links /\ l.wire # <<>> /\ conn[t] \in Connections
    BY <1>5, OnTheWay DEF ReadHead, Finds
  <2>2. Head(l.wire) \in Pieces /\ Tail(l.wire) \in Seq(Pieces)
    BY <2>1, WireTyped
  <2>3. Head(l.wire).req \in Requests
    BY <2>2 DEF Pieces
  <2>4. [l EXCEPT !.wire = Tail(l.wire)] \in Links
    BY <2>1, <2>2 DEF Links
  <2>5. QED
    BY <1>5, <2>1, <2>3, <2>4
       DEF ReadHead, Goto, Outcome, TypeOK, thread, history
<1>6. ASSUME NEW t \in Callers, ReadWhole(t) PROVE TypeOK'
  <2> DEFINE l == link[conn[t]]
  <2>1. l \in Links /\ l.wire # <<>> /\ conn[t] \in Connections
    BY <1>6, OnTheWay DEF ReadWhole, Finds
  <2>2. Head(l.wire) \in Pieces /\ Tail(l.wire) \in Seq(Pieces)
    BY <2>1, WireTyped
  <2>3. Head(l.wire).req \in Requests
    BY <2>2 DEF Pieces
  <2>4. [l EXCEPT !.wire = Tail(l.wire), !.keep = 20] \in Links
    BY <2>1, <2>2 DEF Links
  <2>5. QED
    BY <1>6, <2>1, <2>3, <2>4
       DEF ReadWhole, ReadToEnd, Goto, Outcome, TypeOK, thread, history
<1>7. ASSUME NEW t \in Callers, SkipLeftover(t) PROVE TypeOK'
  <2> DEFINE l == link[conn[t]]
  <2>1. l \in Links /\ l.wire # <<>> /\ conn[t] \in Connections
    BY <1>7, OnTheWay DEF SkipLeftover, Finds
  <2>2. PICK n \in {1, 2} :
          /\ n <= Len(l.wire)
          /\ link' = [link EXCEPT ![conn[t]].wire = SubSeq(l.wire, n + 1, Len(l.wire))]
    BY <1>7 DEF SkipLeftover, Finds
  <2>3. [l EXCEPT !.wire = SubSeq(l.wire, n + 1, Len(l.wire))] \in Links
    BY <2>1, <2>2, WireTyped DEF Links
  <2>4. QED
    BY <1>7, <2>1, <2>2, <2>3 DEF SkipLeftover, TypeOK, thread, history
<1>8. ASSUME NEW t \in Callers, NoHeadLeft(t) PROVE TypeOK'
  BY <1>8, OnTheWay, ClosedTyped
     DEF NoHeadLeft, Abort, Goto, Outcome, TypeOK, thread, history
<1>9. ASSUME NEW t \in Callers, ReadBody(t) PROVE TypeOK'
  <2> DEFINE l == link[conn[t]]
  <2>1. l \in Links /\ l.wire # <<>> /\ conn[t] \in Connections
    BY <1>9, OnTheWay DEF ReadBody, Finds
  <2>2. Head(l.wire) \in Pieces /\ Tail(l.wire) \in Seq(Pieces)
    BY <2>1, WireTyped
  <2>3. Head(l.wire).req \in Requests
    BY <2>2 DEF Pieces
  <2>4. [l EXCEPT !.wire = Tail(l.wire), !.keep = 20] \in Links
    BY <2>1, <2>2 DEF Links
  <2>5. QED
    BY <1>9, <2>1, <2>3, <2>4
       DEF ReadBody, ReadToEnd, Goto, Outcome, TypeOK, thread, history
<1>10. ASSUME NEW t \in Callers, Release(t) PROVE TypeOK'
  <2>1. CASE held[t]
    <3>1. conn[t] \in Connections /\ link[conn[t]] \in Links
      BY <2>1, HeldConnection DEF TypeOK
    <3>2. [link[conn[t]] EXCEPT !.keep = 30] \in Links
      BY <3>1 DEF Links
    <3>3. QED
      BY <1>10, <2>1, <3>1, <3>2 DEF Release, Leave, Goto, TypeOK, thread
  <2>2. CASE ~held[t]
    BY <1>10, <2>2 DEF Release, Leave, Goto, TypeOK, thread
  <2>3. QED
    BY <2>1, <2>2
<1>11. ASSUME NEW t \in Callers, NotBuilt(t) PROVE TypeOK'
  BY <1>11 DEF NotBuilt, Goto, Outcome, Fault, TypeOK, thread, history
<1>12. ASSUME NEW t \in Callers, Break(t) PROVE TypeOK'
  BY <1>12, OnTheWay, ClosedTyped
     DEF Break, Abort, Goto, Outcome, Fault, TypeOK, thread, history
<1>13. ASSUME NEW c \in Connections, Answer(c) PROVE TypeOK'
  BY <1>13 DEF Answer, Links, Pieces, TypeOK, thread, history
<1>14. ASSUME NEW c \in Connections, Idle20(c) PROVE TypeOK'
  BY <1>14, ClosedTyped DEF Idle20, Links, Closed, TypeOK, thread, history
<1>15. ASSUME NEW c \in Connections, Idle30(c) PROVE TypeOK'
  BY <1>15, ClosedTyped DEF Idle30, Links, Closed, TypeOK, thread, history
<1>16. CASE UNCHANGED vars
  BY <1>16 DEF vars, TypeOK
<1>17. QED
  BY <1>1, <1>2, <1>3, <1>4, <1>5, <1>6, <1>7, <1>8,
     <1>9, <1>10, <1>11, <1>12, <1>13, <1>14, <1>15, <1>16
     DEF Next, Step

(* A step moves the connection of the thread that takes it, or none. *)
LEMMA StepKeepsHolding ==
  ASSUME Inv, [Next]_vars
  PROVE  Holding'
<1> USE HttpAssumption DEF Inv, Places
<1>1. ASSUME NEW t \in Callers, Call(t) PROVE Holding'
  BY <1>1 DEF Call, Goto, Outcome, Holding, TypeOK, thread, history
<1>2. ASSUME NEW t \in Callers, Lease(t) PROVE Holding'
  BY <1>2 DEF Lease, Goto, Holding, TypeOK, thread, history
<1>3. ASSUME NEW t \in Callers, Send(t) PROVE Holding'
  BY <1>3, OnTheWay DEF Send, Goto, Holding, TypeOK, thread, history
<1>4. ASSUME NEW t \in Callers, SendTooLate(t) PROVE Holding'
  BY <1>4, OnTheWay
     DEF SendTooLate, Abort, Goto, Outcome, Holding, TypeOK, thread, history
<1>5. ASSUME NEW t \in Callers, ReadHead(t) PROVE Holding'
  BY <1>5, OnTheWay DEF ReadHead, Goto, Outcome, Holding, TypeOK, thread, history
<1>6. ASSUME NEW t \in Callers, ReadWhole(t) PROVE Holding'
  BY <1>6, OnTheWay
     DEF ReadWhole, ReadToEnd, Goto, Outcome, Holding, TypeOK, thread, history
<1>7. ASSUME NEW t \in Callers, SkipLeftover(t) PROVE Holding'
  BY <1>7, OnTheWay DEF SkipLeftover, Holding, TypeOK, thread, history
<1>8. ASSUME NEW t \in Callers, NoHeadLeft(t) PROVE Holding'
  BY <1>8, OnTheWay
     DEF NoHeadLeft, Abort, Goto, Outcome, Holding, TypeOK, thread, history
<1>9. ASSUME NEW t \in Callers, ReadBody(t) PROVE Holding'
  BY <1>9, OnTheWay
     DEF ReadBody, ReadToEnd, Goto, Outcome, Holding, TypeOK, thread, history
<1>10. ASSUME NEW t \in Callers, Release(t) PROVE Holding'
  BY <1>10 DEF Release, Leave, Goto, Holding, TypeOK, thread, history
<1>11. ASSUME NEW t \in Callers, NotBuilt(t) PROVE Holding'
  BY <1>11 DEF NotBuilt, Goto, Outcome, Fault, Holding, TypeOK, thread, history
<1>12. ASSUME NEW t \in Callers, Break(t) PROVE Holding'
  BY <1>12, OnTheWay
     DEF Break, Abort, Goto, Outcome, Fault, Holding, TypeOK, thread, history
<1>13. ASSUME NEW c \in Connections, Answer(c) PROVE Holding'
  BY <1>13 DEF Answer, Holding, TypeOK, thread, history
<1>14. ASSUME NEW c \in Connections, Idle20(c) PROVE Holding'
  BY <1>14 DEF Idle20, Holding, TypeOK, thread, history
<1>15. ASSUME NEW c \in Connections, Idle30(c) PROVE Holding'
  BY <1>15 DEF Idle30, Holding, TypeOK, thread, history
<1>16. CASE UNCHANGED vars
  BY <1>16 DEF vars, Holding, TypeOK
<1>17. QED
  BY <1>1, <1>2, <1>3, <1>4, <1>5, <1>6, <1>7, <1>8,
     <1>9, <1>10, <1>11, <1>12, <1>13, <1>14, <1>15, <1>16
     DEF Next, Step

(* Only a call begins a request, and it counts it. *)
LEMMA StepKeepsCounted ==
  ASSUME Inv, [Next]_vars
  PROVE  Counted'
<1> USE HttpAssumption DEF Inv, Places
<1>1. ASSUME NEW t \in Callers, Call(t) PROVE Counted'
  BY <1>1 DEF Call, Goto, Outcome, Counted, TypeOK, thread, history
<1>2. ASSUME NEW t \in Callers, Lease(t) PROVE Counted'
  BY <1>2 DEF Lease, Goto, Counted, TypeOK, thread, history
<1>3. ASSUME NEW t \in Callers, Send(t) PROVE Counted'
  BY <1>3 DEF Send, Goto, Counted, TypeOK, thread, history
<1>4. ASSUME NEW t \in Callers, SendTooLate(t) PROVE Counted'
  BY <1>4 DEF SendTooLate, Abort, Goto, Outcome, Counted, TypeOK, thread, history
<1>5. ASSUME NEW t \in Callers, ReadHead(t) PROVE Counted'
  BY <1>5 DEF ReadHead, Goto, Outcome, Counted, TypeOK, thread, history
<1>6. ASSUME NEW t \in Callers, ReadWhole(t) PROVE Counted'
  BY <1>6 DEF ReadWhole, ReadToEnd, Goto, Outcome, Counted, TypeOK, thread, history
<1>7. ASSUME NEW t \in Callers, SkipLeftover(t) PROVE Counted'
  BY <1>7 DEF SkipLeftover, Counted, TypeOK, thread, history
<1>8. ASSUME NEW t \in Callers, NoHeadLeft(t) PROVE Counted'
  BY <1>8 DEF NoHeadLeft, Abort, Goto, Outcome, Counted, TypeOK, thread, history
<1>9. ASSUME NEW t \in Callers, ReadBody(t) PROVE Counted'
  BY <1>9 DEF ReadBody, ReadToEnd, Goto, Outcome, Counted, TypeOK, thread, history
<1>10. ASSUME NEW t \in Callers, Release(t) PROVE Counted'
  BY <1>10 DEF Release, Leave, Goto, Counted, TypeOK, thread, history
<1>11. ASSUME NEW t \in Callers, NotBuilt(t) PROVE Counted'
  BY <1>11 DEF NotBuilt, Goto, Outcome, Fault, Counted, TypeOK, thread, history
<1>12. ASSUME NEW t \in Callers, Break(t) PROVE Counted'
  BY <1>12 DEF Break, Abort, Goto, Outcome, Fault, Counted, TypeOK, thread, history
<1>13. ASSUME NEW c \in Connections, Answer(c) PROVE Counted'
  BY <1>13 DEF Answer, Counted, TypeOK, thread, history
<1>14. ASSUME NEW c \in Connections, Idle20(c) PROVE Counted'
  BY <1>14 DEF Idle20, Counted, TypeOK, thread, history
<1>15. ASSUME NEW c \in Connections, Idle30(c) PROVE Counted'
  BY <1>15 DEF Idle30, Counted, TypeOK, thread, history
<1>16. CASE UNCHANGED vars
  BY <1>16 DEF vars, Counted, TypeOK
<1>17. QED
  BY <1>1, <1>2, <1>3, <1>4, <1>5, <1>6, <1>7, <1>8,
     <1>9, <1>10, <1>11, <1>12, <1>13, <1>14, <1>15, <1>16
     DEF Next, Step

(* Types, holders and counts of HttpClientUtil's requests hold together in   *)
(* every state, whatever fails and in whatever order threads lease.          *)
THEOREM Invariance == Spec => []Inv
<1>1. Init => Inv
  BY HttpAssumption, ClosedTyped
     DEF Init, Inv, TypeOK, Holding, Counted, Places, Methods
<1>2. Inv /\ [Next]_vars => Inv'
  BY StepKeepsTypes, StepKeepsHolding, StepKeepsCounted DEF Inv
<1>3. QED
  BY <1>1, <1>2, PTL DEF Spec

(* Every variable of a request stays in its type; only connections are given *)
(* back, never the null of a context without one.                            *)
THEOREM TypeCorrect == Spec => []TypeOK
<1>1. Inv => TypeOK
  BY DEF Inv
<1>2. QED
  BY <1>1, Invariance, PTL

(* However a request ends, its connection is given back once: it is in the  *)
(* pool or with one request, never with two, never with none.               *)
THEOREM ConnectionsReturned == Spec => []OneHolder
<1>1. ASSUME Inv, NEW c \in Connections,
             c \in pool
      PROVE  {t \in Callers : held[t] /\ conn[t] = c} = {}
  BY <1>1 DEF Inv, Holding
<1>2. ASSUME Inv, NEW c \in Connections, c \notin pool
      PROVE  \E t \in Callers : {u \in Callers : held[u] /\ conn[u] = c} = {t}
  <2>1. PICK t \in Callers : held[t] /\ conn[t] = c
    BY <1>2 DEF Inv, Holding
  <2>2. \A u \in Callers : held[u] /\ conn[u] = c => u = t
    BY <1>2, <2>1 DEF Inv, Holding
  <2>3. QED
    BY <2>1, <2>2
<1>3. Inv => OneHolder
  BY <1>1, <1>2 DEF OneHolder
<1>4. QED
  BY <1>3, Invariance, PTL

-----------------------------------------------------------------------------
(* Only bodies lie on a wire: the rest of answers that nobody read. *)
Leftover(wire) == \A i \in 1..Len(wire) : wire[i].part = "body"

(* Behind leftovers, at most one answer, that to request r, and nothing behind it. *)
Answering(wire, r) ==
  \A i \in 1..Len(wire) :
    wire[i].part # "body" =>
      /\ wire[i].req = r
      /\ \A j \in 1..Len(wire) : j # i => wire[j].part = "body"
      /\ wire[i].part = "whole" => i = Len(wire)
      /\ wire[i].part = "head" => i + 1 = Len(wire) /\ wire[i + 1].req = r

(* A connection nobody has asked on, one that awaits the answer to r, and one *)
(* on which only the body of that answer is left.                             *)
Quiet(l) == l.asked = None /\ Leftover(l.wire)

Awaiting(l, r) ==
  /\ l.asked \in {None, r}
  /\ l.asked # None => Leftover(l.wire)
  /\ Answering(l.wire, r)

Reading(l, r) == Quiet(l) /\ Len(l.wire) = 1 /\ l.wire[1].req = r

Own(t) ==
  /\ held[t] /\ pc[t] \in {"send", "release"} => Quiet(link[conn[t]])
  /\ pc[t] = "head" => Awaiting(link[conn[t]], Req(t))
  /\ pc[t] = "body" => Reading(link[conn[t]], Req(t))
  /\ result[t] \in {None, Failed, Req(t)}

(* No thread's request is asked, and no head of an answer lies, on a connection *)
(* that another thread has or may lease.                                        *)
OwnInv == (\A c \in pool : Quiet(link[c])) /\ \A t \in Callers : Own(t)

(* The head of the answer, or an answer without a body, is the thread's own, and *)
(* only bodies are left behind it.                                               *)
LEMMA AnswerIsOwn ==
  ASSUME NEW l \in Links, NEW r, Awaiting(l, r), l.wire # <<>>, Head(l.wire).part # "body"
  PROVE  /\ l.asked = None
         /\ Head(l.wire).req = r
         /\ Leftover(Tail(l.wire))
         /\ Head(l.wire).part = "whole" => Tail(l.wire) = <<>>
         /\ Head(l.wire).part = "head" => Len(Tail(l.wire)) = 1 /\ Tail(l.wire)[1].req = r
<1> DEFINE w == l.wire
           v == Tail(w)
<1>1. w \in Seq(Pieces) /\ Len(w) \in Nat /\ Len(w) >= 1 /\ Head(w) = w[1]
  BY DEF Links
<1>2. v \in Seq(Pieces) /\ Len(v) = Len(w) - 1
      /\ \A i \in 1..Len(v) : v[i] = w[i + 1]
  BY <1>1, HeadTailProperties
<1>3. l.asked = None
  BY <1>1 DEF Awaiting, Leftover
<1>4. /\ w[1].req = r
      /\ \A j \in 1..Len(w) : j # 1 => w[j].part = "body"
      /\ w[1].part = "whole" => Len(w) = 1
      /\ w[1].part = "head" => Len(w) = 2 /\ w[1 + 1].req = r
  <2>1. Answering(w, r) /\ 1 \in 1..Len(w) /\ w[1].part # "body"
    BY <1>1 DEF Awaiting
  <2>2. /\ w[1].req = r
        /\ \A j \in 1..Len(w) : j # 1 => w[j].part = "body"
        /\ w[1].part = "whole" => 1 = Len(w)
        /\ w[1].part = "head" => 1 + 1 = Len(w) /\ w[1 + 1].req = r
    BY <2>1 DEF Answering
  <2>3. QED
    BY <2>2
<1> HIDE DEF w, v
<1>5. Leftover(v)
  BY <1>1, <1>2, <1>4 DEF Leftover
<1>6. w[1].part = "head" => Len(v) = 1 /\ v[1].req = r
  <2> SUFFICES ASSUME w[1].part = "head"
               PROVE  Len(v) = 1 /\ v[1].req = r
    OBVIOUS
  <2>1. Len(w) = 2 /\ w[1 + 1].req = r
    BY <1>4
  <2>2. Len(v) = 1 /\ 1 \in 1..Len(v)
    BY <1>2, <2>1
  <2>3. v[1] = w[1 + 1]
    BY <1>2, <2>2
  <2>4. QED
    BY <2>1, <2>2, <2>3
<1>7. w[1].part = "whole" => v = <<>>
  <2>1. w[1].part = "whole" => Len(v) = 0
    BY <1>1, <1>2, <1>4
  <2>2. \A seq \in Seq(Pieces) : seq # <<>> => Len(seq) \in Nat \ {0}
    BY EmptySeq
  <2>3. QED
    BY <1>2, <2>1, <2>2
<1>8. QED
  BY <1>1, <1>3, <1>4, <1>5, <1>6, <1>7 DEF w, v

(* Skipping leftovers, and the head behind them, leaves what was behind those. *)
LEMMA SkippedStillAwaits ==
  ASSUME NEW l \in Links, NEW r, Awaiting(l, r), NEW n \in {1, 2}, n <= Len(l.wire)
  PROVE  Awaiting([l EXCEPT !.wire = SubSeq(l.wire, n + 1, Len(l.wire))], r)
<1> DEFINE w == l.wire
           s == SubSeq(w, n + 1, Len(w))
<1>1. w \in Seq(Pieces) /\ Len(w) \in Nat /\ n <= Len(w)
  BY DEF Links
<1>2. s \in Seq(Pieces) /\ Len(s) = Len(w) - n /\ \A i \in 1..Len(s) : s[i] = w[n + i]
  BY <1>1, SubSeqProperties
<1>3. (l.asked # None => Leftover(w)) /\ Answering(w, r)
  BY DEF Awaiting
<1> HIDE DEF w, s
<1>4. Leftover(w) => Leftover(s)
  BY <1>1, <1>2 DEF Leftover
<1>5. ASSUME NEW i \in 1..Len(s), s[i].part # "body"
      PROVE  /\ s[i].req = r
             /\ \A j \in 1..Len(s) : j # i => s[j].part = "body"
             /\ s[i].part = "whole" => i = Len(s)
             /\ s[i].part = "head" => i + 1 = Len(s) /\ s[i + 1].req = r
  <2>1. n + i \in 1..Len(w) /\ s[i] = w[n + i]
    <3>1. n \in Nat /\ i \in Nat /\ 1 <= i /\ i <= Len(w) - n
      BY <1>1, <1>2
    <3>2. n + i \in 1..Len(w)
      BY <1>1, <3>1
    <3>3. QED
      BY <1>2, <3>2
  <2>2. /\ w[n + i].req = r
        /\ \A j \in 1..Len(w) : j # n + i => w[j].part = "body"
        /\ w[n + i].part = "whole" => n + i = Len(w)
        /\ w[n + i].part = "head" => n + i + 1 = Len(w) /\ w[n + i + 1].req = r
    BY <1>3, <1>5, <2>1 DEF Answering
  <2>3. ASSUME NEW j \in 1..Len(s), j # i PROVE s[j].part = "body"
    <3>1. n + j \in 1..Len(w) /\ n + j # n + i /\ s[j] = w[n + j]
      BY <1>1, <1>2, <2>3
    <3>2. QED
      BY <2>2, <3>1
  <2>4. ASSUME s[i].part = "head" PROVE i + 1 = Len(s) /\ s[i + 1].req = r
    <3>1. i + 1 = Len(s) /\ w[n + i + 1].req = r
      BY <1>1, <1>2, <2>1, <2>2, <2>4
    <3>2. s[i + 1] = w[n + (i + 1)] /\ n + (i + 1) = n + i + 1
      BY <1>1, <1>2, <3>1
    <3>3. QED
      BY <3>1, <3>2
  <2>5. s[i].part = "whole" => i = Len(s)
    BY <1>1, <1>2, <2>1, <2>2
  <2>6. QED
    BY <2>1, <2>2, <2>3, <2>4, <2>5
<1>6. Answering(s, r)
  BY <1>5 DEF Answering
<1>7. QED
  BY <1>3, <1>4, <1>6 DEF Awaiting, Links, w, s

(* The answer is appended to leftovers. *)
LEMMA AnsweredAwaits ==
  ASSUME NEW l \in Links, NEW r, Awaiting(l, r), l.asked # None,
         NEW p, p \in {<<[part |-> "whole", req |-> r]>>,
                       <<[part |-> "head", req |-> r], [part |-> "body", req |-> r]>>}
  PROVE  Awaiting([l EXCEPT !.wire = l.wire \o p, !.asked = None], r)
<1> DEFINE w == l.wire
           s == w \o p
<1>1. w \in Seq(Pieces) /\ Len(w) \in Nat /\ Leftover(w)
  BY DEF Links, Awaiting
<1>2. CASE p = <<[part |-> "whole", req |-> r]>>
  <2>1. /\ Len(s) = Len(w) + 1
        /\ \A i \in 1..Len(w) : s[i] = w[i]
        /\ s[Len(w) + 1].part = "whole" /\ s[Len(w) + 1].req = r
    BY <1>1, <1>2
  <2> HIDE DEF w, s
  <2>2. Answering(s, r)
    BY <1>1, <2>1 DEF Answering, Leftover
  <2>3. QED
    BY <2>2 DEF Awaiting, Links, w, s
<1>3. CASE p = <<[part |-> "head", req |-> r], [part |-> "body", req |-> r]>>
  <2>1. /\ Len(s) = Len(w) + 2
        /\ \A i \in 1..Len(w) : s[i] = w[i]
        /\ s[Len(w) + 1].part = "head" /\ s[Len(w) + 1].req = r
        /\ s[Len(w) + 2].part = "body" /\ s[Len(w) + 2].req = r
    BY <1>1, <1>3
  <2> HIDE DEF w, s
  <2>2. Answering(s, r)
    <3> SUFFICES ASSUME NEW i \in 1..Len(s), s[i].part # "body"
                 PROVE  /\ s[i].req = r
                        /\ \A j \in 1..Len(s) : j # i => s[j].part = "body"
                        /\ s[i].part = "whole" => i = Len(s)
                        /\ s[i].part = "head" => i + 1 = Len(s) /\ s[i + 1].req = r
      BY DEF Answering
    <3>1. i = Len(w) + 1
      BY <1>1, <2>1 DEF Leftover
    <3>2. ASSUME NEW j \in 1..Len(s), j # i PROVE s[j].part = "body"
      BY <1>1, <2>1, <3>1, <3>2 DEF Leftover
    <3>3. i + 1 = Len(w) + 2 /\ i + 1 = Len(s)
      BY <1>1, <2>1, <3>1
    <3>4. QED
      BY <2>1, <3>1, <3>2, <3>3
  <2>3. QED
    BY <2>2 DEF Awaiting, Links, w, s
<1>4. QED
  BY <1>2, <1>3

(* Behind the body of an answer is nothing. *)
LEMMA BodyIsOwn ==
  ASSUME NEW l \in Links, NEW r, Reading(l, r)
  PROVE  l.asked = None /\ Head(l.wire).req = r /\ Tail(l.wire) = <<>>
<1>1. l.wire \in Seq(Pieces) /\ Len(l.wire) = 1 /\ Head(l.wire) = l.wire[1]
  BY DEF Links, Reading
<1>2. Tail(l.wire) \in Seq(Pieces) /\ Len(Tail(l.wire)) = 0
  BY <1>1, HeadTailProperties
<1>3. Tail(l.wire) = <<>>
  BY <1>2, EmptySeq
<1>4. QED
  BY <1>1, <1>3 DEF Reading, Quiet

(* A closed connection is quiet. *)
LEMMA ClosedQuiet == Quiet(Closed)
BY DEF Quiet, Closed, Leftover

(* What the others do does not touch a thread or the connection it holds. *)
LEMMA OthersKeepOwn ==
  ASSUME Inv, OwnInv, NEW u \in Callers,
         pc'[u] = pc[u], conn'[u] = conn[u], held'[u] = held[u],
         calls'[u] = calls[u], result'[u] = result[u],
         held[u] => link'[conn[u]] = link[conn[u]]
  PROVE  Own(u)'
<1>1. Own(u)
  BY DEF OwnInv
<1>2. pc[u] \in {"head", "body"} => held[u]
  BY DEF Inv, Holding
<1>3. Req(u)' = Req(u)
  BY DEF Req
<1>4. QED
  BY <1>1, <1>2, <1>3 DEF Own

(* Two threads hold two connections. *)
LEMMA Elsewhere ==
  ASSUME Inv, NEW t \in Callers, held[t], NEW u \in Callers, u # t, held[u]
  PROVE  conn[u] # conn[t] /\ conn[u] \in Connections
BY DEF Inv, Holding

(* A step writes to one connection only: that of the thread that takes it, one the *)
(* server answers on, or one in the pool.                                           *)
LEMMA StepKeepsOwn ==
  ASSUME Inv, OwnInv, [Next]_vars
  PROVE  OwnInv'
<1> USE DEF Goto, Outcome, thread, history
<1>0. TypeOK
  BY DEF Inv
<1>1. ASSUME NEW t \in Callers, Call(t) PROVE OwnInv'
  <2>1. \A u \in Callers : u # t => Own(u)'
    BY <1>0, <1>1, OthersKeepOwn DEF Call, TypeOK
  <2>2. Own(t)'
    BY <1>0, <1>1 DEF Call, TypeOK, Own
  <2>3. QED
    BY <1>1, <2>1, <2>2 DEF Call, OwnInv
<1>2. ASSUME NEW t \in Callers, NotBuilt(t) PROVE OwnInv'
  <2>1. \A u \in Callers : u # t => Own(u)'
    BY <1>0, <1>2, OthersKeepOwn DEF NotBuilt, TypeOK
  <2>2. Own(t)'
    BY <1>0, <1>2 DEF NotBuilt, TypeOK, Own, Inv, Holding
  <2>3. QED
    BY <1>2, <2>1, <2>2 DEF NotBuilt, OwnInv
<1>3. ASSUME NEW t \in Callers, Lease(t) PROVE OwnInv'
  <2>1. PICK c \in pool :
          /\ pool' = pool \ {c}
          /\ conn' = [conn EXCEPT ![t] = c]
          /\ link' = [link EXCEPT ![c].state = IF @ = "closed" THEN "open" ELSE @]
    BY <1>3 DEF Lease
  <2>2. c \in Connections /\ link[c] \in Links /\ Quiet(link[c])
    BY <1>0 DEF TypeOK, OwnInv
  <2>3. Quiet(link'[c])
    BY <1>0, <2>1, <2>2 DEF TypeOK, Links, Quiet
  <2>4. \A u \in Callers : held[u] => conn[u] # c
    BY <2>2 DEF Inv, Holding
  <2>5. ASSUME NEW u \in Callers, u # t PROVE Own(u)'
    <3>1. held[u] => link'[conn[u]] = link[conn[u]]
      BY <1>0, <2>1, <2>4 DEF TypeOK, Inv, Holding
    <3>2. /\ pc'[u] = pc[u] /\ conn'[u] = conn[u] /\ held'[u] = held[u]
          /\ calls'[u] = calls[u] /\ result'[u] = result[u]
      BY <1>0, <1>3, <2>1, <2>5 DEF Lease, TypeOK
    <3>3. QED
      BY <3>1, <3>2, OthersKeepOwn
  <2>6. Own(t)'
    BY <1>0, <1>3, <2>1, <2>3 DEF Lease, TypeOK, Own, Req, OwnInv
  <2>7. \A d \in pool' : Quiet(link'[d])
    BY <1>0, <2>1, <2>2 DEF TypeOK, OwnInv
  <2>8. QED
    BY <2>5, <2>6, <2>7 DEF OwnInv
<1>4. ASSUME NEW t \in Callers, pc[t] \in {"send", "head", "body"}, Abort(t)
      PROVE  OwnInv'
  <2>1. held[t] /\ conn[t] \in Connections /\ conn[t] \notin pool
    BY <1>4, OnTheWay
  <2>2. \A u \in Callers : u # t => Own(u)'
    BY <1>0, <1>4, <2>1, Elsewhere, OthersKeepOwn DEF Abort, TypeOK
  <2>3. Own(t)'
    BY <1>0, <1>4, <2>1 DEF Abort, TypeOK, Own
  <2>4. \A d \in pool' : Quiet(link'[d])
    BY <1>0, <1>4, <2>1, ClosedQuiet DEF Abort, TypeOK, OwnInv
  <2>5. QED
    BY <2>2, <2>3, <2>4 DEF OwnInv
<1>5. ASSUME NEW t \in Callers, Send(t) PROVE OwnInv'
  <2>1. held[t] /\ conn[t] \in Connections /\ conn[t] \notin pool /\ link[conn[t]] \in Links
    BY <1>5, OnTheWay DEF Send
  <2>2. \A u \in Callers : u # t => Own(u)'
    BY <1>0, <1>5, <2>1, Elsewhere, OthersKeepOwn DEF Send, TypeOK
  <2>3. Quiet(link[conn[t]])
    BY <1>5, <2>1 DEF Send, OwnInv, Own
  <2>4. link'[conn[t]].asked = Req(t) /\ link'[conn[t]].wire = link[conn[t]].wire
    BY <1>0, <1>5, <2>1 DEF Send, TypeOK, Links
  <2>5. Awaiting(link'[conn[t]], Req(t))
    BY <2>3, <2>4 DEF Awaiting, Quiet, Leftover, Answering
  <2>6. Own(t)'
    BY <1>0, <1>5, <2>5 DEF Send, TypeOK, Own, OwnInv, Req
  <2>7. \A d \in pool' : Quiet(link'[d])
    BY <1>0, <1>5, <2>1 DEF Send, TypeOK, OwnInv
  <2>8. QED
    BY <2>2, <2>6, <2>7 DEF OwnInv
<1>6. ASSUME NEW t \in Callers, ReadWhole(t) PROVE OwnInv'
  <2> DEFINE l == link[conn[t]]
  <2>1. held[t] /\ conn[t] \in Connections /\ conn[t] \notin pool /\ l \in Links
    BY <1>6, OnTheWay DEF ReadWhole
  <2>2. \A u \in Callers : u # t => Own(u)'
    BY <1>0, <1>6, <2>1, Elsewhere, OthersKeepOwn DEF ReadWhole, ReadToEnd, TypeOK
  <2>3. Awaiting(l, Req(t)) /\ l.wire # <<>> /\ Head(l.wire).part # "body"
    BY <1>6 DEF ReadWhole, Finds, OwnInv, Own
  <2>4. l.asked = None /\ Head(l.wire).req = Req(t) /\ Leftover(Tail(l.wire))
    BY <2>1, <2>3, AnswerIsOwn
  <2>5. link'[conn[t]].asked = l.asked /\ link'[conn[t]].wire = Tail(l.wire)
    BY <1>0, <1>6, <2>1 DEF ReadWhole, ReadToEnd, TypeOK, Links
  <2>6. Own(t)'
    BY <1>0, <1>6, <2>4 DEF ReadWhole, ReadToEnd, TypeOK, Own, Req
  <2>7. \A d \in pool' : Quiet(link'[d])
    BY <1>0, <1>6, <2>1, <2>4, <2>5 DEF ReadWhole, ReadToEnd, TypeOK, OwnInv, Quiet
  <2>8. QED
    BY <2>2, <2>6, <2>7 DEF OwnInv
<1>7. ASSUME NEW t \in Callers, ReadHead(t) PROVE OwnInv'
  <2> DEFINE l == link[conn[t]]
  <2>1. held[t] /\ conn[t] \in Connections /\ conn[t] \notin pool /\ l \in Links
    BY <1>7, OnTheWay DEF ReadHead
  <2>2. \A u \in Callers : u # t => Own(u)'
    BY <1>0, <1>7, <2>1, Elsewhere, OthersKeepOwn DEF ReadHead, TypeOK
  <2>3. Awaiting(l, Req(t)) /\ l.wire # <<>> /\ Head(l.wire).part = "head"
    BY <1>7 DEF ReadHead, Finds, OwnInv, Own
  <2>4. /\ l.asked = None /\ Head(l.wire).req = Req(t) /\ Leftover(Tail(l.wire))
        /\ Len(Tail(l.wire)) = 1 /\ Tail(l.wire)[1].req = Req(t)
    BY <2>1, <2>3, AnswerIsOwn
  <2>5. link'[conn[t]].asked = l.asked /\ link'[conn[t]].wire = Tail(l.wire)
    BY <1>0, <1>7, <2>1 DEF ReadHead, TypeOK, Links
  <2>6. Quiet(link'[conn[t]]) /\ Reading(link'[conn[t]], Req(t))
    BY <2>4, <2>5 DEF Quiet, Reading
  <2>7. Own(t)'
    BY <1>0, <1>7, <2>4, <2>6 DEF ReadHead, TypeOK, Own, Req
  <2>8. \A d \in pool' : Quiet(link'[d])
    BY <1>0, <1>7, <2>1 DEF ReadHead, TypeOK, OwnInv
  <2>9. QED
    BY <2>2, <2>7, <2>8 DEF OwnInv
<1>8. ASSUME NEW t \in Callers, SkipLeftover(t) PROVE OwnInv'
  <2> DEFINE l == link[conn[t]]
  <2>1. held[t] /\ conn[t] \in Connections /\ conn[t] \notin pool /\ l \in Links
    BY <1>8, OnTheWay DEF SkipLeftover
  <2>2. \A u \in Callers : u # t => Own(u)'
    BY <1>0, <1>8, <2>1, Elsewhere, OthersKeepOwn DEF SkipLeftover, TypeOK
  <2>3. Awaiting(l, Req(t))
    BY <1>8 DEF SkipLeftover, OwnInv, Own
  <2>4. PICK n \in {1, 2} :
          /\ n <= Len(l.wire)
          /\ link' = [link EXCEPT ![conn[t]].wire = SubSeq(l.wire, n + 1, Len(l.wire))]
    BY <1>8 DEF SkipLeftover
  <2>5. Awaiting([l EXCEPT !.wire = SubSeq(l.wire, n + 1, Len(l.wire))], Req(t))
    BY <2>1, <2>3, <2>4, SkippedStillAwaits
  <2>6. Awaiting(link'[conn[t]], Req(t))
    BY <1>0, <2>1, <2>4, <2>5 DEF TypeOK
  <2>7. Own(t)'
    BY <1>0, <1>8, <2>6 DEF SkipLeftover, TypeOK, Own, OwnInv, Req
  <2>8. \A d \in pool' : Quiet(link'[d])
    BY <1>0, <1>8, <2>1 DEF SkipLeftover, TypeOK, OwnInv
  <2>9. QED
    BY <2>2, <2>7, <2>8 DEF OwnInv
<1>9. ASSUME NEW t \in Callers, ReadBody(t) PROVE OwnInv'
  <2> DEFINE l == link[conn[t]]
  <2>1. held[t] /\ conn[t] \in Connections /\ conn[t] \notin pool /\ l \in Links
    BY <1>9, OnTheWay DEF ReadBody
  <2>2. \A u \in Callers : u # t => Own(u)'
    BY <1>0, <1>9, <2>1, Elsewhere, OthersKeepOwn DEF ReadBody, ReadToEnd, TypeOK
  <2>3. Reading(l, Req(t))
    BY <1>9 DEF ReadBody, OwnInv, Own
  <2>4. l.asked = None /\ Head(l.wire).req = Req(t) /\ Tail(l.wire) = <<>>
    BY <2>1, <2>3, BodyIsOwn
  <2>5. link'[conn[t]].asked = l.asked /\ link'[conn[t]].wire = Tail(l.wire)
    BY <1>0, <1>9, <2>1 DEF ReadBody, ReadToEnd, TypeOK, Links
  <2>6. Own(t)'
    BY <1>0, <1>9, <2>4 DEF ReadBody, ReadToEnd, TypeOK, Own, Req
  <2>7. \A d \in pool' : Quiet(link'[d])
    BY <1>0, <1>9, <2>1, <2>4, <2>5 DEF ReadBody, ReadToEnd, TypeOK, OwnInv, Quiet, Leftover
  <2>8. QED
    BY <2>2, <2>6, <2>7 DEF OwnInv
<1>10. ASSUME NEW t \in Callers, Release(t) PROVE OwnInv'
  <2>1. Own(t)'
    BY <1>0, <1>10 DEF Release, Leave, TypeOK, Own, OwnInv, Req
  <2>2. CASE held[t]
    <3>1. conn[t] \in Connections /\ link[conn[t]] \in Links /\ Quiet(link[conn[t]])
      BY <1>0, <1>10, <2>2, HeldConnection DEF TypeOK, Release, OwnInv, Own
    <3>2. \A u \in Callers : u # t => Own(u)'
      BY <1>0, <1>10, <2>2, <3>1, Elsewhere, OthersKeepOwn DEF Release, Leave, TypeOK
    <3>3. /\ link'[conn[t]].asked = link[conn[t]].asked
          /\ link'[conn[t]].wire = link[conn[t]].wire
      BY <1>0, <1>10, <2>2, <3>1 DEF Release, TypeOK, Links
    <3>4. \A d \in pool' : Quiet(link'[d])
      BY <1>0, <1>10, <2>2, <3>1, <3>3 DEF Release, TypeOK, OwnInv, Quiet
    <3>5. QED
      BY <2>1, <3>2, <3>4 DEF OwnInv
  <2>3. CASE ~held[t]
    <3>1. \A u \in Callers : u # t => Own(u)'
      BY <1>0, <1>10, <2>3, OthersKeepOwn DEF Release, Leave, TypeOK
    <3>2. QED
      BY <1>10, <2>1, <2>3, <3>1 DEF Release, OwnInv
  <2>4. QED
    BY <2>2, <2>3
<1>11. ASSUME NEW c \in Connections, Answer(c) PROVE OwnInv'
  <2> DEFINE r == link[c].asked
  <2>1. r # None /\ c \notin pool /\ link[c] \in Links
    BY <1>0, <1>11 DEF Answer, OwnInv, Quiet, TypeOK
  <2>2. PICK t \in Callers : held[t] /\ conn[t] = c
    BY <2>1 DEF Inv, Holding
  <2>3. pc[t] = "head" /\ Awaiting(link[c], Req(t)) /\ r = Req(t)
    BY <1>0, <2>1, <2>2
       DEF OwnInv, Own, Quiet, Reading, Awaiting, Inv, Holding, TypeOK, Places
  <2>4. PICK p \in {<<[part |-> "whole", req |-> r]>>,
                    <<[part |-> "head", req |-> r], [part |-> "body", req |-> r]>>} :
          link' = [link EXCEPT ![c].wire = @ \o p, ![c].asked = None]
    BY <1>11 DEF Answer
  <2>5. Awaiting([link[c] EXCEPT !.wire = link[c].wire \o p, !.asked = None], Req(t))
    BY <2>1, <2>3, <2>4, AnsweredAwaits
  <2>6. Awaiting(link'[c], Req(t))
    BY <1>0, <2>4, <2>5 DEF TypeOK
  <2>7. Own(t)'
    BY <1>11, <2>2, <2>3, <2>6 DEF Answer, Own, OwnInv, Req
  <2>8. \A u \in Callers : u # t => Own(u)'
    BY <1>0, <1>11, <2>2, <2>4, Elsewhere, OthersKeepOwn DEF Answer, TypeOK
  <2>9. \A d \in pool' : Quiet(link'[d])
    BY <1>0, <1>11, <2>1, <2>4 DEF Answer, TypeOK, OwnInv
  <2>10. QED
    BY <2>7, <2>8, <2>9 DEF OwnInv
<1>12. ASSUME NEW c \in Connections, Idle20(c) \/ Idle30(c) PROVE OwnInv'
  <2>1. /\ c \in pool /\ pool' = pool
        /\ link' = [link EXCEPT ![c] = Closed] \/ link' = [link EXCEPT ![c].state = "gone"]
    BY <1>0, <1>12 DEF Idle20, Idle30, TypeOK
  <2>2. Quiet(link'[c])
    BY <1>0, <2>1, ClosedQuiet DEF TypeOK, OwnInv, Quiet, Links
  <2>3. \A d \in pool' : Quiet(link'[d])
    BY <1>0, <2>1, <2>2 DEF TypeOK, OwnInv
  <2>4. \A u \in Callers : held[u] => conn[u] # c /\ conn[u] \in Connections
    BY <2>1 DEF Inv, Holding
  <2>5. \A u \in Callers : Own(u)'
    BY <1>0, <1>12, <2>1, <2>4, OthersKeepOwn DEF Idle20, Idle30, TypeOK
  <2>6. QED
    BY <2>3, <2>5 DEF OwnInv
<1>13. CASE UNCHANGED vars
  BY <1>13 DEF vars, OwnInv, Own, Req
<1>14. ASSUME NEW t \in Callers, SendTooLate(t) \/ NoHeadLeft(t) \/ Break(t) PROVE OwnInv'
  BY <1>4, <1>14 DEF SendTooLate, NoHeadLeft, Break
<1>15. QED
  BY <1>1, <1>2, <1>3, <1>5, <1>6, <1>7, <1>8, <1>9, <1>10, <1>11, <1>12, <1>13, <1>14
     DEF Next, Step

(* Every connection and every thread is in one of these situations. *)
THEOREM OwnInvariance == Spec => []OwnInv
<1>1. Init => OwnInv
  BY ClosedQuiet DEF Init, OwnInv, Own
<1>2. Inv /\ OwnInv /\ [Next]_vars => OwnInv'
  BY StepKeepsOwn
<1>3. QED
  BY <1>1, <1>2, Invariance, PTL DEF Spec

(* A request that ends with an answer has read the answer to itself, whatever *)
(* was left on its connection and whoever had it before.                      *)
THEOREM AnswersReachTheirRequest == Spec => []AnswersOwn
<1>1. OwnInv => AnswersOwn
  BY DEF OwnInv, Own, AnswersOwn
<1>2. QED
  BY <1>1, OwnInvariance, PTL

-----------------------------------------------------------------------------
(* What a connection that is kept for 20 seconds only is good for: nothing is *)
(* left on it, the server has not closed it, the next answer is its user's.   *)
Clean(t) ==
  LET l == link[conn[t]] IN
  /\ pc[t] \in {"head", "body"} => l.state = "open"
  /\ pc[t] = "send" /\ l.keep = 20 => l.wire = <<>> /\ l.state # "gone"
  /\ pc[t] = "head" /\ l.keep = 20 =>
       IF l.asked = None THEN l.wire # <<>> /\ Head(l.wire).part # "body" ELSE l.wire = <<>>

Unused(l) == l.keep = 20 => l.wire = <<>> /\ l.state # "gone"

CleanInv == (\A c \in pool : Unused(link[c])) /\ \A t \in Callers : Clean(t)

(* A closed connection is connected anew before it is used. *)
LEMMA ClosedUnused == Unused(Closed)
BY DEF Unused, Closed

(* What the others do does not touch the connection a thread holds. *)
LEMMA OthersKeepClean ==
  ASSUME Inv, CleanInv, NEW u \in Callers,
         pc'[u] = pc[u], conn'[u] = conn[u], held[u] => link'[conn[u]] = link[conn[u]]
  PROVE  Clean(u)'
<1>1. Clean(u)
  BY DEF CleanInv
<1>2. pc[u] \in {"send", "head", "body"} => held[u]
  BY DEF Inv, Holding
<1>3. QED
  BY <1>1, <1>2 DEF Clean

(* The first piece of an answer is no body. *)
LEMMA AnsweredFirst ==
  ASSUME NEW r,
         NEW p \in {<<[part |-> "whole", req |-> r]>>,
                    <<[part |-> "head", req |-> r], [part |-> "body", req |-> r]>>}
  PROVE  <<>> \o p # <<>> /\ Head(<<>> \o p).part # "body"
<1>1. CASE p = <<[part |-> "whole", req |-> r]>>
  BY <1>1
<1>2. CASE p = <<[part |-> "head", req |-> r], [part |-> "body", req |-> r]>>
  BY <1>2
<1>3. QED
  BY <1>1, <1>2

(* An answer that is read to its end leaves nothing behind. *)
LEMMA StepKeepsClean ==
  ASSUME Inv, OwnInv, CleanInv, [Next]_vars
  PROVE  CleanInv'
<1> USE DEF Goto, Outcome, thread, history
<1>0. TypeOK
  BY DEF Inv
<1>1. ASSUME NEW t \in Callers, Call(t) \/ NotBuilt(t) PROVE CleanInv'
  <2>1. \A u \in Callers : u # t => Clean(u)'
    BY <1>0, <1>1, OthersKeepClean DEF Call, NotBuilt, TypeOK
  <2>2. Clean(t)'
    BY <1>0, <1>1 DEF Call, NotBuilt, TypeOK, Clean
  <2>3. QED
    BY <1>1, <2>1, <2>2 DEF Call, NotBuilt, CleanInv
<1>3. ASSUME NEW t \in Callers, Lease(t) PROVE CleanInv'
  <2>1. PICK c \in pool :
          /\ pool' = pool \ {c}
          /\ conn' = [conn EXCEPT ![t] = c]
          /\ link' = [link EXCEPT ![c].state = IF @ = "closed" THEN "open" ELSE @]
    BY <1>3 DEF Lease
  <2>2. c \in Connections /\ link[c] \in Links /\ Unused(link[c])
    BY <1>0 DEF TypeOK, CleanInv
  <2>3. Unused(link'[c])
    BY <1>0, <2>1, <2>2 DEF TypeOK, Links, Unused
  <2>4. \A u \in Callers : held[u] => conn[u] # c
    BY <2>2 DEF Inv, Holding
  <2>5. ASSUME NEW u \in Callers, u # t PROVE Clean(u)'
    <3>1. held[u] => link'[conn[u]] = link[conn[u]]
      BY <1>0, <2>1, <2>4 DEF TypeOK, Inv, Holding
    <3>2. pc'[u] = pc[u] /\ conn'[u] = conn[u]
      BY <1>0, <1>3, <2>1, <2>5 DEF Lease, TypeOK
    <3>3. QED
      BY <3>1, <3>2, OthersKeepClean
  <2>6. Clean(t)'
    BY <1>0, <1>3, <2>1, <2>3 DEF Lease, TypeOK, Clean, Unused
  <2>7. \A d \in pool' : Unused(link'[d])
    BY <1>0, <2>1, <2>2 DEF TypeOK, CleanInv
  <2>8. QED
    BY <2>5, <2>6, <2>7 DEF CleanInv
<1>4. ASSUME NEW t \in Callers, pc[t] \in {"send", "head", "body"}, Abort(t)
      PROVE  CleanInv'
  <2>1. held[t] /\ conn[t] \in Connections /\ conn[t] \notin pool
    BY <1>4, OnTheWay
  <2>2. \A u \in Callers : u # t => Clean(u)'
    BY <1>0, <1>4, <2>1, Elsewhere, OthersKeepClean DEF Abort, TypeOK
  <2>3. Clean(t)'
    BY <1>0, <1>4, <2>1 DEF Abort, TypeOK, Clean
  <2>4. \A d \in pool' : Unused(link'[d])
    BY <1>0, <1>4, <2>1, ClosedUnused DEF Abort, TypeOK, CleanInv
  <2>5. QED
    BY <2>2, <2>3, <2>4 DEF CleanInv
<1>5. ASSUME NEW t \in Callers, Send(t) PROVE CleanInv'
  <2>1. held[t] /\ conn[t] \in Connections /\ conn[t] \notin pool /\ link[conn[t]] \in Links
    BY <1>5, OnTheWay DEF Send
  <2>2. \A u \in Callers : u # t => Clean(u)'
    BY <1>0, <1>5, <2>1, Elsewhere, OthersKeepClean DEF Send, TypeOK
  <2>3. Req(t) # None
    BY <1>5, RequestTyped, HttpAssumption DEF Send, Requests
  <2>4. /\ link'[conn[t]].asked = Req(t) /\ link'[conn[t]].wire = link[conn[t]].wire
        /\ link'[conn[t]].keep = link[conn[t]].keep /\ link'[conn[t]].state = "open"
    BY <1>0, <1>5, <2>1 DEF Send, TypeOK, Links
  <2>5. Clean(t)
    BY DEF CleanInv
  <2>6. Clean(t)'
    BY <1>0, <1>5, <2>3, <2>4, <2>5 DEF Send, TypeOK, Clean
  <2>7. \A d \in pool' : Unused(link'[d])
    BY <1>0, <1>5, <2>1 DEF Send, TypeOK, CleanInv
  <2>8. QED
    BY <2>2, <2>6, <2>7 DEF CleanInv
<1>6. ASSUME NEW t \in Callers, ReadWhole(t) \/ ReadBody(t) PROVE CleanInv'
  <2> DEFINE l == link[conn[t]]
  <2>1. /\ held[t] /\ conn[t] \in Connections /\ conn[t] \notin pool /\ l \in Links
        /\ pc[t] \in {"head", "body"} /\ ReadToEnd(t)
    BY <1>6, OnTheWay DEF ReadWhole, ReadBody
  <2>2. \A u \in Callers : u # t => Clean(u)'
    BY <1>0, <1>6, <2>1, Elsewhere, OthersKeepClean DEF ReadWhole, ReadBody, ReadToEnd, TypeOK
  <2>3. Tail(l.wire) = <<>>
    BY <1>6, <2>1, AnswerIsOwn, BodyIsOwn DEF ReadWhole, ReadBody, Finds, OwnInv, Own
  <2>4. link'[conn[t]].state = l.state /\ link'[conn[t]].wire = Tail(l.wire)
    BY <1>0, <2>1 DEF ReadToEnd, TypeOK, Links
  <2>5. l.state = "open"
    BY <2>1 DEF CleanInv, Clean
  <2>6. Clean(t)'
    BY <1>0, <2>1 DEF ReadToEnd, TypeOK, Clean
  <2>7. \A d \in pool' : Unused(link'[d])
    BY <1>0, <2>1, <2>3, <2>4, <2>5 DEF ReadToEnd, TypeOK, CleanInv, Unused
  <2>8. QED
    BY <2>2, <2>6, <2>7 DEF CleanInv
<1>7. ASSUME NEW t \in Callers, ReadHead(t) PROVE CleanInv'
  <2>1. held[t] /\ conn[t] \in Connections /\ conn[t] \notin pool /\ link[conn[t]] \in Links
    BY <1>7, OnTheWay DEF ReadHead
  <2>2. \A u \in Callers : u # t => Clean(u)'
    BY <1>0, <1>7, <2>1, Elsewhere, OthersKeepClean DEF ReadHead, TypeOK
  <2>3. link'[conn[t]].state = link[conn[t]].state /\ link[conn[t]].state = "open"
    BY <1>0, <1>7, <2>1 DEF ReadHead, TypeOK, Links, CleanInv, Clean
  <2>4. Clean(t)'
    BY <1>0, <1>7, <2>3 DEF ReadHead, TypeOK, Clean
  <2>5. \A d \in pool' : Unused(link'[d])
    BY <1>0, <1>7, <2>1 DEF ReadHead, TypeOK, CleanInv
  <2>6. QED
    BY <2>2, <2>4, <2>5 DEF CleanInv
<1>8. ASSUME NEW t \in Callers, SkipLeftover(t) PROVE CleanInv'
  <2>1. held[t] /\ conn[t] \in Connections /\ conn[t] \notin pool /\ link[conn[t]] \in Links
    BY <1>8, OnTheWay DEF SkipLeftover
  <2>2. \A u \in Callers : u # t => Clean(u)'
    BY <1>0, <1>8, <2>1, Elsewhere, OthersKeepClean DEF SkipLeftover, TypeOK
  <2>3. link[conn[t]].keep # 20 /\ link[conn[t]].state = "open"
    BY <1>8, <2>1 DEF SkipLeftover, Finds, CleanInv, Clean
  <2>4. /\ link'[conn[t]].state = link[conn[t]].state
        /\ link'[conn[t]].keep = link[conn[t]].keep
    BY <1>0, <1>8, <2>1 DEF SkipLeftover, TypeOK, Links
  <2>5. Clean(t)'
    BY <1>0, <1>8, <2>3, <2>4 DEF SkipLeftover, TypeOK, Clean
  <2>6. \A d \in pool' : Unused(link'[d])
    BY <1>0, <1>8, <2>1 DEF SkipLeftover, TypeOK, CleanInv
  <2>7. QED
    BY <2>2, <2>5, <2>6 DEF CleanInv
<1>10. ASSUME NEW t \in Callers, Release(t) PROVE CleanInv'
  <2>1. Clean(t)'
    BY <1>0, <1>10 DEF Release, Leave, TypeOK, Clean
  <2>2. CASE held[t]
    <3>1. conn[t] \in Connections /\ link[conn[t]] \in Links
      BY <1>0, <2>2, HeldConnection DEF TypeOK
    <3>2. \A u \in Callers : u # t => Clean(u)'
      BY <1>0, <1>10, <2>2, <3>1, Elsewhere, OthersKeepClean DEF Release, Leave, TypeOK
    <3>3. link'[conn[t]].keep = 30
      BY <1>0, <1>10, <2>2, <3>1 DEF Release, TypeOK, Links
    <3>4. \A d \in pool' : Unused(link'[d])
      BY <1>0, <1>10, <2>2, <3>1, <3>3 DEF Release, TypeOK, CleanInv, Unused
    <3>5. QED
      BY <2>1, <3>2, <3>4 DEF CleanInv
  <2>3. CASE ~held[t]
    <3>1. \A u \in Callers : u # t => Clean(u)'
      BY <1>0, <1>10, <2>3, OthersKeepClean DEF Release, Leave, TypeOK
    <3>2. QED
      BY <1>10, <2>1, <2>3, <3>1 DEF Release, CleanInv
  <2>4. QED
    BY <2>2, <2>3
<1>11. ASSUME NEW c \in Connections, Answer(c) PROVE CleanInv'
  <2> DEFINE r == link[c].asked
  <2>1. r # None /\ c \notin pool /\ link[c] \in Links
    BY <1>0, <1>11 DEF Answer, OwnInv, Quiet, TypeOK
  <2>2. PICK t \in Callers : held[t] /\ conn[t] = c
    BY <2>1 DEF Inv, Holding
  <2>3. pc[t] = "head" /\ Clean(t)
    BY <1>0, <2>1, <2>2
       DEF OwnInv, Own, Quiet, Reading, Awaiting, Inv, Holding, TypeOK, Places, CleanInv
  <2>4. PICK p \in {<<[part |-> "whole", req |-> r]>>,
                    <<[part |-> "head", req |-> r], [part |-> "body", req |-> r]>>} :
          link' = [link EXCEPT ![c].wire = @ \o p, ![c].asked = None]
    BY <1>11 DEF Answer
  <2>5. /\ link'[c].state = link[c].state /\ link'[c].keep = link[c].keep
        /\ link'[c].asked = None /\ link'[c].wire = link[c].wire \o p
    BY <1>0, <2>1, <2>4 DEF TypeOK, Links
  <2>6. link[c].wire = <<>> => link'[c].wire # <<>> /\ Head(link'[c].wire).part # "body"
    BY <2>1, <2>4, <2>5, AnsweredFirst
  <2>7. Clean(t)'
    BY <1>11, <2>1, <2>2, <2>3, <2>5, <2>6 DEF Answer, Clean
  <2>8. \A u \in Callers : u # t => Clean(u)'
    BY <1>0, <1>11, <2>2, <2>4, Elsewhere, OthersKeepClean DEF Answer, TypeOK
  <2>9. \A d \in pool' : Unused(link'[d])
    BY <1>0, <1>11, <2>1, <2>4 DEF Answer, TypeOK, CleanInv
  <2>10. QED
    BY <2>7, <2>8, <2>9 DEF CleanInv
<1>12. ASSUME NEW c \in Connections, Idle20(c) \/ Idle30(c) PROVE CleanInv'
  <2>1. /\ c \in pool /\ pool' = pool /\ link[c] \in Links
        /\ \/ link' = [link EXCEPT ![c] = Closed]
           \/ link[c].keep # 20 /\ link' = [link EXCEPT ![c].state = "gone"]
    BY <1>0, <1>12 DEF Idle20, Idle30, TypeOK
  <2>2. Unused(link'[c])
    BY <1>0, <2>1, ClosedUnused DEF TypeOK, Unused, Links
  <2>3. \A d \in pool' : Unused(link'[d])
    BY <1>0, <2>1, <2>2 DEF TypeOK, CleanInv
  <2>4. \A u \in Callers : held[u] => conn[u] # c /\ conn[u] \in Connections
    BY <2>1 DEF Inv, Holding
  <2>5. \A u \in Callers : Clean(u)'
    BY <1>0, <1>12, <2>1, <2>4, OthersKeepClean DEF Idle20, Idle30, TypeOK
  <2>6. QED
    BY <2>3, <2>5 DEF CleanInv
<1>13. CASE UNCHANGED vars
  BY <1>13 DEF vars, CleanInv, Clean
<1>14. ASSUME NEW t \in Callers, SendTooLate(t) \/ NoHeadLeft(t) \/ Break(t) PROVE CleanInv'
  BY <1>4, <1>14 DEF SendTooLate, NoHeadLeft, Break
<1>15. QED
  BY <1>1, <1>3, <1>5, <1>6, <1>7, <1>8, <1>10, <1>11, <1>12, <1>13, <1>14
     DEF Next, Step

(* The connections postNoReturn has given back, until they are closed or an answer *)
(* on them is read to its end.                                                     *)
Kept30 == {c \in Connections : link[c].keep = 30}

(* A request fails for what came before it only on such a connection, which is *)
(* then closed; only a release of a held connection makes a new one.           *)
SpoilInv == IsFiniteSet(Kept30) /\ spoiled + Cardinality(Kept30) <= left

(* What a step does to them: c is released unread, c spoils a request, or neither. *)
KeptFor30(c) == Kept30' = Kept30 \cup {c} /\ left' = left + 1 /\ spoiled' = spoiled
Spoils(c)    == c \in Kept30 /\ Kept30' = Kept30 \ {c} /\ left' = left /\ spoiled' = spoiled + 1
Spares       == Kept30' \subseteq Kept30 /\ left' = left /\ spoiled' = spoiled

(* Every step of a request, of the server or of the clock is one of these. *)
LEMMA KeptSteps ==
  ASSUME Inv, OwnInv, CleanInv, [Next]_vars
  PROVE  Spares \/ \E c \in Connections : KeptFor30(c) \/ Spoils(c)
<1> USE DEF Goto, Outcome, thread, history
<1>0. TypeOK
  BY DEF Inv
<1>1. ASSUME NEW t \in Callers, Call(t) \/ NotBuilt(t) PROVE Spares
  BY <1>1 DEF Call, NotBuilt, Spares, Kept30
<1>2. ASSUME NEW t \in Callers, Lease(t) \/ Send(t) \/ ReadHead(t) \/ SkipLeftover(t) PROVE Spares
  <2>1. ASSUME Lease(t) PROVE \A c \in Connections : link'[c].keep = link[c].keep
    BY <1>0, <2>1 DEF Lease, TypeOK, Links
  <2>2. ASSUME Send(t) PROVE \A c \in Connections : link'[c].keep = link[c].keep
    BY <1>0, <2>2 DEF Send, TypeOK, Links
  <2>3. ASSUME ReadHead(t) PROVE \A c \in Connections : link'[c].keep = link[c].keep
    BY <1>0, <2>3 DEF ReadHead, TypeOK, Links
  <2>4. ASSUME SkipLeftover(t) PROVE \A c \in Connections : link'[c].keep = link[c].keep
    BY <1>0, <2>4 DEF SkipLeftover, TypeOK, Links
  <2>5. QED
    BY <1>2, <2>1, <2>2, <2>3, <2>4 DEF Lease, Send, ReadHead, SkipLeftover, Spares, Kept30
<1>3. ASSUME NEW t \in Callers, ReadWhole(t) \/ ReadBody(t) PROVE Spares
  <2>1. conn[t] \in Connections /\ ReadToEnd(t)
    BY <1>3, OnTheWay DEF ReadWhole, ReadBody
  <2>2. \A c \in Connections : link'[c].keep \in {20, link[c].keep}
    BY <1>0, <2>1 DEF ReadToEnd, TypeOK, Links
  <2>3. QED
    BY <1>3, <2>2 DEF ReadWhole, ReadBody, Spares, Kept30
<1>4. ASSUME NEW t \in Callers, Break(t) PROVE Spares
  <2>1. conn[t] \in Connections /\ Abort(t)
    BY <1>4, OnTheWay DEF Break
  <2>2. \A c \in Connections : link'[c].keep \in {20, link[c].keep}
    BY <1>0, <2>1 DEF Abort, Closed, TypeOK
  <2>3. QED
    BY <1>4, <2>2 DEF Break, Spares, Kept30
<1>5. ASSUME NEW t \in Callers, SendTooLate(t) \/ NoHeadLeft(t) PROVE Spoils(conn[t])
  <2>1. conn[t] \in Connections /\ Abort(t) /\ link[conn[t]] \in Links
    BY <1>5, OnTheWay DEF SendTooLate, NoHeadLeft
  <2>2. link[conn[t]].keep = 30
    BY <1>5, <2>1 DEF SendTooLate, NoHeadLeft, CleanInv, Clean, Links
  <2>3. /\ link'[conn[t]].keep = 20
        /\ \A c \in Connections : c # conn[t] => link'[c].keep = link[c].keep
    BY <1>0, <2>1 DEF Abort, Closed, TypeOK
  <2>4. QED
    BY <1>5, <2>1, <2>2, <2>3 DEF SendTooLate, NoHeadLeft, Spoils, Kept30
<1>6. ASSUME NEW t \in Callers, Release(t)
      PROVE  Spares \/ \E c \in Connections : KeptFor30(c)
  <2>1. CASE held[t]
    <3>1. conn[t] \in Connections /\ link[conn[t]] \in Links
      BY <1>0, <2>1, HeldConnection DEF TypeOK
    <3>2. /\ link'[conn[t]].keep = 30
          /\ \A c \in Connections : c # conn[t] => link'[c].keep = link[c].keep
      BY <1>0, <1>6, <2>1, <3>1 DEF Release, TypeOK, Links
    <3>3. QED
      BY <1>6, <2>1, <3>1, <3>2 DEF Release, Leave, KeptFor30, Kept30
  <2>2. CASE ~held[t]
    BY <1>6, <2>2 DEF Release, Leave, Spares, Kept30
  <2>3. QED
    BY <2>1, <2>2
<1>7. ASSUME NEW c \in Connections, Answer(c) \/ Idle20(c) \/ Idle30(c) PROVE Spares
  <2>1. ASSUME Answer(c) PROVE \A d \in Connections : link'[d].keep \in {20, link[d].keep}
    BY <1>0, <2>1 DEF Answer, TypeOK, Links
  <2>2. ASSUME Idle20(c) PROVE \A d \in Connections : link'[d].keep \in {20, link[d].keep}
    <3>1. link' = [link EXCEPT ![c] = Closed] \/ link' = [link EXCEPT ![c].state = "gone"]
      BY <1>0, <2>2 DEF Idle20, TypeOK
    <3>2. link[c] \in Links /\ Closed.keep = 20
      BY <1>0 DEF TypeOK, Closed
    <3>3. link'[c].keep \in {20, link[c].keep}
      BY <1>0, <3>1, <3>2 DEF TypeOK, Links
    <3>4. \A d \in Connections : d # c => link'[d] = link[d]
      BY <1>0, <3>1 DEF TypeOK
    <3>5. QED
      BY <3>3, <3>4
  <2>3. ASSUME Idle30(c) PROVE \A d \in Connections : link'[d].keep \in {20, link[d].keep}
    BY <1>0, <2>3 DEF Idle30, Closed, TypeOK
  <2>4. Kept30' \subseteq Kept30
    BY <1>7, <2>1, <2>2, <2>3 DEF Kept30
  <2>5. QED
    BY <1>7, <2>4 DEF Answer, Idle20, Idle30, Spares
<1>8. CASE UNCHANGED vars
  BY <1>8 DEF vars, Spares, Kept30
<1>9. ASSUME NEW t \in Callers, SendTooLate(t) \/ NoHeadLeft(t)
      PROVE  \E c \in Connections : Spoils(c)
  BY <1>5, <1>9, OnTheWay DEF SendTooLate, NoHeadLeft
<1>10. QED
  BY <1>1, <1>2, <1>3, <1>4, <1>6, <1>7, <1>8, <1>9 DEF Next, Step

(* No more requests fail for what came before them than postNoReturn was called. *)
THEOREM SpoiledBound == Spec => []SpoiledByNoReturn
<1>1. Init => CleanInv /\ SpoilInv
  <2>1. Init => CleanInv
    BY ClosedUnused DEF Init, CleanInv, Clean
  <2>2. Init => Kept30 = {} /\ spoiled = 0 /\ left = 0
    BY DEF Init, Kept30, Closed
  <2>3. QED
    BY <2>1, <2>2, FS_EmptySet DEF SpoilInv
<1>2. Inv /\ OwnInv /\ CleanInv /\ SpoilInv /\ [Next]_vars => CleanInv' /\ SpoilInv'
  <2> SUFFICES ASSUME Inv, OwnInv, CleanInv, SpoilInv, [Next]_vars
               PROVE  CleanInv' /\ SpoilInv'
    OBVIOUS
  <2>1. /\ spoiled \in Nat /\ left \in Nat /\ IsFiniteSet(Kept30)
        /\ Cardinality(Kept30) \in Nat /\ spoiled + Cardinality(Kept30) <= left
    BY FS_CardinalityType DEF Inv, TypeOK, SpoilInv
  <2>2. CASE Spares
    <3>1. IsFiniteSet(Kept30') /\ Cardinality(Kept30') <= Cardinality(Kept30)
          /\ Cardinality(Kept30') \in Nat
      BY <2>1, <2>2, FS_Subset, FS_CardinalityType DEF Spares
    <3>2. QED
      BY <2>1, <2>2, <3>1, StepKeepsClean DEF Spares, SpoilInv
  <2>3. ASSUME NEW c \in Connections, KeptFor30(c) PROVE SpoilInv'
    <3>1. IsFiniteSet(Kept30') /\ Cardinality(Kept30') <= Cardinality(Kept30) + 1
          /\ Cardinality(Kept30') \in Nat
      <4>1. /\ IsFiniteSet(Kept30 \cup {c})
            /\ Cardinality(Kept30 \cup {c}) = Cardinality(Kept30)
               \/ Cardinality(Kept30 \cup {c}) = Cardinality(Kept30) + 1
        BY <2>1, FS_AddElement
      <4>2. Kept30' = Kept30 \cup {c}
        BY <2>3 DEF KeptFor30
      <4>3. QED
        BY <2>1, <4>1, <4>2
    <3>2. QED
      BY <2>1, <2>3, <3>1 DEF KeptFor30, SpoilInv
  <2>4. ASSUME NEW c \in Connections, Spoils(c) PROVE SpoilInv'
    <3>1. IsFiniteSet(Kept30') /\ Cardinality(Kept30') = Cardinality(Kept30) - 1
          /\ Cardinality(Kept30') \in Nat
      BY <2>1, <2>4, FS_RemoveElement, FS_CardinalityType DEF Spoils
    <3>2. QED
      BY <2>1, <2>4, <3>1 DEF Spoils, SpoilInv
  <2>5. QED
    BY <2>2, <2>3, <2>4, KeptSteps, StepKeepsClean
<1>3. Inv /\ SpoilInv => SpoiledByNoReturn
  BY FS_CardinalityType DEF Inv, TypeOK, SpoilInv, SpoiledByNoReturn
<1>4. Spec => []OwnInv
  BY OwnInvariance
<1>5. QED
  BY <1>1, <1>2, <1>3, <1>4, Invariance, PTL DEF Spec

=============================================================================

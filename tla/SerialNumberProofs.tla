------------------------- MODULE SerialNumberProofs -------------------------
(* Proofs about nextLong for every number of threads, connections, calls, *)
(* failures and every maxValue.                                           *)
EXTENDS SerialNumberProps, FiniteSetTheorems, TLAPS

(* A deletion leaves every variable it writes in its type. *)
LEMMA DeleteKeyTyped ==
  ASSUME TypeOK, NEW c \in Connections, DeleteKey(c)
  PROVE  /\ counter' = 0
         /\ watch' \in [Connections -> {"none", "clean", "dirty"}]
         /\ exhausted' \in Nat
         /\ premature' \in Nat
<1>1. Touched \in [Connections -> {"none", "clean", "dirty"}]
  BY DEF TypeOK, Touched
<1>2. (IF counter = 0 THEN watch ELSE Touched) \in [Connections -> {"none", "clean", "dirty"}]
  BY <1>1 DEF TypeOK
<1>3. watch' \in [Connections -> {"none", "clean", "dirty"}]
  BY <1>2 DEF DeleteKey
<1> QED
  BY <1>3 DEF DeleteKey, TypeOK

(* Types alone are not inductive: that returnResource is never given a null *)
(* connection follows from where connections are.                           *)
LEMMA StepKeepsTypes ==
  ASSUME TypeOK, ConnectionsInOnePlace, [Next]_vars
  PROVE  TypeOK'
<1> USE SerialAssumption DEF TypeOK, Goto, history, Places, Holding, Overflowing
<1>0. \A t \in Threads : pc[t] \in Holding => conn[t] \in Connections
  BY DEF ConnectionsInOnePlace
<1>1. ASSUME NEW t \in Threads, Call(t) PROVE TypeOK'
  BY <1>1 DEF Call
<1>2. ASSUME NEW t \in Threads, Borrow(t) PROVE TypeOK'
  BY <1>2 DEF Borrow
<1>3. ASSUME NEW t \in Threads, BorrowFails(t) PROVE TypeOK'
  BY <1>3 DEF BorrowFails
<1>4. ASSUME NEW t \in Threads, Incr(t) PROVE TypeOK'
  BY <1>4 DEF Incr, IncrAbove, Touched, Handed, generation
<1>5. ASSUME NEW t \in Threads, Watch(t) PROVE TypeOK'
  BY <1>5 DEF Watch
<1>6. ASSUME NEW t \in Threads, Multi(t) PROVE TypeOK'
  BY <1>6 DEF Multi
<1>7. ASSUME NEW t \in Threads, Exec(t) PROVE TypeOK'
  <2>1. CASE watch[conn[t]] = "clean" /\ DeleteKey(conn[t])
    BY <1>7, <1>0, <2>1, DeleteKeyTyped DEF Exec
  <2>2. CASE watch[conn[t]] # "clean"
    BY <1>7, <1>0, <2>2 DEF Exec
  <2> QED
    BY <1>7, <2>1, <2>2 DEF Exec
<1>8. ASSUME NEW t \in Threads, Return(t) PROVE TypeOK'
  BY <1>8, <1>0 DEF Return, Leave
<1>9. ASSUME NEW t \in Threads, pc[t] \in Holding, Break(t)
      PROVE  /\ pool' \subseteq Connections
             /\ lost' \subseteq Connections
             /\ pc' \in [Threads -> Places]
             /\ conn' \in [Threads -> Connections \cup {NoConn}]
             /\ ret' \in [Threads -> Nat \cup {-1}]
             /\ depth' \in [Threads -> 0..MaxDepth]
             /\ calls' \in [Threads -> Nat]
             /\ failures' \in Nat
             /\ seenAt' \in [Threads -> Nat]
             /\ handed' \subseteq Handed
  BY <1>9, <1>0 DEF Break, Leave
<1>10. ASSUME NEW t \in Threads, BreakBefore(t) PROVE TypeOK'
  BY <1>10, <1>9 DEF BreakBefore
<1>11. ASSUME NEW t \in Threads, BreakAfterIncr(t) PROVE TypeOK'
  BY <1>11, <1>9 DEF BreakAfterIncr, Touched
<1>12. ASSUME NEW t \in Threads, BreakAfterExec(t) PROVE TypeOK'
  BY <1>12, <1>9, <1>0, DeleteKeyTyped DEF BreakAfterExec
<1>13. CASE UNCHANGED vars
  BY <1>13 DEF vars
<1> QED
  BY <1>1, <1>2, <1>3, <1>4, <1>5, <1>6, <1>7, <1>8, <1>10, <1>11, <1>12, <1>13
  DEF Next, Step, Failure, Quiet

(* A step moves at most the connection of the thread that takes it. *)
LEMMA StepKeepsConnections ==
  ASSUME TypeOK, ConnectionsInOnePlace, [Next]_vars
  PROVE  ConnectionsInOnePlace'
<1> USE SerialAssumption DEF TypeOK, ConnectionsInOnePlace, Goto, history,
                             Places, Holding, Overflowing
<1>1. ASSUME NEW t \in Threads, Call(t) PROVE ConnectionsInOnePlace'
  BY <1>1 DEF Call
<1>2. ASSUME NEW t \in Threads, Borrow(t) PROVE ConnectionsInOnePlace'
  BY <1>2 DEF Borrow
<1>3. ASSUME NEW t \in Threads, BorrowFails(t) PROVE ConnectionsInOnePlace'
  BY <1>3 DEF BorrowFails
<1>4. ASSUME NEW t \in Threads, Incr(t) PROVE ConnectionsInOnePlace'
  BY <1>4 DEF Incr, IncrAbove
<1>5. ASSUME NEW t \in Threads, Watch(t) PROVE ConnectionsInOnePlace'
  BY <1>5 DEF Watch
<1>6. ASSUME NEW t \in Threads, Multi(t) PROVE ConnectionsInOnePlace'
  BY <1>6 DEF Multi
<1>7. ASSUME NEW t \in Threads, Exec(t) PROVE ConnectionsInOnePlace'
  BY <1>7 DEF Exec
<1>8. ASSUME NEW t \in Threads, Return(t) PROVE ConnectionsInOnePlace'
  BY <1>8 DEF Return, Leave
<1>9. ASSUME NEW t \in Threads, pc[t] \in Holding, Break(t)
      PROVE  ConnectionsInOnePlace'
  BY <1>9 DEF Break, Leave
<1>10. ASSUME NEW t \in Threads,
              BreakBefore(t) \/ BreakAfterIncr(t) \/ BreakAfterExec(t)
       PROVE  ConnectionsInOnePlace'
  <2>1. pc[t] \in Holding /\ Break(t)
    BY <1>10 DEF BreakBefore, BreakAfterIncr, BreakAfterExec
  <2> QED
    BY <2>1, <1>9
<1>11. CASE UNCHANGED vars
  BY <1>11 DEF vars
<1> QED
  BY <1>1, <1>2, <1>3, <1>4, <1>5, <1>6, <1>7, <1>8, <1>10, <1>11
  DEF Next, Step, Failure, Quiet

(* Every variable of the generator stays in its type; only connections, never *)
(* a null reference, are given back to the JedisPool.                          *)
THEOREM TypeCorrect == Spec => []TypeOK
<1>1. Init => TypeOK /\ ConnectionsInOnePlace
  BY SerialAssumption DEF Init, TypeOK, ConnectionsInOnePlace, Places, Holding, Overflowing
<1>2. TypeOK /\ ConnectionsInOnePlace /\ [Next]_vars => (TypeOK /\ ConnectionsInOnePlace)'
  BY StepKeepsTypes, StepKeepsConnections
<1> QED
  BY <1>1, <1>2, PTL DEF Spec

(* Each connection of the JedisPool is lent to one caller of nextLong at most, *)
(* and a caller that waits or recurses holds none.                             *)
THEOREM ConnectionSafety == Spec => []ConnectionsInOnePlace
<1>1. Init => TypeOK /\ ConnectionsInOnePlace
  BY SerialAssumption DEF Init, TypeOK, ConnectionsInOnePlace, Places, Holding, Overflowing
<1>2. TypeOK /\ ConnectionsInOnePlace /\ [Next]_vars => (TypeOK /\ ConnectionsInOnePlace)'
  BY StepKeepsTypes, StepKeepsConnections
<1> QED
  BY <1>1, <1>2, PTL DEF Spec

-----------------------------------------------------------------------------
(* How a step moves the counter and the generation: not at all, by one      *)
(* number, or by the deletion of a counter that exists.                     *)
LEMMA CounterSteps ==
  ASSUME TypeOK, ConnectionsInOnePlace, [Next]_vars
  PROVE  \/ counter' = counter /\ generation' = generation
         \/ counter' = counter + 1 /\ generation' = generation
         \/ counter' = 0 /\ counter > 0 /\ generation' = generation + 1
<1> USE SerialAssumption DEF TypeOK, generation, history
<1> DEFINE Moved == \/ counter' = counter /\ generation' = generation
                    \/ counter' = counter + 1 /\ generation' = generation
                    \/ counter' = 0 /\ counter > 0 /\ generation' = generation + 1
<1>1. ASSUME NEW c \in Connections, DeleteKey(c) PROVE Moved
  BY <1>1 DEF DeleteKey
<1>2. ASSUME NEW t \in Threads, Call(t) \/ Borrow(t) \/ BorrowFails(t) PROVE Moved
  BY <1>2 DEF Call, Borrow, BorrowFails
<1>3. ASSUME NEW t \in Threads, Incr(t) PROVE Moved
  BY <1>3 DEF Incr, IncrAbove
<1>4. ASSUME NEW t \in Threads, Watch(t) \/ Multi(t) \/ Return(t) PROVE Moved
  BY <1>4 DEF Watch, Multi, Return
<1>5. ASSUME NEW t \in Threads, pc[t] = "exec" PROVE conn[t] \in Connections
  BY <1>5 DEF ConnectionsInOnePlace, Holding, Overflowing
<1>6. ASSUME NEW t \in Threads, Exec(t) PROVE Moved
  BY <1>6, <1>5, <1>1 DEF Exec
<1>7. ASSUME NEW t \in Threads, BreakBefore(t) \/ BreakAfterIncr(t) PROVE Moved
  BY <1>7 DEF BreakBefore, BreakAfterIncr
<1>8. ASSUME NEW t \in Threads, BreakAfterExec(t) PROVE Moved
  BY <1>8, <1>5, <1>1 DEF BreakAfterExec
<1>9. CASE UNCHANGED vars
  BY <1>9 DEF vars
<1> QED
  BY <1>2, <1>3, <1>4, <1>6, <1>7, <1>8, <1>9 DEF Next, Step, Failure, Quiet

(* Where a thread comes from that stands in the overflow branch after a step: *)
(* it was there before and remembers the same generation, or it has just read *)
(* a number above maxValue.                                                   *)
LEMMA OverflowSteps ==
  ASSUME TypeOK, ConnectionsInOnePlace, [Next]_vars,
         NEW u \in Threads, pc'[u] \in Overflowing
  PROVE  \/ pc[u] \in Overflowing /\ seenAt'[u] = seenAt[u]
         \/ /\ seenAt'[u] = generation
            /\ counter' > MaxValue
            /\ generation' = generation
<1> USE SerialAssumption DEF TypeOK, Goto, history, Overflowing, generation, Places, Holding
<1>1. ASSUME NEW t \in Threads,
             Call(t) \/ Borrow(t) \/ BorrowFails(t) \/ Watch(t) \/ Multi(t)
      PROVE  pc[u] \in Overflowing /\ seenAt'[u] = seenAt[u]
  BY <1>1 DEF Call, Borrow, BorrowFails, Watch, Multi
<1>2. ASSUME NEW t \in Threads, Incr(t)
      PROVE  \/ pc[u] \in Overflowing /\ seenAt'[u] = seenAt[u]
             \/ /\ seenAt'[u] = generation
                /\ counter' > MaxValue
                /\ generation' = generation
  BY <1>2 DEF Incr, IncrAbove
<1>3. ASSUME NEW t \in Threads, Exec(t)
      PROVE  pc[u] \in Overflowing /\ seenAt'[u] = seenAt[u]
  BY <1>3 DEF Exec
<1>4. ASSUME NEW t \in Threads,
             Return(t) \/ BreakBefore(t) \/ BreakAfterIncr(t) \/ BreakAfterExec(t)
      PROVE  pc[u] \in Overflowing /\ seenAt'[u] = seenAt[u]
  BY <1>4 DEF Return, BreakBefore, BreakAfterIncr, BreakAfterExec, Break, Leave
<1>5. CASE UNCHANGED vars
  BY <1>5 DEF vars
<1> QED
  BY <1>1, <1>2, <1>3, <1>4, <1>5 DEF Next, Step, Failure, Quiet

(* No thread of the overflow branch remembers a generation yet to come. *)
OverflowInv ==
  /\ \A t \in Threads : pc[t] \in Overflowing => seenAt[t] <= generation
  /\ OverflowHoldsUntilDeletion

(* Every step keeps what is known of the overflow. *)
LEMMA StepKeepsOverflowInv ==
  ASSUME TypeOK, ConnectionsInOnePlace, OverflowInv, [Next]_vars
  PROVE  OverflowInv'
<1> SUFFICES ASSUME NEW u \in Threads, pc'[u] \in Overflowing
             PROVE  /\ seenAt'[u] <= generation'
                    /\ seenAt'[u] = generation' => counter' > MaxValue
  BY DEF OverflowInv, OverflowHoldsUntilDeletion
<1>1. generation \in Nat /\ counter \in Nat /\ seenAt[u] \in Nat /\ MaxValue \in Nat
  BY SerialAssumption DEF TypeOK, generation
<1>2. CASE pc[u] \in Overflowing /\ seenAt'[u] = seenAt[u]
  BY <1>1, <1>2, CounterSteps DEF OverflowInv, OverflowHoldsUntilDeletion
<1>3. CASE seenAt'[u] = generation /\ counter' > MaxValue /\ generation' = generation
  BY <1>1, <1>3
<1> QED
  BY <1>2, <1>3, OverflowSteps

(* What a thread knows when it decides to delete the key stays true until     *)
(* somebody deletes it: the check of line 42 is only made stale by line 46.   *)
THEOREM OverflowKnowledge == Spec => []OverflowHoldsUntilDeletion
<1>1. Init => TypeOK /\ ConnectionsInOnePlace /\ OverflowInv
  BY SerialAssumption DEF Init, TypeOK, ConnectionsInOnePlace, Places, Holding,
       Overflowing, OverflowInv, OverflowHoldsUntilDeletion
<1>2. TypeOK /\ ConnectionsInOnePlace /\ OverflowInv /\ [Next]_vars
        => (TypeOK /\ ConnectionsInOnePlace /\ OverflowInv)'
  BY StepKeepsTypes, StepKeepsConnections, StepKeepsOverflowInv
<1>3. OverflowInv => OverflowHoldsUntilDeletion
  BY DEF OverflowInv
<1> QED
  BY <1>1, <1>2, <1>3, PTL DEF Spec

-----------------------------------------------------------------------------
(* What is handed out was counted: no number of the running generation is     *)
(* above the counter, none belongs to a generation to come.                   *)
HandedWereCounted ==
  \A h \in handed : /\ h.gen <= generation
                    /\ h.gen = generation => h.num <= counter

(* Only an INCR that answers hands out a number, and it is the next one. *)
LEMMA HandedSteps ==
  ASSUME TypeOK, [Next]_vars
  PROVE  \/ handed' = handed
         \/ \E t \in Threads :
              /\ handed' = handed \cup {[gen |-> generation, num |-> counter + 1,
                                         to |-> t, call |-> calls[t]]}
              /\ counter' = counter + 1
              /\ generation' = generation
<1> USE DEF history, generation
<1>1. ASSUME NEW t \in Threads, Incr(t)
      PROVE  \/ handed' = handed
             \/ /\ handed' = handed \cup {[gen |-> generation, num |-> counter + 1,
                                            to |-> t, call |-> calls[t]]}
                /\ counter' = counter + 1
                /\ generation' = generation
  BY <1>1 DEF Incr, IncrAbove
<1>2. ASSUME NEW t \in Threads,
             \/ Call(t) \/ Borrow(t) \/ Watch(t) \/ Multi(t) \/ Exec(t) \/ Return(t)
             \/ BorrowFails(t)
             \/ BreakBefore(t) \/ BreakAfterIncr(t) \/ BreakAfterExec(t)
      PROVE  handed' = handed
  BY <1>2 DEF Call, Borrow, Watch, Multi, Exec, Return, BorrowFails, BreakBefore,
              BreakAfterIncr, BreakAfterExec, Break
<1>3. CASE UNCHANGED vars
  BY <1>3 DEF vars
<1> QED
  BY <1>1, <1>2, <1>3 DEF Next, Step, Failure, Quiet

(* Every step keeps what is known of the numbers handed out. *)
LEMMA StepKeepsHanded ==
  ASSUME TypeOK, ConnectionsInOnePlace, HandedWereCounted, OncePerGeneration, [Next]_vars
  PROVE  HandedWereCounted' /\ OncePerGeneration'
<1>1. /\ generation \in Nat
      /\ counter \in Nat
      /\ \A h \in handed : h.gen \in Nat /\ h.num \in Nat
  BY DEF TypeOK, generation, Handed
<1>2. CASE handed' = handed
  BY <1>1, <1>2, CounterSteps DEF HandedWereCounted, OncePerGeneration
<1>3. ASSUME NEW t \in Threads,
             handed' = handed \cup {[gen |-> generation, num |-> counter + 1,
                                     to |-> t, call |-> calls[t]]},
             counter' = counter + 1,
             generation' = generation
      PROVE  HandedWereCounted' /\ OncePerGeneration'
  <2> DEFINE new == [gen |-> generation, num |-> counter + 1, to |-> t, call |-> calls[t]]
  <2>1. new.gen = generation /\ new.num = counter + 1
    OBVIOUS
  <2>2. \A h \in handed : h.gen = new.gen => h.num # new.num
    BY <1>1, <2>1 DEF HandedWereCounted
  <2> HIDE DEF new
  <2>3. handed' = handed \cup {new}
    BY <1>3 DEF new
  <2>4. HandedWereCounted'
    BY <1>1, <1>3, <2>1, <2>3 DEF HandedWereCounted
  <2>5. OncePerGeneration'
    BY <2>2, <2>3 DEF OncePerGeneration
  <2> QED
    BY <2>4, <2>5
<1> QED
  BY <1>2, <1>3, HandedSteps

(* Between two deletions of the Redis key nextLong never hands out a number  *)
(* twice, for every number of threads and every pattern of broken connections. *)
THEOREM UniqueWithinGeneration == Spec => []OncePerGeneration
<1> DEFINE Inv == TypeOK /\ ConnectionsInOnePlace /\ HandedWereCounted /\ OncePerGeneration
<1>1. Init => Inv
  BY SerialAssumption DEF Init, TypeOK, ConnectionsInOnePlace, Places, Holding,
       Overflowing, HandedWereCounted, OncePerGeneration
<1>2. Inv /\ [Next]_vars => Inv'
  BY StepKeepsTypes, StepKeepsConnections, StepKeepsHanded
<1> QED
  BY <1>1, <1>2, PTL DEF Spec

-----------------------------------------------------------------------------
(* A step that deletes an existing key is the end of its thread's overflow *)
(* branch; every other step leaves both counts of deletions alone.         *)
LEMMA DeletionSteps ==
  ASSUME TypeOK, ConnectionsInOnePlace, [Next]_vars
  PROVE  \/ exhausted' = exhausted /\ premature' = premature
         \/ \E t \in Threads :
              /\ pc[t] \in Overflowing
              /\ pc'[t] \notin Overflowing
              /\ \/ /\ counter > MaxValue
                    /\ exhausted' = exhausted + 1 /\ premature' = premature
                 \/ /\ counter <= MaxValue
                    /\ exhausted' = exhausted /\ premature' = premature + 1
<1> USE SerialAssumption DEF TypeOK, history, Goto, Overflowing
<1> DEFINE Ends(t) == /\ pc[t] \in Overflowing
                      /\ pc'[t] \notin Overflowing
                      /\ \/ /\ counter > MaxValue
                            /\ exhausted' = exhausted + 1 /\ premature' = premature
                         \/ /\ counter <= MaxValue
                            /\ exhausted' = exhausted /\ premature' = premature + 1
           Same == exhausted' = exhausted /\ premature' = premature
<1>1. ASSUME NEW t \in Threads,
             \/ Call(t) \/ Borrow(t) \/ BorrowFails(t) \/ Incr(t) \/ Watch(t) \/ Multi(t)
             \/ Return(t) \/ BreakBefore(t) \/ BreakAfterIncr(t)
      PROVE  Same
  BY <1>1 DEF Call, Borrow, BorrowFails, Incr, IncrAbove, Watch, Multi, Return,
              BreakBefore, BreakAfterIncr
<1>2. ASSUME NEW t \in Threads, DeleteKey(conn[t]), pc[t] = "exec", pc'[t] \notin Overflowing
      PROVE  Same \/ Ends(t)
  BY <1>2 DEF DeleteKey
<1>3. ASSUME NEW t \in Threads, Exec(t) PROVE Same \/ Ends(t)
  <2>1. pc[t] = "exec" /\ pc'[t] \notin Overflowing
    BY <1>3 DEF Exec
  <2> QED
    BY <1>3, <2>1, <1>2 DEF Exec
<1>4. ASSUME NEW t \in Threads, BreakAfterExec(t) PROVE Same \/ Ends(t)
  <2>1. pc[t] = "exec" /\ pc'[t] \notin Overflowing
    BY <1>4 DEF BreakAfterExec, Break, Leave
  <2> QED
    BY <1>4, <2>1, <1>2 DEF BreakAfterExec
<1>5. CASE UNCHANGED vars
  BY <1>5 DEF vars
<1>6. ASSUME NEW t \in Threads, Call(t) \/ Step(t) \/ Failure(t) PROVE Same \/ Ends(t)
  <2> HIDE DEF Ends, Same
  <2> QED
    BY <1>1, <1>3, <1>4, <1>6 DEF Step, Failure
<1>7. (\E t \in Threads : Call(t) \/ Step(t) \/ Failure(t)) \/ UNCHANGED vars
  BY DEF Next, Quiet
<1> QED
  BY <1>5, <1>6, <1>7

(* The stale threads are among all threads, and finitely many. *)
LEMMA StaleFinite ==
  ASSUME NEW S, S \subseteq Threads
  PROVE  IsFiniteSet(S) /\ Cardinality(S) \in Nat /\ Cardinality(Threads) \in Nat
BY SerialAssumption, FS_Subset, FS_CardinalityType

(* Every step keeps the bound on the deletions. *)
LEMMA StepKeepsBound ==
  ASSUME TypeOK, ConnectionsInOnePlace, OverflowInv, PrematureDeletionsBounded, [Next]_vars
  PROVE  PrematureDeletionsBounded'
<1> DEFINE Others == Cardinality(Threads) - 1
<1>1. /\ Stale \subseteq Threads /\ Stale' \subseteq Threads
      /\ Cardinality(Stale) \in Nat /\ Cardinality(Stale') \in Nat
      /\ Others \in Int /\ exhausted \in Nat /\ premature \in Nat
      /\ counter \in Nat /\ MaxValue \in Nat
  <2>1. Stale \subseteq Threads /\ Stale' \subseteq Threads
    BY DEF Stale
  <2> QED
    BY <2>1, StaleFinite, SerialAssumption DEF TypeOK
<1>2. premature + Cardinality(Stale) <= Others * exhausted
  BY DEF PrematureDeletionsBounded
<1> SUFFICES premature' + Cardinality(Stale') <= Others * exhausted'
  BY DEF PrematureDeletionsBounded
<1> HIDE DEF Others
<1>3. CASE exhausted' = exhausted /\ premature' = premature
  <2>1. generation' = generation
    BY <1>3 DEF generation
  <2>2. Stale' \subseteq Stale
    BY <2>1, OverflowSteps DEF Stale
  <2>3. Cardinality(Stale') <= Cardinality(Stale)
    BY <2>2, <1>1, StaleFinite, FS_Subset
  <2> QED
    BY <2>3, <1>1, <1>2, <1>3
<1>4. ASSUME NEW t \in Threads, pc'[t] \notin Overflowing,
             exhausted' = exhausted + 1, premature' = premature
      PROVE  premature' + Cardinality(Stale') <= Others * exhausted'
  <2>1. Stale' \subseteq Threads \ {t}
    BY <1>4 DEF Stale
  <2>2. IsFiniteSet(Threads \ {t}) /\ Cardinality(Threads \ {t}) = Others
    BY SerialAssumption, FS_RemoveElement DEF Others
  <2>3. Cardinality(Stale') <= Others
    BY <2>1, <2>2, FS_Subset
  <2>4. Others * (exhausted + 1) = Others * exhausted + Others
    BY <1>1
  <2>5. Others * exhausted \in Int
    BY <1>1
  <2>6. premature <= Others * exhausted
    BY <1>1, <1>2, <2>5
  <2> QED
    BY <2>3, <2>4, <2>5, <2>6, <1>1, <1>4
<1>5. ASSUME NEW t \in Threads, pc[t] \in Overflowing, pc'[t] \notin Overflowing,
             counter <= MaxValue,
             exhausted' = exhausted, premature' = premature + 1
      PROVE  premature' + Cardinality(Stale') <= Others * exhausted'
  <2>1. \A u \in Threads : pc[u] \in Overflowing => u \in Stale
    BY <1>1, <1>5 DEF Stale, OverflowInv, OverflowHoldsUntilDeletion
  <2>2. generation' # generation
    BY <1>1, <1>5 DEF generation
  <2>3. Stale' \subseteq Stale \ {t}
    BY <2>1, <2>2, <1>5, OverflowSteps DEF Stale
  <2>4. IsFiniteSet(Stale) /\ t \in Stale
    BY <2>1, <1>1, <1>5, StaleFinite
  <2>5. IsFiniteSet(Stale \ {t}) /\ Cardinality(Stale \ {t}) = Cardinality(Stale) - 1
    BY <2>4, FS_RemoveElement
  <2>6. Cardinality(Stale') <= Cardinality(Stale) - 1
    BY <2>3, <2>5, FS_Subset
  <2>7. Others * exhausted \in Int
    BY <1>1
  <2> QED
    BY <2>6, <2>7, <1>1, <1>2, <1>5
<1> QED
  BY <1>3, <1>4, <1>5, DeletionSteps

(* However many threads race, late deletions cut short at most one cycle per *)
(* exhausted cycle and thread beside the one that ended it.                  *)
THEOREM PrematureBound == Spec => []PrematureDeletionsBounded
<1> DEFINE Inv == TypeOK /\ ConnectionsInOnePlace /\ OverflowInv /\ PrematureDeletionsBounded
<1>1. Init => Inv
  <2> SUFFICES ASSUME Init PROVE Inv
    OBVIOUS
  <2>1. TypeOK /\ ConnectionsInOnePlace /\ OverflowInv
    BY SerialAssumption DEF Init, TypeOK, ConnectionsInOnePlace, Places, Holding,
         Overflowing, OverflowInv, OverflowHoldsUntilDeletion
  <2>2. Stale = {}
    BY DEF Init, Stale, Overflowing
  <2>3. Cardinality(Stale) = 0 /\ Cardinality(Threads) \in Nat
    BY <2>2, FS_EmptySet, StaleFinite
  <2>4. PrematureDeletionsBounded
    BY <2>3 DEF PrematureDeletionsBounded, Init
  <2> QED
    BY <2>1, <2>4
<1>2. Inv /\ [Next]_vars => Inv'
  BY StepKeepsTypes, StepKeepsConnections, StepKeepsOverflowInv, StepKeepsBound
<1> QED
  BY <1>1, <1>2, PTL DEF Spec

-----------------------------------------------------------------------------
(* Neither a connection in the pool nor one outside a transaction watches. *)
WatchInv ==
  /\ PooledConnectionsWatchNothing
  /\ \A t \in Threads : pc[t] \in {"incr", "watch", "return"} => watch[conn[t]] = "none"

(* A write of the key spoils watches, it makes none; the deletion ends its own. *)
LEMMA DeleteKeyWatches ==
  ASSUME TypeOK, NEW c \in Connections, DeleteKey(c)
  PROVE  watch'[c] = "none" /\ \A d \in Connections : watch[d] = "none" => watch'[d] = "none"
BY DEF DeleteKey, Touched, TypeOK

(* Every step keeps what is known of watching connections. *)
LEMMA StepKeepsWatchInv ==
  ASSUME TypeOK, ConnectionsInOnePlace, WatchInv, [Next]_vars
  PROVE  WatchInv'
<1> USE SerialAssumption DEF TypeOK, ConnectionsInOnePlace, WatchInv, PooledConnectionsWatchNothing, Goto,
                             history, Places, Holding, Overflowing
<1>1. ASSUME NEW t \in Threads, Call(t) \/ BorrowFails(t) PROVE WatchInv'
  BY <1>1 DEF Call, BorrowFails
<1>2. ASSUME NEW t \in Threads, Borrow(t) PROVE WatchInv'
  BY <1>2 DEF Borrow
<1>3. ASSUME NEW t \in Threads, Incr(t) PROVE WatchInv'
  BY <1>3 DEF Incr, IncrAbove, Touched
<1>4. ASSUME NEW t \in Threads, Watch(t) PROVE WatchInv'
  BY <1>4 DEF Watch
<1>5. ASSUME NEW t \in Threads, Multi(t) PROVE WatchInv'
  BY <1>5 DEF Multi
<1>6. ASSUME NEW t \in Threads, Exec(t) PROVE WatchInv'
  <2>1. CASE watch[conn[t]] = "clean" /\ DeleteKey(conn[t])
    <3>1. /\ watch'[conn[t]] = "none"
          /\ \A d \in Connections : watch[d] = "none" => watch'[d] = "none"
      BY <1>6, <2>1, DeleteKeyWatches DEF Exec
    <3>2. QED
      BY <1>6, <3>1 DEF Exec
  <2>2. CASE watch[conn[t]] # "clean"
    BY <1>6, <2>2 DEF Exec
  <2>3. QED
    BY <1>6, <2>1, <2>2 DEF Exec
<1>7. ASSUME NEW t \in Threads, Return(t) PROVE WatchInv'
  BY <1>7 DEF Return, Leave
<1>8. ASSUME NEW t \in Threads, pc[t] \in Holding, Break(t),
             \A d \in Connections : watch[d] = "none" => watch'[d] = "none"
      PROVE  WatchInv'
  BY <1>8 DEF Break, Leave
<1>9. ASSUME NEW t \in Threads, BreakBefore(t) \/ BreakAfterIncr(t) PROVE WatchInv'
  <2>1. pc[t] \in Holding /\ Break(t) /\ \A d \in Connections : watch[d] = "none" => watch'[d] = "none"
    BY <1>9 DEF BreakBefore, BreakAfterIncr, Touched
  <2>2. QED
    BY <1>8, <2>1
<1>10. ASSUME NEW t \in Threads, BreakAfterExec(t) PROVE WatchInv'
  BY <1>8, <1>10, DeleteKeyWatches DEF BreakAfterExec
<1>11. CASE UNCHANGED vars
  BY <1>11 DEF vars
<1> QED
  BY <1>1, <1>2, <1>3, <1>4, <1>5, <1>6, <1>7, <1>9, <1>10, <1>11 DEF Next, Step, Failure, Quiet

(* A connection given back to the JedisPool watches no key, on whatever path nextLong *)
(* gives it back (lines 43-53): its next transaction is aborted by no old WATCH.       *)
THEOREM NoWatchInPool == Spec => []PooledConnectionsWatchNothing
<1> DEFINE Inv == TypeOK /\ ConnectionsInOnePlace /\ WatchInv
<1>1. Init => Inv
  BY SerialAssumption DEF Init, TypeOK, ConnectionsInOnePlace, Places, Holding, Overflowing, WatchInv,
       PooledConnectionsWatchNothing
<1>2. Inv /\ [Next]_vars => Inv'
  BY StepKeepsTypes, StepKeepsConnections, StepKeepsWatchInv
<1>3. Inv => PooledConnectionsWatchNothing
  BY DEF WatchInv
<1> QED
  BY <1>1, <1>2, <1>3, PTL DEF Spec

-----------------------------------------------------------------------------
(* The number of a call *)

OwnNumber(t) ==
  /\ ret[t] \in 1..MaxValue
  /\ [gen |-> seenAt[t], num |-> ret[t], to |-> t, call |-> calls[t]] \in handed

(* ret is -1 up to the INCR, above maxValue in the overflow branch, and the number *)
(* handed to this call, or an overflow, when the connection is given back.         *)
NumberInv ==
  /\ ReturnsItsOwnNumber
  /\ \A t \in Threads : /\ pc[t] = "incr" => ret[t] = -1
                        /\ pc[t] \in Overflowing => ret[t] > MaxValue
                        /\ pc[t] = "return" => ret[t] > MaxValue \/ OwnNumber(t)

(* Every step keeps the number a call returns. *)
LEMMA StepKeepsNumber ==
  ASSUME TypeOK, ConnectionsInOnePlace, NumberInv, [Next]_vars
  PROVE  NumberInv'
<1> USE SerialAssumption DEF TypeOK, NumberInv, ReturnsItsOwnNumber, OwnNumber, Goto, history, Places,
                             Holding, Overflowing
<1>1. ASSUME NEW t \in Threads, Call(t) PROVE NumberInv'
  BY <1>1 DEF Call
<1>2. ASSUME NEW t \in Threads, Borrow(t) PROVE NumberInv'
  BY <1>2 DEF Borrow
<1>3. ASSUME NEW t \in Threads, BorrowFails(t) PROVE NumberInv'
  BY <1>3 DEF BorrowFails
<1>4. ASSUME NEW t \in Threads, Incr(t) PROVE NumberInv'
  BY <1>4 DEF Incr, IncrAbove
<1>5. ASSUME NEW t \in Threads, Watch(t) \/ Multi(t) PROVE NumberInv'
  BY <1>5 DEF Watch, Multi
<1>6. ASSUME NEW t \in Threads, Exec(t) PROVE NumberInv'
  BY <1>6 DEF Exec
<1>7. ASSUME NEW t \in Threads, Return(t) PROVE NumberInv'
  BY <1>7 DEF Return, Leave
<1>8. ASSUME NEW t \in Threads, pc[t] = "incr" \/ pc[t] \in Overflowing, Break(t) PROVE NumberInv'
  BY <1>8 DEF Break, Leave
<1>9. ASSUME NEW t \in Threads, BreakBefore(t) \/ BreakAfterIncr(t) \/ BreakAfterExec(t)
      PROVE  NumberInv'
  <2>1. (pc[t] = "incr" \/ pc[t] \in Overflowing) /\ Break(t)
    BY <1>9 DEF BreakBefore, BreakAfterIncr, BreakAfterExec
  <2>2. QED
    BY <1>8, <2>1
<1>10. CASE UNCHANGED vars
  BY <1>10 DEF vars
<1> QED
  BY <1>1, <1>2, <1>3, <1>4, <1>5, <1>6, <1>7, <1>9, <1>10 DEF Next, Step, Failure, Quiet

(* What nextLong returns is -1 or a number up to maxValue that was handed to this very *)
(* call (lines 41-57), however often it recursed and whatever broke.                   *)
THEOREM OwnNumberReturned == Spec => []ReturnsItsOwnNumber
<1> DEFINE Inv == TypeOK /\ ConnectionsInOnePlace /\ NumberInv
<1>1. Init => Inv
  BY SerialAssumption DEF Init, TypeOK, ConnectionsInOnePlace, Places, Holding, Overflowing, NumberInv,
       ReturnsItsOwnNumber
<1>2. Inv /\ [Next]_vars => Inv'
  BY StepKeepsTypes, StepKeepsConnections, StepKeepsNumber
<1>3. Inv => ReturnsItsOwnNumber
  BY DEF NumberInv
<1> QED
  BY <1>1, <1>2, <1>3, PTL DEF Spec

-----------------------------------------------------------------------------
(* Skipped numbers *)

(* The numbers that were skipped are finitely many. *)
LEMMA SkippedFinite ==
  ASSUME TypeOK
  PROVE  IsFiniteSet(Skipped) /\ Cardinality(Skipped) \in Nat
<1>1. IsFiniteSet(1..MaxValue)
  BY SerialAssumption, FS_Interval
<1>2. Skipped \subseteq 1..MaxValue
  BY DEF Skipped
<1>3. QED
  BY <1>1, <1>2, FS_Subset, FS_CardinalityType

(* How a step moves what Skipped is made of: only an INCR without an answer leaves *)
(* a number behind, and that is a broken connection.                               *)
LEMMA SkippingSteps ==
  ASSUME TypeOK, ConnectionsInOnePlace, HandedWereCounted, [Next]_vars
  PROVE  \/ Skipped' \subseteq Skipped /\ failures' >= failures
         \/ Skipped' \subseteq Skipped \cup {counter + 1} /\ failures' = failures + 1
<1> DEFINE Few == \/ Skipped' \subseteq Skipped /\ failures' >= failures
                  \/ Skipped' \subseteq Skipped \cup {counter + 1} /\ failures' = failures + 1
<1>1. /\ counter \in Nat /\ generation \in Nat /\ failures \in Nat
      /\ \A h \in handed : h.gen \in Nat /\ h.num \in Nat
  BY DEF TypeOK, generation, Handed
<1>2. ASSUME counter' = counter, generation' = generation, handed' = handed, failures' >= failures
      PROVE  Few
  BY <1>2 DEF Skipped
<1>3. ASSUME counter' = 0, failures' >= failures
      PROVE  Few
  BY <1>3 DEF Skipped
<1>4. ASSUME NEW c \in Connections, DeleteKey(c) PROVE counter' = 0
  BY <1>4 DEF DeleteKey
<1>5. ASSUME NEW t \in Threads, Incr(t) PROVE Few
  <2>1. counter' = counter + 1 /\ generation' = generation /\ failures' = failures
    BY <1>5 DEF Incr, IncrAbove, generation
  <2>2. CASE counter + 1 > MaxValue
    <3>1. handed' = handed
      BY <1>5, <2>2 DEF Incr, IncrAbove
    <3>2. Skipped' \subseteq Skipped
      BY <1>1, <2>1, <2>2, <3>1, SerialAssumption DEF Skipped
    <3>3. QED
      BY <1>1, <2>1, <3>2
  <2>3. CASE ~(counter + 1 > MaxValue)
    <3> DEFINE new == [gen |-> generation, num |-> counter + 1, to |-> t, call |-> calls[t]]
    <3>1. handed' = handed \cup {new} /\ new.gen = generation /\ new.num = counter + 1
      BY <1>5, <2>3 DEF Incr, IncrAbove
    <3> HIDE DEF new
    <3>2. counter + 1 \notin Skipped'
      BY <2>1, <3>1 DEF Skipped
    <3>3. Skipped' \subseteq Skipped \cup {counter + 1}
      BY <1>1, <2>1, <3>1, SerialAssumption DEF Skipped
    <3>4. QED
      BY <1>1, <2>1, <3>2, <3>3
  <2>4. QED
    BY <2>2, <2>3
<1>6. ASSUME NEW t \in Threads, pc[t] = "exec" PROVE conn[t] \in Connections
  BY <1>6 DEF ConnectionsInOnePlace, Holding, Overflowing
<1>7. ASSUME NEW t \in Threads, Exec(t) PROVE Few
  <2>1. CASE DeleteKey(conn[t])
    BY <1>1, <1>3, <1>4, <1>6, <1>7, <2>1 DEF Exec
  <2>2. CASE ~DeleteKey(conn[t])
    BY <1>1, <1>2, <1>7, <2>2 DEF Exec, generation
  <2>3. QED
    BY <2>1, <2>2
<1>8. ASSUME NEW t \in Threads, BreakAfterIncr(t) PROVE Few
  <2>1. /\ counter' = counter + 1 /\ generation' = generation /\ handed' = handed
        /\ failures' = failures + 1
    BY <1>8 DEF BreakAfterIncr, Break, generation
  <2>2. Skipped' \subseteq Skipped \cup {counter + 1}
    BY <1>1, <2>1, SerialAssumption DEF Skipped
  <2>3. QED
    BY <2>1, <2>2
<1>9. ASSUME NEW t \in Threads, BreakAfterExec(t) PROVE Few
  BY <1>1, <1>3, <1>4, <1>6, <1>9 DEF BreakAfterExec, Break
<1>10. ASSUME NEW t \in Threads,
              \/ Call(t) \/ Borrow(t) \/ Watch(t) \/ Multi(t) \/ Return(t)
              \/ BorrowFails(t) \/ BreakBefore(t)
       PROVE  Few
  BY <1>1, <1>2, <1>10 DEF Call, Borrow, Watch, Multi, Return, BorrowFails, BreakBefore, Break, history,
                           generation
<1>11. CASE UNCHANGED vars
  BY <1>1, <1>2, <1>11 DEF vars, generation
<1> QED
  BY <1>5, <1>7, <1>8, <1>9, <1>10, <1>11 DEF Next, Step, Failure, Quiet

(* Every step keeps the count of those. *)
LEMMA StepKeepsSkipped ==
  ASSUME TypeOK, ConnectionsInOnePlace, HandedWereCounted, SkippedOnlyByFailures, [Next]_vars
  PROVE  SkippedOnlyByFailures'
<1>1. IsFiniteSet(Skipped) /\ Cardinality(Skipped) \in Nat /\ Cardinality(Skipped) <= failures
  BY SkippedFinite DEF SkippedOnlyByFailures
<1>2. failures \in Nat /\ failures' \in Nat
  BY StepKeepsTypes DEF TypeOK
<1>3. CASE Skipped' \subseteq Skipped /\ failures' >= failures
  <2>1. Cardinality(Skipped') <= Cardinality(Skipped) /\ IsFiniteSet(Skipped')
    BY <1>1, <1>3, FS_Subset
  <2>2. Cardinality(Skipped') \in Nat
    BY <2>1, FS_CardinalityType
  <2>3. QED
    BY <1>1, <1>2, <1>3, <2>1, <2>2 DEF SkippedOnlyByFailures
<1>4. CASE Skipped' \subseteq Skipped \cup {counter + 1} /\ failures' = failures + 1
  <2>1. /\ IsFiniteSet(Skipped \cup {counter + 1})
        /\ Cardinality(Skipped \cup {counter + 1}) <= Cardinality(Skipped) + 1
    BY <1>1, FS_AddElement
  <2>2. /\ IsFiniteSet(Skipped')
        /\ Cardinality(Skipped') <= Cardinality(Skipped \cup {counter + 1})
    BY <1>4, <2>1, FS_Subset
  <2>3. Cardinality(Skipped') \in Nat /\ Cardinality(Skipped \cup {counter + 1}) \in Nat
    BY <2>1, <2>2, FS_CardinalityType
  <2>4. QED
    BY <1>1, <1>2, <1>4, <2>1, <2>2, <2>3 DEF SkippedOnlyByFailures
<1>5. QED
  BY <1>3, <1>4, SkippingSteps

(* A number of the running cycle is given to nobody only if a connection broke under *)
(* its INCR: one for each broken connection at most (lines 41-50).                    *)
THEOREM SkippedBound == Spec => []SkippedOnlyByFailures
<1> DEFINE Inv == /\ TypeOK /\ ConnectionsInOnePlace /\ HandedWereCounted /\ OncePerGeneration
                  /\ SkippedOnlyByFailures
<1>1. Init => Inv
  <2> SUFFICES ASSUME Init
               PROVE  Inv
    OBVIOUS
  <2>1. TypeOK /\ ConnectionsInOnePlace /\ HandedWereCounted /\ OncePerGeneration
    BY SerialAssumption DEF Init, TypeOK, ConnectionsInOnePlace, Places, Holding, Overflowing,
         HandedWereCounted, OncePerGeneration
  <2>2. Skipped = {}
    BY DEF Init, Skipped
  <2>3. SkippedOnlyByFailures
    BY <2>2, FS_EmptySet DEF Init, SkippedOnlyByFailures
  <2>4. QED
    BY <2>1, <2>3
<1>2. Inv /\ [Next]_vars => Inv'
  BY StepKeepsTypes, StepKeepsConnections, StepKeepsHanded, StepKeepsSkipped
<1> QED
  BY <1>1, <1>2, PTL DEF Spec

-----------------------------------------------------------------------------
(* One caller *)

(* Nobody writes the key between its WATCH and its EXEC, so that its transaction is *)
(* never aborted; what it read above maxValue is still there when it deletes.  A     *)
(* recursion can overflow again only after a connection has broken in that branch.   *)
AloneInv ==
  \A t \in Threads :
    /\ pc[t] \in {"borrow", "incr"} /\ counter >= MaxValue => depth[t] <= failures
    /\ pc[t] \in {"borrow", "incr"} => depth[t] <= 1 + failures
    /\ pc[t] \in Overflowing => counter > MaxValue /\ depth[t] <= failures
    /\ pc[t] \in {"multi", "exec"} => watch[conn[t]] = "clean"
    /\ pc[t] = "return" =>
         depth[t] <= 1 + failures /\ (ret[t] > MaxValue => counter = 0 /\ depth[t] <= failures)
    /\ pc[t] = "idle" => depth[t] = 0

(* Every step keeps what is known of a lone client. *)
LEMMA StepKeepsAlone ==
  ASSUME NEW t0, Threads = {t0}, TypeOK, ConnectionsInOnePlace, NumberInv, AloneInv, [Next]_vars
  PROVE  AloneInv'
<1> USE SerialAssumption DEF TypeOK, AloneInv, Goto, history, Places, Holding, Overflowing
<1>1. CASE Call(t0)
  BY <1>1 DEF Call
<1>2. CASE Borrow(t0)
  BY <1>2 DEF Borrow
<1>3. CASE BorrowFails(t0)
  BY <1>3 DEF BorrowFails
<1>4. CASE Incr(t0)
  BY <1>4 DEF Incr, IncrAbove
<1>5. CASE Watch(t0)
  BY <1>5 DEF Watch, ConnectionsInOnePlace
<1>6. CASE Multi(t0)
  BY <1>6 DEF Multi
<1>7. CASE Exec(t0)
  BY <1>7 DEF Exec, DeleteKey
<1>8. CASE Return(t0)
  BY <1>8 DEF Return, Leave
<1>9. CASE BreakBefore(t0)
  BY <1>9 DEF BreakBefore, Break, Leave, NumberInv
<1>10. CASE BreakAfterIncr(t0)
  BY <1>10 DEF BreakAfterIncr, Break, Leave, NumberInv
<1>11. CASE BreakAfterExec(t0)
  BY <1>11 DEF BreakAfterExec, Break, Leave, DeleteKey, NumberInv
<1>12. CASE UNCHANGED vars
  BY <1>12 DEF vars
<1> QED
  BY <1>1, <1>2, <1>3, <1>4, <1>5, <1>6, <1>7, <1>8, <1>9, <1>10, <1>11, <1>12
  DEF Next, Step, Failure, Quiet

Inv == TypeOK /\ ConnectionsInOnePlace /\ NumberInv

(* So it holds at all times. *)
LEMMA AloneInvariant == ASSUME NEW t0, Threads = {t0} PROVE Spec => [](Inv /\ AloneInv)
<1>1. Init => Inv /\ AloneInv
  BY SerialAssumption DEF Init, Inv, TypeOK, ConnectionsInOnePlace, Places, Holding, Overflowing, NumberInv,
       ReturnsItsOwnNumber, AloneInv
<1>2. Inv /\ AloneInv /\ [Next]_vars => (Inv /\ AloneInv)'
  BY StepKeepsTypes, StepKeepsConnections, StepKeepsNumber, StepKeepsAlone DEF Inv
<1> QED
  BY <1>1, <1>2, PTL DEF Spec

(* A single caller recurses once, and once more for each connection that breaks *)
(* (lines 43-56): its stack does not grow with maxValue or the number of calls.  *)
THEOREM AloneRecursesOnce == ASSUME NEW t0, Threads = {t0} PROVE Spec => []RecursesOnce
<1>1. Inv /\ AloneInv => RecursesOnce
  BY DEF Inv, TypeOK, AloneInv, RecursesOnce, Places, Holding, Overflowing
<1> QED
  BY <1>1, AloneInvariant, PTL

(* The numbers of the cycle in a step of the one caller *)
LEMMA AloneStepImplements ==
  ASSUME NEW t0, Threads = {t0}, Inv, AloneInv, [Next]_vars
  PROVE  [Cycle!Next]_(Cycle!vars)
<1> DEFINE Got == IF ret[t0] > MaxValue THEN -1 ELSE ret[t0]
<1>1. /\ counter \in Nat /\ generation \in Nat /\ MaxValue \in Nat \ {0}
      /\ ret \in [Threads -> Nat \cup {-1}]
  BY SerialAssumption DEF Inv, TypeOK, generation
<1>2. ret' \in [Threads -> Nat \cup {-1}]
  BY StepKeepsTypes DEF Inv, TypeOK
<1>3. ASSUME LastTaken' = LastTaken, ret'[t0] = ret[t0] \/ ret'[t0] = -1
      PROVE  [Cycle!Next]_(Cycle!vars)
  BY <1>1, <1>2, <1>3 DEF Cycle!Next, Cycle!PutDown, Cycle!vars
<1>4. ASSUME LastTaken' = Cycle!Successor(LastTaken), ret' = ret
      PROVE  [Cycle!Next]_(Cycle!vars)
  BY <1>4 DEF Cycle!Next, Cycle!Skip
<1>5. ASSUME counter' = counter, generation' = generation
      PROVE  LastTaken' = LastTaken
  BY <1>5 DEF LastTaken
<1>6. ASSUME counter' = counter + 1, generation' = generation, counter + 1 <= MaxValue
      PROVE  LastTaken' = Cycle!Successor(LastTaken)
  BY <1>1, <1>6 DEF LastTaken, Cycle!Successor
<1>7. ASSUME counter' = counter + 1, generation' = generation, ~(counter + 1 <= MaxValue)
      PROVE  LastTaken' = LastTaken
  BY <1>1, <1>7 DEF LastTaken
<1>8. ASSUME NEW c \in Connections, DeleteKey(c), counter > MaxValue
      PROVE  LastTaken' = LastTaken
  <2>1. counter' = 0 /\ generation' = generation + 1
    BY <1>1, <1>8 DEF DeleteKey, generation, Inv, TypeOK
  <2>2. QED
    BY <1>1, <1>8, <2>1 DEF LastTaken
<1>9. CASE Call(t0) \/ Borrow(t0) \/ BorrowFails(t0)
  BY <1>1, <1>3, <1>5, <1>9 DEF Call, Borrow, BorrowFails, history, generation
<1>10. CASE Watch(t0) \/ Multi(t0)
  BY <1>1, <1>3, <1>5, <1>10 DEF Watch, Multi, history, generation
<1>11. CASE Return(t0)
  BY <1>1, <1>3, <1>5, <1>11 DEF Return, Leave, history, generation
<1>12. CASE BreakBefore(t0)
  BY <1>1, <1>3, <1>5, <1>12 DEF BreakBefore, Break, Leave, generation
<1>13. CASE Exec(t0)
  <2>1. conn[t0] \in Connections /\ counter > MaxValue /\ watch[conn[t0]] = "clean"
    BY <1>13 DEF Exec, Inv, ConnectionsInOnePlace, Holding, Overflowing, AloneInv
  <2>2. QED
    BY <1>3, <1>8, <1>13, <2>1 DEF Exec
<1>14. CASE BreakAfterExec(t0)
  <2>1. conn[t0] \in Connections /\ counter > MaxValue
    BY <1>14 DEF BreakAfterExec, Inv, ConnectionsInOnePlace, Holding, Overflowing, AloneInv
  <2>2. ret'[t0] = ret[t0] \/ ret'[t0] = -1
    BY <1>1, <1>14 DEF BreakAfterExec, Break, Leave
  <2>3. QED
    BY <1>3, <1>8, <1>14, <2>1, <2>2 DEF BreakAfterExec
<1>15. CASE BreakAfterIncr(t0)
  <2>1. ret[t0] = -1 /\ ret' = ret /\ counter' = counter + 1 /\ generation' = generation
    BY <1>1, <1>15 DEF BreakAfterIncr, Break, Leave, Inv, NumberInv, generation
  <2>2. QED
    BY <1>3, <1>4, <1>6, <1>7, <2>1
<1>16. CASE Incr(t0)
  <2>1. /\ ret[t0] = -1 /\ ret' = [ret EXCEPT ![t0] = counter + 1]
        /\ counter' = counter + 1 /\ generation' = generation
    BY <1>16 DEF Incr, IncrAbove, Inv, NumberInv, generation
  <2>2. CASE counter + 1 <= MaxValue
    <3>1. LastTaken' = Cycle!Successor(LastTaken)
      BY <1>6, <2>1, <2>2
    <3>2. Cycle!Successor(LastTaken) = counter + 1
      BY <1>1, <2>2 DEF LastTaken, Cycle!Successor
    <3> DEFINE got == [t \in Threads |-> IF ret[t] > MaxValue THEN -1 ELSE ret[t]]
    <3>3. got[t0] = -1
      BY <1>1, <2>1
    <3>4. ret'[t0] = counter + 1
      BY <1>1, <2>1
    <3>5. got' = [t \in Threads |-> counter + 1]
      BY <1>1, <2>2, <3>4
    <3>6. [got EXCEPT ![t0] = counter + 1] = [t \in Threads |-> counter + 1]
      OBVIOUS
    <3>7. Cycle!Take(t0)
      BY <3>1, <3>2, <3>3, <3>5, <3>6 DEF Cycle!Take
    <3>8. QED
      BY <3>7 DEF Cycle!Next
  <2>3. CASE ~(counter + 1 <= MaxValue)
    <3>1. LastTaken' = LastTaken
      BY <1>7, <2>1, <2>3
    <3>2. [t \in Threads |-> IF ret[t] > MaxValue THEN -1 ELSE ret[t]]'
            = [t \in Threads |-> IF ret[t] > MaxValue THEN -1 ELSE ret[t]]
      BY <1>1, <2>1, <2>3
    <3>3. QED
      BY <3>1, <3>2 DEF Cycle!vars
  <2>4. QED
    BY <2>2, <2>3
<1>17. CASE UNCHANGED vars
  BY <1>1, <1>3, <1>5, <1>17 DEF vars, generation
<1> QED
  BY <1>9, <1>10, <1>11, <1>12, <1>13, <1>14, <1>15, <1>16, <1>17 DEF Next, Step, Failure, Quiet

(* With one caller nextLong keeps the promise of the interface: the next number of *)
(* the cycle, or a number skipped because a connection broke (lines 37-58).         *)
THEOREM AloneImplementsCycle == ASSUME NEW t0, Threads = {t0} PROVE Spec => ImplementsCycle
<1>1. Init => Cycle!Init
  BY SerialAssumption DEF Init, Cycle!Init, LastTaken, generation
<1>2. Inv /\ AloneInv /\ [Next]_vars => [Cycle!Next]_(Cycle!vars)
  BY AloneStepImplements
<1> QED
  BY <1>1, <1>2, AloneInvariant, PTL DEF Spec, ImplementsCycle, Cycle!Spec

=============================================================================

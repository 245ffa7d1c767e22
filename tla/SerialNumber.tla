---------------------------- MODULE SerialNumber ----------------------------
(***************************************************************************)
(* RedisOnlySerialNumberGenerator.nextLong() as run by several threads     *)
(* that share one JedisPool and one Redis key:                             *)
(*                                                                         *)
(*     borrow a connection; INCR the key;                                  *)
(*     if the number is above maxValue: WATCH, MULTI, DEL, EXEC;           *)
(*     give the connection back; if the number was above maxValue, recurse *)
(*                                                                         *)
(* Every Redis command is one step; a connection may break at any of them, *)
(* before or after the server has executed the command.  On an exception   *)
(* the code sets its reference to null, so that the connection is never    *)
(* given back to the pool.                                                 *)
(***************************************************************************)
EXTENDS Integers, FiniteSets

CONSTANTS
  Threads,      (* callers of nextLong, of one or of several generators of one name *)
  Connections,  (* the connections of the JedisPool (maxTotal of them)              *)
  NoConn,       (* the jedis variable when it is null                               *)
  MaxValue,     (* maxValue of the generator                                        *)
  MaxDepth,     (* recursive calls of nextLong the Java stack has room for          *)
  MaxCalls,     (* bound: calls of nextLong per thread                              *)
  MaxFailures   (* bound: broken connections                                        *)

ASSUME SerialAssumption ==
  /\ IsFiniteSet(Threads)
  /\ NoConn \notin Connections
  /\ MaxValue \in Nat \ {0}
  /\ MaxDepth \in Nat
  /\ MaxCalls \in Nat
  /\ MaxFailures \in Nat

VARIABLES
  counter,    (* value of the Redis key, 0 when the key does not exist         *)
  watch,      (* server side: what WATCH left on each connection               *)
  pool,       (* connections the JedisPool can lend                            *)
  lost,       (* connections borrowed and never given back                     *)
  pc,         (* where each thread is in nextLong                              *)
  conn,       (* its local variable jedis                                      *)
  ret,        (* its local variable ret; at "idle", what the call returned     *)
  depth,      (* recursive calls on its stack                                  *)
  calls,      (* calls each thread has made                                    *)
  failures,   (* broken connections so far                                     *)
  seenAt,     (* history: the generation in which ret was read                 *)
  handed,     (* history: the numbers handed out                               *)
  exhausted,  (* history: deletions of a counter that was above maxValue       *)
  premature   (* history: deletions of a counter that was not                  *)

vars == <<counter, watch, pool, lost, pc, conn, ret, depth, calls,
          failures, seenAt, handed, exhausted, premature>>

history == <<seenAt, handed, exhausted, premature>>

(* The counter starts afresh with every deletion. *)
generation == exhausted + premature

Overflowing == {"watch", "multi", "exec"}
Holding     == {"incr", "return"} \cup Overflowing
Places      == {"idle", "borrow"} \cup Holding

Init ==
  /\ counter = 0
  /\ watch = [c \in Connections |-> "none"]
  /\ pool = Connections
  /\ lost = {}
  /\ pc = [t \in Threads |-> "idle"]
  /\ conn = [t \in Threads |-> NoConn]
  /\ ret = [t \in Threads |-> -1]
  /\ depth = [t \in Threads |-> 0]
  /\ calls = [t \in Threads |-> 0]
  /\ failures = 0
  /\ seenAt = [t \in Threads |-> 0]
  /\ handed = {}
  /\ exhausted = 0
  /\ premature = 0

-----------------------------------------------------------------------------
(* What a write of the key does to the connections that watch it. *)
Touched == [c \in Connections |-> IF watch[c] = "clean" THEN "dirty" ELSE watch[c]]

Goto(t, place) == pc' = [pc EXCEPT ![t] = place]

(* A variant the properties reject: the deletion takes one number back. *)
DeleteKeyDecrements(c) ==
  /\ counter' = counter - 1
  /\ watch' = [Touched EXCEPT ![c] = "none"]
  /\ UNCHANGED <<exhausted, premature>>

(* The server's DEL inside EXEC, with the history of what it cut off.  The    *)
(* executing connection watches nothing afterwards; a key that did not exist  *)
(* is not modified.                                                           *)
DeleteKey(c) ==
  /\ counter' = 0
  /\ watch' = [(IF counter = 0 THEN watch ELSE Touched) EXCEPT ![c] = "none"]
  /\ exhausted' = IF counter > MaxValue THEN exhausted + 1 ELSE exhausted
  /\ premature' = IF counter \in 1..MaxValue THEN premature + 1 ELSE premature

(* A caller enters nextLong: ret = -1. *)
Call(t) ==
  /\ pc[t] = "idle"
  /\ calls[t] < MaxCalls
  /\ calls' = [calls EXCEPT ![t] = @ + 1]
  /\ ret' = [ret EXCEPT ![t] = -1]
  /\ Goto(t, "borrow")
  /\ UNCHANGED <<counter, watch, pool, lost, conn, depth, failures, history>>

(* JedisUtil.getJedis(): waits, without a limit, until the pool has one. *)
Borrow(t) ==
  /\ pc[t] = "borrow"
  /\ \E c \in pool :
       /\ pool' = pool \ {c}
       /\ conn' = [conn EXCEPT ![t] = c]
  /\ ret' = [ret EXCEPT ![t] = -1]
  /\ Goto(t, "incr")
  /\ UNCHANGED <<counter, watch, lost, depth, calls, failures, history>>

(* getResource() cannot connect: it stands outside the try, the call throws. *)
BorrowFails(t) ==
  /\ pc[t] = "borrow"
  /\ pool # {}
  /\ failures < MaxFailures
  /\ failures' = failures + 1
  /\ ret' = [ret EXCEPT ![t] = -1]
  /\ depth' = [depth EXCEPT ![t] = 0]
  /\ Goto(t, "idle")
  /\ UNCHANGED <<counter, watch, pool, lost, conn, calls, history>>

(* INCR and the test of its answer. *)
IncrAbove(t, above) ==
  LET n == counter + 1 IN
  /\ pc[t] = "incr"
  /\ counter' = n
  /\ watch' = Touched
  /\ ret' = [ret EXCEPT ![t] = n]
  /\ seenAt' = [seenAt EXCEPT ![t] = generation]
  /\ \/ /\ above
        /\ Goto(t, "watch")
        /\ UNCHANGED handed
     \/ /\ ~above
        /\ Goto(t, "return")
        /\ handed' = handed \cup
             {[gen |-> generation, num |-> n, to |-> t, call |-> calls[t]]}
  /\ UNCHANGED <<pool, lost, conn, depth, calls, failures, exhausted, premature>>

(* A variant the properties reject: the comparison is off by one. *)
IncrOneTooFew(t) == IncrAbove(t, counter + 1 >= MaxValue)

(* ret = jedis.incr(keyName): the server adds one and answers, in one step. *)
Incr(t) == IncrAbove(t, counter + 1 > MaxValue)

(* jedis.watch(keyName) *)
Watch(t) ==
  /\ pc[t] = "watch"
  /\ watch' = [watch EXCEPT ![conn[t]] = "clean"]
  /\ Goto(t, "multi")
  /\ UNCHANGED <<counter, pool, lost, conn, ret, depth, calls, failures, history>>

(* jedis.multi(), transaction.del(keyName): queued on the connection. *)
Multi(t) ==
  /\ pc[t] = "multi"
  /\ Goto(t, "exec")
  /\ UNCHANGED <<counter, watch, pool, lost, conn, ret, depth, calls, failures, history>>

(* A variant the properties reject: the transaction is left open when the counter has changed. *)
ExecOnlyIfStillAbove(t) ==
  /\ pc[t] = "exec"
  /\ \/ /\ watch[conn[t]] = "clean" /\ counter > MaxValue
        /\ DeleteKey(conn[t])
     \/ /\ watch[conn[t]] # "clean" \/ counter <= MaxValue
        /\ UNCHANGED <<counter, watch, exhausted, premature>>
  /\ Goto(t, "return")
  /\ UNCHANGED <<pool, lost, conn, ret, depth, calls, failures, seenAt, handed>>

(* transaction.exec(): deletes the key, or nothing when the watched key changed. *)
Exec(t) ==
  /\ pc[t] = "exec"
  /\ \/ /\ watch[conn[t]] = "clean"
        /\ DeleteKey(conn[t])
     \/ /\ watch[conn[t]] # "clean"
        /\ watch' = [watch EXCEPT ![conn[t]] = "none"]
        /\ UNCHANGED <<counter, exhausted, premature>>
  /\ Goto(t, "return")
  /\ UNCHANGED <<pool, lost, conn, ret, depth, calls, failures, seenAt, handed>>

(* A variant the properties reject: the recursion gives up and returns what it has. *)
LeaveWithOverflow(t) ==
  LET recurse == ret[t] > MaxValue /\ depth[t] < MaxDepth IN
  /\ Goto(t, IF recurse THEN "borrow" ELSE "idle")
  /\ depth' = [depth EXCEPT ![t] = IF recurse THEN @ + 1 ELSE 0]
  /\ UNCHANGED ret

(* After the finally block: return ret, or recurse when it is above maxValue; *)
(* a recursion the stack has no room for throws a StackOverflowError.         *)
Leave(t) ==
  \/ /\ ret[t] <= MaxValue
     /\ Goto(t, "idle")
     /\ depth' = [depth EXCEPT ![t] = 0]
     /\ UNCHANGED ret
  \/ /\ ret[t] > MaxValue
     /\ depth[t] < MaxDepth
     /\ Goto(t, "borrow")
     /\ depth' = [depth EXCEPT ![t] = @ + 1]
     /\ UNCHANGED ret
  \/ /\ ret[t] > MaxValue
     /\ depth[t] = MaxDepth
     /\ Goto(t, "idle")
     /\ depth' = [depth EXCEPT ![t] = 0]
     /\ ret' = [ret EXCEPT ![t] = -1]

(* A variant the properties reject: the finally block forgets the connection. *)
ReturnForgotten(t) ==
  /\ pc[t] = "return"
  /\ lost' = lost \cup {conn[t]}
  /\ conn' = [conn EXCEPT ![t] = NoConn]
  /\ Leave(t)
  /\ UNCHANGED <<counter, watch, pool, calls, failures, history>>

(* A variant the properties reject: the recursion keeps the connection of its caller. *)
RecurseBeforeReturn(t) ==
  /\ pc[t] = "return"
  /\ Leave(t)
  /\ IF ret[t] > MaxValue THEN UNCHANGED <<pool, conn>>
     ELSE /\ pool' = pool \cup {conn[t]}
          /\ conn' = [conn EXCEPT ![t] = NoConn]
  /\ UNCHANGED <<counter, watch, lost, calls, failures, history>>

(* finally returnResource(jedis), then the test of ret. *)
Return(t) ==
  /\ pc[t] = "return"
  /\ pool' = pool \cup {conn[t]}
  /\ conn' = [conn EXCEPT ![t] = NoConn]
  /\ Leave(t)
  /\ UNCHANGED <<counter, watch, lost, calls, failures, history>>

(* A variant the properties reject: the finally block gives the null back. *)
ReturnNull(t) ==
  /\ failures < MaxFailures
  /\ failures' = failures + 1
  /\ lost' = lost \cup {conn[t]}
  /\ conn' = [conn EXCEPT ![t] = NoConn]
  /\ pool' = pool \cup {conn'[t]}
  /\ Leave(t)
  /\ UNCHANGED <<calls, seenAt, handed>>

(* catch (Exception): jedis = null, so the finally block returns nothing. *)
Break(t) ==
  /\ failures < MaxFailures
  /\ failures' = failures + 1
  /\ lost' = lost \cup {conn[t]}
  /\ conn' = [conn EXCEPT ![t] = NoConn]
  /\ Leave(t)
  /\ UNCHANGED <<pool, calls, seenAt, handed>>

(* The connection breaks at a command the server has not executed. *)
BreakBefore(t) ==
  /\ pc[t] \in {"incr"} \cup Overflowing
  /\ Break(t)
  /\ watch' = [watch EXCEPT ![conn[t]] = "none"]
  /\ UNCHANGED <<counter, exhausted, premature>>

(* A variant the properties reject: a broken INCR is taken back. *)
UndoIncr(t) ==
  /\ pc[t] = "incr"
  /\ Break(t)
  /\ counter' = counter - 1
  /\ watch' = Touched
  /\ UNCHANGED <<exhausted, premature>>

(* The connection breaks after the server has executed INCR: the number is gone. *)
BreakAfterIncr(t) ==
  /\ pc[t] = "incr"
  /\ Break(t)
  /\ counter' = counter + 1
  /\ watch' = Touched
  /\ UNCHANGED <<exhausted, premature>>

(* The connection breaks after the server has executed the transaction. *)
BreakAfterExec(t) ==
  /\ pc[t] = "exec"
  /\ watch[conn[t]] = "clean"
  /\ Break(t)
  /\ DeleteKey(conn[t])

Step(t) ==
  \/ Borrow(t) \/ Incr(t) \/ Watch(t) \/ Multi(t) \/ Exec(t) \/ Return(t)

Failure(t) ==
  \/ BorrowFails(t) \/ BreakBefore(t) \/ BreakAfterIncr(t) \/ BreakAfterExec(t)

(* Nobody calls any more: the bound of the model, not an action of the code. *)
Quiet ==
  /\ \A t \in Threads : pc[t] = "idle" /\ calls[t] = MaxCalls
  /\ UNCHANGED vars

Next ==
  \/ \E t \in Threads : Call(t) \/ Step(t) \/ Failure(t)
  \/ Quiet

(* A running thread goes on; nobody has to call, no connection has to break. *)
Fairness == \A t \in Threads : WF_vars(Step(t))

Spec     == Init /\ [][Next]_vars
FairSpec == Spec /\ Fairness

=============================================================================

------------------------- MODULE SerialNumberProps -------------------------
(* What is claimed of RedisOnlySerialNumberGenerator.nextLong(). *)
EXTENDS SerialNumber

Handed == [gen : Nat, num : Nat, to : Threads, call : Nat]

(* Every variable stays in its type: in particular only connections, never a *)
(* null, enter the pool (JedisUtil.returnResource tests for null).           *)
TypeOK ==
  /\ counter \in Nat
  /\ watch \in [Connections -> {"none", "clean", "dirty"}]
  /\ pool \subseteq Connections
  /\ lost \subseteq Connections
  /\ pc \in [Threads -> Places]
  /\ conn \in [Threads -> Connections \cup {NoConn}]
  /\ ret \in [Threads -> Nat \cup {-1}]
  /\ depth \in [Threads -> 0..MaxDepth]
  /\ calls \in [Threads -> Nat]
  /\ failures \in Nat
  /\ seenAt \in [Threads -> Nat]
  /\ handed \subseteq Handed
  /\ exhausted \in Nat
  /\ premature \in Nat

-----------------------------------------------------------------------------
(* A connection is in one place: in the pool, lost, or with one thread.  A   *)
(* thread that waits for a connection (also one that recurses) holds none,   *)
(* so that callers never wait for one another in a circle.                   *)
ConnectionsInOnePlace ==
  /\ pool \cap lost = {}
  /\ \A t \in Threads : /\ pc[t] \in Holding => conn[t] \in Connections \ (pool \cup lost)
                        /\ pc[t] \notin Holding => conn[t] = NoConn
  /\ \A t, u \in Threads : t # u /\ conn[t] # NoConn => conn[t] # conn[u]

(* nextLong never gives back a connection that still watches the key: the   *)
(* next transaction on it would abort for a reason its owner cannot know.    *)
PooledConnectionsWatchNothing == \A c \in pool : watch[c] = "none"

(* Between two deletions of the key no number is handed out twice, whatever *)
(* threads recurse, connections break and answers get lost in between.       *)
OncePerGeneration ==
  \A a, b \in handed : a.gen = b.gen /\ a.num = b.num => a = b

(* What a call returns is -1 (no answer) or a number from 1 to maxValue; the *)
(* number it returns was handed to this very call.                           *)
ReturnsItsOwnNumber ==
  \A t \in Threads : pc[t] = "idle" =>
    \/ ret[t] = -1
    \/ /\ ret[t] \in 1..MaxValue
       /\ [gen |-> seenAt[t], num |-> ret[t], to |-> t, call |-> calls[t]] \in handed

(* As long as nobody has deleted the key since a thread read a number above  *)
(* maxValue, the counter is above maxValue: the test of line 42 goes stale   *)
(* only through another thread's deletion.                                   *)
OverflowHoldsUntilDeletion ==
  \A t \in Threads :
    pc[t] \in Overflowing /\ seenAt[t] = generation => counter > MaxValue

(* Threads about to delete a key that was deleted since they read it. *)
Stale == {t \in Threads : pc[t] \in Overflowing /\ seenAt[t] # generation}

(* The WATCH of line 43 comes after the INCR it should protect, so a late    *)
(* deletion can cut a fresh cycle short.  This is how often it can: for each *)
(* exhausted cycle at most once per thread other than the one that ended it. *)
PrematureDeletionsBounded ==
  premature + Cardinality(Stale) <= (Cardinality(Threads) - 1) * exhausted

(* Numbers of the running cycle that nobody was given. *)
Skipped ==
  {n \in 1..MaxValue : n <= counter} \
    {h.num : h \in {g \in handed : g.gen = generation}}

(* A number is skipped only when the connection broke under its INCR. *)
SkippedOnlyByFailures == Cardinality(Skipped) <= failures

-----------------------------------------------------------------------------
(* With one thread nextLong implements the cycle, broken connections and     *)
(* lost answers included.                                                    *)
LastTaken ==
  IF counter > MaxValue \/ (counter = 0 /\ generation > 0) THEN MaxValue ELSE counter

Cycle == INSTANCE SerialCycle WITH
  last <- LastTaken,
  got  <- [t \in Threads |-> IF ret[t] > MaxValue THEN -1 ELSE ret[t]]

ImplementsCycle == Cycle!Spec

(* With one thread a recursion that overflows again is the work of a broken *)
(* connection: the stack never grows further than that.                      *)
RecursesOnce == \A t \in Threads : depth[t] <= 1 + failures

(* A call that has begun ends, with a number, with -1 or with an exception,  *)
(* if some connection stays unbroken: nobody waits for ever for the pool.     *)
CallsReturn == \A t \in Threads : pc[t] = "borrow" ~> pc[t] = "idle"

-----------------------------------------------------------------------------
(* What the sources say of the generator and the code does not do.           *)

(* "the next serial number" (SerialNumberGenerator.java:12): the sequence    *)
(* starts again only after maxValue has been taken.                          *)
RestartsOnlyWhenExhausted ==
  [][counter' < counter => counter > MaxValue]_vars

(* "when the number is over the maximum, take one again later (recursively)"  *)
(* (RedisOnlySerialNumberGenerator.java:54): a call that read a number above   *)
(* maxValue ends with a number, if no connection breaks.                       *)
OverflowTakenLater ==
  \A t \in Threads : pc[t] = "watch" ~> ret[t] \in 1..MaxValue

=============================================================================

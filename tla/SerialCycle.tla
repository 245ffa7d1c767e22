---------------------------- MODULE SerialCycle ----------------------------
(***************************************************************************)
(* What a serial number generator promises (SerialNumberGenerator): every  *)
(* caller gets the next number, 1, 2, ..., MaxValue, and then 1 again.  A  *)
(* number whose caller could not be answered is skipped, never given to    *)
(* somebody else before the cycle comes round.                             *)
(***************************************************************************)
EXTENDS Integers

CONSTANTS Threads, MaxValue

VARIABLES
  last,   (* the number taken most recently, 0 before the first *)
  got     (* the number each caller has in hand, -1 for none    *)

vars == <<last, got>>

Successor(n) == IF n < MaxValue THEN n + 1 ELSE 1

Init ==
  /\ last = 0
  /\ got = [t \in Threads |-> -1]

Take(t) ==
  /\ got[t] = -1
  /\ last' = Successor(last)
  /\ got' = [got EXCEPT ![t] = Successor(last)]

Skip == last' = Successor(last) /\ UNCHANGED got

PutDown(t) ==
  /\ got' = [got EXCEPT ![t] = -1]
  /\ UNCHANGED last

Next == Skip \/ \E t \in Threads : Take(t) \/ PutDown(t)

Spec == Init /\ [][Next]_vars

=============================================================================

--------------------------- MODULE HttpPoolProps ---------------------------
(* What is claimed of HttpClientUtil's requests and their connections. *)
EXTENDS HttpPool

Requests == Callers \X (1..MaxCalls)

Pieces == [part : {"whole", "head", "body"}, req : Requests]

Links == [state : {"closed", "open", "gone"}, keep : {20, 30},
          asked : Requests \cup {None}, wire : Seq(Pieces)]

Places == {"idle", "lease", "send", "head", "body", "release"}

(* Every variable stays in its type: whatever a request fails with, only   *)
(* connections are given back, never the null of an empty context.         *)
TypeOK ==
  /\ pool \subseteq Connections
  /\ link \in [Connections -> Links]
  /\ pc \in [Callers -> Places]
  /\ method \in [Callers -> Methods]
  /\ conn \in [Callers -> Connections \cup {NoConn}]
  /\ held \in [Callers -> BOOLEAN]
  /\ result \in [Callers -> Requests \cup {None, Failed}]
  /\ calls \in [Callers -> 0..MaxCalls]
  /\ faults \in 0..MaxFaults
  /\ left \in Nat
  /\ spoiled \in Nat

(* A connection is in the pool or with one request, never with two and never *)
(* with neither: also when the library and the finally block both give it    *)
(* back, another thread leases it in between, or the request fails anywhere. *)
OneHolder ==
  \A c \in Connections :
    LET holders == {t \in Callers : held[t] /\ conn[t] = c} IN
    IF c \in pool THEN holders = {} ELSE \E t \in Callers : holders = {t}

(* A request that ends with an answer has read the answer to itself, not a   *)
(* late one to a request that was given up, nor another thread's.            *)
AnswersOwn ==
  \A t \in Callers :
    pc[t] = "idle" /\ result[t] \notin {None, Failed} => result[t] = Req(t)

(* postNoReturn leaves its answer on the connection and keeps the connection *)
(* longer than the server does: a later request may fail for that.  Nothing  *)
(* else makes a request fail that the network and its own server do not, and *)
(* each postNoReturn costs at most one.                                      *)
SpoiledByNoReturn == spoiled <= left

(* A request that waits for a connection ends: none is kept from the pool.    *)
CallsEnd == \A t \in Callers : pc[t] = "lease" ~> pc[t] = "idle"

=============================================================================

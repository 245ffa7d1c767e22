------------------------------ MODULE HttpPool ------------------------------
(***************************************************************************)
(* The requests of HttpClientUtil to one host, over the connections        *)
(* HttpClientConfig pools for it.                                          *)
(*                                                                         *)
(* A connection is given back twice: by the library, when a response has   *)
(* been read to its end or a request has failed, and in the finally block, *)
(* where only the first of the two counts.  postNoReturn does not read its *)
(* response: there the finally block gives back an open connection with a  *)
(* body still to come.                                                     *)
(*                                                                         *)
(* A response is on the wire as a head and a body, or whole, when it has   *)
(* no body; each piece is marked with the request it answers.              *)
(***************************************************************************)
EXTENDS Integers, Sequences

CONSTANTS
  Callers,      (* threads                                                     *)
  Connections,  (* the connections of the route: DefaultMaxPerRoute of them    *)
  NoConn,       (* the context before a connection is leased                   *)
  None, Failed, (* no request, no result yet; the result of an exception       *)
  MaxCalls,     (* bound: requests of each thread                              *)
  MaxFaults     (* bound: requests the network or the server fails             *)

ASSUME HttpAssumption ==
  /\ NoConn \notin Connections
  /\ None \notin Callers \X (1..MaxCalls)
  /\ MaxCalls \in Nat
  /\ MaxFaults \in Nat

VARIABLES
  pool,     (* connections that can be leased                                *)
  link,     (* each connection: [state, keep, asked, wire]                   *)
  pc,       (* where each thread is in its request                           *)
  method,   (* get; post, for the methods that read what they get; noReturn  *)
  conn,     (* the connection in its context                                 *)
  held,     (* the library has not given it back yet                         *)
  result,   (* what the request ends with: the request whose answer was read *)
  calls,    (* requests of each thread                                       *)
  faults,   (* failures so far                                               *)
  left,     (* history: connections given back with a response unread        *)
  spoiled   (* history: requests that failed by what came before them        *)

vars == <<pool, link, pc, method, conn, held, result, calls, faults, left, spoiled>>

thread  == <<method, calls>>
history == <<left, spoiled>>

Methods == {"get", "post", "noReturn"}
Req(t)  == <<t, calls[t]>>

(* Closed: a lease connects it anew. *)
Closed == [state |-> "closed", keep |-> 20, asked |-> None, wire |-> <<>>]

Init ==
  /\ pool = Connections
  /\ link = [c \in Connections |-> Closed]
  /\ pc = [t \in Callers |-> "idle"]
  /\ method = [t \in Callers |-> "get"]
  /\ conn = [t \in Callers |-> NoConn]
  /\ held = [t \in Callers |-> FALSE]
  /\ result = [t \in Callers |-> None]
  /\ calls = [t \in Callers |-> 0]
  /\ faults = 0
  /\ left = 0
  /\ spoiled = 0

Goto(t, place) == pc' = [pc EXCEPT ![t] = place]

Outcome(t, what) == result' = [result EXCEPT ![t] = what]

Fault == faults < MaxFaults /\ faults' = faults + 1

-----------------------------------------------------------------------------
Call(t) ==
  /\ pc[t] = "idle"
  /\ calls[t] < MaxCalls
  /\ calls' = [calls EXCEPT ![t] = @ + 1]
  /\ \E m \in Methods : method' = [method EXCEPT ![t] = m]
  /\ Outcome(t, None)
  /\ Goto(t, "lease")
  /\ UNCHANGED <<pool, link, conn, held, faults, history>>

(* The request cannot be built: there is no connection in the context yet. *)
NotBuilt(t) ==
  /\ pc[t] = "lease"
  /\ Fault
  /\ Outcome(t, Failed)
  /\ Goto(t, "release")
  /\ UNCHANGED <<pool, link, thread, conn, held, history>>

(* Waits, without a limit, for a connection; a closed one is connected. *)
Lease(t) ==
  /\ pc[t] = "lease"
  /\ \E c \in pool :
       /\ pool' = pool \ {c}
       /\ conn' = [conn EXCEPT ![t] = c]
       /\ link' = [link EXCEPT ![c].state = IF @ = "closed" THEN "open" ELSE @]
  /\ held' = [held EXCEPT ![t] = TRUE]
  /\ Goto(t, "send")
  /\ UNCHANGED <<thread, result, faults, history>>

(* A variant the properties reject: a request that fails keeps its connection open. *)
AbortKeepsOpen(t) ==
  /\ pool' = pool \cup {conn[t]}
  /\ held' = [held EXCEPT ![t] = FALSE]
  /\ Outcome(t, Failed)
  /\ Goto(t, "release")
  /\ UNCHANGED <<link, thread, conn>>

(* The library closes the connection of a request that fails. *)
Abort(t) ==
  /\ link' = [link EXCEPT ![conn[t]] = Closed]
  /\ pool' = pool \cup {conn[t]}
  /\ held' = [held EXCEPT ![t] = FALSE]
  /\ Outcome(t, Failed)
  /\ Goto(t, "release")
  /\ UNCHANGED <<thread, conn>>

(* It cannot connect, the connection breaks, or no answer comes within the *)
(* socket timeout.                                                         *)
Break(t) ==
  /\ pc[t] \in {"send", "head", "body"}
  /\ Fault
  /\ Abort(t)
  /\ UNCHANGED history

Send(t) ==
  /\ pc[t] = "send"
  /\ link[conn[t]].state = "open"
  /\ link' = [link EXCEPT ![conn[t]].asked = Req(t)]
  /\ Goto(t, "head")
  /\ UNCHANGED <<pool, thread, conn, held, result, faults, history>>

(* The server has closed its end meanwhile; the retry handler retries nothing. *)
SendTooLate(t) ==
  /\ pc[t] = "send"
  /\ link[conn[t]].state = "gone"
  /\ spoiled' = spoiled + 1
  /\ Abort(t)
  /\ UNCHANGED <<faults, left>>

(* The server answers what it was asked, with a body or without. *)
Answer(c) ==
  LET piece(part) == [part |-> part, req |-> link[c].asked] IN
  /\ link[c].asked # None
  /\ \E pieces \in {<<piece("whole")>>, <<piece("head"), piece("body")>>} :
       link' = [link EXCEPT ![c].wire = @ \o pieces, ![c].asked = None]
  /\ UNCHANGED <<pool, pc, conn, held, thread, result, faults, history>>

(* A variant the properties reject: the library keeps a connection as long as *)
(* the finally block does.                                                    *)
ReadToEndKeepsLong(t) ==
  /\ link' = [link EXCEPT ![conn[t]].wire = Tail(@), ![conn[t]].keep = 30]
  /\ pool' = pool \cup {conn[t]}
  /\ held' = [held EXCEPT ![t] = FALSE]
  /\ Goto(t, "release")

(* The response is read to its end: the library gives the connection back, *)
(* to be kept for 20 seconds (getKeepAliveDuration).                       *)
ReadToEnd(t) ==
  /\ link' = [link EXCEPT ![conn[t]].wire = Tail(@), ![conn[t]].keep = 20]
  /\ pool' = pool \cup {conn[t]}
  /\ held' = [held EXCEPT ![t] = FALSE]
  /\ Goto(t, "release")

(* The piece a thread finds next on its connection. *)
Finds(t, part) ==
  LET wire == link[conn[t]].wire IN wire # <<>> /\ Head(wire).part = part

(* A response without a body is read to its end; toString(null) throws, and so *)
(* does get when the status is not 2xx.                                        *)
ReadWhole(t) ==
  /\ pc[t] = "head"
  /\ Finds(t, "whole")
  /\ ReadToEnd(t)
  /\ \/ method[t] # "post" /\ Outcome(t, Head(link[conn[t]].wire).req)
     \/ method[t] # "noReturn" /\ Outcome(t, Failed)
  /\ UNCHANGED <<thread, conn, faults, history>>

(* The head of a response: postNoReturn is content with it. *)
ReadHead(t) ==
  /\ pc[t] = "head"
  /\ Finds(t, "head")
  /\ link' = [link EXCEPT ![conn[t]].wire = Tail(@)]
  /\ Goto(t, IF method[t] = "noReturn" THEN "release" ELSE "body")
  /\ Outcome(t, Head(link[conn[t]].wire).req)
  /\ UNCHANGED <<pool, held, thread, conn, faults, history>>

(* What an earlier response left is skipped line by line in search of a head; *)
(* when its last line does not end, the head is skipped with it.              *)
SkipLeftover(t) ==
  LET wire == link[conn[t]].wire IN
  /\ pc[t] = "head"
  /\ Finds(t, "body")
  /\ \E n \in {1, 2} :
       /\ n <= Len(wire)
       /\ link' = [link EXCEPT ![conn[t]].wire = SubSeq(wire, n + 1, Len(wire))]
  /\ UNCHANGED <<pool, pc, conn, held, thread, result, faults, history>>

(* The head was skipped: the socket timeout ends the request. *)
NoHeadLeft(t) ==
  /\ pc[t] = "head"
  /\ link[conn[t]].asked = None
  /\ link[conn[t]].wire = <<>>
  /\ spoiled' = spoiled + 1
  /\ Abort(t)
  /\ UNCHANGED <<faults, left>>

(* EntityUtils.toString; get throws afterwards when the status is not 2xx. *)
ReadBody(t) ==
  /\ pc[t] = "body"
  /\ Finds(t, "body")
  /\ ReadToEnd(t)
  /\ \/ Outcome(t, Head(link[conn[t]].wire).req)
     \/ method[t] = "get" /\ Outcome(t, Failed)
  /\ UNCHANGED <<thread, conn, faults, history>>

Leave(t) ==
  /\ conn' = [conn EXCEPT ![t] = NoConn]
  /\ held' = [held EXCEPT ![t] = FALSE]
  /\ Goto(t, "idle")
  /\ UNCHANGED <<thread, result, faults, spoiled>>

(* Variants the properties reject: null is given back; what the library has *)
(* given back is given back again; nothing is.                              *)
ReleaseNull(t) ==
  /\ pc[t] = "release"
  /\ pool' = IF held[t] \/ conn[t] = NoConn THEN pool \cup {conn[t]} ELSE pool
  /\ Leave(t)
  /\ UNCHANGED <<link, left>>

ReleaseAgain(t) ==
  /\ pc[t] = "release"
  /\ pool' = pool \cup ({conn[t]} \ {NoConn})
  /\ Leave(t)
  /\ UNCHANGED <<link, left>>

ReleaseNothing(t) ==
  /\ pc[t] = "release"
  /\ Leave(t)
  /\ UNCHANGED <<pool, link, left>>

(* releaseConn in the finally block: the connection is kept for 30 seconds. *)
(* One that the library has given back is left alone; on null it throws.    *)
Release(t) ==
  /\ pc[t] = "release"
  /\ IF held[t]
     THEN /\ pool' = pool \cup {conn[t]}
          /\ link' = [link EXCEPT ![conn[t]].keep = 30]
          /\ left' = left + 1
     ELSE UNCHANGED <<pool, link, left>>
  /\ Leave(t)

-----------------------------------------------------------------------------
(* A pooled connection is idle for 20 seconds, the server's keep-alive timeout: *)
(* the server closes it, and the pool drops it unless it is kept for longer.    *)
Idle20(c) ==
  /\ c \in pool
  /\ link[c].state = "open"
  /\ link' = [link EXCEPT ![c] =
                IF link[c].keep = 20 THEN Closed ELSE [@ EXCEPT !.state = "gone"]]
  /\ UNCHANGED <<pool, pc, conn, held, thread, result, faults, history>>

Idle30(c) ==
  /\ c \in pool
  /\ link[c].state = "gone"
  /\ link' = [link EXCEPT ![c] = Closed]
  /\ UNCHANGED <<pool, pc, conn, held, thread, result, faults, history>>

Step(t) ==
  \/ Lease(t) \/ Send(t) \/ SendTooLate(t) \/ ReadWhole(t) \/ ReadHead(t)
  \/ SkipLeftover(t) \/ NoHeadLeft(t) \/ ReadBody(t) \/ Release(t)

Next ==
  \/ \E t \in Callers : Call(t) \/ Step(t) \/ NotBuilt(t) \/ Break(t)
  \/ \E c \in Connections : Answer(c) \/ Idle20(c) \/ Idle30(c)

(* A thread inside a request goes on; a request is answered unless it fails. *)
Fairness ==
  /\ \A t \in Callers : WF_vars(Step(t))
  /\ \A c \in Connections : WF_vars(Answer(c))

Spec == Init /\ [][Next]_vars /\ Fairness

=============================================================================

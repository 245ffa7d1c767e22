----------------------------- MODULE TokenStore -----------------------------
(***************************************************************************)
(* MyRedisTokenStore, driven by the token services of the authorization    *)
(* server: logging in (createAccessToken), refreshing (refreshAccessToken) *)
(* and checking a token (loadAuthentication).                              *)
(*                                                                         *)
(* The store keeps, for every token, up to six keys and two list entries,  *)
(* written by pipelines.  A pipeline is not a transaction: the server may  *)
(* execute other clients' commands between two of its commands, and a      *)
(* client that dies leaves the rest of its pipeline undone.  Here each     *)
(* worker has a queue of commands; the head of a queue is one step.        *)
(*                                                                         *)
(* A token is a number: n stands for the access token and for the refresh  *)
(* token embedded in it (the JWT converter gives both a fresh value).      *)
(***************************************************************************)
EXTENDS Redis

CONSTANTS
  Workers,       (* request threads of the server                             *)
  Users,         (* user names, all of the client "rxv5-client"               *)
  Validity,      (* accessTokenValiditySeconds                                *)
  RefreshValidity, (* the same for refresh tokens: longer than a behaviour    *)
  MaxTime,       (* bound: ticks                                              *)
  MaxTokens,     (* bound: tokens issued                                      *)
  MaxCalls,      (* bound: requests                                           *)
  MaxCrashes     (* bound: workers that die in a request                      *)

ASSUME TokenAssumption ==
  /\ Validity \in Nat \ {0}
  /\ MaxTime \in Nat
  /\ RefreshValidity \in Nat
  /\ RefreshValidity > MaxTime
  /\ Second \in Nat \ {0}
  /\ Forever \notin Int
  /\ MaxTokens \in Nat
  /\ MaxCalls \in Nat
  /\ MaxCrashes \in Nat

VARIABLES
  db,        (* the Redis database                                           *)
  now,       (* the tick it is                                               *)
  tokens,    (* history: [user, exp] of every token issued                   *)
  job,       (* what each worker does: [stage, user, op, tok]                *)
  queue,     (* the commands it has still to send                            *)
  got,       (* the answers to its GETs since the queue was filled           *)
  calls,     (* requests so far                                              *)
  crashes,   (* workers that died so far                                     *)
  replaced,  (* history: tokens a refresh has taken out                      *)
  stretched  (* history: time has passed inside a pipeline                   *)

vars == <<db, now, tokens, job, queue, got, calls, crashes, replaced, stretched>>

history == <<replaced, stretched>>

-----------------------------------------------------------------------------
(* Keys *)

Access(n)          == <<"access", n>>
AuthOf(n)          == <<"auth", n>>
AuthToAccess(u)    == <<"auth_to_access", u>>
AccessToRefresh(n) == <<"access_to_refresh", n>>
RefreshToAccess(n) == <<"refresh_to_access", n>>
RefreshKey(n)      == <<"refresh", n>>
RefreshAuth(n)     == <<"refresh_auth", n>>
UnameToAccess(u)   == <<"uname_to_access", u>>
ClientIdToAccess   == <<"client_id_to_access", "rxv5-client">>

(* The key generator takes user name, open id, client and scope: here, with *)
(* one client and scope and no open id, the user name.                      *)
ExtractKeyWithoutName(u) == CHOOSE v \in Users : TRUE   (* a variant the properties reject *)
ExtractKey(u) == u

Get(key)         == [op |-> "GET",    key |-> key, arg |-> Nil]
Write(key, val)  == [op |-> "SET",    key |-> key, arg |-> val]
Delete(key)      == [op |-> "DEL",    key |-> key, arg |-> Nil]
Append1(key, v)  == [op |-> "RPUSH",  key |-> key, arg |-> v]
Remove1(key, v)  == [op |-> "LREM",   key |-> key, arg |-> v]
Live(key, secs)  == [op |-> "EXPIRE", key |-> key, arg |-> secs]

(* getExpiresIn cuts off what is not a whole second: in its last second a token *)
(* is not expired and has no second left.                                       *)
Expired(n, toks)   == now > toks[n].exp
ExpiresInRoundedUp(n, toks) == (toks[n].exp - now + Second - 1) \div Second   (* a variant the properties reject *)
ExpiresIn(n, toks) == (toks[n].exp - now) \div Second

-----------------------------------------------------------------------------
(* The methods of the store, as the commands they send. *)

(* A variant the properties reject: the two lists get no time to live. *)
StoreAccessTokenNoTtl(n, u, toks) ==
  << Write(Access(n), n), Write(AuthOf(n), u), Write(AuthToAccess(ExtractKey(u)), n),
     Append1(UnameToAccess(u), n), Append1(ClientIdToAccess, n),
     Live(Access(n), ExpiresIn(n, toks)), Live(AuthOf(n), ExpiresIn(n, toks)),
     Live(AuthToAccess(ExtractKey(u)), ExpiresIn(n, toks)),
     Write(RefreshToAccess(n), n), Write(AccessToRefresh(n), n) >>

(* A variant the properties reject: the list of the user ends a second early. *)
StoreAccessTokenListEarly(n, u, toks) ==
  << Write(Access(n), n), Write(AuthOf(n), u), Write(AuthToAccess(ExtractKey(u)), n),
     Append1(UnameToAccess(u), n), Live(Access(n), ExpiresIn(n, toks)),
     Live(AuthOf(n), ExpiresIn(n, toks)), Live(UnameToAccess(u), ExpiresIn(n, toks) - 1) >>

(* storeAccessToken *)
StoreAccessToken(n, u, toks) ==
  << Write(Access(n), n), Write(AuthOf(n), u), Write(AuthToAccess(ExtractKey(u)), n),
     Append1(UnameToAccess(u), n), Append1(ClientIdToAccess, n),
     Live(Access(n), ExpiresIn(n, toks)), Live(AuthOf(n), ExpiresIn(n, toks)),
     Live(AuthToAccess(ExtractKey(u)), ExpiresIn(n, toks)),
     Live(ClientIdToAccess, ExpiresIn(n, toks)), Live(UnameToAccess(u), ExpiresIn(n, toks)),
     Write(RefreshToAccess(n), n), Write(AccessToRefresh(n), n),
     Live(RefreshToAccess(n), RefreshValidity), Live(AccessToRefresh(n), RefreshValidity) >>

(* storeRefreshToken *)
StoreRefreshToken(n, u) ==
  << Write(RefreshKey(n), n), Write(RefreshAuth(n), u),
     Live(RefreshKey(n), RefreshValidity), Live(RefreshAuth(n), RefreshValidity) >>

(* removeRefreshToken: the last key is named after the refresh token, not after *)
(* the access token that "access_to_refresh" keys are written under.             *)
RemoveRefreshToken(n) ==
  << Delete(RefreshKey(n)), Delete(RefreshAuth(n)), Delete(RefreshToAccess(n)),
     Delete(<<"access_to_refresh_of_refresh", n>>) >>

(* Variants the properties reject: the token's own key is forgotten; every *)
(* occurrence in the list is removed.                                       *)
TakeAccessTokenKeepsKey(n) ==
  << Get(Access(n)), Get(AuthOf(n)), Delete(AccessToRefresh(n)), Delete(AuthOf(n)) >>

UnindexAllOccurrences(n, u) ==
  << Delete(AuthToAccess(ExtractKey(u))), Remove1(UnameToAccess(u), n),
     Remove1(UnameToAccess(u), n), Remove1(ClientIdToAccess, n) >>

(* removeAccessToken, its two pipelines *)
TakeAccessToken(n) ==
  << Get(Access(n)), Get(AuthOf(n)), Delete(Access(n)), Delete(AccessToRefresh(n)),
     Delete(AuthOf(n)) >>

UnindexAccessToken(n, u) ==
  << Delete(AuthToAccess(ExtractKey(u))), Remove1(UnameToAccess(u), n),
     Remove1(ClientIdToAccess, n), Delete(Access(ExtractKey(u))) >>

-----------------------------------------------------------------------------
Idle == [stage |-> "idle", user |-> Nil, op |-> "idle", tok |-> 0]

Init ==
  /\ db = Empty
  /\ now = 0
  /\ tokens = <<>>
  /\ job = [w \in Workers |-> Idle]
  /\ queue = [w \in Workers |-> <<>>]
  /\ got = [w \in Workers |-> <<>>]
  /\ calls = 0
  /\ crashes = 0
  /\ replaced = {}
  /\ stretched = FALSE

(* The worker fills its queue and forgets older answers. *)
Send(w, cmds) ==
  /\ queue' = [queue EXCEPT ![w] = cmds]
  /\ got' = [got EXCEPT ![w] = <<>>]

Stage(w, stage) == job' = [job EXCEPT ![w].stage = stage]

(* The next command of a worker reaches the server. *)
Exec(w) ==
  /\ queue[w] # <<>>
  /\ LET cmd == Head(queue[w]) IN
       /\ db' = Apply(db, cmd, now)
       /\ got' = IF cmd.op = "GET" THEN [got EXCEPT ![w] = Append(@, Value(db, cmd.key))]
                 ELSE got
  /\ queue' = [queue EXCEPT ![w] = Tail(@)]
  /\ UNCHANGED <<now, tokens, job, calls, crashes, history>>

(* A worker may go on when its pipeline is through. *)
At(w, stage) == queue[w] = <<>> /\ job[w].stage = stage

Begin(w, op, u, n, stage, cmds) ==
  /\ At(w, "idle")
  /\ calls < MaxCalls
  /\ calls' = calls + 1
  /\ job' = [job EXCEPT ![w] = [stage |-> stage, user |-> u, op |-> op, tok |-> n]]
  /\ Send(w, cmds)
  /\ UNCHANGED <<db, now, tokens, crashes, history>>

(* createAccessToken begins with getAccessToken(authentication). *)
Login(w, u) == Begin(w, "login", u, 0, "found", <<Get(AuthToAccess(ExtractKey(u)))>>)

(* refreshAccessToken begins with readRefreshToken(value). *)
Refresh(w, n) == Begin(w, "refresh", Nil, n, "refresh", <<Get(RefreshKey(n))>>)

(* loadAuthentication begins with readAccessToken(value). *)
Check(w, n) == Begin(w, "check", Nil, n, "check", <<Get(Access(n))>>)

(* The request ends, with or without a token. *)
End(w) ==
  /\ job' = [job EXCEPT ![w] = Idle]
  /\ Send(w, <<>>)
  /\ UNCHANGED <<db, now, tokens, calls, crashes, history>>

-----------------------------------------------------------------------------
(* getAccessToken: with a token found, its authentication is read, *)
GetAccessToken(w) ==
  /\ At(w, "found")
  /\ LET n == got[w][1] IN
       \/ /\ n = Nil
          /\ Stage(w, "mint")
          /\ Send(w, <<>>)
       \/ /\ n # Nil
          /\ job' = [job EXCEPT ![w].tok = n, ![w].stage = "verify"]
          /\ Send(w, <<Get(AuthOf(n))>>)
  /\ UNCHANGED <<db, now, tokens, calls, crashes, history>>

(* and the token stored again when the authentication is lost or another's. *)
Verify(w) ==
  LET n == job[w].tok
      u == job[w].user
      stored == got[w][1]
  IN
  /\ At(w, "verify")
  /\ \/ /\ stored # Nil /\ ExtractKey(stored) = ExtractKey(u)
        /\ Send(w, <<>>)
     \/ /\ stored = Nil \/ ExtractKey(stored) # ExtractKey(u)
        /\ Send(w, StoreAccessToken(n, u, tokens))
  /\ Stage(w, "existing")
  /\ UNCHANGED <<db, now, tokens, calls, crashes, history>>

(* A variant the properties reject: a token that is found is returned as it is. *)
ExistingNotStored(w) ==
  /\ At(w, "existing")
  /\ Send(w, <<>>)
  /\ Stage(w, "granted")
  /\ UNCHANGED <<db, now, tokens, calls, crashes, history>>

(* createAccessToken: an expired token is removed together with its refresh *)
(* token, another one is stored again and returned.                         *)
Existing(w) ==
  LET n == job[w].tok IN
  /\ At(w, "existing")
  /\ \/ /\ Expired(n, tokens)
        /\ Send(w, RemoveRefreshToken(n) \o TakeAccessToken(n))
        /\ Stage(w, "taken")
     \/ /\ ~Expired(n, tokens)
        /\ Send(w, StoreAccessToken(n, job[w].user, tokens))
        /\ Stage(w, "granted")
  /\ UNCHANGED <<db, now, tokens, calls, crashes, history>>

(* What follows on removeAccessToken, by request. *)
AfterRemoval(op) == IF op = "check" THEN "rejected" ELSE "mint"

(* removeAccessToken after its first pipeline: without an authentication there *)
(* is nothing to unindex; with one but no token the LREM of a null throws, and *)
(* the DEL before it may have been sent.                                       *)
Taken(w) ==
  LET n      == job[w].tok
      access == got[w][1]
      auth   == got[w][2]
  IN
  /\ At(w, "taken")
  /\ \/ /\ auth = Nil
        /\ Send(w, <<>>)
        /\ Stage(w, AfterRemoval(job[w].op))
     \/ /\ auth # Nil /\ access # Nil
        /\ Send(w, UnindexAccessToken(n, auth))
        /\ Stage(w, AfterRemoval(job[w].op))
     \/ /\ auth # Nil /\ access = Nil
        /\ \E sent \in {<<>>, <<Delete(AuthToAccess(ExtractKey(auth)))>>} : Send(w, sent)
        /\ Stage(w, "rejected")
  /\ replaced' = IF job[w].op = "refresh" THEN replaced \cup {n} ELSE replaced
  /\ UNCHANGED <<db, now, tokens, calls, crashes, stretched>>

(* A new token; createAccessToken also stores its refresh token, whereas        *)
(* refreshAccessToken (reuseRefreshToken) leaves the stored one as it is.       *)
Mint(w) ==
  LET u    == job[w].user
      n    == Len(tokens) + 1
      toks == Append(tokens, [user |-> u, exp |-> now + Validity * Second])
  IN
  /\ At(w, "mint")
  /\ n <= MaxTokens
  /\ tokens' = toks
  /\ job' = [job EXCEPT ![w].tok = n, ![w].stage = "granted"]
  /\ Send(w, StoreAccessToken(n, u, toks) \o
             (IF job[w].op = "login" THEN StoreRefreshToken(n, u) ELSE <<>>))
  /\ UNCHANGED <<db, now, calls, crashes, history>>

(* readRefreshToken, then readAuthenticationForRefreshToken *)
ReadRefreshToken(w) ==
  /\ At(w, "refresh")
  /\ IF got[w][1] = Nil
     THEN Stage(w, "rejected") /\ Send(w, <<>>)
     ELSE Stage(w, "whose") /\ Send(w, <<Get(RefreshAuth(job[w].tok))>>)
  /\ UNCHANGED <<db, now, tokens, calls, crashes, history>>

(* A variant the properties reject: a refresh token without an authentication *)
(* is accepted.                                                               *)
ReadRefreshAuthAcceptsNull(w) ==
  LET r == job[w].tok IN
  /\ At(w, "whose")
  /\ job' = [job EXCEPT ![w].user = got[w][1], ![w].stage = "old"]
  /\ Send(w, <<Get(RefreshToAccess(r)), Delete(RefreshToAccess(r))>>)
  /\ UNCHANGED <<db, now, tokens, calls, crashes, history>>

(* removeAccessTokenUsingRefreshToken, its pipeline *)
ReadRefreshAuth(w) ==
  LET r == job[w].tok
      u == got[w][1]
  IN
  /\ At(w, "whose")
  /\ IF u = Nil
     THEN Stage(w, "rejected") /\ Send(w, <<>>)
     ELSE /\ job' = [job EXCEPT ![w].user = u, ![w].stage = "old"]
          /\ Send(w, <<Get(RefreshToAccess(r)), Delete(RefreshToAccess(r))>>)
  /\ UNCHANGED <<db, now, tokens, calls, crashes, history>>

(* removeAccessTokenUsingRefreshToken, the rest *)
RemoveUsingRefreshToken(w) ==
  LET n == got[w][1] IN
  /\ At(w, "old")
  /\ IF n = Nil
     THEN Stage(w, "mint") /\ Send(w, <<>>)
     ELSE /\ job' = [job EXCEPT ![w].tok = n, ![w].stage = "taken"]
          /\ Send(w, TakeAccessToken(n))
  /\ UNCHANGED <<db, now, tokens, calls, crashes, history>>

(* loadAuthentication: an expired token is removed, another one's authentication *)
(* is read.                                                                      *)
LoadAuthentication(w) ==
  LET n == job[w].tok IN
  /\ At(w, "check")
  /\ IF got[w][1] = Nil THEN Stage(w, "rejected") /\ Send(w, <<>>)
     ELSE IF Expired(n, tokens) THEN Stage(w, "taken") /\ Send(w, TakeAccessToken(n))
     ELSE Stage(w, "checked") /\ Send(w, <<Get(AuthOf(n))>>)
  /\ UNCHANGED <<db, now, tokens, calls, crashes, history>>

Finish(w) == (At(w, "granted") \/ At(w, "checked") \/ At(w, "rejected")) /\ End(w)

(* The worker dies: what it has sent is done, the rest is not. *)
Crash(w) ==
  /\ job[w].stage # "idle"
  /\ crashes < MaxCrashes
  /\ crashes' = crashes + 1
  /\ job' = [job EXCEPT ![w] = Idle]
  /\ Send(w, <<>>)
  /\ UNCHANGED <<db, now, tokens, calls, history>>

(* Time passes; the server drops what has expired. *)
Tick ==
  /\ now < MaxTime
  /\ now' = now + 1
  /\ db' = Alive(db, now + 1)
  /\ stretched' = (stretched \/ \E w \in Workers : queue[w] # <<>>)
  /\ UNCHANGED <<tokens, job, queue, got, calls, crashes, replaced>>

Step(w) ==
  \/ Exec(w) \/ GetAccessToken(w) \/ Verify(w) \/ Existing(w) \/ Taken(w) \/ Mint(w)
  \/ ReadRefreshToken(w) \/ ReadRefreshAuth(w) \/ RemoveUsingRefreshToken(w)
  \/ LoadAuthentication(w) \/ Finish(w)

Request(w) ==
  \/ \E u \in Users : Login(w, u)
  \/ \E n \in DOMAIN tokens : Refresh(w, n) \/ Check(w, n)

Next == Tick \/ \E w \in Workers : Request(w) \/ Step(w) \/ Crash(w)

Spec == Init /\ [][Next]_vars

=============================================================================

-------------------------- MODULE TokenStoreProps --------------------------
(* What is claimed of MyRedisTokenStore under the token services. *)
EXTENDS TokenStore

Stages == {"idle", "found", "verify", "existing", "taken", "mint", "granted",
           "refresh", "whose", "old", "check", "checked", "rejected"}

Issued == DOMAIN tokens

(* Nothing is on its way to the server. *)
Settled == \A w \in Workers : queue[w] = <<>>

(* No request is being served. *)
NoRequests == \A w \in Workers : job[w].stage = "idle"

Exists(key) == key \in DOMAIN db

-----------------------------------------------------------------------------
(* Every variable stays in its type; every value in the database names a *)
(* token that was issued or a user.                                       *)
TypeOK ==
  /\ now \in 0..MaxTime
  /\ \A n \in Issued : tokens[n].user \in Users /\ tokens[n].exp \in Nat
  /\ \A k \in DOMAIN db :
       /\ db[k].dl = Forever \/ db[k].dl > now
       /\ CASE k[1] \in {"auth", "refresh_auth"} -> db[k].val \in Users
            [] k[1] \in {"uname_to_access", "client_id_to_access"} ->
                 db[k].val # <<>> /\ \A i \in DOMAIN db[k].val : db[k].val[i] \in Issued
            [] OTHER -> db[k].val \in Issued
  /\ \A w \in Workers : job[w].stage \in Stages /\ job[w].user \in Users \cup {Nil}
  /\ \A w \in Workers : \A i \in DOMAIN queue[w] : queue[w][i].op \in Commands
  /\ replaced \subseteq Issued

(* storeAccessToken and storeRefreshToken write their keys first and give    *)
(* them a time to live afterwards (lines 152-184): when all pipelines are    *)
(* through and no worker died in one, every key the store left has one, in   *)
(* whatever order the commands of two requests came.                         *)
KeysExpire ==
  Settled /\ crashes = 0 => \A k \in DOMAIN db : db[k].dl # Forever

(* "tells different users on one client apart" (the purpose of               *)
(* MyCustomAuthenticationKeyGenerator, line 19): a request is granted a      *)
(* token of its own user only, also when two requests race.                  *)
GrantedToOwner ==
  \A w \in Workers :
    job[w].stage = "granted" => tokens[job[w].tok].user = job[w].user

(* A token is not readable after its end, if no worker died and no pipeline  *)
(* took longer than the clock: its key was stored with the time left to it.  *)
KeyEndsWithToken ==
  crashes = 0 /\ ~stretched /\ Settled =>
    \A n \in Issued : Exists(Access(n)) => db[Access(n)].dl <= tokens[n].exp

-----------------------------------------------------------------------------
(* One request at a time.                                                    *)

(* A token that has been granted, with a whole second left, can be read and  *)
(* has its authentication: also when an earlier request died in a pipeline,  *)
(* because getAccessToken and createAccessToken store a found token again.   *)
GrantedIsUsable ==
  \A w \in Workers :
    LET n == job[w].tok IN
    At(w, "granted") /\ ExpiresIn(n, tokens) > 0 =>
      Exists(Access(n)) /\ Exists(AuthOf(n)) /\ db[AuthOf(n)].val = tokens[n].user

(* Between two requests, if none died, a token that can be read has its      *)
(* authentication, so that loadAuthentication does not fail on it.           *)
ReadableIsAuthenticated ==
  NoRequests /\ crashes = 0 =>
    \A n \in Issued : Exists(Access(n)) => Exists(AuthOf(n))

(* Between two requests, if none died and no pipeline took longer than the   *)
(* clock, the list of a user holds all of the user's tokens that can be read *)
(* and have a whole second left.  The list expires as a whole (line 166),    *)
(* with the time left to the token that was stored last; storing a token     *)
(* again in its last second deletes the list at once.                        *)
UserListComplete ==
  NoRequests /\ crashes = 0 /\ ~stretched =>
    \A n \in Issued : Exists(Access(n)) /\ ExpiresIn(n, tokens) > 0 =>
      LET key == UnameToAccess(tokens[n].user) IN
      Exists(key) /\ \E i \in DOMAIN db[key].val : db[key].val[i] = n

(* A token that a refresh has replaced is not readable again, whatever       *)
(* logins of its user follow, which store again what they find: the refresh  *)
(* has taken its keys and put the new token where a login looks (line 155).  *)
ReplacedStaysGone ==
  NoRequests /\ crashes = 0 => \A n \in replaced : ~Exists(Access(n))

=============================================================================

-------------------------- MODULE TokenStoreProofs --------------------------
(* Proofs about the token store, for any number of workers, users, tokens, *)
(* requests and crashes, any validity and any length of a second.          *)
EXTENDS TokenStoreProps, SequenceTheorems, TLAPS

Numbers == INSTANCE FiltersProofs

(* What keys and values are made of, and the keys of values and of lists *)
Words == Users \cup Nat \cup {Nil}

PlainKinds == {"access", "auth", "auth_to_access", "access_to_refresh", "refresh_to_access",
               "refresh", "refresh_auth", "access_to_refresh_of_refresh"}

PlainKeys == PlainKinds \X Words
ListKeys  == {ClientIdToAccess} \cup ({"uname_to_access"} \X Words)

Command ==
  [op : {"GET", "SET", "DEL"}, key : PlainKeys, arg : Words]
    \cup [op : {"RPUSH", "LREM"}, key : ListKeys, arg : Words]
    \cup [op : {"EXPIRE"}, key : PlainKeys \cup ListKeys, arg : Int]

Token == [user : Users, exp : Nat]
Job   == [stage : Stages, user : Users \cup {Nil}, op : {"idle", "login", "refresh", "check"},
          tok : Words]

Typed ==
  /\ now \in Nat
  /\ crashes \in Nat
  /\ tokens \in Seq(Token)
  /\ job \in [Workers -> Job]
  /\ queue \in [Workers -> Seq(Command)]
  /\ got \in [Workers -> Seq(Words)]
  /\ replaced \subseteq DOMAIN tokens

(* Token n was issued for user u. *)
Owned(n, u, toks) == n \in DOMAIN toks /\ toks[n].user = u

TokenKinds == {"access", "access_to_refresh", "refresh_to_access", "refresh",
               "access_to_refresh_of_refresh"}

(* A user's key leads to a token of the user, an authentication is that of the *)
(* token's user, any other key of a token holds the token.                     *)
Fits(key, val, toks) ==
  /\ key[1] = "auth_to_access" => Owned(val, key[2], toks)
  /\ key[1] \in {"auth", "refresh_auth"} => Owned(key[2], val, toks)
  /\ key[1] \in TokenKinds => val = key[2] /\ val \in DOMAIN toks

(* A list is not empty, and of tokens. *)
Listed(val, toks) == val \in Seq(DOMAIN toks) /\ val # <<>>

Entry(e) == e = [val |-> e.val, dl |-> e.dl] /\ e.dl \in Int \cup {Forever}

Stored(d, toks) ==
  \A k \in DOMAIN d : /\ Entry(d[k])
                      /\ k \in PlainKeys \cup ListKeys
                      /\ (k \in PlainKeys => d[k].val \in Words)
                      /\ (k \in ListKeys => Listed(d[k].val, toks))
                      /\ Fits(k, d[k].val, toks)

(* An answer is there or the next to come. *)
FirstAnswer(key, q, g) == g = <<>> => q # <<>> /\ q[1] = Get(key)

(* The token n and its authentication are read, or still to be read in this order. *)
TwoAnswers(n, q, g, toks) ==
  \/ Len(g) > 1 /\ (g[2] # Nil => Owned(n, g[2], toks))
  \/ /\ Len(g) = 1
     /\ \E i \in DOMAIN q : q[i].op = "GET"
     /\ \A i \in DOMAIN q : q[i].op = "GET" => q[i].key = AuthOf(n)
  \/ /\ Len(g) = 0
     /\ \E i, j \in DOMAIN q : i < j /\ q[i].op = "GET" /\ q[j].op = "GET"
     /\ \A i, j \in DOMAIN q : i < j /\ q[i].op = "GET" /\ q[j].op = "GET" =>
          q[i].key = Access(n) /\ q[j].key = AuthOf(n)

(* The answer to the only command, or that command *)
Asked(key, q, g) ==
  \/ q = <<Get(key)>> /\ g = <<>>
  \/ q = <<>> /\ Len(g) = 1

(* What may be written *)
Fitting(q, toks) ==
  \A i \in DOMAIN q : /\ q[i].op = "SET" => Fits(q[i].key, q[i].arg, toks)
                      /\ q[i].op = "RPUSH" => q[i].arg \in DOMAIN toks

(* What a worker knows in each stage of its request, and what it is about to write *)
Knows(j, q, g, toks) ==
  /\ Fitting(q, toks)
  /\ j.stage = "idle" => q = <<>>
  /\ j.stage \in {"found", "verify", "existing", "mint", "old", "granted"} => j.user \in Users
  /\ j.stage = "taken" => j.op = "check" \/ (j.user \in Users /\ Owned(j.tok, j.user, toks))
  /\ j.stage = "found" => /\ Asked(AuthToAccess(j.user), q, g)
                          /\ (g # <<>> => g[1] = Nil \/ Owned(g[1], j.user, toks))
  /\ j.stage = "whose" => /\ Asked(RefreshAuth(j.tok), q, g)
                          /\ (g # <<>> => g[1] = Nil \/ Owned(j.tok, g[1], toks))
  /\ j.stage = "check" => j.op = "check"
  /\ j.stage = "old" => /\ FirstAnswer(RefreshToAccess(j.tok), q, g)
                        /\ (g # <<>> => g[1] \in {Nil, j.tok})
  /\ j.stage = "taken" => TwoAnswers(j.tok, q, g, toks)
  /\ j.stage \in {"verify", "existing", "old", "granted"} => Owned(j.tok, j.user, toks)

Inv ==
  /\ Typed
  /\ Stored(db, tokens)
  /\ \A w \in Workers : Knows(job[w], queue[w], got[w], tokens)

(* A command that gives a key to a value without an end is followed by its EXPIRE. *)
Timed(q) ==
  \A i \in DOMAIN q : q[i].op \in {"SET", "RPUSH"} =>
    \E j \in DOMAIN q : i < j /\ q[j].op = "EXPIRE" /\ q[j].key = q[i].key

EndsComing(k) == \E w \in Workers : \E i \in DOMAIN queue[w] :
                   queue[w][i].op = "EXPIRE" /\ queue[w][i].key = k

ExpiryInv ==
  crashes = 0 =>
    /\ \A w \in Workers : Timed(queue[w])
    /\ \A k \in DOMAIN db : db[k].dl = Forever => EndsComing(k)

(* Sent or obeyed, an EXPIRE of a token's key is for the time left to the token. *)
InTime(q, toks) ==
  \A i \in DOMAIN q : q[i].op = "EXPIRE" /\ q[i].key[1] = "access" =>
    q[i].key[2] \in DOMAIN toks /\ now + q[i].arg * Second <= toks[q[i].key[2]].exp

EndInv ==
  ~stretched =>
    /\ \A w \in Workers : InTime(queue[w], tokens)
    /\ \A k \in DOMAIN db : k[1] = "access" =>
         \/ db[k].dl = Forever
         \/ k[2] \in Issued /\ db[k].dl <= tokens[k[2]].exp

-----------------------------------------------------------------------------
(* Keys and commands *)

(* The keys the store uses *)
LEMMA KeysTyped ==
  ASSUME NEW n \in Words
  PROVE  /\ {Access(n), AuthOf(n), AuthToAccess(n), AccessToRefresh(n), RefreshToAccess(n),
             RefreshKey(n), RefreshAuth(n), <<"access_to_refresh_of_refresh", n>>} \subseteq PlainKeys
         /\ {UnameToAccess(n), ClientIdToAccess} \subseteq ListKeys
BY DEF PlainKeys, PlainKinds, ListKeys, Access, AuthOf, AuthToAccess, AccessToRefresh,
       RefreshToAccess, RefreshKey, RefreshAuth, UnameToAccess

(* No list is where a value is looked for. *)
LEMMA KeyKinds ==
  /\ \A k \in PlainKeys : k[1] \in PlainKinds
  /\ \A k \in ListKeys : k[1] \notin PlainKinds /\ k \notin PlainKeys
BY DEF PlainKeys, ListKeys, PlainKinds, ClientIdToAccess

(* The commands it sends *)
LEMMA CommandsTyped ==
  /\ \A k \in PlainKeys : Get(k) \in Command /\ Delete(k) \in Command
  /\ \A k \in PlainKeys, v \in Words : Write(k, v) \in Command
  /\ \A k \in ListKeys, v \in Words : Append1(k, v) \in Command /\ Remove1(k, v) \in Command
  /\ \A k \in PlainKeys \cup ListKeys, s \in Int : Live(k, s) \in Command
BY DEF Command, Get, Delete, Write, Append1, Remove1, Live, Words

(* and what they consist of *)
LEMMA CommandParts ==
  ASSUME NEW c \in Command
  PROVE  /\ c.op \in Commands
         /\ c.op \in {"GET", "SET", "DEL"} => c.key \in PlainKeys /\ c.arg \in Words
         /\ c.op \in {"RPUSH", "LREM"} => c.key \in ListKeys
         /\ c.op = "EXPIRE" => c.arg \in Int /\ c.key \in PlainKeys \cup ListKeys
BY DEF Command, Commands

-----------------------------------------------------------------------------
(* Pipelines *)

(* What may be put into a queue *)
Good(q, toks) == q \in Seq(Command) /\ Fitting(q, toks) /\ Timed(q) /\ InTime(q, toks)

(* Reading and deleting is always good. *)
LEMMA ReadingGood ==
  ASSUME NEW q \in Seq(Command), NEW toks,
         \A i \in DOMAIN q : q[i].op \in {"GET", "DEL", "LREM"}
  PROVE  Good(q, toks)
BY DEF Good, Fitting, Timed, InTime

(* One pipeline after another *)
LEMMA ConcatGood ==
  ASSUME NEW toks, NEW p, NEW q, Good(p, toks), Good(q, toks)
  PROVE  Good(p \o q, toks)
<1> DEFINE r == p \o q
<1>1. /\ p \in Seq(Command) /\ q \in Seq(Command)
      /\ DOMAIN p = 1..Len(p) /\ DOMAIN q = 1..Len(q) /\ Len(p) \in Nat /\ Len(q) \in Nat
  BY LenProperties DEF Good
<1>2. /\ r \in Seq(Command)
      /\ DOMAIN r = 1..(Len(p) + Len(q))
      /\ \A i \in 1..(Len(p) + Len(q)) : r[i] = IF i <= Len(p) THEN p[i] ELSE q[i - Len(p)]
  BY <1>1, ConcatProperties, LenProperties
<1> HIDE DEF r
<1>3. ASSUME NEW i \in DOMAIN r
      PROVE  \/ i \in DOMAIN p /\ r[i] = p[i]
             \/ i - Len(p) \in DOMAIN q /\ r[i] = q[i - Len(p)]
  BY <1>1, <1>2
<1>4. Fitting(r, toks) /\ InTime(r, toks)
  BY <1>3 DEF Good, Fitting, InTime
<1>5. Timed(r)
  <2> SUFFICES ASSUME NEW i \in DOMAIN r, r[i].op \in {"SET", "RPUSH"}
               PROVE  \E j \in DOMAIN r : i < j /\ r[j].op = "EXPIRE" /\ r[j].key = r[i].key
    BY DEF Timed
  <2>1. CASE i \in DOMAIN p /\ r[i] = p[i]
    <3>1. PICK j \in DOMAIN p : i < j /\ p[j].op = "EXPIRE" /\ p[j].key = p[i].key
      BY <2>1 DEF Good, Timed
    <3>2. j \in DOMAIN r /\ r[j] = p[j]
      BY <1>1, <1>2
    <3>3. QED
      BY <2>1, <3>1, <3>2
  <2>2. CASE i - Len(p) \in DOMAIN q /\ r[i] = q[i - Len(p)]
    <3>1. PICK j \in DOMAIN q : i - Len(p) < j /\ q[j].op = "EXPIRE" /\ q[j].key = q[i - Len(p)].key
      BY <2>2 DEF Good, Timed
    <3>2. j + Len(p) \in DOMAIN r /\ r[j + Len(p)] = q[j] /\ i < j + Len(p)
      BY <1>1, <1>2, <3>1
    <3>3. QED
      BY <2>2, <3>1, <3>2
  <2>3. QED
    BY <1>3, <2>1, <2>2
<1>6. QED
  BY <1>2, <1>4, <1>5 DEF Good, r

(* What is left of a pipeline *)
LEMMA TailGood ==
  ASSUME NEW q \in Seq(Command), q # <<>>
  PROVE  /\ Head(q) = q[1] /\ 1 \in DOMAIN q /\ Head(q) \in Command
         /\ Tail(q) \in Seq(Command)
         /\ \A i \in DOMAIN Tail(q) : i + 1 \in DOMAIN q /\ Tail(q)[i] = q[i + 1]
         /\ \A i \in DOMAIN q : i > 1 => i - 1 \in DOMAIN Tail(q) /\ Tail(q)[i - 1] = q[i]
         /\ \A i \in DOMAIN q : i \in Int /\ i >= 1
<1>1. /\ Len(q) \in Nat /\ Len(q) # 0 /\ DOMAIN q = 1..Len(q)
      /\ Tail(q) \in Seq(Command) /\ Len(Tail(q)) = Len(q) - 1
      /\ \A i \in 1..Len(Tail(q)) : Tail(q)[i] = q[i + 1]
      /\ Head(q) \in Command
  BY HeadTailProperties, LenProperties, EmptySeq
<1>2. DOMAIN Tail(q) = 1..(Len(q) - 1)
  BY <1>1, LenProperties
<1>3. Head(q) = q[1]
  OBVIOUS
<1>4. QED
  BY <1>1, <1>2, <1>3

(* The seconds that are left of a token are no more than its time. *)
LEMMA WholeSeconds ==
  ASSUME NEW left \in Int
  PROVE  left \div Second \in Int /\ (left \div Second) * Second <= left
<1>1. Second \in Nat \ {0}
  BY TokenAssumption
<1>2. QED
  BY <1>1

(* The pipeline of storeAccessToken, for a token of the user *)
LEMMA StoreAccessGood ==
  ASSUME now \in Nat, NEW toks \in Seq(Token), NEW u \in Users, NEW n \in Words, Owned(n, u, toks)
  PROVE  Good(StoreAccessToken(n, u, toks), toks)
<1> DEFINE e == ExpiresIn(n, toks)
           q == StoreAccessToken(n, u, toks)
<1>1. toks[n].exp \in Nat /\ n \in DOMAIN toks
  <2>1. n \in DOMAIN toks /\ toks[n] \in Token
    BY LenProperties, ElementOfSeq DEF Owned
  <2>2. QED
    BY <2>1 DEF Token
<1>2. e \in Int /\ now + e * Second <= toks[n].exp
  <2>1. toks[n].exp - now \in Int
    BY <1>1
  <2>2. e \in Int /\ e * Second <= toks[n].exp - now
    BY <2>1, WholeSeconds DEF ExpiresIn
  <2>3. Second \in Nat
    BY TokenAssumption
  <2> HIDE DEF e
  <2>4. e * Second \in Int
    BY <2>2, <2>3
  <2>5. QED
    BY <1>1, <2>2, <2>4
<1>3. u \in Words /\ RefreshValidity \in Int
  BY TokenAssumption DEF Words
<1> HIDE DEF e
<1>4. q = << Write(Access(n), n), Write(AuthOf(n), u), Write(AuthToAccess(u), n),
             Append1(UnameToAccess(u), n), Append1(ClientIdToAccess, n),
             Live(Access(n), e), Live(AuthOf(n), e), Live(AuthToAccess(u), e),
             Live(ClientIdToAccess, e), Live(UnameToAccess(u), e),
             Write(RefreshToAccess(n), n), Write(AccessToRefresh(n), n),
             Live(RefreshToAccess(n), RefreshValidity), Live(AccessToRefresh(n), RefreshValidity) >>
  BY DEF q, e, StoreAccessToken, ExtractKey
<1> HIDE DEF q
<1>5. q \in Seq(Command)
  <2>1. /\ {Access(n), AuthOf(n), AuthToAccess(u), RefreshToAccess(n), AccessToRefresh(n)} \subseteq PlainKeys
        /\ {UnameToAccess(u), ClientIdToAccess} \subseteq ListKeys
    BY <1>3, KeysTyped
  <2>2. \A k \in PlainKeys : Write(k, n) \in Command /\ Write(k, u) \in Command
    BY <1>3, CommandsTyped
  <2>3. \A k \in PlainKeys \cup ListKeys : Live(k, e) \in Command /\ Live(k, RefreshValidity) \in Command
    BY <1>2, <1>3, CommandsTyped
  <2>4. \A k \in ListKeys : Append1(k, n) \in Command
    BY CommandsTyped
  <2>5. /\ Write(Access(n), n) \in Command /\ Write(AuthOf(n), u) \in Command
        /\ Write(AuthToAccess(u), n) \in Command
        /\ Write(RefreshToAccess(n), n) \in Command /\ Write(AccessToRefresh(n), n) \in Command
    BY <2>1, <2>2
  <2>6. /\ Live(Access(n), e) \in Command /\ Live(AuthOf(n), e) \in Command
        /\ Live(AuthToAccess(u), e) \in Command /\ Live(ClientIdToAccess, e) \in Command
        /\ Live(UnameToAccess(u), e) \in Command
        /\ Live(RefreshToAccess(n), RefreshValidity) \in Command
        /\ Live(AccessToRefresh(n), RefreshValidity) \in Command
    BY <2>1, <2>3
  <2>7. Append1(UnameToAccess(u), n) \in Command /\ Append1(ClientIdToAccess, n) \in Command
    BY <2>1, <2>4
  <2>8. QED
    BY <1>4, <2>5, <2>6, <2>7
<1>6. DOMAIN q = 1..14
  BY <1>4
<1>7. \A i \in 1..14 : q[i].op = "SET" => i \in {1, 2, 3, 11, 12}
  BY <1>4 DEF Write, Append1, Live
<1>8. Fitting(q, toks)
  <2>1. \A i \in {1, 11, 12} : q[i].key[1] \in TokenKinds /\ q[i].key[2] = n /\ q[i].arg = n
    BY <1>4 DEF Write, Access, RefreshToAccess, AccessToRefresh, TokenKinds
  <2>2. /\ q[2].key = <<"auth", n>> /\ q[2].arg = u
        /\ q[3].key = <<"auth_to_access", u>> /\ q[3].arg = n
    BY <1>4 DEF Write, AuthOf, AuthToAccess
  <2>3. \A i \in {1, 2, 3, 11, 12} : Fits(q[i].key, q[i].arg, toks)
    BY <1>1, <2>1, <2>2 DEF Fits, TokenKinds
  <2>4. \A i \in 1..14 : q[i].op = "RPUSH" => q[i].arg = n
    BY <1>4 DEF Write, Append1, Live
  <2>5. QED
    BY <1>1, <1>6, <1>7, <2>3, <2>4 DEF Fitting
<1>9. Timed(q)
  <2>1. \A i \in 1..14 : q[i].op \in {"SET", "RPUSH"} => i \in {1, 2, 3, 4, 5, 11, 12}
    BY <1>4 DEF Write, Append1, Live
  <2>2. \A j \in {6, 7, 8, 9, 10, 13, 14} : q[j].op = "EXPIRE"
    BY <1>4 DEF Live
  <2>3. /\ q[6].key = q[1].key /\ q[7].key = q[2].key /\ q[8].key = q[3].key
        /\ q[10].key = q[4].key /\ q[9].key = q[5].key
        /\ q[13].key = q[11].key /\ q[14].key = q[12].key
    BY <1>4 DEF Write, Append1, Live
  <2>4. QED
    BY <1>6, <2>1, <2>2, <2>3 DEF Timed
<1>10. InTime(q, toks)
  <2>1. \A i \in 1..14 : q[i].op = "EXPIRE" => i \in {6, 7, 8, 9, 10, 13, 14}
    BY <1>4 DEF Write, Append1, Live
  <2>2. \A i \in {7, 8, 9, 10, 13, 14} : q[i].key[1] # "access"
    BY <1>4 DEF Live, AuthOf, AuthToAccess, ClientIdToAccess, UnameToAccess, RefreshToAccess,
                AccessToRefresh
  <2>3. q[6].key = <<"access", n>> /\ q[6].arg = e
    BY <1>4 DEF Live, Access
  <2>4. ASSUME NEW i \in DOMAIN q, q[i].op = "EXPIRE", q[i].key[1] = "access"
        PROVE  q[i].key[2] = n /\ q[i].arg = e
    BY <1>6, <2>1, <2>2, <2>3, <2>4
  <2>5. QED
    BY <1>1, <1>2, <2>4 DEF InTime
<1>11. QED
  BY <1>5, <1>8, <1>9, <1>10 DEF Good, q

(* The pipeline of storeRefreshToken *)
LEMMA StoreRefreshGood ==
  ASSUME NEW toks, NEW u \in Users, NEW n \in Words, Owned(n, u, toks)
  PROVE  Good(StoreRefreshToken(n, u), toks)
<1> DEFINE q == StoreRefreshToken(n, u)
<1>1. u \in Words /\ RefreshValidity \in Int
  BY TokenAssumption DEF Words
<1>2. q \in Seq(Command)
  <2>1. RefreshKey(n) \in PlainKeys /\ RefreshAuth(n) \in PlainKeys
    BY KeysTyped
  <2>2. /\ Write(RefreshKey(n), n) \in Command /\ Write(RefreshAuth(n), u) \in Command
        /\ Live(RefreshKey(n), RefreshValidity) \in Command
        /\ Live(RefreshAuth(n), RefreshValidity) \in Command
    BY <1>1, <2>1, CommandsTyped
  <2>3. QED
    BY <2>2 DEF StoreRefreshToken
<1>3. /\ DOMAIN q = 1..4
      /\ q[1] = Write(RefreshKey(n), n) /\ q[2] = Write(RefreshAuth(n), u)
      /\ q[3] = Live(RefreshKey(n), RefreshValidity) /\ q[4] = Live(RefreshAuth(n), RefreshValidity)
  BY DEF StoreRefreshToken
<1> HIDE DEF q
<1>4. Fitting(q, toks) /\ InTime(q, toks)
  BY <1>3 DEF Fitting, Fits, Owned, TokenKinds, InTime, Write, Live, RefreshKey, RefreshAuth
<1>5. Timed(q)
  BY <1>3 DEF Timed, Write, Live
<1>6. QED
  BY <1>2, <1>4, <1>5 DEF Good, q

(* The pipelines of the other methods read and delete. *)
LEMMA RemovalsGood ==
  ASSUME NEW toks, NEW n \in Words, NEW u \in Words
  PROVE  /\ Good(RemoveRefreshToken(n), toks)
         /\ Good(TakeAccessToken(n), toks)
         /\ Good(UnindexAccessToken(n, u), toks)
         /\ Good(<<Get(RefreshToAccess(n)), Delete(RefreshToAccess(n))>>, toks)
         /\ Good(<<Delete(AuthToAccess(u))>>, toks)
<1>1. /\ {Access(n), AuthOf(n), AccessToRefresh(n), RefreshToAccess(n), RefreshKey(n), RefreshAuth(n),
            <<"access_to_refresh_of_refresh", n>>, AuthToAccess(u), Access(u)} \subseteq PlainKeys
      /\ {UnameToAccess(u), ClientIdToAccess} \subseteq ListKeys
  BY KeysTyped
<1>2. /\ \A k \in PlainKeys : Get(k) \in Command /\ Delete(k) \in Command
      /\ \A k \in ListKeys : Remove1(k, n) \in Command
  BY CommandsTyped
<1>3. /\ \A k : Get(k).op = "GET" /\ Delete(k).op = "DEL"
      /\ \A k, v : Remove1(k, v).op = "LREM"
  BY DEF Get, Delete, Remove1
<1>4. Good(RemoveRefreshToken(n), toks)
  <2>1. /\ Delete(RefreshKey(n)) \in Command /\ Delete(RefreshAuth(n)) \in Command
        /\ Delete(RefreshToAccess(n)) \in Command
        /\ Delete(<<"access_to_refresh_of_refresh", n>>) \in Command
    BY <1>1, <1>2
  <2>2. RemoveRefreshToken(n) \in Seq(Command)
    BY <2>1 DEF RemoveRefreshToken
  <2>3. \A i \in DOMAIN RemoveRefreshToken(n) : RemoveRefreshToken(n)[i].op \in {"GET", "DEL", "LREM"}
    BY <1>3 DEF RemoveRefreshToken
  <2>4. QED
    BY <2>2, <2>3, ReadingGood
<1>5. Good(TakeAccessToken(n), toks)
  <2>1. /\ Get(Access(n)) \in Command /\ Get(AuthOf(n)) \in Command /\ Delete(Access(n)) \in Command
        /\ Delete(AccessToRefresh(n)) \in Command /\ Delete(AuthOf(n)) \in Command
    BY <1>1, <1>2
  <2>2. TakeAccessToken(n) \in Seq(Command)
    BY <2>1 DEF TakeAccessToken
  <2>3. \A i \in DOMAIN TakeAccessToken(n) : TakeAccessToken(n)[i].op \in {"GET", "DEL", "LREM"}
    BY <1>3 DEF TakeAccessToken
  <2>4. QED
    BY <2>2, <2>3, ReadingGood
<1>6. Good(UnindexAccessToken(n, u), toks)
  <2>1. /\ Delete(AuthToAccess(u)) \in Command /\ Delete(Access(u)) \in Command
        /\ Remove1(UnameToAccess(u), n) \in Command /\ Remove1(ClientIdToAccess, n) \in Command
    BY <1>1, <1>2
  <2>2. UnindexAccessToken(n, u) \in Seq(Command)
    BY <2>1 DEF UnindexAccessToken, ExtractKey
  <2>3. \A i \in DOMAIN UnindexAccessToken(n, u) :
          UnindexAccessToken(n, u)[i].op \in {"GET", "DEL", "LREM"}
    BY <1>3 DEF UnindexAccessToken
  <2>4. QED
    BY <2>2, <2>3, ReadingGood
<1>7. Good(<<Get(RefreshToAccess(n)), Delete(RefreshToAccess(n))>>, toks)
  <2> DEFINE q == <<Get(RefreshToAccess(n)), Delete(RefreshToAccess(n))>>
  <2>1. Get(RefreshToAccess(n)) \in Command /\ Delete(RefreshToAccess(n)) \in Command
    BY <1>1, <1>2
  <2>2. q \in Seq(Command)
    BY <2>1
  <2>3. \A i \in DOMAIN q : q[i].op \in {"GET", "DEL", "LREM"}
    BY <1>3
  <2>4. QED
    BY <2>2, <2>3, ReadingGood
<1>8. Good(<<Delete(AuthToAccess(u))>>, toks)
  <2> DEFINE q == <<Delete(AuthToAccess(u))>>
  <2>1. q \in Seq(Command)
    BY <1>1, <1>2
  <2>2. \A i \in DOMAIN q : q[i].op \in {"GET", "DEL", "LREM"}
    BY <1>3
  <2>3. QED
    BY <2>1, <2>2, ReadingGood
<1>9. QED
  BY <1>4, <1>5, <1>6, <1>7, <1>8

(* Nothing, or one GET *)
LEMMA GetGood ==
  ASSUME NEW toks
  PROVE  Good(<<>>, toks) /\ \A k \in PlainKeys : Good(<<Get(k)>>, toks)
<1>1. Good(<<>>, toks)
  BY EmptySeq DEF Good, Fitting, Timed, InTime
<1>2. ASSUME NEW k \in PlainKeys PROVE Good(<<Get(k)>>, toks)
  <2> DEFINE q == <<Get(k)>>
  <2>1. q \in Seq(Command)
    BY CommandsTyped
  <2>2. \A i \in DOMAIN q : q[i].op \in {"GET", "DEL", "LREM"}
    BY DEF Get
  <2>3. QED
    BY <2>1, <2>2, ReadingGood
<1>3. QED
  BY <1>1, <1>2

-----------------------------------------------------------------------------
(* The pipelines, by what they do to the keys under which a token is found *)

TokenKeys == {"access", "auth", "auth_to_access"}

(* A pipeline that stores token n of user u, for e seconds *)
Storing(q, n, u, e) ==
  /\ {1, 2, 3, 6, 7, 8} \subseteq DOMAIN q
  /\ q[1] = Write(Access(n), n) /\ q[2] = Write(AuthOf(n), u) /\ q[3] = Write(AuthToAccess(u), n)
  /\ q[6] = Live(Access(n), e) /\ q[7] = Live(AuthOf(n), e) /\ q[8] = Live(AuthToAccess(u), e)
  /\ \A i \in DOMAIN q \ {1, 2, 3, 6, 7, 8} : q[i].key[1] \notin TokenKeys
  /\ \A i \in DOMAIN q : q[i].op \in {"SET", "RPUSH", "EXPIRE"}
  /\ {4, 10} \subseteq DOMAIN q
  /\ q[4] = Append1(UnameToAccess(u), n) /\ q[10] = Live(UnameToAccess(u), e)
  /\ \A i \in DOMAIN q \ {4, 10} : q[i].key[1] # "uname_to_access"

(* A pipeline that reads and takes out token n, after o deletions of other keys *)
TakingAfter(q, n, o) ==
  /\ {o + 1, o + 2, o + 3, o + 5} \subseteq DOMAIN q
  /\ q[o + 1] = Get(Access(n)) /\ q[o + 2] = Get(AuthOf(n))
  /\ q[o + 3] = Delete(Access(n)) /\ q[o + 5] = Delete(AuthOf(n))
  /\ \A i \in DOMAIN q \ {o + 1, o + 2, o + 3, o + 5} :
       q[i].op = "DEL" /\ q[i].key[1] \notin TokenKeys

Taking(q, n) == \E o \in Nat : TakingAfter(q, n, o)

(* A pipeline that writes nothing, and takes out no token *)
Reading(q) ==
  \A i \in DOMAIN q :
    /\ q[i].op \in {"GET", "DEL", "LREM"}
    /\ q[i].op = "DEL" => q[i].key[1] # "auth"
    /\ q[i].op = "DEL" /\ q[i].key[1] = "access" => q[i].key[2] \in Users

(* A pipeline that reads, and removes nothing from a list *)
Peeking(q) == Reading(q) /\ \A i \in DOMAIN q : q[i].op # "LREM"

(* What is removed from a list is the token that has been taken out. *)
Unlists(q, j) == \A i \in DOMAIN q : q[i].op = "LREM" => j.stage = "taken" /\ q[i].arg = j.tok

(* The pipelines of storeAccessToken, and of it and storeRefreshToken *)
LEMMA StoreShapes ==
  ASSUME NEW n \in Words, NEW u \in Users, NEW toks,
         StoreAccessToken(n, u, toks) \in Seq(Command)
  PROVE  /\ Storing(StoreAccessToken(n, u, toks), n, u, ExpiresIn(n, toks))
         /\ Storing(StoreAccessToken(n, u, toks) \o StoreRefreshToken(n, u), n, u, ExpiresIn(n, toks))
         /\ Storing(StoreAccessToken(n, u, toks) \o <<>>, n, u, ExpiresIn(n, toks))
<1> DEFINE e == ExpiresIn(n, toks)
           q == StoreAccessToken(n, u, toks)
           r == StoreRefreshToken(n, u)
<1> HIDE DEF e
<1>1. q = << Write(Access(n), n), Write(AuthOf(n), u), Write(AuthToAccess(u), n),
             Append1(UnameToAccess(u), n), Append1(ClientIdToAccess, n),
             Live(Access(n), e), Live(AuthOf(n), e), Live(AuthToAccess(u), e),
             Live(ClientIdToAccess, e), Live(UnameToAccess(u), e),
             Write(RefreshToAccess(n), n), Write(AccessToRefresh(n), n),
             Live(RefreshToAccess(n), RefreshValidity), Live(AccessToRefresh(n), RefreshValidity) >>
  BY DEF e, StoreAccessToken, ExtractKey
<1>2. Len(q) = 14 /\ DOMAIN q = 1..14
  BY <1>1
<1> HIDE DEF q
<1>3. \A i \in 1..14 : q[i].op \in {"SET", "RPUSH", "EXPIRE"}
  BY <1>1 DEF Write, Append1, Live
<1>4. \A i \in {4, 5, 9, 10, 11, 12, 13, 14} : q[i].key[1] \notin TokenKeys
  BY <1>1 DEF Write, Append1, Live, UnameToAccess, ClientIdToAccess, RefreshToAccess, AccessToRefresh,
              TokenKeys
<1>5. Storing(q, n, u, e)
  <2>1. q[4] = Append1(UnameToAccess(u), n) /\ q[10] = Live(UnameToAccess(u), e)
    BY <1>1
  <2>2. \A i \in {1, 2, 3, 5, 6, 7, 8, 9, 11, 12, 13, 14} : q[i].key[1] # "uname_to_access"
    BY <1>1 DEF Write, Append1, Live, Access, AuthOf, AuthToAccess, ClientIdToAccess, RefreshToAccess,
                AccessToRefresh
  <2>3. QED
    BY <1>1, <1>2, <1>3, <1>4, <2>1, <2>2 DEF Storing
<1>6. Storing(q \o r, n, u, e)
  <2>1. /\ DOMAIN r = 1..4 /\ Len(r) = 4
        /\ \A i \in 1..4 : /\ r[i].op \in {"SET", "EXPIRE"} /\ r[i].key[1] \notin TokenKeys
                            /\ r[i].key[1] # "uname_to_access"
    BY DEF StoreRefreshToken, Write, Live, RefreshKey, RefreshAuth, TokenKeys
  <2>2. r \in Seq(Command)
    <3>1. /\ RefreshKey(n) \in PlainKeys /\ RefreshAuth(n) \in PlainKeys
          /\ u \in Words /\ RefreshValidity \in Int
      <4>1. u \in Words /\ RefreshValidity \in Int
        BY TokenAssumption DEF Words
      <4>2. QED
        BY <4>1, KeysTyped
    <3>2. /\ Write(RefreshKey(n), n) \in Command /\ Write(RefreshAuth(n), u) \in Command
          /\ Live(RefreshKey(n), RefreshValidity) \in Command
          /\ Live(RefreshAuth(n), RefreshValidity) \in Command
      BY <3>1, CommandsTyped
    <3>3. QED
      BY <3>2 DEF StoreRefreshToken
  <2> HIDE DEF r
  <2> DEFINE p == q \o r
  <2>3. /\ Len(p) = 14 + 4 /\ p \in Seq(Command)
        /\ \A i \in 1..(14 + 4) : p[i] = IF i <= 14 THEN q[i] ELSE r[i - 14]
    <3>1. q \in Seq(Command)
      BY DEF q
    <3>2. /\ p \in Seq(Command) /\ Len(p) = Len(q) + Len(r)
          /\ \A i \in 1..(Len(q) + Len(r)) : p[i] = IF i <= Len(q) THEN q[i] ELSE r[i - Len(q)]
      BY <2>2, <3>1, ConcatProperties
    <3> HIDE DEF p
    <3>3. QED
      BY <1>2, <2>1, <3>2
  <2> HIDE DEF p
  <2>4. DOMAIN p = 1..18
    BY <2>3, LenProperties
  <2>5. ASSUME NEW i \in 1..14 PROVE p[i] = q[i]
    BY <2>3
  <2>6. ASSUME NEW i \in 1..18, i \notin 1..14
        PROVE  /\ p[i].op \in {"SET", "EXPIRE"} /\ p[i].key[1] \notin TokenKeys
               /\ p[i].key[1] # "uname_to_access"
    <3>1. i - 14 \in 1..4 /\ p[i] = r[i - 14]
      BY <2>3, <2>6
    <3>2. QED
      BY <2>1, <3>1
  <2>7. Storing(p, n, u, e)
    <3>1. \A i \in DOMAIN p : p[i].op \in {"SET", "RPUSH", "EXPIRE"}
      BY <1>3, <2>4, <2>5, <2>6
    <3>2. ASSUME NEW i \in DOMAIN p \ {1, 2, 3, 6, 7, 8} PROVE p[i].key[1] \notin TokenKeys
      <4>1. CASE i \in 1..14
        <5>1. i \in {4, 5, 9, 10, 11, 12, 13, 14} /\ p[i] = q[i]
          BY <2>5, <3>2, <4>1
        <5>2. QED
          BY <1>4, <5>1
      <4>2. CASE i \notin 1..14
        BY <2>4, <2>6, <4>2
      <4>3. QED
        BY <4>1, <4>2
    <3>3. {1, 2, 3, 6, 7, 8} \subseteq DOMAIN p /\ \A i \in {1, 2, 3, 6, 7, 8} : p[i] = q[i]
      BY <2>4, <2>5
    <3>4. ASSUME NEW i \in DOMAIN p \ {4, 10} PROVE p[i].key[1] # "uname_to_access"
      <4>1. CASE i \in 1..14
        BY <1>2, <1>5, <2>5, <3>4, <4>1 DEF Storing
      <4>2. CASE i \notin 1..14
        BY <2>4, <2>6, <4>2
      <4>3. QED
        BY <4>1, <4>2
    <3>5. {4, 10} \subseteq DOMAIN p /\ p[4] = q[4] /\ p[10] = q[10]
      BY <2>4, <2>5
    <3>6. QED
      BY <1>5, <3>1, <3>2, <3>3, <3>4, <3>5 DEF Storing
  <2>8. QED
    BY <2>7 DEF p
<1>7. q \o <<>> = q
  BY ConcatEmptySeq DEF q
<1>8. QED
  BY <1>5, <1>6, <1>7 DEF q, e

(* The pipeline of removeAccessToken, alone or after that of removeRefreshToken *)
LEMMA TakeShapes ==
  ASSUME NEW n \in Words
  PROVE  /\ Taking(TakeAccessToken(n), n)
         /\ Taking(RemoveRefreshToken(n) \o TakeAccessToken(n), n)
<1>1. TakingAfter(TakeAccessToken(n), n, 0)
  BY DEF TakingAfter, TakeAccessToken, Get, Delete, AccessToRefresh, TokenKeys
<1>2. TakingAfter(RemoveRefreshToken(n) \o TakeAccessToken(n), n, 4)
  <2> DEFINE q == RemoveRefreshToken(n) \o TakeAccessToken(n)
  <2>1. DOMAIN q = 1..9
    BY DEF RemoveRefreshToken, TakeAccessToken
  <2>2. /\ q[5] = Get(Access(n)) /\ q[6] = Get(AuthOf(n))
        /\ q[7] = Delete(Access(n)) /\ q[9] = Delete(AuthOf(n))
    BY DEF RemoveRefreshToken, TakeAccessToken
  <2>3. \A i \in {1, 2, 3, 4, 8} : q[i].op = "DEL" /\ q[i].key[1] \notin TokenKeys
    BY DEF RemoveRefreshToken, TakeAccessToken, Delete, AccessToRefresh, RefreshKey, RefreshAuth,
           RefreshToAccess, TokenKeys
  <2> HIDE DEF q
  <2>4. TakingAfter(q, n, 4)
    BY <2>1, <2>2, <2>3 DEF TakingAfter
  <2>5. QED
    BY <2>4 DEF q
<1>3. QED
  BY <1>1, <1>2 DEF Taking

(* It asks for the two. *)
LEMMA TakingAsks ==
  ASSUME NEW n, NEW q, NEW toks, Taking(q, n)
  PROVE  TwoAnswers(n, q, <<>>, toks)
<1>1. PICK o \in Nat : TakingAfter(q, n, o)
  BY DEF Taking
<1>2. \A i \in DOMAIN q : q[i].op = "GET" => i \in {o + 1, o + 2}
  BY <1>1 DEF TakingAfter, Delete
<1>3. /\ {o + 1, o + 2} \subseteq DOMAIN q /\ o + 1 < o + 2
      /\ q[o + 1].op = "GET" /\ q[o + 1].key = Access(n)
      /\ q[o + 2].op = "GET" /\ q[o + 2].key = AuthOf(n)
  BY <1>1 DEF TakingAfter, Get
<1>4. \A i, j \in DOMAIN q : i < j /\ q[i].op = "GET" /\ q[j].op = "GET" => i = o + 1 /\ j = o + 2
  BY <1>2
<1>5. QED
  BY <1>3, <1>4 DEF TwoAnswers

(* The pipelines that read, and the second one of removeAccessToken *)
LEMMA ReadShapes ==
  /\ Peeking(<<>>)
  /\ \A k : Peeking(<<Get(k)>>)
  /\ \A n : Peeking(<<Get(RefreshToAccess(n)), Delete(RefreshToAccess(n))>>)
  /\ \A u : Peeking(<<Delete(AuthToAccess(u))>>)
  /\ \A n : \A u \in Users : /\ Reading(UnindexAccessToken(n, u))
                            /\ \A i \in DOMAIN UnindexAccessToken(n, u) :
                                 UnindexAccessToken(n, u)[i].op = "LREM" =>
                                   UnindexAccessToken(n, u)[i].arg = n
BY DEF Peeking, Reading, Get, Delete, Remove1, RefreshToAccess, AuthToAccess, UnindexAccessToken, Access,
       ExtractKey

(* Only that one removes anything from a list. *)
LEMMA NothingUnlisted ==
  ASSUME NEW j, NEW n, NEW u, NEW e, NEW q, Peeking(q) \/ Taking(q, n) \/ Storing(q, n, u, e)
  PROVE  Unlists(q, j)
<1>1. CASE Peeking(q)
  BY <1>1 DEF Peeking, Unlists
<1>2. CASE Taking(q, n)
  BY <1>2 DEF Taking, TakingAfter, Get, Delete, Unlists
<1>3. CASE Storing(q, n, u, e)
  BY <1>3 DEF Storing, Unlists
<1>4. QED
  BY <1>1, <1>2, <1>3

-----------------------------------------------------------------------------
(* What a worker does between two pipelines *)

(* What becomes of a job i with answers g, and the pipeline it sends *)
Moves(i, g, j, q) ==
  /\ IF i.stage = "taken" /\ i.op = "refresh"
     THEN /\ replaced' = replaced \cup {i.tok}
          /\ \/ j.stage = "mint" /\ j.user = i.user
             \/ g[1] = Nil /\ g[2] # Nil
     ELSE replaced' = replaced
  /\ i.stage # "mint" => tokens' = tokens
  /\ Unlists(q, i)
  /\ \/ i.stage # "mint" /\ Reading(q) /\ j.stage \notin {"verify", "existing", "taken", "granted"}
     \/ i.stage = "found" /\ Reading(q) /\ j.stage = "verify" /\ g # <<>> /\ j.tok = g[1]
     \/ /\ i.stage = "verify" /\ j.stage = "existing" /\ j.tok = i.tok
        /\ Reading(q) \/ Storing(q, j.tok, j.user, ExpiresIn(j.tok, tokens'))
     \/ /\ i.stage = "existing" /\ j.stage = "granted" /\ j.tok = i.tok
        /\ Storing(q, j.tok, j.user, ExpiresIn(j.tok, tokens'))
     \/ /\ i.stage = "mint" /\ j.stage = "granted" /\ j.tok = Len(tokens) + 1 /\ j.user = i.user
        /\ Storing(q, j.tok, j.user, ExpiresIn(j.tok, tokens'))
     \/ i.stage \in {"existing", "old", "check"} /\ j.stage = "taken" /\ Taking(q, j.tok)

(* It goes on to another stage, perhaps with a new token, and fills its queue; it may *)
(* also have died.                                                                    *)
Sending(w) ==
  /\ UNCHANGED <<db, now, stretched>>
  /\ \/ tokens' = tokens
     \/ \E t \in Token : tokens' = Append(tokens, t) /\ t.exp = now + Validity * Second
  /\ replaced' \subseteq DOMAIN tokens'
  /\ \/ crashes' = crashes /\ queue[w] = <<>>
     \/ crashes' = crashes + 1
  /\ \E j \in Job, q \in Seq(Command) :
       /\ job' = [job EXCEPT ![w] = j]
       /\ queue' = [queue EXCEPT ![w] = q]
       /\ got' = [got EXCEPT ![w] = <<>>]
       /\ Good(q, tokens')
       /\ Knows(j, q, <<>>, tokens')
       /\ IF crashes' = crashes THEN Moves(job[w], got[w], j, q) ELSE j.stage = "idle"

(* A job that goes on with a pipeline that reads *)
LEMMA ReadingMoves ==
  ASSUME NEW i, NEW g, NEW j, NEW q, i.stage \notin {"mint", "taken"},
         tokens' = tokens, replaced' = replaced, Peeking(q),
         j.stage \notin {"verify", "existing", "taken", "granted"}
  PROVE  Moves(i, g, j, q)
BY NothingUnlisted DEF Moves, Peeking

(* A pipeline without conditions on its answers *)
LEMMA SendingTo ==
  ASSUME Inv, NEW w \in Workers, NEW j \in Job, NEW q,
         j.stage \notin {"idle", "found", "whose", "old", "taken"},
         j.stage = "check" => j.op = "check",
         j.stage \in {"verify", "existing", "mint", "granted"} => j.user \in Users,
         j.stage \in {"verify", "existing", "granted"} => Owned(j.tok, j.user, tokens),
         Good(q, tokens), queue[w] = <<>>,
         UNCHANGED <<db, now, tokens, crashes, stretched>>, replaced' \subseteq DOMAIN tokens,
         job' = [job EXCEPT ![w] = j], Send(w, q), Moves(job[w], got[w], j, q)
  PROVE  Sending(w)
<1>1. Knows(j, q, <<>>, tokens) /\ q \in Seq(Command)
  BY DEF Knows, Good, Fitting
<1>2. QED
  BY <1>1 DEF Sending, Send

(* Where a worker is when its pipeline is through *)
LEMMA Through ==
  ASSUME Inv, NEW w \in Workers, NEW s, At(w, s)
  PROVE  /\ queue[w] = <<>> /\ job[w] \in Job /\ job[w].stage = s
         /\ got[w] \in Seq(Words) /\ Knows(job[w], <<>>, got[w], tokens)
BY DEF Inv, Typed, At

(* A job in another stage *)
LEMMA JobStaged ==
  ASSUME NEW j \in Job, NEW s \in Stages
  PROVE  LET i == [j EXCEPT !.stage = s] IN
         i \in Job /\ i.stage = s /\ i.user = j.user /\ i.op = j.op /\ i.tok = j.tok
BY DEF Job

(* The first command of a request *)
LEMMA BeginSends ==
  ASSUME Inv, NEW w \in Workers,
         \/ \E u \in Users : Login(w, u)
         \/ \E n \in DOMAIN tokens : Refresh(w, n) \/ Check(w, n)
  PROVE  Sending(w)
<1>1. queue[w] = <<>> /\ job[w].stage = "idle"
  BY DEF Login, Refresh, Check, Begin, At
<1>2. UNCHANGED <<db, now, tokens, crashes, stretched>> /\ replaced' = replaced /\ replaced' \subseteq DOMAIN tokens
  BY DEF Login, Refresh, Check, Begin, history, Inv, Typed
<1>3. ASSUME NEW u \in Users, Login(w, u) PROVE Sending(w)
  <2> DEFINE j == [stage |-> "found", user |-> u, op |-> "login", tok |-> 0]
             q == <<Get(AuthToAccess(u))>>
  <2>1. j \in Job
    BY DEF Job, Stages, Words
  <2>2. Good(q, tokens)
    BY GetGood, KeysTyped DEF Words
  <2>3. Knows(j, q, <<>>, tokens)
    BY <2>2 DEF Knows, Asked, Good, Fitting
  <2>4. q \in Seq(Command)
    BY <2>2 DEF Good
  <2>5. job' = [job EXCEPT ![w] = j] /\ queue' = [queue EXCEPT ![w] = q] /\ got' = [got EXCEPT ![w] = <<>>]
    BY <1>3 DEF Login, Begin, Send, ExtractKey
  <2>6. Peeking(q) /\ j.stage = "found"
    BY ReadShapes
  <2> HIDE DEF j, q
  <2>7. Moves(job[w], got[w], j, q)
    BY <1>1, <1>2, <2>6, ReadingMoves
  <2>8. QED
    BY <1>1, <1>2, <2>1, <2>2, <2>3, <2>4, <2>5, <2>7 DEF Sending
<1>4. ASSUME NEW n \in DOMAIN tokens, NEW op \in {"refresh", "check"}, NEW k \in PlainKeys,
             Begin(w, op, Nil, n, op, <<Get(k)>>)
      PROVE  Sending(w)
  <2> DEFINE j == [stage |-> op, user |-> Nil, op |-> op, tok |-> n]
  <2>1. n \in Words
    BY LenProperties DEF Inv, Typed, Words
  <2>2. j \in Job
    BY <2>1 DEF Job, Stages
  <2>3. Good(<<Get(k)>>, tokens)
    BY GetGood
  <2>4. job' = [job EXCEPT ![w] = j] /\ Send(w, <<Get(k)>>)
    BY <1>4 DEF Begin
  <2>5. j.stage \in {"refresh", "check"} /\ j.op = j.stage
    OBVIOUS
  <2> HIDE DEF j
  <2>6. Moves(job[w], got[w], j, <<Get(k)>>)
    BY <1>1, <1>2, <2>5, ReadShapes, ReadingMoves
  <2>7. QED
    BY <1>1, <1>2, <2>2, <2>3, <2>4, <2>5, <2>6, SendingTo
<1>5. \A n \in DOMAIN tokens : RefreshKey(n) \in PlainKeys /\ Access(n) \in PlainKeys
  <2>1. \A n \in DOMAIN tokens : n \in Words
    BY LenProperties DEF Inv, Typed, Words
  <2>2. QED
    BY <2>1, KeysTyped
<1>6. QED
  BY <1>3, <1>4, <1>5 DEF Refresh, Check

(* getAccessToken: the token that was found is the user's. *)
LEMMA GetAccessTokenSends ==
  ASSUME Inv, NEW w \in Workers, GetAccessToken(w)
  PROVE  Sending(w)
<1> DEFINE n == got[w][1]
<1>1. /\ queue[w] = <<>> /\ job[w] \in Job /\ job[w].stage = "found"
      /\ got[w] \in Seq(Words) /\ Knows(job[w], <<>>, got[w], tokens)
  BY Through DEF GetAccessToken
<1>2. /\ job[w].user \in Users
      /\ n \in Words /\ got[w] # <<>>
      /\ n = Nil \/ Owned(n, job[w].user, tokens)
  <2>1. Len(got[w]) = 1 /\ got[w] # <<>>
    <3>1. Asked(AuthToAccess(job[w].user), <<>>, got[w])
      BY <1>1 DEF Knows
    <3>2. QED
      BY <3>1 DEF Asked
  <2>2. QED
    BY <1>1, <2>1, ElementOfSeq DEF Knows
<1>3. UNCHANGED <<db, now, tokens, crashes, stretched>> /\ replaced' = replaced /\ replaced' \subseteq DOMAIN tokens
  BY DEF GetAccessToken, history, Inv, Typed
<1> HIDE DEF n
<1>4. CASE n = Nil /\ Stage(w, "mint") /\ Send(w, <<>>)
  <2> DEFINE j == [job[w] EXCEPT !.stage = "mint"]
  <2>1. j \in Job /\ j.stage = "mint" /\ j.user = job[w].user
    BY <1>1, <1>2, JobStaged DEF Stages
  <2>2. job' = [job EXCEPT ![w] = j]
    BY <1>4 DEF Stage
  <2> HIDE DEF j
  <2>3. Moves(job[w], got[w], j, <<>>)
    BY <1>1, <1>3, <2>1, ReadShapes, ReadingMoves
  <2>4. QED
    BY <1>1, <1>2, <1>3, <1>4, <2>1, <2>2, <2>3, GetGood, SendingTo
<1>5. CASE n # Nil /\ job' = [job EXCEPT ![w].tok = n, ![w].stage = "verify"] /\ Send(w, <<Get(AuthOf(n))>>)
  <2> DEFINE j == [job[w] EXCEPT !.tok = n, !.stage = "verify"]
  <2>1. j \in Job /\ j.stage = "verify" /\ j.user = job[w].user /\ j.tok = n
    <3>1. job[w] \in Job /\ n \in Words /\ "verify" \in Stages
      BY <1>1, <1>2 DEF Stages
    <3>2. QED
      BY <3>1 DEF Job
  <2>2. job' = [job EXCEPT ![w] = j]
    BY <1>5
  <2>3. Good(<<Get(AuthOf(n))>>, tokens)
    BY <1>2, GetGood, KeysTyped
  <2>4. Moves(job[w], got[w], j, <<Get(AuthOf(n))>>)
    <3>1. Reading(<<Get(AuthOf(n))>>) /\ Unlists(<<Get(AuthOf(n))>>, job[w])
      BY ReadShapes, NothingUnlisted DEF Peeking
    <3> HIDE DEF j
    <3>2. QED
      BY <1>1, <1>2, <1>3, <2>1, <3>1 DEF Moves, n
  <2> HIDE DEF j
  <2>5. QED
    BY <1>1, <1>2, <1>3, <1>5, <2>1, <2>2, <2>3, <2>4, SendingTo
<1>6. QED
  BY <1>4, <1>5 DEF GetAccessToken, n

(* A found token is stored again under its user. *)
LEMMA VerifySends ==
  ASSUME Inv, NEW w \in Workers, Verify(w)
  PROVE  Sending(w)
<1> DEFINE j == [job[w] EXCEPT !.stage = "existing"]
<1>1. /\ queue[w] = <<>> /\ job[w] \in Job /\ job[w].stage = "verify"
      /\ Knows(job[w], <<>>, got[w], tokens)
  BY Through DEF Verify
<1>2. /\ job[w].user \in Users /\ Owned(job[w].tok, job[w].user, tokens) /\ job[w].tok \in Words
      /\ now \in Nat /\ tokens \in Seq(Token)
  BY <1>1 DEF Knows, Job, Inv, Typed
<1>3. j \in Job /\ j.stage = "existing" /\ j.user = job[w].user /\ j.tok = job[w].tok
  BY <1>1, <1>2, JobStaged DEF Stages
<1>4. job' = [job EXCEPT ![w] = j] /\ UNCHANGED <<db, now, tokens, crashes, stretched>> /\ replaced' = replaced /\ replaced' \subseteq DOMAIN tokens
  BY DEF Verify, Stage, history, Inv, Typed
<1> DEFINE p == StoreAccessToken(job[w].tok, job[w].user, tokens)
<1>5. \E q : Send(w, q) /\ Good(q, tokens) /\ Moves(job[w], got[w], j, q)
  <2>1. Good(p, tokens)
    BY <1>2, StoreAccessGood
  <2>2. Storing(p, j.tok, j.user, ExpiresIn(j.tok, tokens))
    <3>1. p \in Seq(Command)
      BY <2>1 DEF Good
    <3>2. Storing(p, job[w].tok, job[w].user, ExpiresIn(job[w].tok, tokens))
      BY <1>2, <3>1, StoreShapes
    <3> HIDE DEF j
    <3>3. QED
      BY <1>3, <3>2
  <2> HIDE DEF j, p
  <2>3. tokens' = tokens /\ ExpiresIn(j.tok, tokens') = ExpiresIn(j.tok, tokens)
    BY <1>4 DEF ExpiresIn
  <2>4. \A q : q = <<>> \/ q = p => Moves(job[w], got[w], j, q)
    <3>1. Reading(<<>>) /\ Unlists(<<>>, job[w]) /\ Unlists(p, job[w])
      BY <2>2, ReadShapes, NothingUnlisted DEF Peeking
    <3>2. QED
      BY <1>1, <1>3, <1>4, <2>2, <2>3, <3>1 DEF Moves
  <2>5. Send(w, <<>>) \/ Send(w, p)
    BY DEF Verify, p
  <2>6. QED
    BY <2>1, <2>4, <2>5, GetGood
<1> HIDE DEF j
<1>6. QED
  BY <1>1, <1>2, <1>3, <1>4, <1>5, SendingTo

(* An expired token is removed, another one stored again and granted. *)
LEMMA ExistingSends ==
  ASSUME Inv, NEW w \in Workers, Existing(w)
  PROVE  Sending(w)
<1> DEFINE n == job[w].tok
<1>1. /\ queue[w] = <<>> /\ job[w] \in Job /\ job[w].stage = "existing"
      /\ Knows(job[w], <<>>, got[w], tokens)
  BY Through DEF Existing
<1>2. /\ job[w].user \in Users /\ Owned(n, job[w].user, tokens) /\ n \in Words
      /\ now \in Nat /\ tokens \in Seq(Token)
  BY <1>1 DEF Knows, Job, Inv, Typed
<1>3. UNCHANGED <<db, now, tokens, crashes, stretched>> /\ replaced' = replaced /\ replaced' \subseteq DOMAIN tokens
  BY DEF Existing, history, Inv, Typed
<1>4. CASE Stage(w, "granted") /\ Send(w, StoreAccessToken(n, job[w].user, tokens))
  <2> DEFINE j == [job[w] EXCEPT !.stage = "granted"]
  <2>1. j \in Job /\ j.stage = "granted" /\ j.user = job[w].user /\ j.tok = n
    BY <1>1, <1>2, JobStaged DEF Stages
  <2>2. job' = [job EXCEPT ![w] = j]
    BY <1>4 DEF Stage
  <2>3. Good(StoreAccessToken(n, job[w].user, tokens), tokens)
    BY <1>2, StoreAccessGood
  <2> DEFINE p == StoreAccessToken(n, job[w].user, tokens)
  <2>4. Storing(p, n, job[w].user, ExpiresIn(n, tokens))
    <3>1. p \in Seq(Command)
      BY <2>3 DEF Good
    <3> HIDE DEF n
    <3>2. QED
      BY <1>2, <3>1, StoreShapes
  <2>5. Moves(job[w], got[w], j, p)
    <3>1. ExpiresIn(n, tokens') = ExpiresIn(n, tokens)
      BY <1>3 DEF ExpiresIn
    <3>2. j.tok = n
      BY <2>1
    <3> HIDE DEF j, p
    <3>3. Unlists(p, job[w])
      BY <2>4, NothingUnlisted
    <3>4. QED
      BY <1>1, <1>3, <2>1, <2>4, <3>1, <3>3 DEF Moves
  <2> HIDE DEF j, n
  <2>6. QED
    BY <1>1, <1>2, <1>3, <1>4, <2>1, <2>2, <2>3, <2>5, SendingTo
<1>5. CASE Stage(w, "taken") /\ Send(w, RemoveRefreshToken(n) \o TakeAccessToken(n))
  <2> DEFINE j == [job[w] EXCEPT !.stage = "taken"]
             p == RemoveRefreshToken(n)
             q == TakeAccessToken(n)
             r == p \o q
  <2>1. j \in Job /\ j.stage = "taken" /\ j.user = job[w].user /\ j.tok = n
    BY <1>1, <1>2, JobStaged DEF Stages
  <2>2. Good(p, tokens) /\ Good(q, tokens)
    BY <1>2, RemovalsGood
  <2>3. Good(r, tokens)
    BY <2>2, ConcatGood
  <2>4. TwoAnswers(n, r, <<>>, tokens)
    BY <1>2, TakeShapes, TakingAsks
  <2>5. job' = [job EXCEPT ![w] = j] /\ Send(w, r)
    BY <1>5 DEF Stage
  <2>6. Taking(r, n)
    BY <1>2, TakeShapes
  <2> HIDE DEF j, r
  <2>7. Moves(job[w], got[w], j, r)
    BY <1>1, <1>3, <2>1, <2>6, NothingUnlisted DEF Moves
  <2>8. Knows(j, r, <<>>, tokens) /\ r \in Seq(Command)
    BY <1>2, <2>1, <2>3, <2>4 DEF Knows, Good, Fitting
  <2>9. QED
    BY <1>1, <1>3, <2>1, <2>3, <2>5, <2>7, <2>8 DEF Sending, Send
<1>6. QED
  BY <1>4, <1>5 DEF Existing

(* After removeAccessToken has read what it removes *)
LEMMA TakenSends ==
  ASSUME Inv, NEW w \in Workers, Taken(w)
  PROVE  Sending(w)
<1> DEFINE n == job[w].tok
           auth == got[w][2]
<1>1. /\ queue[w] = <<>> /\ job[w] \in Job /\ job[w].stage = "taken"
      /\ got[w] \in Seq(Words) /\ Knows(job[w], <<>>, got[w], tokens)
  BY Through DEF Taken
<1>2. /\ n \in Words /\ auth \in Words
      /\ job[w].op # "check" => job[w].user \in Users /\ n \in DOMAIN tokens
  <2>1. Len(got[w]) > 1
    BY <1>1 DEF Knows, TwoAnswers
  <2>2. Len(got[w]) \in Nat
    BY <1>1, LenProperties
  <2>3. auth \in Words
    BY <1>1, <2>1, <2>2, ElementOfSeq
  <2>4. QED
    BY <1>1, <2>3 DEF Knows, Job, Owned
<1>3. UNCHANGED <<db, now, tokens, crashes, stretched>> /\ replaced' \subseteq DOMAIN tokens
  BY <1>2 DEF Taken, Inv, Typed
<1>4. auth # Nil => auth \in Users
  <2>1. ASSUME Owned(n, auth, tokens) PROVE auth \in Users
    <3>1. tokens \in Seq(Token) /\ n \in 1..Len(tokens) /\ tokens[n].user = auth
      BY <2>1, LenProperties DEF Owned, Inv, Typed
    <3>2. tokens[n] \in Token
      BY <3>1, ElementOfSeq
    <3>3. QED
      BY <3>1, <3>2 DEF Token
  <2>2. auth # Nil => Owned(n, auth, tokens)
    BY <1>1 DEF Knows, TwoAnswers
  <2>3. QED
    BY <2>1, <2>2
<1>5. PICK s \in {"mint", "rejected"}, q \in Seq(Command) :
        /\ Stage(w, s) /\ (s = "mint" => job[w].op # "check")
        /\ s = "rejected" => job[w].op = "check" \/ (got[w][1] = Nil /\ auth # Nil)
        /\ Send(w, q) /\ Good(q, tokens) /\ Reading(q) /\ Unlists(q, job[w])
  <2> DEFINE p == UnindexAccessToken(n, auth)
             d == <<Delete(AuthToAccess(auth))>>
  <2>1. Good(p, tokens) /\ Good(d, tokens)
    BY <1>2, RemovalsGood
  <2>2. /\ auth # Nil => Reading(p) /\ Unlists(p, job[w])
        /\ Reading(d) /\ Unlists(d, job[w])
        /\ Reading(<<>>) /\ Unlists(<<>>, job[w]) /\ Good(<<>>, tokens)
    <3>1. Peeking(d) /\ Peeking(<<>>)
      BY ReadShapes
    <3>2. ASSUME auth # Nil PROVE Reading(p) /\ Unlists(p, job[w])
      <4>1. auth \in Users
        BY <1>4, <3>2
      <4>2. Reading(p) /\ \A i \in DOMAIN p : p[i].op = "LREM" => p[i].arg = n
        BY <4>1, ReadShapes
      <4> HIDE DEF p
      <4>3. QED
        BY <1>1, <4>2 DEF Unlists
    <3> HIDE DEF p, d
    <3>3. QED
      BY <3>1, <3>2, NothingUnlisted, GetGood DEF Peeking
  <2> HIDE DEF n, auth, p, d
  <2>3. \/ Stage(w, AfterRemoval(job[w].op)) /\ Send(w, <<>>)
        \/ auth # Nil /\ Stage(w, AfterRemoval(job[w].op)) /\ Send(w, p)
        \/ auth # Nil /\ got[w][1] = Nil /\ Stage(w, "rejected") /\ (Send(w, <<>>) \/ Send(w, d))
    BY DEF Taken, n, auth, p, d, ExtractKey
  <2>4. AfterRemoval(job[w].op) = IF job[w].op = "check" THEN "rejected" ELSE "mint"
    BY DEF AfterRemoval
  <2>5. {p, d, <<>>} \subseteq Seq(Command)
    BY <2>1, <2>2 DEF Good
  <2>6. CASE Stage(w, AfterRemoval(job[w].op)) /\ Send(w, <<>>)
    BY <2>2, <2>4, <2>5, <2>6
  <2>7. CASE auth # Nil /\ Stage(w, AfterRemoval(job[w].op)) /\ Send(w, p)
    BY <2>1, <2>2, <2>4, <2>5, <2>7
  <2>8. CASE auth # Nil /\ got[w][1] = Nil /\ Stage(w, "rejected") /\ (Send(w, <<>>) \/ Send(w, d))
    BY <2>1, <2>2, <2>5, <2>8
  <2>9. QED
    BY <2>3, <2>6, <2>7, <2>8
<1> DEFINE j == [job[w] EXCEPT !.stage = s]
<1>6. j \in Job /\ j.stage = s /\ j.user = job[w].user /\ (s = "mint" => j.user \in Users)
  <2>1. s \in Stages
    BY DEF Stages
  <2>2. j \in Job /\ j.stage = s /\ j.user = job[w].user
    BY <1>1, <2>1, JobStaged
  <2>3. s = "mint" => job[w].user \in Users
    BY <1>2, <1>5
  <2> HIDE DEF j
  <2>4. QED
    BY <2>2, <2>3
<1>7. job' = [job EXCEPT ![w] = j]
  BY <1>5 DEF Stage
<1> HIDE DEF j
<1>8. Moves(job[w], got[w], j, q)
  <2>1. replaced' = IF job[w].op = "refresh" THEN replaced \cup {n} ELSE replaced
    BY DEF Taken
  <2>2. job[w].op = "refresh" => \/ (j.stage = "mint" /\ j.user = job[w].user)
                                \/ (got[w][1] = Nil /\ auth # Nil)
    BY <1>5, <1>6
  <2>3. QED
    BY <1>1, <1>3, <1>5, <1>6, <2>1, <2>2 DEF Moves
<1>9. QED
  BY <1>1, <1>3, <1>5, <1>6, <1>7, <1>8, SendingTo

(* A new token is its user's. *)
LEMMA MintSends ==
  ASSUME Inv, NEW w \in Workers, Mint(w)
  PROVE  Sending(w)
<1> DEFINE u    == job[w].user
           n    == Len(tokens) + 1
           t    == [user |-> u, exp |-> now + Validity * Second]
           toks == Append(tokens, t)
           j    == [job[w] EXCEPT !.tok = n, !.stage = "granted"]
           p    == StoreAccessToken(n, u, toks)
           r    == IF job[w].op = "login" THEN StoreRefreshToken(n, u) ELSE <<>>
<1>1. /\ queue[w] = <<>> /\ job[w] \in Job /\ job[w].stage = "mint"
      /\ Knows(job[w], <<>>, got[w], tokens)
  BY Through DEF Mint
<1>2. u \in Users /\ now \in Nat /\ tokens \in Seq(Token)
  BY <1>1 DEF Knows, Inv, Typed
<1>3. t \in Token
  <2>1. Validity \in Nat /\ Second \in Nat
    BY TokenAssumption
  <2>2. Validity * Second \in Nat
    BY <2>1
  <2>3. QED
    BY <1>2, <2>2 DEF Token
<1> HIDE DEF t
<1>4. t.user = u /\ t.exp = now + Validity * Second
  BY DEF t
<1>5. toks \in Seq(Token) /\ Owned(n, u, toks) /\ n \in Words
  <2>1. toks \in Seq(Token) /\ Len(toks) = n /\ toks[n] = t /\ Len(tokens) \in Nat
    BY <1>2, <1>3, AppendProperties, LenProperties
  <2>2. DOMAIN toks = 1..n
    BY <2>1, LenProperties
  <2>3. QED
    BY <1>4, <2>1, <2>2 DEF Owned, Words
<1> HIDE DEF n, toks
<1>6. Good(p \o r, toks)
  <2>1. Good(p, toks)
    BY <1>2, <1>5, StoreAccessGood
  <2>2. Good(r, toks)
    BY <1>2, <1>5, StoreRefreshGood, GetGood
  <2>3. QED
    BY <2>1, <2>2, ConcatGood
<1>7. j \in Job /\ j.stage = "granted" /\ j.user = u /\ j.tok = n
  <2>1. "granted" \in Stages
    BY DEF Stages
  <2>2. QED
    BY <1>1, <1>5, <2>1 DEF Job
<1>8. /\ UNCHANGED <<db, now, crashes, stretched>>
      /\ tokens' = toks
      /\ job' = [job EXCEPT ![w] = j]
      /\ Send(w, p \o r)
  BY DEF Mint, history, n, toks, t
<1> HIDE DEF j, p, r
<1>9. Knows(j, p \o r, <<>>, toks) /\ p \o r \in Seq(Command)
  BY <1>2, <1>5, <1>6, <1>7 DEF Knows, Good, Fitting
<1>10. tokens' = Append(tokens, t)
  BY <1>8 DEF toks
<1>11. replaced' \subseteq DOMAIN tokens'
  <2>1. replaced' = replaced /\ replaced \subseteq DOMAIN tokens /\ tokens \in Seq(Token)
    BY DEF Mint, history, Inv, Typed
  <2>2. DOMAIN tokens \subseteq DOMAIN tokens'
    <3>1. Len(tokens') = Len(tokens) + 1 /\ Len(tokens) \in Nat /\ tokens' \in Seq(Token)
      BY <1>3, <1>10, <2>1, AppendProperties, LenProperties
    <3>2. DOMAIN tokens = 1..Len(tokens) /\ DOMAIN tokens' = 1..Len(tokens')
      BY <2>1, <3>1, LenProperties
    <3>3. QED
      BY <3>1, <3>2
  <2>3. QED
    BY <2>1, <2>2
<1>12. Moves(job[w], got[w], j, p \o r)
  <2>1. Storing(p \o r, n, u, ExpiresIn(n, toks))
    <3>1. p \in Seq(Command)
      BY <1>2, <1>5, StoreAccessGood DEF p, Good
    <3>2. QED
      BY <1>2, <1>5, <3>1, StoreShapes DEF p, r
  <2>2. ExpiresIn(n, tokens') = ExpiresIn(n, toks)
    BY <1>8 DEF ExpiresIn
  <2>3. replaced' = replaced /\ n = Len(tokens) + 1
    BY DEF Mint, history, n
  <2>4. QED
    BY <1>1, <1>7, <2>1, <2>2, <2>3, NothingUnlisted DEF Moves
<1>13. QED
  BY <1>1, <1>3, <1>4, <1>6, <1>7, <1>8, <1>9, <1>10, <1>11, <1>12 DEF Sending, Send

(* A request that is rejected *)
LEMMA RejectedSends ==
  ASSUME Inv, NEW w \in Workers, queue[w] = <<>>, Stage(w, "rejected"), Send(w, <<>>),
         UNCHANGED <<db, now, tokens, crashes, stretched>>, replaced' = replaced,
         job[w].stage \notin {"mint", "taken"}
  PROVE  Sending(w)
<1> DEFINE j == [job[w] EXCEPT !.stage = "rejected"]
<1>1. job[w] \in Job /\ replaced' \subseteq DOMAIN tokens
  BY DEF Inv, Typed
<1>2. j \in Job /\ j.stage = "rejected"
  BY <1>1, JobStaged DEF Stages
<1>3. job' = [job EXCEPT ![w] = j]
  BY DEF Stage
<1> HIDE DEF j
<1>4. Moves(job[w], got[w], j, <<>>)
  BY <1>2, ReadShapes, ReadingMoves
<1>5. QED
  BY <1>1, <1>2, <1>3, <1>4, GetGood, SendingTo

(* The refresh token was found, or not. *)
LEMMA ReadRefreshTokenSends ==
  ASSUME Inv, NEW w \in Workers, ReadRefreshToken(w)
  PROVE  Sending(w)
<1> DEFINE j == [job[w] EXCEPT !.stage = "whose"]
           q == <<Get(RefreshAuth(job[w].tok))>>
<1>1. queue[w] = <<>> /\ job[w] \in Job /\ job[w].tok \in Words /\ job[w].stage = "refresh"
  BY Through DEF ReadRefreshToken, Job
<1>2. UNCHANGED <<db, now, tokens, crashes, stretched>> /\ replaced' = replaced /\ replaced' \subseteq DOMAIN tokens
  BY DEF ReadRefreshToken, history, Inv, Typed
<1>3. CASE Stage(w, "rejected") /\ Send(w, <<>>)
  BY <1>1, <1>2, <1>3, RejectedSends
<1>4. CASE Stage(w, "whose") /\ Send(w, q)
  <2>1. j \in Job /\ j.stage = "whose" /\ j.tok = job[w].tok
    BY <1>1, JobStaged DEF Stages
  <2>2. Good(q, tokens)
    BY <1>1, GetGood, KeysTyped
  <2>3. job' = [job EXCEPT ![w] = j]
    BY <1>4 DEF Stage
  <2>4. q = <<Get(RefreshAuth(j.tok))>>
    BY <2>1
  <2>5. Peeking(q)
    BY ReadShapes
  <2> HIDE DEF j, q
  <2>6. Knows(j, q, <<>>, tokens) /\ q \in Seq(Command)
    BY <2>1, <2>2, <2>4 DEF Knows, Asked, Good, Fitting
  <2>7. Moves(job[w], got[w], j, q)
    BY <1>1, <1>2, <2>1, <2>5, ReadingMoves
  <2>8. QED
    BY <1>1, <1>2, <1>4, <2>1, <2>2, <2>3, <2>6, <2>7 DEF Sending, Send
<1>5. QED
  BY <1>3, <1>4 DEF ReadRefreshToken

(* A refresh token without an authentication is rejected. *)
LEMMA ReadRefreshAuthSends ==
  ASSUME Inv, NEW w \in Workers, ReadRefreshAuth(w)
  PROVE  Sending(w)
<1> DEFINE u == got[w][1]
           r == job[w].tok
           j == [job[w] EXCEPT !.user = u, !.stage = "old"]
           q == <<Get(RefreshToAccess(r)), Delete(RefreshToAccess(r))>>
<1>1. /\ queue[w] = <<>> /\ job[w] \in Job /\ r \in Words /\ job[w].stage = "whose"
      /\ got[w] \in Seq(Words) /\ Knows(job[w], <<>>, got[w], tokens)
  BY Through DEF ReadRefreshAuth, Job
<1>2. u # Nil => u \in Users /\ Owned(r, u, tokens)
  <2>1. Asked(RefreshAuth(r), <<>>, got[w])
    BY <1>1 DEF Knows
  <2>2. Len(got[w]) = 1 /\ got[w] # <<>>
    BY <2>1 DEF Asked
  <2>3. u = Nil \/ Owned(r, u, tokens)
    BY <1>1, <2>2 DEF Knows
  <2>4. ASSUME Owned(r, u, tokens) PROVE u \in Users
    <3>1. tokens \in Seq(Token) /\ r \in 1..Len(tokens) /\ tokens[r].user = u
      BY <2>4, LenProperties DEF Owned, Inv, Typed
    <3>2. tokens[r] \in Token
      BY <3>1, ElementOfSeq
    <3>3. QED
      BY <3>1, <3>2 DEF Token
  <2>5. QED
    BY <2>3, <2>4
<1>3. UNCHANGED <<db, now, tokens, crashes, stretched>> /\ replaced' = replaced /\ replaced' \subseteq DOMAIN tokens
  BY DEF ReadRefreshAuth, history, Inv, Typed
<1>4. CASE Stage(w, "rejected") /\ Send(w, <<>>)
  BY <1>1, <1>3, <1>4, RejectedSends
<1>5. CASE u # Nil /\ job' = [job EXCEPT ![w].user = u, ![w].stage = "old"] /\ Send(w, q)
  <2>1. u \in Users /\ Owned(r, u, tokens)
    BY <1>2, <1>5
  <2>2. j \in Job /\ j.stage = "old" /\ j.user = u /\ j.tok = r
    <3>1. "old" \in Stages /\ u \in Users \cup {Nil}
      BY <2>1 DEF Stages
    <3> HIDE DEF u
    <3>2. QED
      BY <1>1, <3>1 DEF Job
  <2>3. Good(q, tokens)
    BY <1>1, RemovalsGood
  <2>4. FirstAnswer(RefreshToAccess(j.tok), q, <<>>)
    BY <2>2 DEF FirstAnswer
  <2>5. job' = [job EXCEPT ![w] = j] /\ Send(w, q)
    BY <1>5
  <2>6. Peeking(q)
    BY ReadShapes
  <2> HIDE DEF j, q, u, r
  <2>7. Knows(j, q, <<>>, tokens) /\ q \in Seq(Command)
    BY <2>1, <2>2, <2>3, <2>4 DEF Knows, Good, Fitting
  <2>8. Moves(job[w], got[w], j, q)
    BY <1>1, <1>3, <2>2, <2>6, ReadingMoves
  <2>9. QED
    BY <1>1, <1>3, <2>2, <2>3, <2>5, <2>7, <2>8 DEF Sending, Send
<1>6. QED
  BY <1>4, <1>5 DEF ReadRefreshAuth

(* The token a refresh replaces, or none *)
LEMMA RemoveUsingRefreshTokenSends ==
  ASSUME Inv, NEW w \in Workers, RemoveUsingRefreshToken(w)
  PROVE  Sending(w)
<1> DEFINE n == got[w][1]
<1>1. /\ queue[w] = <<>> /\ job[w] \in Job /\ job[w].stage = "old" /\ got[w] \in Seq(Words)
      /\ Knows(job[w], <<>>, got[w], tokens)
  BY Through DEF RemoveUsingRefreshToken
<1>2. /\ job[w].user \in Users /\ n \in Words
      /\ n \in {Nil, job[w].tok} /\ Owned(job[w].tok, job[w].user, tokens)
  <2>1. got[w] # <<>>
    BY <1>1 DEF Knows, FirstAnswer
  <2>2. Len(got[w]) \in Nat \ {0}
    BY <1>1, <2>1, EmptySeq
  <2>3. n \in Words
    BY <1>1, <2>2, ElementOfSeq
  <2>4. QED
    BY <1>1, <2>1, <2>3 DEF Knows
<1>3. UNCHANGED <<db, now, tokens, crashes, stretched>> /\ replaced' = replaced /\ replaced' \subseteq DOMAIN tokens
  BY DEF RemoveUsingRefreshToken, history, Inv, Typed
<1> HIDE DEF n
<1>4. CASE Stage(w, "mint") /\ Send(w, <<>>)
  <2> DEFINE j == [job[w] EXCEPT !.stage = "mint"]
  <2>1. j \in Job /\ j.stage = "mint" /\ j.user = job[w].user
    BY <1>1, JobStaged DEF Stages
  <2>2. job' = [job EXCEPT ![w] = j]
    BY <1>4 DEF Stage
  <2> HIDE DEF j
  <2>3. Moves(job[w], got[w], j, <<>>)
    BY <1>1, <1>3, <2>1, ReadShapes, ReadingMoves
  <2>4. QED
    BY <1>1, <1>2, <1>3, <1>4, <2>1, <2>2, <2>3, GetGood, SendingTo
<1>5. CASE /\ n # Nil
           /\ job' = [job EXCEPT ![w].tok = n, ![w].stage = "taken"] /\ Send(w, TakeAccessToken(n))
  <2> DEFINE j == [job[w] EXCEPT !.tok = n, !.stage = "taken"]
             q == TakeAccessToken(n)
  <2>1. j \in Job /\ j.stage = "taken" /\ j.user = job[w].user /\ j.tok = n
    <3>1. "taken" \in Stages
      BY DEF Stages
    <3>2. QED
      BY <1>1, <1>2, <3>1 DEF Job
  <2>2. Good(q, tokens)
    BY <1>2, RemovalsGood
  <2>3. Taking(q, n) /\ TwoAnswers(n, q, <<>>, tokens)
    BY <1>2, TakeShapes, TakingAsks
  <2>4. job' = [job EXCEPT ![w] = j] /\ Send(w, q)
    BY <1>5
  <2> HIDE DEF j, q
  <2>5. Knows(j, q, <<>>, tokens) /\ q \in Seq(Command)
    BY <1>2, <1>5, <2>1, <2>2, <2>3 DEF Knows, Good, Fitting
  <2>6. Moves(job[w], got[w], j, q)
    BY <1>1, <1>3, <2>1, <2>3, NothingUnlisted DEF Moves
  <2>7. QED
    BY <1>1, <1>3, <2>1, <2>2, <2>4, <2>5, <2>6 DEF Sending, Send
<1>6. QED
  BY <1>4, <1>5 DEF RemoveUsingRefreshToken, n

(* An expired token is removed when it is checked. *)
LEMMA LoadAuthenticationSends ==
  ASSUME Inv, NEW w \in Workers, LoadAuthentication(w)
  PROVE  Sending(w)
<1> DEFINE n == job[w].tok
<1>1. /\ queue[w] = <<>> /\ job[w] \in Job /\ n \in Words /\ job[w].stage = "check"
      /\ Knows(job[w], <<>>, got[w], tokens)
  BY Through DEF LoadAuthentication, Job
<1>2. UNCHANGED <<db, now, tokens, crashes, stretched>> /\ replaced' = replaced /\ replaced' \subseteq DOMAIN tokens
  BY DEF LoadAuthentication, history, Inv, Typed
<1>3. CASE Stage(w, "rejected") /\ Send(w, <<>>)
  BY <1>1, <1>2, <1>3, RejectedSends
<1>4. CASE Stage(w, "checked") /\ Send(w, <<Get(AuthOf(n))>>)
  <2> DEFINE j == [job[w] EXCEPT !.stage = "checked"]
  <2>1. j \in Job /\ j.stage = "checked"
    BY <1>1, JobStaged DEF Stages
  <2>2. Good(<<Get(AuthOf(n))>>, tokens)
    BY <1>1, GetGood, KeysTyped
  <2>3. job' = [job EXCEPT ![w] = j]
    BY <1>4 DEF Stage
  <2>4. Moves(job[w], got[w], j, <<Get(AuthOf(n))>>)
    <3> HIDE DEF j
    <3>1. QED
      BY <1>1, <1>2, <2>1, ReadShapes, ReadingMoves
  <2> HIDE DEF j, n
  <2>5. QED
    BY <1>1, <1>2, <1>4, <2>1, <2>2, <2>3, <2>4, SendingTo
<1>5. CASE Stage(w, "taken") /\ Send(w, TakeAccessToken(n))
  <2> DEFINE j == [job[w] EXCEPT !.stage = "taken"]
             q == TakeAccessToken(n)
  <2>1. j \in Job /\ j.stage = "taken" /\ j.op = "check" /\ j.tok = n
    BY <1>1, JobStaged DEF Stages, Knows
  <2>2. Good(q, tokens)
    BY <1>1, RemovalsGood
  <2>3. Taking(q, n) /\ TwoAnswers(n, q, <<>>, tokens)
    BY <1>1, TakeShapes, TakingAsks
  <2>4. job' = [job EXCEPT ![w] = j] /\ Send(w, q)
    BY <1>5 DEF Stage
  <2> HIDE DEF j, q
  <2>5. Knows(j, q, <<>>, tokens) /\ q \in Seq(Command)
    BY <2>1, <2>2, <2>3 DEF Knows, Good, Fitting
  <2>6. Moves(job[w], got[w], j, q)
    BY <1>1, <1>2, <2>1, <2>3, NothingUnlisted DEF Moves
  <2>7. QED
    BY <1>1, <1>2, <2>1, <2>2, <2>4, <2>5, <2>6 DEF Sending, Send
<1>6. QED
  BY <1>3, <1>4, <1>5 DEF LoadAuthentication

(* The end of a request, and a worker that dies *)
LEMMA EndSends ==
  ASSUME Inv, NEW w \in Workers, Finish(w) \/ Crash(w)
  PROVE  Sending(w)
<1>1. /\ UNCHANGED <<db, now, tokens, stretched>> /\ replaced' \subseteq DOMAIN tokens
      /\ (crashes' = crashes /\ queue[w] = <<>>) \/ crashes' = crashes + 1
      /\ job' = [job EXCEPT ![w] = Idle] /\ Send(w, <<>>)
  BY DEF Finish, End, Crash, At, history, Inv, Typed
<1>2. Idle \in Job /\ Idle.stage = "idle"
  BY DEF Idle, Job, Stages, Words
<1> HIDE DEF Idle
<1>3. Knows(Idle, <<>>, <<>>, tokens)
  BY <1>2 DEF Knows, Fitting
<1>4. crashes' = crashes => Moves(job[w], got[w], Idle, <<>>)
  <2>1. Finish(w) => job[w].stage \in {"granted", "checked", "rejected"} /\ replaced' = replaced
    BY DEF Finish, At, End, history
  <2>2. Crash(w) => crashes' # crashes
    BY DEF Crash, Inv, Typed
  <2>3. QED
    BY <1>1, <1>2, <2>1, <2>2, ReadShapes, ReadingMoves
<1>5. QED
  BY <1>1, <1>2, <1>3, <1>4, GetGood, EmptySeq DEF Sending, Send

(* A step is a command that is obeyed, a tick, or one of these. *)
LEMMA Steps ==
  ASSUME Inv, Next
  PROVE  \/ \E w \in Workers : Exec(w)
         \/ Tick
         \/ \E w \in Workers : Sending(w)
BY BeginSends, GetAccessTokenSends, VerifySends, ExistingSends, TakenSends, MintSends,
   ReadRefreshTokenSends, ReadRefreshAuthSends, RemoveUsingRefreshTokenSends,
   LoadAuthenticationSends, EndSends
   DEF Next, Request, Step

-----------------------------------------------------------------------------
(* The first invariant *)

(* A new token takes nothing from what is known of the old ones. *)
LEMMA MoreTokens ==
  ASSUME NEW toks \in Seq(Token), NEW new \in Seq(Token),
         new = toks \/ \E t \in Token : new = Append(toks, t)
  PROVE  /\ \A n \in DOMAIN toks : n \in DOMAIN new /\ new[n] = toks[n]
         /\ \A n, u : Owned(n, u, toks) => Owned(n, u, new)
         /\ \A key, val : Fits(key, val, toks) => Fits(key, val, new)
         /\ \A val : Listed(val, toks) => Listed(val, new)
<1>1. \A n \in DOMAIN toks : n \in DOMAIN new /\ new[n] = toks[n]
  <2>1. ASSUME NEW t \in Token, new = Append(toks, t)
        PROVE  \A n \in DOMAIN toks : n \in DOMAIN new /\ new[n] = toks[n]
    <3>1. /\ Len(new) = Len(toks) + 1 /\ Len(toks) \in Nat
          /\ \A i \in 1..Len(toks) : new[i] = toks[i]
      BY <2>1, AppendProperties, LenProperties
    <3>2. DOMAIN toks = 1..Len(toks) /\ DOMAIN new = 1..Len(new)
      BY LenProperties
    <3>3. QED
      BY <3>1, <3>2
  <2>2. QED
    BY <2>1
<1>2. \A n, u : Owned(n, u, toks) => Owned(n, u, new)
  BY <1>1 DEF Owned
<1>3. \A val : Listed(val, toks) => Listed(val, new)
  BY <1>1 DEF Listed
<1>4. QED
  BY <1>1, <1>2, <1>3 DEF Fits

(* Nor from what a worker knows. *)
LEMMA KnowsMore ==
  ASSUME NEW toks \in Seq(Token), NEW new \in Seq(Token),
         new = toks \/ \E t \in Token : new = Append(toks, t),
         NEW j, NEW q, NEW g, Knows(j, q, g, toks)
  PROVE  Knows(j, q, g, new)
BY MoreTokens DEF Knows, Fitting, TwoAnswers

(* A worker that goes on keeps what all workers know: tokens are only added. *)
LEMMA SendingKeeps ==
  ASSUME Inv, NEW w \in Workers, Sending(w)
  PROVE  Inv'
<1>1. tokens \in Seq(Token) /\ tokens' \in Seq(Token)
  <2>1. tokens \in Seq(Token)
    BY DEF Inv, Typed
  <2>2. \A t \in Token : Append(tokens, t) \in Seq(Token)
    BY <2>1, AppendProperties
  <2>3. QED
    BY <2>1, <2>2 DEF Sending
<1>2. tokens' = tokens \/ \E t \in Token : tokens' = Append(tokens, t)
  BY DEF Sending
<1>3. Typed'
  BY <1>1 DEF Inv, Typed, Sending
<1>4. Stored(db, tokens')
  <2>1. /\ \A key, val : Fits(key, val, tokens) => Fits(key, val, tokens')
        /\ \A val : Listed(val, tokens) => Listed(val, tokens')
    BY <1>1, <1>2, MoreTokens
  <2>2. QED
    BY <2>1 DEF Inv, Stored
<1>5. ASSUME NEW v \in Workers PROVE Knows(job[v], queue[v], got[v], tokens)'
  <2>1. CASE v = w
    <3>1. PICK j \in Job, q \in Seq(Command) :
            /\ job' = [job EXCEPT ![w] = j] /\ queue' = [queue EXCEPT ![w] = q]
            /\ got' = [got EXCEPT ![w] = <<>>] /\ Knows(j, q, <<>>, tokens')
      BY DEF Sending
    <3>2. job'[v] = j /\ queue'[v] = q /\ got'[v] = <<>>
      BY <2>1, <3>1 DEF Inv, Typed
    <3>3. QED
      BY <3>1, <3>2
  <2>2. CASE v # w
    <3>1. job'[v] = job[v] /\ queue'[v] = queue[v] /\ got'[v] = got[v]
      BY <2>2 DEF Sending, Inv, Typed
    <3>2. Knows(job[v], queue[v], got[v], tokens')
      BY <1>1, <1>2, KnowsMore DEF Inv
    <3>3. QED
      BY <3>1, <3>2
  <2>3. QED
    BY <2>1, <2>2
<1>6. db' = db
  BY DEF Sending
<1>7. Stored(db, tokens)'
  BY <1>4, <1>6
<1>8. QED
  BY <1>3, <1>5, <1>7 DEF Inv

(* Another list under the same key *)
Relisted(e, d, k, toks) ==
  k \in DOMAIN d /\ \E list : Listed(list, toks) /\ e = [d EXCEPT ![k].val = list]

(* What LREM does to a list of tokens *)
LEMMA RemoveOneKinds ==
  ASSUME NEW d, NEW k, NEW val, NEW toks, k \in DOMAIN d => Listed(d[k].val, toks)
  PROVE  \/ RemoveOne(d, k, val) = d
         \/ RemoveOne(d, k, val) = Without(d, k)
         \/ Relisted(RemoveOne(d, k, val), d, k, toks)
<1> DEFINE S    == DOMAIN toks
           list == Value(d, k)
           at   == {i \in DOMAIN list : list[i] = val}
           i    == CHOOSE j \in at : \A m \in at : j <= m
           rest == SubSeq(list, 1, i - 1) \o SubSeq(list, i + 1, Len(list))
<1>1. RemoveOne(d, k, val) = IF k \notin DOMAIN d THEN d
                             ELSE IF at = {} THEN d
                             ELSE IF rest = <<>> THEN Without(d, k)
                             ELSE [d EXCEPT ![k].val = rest]
  BY DEF RemoveOne
<1>2. ASSUME k \in DOMAIN d, at # {} PROVE rest \in Seq(S)
  <2>1. list \in Seq(S) /\ Len(list) \in Nat /\ DOMAIN list = 1..Len(list)
    BY <1>2, LenProperties DEF Value, Listed
  <2> HIDE DEF list
  <2>2. at \in SUBSET Nat
    BY <2>1
  <2>3. \E j \in at : \A m \in at : j <= m
    <3> HIDE DEF at
    <3>1. QED
      BY <1>2, <2>2, Numbers!LeastNumber
  <2>4. i \in at
    <3> HIDE DEF at
    <3>1. QED
      BY <2>3
  <2>5. i \in 1..Len(list)
    BY <2>1, <2>4
  <2> HIDE DEF i
  <2>6. SubSeq(list, 1, i - 1) \in Seq(S) /\ SubSeq(list, i + 1, Len(list)) \in Seq(S)
    <3>1. i - 1 \in Int /\ i + 1 \in Int /\ Len(list) \in Int
      BY <2>1, <2>5
    <3>2. \A j \in DOMAIN list : list[j] \in S
      BY <2>1, ElementOfSeq
    <3>3. /\ \A j \in 1..(i - 1) : list[j] \in S
          /\ \A j \in (i + 1)..Len(list) : list[j] \in S
      BY <2>1, <2>5, <3>2
    <3> HIDE DEF S
    <3>4. QED
      BY <3>1, <3>3, SubSeqProperties
  <2>7. QED
    BY <2>6, ConcatProperties
<1> HIDE DEF rest, at
<1>3. QED
  BY <1>1, <1>2 DEF Relisted, Listed

(* What a command does to the keys and values *)
LEMMA ApplyStored ==
  ASSUME NEW d, NEW toks, Stored(d, toks), NEW c \in Command, now \in Nat,
         c.op = "SET" => Fits(c.key, c.arg, toks),
         c.op = "RPUSH" => c.arg \in DOMAIN toks
  PROVE  Stored(Apply(d, c, now), toks)
<1> DEFINE k == c.key
           Right(e) == /\ Entry(e)
                       /\ k \in PlainKeys \cup ListKeys
                       /\ (k \in PlainKeys => e.val \in Words)
                       /\ (k \in ListKeys => Listed(e.val, toks))
                       /\ Fits(k, e.val, toks)
<1>1. /\ c.op \in Commands
      /\ c.op \in {"GET", "SET", "DEL"} => k \in PlainKeys /\ c.arg \in Words
      /\ c.op \in {"RPUSH", "LREM"} => k \in ListKeys
      /\ c.op = "EXPIRE" => c.arg \in Int
  BY CommandParts
<1>2. /\ k \in ListKeys => k \notin PlainKeys /\ \A val : Fits(k, val, toks)
      /\ k \in PlainKeys => k \notin ListKeys
  BY KeyKinds DEF Fits, PlainKinds, TokenKinds
<1>3. Stored(Without(d, k), toks)
  BY DEF Stored, Without
<1>4. ASSUME NEW e, Right(e)
      PROVE  Stored(Put(d, k, e), toks) /\ (k \in DOMAIN d => Stored([d EXCEPT ![k] = e], toks))
  BY <1>4 DEF Stored, Put
<1>5. CASE c.op = "GET"
  BY <1>5 DEF Apply
<1>6. CASE c.op = "SET"
  <2>1. Right([val |-> c.arg, dl |-> Forever])
    BY <1>1, <1>2, <1>6 DEF Entry
  <2>2. Stored(Set(d, k, c.arg), toks)
    BY <1>4, <2>1 DEF Set
  <2>3. QED
    BY <1>6, <2>2 DEF Apply
<1>7. CASE c.op = "DEL"
  BY <1>3, <1>7 DEF Apply
<1>8. ASSUME k \in ListKeys, k \in DOMAIN d, NEW list, Listed(list, toks)
      PROVE  Stored([d EXCEPT ![k].val = list], toks)
  <2> DEFINE e == [d[k] EXCEPT !.val = list]
  <2>1. Entry(e) /\ e.val = list
    BY <1>8 DEF Stored, Entry
  <2>2. [d EXCEPT ![k].val = list] = [d EXCEPT ![k] = e]
    OBVIOUS
  <2>3. Right(e)
    BY <1>2, <1>8, <2>1
  <2> HIDE DEF e
  <2>4. QED
    BY <1>4, <1>8, <2>2, <2>3
<1>9. CASE c.op = "RPUSH"
  <2> DEFINE S == DOMAIN toks
  <2>1. CASE k \in DOMAIN d
    <3>1. Push(d, k, c.arg) = [d EXCEPT ![k].val = Append(d[k].val, c.arg)]
      BY <2>1 DEF Push
    <3>2. d[k].val \in Seq(S) /\ c.arg \in S
      BY <1>1, <1>9, <2>1 DEF Stored, Listed
    <3> HIDE DEF S
    <3>3. Append(d[k].val, c.arg) \in Seq(S) /\ Append(d[k].val, c.arg) # <<>>
      BY <3>2, AppendProperties, LenProperties
    <3>4. Listed(Append(d[k].val, c.arg), toks)
      BY <3>3 DEF Listed, S
    <3>5. Stored(Push(d, k, c.arg), toks)
      <4> DEFINE list == Append(d[k].val, c.arg)
      <4>1. k \in ListKeys /\ Listed(list, toks) /\ Push(d, k, c.arg) = [d EXCEPT ![k].val = list]
        BY <1>1, <1>9, <3>1, <3>4
      <4> HIDE DEF list, k
      <4>2. QED
        BY <1>8, <2>1, <4>1
    <3>6. QED
      BY <1>9, <3>5 DEF Apply
  <2>2. CASE k \notin DOMAIN d
    <3>1. Push(d, k, c.arg) = Put(d, k, [val |-> <<c.arg>>, dl |-> Forever])
      BY <2>2 DEF Push
    <3>2. Listed(<<c.arg>>, toks)
      BY <1>9 DEF Listed
    <3>3. Right([val |-> <<c.arg>>, dl |-> Forever])
      BY <1>1, <1>2, <1>9, <3>2 DEF Entry
    <3>4. QED
      BY <1>4, <1>9, <3>1, <3>3 DEF Apply
  <2>3. QED
    BY <2>1, <2>2
<1>10. CASE c.op = "LREM"
  <2>1. \/ RemoveOne(d, k, c.arg) = d
        \/ RemoveOne(d, k, c.arg) = Without(d, k)
        \/ Relisted(RemoveOne(d, k, c.arg), d, k, toks)
    <3>1. k \in DOMAIN d => Listed(d[k].val, toks)
      BY <1>1, <1>10 DEF Stored
    <3> HIDE DEF k
    <3>2. QED
      BY <3>1, RemoveOneKinds
  <2>2. Stored(RemoveOne(d, k, c.arg), toks)
    <3>1. k \in ListKeys
      BY <1>1, <1>10
    <3> HIDE DEF k
    <3>2. ASSUME NEW list, k \in DOMAIN d, Listed(list, toks),
                 RemoveOne(d, k, c.arg) = [d EXCEPT ![k].val = list]
          PROVE  Stored(RemoveOne(d, k, c.arg), toks)
      BY <1>8, <3>1, <3>2
    <3>3. QED
      BY <1>3, <2>1, <3>2 DEF Relisted
  <2>3. QED
    BY <1>10, <2>2 DEF Apply
<1>11. CASE c.op = "EXPIRE"
  <2> DEFINE dl == now + c.arg * Second
             e  == [d[k] EXCEPT !.dl = dl]
  <2>1. dl \in Int
    <3>1. Second \in Int /\ c.arg \in Int
      BY <1>1, <1>11, TokenAssumption
    <3>2. QED
      BY <3>1
  <2>2. ASSUME k \in DOMAIN d PROVE Stored([d EXCEPT ![k] = e], toks)
    <3>1. d[k] = [val |-> d[k].val, dl |-> d[k].dl]
      BY <2>2 DEF Stored, Entry
    <3> HIDE DEF dl
    <3>2. Entry(e) /\ e.val = d[k].val
      BY <2>1, <3>1 DEF Entry
    <3>3. Right(e)
      BY <2>2, <3>2 DEF Stored
    <3> HIDE DEF e, Right
    <3>4. QED
      BY <1>4, <2>2, <3>3
  <2>3. \/ Expire(d, k, c.arg, now) = d
        \/ Expire(d, k, c.arg, now) = Without(d, k)
        \/ k \in DOMAIN d /\ Expire(d, k, c.arg, now) = [d EXCEPT ![k] = e]
    BY DEF Expire
  <2>4. Apply(d, c, now) = Expire(d, k, c.arg, now)
    BY <1>11 DEF Apply
  <2> HIDE DEF e
  <2>5. QED
    BY <1>3, <2>2, <2>3, <2>4
<1>12. QED
  BY <1>1, <1>5, <1>6, <1>7, <1>9, <1>10, <1>11 DEF Commands

(* An answer comes when it is asked for, and is what the key held. *)
LEMMA ExecKeepsKnowledge ==
  ASSUME Inv, NEW w \in Workers, Exec(w)
  PROVE  Knows(job[w], Tail(queue[w]), got'[w], tokens)
<1> DEFINE q == queue[w]
           r == Tail(q)
           g == got[w]
           c == Head(q)
           h == got'[w]
           value == Value(db, c.key)
<1>1. /\ q \in Seq(Command) /\ q # <<>> /\ g \in Seq(Words) /\ Len(g) \in Nat
      /\ Knows(job[w], q, g, tokens)
  BY LenProperties DEF Exec, Inv, Typed
<1>2. h = IF c.op = "GET" THEN Append(g, value) ELSE g
  BY DEF Exec, Inv, Typed
<1>3. /\ c = q[1] /\ c \in Command /\ r \in Seq(Command) /\ 1 \in DOMAIN q
      /\ \A i \in DOMAIN r : i + 1 \in DOMAIN q /\ r[i] = q[i + 1]
      /\ \A i \in DOMAIN q : i > 1 => i - 1 \in DOMAIN r /\ r[i - 1] = q[i]
      /\ \A i \in DOMAIN q : i \in Int /\ i >= 1
  BY <1>1, TailGood
<1>4. c.op = "GET" => value \in Words
  BY <1>3, CommandParts DEF Value, Inv, Stored, Words
<1>5. c.op = "GET" => /\ Len(h) = Len(g) + 1 /\ h # <<>>
                      /\ Len(g) = 0 => h[1] = value
  BY <1>1, <1>2, <1>4, AppendProperties
<1>6. ASSUME NEW k \in PlainKeys, Asked(k, q, g)
      PROVE  r = <<>> /\ Len(h) = 1 /\ h[1] = Value(db, k)
  <2>1. q = <<Get(k)>> /\ g = <<>>
    BY <1>1, <1>6 DEF Asked
  <2>2. c = Get(k) /\ r = <<>> /\ Len(g) = 0
    BY <2>1
  <2>3. QED
    BY <1>5, <2>2 DEF Get
<1> HIDE DEF q, r, g, c, h, value
<1>7. Fitting(r, tokens)
  BY <1>1, <1>3 DEF Knows, Fitting
<1>8. ASSUME job[w].stage = "found"
      PROVE  /\ Asked(AuthToAccess(job[w].user), r, h)
             /\ h # <<>> => h[1] = Nil \/ Owned(h[1], job[w].user, tokens)
  <2> DEFINE k == AuthToAccess(job[w].user)
  <2>1. k \in PlainKeys
    BY KeysTyped DEF Inv, Typed, Job, Words
  <2>2. r = <<>> /\ Len(h) = 1 /\ h[1] = Value(db, k)
    BY <1>1, <1>6, <1>8, <2>1 DEF Knows
  <2>3. k \in DOMAIN db => Owned(db[k].val, job[w].user, tokens)
    BY DEF Inv, Stored, Fits, AuthToAccess
  <2>4. QED
    BY <2>2, <2>3 DEF Asked, Value
<1>9. ASSUME job[w].stage = "whose"
      PROVE  /\ Asked(RefreshAuth(job[w].tok), r, h)
             /\ h # <<>> => h[1] = Nil \/ Owned(job[w].tok, h[1], tokens)
  <2> DEFINE k == RefreshAuth(job[w].tok)
  <2>1. k \in PlainKeys
    BY KeysTyped DEF Inv, Typed, Job
  <2>2. r = <<>> /\ Len(h) = 1 /\ h[1] = Value(db, k)
    BY <1>1, <1>6, <1>9, <2>1 DEF Knows
  <2>3. k \in DOMAIN db => Owned(job[w].tok, db[k].val, tokens)
    BY DEF Inv, Stored, Fits, RefreshAuth
  <2>4. QED
    BY <2>2, <2>3 DEF Asked, Value
<1>10. ASSUME job[w].stage = "old"
       PROVE  h # <<>> /\ h[1] \in {Nil, job[w].tok}
  <2> DEFINE k == RefreshToAccess(job[w].tok)
  <2>1. FirstAnswer(k, q, g) /\ (g # <<>> => g[1] \in {Nil, job[w].tok})
    BY <1>1, <1>10 DEF Knows
  <2>2. CASE g # <<>>
    <3>1. Len(g) >= 1
      BY <1>1, <2>2, EmptySeq
    <3>2. h # <<>> /\ h[1] = g[1]
      <4>1. c.op # "GET" => h = g
        BY <1>2
      <4>2. c.op = "GET" => h # <<>> /\ h[1] = g[1]
        BY <1>1, <1>2, <1>4, <1>5, <3>1, AppendProperties
      <4>3. QED
        BY <2>2, <4>1, <4>2
    <3>3. QED
      BY <2>1, <2>2, <3>2
  <2>3. CASE g = <<>>
    <3>1. c.op = "GET" /\ c.key = k
      BY <1>3, <2>1, <2>3 DEF FirstAnswer, Get
    <3>2. h # <<>> /\ h[1] = Value(db, k)
      BY <1>1, <1>5, <2>3, <3>1 DEF value
    <3>3. k \in DOMAIN db => db[k].val = job[w].tok
      BY DEF Inv, Stored, Fits, RefreshToAccess, TokenKinds
    <3>4. QED
      BY <3>2, <3>3 DEF Value
  <2>4. QED
    BY <2>2, <2>3
<1>11. ASSUME job[w].stage = "taken" PROVE TwoAnswers(job[w].tok, r, h, tokens)
  <2> DEFINE n == job[w].tok
  <2>1. TwoAnswers(n, q, g, tokens)
    BY <1>1, <1>11 DEF Knows
  <2>2. CASE Len(g) > 1
    <3>1. Len(h) > 1 /\ h[2] = g[2]
      <4>1. c.op # "GET" => h = g
        BY <1>2
      <4>2. ASSUME c.op = "GET" PROVE Len(h) > 1 /\ h[2] = g[2]
        <5>1. h = Append(g, value) /\ value \in Words /\ Len(h) = Len(g) + 1
          BY <1>2, <1>4, <1>5, <4>2
        <5>2. 2 \in 1..Len(g)
          BY <1>1, <2>2
        <5>3. \A i \in 1..Len(g) : Append(g, value)[i] = g[i]
          BY <1>1, <5>1, AppendProperties
        <5>4. QED
          BY <1>1, <2>2, <5>1, <5>2, <5>3
      <4>3. QED
        BY <2>2, <4>1, <4>2
    <3>2. g[2] # Nil => Owned(n, g[2], tokens)
      BY <2>1, <2>2 DEF TwoAnswers
    <3>3. QED
      BY <3>1, <3>2 DEF TwoAnswers
  <2>3. CASE Len(g) = 1
    <3>1. /\ \E i \in DOMAIN q : q[i].op = "GET"
          /\ \A i \in DOMAIN q : q[i].op = "GET" => q[i].key = AuthOf(n)
      BY <2>1, <2>3 DEF TwoAnswers
    <3>2. CASE c.op = "GET"
      <4>1. c.key = AuthOf(n)
        BY <1>3, <3>1, <3>2
      <4>2. Len(h) = 2 /\ h[2] = value
        <5>1. h = Append(g, value) /\ value \in Words
          BY <1>2, <1>4, <3>2
        <5>2. Len(h) = Len(g) + 1 /\ h[Len(g) + 1] = value
          BY <1>1, <5>1, AppendProperties
        <5>3. Len(g) + 1 = 2
          BY <2>3
        <5>4. QED
          BY <5>2, <5>3
      <4>3. AuthOf(n) \in DOMAIN db => Owned(n, db[AuthOf(n)].val, tokens)
        BY DEF Inv, Stored, Fits, AuthOf
      <4>4. value # Nil => Owned(n, value, tokens)
        BY <4>1, <4>3 DEF value, Value
      <4>5. QED
        BY <4>2, <4>4 DEF TwoAnswers
    <3>3. CASE c.op # "GET"
      <4>1. h = g /\ \A i \in DOMAIN q : q[i].op = "GET" => i > 1
        BY <1>2, <1>3, <3>3
      <4>2. (\E i \in DOMAIN r : r[i].op = "GET")
        BY <1>3, <3>1, <4>1
      <4>3. \A i \in DOMAIN r : r[i].op = "GET" => r[i].key = AuthOf(n)
        BY <1>3, <3>1
      <4>4. QED
        BY <2>3, <4>1, <4>2, <4>3 DEF TwoAnswers
    <3>4. QED
      BY <3>2, <3>3
  <2>4. CASE Len(g) = 0
    <3>1. \A i, j \in DOMAIN q : i < j /\ q[i].op = "GET" /\ q[j].op = "GET" =>
            q[i].key = Access(n) /\ q[j].key = AuthOf(n)
      BY <2>1, <2>4 DEF TwoAnswers
    <3>2. PICK i \in DOMAIN q, j \in DOMAIN q : i < j /\ q[i].op = "GET" /\ q[j].op = "GET"
      BY <2>1, <2>4 DEF TwoAnswers
    <3>3. j - 1 \in DOMAIN r /\ r[j - 1].op = "GET"
      BY <1>3, <3>2
    <3>4. CASE c.op = "GET"
      <4>1. Len(h) = 1
        BY <1>5, <2>4, <3>4
      <4>2. ASSUME NEW m \in DOMAIN r, r[m].op = "GET" PROVE r[m].key = AuthOf(n)
        <5>1. m + 1 \in DOMAIN q /\ q[m + 1] = r[m] /\ 1 < m + 1 /\ 1 \in DOMAIN q
          <6>1. m \in Nat \ {0}
            <7>1. DOMAIN r = 1..Len(r) /\ Len(r) \in Nat
              BY <1>3, LenProperties
            <7>2. QED
              BY <7>1
          <6>2. QED
            BY <1>3, <3>2, <6>1
        <5>2. QED
          BY <1>3, <3>1, <3>4, <4>2, <5>1
      <4>3. QED
        BY <3>3, <4>1, <4>2 DEF TwoAnswers
    <3>5. CASE c.op # "GET"
      <4>1. h = g /\ \A m \in DOMAIN q : q[m].op = "GET" => m > 1
        BY <1>2, <1>3, <3>5
      <4>2. i - 1 \in DOMAIN r /\ r[i - 1].op = "GET" /\ i - 1 < j - 1
        BY <1>3, <3>2, <4>1
      <4>3. ASSUME NEW k \in DOMAIN r, NEW m \in DOMAIN r, k < m, r[k].op = "GET", r[m].op = "GET"
            PROVE  r[k].key = Access(n) /\ r[m].key = AuthOf(n)
        <5>1. k \in Nat /\ m \in Nat
          <6>1. DOMAIN r = 1..Len(r) /\ Len(r) \in Nat
            BY <1>3, LenProperties
          <6>2. QED
            BY <6>1
        <5>2. /\ k + 1 \in DOMAIN q /\ q[k + 1] = r[k] /\ m + 1 \in DOMAIN q /\ q[m + 1] = r[m]
              /\ k + 1 < m + 1
          BY <1>3, <4>3, <5>1
        <5>3. QED
          BY <3>1, <4>3, <5>2
      <4>4. QED
        BY <2>4, <3>3, <4>1, <4>2, <4>3 DEF TwoAnswers
    <3>6. QED
      BY <3>4, <3>5
  <2>5. Len(g) > 1 \/ Len(g) = 1 \/ Len(g) = 0
    <3>1. \A m \in Nat : m > 1 \/ m = 1 \/ m = 0
      OBVIOUS
    <3>2. QED
      BY <1>1, <3>1, Zenon
  <2>6. QED
    BY <2>2, <2>3, <2>4, <2>5
<1>12. Knows(job[w], r, h, tokens)
  BY <1>1, <1>7, <1>8, <1>9, <1>10, <1>11 DEF Knows, FirstAnswer
<1>13. QED
  BY <1>12 DEF q, r, h

(* A command that reaches the server *)
LEMMA ExecKeeps ==
  ASSUME Inv, NEW w \in Workers, Exec(w)
  PROVE  Inv'
<1> DEFINE q == queue[w]
           c == Head(q)
<1>1. /\ q \in Seq(Command) /\ q # <<>> /\ got[w] \in Seq(Words)
      /\ Knows(job[w], q, got[w], tokens)
  BY DEF Exec, Inv, Typed
<1>2. /\ c = q[1] /\ 1 \in DOMAIN q /\ c \in Command /\ Tail(q) \in Seq(Command)
  BY <1>1, TailGood
<1>3. /\ db' = Apply(db, c, now)
      /\ queue' = [queue EXCEPT ![w] = Tail(q)]
      /\ got' = IF c.op = "GET" THEN [got EXCEPT ![w] = Append(got[w], Value(db, c.key))] ELSE got
      /\ UNCHANGED <<now, tokens, job, crashes, replaced>>
  BY DEF Exec, history
<1>4. Typed'
  <2>1. c.op = "GET" => Value(db, c.key) \in Words
    BY <1>2, CommandParts DEF Value, Inv, Stored, Words
  <2>2. c.op = "GET" => Append(got[w], Value(db, c.key)) \in Seq(Words)
    BY <1>1, <2>1, AppendProperties
  <2> HIDE DEF c, q
  <2>3. queue' \in [Workers -> Seq(Command)] /\ got' \in [Workers -> Seq(Words)]
    BY <1>2, <1>3, <2>2 DEF Inv, Typed
  <2>4. QED
    BY <1>3, <2>3 DEF Inv, Typed
<1>5. Stored(db', tokens)
  <2>1. /\ c.op = "SET" => Fits(c.key, c.arg, tokens)
        /\ c.op = "RPUSH" => c.arg \in DOMAIN tokens
    BY <1>1, <1>2 DEF Knows, Fitting
  <2>2. now \in Nat /\ Stored(db, tokens)
    BY DEF Inv, Typed
  <2> HIDE DEF c
  <2>3. QED
    BY <1>2, <1>3, <2>1, <2>2, ApplyStored
<1>6. ASSUME NEW v \in Workers PROVE Knows(job[v], queue'[v], got'[v], tokens)
  <2>1. CASE v = w
    <3>1. queue'[w] = Tail(q)
      BY <1>3 DEF Inv, Typed
    <3>2. QED
      BY <2>1, <3>1, ExecKeepsKnowledge
  <2>2. CASE v # w
    <3>1. queue'[v] = queue[v] /\ got'[v] = got[v]
      BY <1>3, <2>2 DEF Inv, Typed
    <3>2. QED
      BY <3>1 DEF Inv
  <2>3. QED
    BY <2>1, <2>2
<1>7. QED
  BY <1>3, <1>4, <1>5, <1>6 DEF Inv

(* Time that passes takes keys away. *)
LEMMA TickKeeps ==
  ASSUME Inv, Tick
  PROVE  Inv'
<1>1. /\ now' = now + 1 /\ db' = Alive(db, now + 1)
      /\ UNCHANGED <<tokens, job, queue, got, crashes, replaced>>
  BY DEF Tick
<1>2. Typed'
  BY <1>1 DEF Inv, Typed
<1>3. Stored(db', tokens)
  BY <1>1 DEF Alive, Stored, Inv
<1>4. QED
  BY <1>1, <1>2, <1>3 DEF Inv

(* What workers know and what the database holds fit together. *)
LEMMA Invariance == Spec => []Inv
<1>1. Init => Inv
  <2> SUFFICES ASSUME Init PROVE Inv
    OBVIOUS
  <2>1. Idle \in Job /\ Idle.stage = "idle"
    BY DEF Idle, Job, Stages, Words
  <2>2. Typed
    BY <2>1, EmptySeq DEF Init, Typed
  <2>3. Stored(db, tokens)
    BY DEF Init, Stored, Empty
  <2> HIDE DEF Idle
  <2>4. ASSUME NEW w \in Workers PROVE Knows(job[w], queue[w], got[w], tokens)
    BY <2>1 DEF Init, Knows, Fitting
  <2>5. QED
    BY <2>2, <2>3, <2>4 DEF Inv
<1>2. Inv /\ [Next]_vars => Inv'
  <2>1. ASSUME Inv, UNCHANGED vars PROVE Inv'
    BY <2>1 DEF vars, history, Inv, Typed, Stored
  <2>2. QED
    BY <2>1, Steps, SendingKeeps, ExecKeeps, TickKeeps
<1>3. QED
  BY <1>1, <1>2, PTL DEF Spec

(* A request is granted a token of its own user, whatever requests race, die or *)
(* take longer than a token lasts.                                              *)
THEOREM GrantsAreOwn == Spec => []GrantedToOwner
<1>1. Inv => GrantedToOwner
  BY DEF Inv, Knows, Owned, GrantedToOwner
<1>2. QED
  BY <1>1, Invariance, PTL

-----------------------------------------------------------------------------
(* The ends of keys *)

(* How a command moves the end of a key *)
LEMMA ApplyDeadline ==
  ASSUME NEW d, NEW toks, Stored(d, toks), NEW c \in Command, NEW k \in DOMAIN Apply(d, c, now)
  PROVE  \/ /\ k \in DOMAIN d
            /\ Apply(d, c, now)[k].dl = d[k].dl
            /\ ~(c.op = "EXPIRE" /\ c.key = k)
         \/ c.op \in {"SET", "RPUSH"} /\ c.key = k /\ Apply(d, c, now)[k].dl = Forever
         \/ /\ c.op = "EXPIRE" /\ c.key = k /\ c.arg > 0
            /\ Apply(d, c, now)[k].dl = now + c.arg * Second
<1> DEFINE e == Apply(d, c, now)
           Stays == k \in DOMAIN d /\ e[k].dl = d[k].dl /\ ~(c.op = "EXPIRE" /\ c.key = k)
           Begins == c.op \in {"SET", "RPUSH"} /\ c.key = k /\ e[k].dl = Forever
           Ends == c.op = "EXPIRE" /\ c.key = k /\ c.arg > 0 /\ e[k].dl = now + c.arg * Second
<1>1. c.op \in Commands /\ (c.op = "EXPIRE" => c.arg \in Int)
  BY CommandParts
<1>2. \A l \in DOMAIN d : d[l] = [val |-> d[l].val, dl |-> d[l].dl]
  BY DEF Stored, Entry
<1>3. ASSUME NEW list, c.key \in DOMAIN d, e = [d EXCEPT ![c.key].val = list], c.op # "EXPIRE"
      PROVE  Stays
  <2>1. k \in DOMAIN d /\ e[k] = IF k = c.key THEN [d[k] EXCEPT !.val = list] ELSE d[k]
    BY <1>3
  <2>2. [d[k] EXCEPT !.val = list].dl = d[k].dl
    BY <1>2, <2>1
  <2> HIDE DEF e
  <2>3. QED
    BY <1>3, <2>1, <2>2
<1>4. ASSUME e = Without(d, c.key) PROVE Stays
  BY <1>4 DEF Without
<1>5. ASSUME NEW v, e = Put(d, c.key, [val |-> v, dl |-> Forever]), c.op \in {"SET", "RPUSH"}
      PROVE  Stays \/ Begins
  BY <1>5 DEF Put
<1>6. CASE c.op = "GET"
  BY <1>6 DEF Apply
<1>7. CASE c.op = "SET"
  BY <1>5, <1>7 DEF Apply, Set
<1>8. CASE c.op = "DEL"
  BY <1>4, <1>8 DEF Apply
<1>9. CASE c.op = "RPUSH"
  <2>1. e = Push(d, c.key, c.arg)
    BY <1>9 DEF Apply
  <2>2. CASE c.key \in DOMAIN d
    <3>1. e = [d EXCEPT ![c.key].val = Append(d[c.key].val, c.arg)]
      BY <2>1, <2>2 DEF Push
    <3> HIDE DEF e
    <3>2. Stays
      BY <1>3, <1>9, <2>2, <3>1
    <3>3. QED
      BY <3>2 DEF e
  <2>3. CASE c.key \notin DOMAIN d
    <3>1. e = Put(d, c.key, [val |-> <<c.arg>>, dl |-> Forever])
      BY <2>1, <2>3 DEF Push
    <3>2. QED
      BY <1>5, <1>9, <3>1
  <2>4. QED
    BY <2>2, <2>3
<1>10. CASE c.op = "LREM"
  <2>1. e = RemoveOne(d, c.key, c.arg)
    BY <1>10 DEF Apply
  <2>2. \/ e = d
        \/ e = Without(d, c.key)
        \/ c.key \in DOMAIN d /\ \E list : e = [d EXCEPT ![c.key].val = list]
    BY <2>1 DEF RemoveOne
  <2> HIDE DEF e
  <2>3. k \in DOMAIN e
    BY DEF e
  <2>4. Stays
    BY <1>3, <1>4, <1>10, <2>2, <2>3
  <2>5. QED
    BY <2>4 DEF e
<1>11. CASE c.op = "EXPIRE"
  <2> DEFINE dl == now + c.arg * Second
  <2>1. e = Expire(d, c.key, c.arg, now)
    BY <1>11 DEF Apply
  <2>2. \/ e = d /\ c.key \notin DOMAIN d
        \/ e = Without(d, c.key)
        \/ c.key \in DOMAIN d /\ c.arg > 0 /\ e = [d EXCEPT ![c.key].dl = dl]
    BY <1>1, <1>11, <2>1 DEF Expire
  <2> HIDE DEF dl
  <2>3. CASE c.key \in DOMAIN d /\ c.arg > 0 /\ e = [d EXCEPT ![c.key].dl = dl]
    <3>1. k \in DOMAIN d /\ e[k] = IF k = c.key THEN [d[k] EXCEPT !.dl = dl] ELSE d[k]
      BY <2>3
    <3>2. [d[k] EXCEPT !.dl = dl].dl = dl
      BY <1>2, <3>1
    <3> HIDE DEF e
    <3>3. Stays \/ (c.key = k /\ e[k].dl = dl)
      BY <3>1, <3>2
    <3>4. QED
      BY <1>11, <2>3, <3>3 DEF e, dl
  <2>4. QED
    BY <1>4, <2>2, <2>3
<1>12. QED
  BY <1>1, <1>6, <1>7, <1>8, <1>9, <1>10, <1>11 DEF Commands

(* What is left of a pipeline still ends what it has left to write, in time. *)
LEMMA TailKeeps ==
  ASSUME NEW q \in Seq(Command), q # <<>>
  PROVE  /\ Timed(q) => Timed(Tail(q))
         /\ \A toks : InTime(q, toks) => InTime(Tail(q), toks)
<1> DEFINE r == Tail(q)
<1>1. /\ \A i \in DOMAIN r : i + 1 \in DOMAIN q /\ r[i] = q[i + 1]
      /\ \A i \in DOMAIN q : i > 1 => i - 1 \in DOMAIN r /\ r[i - 1] = q[i]
      /\ \A i \in DOMAIN q : i \in Int /\ i >= 1
      /\ r \in Seq(Command)
  BY TailGood
<1>2. \A i \in DOMAIN r : i \in Int /\ i >= 1
  BY <1>1, LenProperties
<1> HIDE DEF r
<1>3. ASSUME Timed(q), NEW i \in DOMAIN r, r[i].op \in {"SET", "RPUSH"}
      PROVE  \E j \in DOMAIN r : i < j /\ r[j].op = "EXPIRE" /\ r[j].key = r[i].key
  <2>1. PICK j \in DOMAIN q : i + 1 < j /\ q[j].op = "EXPIRE" /\ q[j].key = q[i + 1].key
    BY <1>1, <1>3 DEF Timed
  <2>2. j - 1 \in DOMAIN r /\ r[j - 1] = q[j] /\ i < j - 1
    BY <1>1, <1>2, <2>1
  <2>3. QED
    BY <1>1, <2>1, <2>2
<1>4. ASSUME NEW toks, InTime(q, toks) PROVE InTime(r, toks)
  BY <1>1, <1>4 DEF InTime
<1>5. QED
  BY <1>3, <1>4 DEF Timed, r

(* A key gets an end, or its EXPIRE is still to come. *)
LEMMA ExecKeepsExpiry ==
  ASSUME Inv, ExpiryInv, NEW w \in Workers, Exec(w)
  PROVE  ExpiryInv'
<1> DEFINE q == queue[w]
           c == Head(q)
<1>1. q \in Seq(Command) /\ q # <<>>
  BY DEF Exec, Inv, Typed
<1>2. /\ c = q[1] /\ c \in Command /\ 1 \in DOMAIN q
      /\ \A i \in DOMAIN q : i > 1 => i - 1 \in DOMAIN Tail(q) /\ Tail(q)[i - 1] = q[i]
      /\ \A i \in DOMAIN q : i \in Int /\ i >= 1
  BY <1>1, TailGood
<1>3. /\ db' = Apply(db, c, now) /\ crashes' = crashes
      /\ queue'[w] = Tail(q)
      /\ \A v \in Workers : v # w => queue'[v] = queue[v]
  BY DEF Exec, Inv, Typed
<1> SUFFICES ASSUME crashes = 0
             PROVE  /\ \A v \in Workers : Timed(queue'[v])
                    /\ \A k \in DOMAIN db' : db'[k].dl = Forever => EndsComing(k)'
  BY <1>3 DEF ExpiryInv
<1>4. \A v \in Workers : Timed(queue[v])
  BY DEF ExpiryInv
<1>5. \A v \in Workers : Timed(queue'[v])
  BY <1>1, <1>3, <1>4, TailKeeps
<1>6. ASSUME NEW k, NEW i \in DOMAIN q, i > 1, q[i].op = "EXPIRE", q[i].key = k
      PROVE  EndsComing(k)'
  <2>1. i - 1 \in DOMAIN queue'[w] /\ queue'[w][i - 1] = q[i]
    BY <1>2, <1>3, <1>6
  <2>2. QED
    BY <1>6, <2>1 DEF EndsComing
<1>7. ASSUME NEW k, EndsComing(k), ~(c.op = "EXPIRE" /\ c.key = k)
      PROVE  EndsComing(k)'
  <2>1. PICK v \in Workers : \E i \in DOMAIN queue[v] : queue[v][i].op = "EXPIRE" /\ queue[v][i].key = k
    BY <1>7 DEF EndsComing
  <2>2. PICK i \in DOMAIN queue[v] : queue[v][i].op = "EXPIRE" /\ queue[v][i].key = k
    BY <2>1
  <2>3. CASE v = w
    <3>1. i \in DOMAIN q /\ q[i].op = "EXPIRE" /\ q[i].key = k
      BY <2>2, <2>3
    <3> HIDE DEF q, c
    <3>2. i # 1
      BY <1>2, <1>7, <3>1
    <3>3. i > 1
      BY <1>2, <3>1, <3>2
    <3>4. QED
      BY <1>6, <3>1, <3>3
  <2>4. CASE v # w
    <3>1. queue'[v] = queue[v]
      BY <1>3, <2>4
    <3>2. \E j \in DOMAIN queue'[v] : queue'[v][j].op = "EXPIRE" /\ queue'[v][j].key = k
      BY <2>2, <3>1
    <3>3. QED
      BY <3>2 DEF EndsComing
  <2>5. QED
    BY <2>3, <2>4
<1>8. ASSUME NEW k \in DOMAIN db', db'[k].dl = Forever
      PROVE  EndsComing(k)'
  <2>1. \/ k \in DOMAIN db /\ db[k].dl = Forever /\ ~(c.op = "EXPIRE" /\ c.key = k)
        \/ c.op \in {"SET", "RPUSH"} /\ c.key = k
        \/ c.op = "EXPIRE" /\ Forever = now + c.arg * Second
    <3>1. Stored(db, tokens) /\ k \in DOMAIN Apply(db, c, now)
      BY <1>3, <1>8 DEF Inv
    <3> HIDE DEF c
    <3>2. QED
      BY <1>2, <1>3, <1>8, <3>1, ApplyDeadline
  <2>2. CASE k \in DOMAIN db /\ db[k].dl = Forever /\ ~(c.op = "EXPIRE" /\ c.key = k)
    BY <1>7, <2>2 DEF ExpiryInv
  <2>3. CASE c.op \in {"SET", "RPUSH"} /\ c.key = k
    <3>1. Timed(q)
      BY <1>4
    <3> HIDE DEF q, c
    <3>2. PICK j \in DOMAIN q : 1 < j /\ q[j].op = "EXPIRE" /\ q[j].key = q[1].key
      BY <1>2, <2>3, <3>1 DEF Timed
    <3>3. q[j].key = k
      BY <1>2, <2>3, <3>2
    <3>4. QED
      BY <1>6, <3>2, <3>3
  <2>4. ~(c.op = "EXPIRE" /\ Forever = now + c.arg * Second)
    <3>1. c.op = "EXPIRE" => c.arg \in Int
      BY <1>2, CommandParts
    <3>2. Second \in Int /\ now \in Int /\ Forever \notin Int
      BY TokenAssumption DEF Inv, Typed
    <3> HIDE DEF c
    <3>3. c.op = "EXPIRE" => now + c.arg * Second \in Int
      BY <3>1, <3>2
    <3>4. QED
      BY <3>2, <3>3
  <2>5. QED
    BY <2>1, <2>2, <2>3, <2>4
<1>9. QED
  BY <1>5, <1>8

(* A worker whose pipeline is through takes no EXPIRE away. *)
LEMMA SendingKeepsExpiry ==
  ASSUME Inv, ExpiryInv, NEW w \in Workers, Sending(w)
  PROVE  ExpiryInv'
<1> SUFFICES ASSUME crashes' = 0
             PROVE  /\ \A v \in Workers : Timed(queue'[v])
                    /\ \A k \in DOMAIN db' : db'[k].dl = Forever => EndsComing(k)'
  BY DEF ExpiryInv
<1>1. crashes = 0 /\ queue[w] = <<>> /\ db' = db
  BY DEF Sending, Inv, Typed
<1>2. PICK q : queue' = [queue EXCEPT ![w] = q] /\ Good(q, tokens')
  BY DEF Sending
<1>3. \A v \in Workers : queue'[v] = IF v = w THEN q ELSE queue[v]
  BY <1>2 DEF Inv, Typed
<1>4. \A v \in Workers : Timed(queue'[v])
  BY <1>1, <1>2, <1>3 DEF Good, ExpiryInv
<1>5. ASSUME NEW k \in DOMAIN db, db[k].dl = Forever PROVE EndsComing(k)'
  <2>1. PICK v \in Workers : \E i \in DOMAIN queue[v] : queue[v][i].op = "EXPIRE" /\ queue[v][i].key = k
    BY <1>1, <1>5 DEF ExpiryInv, EndsComing
  <2>2. v # w
    BY <1>1, <2>1
  <2>3. QED
    BY <1>3, <2>1, <2>2 DEF EndsComing
<1>6. QED
  BY <1>1, <1>4, <1>5

(* A key that is left for ever when all pipelines are through would be one whose *)
(* EXPIRE was overtaken; none is.                                                *)
LEMMA ExpiryInvariance == Spec => [](Inv /\ ExpiryInv)
<1>1. Init => ExpiryInv
  BY DEF Init, ExpiryInv, Timed, Empty
<1>2. Inv /\ ExpiryInv /\ [Next]_vars => ExpiryInv'
  <2>1. ASSUME ExpiryInv, Tick PROVE ExpiryInv'
    BY <2>1 DEF ExpiryInv, Tick, Alive, EndsComing
  <2>2. ASSUME ExpiryInv, UNCHANGED vars PROVE ExpiryInv'
    BY <2>2 DEF ExpiryInv, vars, EndsComing
  <2>3. QED
    BY <2>1, <2>2, Steps, ExecKeepsExpiry, SendingKeepsExpiry
<1>3. QED
  BY <1>1, <1>2, Invariance, PTL DEF Spec

(* When all pipelines are through and nobody died, every key has an end. *)
THEOREM AllKeysExpire == Spec => []KeysExpire
<1>1. ExpiryInv => KeysExpire
  <2> SUFFICES ASSUME ExpiryInv, Settled, crashes = 0, NEW k \in DOMAIN db
               PROVE  db[k].dl # Forever
    BY DEF KeysExpire
  <2>1. ~EndsComing(k)
    BY DEF Settled, EndsComing
  <2>2. QED
    BY <2>1 DEF ExpiryInv
<1>2. QED
  BY <1>1, ExpiryInvariance, PTL

(* An EXPIRE sets the end it was sent with, within the same tick. *)
LEMMA ExecKeepsEnds ==
  ASSUME Inv, EndInv, NEW w \in Workers, Exec(w)
  PROVE  EndInv'
<1> DEFINE q == queue[w]
           c == Head(q)
<1>1. q \in Seq(Command) /\ q # <<>>
  BY DEF Exec, Inv, Typed
<1>2. c = q[1] /\ c \in Command /\ 1 \in DOMAIN q
  BY <1>1, TailGood
<1>3. /\ db' = Apply(db, c, now) /\ UNCHANGED <<now, tokens, stretched>>
      /\ queue'[w] = Tail(q)
      /\ \A v \in Workers : v # w => queue'[v] = queue[v]
  BY DEF Exec, Inv, Typed, history
<1> SUFFICES ASSUME ~stretched
             PROVE  /\ \A v \in Workers : InTime(queue'[v], tokens)
                    /\ \A k \in DOMAIN db' : k[1] = "access" =>
                         \/ db'[k].dl = Forever
                         \/ k[2] \in Issued /\ db'[k].dl <= tokens[k[2]].exp
  BY <1>3 DEF EndInv, InTime, Issued
<1>4. \A v \in Workers : InTime(queue[v], tokens)
  BY DEF EndInv
<1>5. \A v \in Workers : InTime(queue'[v], tokens)
  BY <1>1, <1>3, <1>4, TailKeeps
<1>6. ASSUME NEW k \in DOMAIN db', k[1] = "access"
      PROVE  \/ db'[k].dl = Forever
             \/ k[2] \in Issued /\ db'[k].dl <= tokens[k[2]].exp
  <2>1. \/ k \in DOMAIN db /\ db'[k].dl = db[k].dl
        \/ db'[k].dl = Forever
        \/ c.op = "EXPIRE" /\ c.key = k /\ db'[k].dl = now + c.arg * Second
    <3>1. Stored(db, tokens) /\ k \in DOMAIN Apply(db, c, now)
      BY <1>3, <1>6 DEF Inv
    <3> HIDE DEF c
    <3>2. QED
      BY <1>2, <1>3, <3>1, ApplyDeadline
  <2>2. CASE k \in DOMAIN db /\ db'[k].dl = db[k].dl
    BY <1>6, <2>2 DEF EndInv
  <2>3. CASE c.op = "EXPIRE" /\ c.key = k /\ db'[k].dl = now + c.arg * Second
    BY <1>2, <1>4, <1>6, <2>3 DEF InTime, Issued
  <2>4. QED
    BY <2>1, <2>2, <2>3
<1>7. QED
  BY <1>5, <1>6

(* A pipeline is sent with the time left to its token. *)
LEMMA SendingKeepsEnds ==
  ASSUME Inv, EndInv, NEW w \in Workers, Sending(w)
  PROVE  EndInv'
<1>1. UNCHANGED <<db, now, stretched>>
  BY DEF Sending
<1> SUFFICES ASSUME ~stretched
             PROVE  /\ \A v \in Workers : InTime(queue'[v], tokens')
                    /\ \A k \in DOMAIN db : k[1] = "access" =>
                         \/ db[k].dl = Forever
                         \/ k[2] \in Issued' /\ db[k].dl <= tokens'[k[2]].exp
  BY <1>1 DEF EndInv, InTime
<1>2. PICK q : queue' = [queue EXCEPT ![w] = q] /\ Good(q, tokens')
  BY DEF Sending
<1>3. \A v \in Workers : queue'[v] = IF v = w THEN q ELSE queue[v]
  BY <1>2 DEF Inv, Typed
<1>4. \A n \in Issued : n \in Issued' /\ tokens'[n] = tokens[n]
  <2>1. Inv'
    BY SendingKeeps
  <2>2. tokens \in Seq(Token) /\ tokens' \in Seq(Token)
    BY <2>1 DEF Inv, Typed
  <2>3. tokens' = tokens \/ \E t \in Token : tokens' = Append(tokens, t)
    BY DEF Sending
  <2>4. QED
    BY <2>2, <2>3, MoreTokens DEF Issued
<1>5. ASSUME NEW v \in Workers PROVE InTime(queue'[v], tokens')
  <2>1. CASE v = w
    BY <1>2, <1>3, <2>1 DEF Good
  <2>2. CASE v # w
    <3>1. InTime(queue[v], tokens)
      BY DEF EndInv
    <3>2. QED
      BY <1>3, <1>4, <2>2, <3>1 DEF InTime, Issued
  <2>3. QED
    BY <2>1, <2>2
<1>6. ASSUME NEW k \in DOMAIN db, k[1] = "access"
      PROVE  \/ db[k].dl = Forever
             \/ k[2] \in Issued' /\ db[k].dl <= tokens'[k[2]].exp
  <2>1. \/ db[k].dl = Forever
        \/ k[2] \in Issued /\ db[k].dl <= tokens[k[2]].exp
    BY <1>6 DEF EndInv
  <2>2. QED
    BY <1>4, <2>1
<1>7. QED
  BY <1>5, <1>6

(* A tick that stretches no pipeline finds all of them through. *)
LEMMA TickKeepsEnds ==
  ASSUME EndInv, Tick
  PROVE  EndInv'
<1> SUFFICES ASSUME ~stretched'
             PROVE  /\ \A w \in Workers : InTime(queue[w], tokens)'
                    /\ \A k \in DOMAIN db' : k[1] = "access" =>
                         \/ db'[k].dl = Forever
                         \/ k[2] \in Issued /\ db'[k].dl <= tokens[k[2]].exp
  BY DEF EndInv, Tick, Issued
<1>1. ~stretched /\ \A w \in Workers : queue'[w] = <<>>
  BY DEF Tick
<1>2. \A k \in DOMAIN db' : k \in DOMAIN db /\ db'[k] = db[k]
  BY DEF Tick, Alive
<1>3. ASSUME NEW w \in Workers PROVE InTime(queue[w], tokens)'
  <2>1. DOMAIN queue'[w] = {}
    BY <1>1
  <2>2. QED
    BY <2>1 DEF InTime
<1>4. ASSUME NEW k \in DOMAIN db', k[1] = "access"
      PROVE  \/ db'[k].dl = Forever
             \/ k[2] \in Issued /\ db'[k].dl <= tokens[k[2]].exp
  BY <1>1, <1>2, <1>4 DEF EndInv
<1>5. QED
  BY <1>3, <1>4

(* No key of a token outlives it, if nobody died and no pipeline took longer than *)
(* the clock.                                                                     *)
THEOREM KeysEndWithTokens == Spec => []KeyEndsWithToken
<1>1. Init => EndInv
  BY DEF Init, EndInv, InTime, Empty
<1>2. Inv /\ EndInv /\ [Next]_vars => EndInv'
  <2>1. ASSUME EndInv, UNCHANGED vars PROVE EndInv'
    BY <2>1 DEF EndInv, InTime, vars, history, Issued
  <2>2. QED
    BY <2>1, Steps, ExecKeepsEnds, SendingKeepsEnds, TickKeepsEnds
<1>3. EndInv /\ KeysExpire => KeyEndsWithToken
  BY DEF EndInv, KeysExpire, KeyEndsWithToken, Exists, Access
<1>4. QED
  BY <1>1, <1>2, <1>3, Invariance, AllKeysExpire, PTL DEF Spec

-----------------------------------------------------------------------------
(* Types *)

(* No key is kept beyond its end. *)
LifeInv ==
  /\ now <= MaxTime
  /\ \A k \in DOMAIN db : db[k].dl = Forever \/ db[k].dl > now

(* A command gives no key an end that has passed. *)
LEMMA ExecKeepsLife ==
  ASSUME Inv, LifeInv, NEW w \in Workers, Exec(w)
  PROVE  LifeInv'
<1> DEFINE c == Head(queue[w])
<1>1. c \in Command /\ db' = Apply(db, c, now) /\ now' = now
  BY TailGood DEF Exec, Inv, Typed
<1>2. ASSUME NEW k \in DOMAIN db'
      PROVE  db'[k].dl = Forever \/ db'[k].dl > now
  <2>1. \/ k \in DOMAIN db /\ db'[k].dl = db[k].dl
        \/ db'[k].dl = Forever
        \/ c.op = "EXPIRE" /\ c.arg > 0 /\ db'[k].dl = now + c.arg * Second
    <3>1. Stored(db, tokens) /\ k \in DOMAIN Apply(db, c, now)
      BY <1>1, <1>2 DEF Inv
    <3> HIDE DEF c
    <3>2. QED
      BY <1>1, <3>1, ApplyDeadline
  <2>2. CASE c.op = "EXPIRE" /\ c.arg > 0 /\ db'[k].dl = now + c.arg * Second
    <3>1. c.arg \in Int /\ Second \in Nat /\ Second > 0 /\ now \in Nat
      BY <1>1, <2>2, CommandParts, TokenAssumption DEF Inv, Typed
    <3> HIDE DEF c
    <3>2. c.arg * Second \in Int /\ c.arg * Second > 0
      BY <2>2, <3>1
    <3>3. QED
      BY <2>2, <3>1, <3>2
  <2>3. QED
    BY <2>1, <2>2 DEF LifeInv
<1>3. QED
  BY <1>1, <1>2 DEF LifeInv

(* Every variable stays in its type, and no key outlives its end. *)
LEMMA LifeInvariance == Spec => [](Inv /\ LifeInv)
<1>1. Init => LifeInv
  BY TokenAssumption DEF Init, LifeInv, Empty
<1>2. Inv /\ LifeInv /\ [Next]_vars => LifeInv'
  <2>1. ASSUME Inv, LifeInv, Tick PROVE LifeInv'
    <3>1. now \in Nat /\ MaxTime \in Nat /\ now < MaxTime /\ now' = now + 1
      BY <2>1, TokenAssumption DEF Inv, Typed, Tick
    <3>2. \A k \in DOMAIN db' : db'[k].dl = Forever \/ db'[k].dl > now + 1
      BY <2>1 DEF Tick, Alive
    <3>3. QED
      BY <3>1, <3>2 DEF LifeInv
  <2>2. ASSUME LifeInv, UNCHANGED <<db, now>> PROVE LifeInv'
    BY <2>2 DEF LifeInv
  <2>3. ASSUME NEW w \in Workers, Sending(w) PROVE UNCHANGED <<db, now>>
    BY <2>3 DEF Sending
  <2>4. QED
    BY <2>1, <2>2, <2>3, Steps, ExecKeepsLife DEF vars
<1>3. QED
  BY <1>1, <1>2, Invariance, PTL DEF Spec

(* What is stored under each kind of key *)
LEMMA StoredTypes ==
  ASSUME NEW d, NEW toks \in Seq(Token), Stored(d, toks), NEW k \in DOMAIN d
  PROVE  CASE k[1] \in {"auth", "refresh_auth"} -> d[k].val \in Users
           [] k[1] \in {"uname_to_access", "client_id_to_access"} ->
                d[k].val # <<>> /\ \A i \in DOMAIN d[k].val : d[k].val[i] \in DOMAIN toks
           [] OTHER -> d[k].val \in DOMAIN toks
<1>1. k \in PlainKeys \cup ListKeys /\ Fits(k, d[k].val, toks)
      /\ (k \in ListKeys => Listed(d[k].val, toks))
  BY DEF Stored
<1>2. CASE k \in ListKeys
  <2>1. k[1] \in {"uname_to_access", "client_id_to_access"}
    BY <1>2 DEF ListKeys, ClientIdToAccess
  <2>2. d[k].val \in Seq(DOMAIN toks) /\ d[k].val # <<>>
    BY <1>1, <1>2 DEF Listed
  <2>3. \A i \in DOMAIN d[k].val : d[k].val[i] \in DOMAIN toks
    BY <2>2
  <2>4. QED
    BY <2>1, <2>2, <2>3
<1>3. CASE k \in PlainKeys
  <2>1. k[1] \in PlainKinds
    BY <1>3, KeyKinds
  <2>2. CASE k[1] \in {"auth", "refresh_auth"}
    <3>1. Owned(k[2], d[k].val, toks)
      BY <1>1, <2>2 DEF Fits
    <3>2. k[2] \in 1..Len(toks) /\ toks[k[2]].user = d[k].val
      BY <3>1, LenProperties DEF Owned
    <3>3. toks[k[2]] \in Token
      BY <3>2, ElementOfSeq
    <3>4. d[k].val \in Users
      BY <3>2, <3>3 DEF Token
    <3>5. QED
      BY <2>2, <3>4
  <2>3. CASE k[1] \notin {"auth", "refresh_auth"}
    <3>1. d[k].val \in DOMAIN toks
      BY <1>1, <2>1, <2>3 DEF Fits, Owned, PlainKinds, TokenKinds
    <3>2. k[1] \notin {"uname_to_access", "client_id_to_access"}
      BY <2>1 DEF PlainKinds
    <3>3. QED
      BY <2>3, <3>1, <3>2
  <2>4. QED
    BY <2>2, <2>3
<1>4. QED
  BY <1>1, <1>2, <1>3

(* Every variable stays in its type, whatever workers die or overtake each other. *)
THEOREM TypeCorrect == Spec => []TypeOK
<1>1. Inv /\ LifeInv => TypeOK
  <2> SUFFICES ASSUME Inv, LifeInv PROVE TypeOK
    OBVIOUS
  <2>1. now \in 0..MaxTime
    BY TokenAssumption DEF Inv, Typed, LifeInv
  <2>2. \A n \in Issued : tokens[n].user \in Users /\ tokens[n].exp \in Nat
    <3>1. \A n \in Issued : tokens[n] \in Token
      BY DEF Inv, Typed, Issued
    <3>2. QED
      BY <3>1 DEF Token
  <2>3. ASSUME NEW k \in DOMAIN db
        PROVE  CASE k[1] \in {"auth", "refresh_auth"} -> db[k].val \in Users
                 [] k[1] \in {"uname_to_access", "client_id_to_access"} ->
                      db[k].val # <<>> /\ \A i \in DOMAIN db[k].val : db[k].val[i] \in Issued
                 [] OTHER -> db[k].val \in Issued
    BY StoredTypes DEF Inv, Typed, Issued
  <2>4. ASSUME NEW w \in Workers
        PROVE  job[w].stage \in Stages /\ job[w].user \in Users \cup {Nil}
    BY DEF Inv, Typed, Job
  <2>5. ASSUME NEW w \in Workers, NEW i \in DOMAIN queue[w]
        PROVE  queue[w][i].op \in Commands
    <3>1. queue[w] \in Seq(Command)
      BY DEF Inv, Typed
    <3>2. queue[w][i] \in Command
      BY <3>1
    <3>3. QED
      BY <3>2, CommandParts
  <2>6. replaced \subseteq Issued
    BY DEF Inv, Typed, Issued
  <2>7. QED
    BY <2>1, <2>2, <2>3, <2>4, <2>5, <2>6 DEF TypeOK, LifeInv
<1>2. QED
  BY <1>1, LifeInvariance, PTL

-----------------------------------------------------------------------------
(* One request at a time: what a granted token may count on *)

(* What a command does to the key of a value: nothing, when it names another key, *)
LEMMA ApplyElsewhere ==
  ASSUME NEW d, NEW t, NEW c \in Command, NEW k, c.key # k \/ c.op = "GET"
  PROVE  /\ k \in DOMAIN Apply(d, c, t) <=> k \in DOMAIN d
         /\ k \in DOMAIN d => Apply(d, c, t)[k] = d[k]
<1> DEFINE e == Apply(d, c, t)
<1>1. c.op \in Commands
  BY CommandParts
<1>2. ASSUME NEW x, c.key # k, e = [d EXCEPT ![c.key] = x]
      PROVE  (k \in DOMAIN e <=> k \in DOMAIN d) /\ (k \in DOMAIN d => e[k] = d[k])
  <2> HIDE DEF e
  <2>1. QED
    BY <1>2
<1>3. CASE c.op = "GET"
  BY <1>3 DEF Apply
<1>4. CASE c.key # k /\ c.op \in {"SET", "DEL"}
  BY <1>4 DEF Apply, Set, Put, Without
<1>5. CASE c.key # k /\ c.op = "RPUSH"
  BY <1>5 DEF Apply, Push, Put
<1>6. CASE c.key # k /\ c.op = "LREM"
  <2>1. e = RemoveOne(d, c.key, c.arg)
    BY <1>6 DEF Apply
  <2>2. e = d \/ e = Without(d, c.key) \/ \E x : e = [d EXCEPT ![c.key].val = x]
    BY <2>1 DEF RemoveOne
  <2> HIDE DEF e
  <2>3. (k \in DOMAIN e <=> k \in DOMAIN d) /\ (k \in DOMAIN d => e[k] = d[k])
    BY <1>6, <2>2 DEF Without
  <2>4. QED
    BY <2>3 DEF e
<1>7. CASE c.key # k /\ c.op = "EXPIRE"
  BY <1>7 DEF Apply, Expire, Without
<1>8. QED
  BY <1>1, <1>3, <1>4, <1>5, <1>6, <1>7 DEF Commands

(* a value without an end, or none at all, *)
LEMMA ApplyHere ==
  ASSUME NEW d, NEW t, NEW c \in Command, c.key \in PlainKeys
  PROVE  /\ c.op \in {"GET", "SET", "DEL", "EXPIRE"}
         /\ c.op = "SET" => /\ c.key \in DOMAIN Apply(d, c, t)
                            /\ Apply(d, c, t)[c.key].val = c.arg
                            /\ Apply(d, c, t)[c.key].dl = Forever
         /\ c.op = "DEL" => c.key \notin DOMAIN Apply(d, c, t)
<1>1. c.op \in {"GET", "SET", "DEL", "EXPIRE"}
  BY CommandParts, KeyKinds DEF Commands
<1>2. QED
  BY <1>1 DEF Apply, Set, Put, Without

(* or an end. *)
LEMMA ExpireHere ==
  ASSUME NEW d, NEW toks, Stored(d, toks), NEW t, NEW c \in Command, c.op = "EXPIRE"
  PROVE  /\ c.arg \in Int
         /\ c.key \in DOMAIN Apply(d, c, t) <=> c.key \in DOMAIN d /\ c.arg > 0
         /\ c.key \in DOMAIN Apply(d, c, t) => /\ Apply(d, c, t)[c.key].dl = t + c.arg * Second
                                              /\ Apply(d, c, t)[c.key].val = d[c.key].val
<1> DEFINE k == c.key
           dl == t + c.arg * Second
           e == Apply(d, c, t)
<1>1. c.arg \in Int
  BY CommandParts
<1>2. e = Expire(d, k, c.arg, t)
  BY DEF Apply
<1>3. CASE k \notin DOMAIN d \/ ~(c.arg > 0)
  BY <1>1, <1>2, <1>3 DEF Expire, Without
<1>4. CASE k \in DOMAIN d /\ c.arg > 0
  <2>1. e = [d EXCEPT ![k].dl = dl]
    BY <1>1, <1>2, <1>4 DEF Expire
  <2>2. d[k] = [val |-> d[k].val, dl |-> d[k].dl]
    BY <1>4 DEF Stored, Entry
  <2> HIDE DEF e, dl, k
  <2>3. k \in DOMAIN e /\ e[k] = [d[k] EXCEPT !.dl = dl]
    BY <1>4, <2>1
  <2>4. e[k].dl = dl /\ e[k].val = d[k].val
    BY <2>2, <2>3
  <2>5. QED
    BY <1>1, <1>4, <2>3, <2>4 DEF e, dl, k
<1>5. QED
  BY <1>3, <1>4

(* A step of a worker's pipeline *)
LEMMA Obeyed ==
  ASSUME Inv, NEW w \in Workers, Exec(w)
  PROVE  /\ queue[w] \in Seq(Command) /\ queue[w] # <<>> /\ Head(queue[w]) \in Command
         /\ db' = Apply(db, Head(queue[w]), now)
         /\ queue' = [queue EXCEPT ![w] = Tail(queue[w])] /\ queue'[w] = Tail(queue[w])
         /\ UNCHANGED <<now, tokens, job, crashes, replaced>>
<1>1. queue[w] \in Seq(Command) /\ queue[w] # <<>> /\ queue \in [Workers -> Seq(Command)]
  BY DEF Inv, Typed, Exec
<1>2. Head(queue[w]) \in Command
  BY <1>1, TailGood
<1>3. QED
  BY <1>1, <1>2 DEF Exec, history

(* A pipeline has such a command still to send. *)
Has(q, op, k) == \E i \in DOMAIN q : q[i].op = op /\ q[i].key = k

(* At time t a token with this end has not a whole second left. *)
Short(end, t) == end - t < Second

(* A key that lasts until the token's last second *)
Long(d, k, end) == k \in DOMAIN d /\ (d[k].dl = Forever \/ d[k].dl > end - Second)

(* An EXPIRE that lets it *)
Lengthy(c, end, t) == c.op = "EXPIRE" /\ t + c.arg * Second > end - Second

(* A key lasts or is going to, whatever is left of the pipeline. *)
Lasts(k, q, d, end, t) ==
  /\ \A i \in DOMAIN q : q[i].key = k => q[i].op = "SET" \/ Lengthy(q[i], end, t)
  /\ Has(q, "SET", k) \/ Long(d, k, end)

UsableInv ==
  \A w \in Workers :
    LET n == job[w].tok IN
    job[w].stage = "granted" =>
      \/ Short(tokens[n].exp, now)
      \/ /\ Lasts(Access(n), queue[w], db, tokens[n].exp, now)
         /\ Lasts(AuthOf(n), queue[w], db, tokens[n].exp, now)

(* The first of two commands may be the one that writes. *)
LEMMA HasAfter ==
  ASSUME NEW q \in Seq(Command), q # <<>>, NEW op, NEW k, Has(q, op, k),
         ~(Head(q).op = op /\ Head(q).key = k)
  PROVE  Has(Tail(q), op, k)
<1>1. /\ Head(q) = q[1]
      /\ \A i \in DOMAIN q : i > 1 => i - 1 \in DOMAIN Tail(q) /\ Tail(q)[i - 1] = q[i]
      /\ \A i \in DOMAIN q : i \in Int /\ i >= 1
  BY TailGood
<1>2. PICK i \in DOMAIN q : q[i].op = op /\ q[i].key = k
  BY DEF Has
<1>3. i # 1 /\ i > 1
  BY <1>1, <1>2
<1>4. QED
  BY <1>1, <1>2, <1>3 DEF Has

(* What is left to send was to be sent before. *)
LEMMA HasBefore ==
  ASSUME NEW q \in Seq(Command), q # <<>>, NEW op, NEW k, Has(Tail(q), op, k)
  PROVE  Has(q, op, k)
<1>1. \A i \in DOMAIN Tail(q) : i + 1 \in DOMAIN q /\ Tail(q)[i] = q[i + 1]
  BY TailGood
<1>2. QED
  BY <1>1 DEF Has

(* An EXPIRE that reaches a time not yet come has a second in it. *)
LEMMA SecondsLeft ==
  ASSUME NEW s \in Int, s * Second > 0
  PROVE  s > 0
<1>1. Second \in Nat /\ Second > 0
  BY TokenAssumption
<1>2. ASSUME s <= 0 PROVE s * Second <= 0
  BY <1>1, <1>2
<1>3. s * Second \in Int
  BY <1>1
<1>4. QED
  BY <1>2, <1>3

(* A key lasts through the commands of the pipeline, *)
LEMMA ExecLasts ==
  ASSUME NEW d, NEW toks, Stored(d, toks), NEW t \in Int, NEW end \in Int, ~Short(end, t),
         NEW k \in PlainKeys, NEW q \in Seq(Command), q # <<>>, Lasts(k, q, d, end, t)
  PROVE  Lasts(k, Tail(q), Apply(d, Head(q), t), end, t)
<1> DEFINE c == Head(q)
           r == Tail(q)
           e == Apply(d, c, t)
<1>1. /\ c \in Command /\ c = q[1] /\ 1 \in DOMAIN q
      /\ \A i \in DOMAIN r : i + 1 \in DOMAIN q /\ r[i] = q[i + 1]
  BY TailGood
<1>2. \A i \in DOMAIN r : r[i].key = k => r[i].op = "SET" \/ Lengthy(r[i], end, t)
  BY <1>1 DEF Lasts
<1>3. Second \in Nat /\ (c.op = "EXPIRE" => c.arg \in Int)
  BY <1>1, TokenAssumption, CommandParts
<1>4. CASE c.key = k
  <2>1. c.op = "SET" \/ Lengthy(c, end, t)
    BY <1>1, <1>4 DEF Lasts
  <2>2. CASE c.op = "SET"
    <3>1. k \in DOMAIN e /\ e[k].dl = Forever
      BY <1>1, <1>4, <2>2, ApplyHere
    <3> HIDE DEF e, c
    <3>2. Long(e, k, end)
      BY <3>1 DEF Long
    <3>3. QED
      BY <1>2, <3>2 DEF Lasts, e, c
  <2>3. CASE Lengthy(c, end, t)
    <3>1. c.op = "EXPIRE" /\ c.arg \in Int /\ t + c.arg * Second > end - Second
      BY <1>3, <2>3 DEF Lengthy
    <3>2. c.arg * Second \in Int
      BY <1>3, <3>1
    <3>3. c.arg * Second > 0
      BY <1>3, <3>1, <3>2 DEF Short
    <3>4. c.arg > 0
      BY <3>1, <3>3, SecondsLeft
    <3>5. CASE k \in DOMAIN d
      <4>1. k \in DOMAIN e /\ e[k].dl = t + c.arg * Second
        BY <1>1, <1>4, <3>1, <3>4, <3>5, ExpireHere
      <4> HIDE DEF e, c
      <4>2. Long(e, k, end)
        BY <3>1, <4>1 DEF Long
      <4>3. QED
        BY <1>2, <4>2 DEF Lasts, e, c
    <3>6. CASE k \notin DOMAIN d
      <4>1. Has(q, "SET", k)
        BY <3>6 DEF Lasts, Long
      <4>2. Has(r, "SET", k)
        BY <3>1, <4>1, HasAfter
      <4>3. QED
        BY <1>2, <4>2 DEF Lasts
    <3>7. QED
      BY <3>5, <3>6
  <2>4. QED
    BY <2>1, <2>2, <2>3
<1>5. CASE c.key # k
  <2>1. CASE Has(q, "SET", k)
    <3>1. Has(r, "SET", k)
      BY <1>5, <2>1, HasAfter
    <3>2. QED
      BY <1>2, <3>1 DEF Lasts
  <2>2. CASE Long(d, k, end)
    <3>1. k \in DOMAIN e /\ e[k] = d[k]
      BY <1>1, <1>5, <2>2, ApplyElsewhere DEF Long
    <3> HIDE DEF e, c
    <3>2. Long(e, k, end)
      BY <2>2, <3>1 DEF Long
    <3>3. QED
      BY <1>2, <3>2 DEF Lasts, e, c
  <2>3. QED
    BY <2>1, <2>2 DEF Lasts
<1>6. QED
  BY <1>4, <1>5

(* and through a tick, while the token has a whole second left. *)
LEMMA TickLasts ==
  ASSUME NEW d, NEW toks, Stored(d, toks), NEW t \in Int, NEW end \in Int, ~Short(end, t + 1),
         NEW k \in PlainKeys, NEW q \in Seq(Command), Lasts(k, q, d, end, t)
  PROVE  ~Short(end, t) /\ Lasts(k, q, Alive(d, t + 1), end, t + 1)
<1>1. Second \in Nat
  BY TokenAssumption
<1>2. end - (t + 1) >= Second /\ ~Short(end, t)
  BY <1>1 DEF Short
<1>3. ASSUME NEW i \in DOMAIN q, q[i].key = k PROVE q[i].op = "SET" \/ Lengthy(q[i], end, t + 1)
  <2>1. q[i] \in Command
    OBVIOUS
  <2>2. q[i].op = "EXPIRE" => q[i].arg * Second \in Int
    BY <1>1, <2>1, CommandParts
  <2>3. q[i].op = "SET" \/ Lengthy(q[i], end, t)
    BY <1>3 DEF Lasts
  <2>4. QED
    BY <1>1, <2>2, <2>3 DEF Lengthy
<1>4. ASSUME Long(d, k, end) PROVE Long(Alive(d, t + 1), k, end)
  <2>1. k \in DOMAIN d /\ d[k].dl \in Int \cup {Forever}
    BY <1>4 DEF Long, Stored, Entry
  <2>2. d[k].dl = Forever \/ d[k].dl > t + 1
    BY <1>1, <1>2, <1>4, <2>1 DEF Long
  <2>3. QED
    BY <1>4, <2>1, <2>2 DEF Alive, Long
<1>5. QED
  BY <1>2, <1>3, <1>4 DEF Lasts

(* The time to live a token is stored with ends in the token's last second. *)
LEMMA LastSecond ==
  ASSUME NEW left \in Int
  PROVE  (left \div Second) * Second > left - Second
<1>1. Second \in Nat \ {0}
  BY TokenAssumption
<1>2. QED
  BY <1>1

(* A pipeline that stores the token lets both of its keys last. *)
LEMMA StoringLasts ==
  ASSUME NEW n, NEW u, NEW toks, toks[n].exp \in Nat, now \in Nat, NEW d,
         NEW q, Storing(q, n, u, ExpiresIn(n, toks)), NEW k \in {Access(n), AuthOf(n)}
  PROVE  Lasts(k, q, d, toks[n].exp, now)
<1> DEFINE e == ExpiresIn(n, toks)
           end == toks[n].exp
<1>1. now + e * Second > end - Second
  <2>1. end - now \in Int /\ Second \in Nat
    BY TokenAssumption
  <2>2. ((end - now) \div Second) * Second > (end - now) - Second
    BY <2>1, LastSecond
  <2>3. ((end - now) \div Second) * Second \in Int
    BY <2>1, WholeSeconds
  <2>4. QED
    BY <2>1, <2>2, <2>3 DEF ExpiresIn
<1> HIDE DEF e, end
<1>2. Storing(q, n, u, e)
  BY DEF e
<1>3. /\ Access(n)[1] = "access" /\ AuthOf(n)[1] = "auth" /\ AuthToAccess(u)[1] = "auth_to_access"
  BY DEF Access, AuthOf, AuthToAccess
<1>4. ASSUME NEW i \in DOMAIN q, q[i].key = k PROVE q[i].op = "SET" \/ Lengthy(q[i], end, now)
  <2>1. i \in {1, 2, 6, 7}
    BY <1>2, <1>3, <1>4 DEF Storing, TokenKeys, Write, Live
  <2>2. i \in {1, 2} => q[i].op = "SET"
    BY <1>2, <2>1 DEF Storing, Write
  <2>3. i \in {6, 7} => q[i].op = "EXPIRE" /\ q[i].arg = e
    BY <1>2, <2>1 DEF Storing, Live
  <2>4. QED
    BY <1>1, <2>1, <2>2, <2>3 DEF Lengthy
<1>5. Has(q, "SET", k)
  BY <1>2 DEF Storing, Write, Has
<1>6. QED
  BY <1>4, <1>5 DEF Lasts, end

(* The step of a lone worker that goes on *)
LEMMA SentAlone ==
  ASSUME NEW w0, Workers = {w0}, Inv, Sending(w0)
  PROVE  /\ UNCHANGED <<db, now, stretched>>
         /\ job'[w0].stage \notin {"verify", "existing", "taken", "granted"} \/ crashes' = crashes
         /\ crashes' = crashes => /\ queue[w0] = <<>> /\ got'[w0] = <<>>
                                  /\ Moves(job[w0], got[w0], job'[w0], queue'[w0])
         /\ crashes' # crashes => job'[w0].stage = "idle"
         /\ Good(queue'[w0], tokens') /\ Knows(job'[w0], queue'[w0], <<>>, tokens')
         /\ \A n \in DOMAIN tokens : n \in DOMAIN tokens' /\ tokens'[n] = tokens[n]
<1>1. PICK j \in Job, q \in Seq(Command) :
        /\ job' = [job EXCEPT ![w0] = j]
        /\ queue' = [queue EXCEPT ![w0] = q]
        /\ got' = [got EXCEPT ![w0] = <<>>]
        /\ Good(q, tokens')
        /\ Knows(j, q, <<>>, tokens')
        /\ IF crashes' = crashes THEN Moves(job[w0], got[w0], j, q) ELSE j.stage = "idle"
  BY DEF Sending
<1>2. /\ job'[w0] = j /\ queue'[w0] = q /\ got'[w0] = <<>>
  BY <1>1 DEF Inv, Typed
<1>3. crashes' = crashes => queue[w0] = <<>>
  BY DEF Sending, Inv, Typed
<1>4. \A n \in DOMAIN tokens : n \in DOMAIN tokens' /\ tokens'[n] = tokens[n]
  <2>1. tokens \in Seq(Token)
    BY DEF Inv, Typed
  <2>2. \A t \in Token : Append(tokens, t) \in Seq(Token)
    BY <2>1, AppendProperties
  <2>3. tokens' = tokens \/ \E t \in Token : tokens' = Append(tokens, t)
    BY DEF Sending
  <2>4. tokens' \in Seq(Token)
    BY <2>1, <2>2, <2>3
  <2>5. QED
    BY <2>1, <2>3, <2>4, MoreTokens
<1>5. UNCHANGED <<db, now, stretched>>
  BY DEF Sending
<1>6. QED
  BY <1>1, <1>2, <1>3, <1>4, <1>5

(* What a lone worker knows of the token it is about to return *)
LEMMA SendingKeepsUsable ==
  ASSUME NEW w0, Workers = {w0}, Inv, Sending(w0)
  PROVE  UsableInv'
<1> DEFINE j == job'[w0]
           q == queue'[w0]
           n == j.tok
<1>1. SUFFICES ASSUME j.stage = "granted"
               PROVE  /\ Lasts(Access(n), q, db', tokens'[n].exp, now')
                      /\ Lasts(AuthOf(n), q, db', tokens'[n].exp, now')
  BY DEF UsableInv
<1>2. /\ Moves(job[w0], got[w0], j, q) /\ Knows(j, q, <<>>, tokens')
      /\ now' = now
  BY <1>1, SentAlone
<1>3. Storing(q, n, j.user, ExpiresIn(n, tokens'))
  BY <1>1, <1>2 DEF Moves
<1>4. ExpiresIn(n, tokens') = (tokens'[n].exp - now) \div Second
  BY DEF ExpiresIn
<1>5. tokens'[n].exp \in Nat /\ now \in Nat
  <2>1. tokens \in Seq(Token) /\ now \in Nat
    BY DEF Inv, Typed
  <2>2. \A t \in Token : Append(tokens, t) \in Seq(Token)
    BY <2>1, AppendProperties
  <2>3. tokens' \in Seq(Token)
    BY <2>1, <2>2 DEF Sending
  <2>4. n \in DOMAIN tokens'
    BY <1>1, <1>2 DEF Knows, Owned
  <2>5. tokens'[n] \in Token
    BY <2>3, <2>4, ElementOfSeq, LenProperties
  <2>6. QED
    BY <2>1, <2>5 DEF Token
<1> HIDE DEF j, q, n
<1>6. \A k \in {Access(n), AuthOf(n)} : Lasts(k, q, db', tokens'[n].exp, now)
  BY <1>3, <1>4, <1>5, StoringLasts
<1>7. QED
  BY <1>2, <1>6

(* It stays so through a command of its pipeline, *)
LEMMA ExecKeepsUsable ==
  ASSUME NEW w0, Workers = {w0}, Inv, UsableInv, Exec(w0)
  PROVE  UsableInv'
<1> DEFINE q == queue[w0]
           n == job[w0].tok
           end == tokens[n].exp
<1>1. SUFFICES ASSUME job[w0].stage = "granted", ~Short(end, now)
               PROVE  /\ Lasts(Access(n), queue'[w0], db', end, now)
                      /\ Lasts(AuthOf(n), queue'[w0], db', end, now)
  BY Obeyed DEF UsableInv
<1>2. n \in Words /\ end \in Int /\ now \in Int
  <2>1. tokens \in Seq(Token) /\ now \in Nat /\ job[w0] \in Job
    BY DEF Inv, Typed
  <2>2. n \in DOMAIN tokens
    BY <1>1 DEF Inv, Knows, Owned
  <2>3. tokens[n] \in Token
    BY <2>1, <2>2, ElementOfSeq, LenProperties
  <2>4. QED
    BY <2>1, <2>3 DEF Token, Job
<1>3. Access(n) \in PlainKeys /\ AuthOf(n) \in PlainKeys
  BY <1>2, KeysTyped
<1>4. /\ Lasts(Access(n), q, db, end, now) /\ Lasts(AuthOf(n), q, db, end, now)
  BY <1>1 DEF UsableInv
<1>5. /\ q \in Seq(Command) /\ q # <<>> /\ queue'[w0] = Tail(q)
      /\ db' = Apply(db, Head(q), now)
  BY Obeyed
<1>6. Stored(db, tokens)
  BY DEF Inv
<1> HIDE DEF n, end, q
<1>7. QED
  BY <1>1, <1>2, <1>3, <1>4, <1>5, <1>6, ExecLasts

(* and through a tick. *)
LEMMA TickKeepsUsable ==
  ASSUME NEW w0, Workers = {w0}, Inv, UsableInv, Tick
  PROVE  UsableInv'
<1> DEFINE q == queue[w0]
           n == job[w0].tok
           end == tokens[n].exp
<1>0. UNCHANGED <<tokens, job, queue>> /\ now' = now + 1 /\ db' = Alive(db, now + 1)
  BY DEF Tick
<1>1. SUFFICES ASSUME job[w0].stage = "granted", ~Short(end, now + 1)
               PROVE  /\ Lasts(Access(n), q, db', end, now + 1)
                      /\ Lasts(AuthOf(n), q, db', end, now + 1)
  BY <1>0 DEF UsableInv
<1>2. n \in Words /\ end \in Int /\ now \in Int /\ q \in Seq(Command)
  <2>1. tokens \in Seq(Token) /\ now \in Nat /\ job[w0] \in Job /\ q \in Seq(Command)
    BY DEF Inv, Typed
  <2>2. n \in DOMAIN tokens
    BY <1>1 DEF Inv, Knows, Owned
  <2>3. tokens[n] \in Token
    BY <2>1, <2>2, ElementOfSeq, LenProperties
  <2>4. QED
    BY <2>1, <2>3 DEF Token, Job
<1>3. Access(n) \in PlainKeys /\ AuthOf(n) \in PlainKeys
  BY <1>2, KeysTyped
<1>4. Short(end, now) \/ (Lasts(Access(n), q, db, end, now) /\ Lasts(AuthOf(n), q, db, end, now))
  BY <1>1 DEF UsableInv
<1>5. Stored(db, tokens)
  BY DEF Inv
<1> HIDE DEF n, end, q
<1>6. ~Short(end, now)
  BY <1>1, <1>2, TokenAssumption DEF Short
<1>7. \A k \in {Access(n), AuthOf(n)} : Lasts(k, q, Alive(db, now + 1), end, now + 1)
  BY <1>1, <1>2, <1>3, <1>4, <1>5, <1>6, TickLasts
<1>8. QED
  BY <1>0, <1>7

(* So it is invariant. *)
LEMMA UsableInvariance == ASSUME NEW w0, Workers = {w0} PROVE Spec => [](Inv /\ UsableInv)
<1>1. Init => UsableInv
  BY DEF Init, UsableInv, Idle
<1>2. Inv /\ UsableInv /\ [Next]_vars => UsableInv'
  <2>1. ASSUME UsableInv, UNCHANGED vars PROVE UsableInv'
    BY <2>1 DEF vars, UsableInv
  <2>2. QED
    BY <2>1, Steps, SendingKeepsUsable, ExecKeepsUsable, TickKeepsUsable
<1>3. QED
  BY <1>1, <1>2, Invariance, PTL DEF Spec

(* Where requests are served one at a time, a granted token that has a whole *)
(* second left can be read and has its authentication, whatever requests     *)
(* died in a pipeline before, and whatever time the pipelines take.          *)
THEOREM AloneGrantsAreUsable == ASSUME NEW w0, Workers = {w0} PROVE Spec => []GrantedIsUsable
<1>1. Inv /\ UsableInv => GrantedIsUsable
  <2> SUFFICES ASSUME Inv, UsableInv, At(w0, "granted"), ExpiresIn(job[w0].tok, tokens) > 0
               PROVE  LET n == job[w0].tok IN
                        Exists(Access(n)) /\ Exists(AuthOf(n)) /\ db[AuthOf(n)].val = tokens[n].user
    BY DEF GrantedIsUsable
  <2> DEFINE n == job[w0].tok
             end == tokens[n].exp
  <2>1. n \in DOMAIN tokens /\ end \in Int /\ now \in Int
    <3>1. tokens \in Seq(Token) /\ now \in Nat
      BY DEF Inv, Typed
    <3>2. n \in DOMAIN tokens
      BY DEF Inv, Knows, Owned, At
    <3>3. tokens[n] \in Token
      BY <3>1, <3>2, ElementOfSeq, LenProperties
    <3>4. QED
      BY <3>1, <3>2, <3>3 DEF Token
  <2>2. ~Short(end, now)
    <3>1. ExpiresIn(n, tokens) = (end - now) \div Second
      BY DEF ExpiresIn
    <3> HIDE DEF n, end
    <3>2. Second \in Nat \ {0} /\ end - now \in Int
      BY <2>1, TokenAssumption
    <3>3. (end - now) \div Second > 0
      BY <3>1 DEF n
    <3>4. end - now >= Second
      BY <3>2, <3>3
    <3>5. QED
      BY <2>1, <3>2, <3>4 DEF Short
  <2>3. ~Has(queue[w0], "SET", Access(n)) /\ ~Has(queue[w0], "SET", AuthOf(n))
    BY DEF At, Has
  <2>4. Exists(Access(n)) /\ Exists(AuthOf(n))
    BY <2>2, <2>3 DEF UsableInv, At, Lasts, Long, Exists
  <2>5. Owned(n, db[AuthOf(n)].val, tokens)
    BY <2>4 DEF Inv, Stored, Fits, Exists, AuthOf
  <2>6. QED
    BY <2>4, <2>5 DEF Owned
<1>2. QED
  BY <1>1, UsableInvariance, PTL

-----------------------------------------------------------------------------
(* One request at a time, and none dies: a token and its authentication *)

(* A command that moves the end of a key, gives it a value or takes it out *)
Touches(c, k) == c.key = k /\ c.op \in {"SET", "EXPIRE", "DEL"}

(* In what order a pipeline touches the key a of a token and the key b of its   *)
(* authentication: a is set before anything else, b gets its end last, both the *)
(* same, and what is taken out is not stored in the same pipeline.              *)
Ordered(q, a, b) ==
  \A i, j \in DOMAIN q : (Touches(q[i], a) \/ Touches(q[i], b)) /\ (Touches(q[j], a) \/ Touches(q[j], b)) =>
    /\ q[i].op = "SET" /\ q[i].key = a => i <= j
    /\ q[i].op = "EXPIRE" /\ q[i].key = b => j <= i
    /\ q[i].op = "EXPIRE" /\ q[j].op = "SET" => j < i
    /\ q[i].op = "EXPIRE" /\ q[j].op = "EXPIRE" => q[i].arg = q[j].arg
    /\ q[i].op = "DEL" => q[j].op = "DEL"

Endless(d, k) == k \in DOMAIN d /\ d[k].dl = Forever

(* The key a is not there, or ends by time t. *)
EndsBy(d, a, t) == a \in DOMAIN d => d[a].dl # Forever /\ d[a].dl <= t

(* A token that can be read has an authentication, which lasts as long as it. *)
Authenticated(d, a, b) ==
  a \in DOMAIN d => Endless(d, b) \/ (b \in DOMAIN d /\ d[a].dl # Forever /\ d[a].dl <= d[b].dl)

(* What is left of a pipeline, for a database that is to be left in this state *)
Paired(q, d, a, b, t) ==
  /\ Ordered(q, a, b)
  /\ Has(q, "SET", a) => Has(q, "SET", b)
  /\ Has(q, "EXPIRE", a) => Has(q, "SET", b) \/ Endless(d, b)
  /\ \A i \in DOMAIN q : q[i].op = "EXPIRE" /\ q[i].key = b =>
       Has(q, "EXPIRE", a) \/ (~Has(q, "SET", a) /\ EndsBy(d, a, t + q[i].arg * Second))
  /\ \A i \in DOMAIN q : q[i].op = "DEL" /\ q[i].key = b =>
       (\E j \in DOMAIN q : j < i /\ q[j].op = "DEL" /\ q[j].key = a) \/ a \notin DOMAIN d
  /\ Has(q, "SET", b) \/ Authenticated(d, a, b)

PairInv ==
  crashes = 0 =>
    \A w \in Workers : \A n \in Words : Paired(queue[w], db, Access(n), AuthOf(n), now)

(* What is left to send of a pipeline, and in the same order *)
LEMMA TailShift ==
  ASSUME NEW q \in Seq(Command), q # <<>>
  PROVE  /\ Head(q) = q[1] /\ 1 \in DOMAIN q /\ Tail(q) \in Seq(Command)
         /\ \A i \in DOMAIN Tail(q) : i \in Int /\ i >= 1 /\ i + 1 \in DOMAIN q /\ Tail(q)[i] = q[i + 1]
         /\ \A i \in DOMAIN q : /\ i \in Int /\ i >= 1
                                /\ i # 1 => i - 1 \in DOMAIN Tail(q) /\ Tail(q)[i - 1] = q[i]
<1>1. Tail(q) \in Seq(Command)
  BY TailGood
<1>2. \A i \in DOMAIN Tail(q) : i \in Int /\ i >= 1
  BY <1>1, LenProperties
<1>3. QED
  BY <1>1, <1>2, TailGood

(* The rest of a pipeline is in that order too. *)
LEMMA OrderedTail ==
  ASSUME NEW q \in Seq(Command), q # <<>>, NEW a, NEW b, Ordered(q, a, b)
  PROVE  Ordered(Tail(q), a, b)
<1> DEFINE r == Tail(q)
           T(c) == Touches(c, a) \/ Touches(c, b)
<1>1. \A i \in DOMAIN r : i \in Int /\ i + 1 \in DOMAIN q /\ r[i] = q[i + 1]
  BY TailShift
<1> HIDE DEF r
<1> SUFFICES ASSUME NEW i \in DOMAIN r, NEW j \in DOMAIN r, T(r[i]), T(r[j])
             PROVE  /\ r[i].op = "SET" /\ r[i].key = a => i <= j
                    /\ r[i].op = "EXPIRE" /\ r[i].key = b => j <= i
                    /\ r[i].op = "EXPIRE" /\ r[j].op = "SET" => j < i
                    /\ r[i].op = "EXPIRE" /\ r[j].op = "EXPIRE" => r[i].arg = r[j].arg
                    /\ r[i].op = "DEL" => r[j].op = "DEL"
  BY DEF Ordered, r
<1>2. /\ i \in Int /\ i + 1 \in DOMAIN q /\ r[i] = q[i + 1]
      /\ j \in Int /\ j + 1 \in DOMAIN q /\ r[j] = q[j + 1]
  BY <1>1
<1> DEFINE m == i + 1
           n == j + 1
<1>3. /\ q[m].op = "SET" /\ q[m].key = a => m <= n
      /\ q[m].op = "EXPIRE" /\ q[m].key = b => n <= m
      /\ q[m].op = "EXPIRE" /\ q[n].op = "SET" => n < m
      /\ q[m].op = "EXPIRE" /\ q[n].op = "EXPIRE" => q[m].arg = q[n].arg
      /\ q[m].op = "DEL" => q[n].op = "DEL"
  BY <1>2 DEF Ordered
<1>4. (m <= n <=> i <= j) /\ (n <= m <=> j <= i) /\ (n < m <=> j < i)
  BY <1>2
<1> HIDE DEF m, n
<1>5. q[m] = r[i] /\ q[n] = r[j]
  BY <1>2 DEF m, n
<1>6. QED
  BY <1>3, <1>4, <1>5

(* A command on neither key leaves the rest as it was. *)
LEMMA ElsewhereKeepsPair ==
  ASSUME NEW d, NEW t, NEW a, NEW b, NEW q \in Seq(Command), q # <<>>, Paired(q, d, a, b, t),
         ~Touches(Head(q), a), ~Touches(Head(q), b), NEW e,
         a \in DOMAIN e <=> a \in DOMAIN d, a \in DOMAIN d => e[a] = d[a],
         b \in DOMAIN e <=> b \in DOMAIN d, b \in DOMAIN d => e[b] = d[b]
  PROVE  Paired(Tail(q), e, a, b, t)
<1> DEFINE r == Tail(q)
           c == Head(q)
<1>1. /\ c = q[1]
      /\ \A i \in DOMAIN r : i \in Int /\ i >= 1 /\ i + 1 \in DOMAIN q /\ r[i] = q[i + 1]
      /\ \A i \in DOMAIN q : /\ i \in Int /\ i >= 1
                             /\ i # 1 => i - 1 \in DOMAIN r /\ r[i - 1] = q[i]
  BY TailShift
<1>2. \A op \in {"SET", "EXPIRE", "DEL"} : (Has(r, op, a) <=> Has(q, op, a)) /\ (Has(r, op, b) <=> Has(q, op, b))
  <2>1. \A op \in {"SET", "EXPIRE", "DEL"} : ~(c.op = op /\ c.key = a) /\ ~(c.op = op /\ c.key = b)
    BY DEF Touches
  <2>2. QED
    BY <2>1, HasAfter, HasBefore
<1>3. Ordered(r, a, b)
  BY OrderedTail DEF Paired
<1> HIDE DEF r, c
<1>4. Endless(e, b) <=> Endless(d, b)
  BY DEF Endless
<1>5. \A x : EndsBy(e, a, x) <=> EndsBy(d, a, x)
  BY DEF EndsBy
<1>6. Authenticated(e, a, b) <=> Authenticated(d, a, b)
  BY <1>4 DEF Authenticated
<1>7. ASSUME NEW i \in DOMAIN r, r[i].op = "EXPIRE", r[i].key = b
      PROVE  Has(r, "EXPIRE", a) \/ (~Has(r, "SET", a) /\ EndsBy(e, a, t + r[i].arg * Second))
  <2>1. Has(q, "EXPIRE", a) \/ (~Has(q, "SET", a) /\ EndsBy(d, a, t + q[i + 1].arg * Second))
    BY <1>1, <1>7 DEF Paired
  <2>2. QED
    BY <1>1, <1>2, <1>5, <2>1
<1>8. ASSUME NEW i \in DOMAIN r, r[i].op = "DEL", r[i].key = b
      PROVE  (\E j \in DOMAIN r : j < i /\ r[j].op = "DEL" /\ r[j].key = a) \/ a \notin DOMAIN e
  <2>1. (\E j \in DOMAIN q : j < i + 1 /\ q[j].op = "DEL" /\ q[j].key = a) \/ a \notin DOMAIN d
    BY <1>1, <1>8 DEF Paired
  <2>2. ASSUME NEW j \in DOMAIN q, j < i + 1, q[j].op = "DEL", q[j].key = a
        PROVE  \E m \in DOMAIN r : m < i /\ r[m].op = "DEL" /\ r[m].key = a
    <3>1. j # 1
      BY <1>1, <2>2 DEF Touches, c
    <3>2. j - 1 \in DOMAIN r /\ r[j - 1] = q[j] /\ j - 1 < i
      BY <1>1, <2>2, <3>1
    <3>3. QED
      BY <2>2, <3>2
  <2>3. QED
    BY <2>1, <2>2
<1>9. QED
  BY <1>2, <1>3, <1>4, <1>6, <1>7, <1>8 DEF Paired, r

(* A command on one of them *)
LEMMA HereKeepsPair ==
  ASSUME NEW d, NEW toks, Stored(d, toks), NEW t \in Int,
         \A k \in DOMAIN d : d[k].dl = Forever \/ d[k].dl > t,
         NEW a \in PlainKeys, NEW b \in PlainKeys, a # b,
         NEW q \in Seq(Command), q # <<>>, Paired(q, d, a, b, t),
         Touches(Head(q), a) \/ Touches(Head(q), b)
  PROVE  Paired(Tail(q), Apply(d, Head(q), t), a, b, t)
<1> DEFINE r == Tail(q)
           c == Head(q)
           e == Apply(d, c, t)
           T(x) == Touches(x, a) \/ Touches(x, b)
<1>1. /\ c = q[1] /\ 1 \in DOMAIN q /\ c \in Command
      /\ \A i \in DOMAIN r : i \in Int /\ i >= 1 /\ i + 1 \in DOMAIN q /\ r[i] = q[i + 1]
      /\ \A i \in DOMAIN q : /\ i \in Int /\ i >= 1
                             /\ i # 1 => i - 1 \in DOMAIN r /\ r[i - 1] = q[i]
  BY TailShift, TailGood
<1>2. \A op, k : /\ Has(r, op, k) => Has(q, op, k)
                 /\ Has(q, op, k) => Has(r, op, k) \/ (c.op = op /\ c.key = k)
  BY HasAfter, HasBefore
<1>3. Ordered(r, a, b)
  BY OrderedTail DEF Paired
<1>4. \A k : k # c.key => (k \in DOMAIN e <=> k \in DOMAIN d) /\ (k \in DOMAIN d => e[k] = d[k])
  BY <1>1, ApplyElsewhere
<1>5. ASSUME NEW i \in DOMAIN q, T(q[i])
      PROVE  /\ c.op = "DEL" => q[i].op = "DEL"
             /\ q[i].op = "DEL" => c.op = "DEL"
             /\ c.op = "EXPIRE" => q[i].op # "SET"
             /\ c.op = "EXPIRE" /\ c.key = b => i = 1
             /\ q[i].op = "SET" /\ q[i].key = a => i = 1
             /\ c.op = "EXPIRE" /\ q[i].op = "EXPIRE" => c.arg = q[i].arg
  <2>1. /\ q[1].op = "EXPIRE" /\ q[1].key = b => i <= 1
        /\ q[1].op = "EXPIRE" /\ q[i].op = "SET" => i < 1
        /\ q[1].op = "EXPIRE" /\ q[i].op = "EXPIRE" => q[1].arg = q[i].arg
        /\ q[1].op = "DEL" => q[i].op = "DEL"
        /\ q[i].op = "DEL" => q[1].op = "DEL"
        /\ q[i].op = "SET" /\ q[i].key = a => i <= 1
    BY <1>1, <1>5 DEF Paired, Ordered
  <2>2. QED
    BY <1>1, <2>1
<1>6. ASSUME NEW i \in DOMAIN r, T(r[i])
      PROVE  /\ c.op = "DEL" => r[i].op = "DEL"
             /\ r[i].op = "DEL" => c.op = "DEL"
             /\ c.op = "EXPIRE" => r[i].op # "SET" /\ c.key # b
             /\ ~(r[i].op = "SET" /\ r[i].key = a)
             /\ c.op = "EXPIRE" /\ r[i].op = "EXPIRE" => c.arg = r[i].arg
  <2>1. /\ i + 1 \in DOMAIN q /\ r[i] = q[i + 1] /\ i + 1 # 1
    BY <1>1
  <2>2. QED
    BY <1>5, <1>6, <2>1
<1>7. c.op \in {"SET", "EXPIRE", "DEL"} /\ c.key \in {a, b}
  BY DEF Touches
<1>8. ~Has(r, "SET", a)
  BY <1>6 DEF Has, Touches
<1> HIDE DEF r, c, e
<1>9. CASE c.op = "SET" /\ c.key = a
  <2>1. Has(q, "SET", b) /\ ~Has(r, "DEL", b)
    <3>1. Has(q, "SET", a)
      BY <1>1, <1>9 DEF Has
    <3>2. QED
      BY <1>6, <1>9, <3>1 DEF Paired, Has, Touches
  <2>2. Has(r, "SET", b)
    BY <1>2, <1>9, <2>1
  <2>3. Has(q, "SET", a)
    BY <1>1, <1>9 DEF Has
  <2>4. \A i \in DOMAIN r : r[i].op = "EXPIRE" /\ r[i].key = b => Has(r, "EXPIRE", a)
    BY <1>1, <1>2, <1>9, <2>3 DEF Paired
  <2>5. \A i \in DOMAIN r : ~(r[i].op = "DEL" /\ r[i].key = b)
    BY <2>1 DEF Has
  <2>6. QED
    BY <1>3, <1>8, <2>2, <2>4, <2>5 DEF Paired, r, c, e
<1>10. CASE c.op = "SET" /\ c.key = b
  <2>1. Endless(e, b)
    BY <1>1, <1>10, ApplyHere DEF Endless, e
  <2>2. \A x : EndsBy(e, a, x) <=> EndsBy(d, a, x)
    BY <1>4, <1>10 DEF EndsBy
  <2>3. ASSUME NEW i \in DOMAIN r, r[i].op = "EXPIRE", r[i].key = b
        PROVE  Has(r, "EXPIRE", a) \/ EndsBy(e, a, t + r[i].arg * Second)
    <3>1. Has(q, "EXPIRE", a) \/ EndsBy(d, a, t + q[i + 1].arg * Second)
      BY <1>1, <2>3 DEF Paired
    <3>2. QED
      BY <1>1, <1>2, <1>10, <2>2, <3>1
  <2>4. \A i \in DOMAIN r : ~(r[i].op = "DEL" /\ r[i].key = b)
    BY <1>6, <1>10 DEF Touches
  <2>5. Authenticated(e, a, b)
    BY <2>1 DEF Authenticated
  <2>6. QED
    BY <1>3, <1>8, <2>1, <2>3, <2>4, <2>5 DEF Paired, r, c, e
<1>11. CASE c.op = "EXPIRE" /\ c.key = a
  <2>1. ~Has(q, "SET", b) /\ Has(q, "EXPIRE", a)
    BY <1>1, <1>5, <1>11 DEF Has, Touches
  <2>2. Endless(d, b)
    BY <2>1 DEF Paired
  <2>3. Endless(e, b)
    BY <1>4, <1>11, <2>2 DEF Endless
  <2>4. ASSUME NEW i \in DOMAIN r, r[i].op = "EXPIRE", r[i].key = b
        PROVE  EndsBy(e, a, t + r[i].arg * Second)
    <3>1. r[i].arg = c.arg
      BY <1>6, <1>11, <2>4 DEF Touches
    <3>2. a \in DOMAIN e => e[a].dl = t + c.arg * Second
      BY <1>1, <1>11, ExpireHere DEF e
    <3>3. t + c.arg * Second \in Int /\ Forever \notin Int
      <4>1. c.arg \in Int /\ Second \in Int
        BY <1>1, <1>11, CommandParts, TokenAssumption
      <4>2. c.arg * Second \in Int
        BY <4>1
      <4>3. QED
        BY <4>2, TokenAssumption
    <3>4. QED
      BY <3>1, <3>2, <3>3 DEF EndsBy
  <2>5. \A i \in DOMAIN r : ~(r[i].op = "DEL" /\ r[i].key = b)
    BY <1>6, <1>11 DEF Touches
  <2>6. Authenticated(e, a, b)
    BY <2>3 DEF Authenticated
  <2>7. QED
    BY <1>3, <1>8, <2>3, <2>4, <2>5, <2>6 DEF Paired, r, c, e
<1>12. CASE c.op = "EXPIRE" /\ c.key = b
  <2>1. \A i \in DOMAIN r : ~T(r[i])
    BY <1>6, <1>12
  <2>2. \A op \in {"SET", "EXPIRE", "DEL"} : ~Has(r, op, a) /\ ~Has(r, op, b)
    BY <2>1 DEF Has, Touches
  <2>3. ~Has(q, "EXPIRE", a) /\ ~Has(q, "SET", b)
    BY <1>2, <1>12, <2>2
  <2>4. EndsBy(d, a, t + c.arg * Second) /\ Authenticated(d, a, b)
    BY <1>1, <1>12, <2>3 DEF Paired
  <2>5. Authenticated(e, a, b)
    <3>1. SUFFICES ASSUME a \in DOMAIN e
                   PROVE  b \in DOMAIN e /\ e[a].dl # Forever /\ e[a].dl <= e[b].dl
      BY DEF Authenticated
    <3>2. a \in DOMAIN d /\ e[a] = d[a]
      BY <1>4, <1>12, <3>1
    <3>3. d[a].dl # Forever /\ d[a].dl <= t + c.arg * Second /\ b \in DOMAIN d
      BY <2>4, <3>2 DEF EndsBy, Authenticated, Endless
    <3>4. d[a].dl \in Int /\ d[a].dl > t
      BY <3>2, <3>3 DEF Stored, Entry
    <3>5. c.arg \in Int /\ c.arg * Second \in Int
      <4>1. c.arg \in Int /\ Second \in Int
        BY <1>1, <1>12, CommandParts, TokenAssumption
      <4>2. QED
        BY <4>1
    <3>6. c.arg > 0
      BY <3>3, <3>4, <3>5, SecondsLeft
    <3>7. b \in DOMAIN e /\ e[b].dl = t + c.arg * Second
      BY <1>1, <1>12, <3>3, <3>6, ExpireHere DEF e
    <3>8. QED
      BY <3>2, <3>3, <3>7
  <2>6. QED
    BY <1>3, <2>2, <2>5 DEF Paired, Has, r, c, e
<1>13. CASE c.op = "DEL"
  <2>1. a \notin DOMAIN e
    <3>1. CASE c.key = a
      BY <1>1, <1>13, <3>1, ApplyHere DEF e
    <3>2. CASE c.key = b
      <4>1. ~\E j \in DOMAIN q : j < 1
        BY <1>1
      <4>2. a \notin DOMAIN d
        BY <1>1, <1>13, <3>2, <4>1 DEF Paired
      <4>3. QED
        BY <1>4, <3>2, <4>2
    <3>3. QED
      BY <1>7, <3>1, <3>2
  <2>2. \A op \in {"SET", "EXPIRE"} : ~Has(r, op, a) /\ ~Has(r, op, b)
    BY <1>6, <1>13 DEF Has, Touches
  <2>3. Authenticated(e, a, b)
    BY <2>1 DEF Authenticated
  <2>4. QED
    BY <1>3, <2>1, <2>2, <2>3 DEF Paired, Has, r, c, e
<1>14. QED
  BY <1>7, <1>9, <1>10, <1>11, <1>12, <1>13

(* A tick takes away neither the one nor the other too early. *)
LEMMA TickKeepsPair ==
  ASSUME NEW d, NEW toks, Stored(d, toks), NEW t \in Int, NEW a \in PlainKeys, NEW b \in PlainKeys,
         NEW q \in Seq(Command), Paired(q, d, a, b, t)
  PROVE  Paired(q, Alive(d, t + 1), a, b, t + 1)
<1> DEFINE e == Alive(d, t + 1)
<1>1. \A k : /\ k \in DOMAIN e <=> k \in DOMAIN d /\ (d[k].dl = Forever \/ d[k].dl > t + 1)
             /\ k \in DOMAIN e => e[k] = d[k]
  BY DEF Alive
<1>2. \A k \in DOMAIN d : d[k].dl \in Int \cup {Forever}
  BY DEF Stored, Entry
<1> HIDE DEF e
<1>3. Endless(d, b) => Endless(e, b)
  BY <1>1 DEF Endless
<1>4. ASSUME NEW i \in DOMAIN q, q[i].op = "EXPIRE", EndsBy(d, a, t + q[i].arg * Second)
      PROVE  EndsBy(e, a, t + 1 + q[i].arg * Second)
  <2>1. q[i].arg \in Int /\ Second \in Int
    BY <1>4, CommandParts, TokenAssumption
  <2>2. q[i].arg * Second \in Int
    BY <2>1
  <2>3. a \in DOMAIN e => /\ a \in DOMAIN d /\ e[a] = d[a] /\ d[a].dl \in Int
                          /\ d[a].dl <= t + q[i].arg * Second /\ d[a].dl # Forever
    BY <1>1, <1>2, <1>4 DEF EndsBy
  <2>4. QED
    BY <2>2, <2>3 DEF EndsBy
<1>5. Authenticated(d, a, b) => Authenticated(e, a, b)
  <2> SUFFICES ASSUME Authenticated(d, a, b), a \in DOMAIN e, ~Endless(e, b)
               PROVE  b \in DOMAIN e /\ e[a].dl # Forever /\ e[a].dl <= e[b].dl
    BY DEF Authenticated
  <2>1. a \in DOMAIN d /\ e[a] = d[a] /\ (d[a].dl = Forever \/ d[a].dl > t + 1)
    BY <1>1
  <2>2. b \in DOMAIN d /\ d[a].dl # Forever /\ d[a].dl <= d[b].dl
    BY <1>3, <2>1 DEF Authenticated
  <2>3. d[b].dl = Forever \/ d[b].dl > t + 1
    BY <1>2, <2>1, <2>2
  <2>4. QED
    BY <1>1, <2>1, <2>2, <2>3
<1>6. QED
  BY <1>1, <1>3, <1>4, <1>5 DEF Paired, e

(* The pipelines keep the two together: those that read, *)
LEMMA ReadingPairs ==
  ASSUME NEW q, Reading(q), NEW d, NEW n, Authenticated(d, Access(n), AuthOf(n)), NEW t
  PROVE  Paired(q, d, Access(n), AuthOf(n), t)
<1>1. \A i \in DOMAIN q : q[i].op # "SET" /\ q[i].op # "EXPIRE" /\ ~(q[i].op = "DEL" /\ q[i].key = AuthOf(n))
  BY DEF Reading, AuthOf
<1>2. QED
  BY <1>1 DEF Paired, Ordered, Has, Touches

(* those that take a token out, *)
LEMMA TakingPairs ==
  ASSUME NEW q, NEW m, Taking(q, m), NEW d, NEW n, Authenticated(d, Access(n), AuthOf(n)), NEW t
  PROVE  Paired(q, d, Access(n), AuthOf(n), t)
<1>1. PICK o \in Nat : TakingAfter(q, m, o)
  BY DEF Taking
<1>2. \A i \in DOMAIN q : q[i].op \in {"GET", "DEL"}
  BY <1>1 DEF TakingAfter, Get, Delete
<1>3. ASSUME NEW i \in DOMAIN q, q[i].op = "DEL", q[i].key = AuthOf(n)
      PROVE  \E j \in DOMAIN q : j < i /\ q[j].op = "DEL" /\ q[j].key = Access(n)
  <2>1. AuthOf(n)[1] = "auth"
    BY DEF AuthOf
  <2>2. i \in {o + 1, o + 2, o + 3, o + 5}
    BY <1>1, <1>3, <2>1 DEF TakingAfter, TokenKeys
  <2>3. q[o + 1].op = "GET" /\ q[o + 2].op = "GET" /\ q[o + 3].key[1] = "access"
    BY <1>1 DEF TakingAfter, Get, Delete, Access
  <2>4. i = o + 5
    BY <1>3, <2>1, <2>2, <2>3
  <2>5. AuthOf(m) = AuthOf(n)
    BY <1>1, <1>3, <2>4 DEF TakingAfter, Delete
  <2>6. m = n
    BY <2>5 DEF AuthOf
  <2>7. o + 3 \in DOMAIN q /\ q[o + 3].op = "DEL" /\ q[o + 3].key = Access(n)
    BY <1>1, <2>6 DEF TakingAfter, Delete
  <2>8. QED
    BY <2>4, <2>7
<1>4. QED
  BY <1>2, <1>3 DEF Paired, Ordered, Has, Touches

(* and those that store one. *)
LEMMA StoringPairs ==
  ASSUME NEW q, NEW m, NEW u, NEW s, Storing(q, m, u, s),
         NEW d, NEW n, Authenticated(d, Access(n), AuthOf(n)), NEW t
  PROVE  Paired(q, d, Access(n), AuthOf(n), t)
<1> DEFINE a == Access(n)
           b == AuthOf(n)
<1>1. /\ {1, 2, 3, 6, 7, 8} \subseteq DOMAIN q
      /\ q[1].op = "SET" /\ q[1].key = Access(m) /\ q[2].op = "SET" /\ q[2].key = AuthOf(m)
      /\ q[3].key = AuthToAccess(u) /\ q[8].key = AuthToAccess(u)
      /\ q[6].op = "EXPIRE" /\ q[6].key = Access(m) /\ q[6].arg = s
      /\ q[7].op = "EXPIRE" /\ q[7].key = AuthOf(m) /\ q[7].arg = s
  BY DEF Storing, Write, Live
<1>2. \A i \in DOMAIN q : q[i].op # "DEL"
  BY DEF Storing
<1>3. /\ a[1] = "access" /\ b[1] = "auth" /\ AuthToAccess(u)[1] = "auth_to_access"
      /\ Access(m) = a <=> m = n
      /\ AuthOf(m) = b <=> m = n
      /\ Access(m)[1] = "access" /\ AuthOf(m)[1] = "auth"
  BY DEF Access, AuthOf, AuthToAccess
<1> HIDE DEF a, b
<1>4. ASSUME NEW i \in DOMAIN q, q[i].key \in {a, b}
      PROVE  m = n /\ i \in {1, 2, 6, 7}
  <2>1. q[i].key[1] \in TokenKeys
    BY <1>3, <1>4 DEF TokenKeys
  <2>2. i \in {1, 2, 3, 6, 7, 8}
    BY <2>1 DEF Storing
  <2>3. i # 3 /\ i # 8
    BY <1>1, <1>3, <1>4
  <2>4. QED
    BY <1>1, <1>3, <1>4, <2>2, <2>3
<1>5. CASE m # n
  BY <1>4, <1>5 DEF Paired, Ordered, Has, Touches, a, b
<1>6. CASE m = n
  <2>1. /\ q[1].op = "SET" /\ q[1].key = a /\ q[2].op = "SET" /\ q[2].key = b
        /\ q[6].op = "EXPIRE" /\ q[6].key = a /\ q[6].arg = s
        /\ q[7].op = "EXPIRE" /\ q[7].key = b /\ q[7].arg = s /\ a # b
    BY <1>1, <1>3, <1>6
  <2>2. Ordered(q, a, b)
    <3> SUFFICES ASSUME NEW i \in {1, 2, 6, 7}, NEW j \in {1, 2, 6, 7}
                 PROVE  /\ q[i].op = "SET" /\ q[i].key = a => i <= j
                        /\ q[i].op = "EXPIRE" /\ q[i].key = b => j <= i
                        /\ q[i].op = "EXPIRE" /\ q[j].op = "SET" => j < i
                        /\ q[i].op = "EXPIRE" /\ q[j].op = "EXPIRE" => q[i].arg = q[j].arg
                        /\ q[i].op # "DEL"
      BY <1>4 DEF Ordered, Touches
    <3>1. QED
      BY <2>1
  <2>3. Has(q, "SET", b) /\ Has(q, "EXPIRE", a)
    BY <1>1, <2>1 DEF Has
  <2>4. QED
    BY <1>2, <2>2, <2>3 DEF Paired, a, b
<1>7. QED
  BY <1>5, <1>6

(* A token and its authentication stay together through every step of a lone worker. *)
LEMMA StepsKeepPairs ==
  ASSUME NEW w0, Workers = {w0}, Inv, LifeInv, PairInv, [Next]_vars
  PROVE  PairInv'
<1>1. ASSUME Exec(w0) PROVE PairInv'
  <2>1. SUFFICES ASSUME crashes = 0, NEW n \in Words
                 PROVE  Paired(queue'[w0], db', Access(n), AuthOf(n), now')
    BY <1>1, Obeyed DEF PairInv
  <2> DEFINE q == queue[w0]
             a == Access(n)
             b == AuthOf(n)
  <2>2. /\ q \in Seq(Command) /\ q # <<>> /\ Head(q) \in Command /\ queue'[w0] = Tail(q)
        /\ db' = Apply(db, Head(q), now) /\ now' = now
    BY <1>1, Obeyed
  <2>3. Paired(q, db, a, b, now)
    BY <2>1 DEF PairInv
  <2>4. a \in PlainKeys /\ b \in PlainKeys /\ a # b
    <3>1. a \in PlainKeys /\ b \in PlainKeys
      BY KeysTyped
    <3>2. QED
      BY <3>1 DEF Access, AuthOf
  <2>5. /\ Stored(db, tokens) /\ now \in Int
        /\ \A k \in DOMAIN db : db[k].dl = Forever \/ db[k].dl > now
    BY DEF Inv, Typed, LifeInv
  <2> HIDE DEF q, a, b
  <2>6. CASE Touches(Head(q), a) \/ Touches(Head(q), b)
    <3>1. Paired(Tail(q), Apply(db, Head(q), now), a, b, now)
      BY <2>2, <2>3, <2>4, <2>5, <2>6, HereKeepsPair
    <3>2. QED
      BY <2>2, <3>1 DEF a, b
  <2>7. CASE ~Touches(Head(q), a) /\ ~Touches(Head(q), b)
    <3>1. \A k \in {a, b} : Head(q).key # k \/ Head(q).op = "GET"
      <4>1. \A k \in {a, b} : Head(q).key = k => Head(q).op \in {"GET", "SET", "DEL", "EXPIRE"}
        BY <2>2, <2>4, ApplyHere
      <4>2. QED
        BY <2>7, <4>1 DEF Touches
    <3>2. \A k \in {a, b} : /\ k \in DOMAIN db' <=> k \in DOMAIN db
                            /\ k \in DOMAIN db => db'[k] = db[k]
      BY <2>2, <3>1, ApplyElsewhere
    <3>3. Paired(Tail(q), db', a, b, now)
      BY <2>2, <2>3, <2>7, <3>2, ElsewhereKeepsPair
    <3>4. QED
      BY <2>2, <3>3 DEF a, b
  <2>8. QED
    BY <2>6, <2>7
<1>2. ASSUME Tick PROVE PairInv'
  <2>1. UNCHANGED <<tokens, job, queue, crashes>> /\ now' = now + 1 /\ db' = Alive(db, now + 1)
    BY <1>2 DEF Tick
  <2>2. SUFFICES ASSUME crashes = 0, NEW n \in Words
                 PROVE  Paired(queue[w0], Alive(db, now + 1), Access(n), AuthOf(n), now + 1)
    BY <2>1 DEF PairInv
  <2>3. Paired(queue[w0], db, Access(n), AuthOf(n), now)
    BY <2>2 DEF PairInv
  <2>4. Access(n) \in PlainKeys /\ AuthOf(n) \in PlainKeys
    BY KeysTyped
  <2>5. Stored(db, tokens) /\ now \in Int /\ queue[w0] \in Seq(Command)
    BY DEF Inv, Typed
  <2>6. QED
    BY <2>3, <2>4, <2>5, TickKeepsPair
<1>3. ASSUME Sending(w0) PROVE PairInv'
  <2>1. SUFFICES ASSUME crashes' = 0, NEW n \in Words
                 PROVE  Paired(queue'[w0], db', Access(n), AuthOf(n), now')
    BY DEF PairInv
  <2>2. crashes = 0 /\ crashes' = crashes
    BY <1>3, <2>1 DEF Inv, Typed, Sending
  <2>3. /\ queue[w0] = <<>> /\ db' = db /\ now' = now
        /\ Moves(job[w0], got[w0], job'[w0], queue'[w0])
    BY <1>3, <2>2, SentAlone
  <2>4. Authenticated(db, Access(n), AuthOf(n))
    <3>1. Paired(queue[w0], db, Access(n), AuthOf(n), now)
      BY <2>2 DEF PairInv
    <3>2. ~Has(queue[w0], "SET", AuthOf(n))
      BY <2>3 DEF Has
    <3>3. QED
      BY <3>1, <3>2 DEF Paired
  <2>5. \/ Reading(queue'[w0])
        \/ \E m, u, s : Storing(queue'[w0], m, u, s)
        \/ \E m : Taking(queue'[w0], m)
    BY <2>3 DEF Moves
  <2>6. QED
    BY <2>3, <2>4, <2>5, ReadingPairs, StoringPairs, TakingPairs
<1>4. ASSUME UNCHANGED vars PROVE PairInv'
  BY <1>4 DEF vars, PairInv
<1>5. QED
  BY <1>1, <1>2, <1>3, <1>4, Steps

(* So a token and its authentication stay paired. *)
LEMMA PairInvariance == ASSUME NEW w0, Workers = {w0} PROVE Spec => [](Inv /\ PairInv)
<1>1. Init => PairInv
  BY DEF Init, PairInv, Paired, Ordered, Has, Authenticated, Empty
<1>2. Inv /\ LifeInv /\ PairInv /\ [Next]_vars => PairInv'
  BY StepsKeepPairs
<1>3. QED
  BY <1>1, <1>2, LifeInvariance, PTL DEF Spec

(* Where requests are served one at a time and none has died, a token that can *)
(* be read between two requests has its authentication: it is stored and given *)
(* its end first (lines 153-163), and is taken out first (line 230).           *)
THEOREM AloneReadsAreAuthenticated ==
  ASSUME NEW w0, Workers = {w0} PROVE Spec => []ReadableIsAuthenticated
<1>1. Inv /\ PairInv => ReadableIsAuthenticated
  <2> SUFFICES ASSUME Inv, PairInv, NoRequests, crashes = 0, NEW n \in Issued, Exists(Access(n))
               PROVE  Exists(AuthOf(n))
    BY DEF ReadableIsAuthenticated
  <2>1. queue[w0] = <<>>
    BY DEF NoRequests, Inv, Knows
  <2>2. n \in Words
    BY LenProperties DEF Inv, Typed, Issued, Words
  <2>3. Paired(queue[w0], db, Access(n), AuthOf(n), now)
    BY <2>2 DEF PairInv
  <2>4. ~Has(queue[w0], "SET", AuthOf(n))
    BY <2>1 DEF Has
  <2>5. QED
    BY <2>3, <2>4 DEF Paired, Authenticated, Endless, Exists
<1>2. QED
  BY <1>1, PairInvariance, PTL

-----------------------------------------------------------------------------
(* One request at a time, and none dies: a token that was replaced stays gone *)

(* No user's name is a token, nor is the answer to a GET of a missing key. *)
NamesApart == Users \cap Nat = {} /\ Nil \notin Nat

(* The pipeline gives the key no second to live. *)
Spent(q, a) == \E i \in DOMAIN q : q[i].op = "EXPIRE" /\ q[i].key = a /\ q[i].arg <= 0

(* A token with an authentication, and more than its last second to live, can be read: *)
(* what is taken out is first read, and loses its authentication last.                 *)
Linked(q, d, a, b, end, t) ==
  /\ \A i, l \in DOMAIN q :
       q[i].op = "GET" /\ q[i].key = b /\ q[l].op = "DEL" /\ q[l].key = a => i < l
  /\ \A i \in DOMAIN q : q[i].op = "DEL" /\ q[i].key = a =>
       \E l \in DOMAIN q : i < l /\ q[l].op = "DEL" /\ q[l].key = b
  /\ \/ Short(end, t)
     \/ /\ \A i \in DOMAIN q : q[i].op = "EXPIRE" /\ q[i].key = a => Lengthy(q[i], end, t)
        /\ b \in DOMAIN d \/ Has(q, "SET", b) =>
             Has(q, "SET", a) \/ Long(d, a, end) \/ (Has(q, "DEL", b) /\ ~Has(q, "GET", b))

(* A token that was replaced is stored again for no time only. *)
Removed(q, d, a) == a \in DOMAIN d \/ Has(q, "SET", a) => Spent(q, a)

(* The tokens that were replaced with more than their last second left *)
Lively == {n \in replaced : ~Short(tokens[n].exp, now)}

(* A login of the user does not find one of them. *)
Passed(j, q, d, u, old) ==
  LET p == AuthToAccess(u) IN
  /\ p \in DOMAIN d /\ d[p].val \in old =>
       Has(q, "DEL", p) \/ Has(q, "SET", p) \/ (j.stage = "mint" /\ j.user = u)
  /\ \A i \in DOMAIN q : q[i].op = "SET" /\ q[i].key = p => q[i].arg \notin old

(* Nor does it go on with one. *)
Chooses(j, g, old) ==
  /\ j.stage = "found" /\ g # <<>> => g[1] \notin old
  /\ j.stage \in {"verify", "existing"} => j.tok \notin old

(* A token that is taken out can not be read any more.  Its authentication without *)
(* the token itself is found in its last second only.                              *)
TakesOut(j, q, g, d, end, t) ==
  LET a == Access(j.tok) IN
  j.stage = "taken" /\ j.op # "check" =>
    /\ \A i \in DOMAIN q : q[i].op # "SET"
    /\ Has(q, "DEL", a) \/ a \notin DOMAIN d
    /\ Len(g) = 1 /\ g[1] = Nil => a \notin DOMAIN d
    /\ Len(g) > 1 /\ g[1] = Nil /\ g[2] # Nil => Short(end, t)

ReplInv ==
  crashes = 0 =>
    \A w \in Workers :
      /\ \A n \in DOMAIN tokens : Linked(queue[w], db, Access(n), AuthOf(n), tokens[n].exp, now)
      /\ \A n \in replaced : Removed(queue[w], db, Access(n))
      /\ \A u \in Users : Passed(job[w], queue[w], db, u, Lively)
      /\ Chooses(job[w], got[w], Lively)
      /\ TakesOut(job[w], queue[w], got[w], db, tokens[job[w].tok].exp, now)

(* A command of a pipeline *)
LEMMA ExecLinks ==
  ASSUME NEW d, NEW toks, Stored(d, toks), NEW t \in Int, NEW end \in Int,
         NEW a \in PlainKeys, NEW b \in PlainKeys, a # b,
         NEW q \in Seq(Command), q # <<>>, Ordered(q, a, b), Linked(q, d, a, b, end, t)
  PROVE  Linked(Tail(q), Apply(d, Head(q), t), a, b, end, t)
<1> DEFINE r == Tail(q)
           c == Head(q)
           e == Apply(d, c, t)
<1>1. /\ c = q[1] /\ 1 \in DOMAIN q /\ c \in Command
      /\ \A i \in DOMAIN r : i \in Int /\ i >= 1 /\ i + 1 \in DOMAIN q /\ r[i] = q[i + 1]
      /\ \A i \in DOMAIN q : /\ i \in Int /\ i >= 1
                             /\ i # 1 => i - 1 \in DOMAIN r /\ r[i - 1] = q[i]
  BY TailShift, TailGood
<1>2. \A op, k : /\ Has(r, op, k) => Has(q, op, k)
                 /\ Has(q, op, k) => Has(r, op, k) \/ (c.op = op /\ c.key = k)
  BY HasAfter, HasBefore
<1>3. \A k : k # c.key \/ c.op = "GET" =>
                (k \in DOMAIN e <=> k \in DOMAIN d) /\ (k \in DOMAIN d => e[k] = d[k])
  BY <1>1, ApplyElsewhere
<1> HIDE DEF r, c, e
<1>4. ASSUME NEW i \in DOMAIN r, NEW l \in DOMAIN r,
             r[i].op = "GET", r[i].key = b, r[l].op = "DEL", r[l].key = a
      PROVE  i < l
  <2>1. i + 1 < l + 1
    BY <1>1, <1>4 DEF Linked
  <2>2. QED
    BY <1>1, <2>1
<1>5. ASSUME NEW i \in DOMAIN r, r[i].op = "DEL", r[i].key = a
      PROVE  \E l \in DOMAIN r : i < l /\ r[l].op = "DEL" /\ r[l].key = b
  <2>1. PICK l \in DOMAIN q : i + 1 < l /\ q[l].op = "DEL" /\ q[l].key = b
    BY <1>1, <1>5 DEF Linked
  <2>2. l - 1 \in DOMAIN r /\ r[l - 1] = q[l] /\ i < l - 1
    BY <1>1, <2>1
  <2>3. QED
    BY <2>1, <2>2
<1>6. ASSUME NEW i \in DOMAIN r, ~Short(end, t), r[i].op = "EXPIRE", r[i].key = a
      PROVE  Lengthy(r[i], end, t)
  BY <1>1, <1>6 DEF Linked
<1>7. ASSUME ~Short(end, t), b \in DOMAIN e \/ Has(r, "SET", b)
      PROVE  Has(r, "SET", a) \/ Long(e, a, end) \/ (Has(r, "DEL", b) /\ ~Has(r, "GET", b))
  <2> DEFINE Held == Has(q, "SET", a) \/ Long(d, a, end) \/ (Has(q, "DEL", b) /\ ~Has(q, "GET", b))
  <2>1. b \in DOMAIN d \/ Has(q, "SET", b) => Held
    BY <1>7 DEF Linked
  <2>2. a # c.key \/ c.op = "GET" => (Long(e, a, end) <=> Long(d, a, end))
    BY <1>3 DEF Long
  <2>3. CASE c.op = "GET" \/ c.key \notin {a, b}
    <3>1. Held
      BY <1>2, <1>3, <1>7, <2>1, <2>3
    <3>2. QED
      BY <1>2, <2>2, <2>3, <3>1
  <2>4. CASE c.op = "SET" /\ c.key = a
    BY <1>1, <2>4, ApplyHere DEF e, Long
  <2>5. CASE c.op = "SET" /\ c.key = b
    <3>1. Has(q, "SET", b)
      BY <1>1, <2>5 DEF Has
    <3>2. QED
      BY <1>2, <2>1, <2>2, <2>5, <3>1
  <2>6. CASE c.op = "EXPIRE" /\ c.key = a
    <3>1. Held
      BY <1>2, <1>3, <1>7, <2>1, <2>6
    <3>2. ASSUME Long(d, a, end) PROVE Long(e, a, end)
      <4>1. c.arg \in Int /\ Second \in Nat /\ t + c.arg * Second > end - Second
        <5>1. Lengthy(c, end, t)
          BY <1>1, <1>7, <2>6 DEF Linked
        <5>2. QED
          BY <1>1, <2>6, <5>1, CommandParts, TokenAssumption DEF Lengthy
      <4>2. c.arg * Second \in Int
        BY <4>1
      <4>3. c.arg * Second > 0
        BY <1>7, <4>1, <4>2 DEF Short
      <4>4. c.arg > 0
        BY <4>1, <4>3, SecondsLeft
      <4>5. a \in DOMAIN e /\ e[a].dl = t + c.arg * Second
        BY <1>1, <2>6, <3>2, <4>4, ExpireHere DEF e, Long
      <4>6. QED
        BY <4>1, <4>5 DEF Long
    <3>3. QED
      BY <1>2, <2>6, <3>1, <3>2
  <2>7. CASE c.op = "EXPIRE" /\ c.key = b
    <3>1. b \in DOMAIN e => b \in DOMAIN d
      BY <1>1, <2>7, ExpireHere DEF e
    <3>2. Held
      BY <1>2, <1>7, <2>1, <3>1
    <3>3. QED
      BY <1>2, <2>2, <2>7, <3>2
  <2>8. CASE c.op = "DEL" /\ c.key = a
    <3>1. PICK l \in DOMAIN q : 1 < l /\ q[l].op = "DEL" /\ q[l].key = b
      BY <1>1, <2>8 DEF Linked
    <3>2. Has(r, "DEL", b)
      <4>1. l # 1
        BY <3>1
      <4>2. l - 1 \in DOMAIN r /\ r[l - 1] = q[l]
        BY <1>1, <4>1
      <4>3. QED
        BY <3>1, <4>2 DEF Has
    <3>3. ASSUME NEW i \in DOMAIN r, r[i].op = "GET", r[i].key = b PROVE FALSE
      <4>1. i + 1 < 1
        BY <1>1, <2>8, <3>3 DEF Linked
      <4>2. QED
        BY <1>1, <4>1
    <3>4. QED
      BY <3>2, <3>3 DEF Has
  <2>9. CASE c.op = "DEL" /\ c.key = b
    <3>1. b \notin DOMAIN e
      BY <1>1, <2>9, ApplyHere DEF e
    <3>2. Has(q, "SET", b)
      BY <1>2, <1>7, <3>1
    <3>3. PICK i \in DOMAIN q : q[i].op = "SET" /\ q[i].key = b
      BY <3>2 DEF Has
    <3>4. FALSE
      BY <1>1, <2>9, <3>3 DEF Ordered, Touches
    <3>5. QED
      BY <3>4
  <2>10. c.key \in {a, b} => c.op \in {"GET", "SET", "DEL", "EXPIRE"}
    BY <1>1, ApplyHere
  <2>11. QED
    BY <2>3, <2>4, <2>5, <2>6, <2>7, <2>8, <2>9, <2>10
<1>8. QED
  BY <1>4, <1>5, <1>6, <1>7 DEF Linked, r, c, e

(* and a tick *)
LEMMA TickLinks ==
  ASSUME NEW d, NEW toks, Stored(d, toks), NEW t \in Int, NEW end \in Int, NEW a \in PlainKeys, NEW b,
         NEW q \in Seq(Command), Linked(q, d, a, b, end, t)
  PROVE  Linked(q, Alive(d, t + 1), a, b, end, t + 1)
<1> DEFINE e == Alive(d, t + 1)
<1>1. SUFFICES ASSUME ~Short(end, t + 1)
               PROVE  /\ \A i \in DOMAIN q : q[i].op = "EXPIRE" /\ q[i].key = a => Lengthy(q[i], end, t + 1)
                      /\ b \in DOMAIN e \/ Has(q, "SET", b) =>
                           Has(q, "SET", a) \/ Long(e, a, end) \/ (Has(q, "DEL", b) /\ ~Has(q, "GET", b))
  BY DEF Linked
<1>2. Second \in Nat /\ ~Short(end, t) /\ end - (t + 1) >= Second
  BY <1>1, TokenAssumption DEF Short
<1>3. ASSUME NEW i \in DOMAIN q, q[i].op = "EXPIRE", q[i].key = a PROVE Lengthy(q[i], end, t + 1)
  <2>1. q[i].arg \in Int
    BY <1>3, CommandParts
  <2>2. q[i].arg * Second \in Int
    BY <1>2, <2>1
  <2>3. Lengthy(q[i], end, t)
    BY <1>2, <1>3 DEF Linked
  <2>4. QED
    BY <1>2, <2>2, <2>3 DEF Lengthy
<1>4. b \in DOMAIN e => b \in DOMAIN d
  BY DEF Alive
<1>5. ASSUME Long(d, a, end) PROVE Long(e, a, end)
  <2>1. a \in DOMAIN d /\ d[a].dl \in Int \cup {Forever}
    BY <1>5 DEF Long, Stored, Entry
  <2>2. d[a].dl = Forever \/ d[a].dl > t + 1
    BY <1>2, <1>5, <2>1 DEF Long
  <2>3. QED
    BY <1>5, <2>1, <2>2 DEF Alive, Long
<1> HIDE DEF e
<1>6. QED
  BY <1>2, <1>3, <1>4, <1>5 DEF Linked

(* What takes part of the replaced tokens *)
LEMMA ExecRemoves ==
  ASSUME NEW d, NEW toks, Stored(d, toks), NEW t, NEW a \in PlainKeys, NEW b,
         NEW q \in Seq(Command), q # <<>>, Ordered(q, a, b), Removed(q, d, a)
  PROVE  Removed(Tail(q), Apply(d, Head(q), t), a)
<1> DEFINE r == Tail(q)
           c == Head(q)
           e == Apply(d, c, t)
<1>1. /\ c = q[1] /\ 1 \in DOMAIN q /\ c \in Command
      /\ \A i \in DOMAIN q : /\ i \in Int /\ i >= 1
                             /\ i # 1 => i - 1 \in DOMAIN r /\ r[i - 1] = q[i]
  BY TailShift, TailGood
<1>2. Has(r, "SET", a) => Has(q, "SET", a)
  BY HasBefore
<1>3. a \in DOMAIN e => a \in DOMAIN d \/ (c.op = "SET" /\ c.key = a)
  <2>1. CASE c.key # a \/ c.op = "GET"
    BY <1>1, <2>1, ApplyElsewhere
  <2>2. CASE c.key = a /\ c.op = "DEL"
    BY <1>1, <2>2, ApplyHere
  <2>3. CASE c.key = a /\ c.op = "EXPIRE"
    BY <1>1, <2>3, ExpireHere
  <2>4. c.key = a => c.op \in {"GET", "SET", "DEL", "EXPIRE"}
    BY <1>1, ApplyHere
  <2>5. QED
    BY <2>1, <2>2, <2>3, <2>4
<1>4. c.op = "SET" /\ c.key = a => Has(q, "SET", a)
  BY <1>1 DEF Has
<1>5. SUFFICES ASSUME a \in DOMAIN e \/ Has(r, "SET", a) PROVE Spent(r, a)
  BY DEF Removed
<1>6. PICK i \in DOMAIN q : q[i].op = "EXPIRE" /\ q[i].key = a /\ q[i].arg <= 0
  BY <1>2, <1>3, <1>4, <1>5 DEF Removed, Spent
<1>7. CASE i # 1
  BY <1>1, <1>6, <1>7 DEF Spent
<1>8. CASE i = 1
  <2>1. c.op = "EXPIRE" /\ c.key = a /\ c.arg <= 0
    BY <1>1, <1>6, <1>8
  <2>2. a \notin DOMAIN e
    BY <1>1, <2>1, ExpireHere
  <2>3. PICK l \in DOMAIN q : q[l].op = "SET" /\ q[l].key = a
    BY <1>2, <1>5, <2>2 DEF Has
  <2>4. l < 1
    BY <1>6, <1>8, <2>3 DEF Ordered, Touches
  <2>5. QED
    BY <1>1, <2>4
<1>9. QED
  BY <1>7, <1>8

(* Where a login looks *)
LEMMA ExecPasses ==
  ASSUME NEW d, NEW toks, Stored(d, toks), NEW t, NEW j, NEW u \in Words, NEW old,
         NEW q \in Seq(Command), q # <<>>, Passed(j, q, d, u, old)
  PROVE  Passed(j, Tail(q), Apply(d, Head(q), t), u, old)
<1> DEFINE r == Tail(q)
           c == Head(q)
           e == Apply(d, c, t)
           p == AuthToAccess(u)
<1>1. /\ c = q[1] /\ 1 \in DOMAIN q /\ c \in Command
      /\ \A i \in DOMAIN r : i \in Int /\ i >= 1 /\ i + 1 \in DOMAIN q /\ r[i] = q[i + 1]
  BY TailShift, TailGood
<1>2. \A op : Has(q, op, p) => Has(r, op, p) \/ (c.op = op /\ c.key = p)
  BY HasAfter
<1>3. p \in PlainKeys
  BY KeysTyped
<1>4. p # c.key \/ c.op = "GET" =>
         (p \in DOMAIN e <=> p \in DOMAIN d) /\ (p \in DOMAIN d => e[p] = d[p])
  BY <1>1, ApplyElsewhere
<1> HIDE DEF r, c, e, p
<1>5. \A i \in DOMAIN r : r[i].op = "SET" /\ r[i].key = p => r[i].arg \notin old
  BY <1>1 DEF Passed, p
<1>6. ASSUME p \in DOMAIN e, e[p].val \in old
      PROVE  Has(r, "DEL", p) \/ Has(r, "SET", p) \/ (j.stage = "mint" /\ j.user = u)
  <2>1. p \in DOMAIN d /\ d[p].val \in old =>
          Has(q, "DEL", p) \/ Has(q, "SET", p) \/ (j.stage = "mint" /\ j.user = u)
    BY DEF Passed, p
  <2>2. CASE c.key # p \/ c.op = "GET"
    BY <1>2, <1>4, <1>6, <2>1, <2>2
  <2>3. CASE c.key = p /\ c.op = "SET"
    <3>1. e[p].val = c.arg
      BY <1>1, <1>3, <2>3, ApplyHere DEF e
    <3>2. c.arg \notin old
      BY <1>1, <2>3 DEF Passed, p
    <3>3. QED
      BY <1>6, <3>1, <3>2
  <2>4. CASE c.key = p /\ c.op = "DEL"
    BY <1>1, <1>3, <1>6, <2>4, ApplyHere DEF e
  <2>5. CASE c.key = p /\ c.op = "EXPIRE"
    <3>1. p \in DOMAIN d /\ e[p].val = d[p].val
      BY <1>1, <1>6, <2>5, ExpireHere DEF e
    <3>2. QED
      BY <1>2, <1>6, <2>1, <2>5, <3>1
  <2>6. c.key = p => c.op \in {"GET", "SET", "DEL", "EXPIRE"}
    BY <1>1, <1>3, ApplyHere
  <2>7. QED
    BY <2>2, <2>3, <2>4, <2>5, <2>6
<1>7. QED
  BY <1>5, <1>6 DEF Passed, r, c, e, p

(* What has been read of the token that is taken out *)
LEMMA ExecTakesOut ==
  ASSUME NEW d, NEW toks, Stored(d, toks), NEW t, NEW end, NEW j, j.tok \in Nat, Nil \notin Nat,
         NEW g \in Seq(Words), NEW h, NEW q \in Seq(Command), q # <<>>,
         j.stage = "taken" => TwoAnswers(j.tok, q, g, toks),
         TakesOut(j, q, g, d, end, t),
         h = IF Head(q).op = "GET" THEN Append(g, Value(d, Head(q).key)) ELSE g,
         Value(d, Head(q).key) \in Words \/ Head(q).op # "GET",
         Linked(q, d, Access(j.tok), AuthOf(j.tok), end, t)
  PROVE  TakesOut(j, Tail(q), h, Apply(d, Head(q), t), end, t)
<1> DEFINE r == Tail(q)
           c == Head(q)
           e == Apply(d, c, t)
           n == j.tok
           a == Access(n)
           b == AuthOf(n)
<1>1. /\ c = q[1] /\ 1 \in DOMAIN q /\ c \in Command
      /\ \A i \in DOMAIN r : i \in Int /\ i >= 1 /\ i + 1 \in DOMAIN q /\ r[i] = q[i + 1]
      /\ \A i \in DOMAIN q : i \in Int /\ i >= 1
  BY TailShift, TailGood
<1>2. a \in PlainKeys /\ b \in PlainKeys
  BY KeysTyped DEF Words
<1>3. Len(g) \in Nat
  BY LenProperties
<1>4. SUFFICES ASSUME j.stage = "taken", j.op # "check"
               PROVE  /\ \A i \in DOMAIN r : r[i].op # "SET"
                      /\ Has(r, "DEL", a) \/ a \notin DOMAIN e
                      /\ Len(h) = 1 /\ h[1] = Nil => a \notin DOMAIN e
                      /\ Len(h) > 1 /\ h[1] = Nil /\ h[2] # Nil => Short(end, t)
  BY DEF TakesOut
<1>5. /\ \A i \in DOMAIN q : q[i].op # "SET"
      /\ Has(q, "DEL", a) \/ a \notin DOMAIN d
      /\ Len(g) = 1 /\ g[1] = Nil => a \notin DOMAIN d
      /\ Len(g) > 1 /\ g[1] = Nil /\ g[2] # Nil => Short(end, t)
      /\ TwoAnswers(n, q, g, toks)
  BY <1>4 DEF TakesOut
<1>6. c.op # "SET" /\ \A i \in DOMAIN r : r[i].op # "SET"
  BY <1>1, <1>5
<1>7. a \notin DOMAIN d => a \notin DOMAIN e
  <2>1. CASE c.key # a \/ c.op = "GET"
    BY <1>1, <2>1, ApplyElsewhere
  <2>2. CASE c.key = a /\ c.op = "DEL"
    BY <1>1, <1>2, <2>2, ApplyHere
  <2>3. CASE c.key = a /\ c.op = "EXPIRE"
    BY <1>1, <2>3, ExpireHere
  <2>4. c.key = a => c.op \in {"GET", "SET", "DEL", "EXPIRE"}
    BY <1>1, <1>2, ApplyHere
  <2>5. QED
    BY <1>6, <2>1, <2>2, <2>3, <2>4
<1>8. Has(r, "DEL", a) \/ a \notin DOMAIN e
  <2>1. CASE c.op = "DEL" /\ c.key = a
    BY <1>1, <1>2, <2>1, ApplyHere
  <2>2. CASE ~(c.op = "DEL" /\ c.key = a)
    <3>1. Has(q, "DEL", a) => Has(r, "DEL", a)
      BY <2>2, HasAfter
    <3>2. QED
      BY <1>5, <1>7, <3>1
  <2>3. QED
    BY <2>1, <2>2
<1> DEFINE v == Value(d, c.key)
<1>9. c.op = "GET" => /\ Len(h) = Len(g) + 1 /\ h[Len(g) + 1] = v
                      /\ \A i \in 1..Len(g) : h[i] = g[i]
  BY AppendProperties
<1>10. c.op # "GET" => h = g
  OBVIOUS
<1>11. c.op = "GET" => e = d
  BY DEF Apply
<1> HIDE DEF r, c, e, v, a, b
<1>12. CASE c.op # "GET"
  BY <1>5, <1>6, <1>7, <1>8, <1>10, <1>12
<1>13. CASE c.op = "GET"
  <2>1. CASE Len(g) = 0
    <3>1. PICK i \in DOMAIN q, l \in DOMAIN q : i < l /\ q[i].op = "GET" /\ q[l].op = "GET"
      BY <1>5, <2>1 DEF TwoAnswers
    <3>2. 1 < l
      BY <1>1, <3>1
    <3>3. c.key = a
      BY <1>1, <1>5, <1>13, <2>1, <3>1, <3>2 DEF TwoAnswers, a
    <3>4. a \in DOMAIN d => d[a].val = n
      BY DEF Stored, Fits, a, Access, TokenKinds
    <3>5. v = Nil => a \notin DOMAIN d
      BY <3>3, <3>4 DEF Value, v
    <3>6. Len(h) = 1 /\ h[1] = v
      BY <1>9, <1>13, <2>1
    <3>7. QED
      BY <1>6, <1>8, <1>11, <1>13, <3>5, <3>6
  <2>2. CASE Len(g) = 1
    <3>1. c.key = b
      BY <1>1, <1>5, <1>13, <2>2 DEF TwoAnswers, b
    <3>2. /\ Len(h) = 2 /\ h[1] = g[1] /\ h[2] = v
      <4>1. 1 \in 1..Len(g) /\ Len(g) + 1 = 2
        BY <2>2
      <4>2. QED
        BY <1>9, <1>13, <4>1
    <3>3. ASSUME g[1] = Nil, v # Nil PROVE Short(end, t)
      <4>1. a \notin DOMAIN d /\ b \in DOMAIN d
        BY <1>5, <2>2, <3>1, <3>3 DEF Value, v
      <4>2. ~Long(d, a, end) /\ ~Has(q, "SET", a) /\ Has(q, "GET", b)
        BY <1>1, <1>5, <1>13, <3>1, <4>1 DEF Long, Has
      <4>3. QED
        BY <4>1, <4>2 DEF Linked, a, b
    <3>4. QED
      BY <1>6, <1>8, <3>2, <3>3
  <2>3. CASE Len(g) > 1
    <3>1. Len(h) > 1 /\ Len(h) # 1 /\ h[1] = g[1] /\ h[2] = g[2]
      <4>1. 1 \in 1..Len(g) /\ 2 \in 1..Len(g) /\ Len(g) + 1 > 1
        BY <1>3, <2>3
      <4>2. Len(h) = Len(g) + 1 /\ h[1] = g[1] /\ h[2] = g[2]
        BY <1>9, <1>13, <4>1
      <4>3. QED
        BY <1>3, <2>3, <4>2
    <3>2. QED
      BY <1>5, <1>6, <1>8, <2>3, <3>1
  <2>4. Len(g) > 1 \/ Len(g) = 1 \/ Len(g) = 0
    <3>1. \A m \in Nat : m > 1 \/ m = 1 \/ m = 0
      OBVIOUS
    <3>2. QED
      BY <1>3, <3>1, Zenon
  <2>5. QED
    BY <2>1, <2>2, <2>3, <2>4
<1>14. QED
  BY <1>12, <1>13

(* What a login finds *)
LEMMA ExecChooses ==
  ASSUME Inv, NEW w \in Workers, Exec(w), NEW old, Nil \notin old, Chooses(job[w], got[w], old),
         \A u \in Users : Passed(job[w], queue[w], db, u, old)
  PROVE  Chooses(job[w], got'[w], old)
<1>1. SUFFICES ASSUME job[w].stage = "found", got'[w] # <<>>
               PROVE  got'[w][1] \notin old
  BY DEF Chooses
<1> DEFINE q == queue[w]
           g == got[w]
           u == job[w].user
           p == AuthToAccess(u)
<1>2. /\ u \in Users /\ Asked(p, q, g) /\ q # <<>> /\ got[w] \in Seq(Words)
      /\ got' = IF Head(q).op = "GET" THEN [got EXCEPT ![w] = Append(got[w], Value(db, Head(q).key))] ELSE got
  BY <1>1 DEF Inv, Knows, Exec, Typed
<1>3. q = <<Get(p)>> /\ g = <<>>
  BY <1>2 DEF Asked
<1>4. Head(q) = Get(p)
  BY <1>3
<1>5. got'[w] = Append(<<>>, Value(db, p))
  BY <1>2, <1>3, <1>4 DEF Get, Inv, Typed
<1>6. got'[w][1] = Value(db, p)
  BY <1>5
<1>7. ~(p \in DOMAIN db /\ db[p].val \in old)
  <2>1. ~Has(q, "DEL", p) /\ ~Has(q, "SET", p)
    BY <1>3 DEF Has, Get
  <2>2. QED
    BY <1>1, <1>2, <2>1 DEF Passed
<1>8. QED
  BY <1>6, <1>7 DEF Value

(* The pipelines that read take out no token and no authentication, *)
LEMMA ReadingLinks ==
  ASSUME NamesApart, NEW q, Reading(q), NEW n \in Nat, NEW d, NEW end, NEW t,
         AuthOf(n) \in DOMAIN d => Short(end, t) \/ Long(d, Access(n), end)
  PROVE  Linked(q, d, Access(n), AuthOf(n), end, t)
<1>1. \A i \in DOMAIN q : /\ q[i].op \notin {"SET", "EXPIRE"}
                          /\ ~(q[i].op = "DEL" /\ q[i].key = Access(n))
  BY DEF Reading, Access, NamesApart
<1>2. QED
  BY <1>1 DEF Linked, Has

(* those that take one out read it before, *)
LEMMA TakingLinks ==
  ASSUME NEW q, NEW m, Taking(q, m), NEW n, NEW d, NEW end, NEW t,
         AuthOf(n) \in DOMAIN d => Short(end, t) \/ Long(d, Access(n), end)
  PROVE  Linked(q, d, Access(n), AuthOf(n), end, t)
<1> DEFINE a == Access(n)
           b == AuthOf(n)
<1>1. PICK o \in Nat : TakingAfter(q, m, o)
  BY DEF Taking
<1>2. /\ a[1] = "access" /\ b[1] = "auth" /\ a # b
      /\ Access(m) = a <=> m = n
      /\ AuthOf(m) = b <=> m = n
      /\ Access(m) # b /\ AuthOf(m) # a
  BY DEF Access, AuthOf
<1>3. /\ {o + 1, o + 2, o + 3, o + 5} \subseteq DOMAIN q
      /\ q[o + 1].op = "GET" /\ q[o + 1].key = Access(m)
      /\ q[o + 2].op = "GET" /\ q[o + 2].key = AuthOf(m)
      /\ q[o + 3].op = "DEL" /\ q[o + 3].key = Access(m)
      /\ q[o + 5].op = "DEL" /\ q[o + 5].key = AuthOf(m)
  BY <1>1 DEF TakingAfter, Get, Delete
<1>4. \A i \in DOMAIN q : i \notin {o + 1, o + 2, o + 3, o + 5} =>
        q[i].op = "DEL" /\ q[i].key # a /\ q[i].key # b
  <2>1. \A i \in DOMAIN q \ {o + 1, o + 2, o + 3, o + 5} : q[i].op = "DEL" /\ q[i].key[1] \notin TokenKeys
    BY <1>1 DEF TakingAfter
  <2>2. QED
    BY <1>2, <2>1 DEF TokenKeys
<1> HIDE DEF a, b
<1>5. \A i \in DOMAIN q : q[i].op \notin {"SET", "EXPIRE"}
  BY <1>3, <1>4
<1>6. ASSUME NEW i \in DOMAIN q, NEW l \in DOMAIN q,
             q[i].op = "GET", q[i].key = b, q[l].op = "DEL", q[l].key = a
      PROVE  i < l
  <2>1. i = o + 2
    BY <1>2, <1>3, <1>4, <1>6
  <2>2. l = o + 3
    BY <1>2, <1>3, <1>4, <1>6
  <2>3. QED
    BY <2>1, <2>2
<1>7. ASSUME NEW i \in DOMAIN q, q[i].op = "DEL", q[i].key = a
      PROVE  \E l \in DOMAIN q : i < l /\ q[l].op = "DEL" /\ q[l].key = b
  <2>1. i = o + 3 /\ m = n
    BY <1>2, <1>3, <1>4, <1>7
  <2>2. o + 5 \in DOMAIN q /\ q[o + 5].op = "DEL" /\ q[o + 5].key = b /\ o + 3 < o + 5
    BY <1>2, <1>3, <2>1
  <2>3. QED
    BY <2>1, <2>2
<1>8. QED
  BY <1>5, <1>6, <1>7 DEF Linked, Has, a, b

(* and those that store one store it for its time. *)
LEMMA StoringLinks ==
  ASSUME NEW q, NEW m, NEW u, NEW toks, toks[m].exp \in Nat, now \in Nat,
         Storing(q, m, u, ExpiresIn(m, toks)), NEW n, NEW d,
         AuthOf(n) \in DOMAIN d => Short(toks[n].exp, now) \/ Long(d, Access(n), toks[n].exp)
  PROVE  Linked(q, d, Access(n), AuthOf(n), toks[n].exp, now)
<1> DEFINE a == Access(n)
           b == AuthOf(n)
           e == ExpiresIn(m, toks)
<1>1. /\ a[1] = "access" /\ b[1] = "auth" /\ a # b /\ AuthToAccess(u)[1] = "auth_to_access"
      /\ Access(m) = a <=> m = n
      /\ AuthOf(m) = b <=> m = n
      /\ Access(m) # b /\ AuthOf(m) # a
  BY DEF Access, AuthOf, AuthToAccess
<1>2. \A i \in DOMAIN q : q[i].op \notin {"GET", "DEL"}
  BY DEF Storing
<1>3. /\ 1 \in DOMAIN q /\ q[1].op = "SET" /\ q[1].key = Access(m)
      /\ q[2].key = AuthOf(m) /\ q[3].key = AuthToAccess(u) /\ q[8].key = AuthToAccess(u)
      /\ q[6].key = Access(m) /\ q[7].key = AuthOf(m)
      /\ \A i \in DOMAIN q : i \notin {1, 2, 3, 6, 7, 8} => q[i].key[1] \notin TokenKeys
  BY DEF Storing, Write, Live
<1> HIDE DEF a, b, e
<1>4. \A i \in DOMAIN q : q[i].key \in {a, b} => m = n /\ i \in {1, 2, 6, 7}
  <2>1. \A i \in DOMAIN q : q[i].key \in {a, b} => q[i].key[1] \in TokenKeys
    BY <1>1 DEF TokenKeys
  <2>2. \A i \in DOMAIN q : q[i].key \in {a, b} => i \in {1, 2, 3, 6, 7, 8}
    BY <1>3, <2>1
  <2>3. q[3].key \notin {a, b} /\ q[8].key \notin {a, b}
    BY <1>1, <1>3
  <2>4. q[1].key = Access(m) /\ q[2].key = AuthOf(m) /\ q[6].key = Access(m) /\ q[7].key = AuthOf(m)
    BY <1>3
  <2>5. QED
    BY <1>1, <2>2, <2>3, <2>4
<1>5. CASE m # n
  BY <1>2, <1>4, <1>5 DEF Linked, Has, a, b
<1>6. CASE m = n
  <2>1. Lasts(a, q, d, toks[n].exp, now)
    BY <1>6, StoringLasts DEF a
  <2>2. \A i \in DOMAIN q : q[i].op = "EXPIRE" /\ q[i].key = a => Lengthy(q[i], toks[n].exp, now)
    BY <2>1 DEF Lasts
  <2>3. Has(q, "SET", a)
    BY <1>1, <1>3, <1>6 DEF Has
  <2>4. QED
    BY <1>2, <2>2, <2>3 DEF Linked, a, b
<1>7. QED
  BY <1>5, <1>6

(* A token in its last second is stored for no time. *)
LEMMA StoringShort ==
  ASSUME NEW q, NEW m, NEW u, NEW toks, toks[m].exp \in Nat, now \in Nat,
         Storing(q, m, u, ExpiresIn(m, toks)), Short(toks[m].exp, now)
  PROVE  Spent(q, Access(m))
<1> DEFINE left == toks[m].exp - now
<1>1. Second \in Nat \ {0} /\ left \in Int /\ left < Second
  BY TokenAssumption DEF Short
<1> HIDE DEF left
<1>2. left \div Second <= 0
  BY <1>1
<1>3. 6 \in DOMAIN q /\ q[6] = Live(Access(m), left \div Second)
  BY DEF Storing, ExpiresIn, left
<1>4. QED
  BY <1>2, <1>3 DEF Spent, Live

(* The tokens that were issued, by their numbers *)
LEMMA IssuedTokens ==
  ASSUME Inv
  PROVE  /\ \A n \in DOMAIN tokens : n \in Nat /\ n \in Words /\ tokens[n].exp \in Nat
         /\ Lively \subseteq replaced /\ replaced \subseteq DOMAIN tokens
<1>1. tokens \in Seq(Token) /\ replaced \subseteq DOMAIN tokens
  BY DEF Inv, Typed
<1>2. \A n \in DOMAIN tokens : n \in Nat /\ tokens[n] \in Token
  BY <1>1, ElementOfSeq, LenProperties
<1>3. QED
  BY <1>1, <1>2 DEF Words, Token, Lively

(* A step of a lone worker's pipeline brings no replaced token back. *)
LEMMA ExecKeepsRepl ==
  ASSUME NEW w0, Workers = {w0}, NamesApart, Inv, PairInv, ReplInv, Exec(w0)
  PROVE  ReplInv'
<1> DEFINE q == queue[w0]
           j == job[w0]
           e == Apply(db, Head(q), now)
           end(n) == tokens[n].exp
<1>1. /\ q \in Seq(Command) /\ q # <<>> /\ Head(q) \in Command /\ queue'[w0] = Tail(q)
      /\ db' = e /\ UNCHANGED <<now, tokens, job, crashes, replaced>>
  BY Obeyed
<1>2. Lively' = Lively
  BY <1>1 DEF Lively
<1>3. SUFFICES ASSUME crashes = 0
               PROVE  /\ \A n \in DOMAIN tokens : Linked(Tail(q), e, Access(n), AuthOf(n), end(n), now)
                      /\ \A n \in replaced : Removed(Tail(q), e, Access(n))
                      /\ \A u \in Users : Passed(j, Tail(q), e, u, Lively)
                      /\ Chooses(j, got'[w0], Lively)
                      /\ TakesOut(j, Tail(q), got'[w0], e, end(j.tok), now)
  BY <1>1, <1>2 DEF ReplInv
<1>4. Stored(db, tokens) /\ now \in Int
  BY DEF Inv, Typed
<1>5. /\ \A n \in DOMAIN tokens : n \in Nat /\ n \in Words /\ end(n) \in Int
      /\ Lively \subseteq replaced /\ replaced \subseteq DOMAIN tokens
  BY IssuedTokens
<1>6. ASSUME NEW n \in DOMAIN tokens
      PROVE  /\ Access(n) \in PlainKeys /\ AuthOf(n) \in PlainKeys /\ Access(n) # AuthOf(n)
             /\ Ordered(q, Access(n), AuthOf(n))
  <2>1. n \in Words
    BY <1>5
  <2>2. Access(n) \in PlainKeys /\ AuthOf(n) \in PlainKeys
    BY <2>1, KeysTyped
  <2>3. Access(n) # AuthOf(n)
    BY DEF Access, AuthOf
  <2>4. Paired(q, db, Access(n), AuthOf(n), now)
    BY <1>3, <2>1 DEF PairInv
  <2>5. QED
    BY <2>2, <2>3, <2>4 DEF Paired
<1> HIDE DEF end
<1>7. ASSUME NEW n \in DOMAIN tokens
      PROVE  Linked(Tail(q), e, Access(n), AuthOf(n), end(n), now)
  <2>1. Linked(q, db, Access(n), AuthOf(n), end(n), now)
    BY <1>3 DEF ReplInv, end
  <2> HIDE DEF q
  <2>2. QED
    BY <1>1, <1>4, <1>5, <1>6, <2>1, ExecLinks
<1>8. ASSUME NEW n \in replaced PROVE Removed(Tail(q), e, Access(n))
  <2>1. Removed(q, db, Access(n)) /\ n \in DOMAIN tokens
    BY <1>3, <1>5 DEF ReplInv
  <2> HIDE DEF q
  <2>2. QED
    BY <1>1, <1>4, <1>6, <2>1, ExecRemoves
<1>9. ASSUME NEW u \in Users PROVE Passed(j, Tail(q), e, u, Lively)
  <2>1. Passed(j, q, db, u, Lively) /\ u \in Words
    BY <1>3 DEF ReplInv, Words
  <2> HIDE DEF q, j
  <2>2. QED
    BY <1>1, <1>4, <2>1, ExecPasses
<1>10. Chooses(j, got'[w0], Lively)
  <2>1. Nil \notin Lively
    BY <1>5 DEF NamesApart
  <2>2. Chooses(j, got[w0], Lively) /\ \A u \in Users : Passed(j, q, db, u, Lively)
    BY <1>3 DEF ReplInv
  <2>3. QED
    BY <2>1, <2>2, ExecChooses
<1>11. TakesOut(j, Tail(q), got'[w0], e, end(j.tok), now)
  <2>1. SUFFICES ASSUME j.stage = "taken", j.op # "check"
                 PROVE  TakesOut(j, Tail(q), got'[w0], e, end(j.tok), now)
    BY DEF TakesOut
  <2>2. j.tok \in DOMAIN tokens /\ TwoAnswers(j.tok, q, got[w0], tokens)
    BY <2>1 DEF Inv, Knows, Owned
  <2>3. /\ j.tok \in Nat /\ Nil \notin Nat /\ got[w0] \in Seq(Words)
        /\ Linked(q, db, Access(j.tok), AuthOf(j.tok), end(j.tok), now)
        /\ TakesOut(j, q, got[w0], db, end(j.tok), now)
    BY <1>3, <1>5, <2>2 DEF ReplInv, end, NamesApart, Inv, Typed
  <2>4. got'[w0] = IF Head(q).op = "GET" THEN Append(got[w0], Value(db, Head(q).key)) ELSE got[w0]
    BY DEF Exec, Inv, Typed
  <2>5. Head(q).op = "GET" => Value(db, Head(q).key) \in Words
    BY <1>1, CommandParts DEF Value, Inv, Stored, Words
  <2> HIDE DEF q, j
  <2>6. QED
    BY <1>1, <1>4, <2>2, <2>3, <2>4, <2>5, ExecTakesOut
<1> HIDE DEF q, j, e
<1>12. QED
  BY <1>7, <1>8, <1>9, <1>10, <1>11

(* Nor does time. *)
LEMMA TickKeepsRepl ==
  ASSUME NEW w0, Workers = {w0}, Inv, ReplInv, Tick
  PROVE  ReplInv'
<1> DEFINE q == queue[w0]
           j == job[w0]
           g == got[w0]
           e == Alive(db, now + 1)
           old == Lively
           new == Lively'
           end(n) == tokens[n].exp
<1>1. /\ now' = now + 1 /\ db' = e
      /\ UNCHANGED <<tokens, job, queue, got, crashes, replaced>>
  BY DEF Tick
<1>2. SUFFICES ASSUME crashes = 0
               PROVE  /\ \A n \in DOMAIN tokens : Linked(q, e, Access(n), AuthOf(n), end(n), now + 1)
                      /\ \A n \in replaced : Removed(q, e, Access(n))
                      /\ \A u \in Users : Passed(j, q, e, u, new)
                      /\ Chooses(j, g, new)
                      /\ TakesOut(j, q, g, e, end(j.tok), now + 1)
  BY <1>1 DEF ReplInv
<1>3. /\ \A n \in DOMAIN tokens : Linked(q, db, Access(n), AuthOf(n), end(n), now)
      /\ \A n \in replaced : Removed(q, db, Access(n))
      /\ \A u \in Users : Passed(j, q, db, u, old)
      /\ Chooses(j, g, old)
      /\ TakesOut(j, q, g, db, end(j.tok), now)
  BY <1>2 DEF ReplInv
<1>4. Stored(db, tokens) /\ now \in Int /\ q \in Seq(Command)
  BY DEF Inv, Typed
<1>5. /\ \A n \in DOMAIN tokens : n \in Words /\ end(n) \in Int
      /\ replaced \subseteq DOMAIN tokens
  BY IssuedTokens
<1>6. \A t \in Int : Short(t, now) => Short(t, now + 1)
  BY <1>4, TokenAssumption DEF Short
<1>7. new \subseteq old
  <2>1. new = {n \in replaced : ~Short(end(n), now + 1)}
    BY <1>1 DEF Lively
  <2> HIDE DEF new, end
  <2>2. old = {n \in replaced : ~Short(end(n), now)}
    BY DEF Lively, end
  <2>3. QED
    BY <1>5, <1>6, <2>1, <2>2
<1>8. \A k \in DOMAIN e : k \in DOMAIN db /\ e[k] = db[k]
  BY DEF Alive
<1>9. ASSUME NEW n \in DOMAIN tokens
      PROVE  Linked(q, e, Access(n), AuthOf(n), end(n), now + 1)
  <2>1. Access(n) \in PlainKeys
    BY <1>5, KeysTyped
  <2> HIDE DEF q, end
  <2>2. QED
    BY <1>3, <1>4, <1>5, <2>1, TickLinks
<1>10. ASSUME j.stage = "taken", j.op # "check" PROVE end(j.tok) \in Int
  BY <1>5, <1>10 DEF Inv, Knows, Owned
<1> HIDE DEF q, j, g, e, old, new, end
<1>11. \A n \in replaced : Removed(q, e, Access(n))
  BY <1>3, <1>8 DEF Removed
<1>12. \A u \in Users : Passed(j, q, e, u, new)
  BY <1>3, <1>7, <1>8 DEF Passed
<1>13. Chooses(j, g, new)
  BY <1>3, <1>7 DEF Chooses
<1>14. TakesOut(j, q, g, e, end(j.tok), now + 1)
  BY <1>3, <1>6, <1>8, <1>10 DEF TakesOut
<1>15. QED
  BY <1>9, <1>11, <1>12, <1>13, <1>14

(* A pipeline writes to the keys of one token and to the place where a login looks. *)
LEMMA StoringSets ==
  ASSUME NEW q, NEW m, NEW u, NEW s, Storing(q, m, u, s)
  PROVE  /\ \A n : Has(q, "SET", Access(n)) => n = m
         /\ \A i \in DOMAIN q : \A v : q[i].op = "SET" /\ q[i].key = AuthToAccess(v) => q[i].arg = m
         /\ Has(q, "SET", AuthToAccess(u))
<1>1. /\ 3 \in DOMAIN q /\ q[3].op = "SET" /\ q[3].key = AuthToAccess(u) /\ q[3].arg = m
      /\ q[1].key = Access(m) /\ q[2].key = AuthOf(m)
      /\ q[6].op = "EXPIRE" /\ q[7].op = "EXPIRE" /\ q[8].op = "EXPIRE"
  BY DEF Storing, Write, Live
<1>2. /\ \A n : Access(n)[1] = "access" /\ (Access(n) = Access(m) => n = m)
      /\ \A n : AuthOf(n)[1] = "auth"
      /\ \A v : AuthToAccess(v)[1] = "auth_to_access"
  BY DEF Access, AuthOf, AuthToAccess
<1>3. ASSUME NEW i \in DOMAIN q, q[i].op = "SET", q[i].key[1] \in TokenKeys
      PROVE  i \in {1, 2, 3}
  <2>1. i \in {1, 2, 3, 6, 7, 8}
    BY <1>3 DEF Storing
  <2>2. QED
    BY <1>1, <1>3, <2>1
<1>4. ASSUME NEW n, Has(q, "SET", Access(n)) PROVE n = m
  <2>1. PICK i \in DOMAIN q : q[i].op = "SET" /\ q[i].key = Access(n)
    BY <1>4 DEF Has
  <2>2. i \in {1, 2, 3} /\ q[i].key[1] = "access"
    BY <1>2, <1>3, <2>1 DEF TokenKeys
  <2>3. i = 1
    BY <1>1, <1>2, <2>2
  <2>4. QED
    BY <1>1, <1>2, <2>1, <2>3
<1>5. ASSUME NEW i \in DOMAIN q, NEW v, q[i].op = "SET", q[i].key = AuthToAccess(v)
      PROVE  q[i].arg = m
  <2>1. i \in {1, 2, 3} /\ q[i].key[1] = "auth_to_access"
    BY <1>2, <1>3, <1>5 DEF TokenKeys
  <2>2. i = 3
    BY <1>1, <1>2, <2>1
  <2>3. QED
    BY <1>1, <2>2
<1>6. Has(q, "SET", AuthToAccess(u))
  BY <1>1 DEF Has
<1>7. QED
  BY <1>4, <1>5, <1>6

(* The other pipelines write nothing. *)
LEMMA NothingSet ==
  ASSUME NEW q, NEW m, Reading(q) \/ Taking(q, m)
  PROVE  \A i \in DOMAIN q : q[i].op # "SET"
BY DEF Reading, Taking, TakingAfter, Get, Delete

(* A lone worker goes on when its pipeline is through; a token it adds is new and *)
(* has its whole time to live.                                                    *)
LEMMA SentNext ==
  ASSUME NEW w0, Workers = {w0}, Inv, Sending(w0), crashes' = 0
  PROVE  /\ crashes = 0 /\ queue[w0] = <<>> /\ got'[w0] = <<>>
         /\ db' = db /\ now' = now /\ now \in Nat /\ stretched' = stretched
         /\ Moves(job[w0], got[w0], job'[w0], queue'[w0])
         /\ Knows(job'[w0], queue'[w0], <<>>, tokens')
         /\ Knows(job[w0], <<>>, got[w0], tokens)
         /\ \A n \in DOMAIN tokens' : n \in Nat /\ tokens'[n].exp \in Nat
         /\ \A n \in DOMAIN tokens : n \in DOMAIN tokens' /\ tokens'[n] = tokens[n]
         /\ \A n \in DOMAIN tokens' : n \notin DOMAIN tokens =>
              n = Len(tokens) + 1 /\ tokens'[n].exp = now + Validity * Second
         /\ Len(tokens) + 1 \notin DOMAIN tokens
<1>1. crashes = 0 /\ crashes' = crashes
  BY DEF Inv, Typed, Sending
<1>2. /\ db' = db /\ now' = now /\ now \in Nat /\ got'[w0] = <<>> /\ queue[w0] = <<>>
      /\ stretched' = stretched
      /\ Moves(job[w0], got[w0], job'[w0], queue'[w0])
      /\ Knows(job'[w0], queue'[w0], <<>>, tokens')
      /\ \A n \in DOMAIN tokens : n \in DOMAIN tokens' /\ tokens'[n] = tokens[n]
  BY <1>1, SentAlone DEF Inv, Typed
<1>3. \A n \in DOMAIN tokens' : n \in Nat /\ tokens'[n].exp \in Nat
  <2>1. Inv'
    BY SendingKeeps
  <2>2. tokens' \in Seq(Token)
    BY <2>1 DEF Inv, Typed
  <2>3. \A n \in DOMAIN tokens' : n \in Nat /\ tokens'[n] \in Token
    BY <2>2, ElementOfSeq, LenProperties
  <2>4. QED
    BY <2>3 DEF Token
<1>4. Knows(job[w0], <<>>, got[w0], tokens)
  BY <1>2 DEF Inv
<1>5. tokens \in Seq(Token) /\ DOMAIN tokens = 1..Len(tokens) /\ Len(tokens) \in Nat
  BY LenProperties DEF Inv, Typed
<1>6. Len(tokens) + 1 \notin DOMAIN tokens
  BY <1>5
<1>7. ASSUME NEW n \in DOMAIN tokens', n \notin DOMAIN tokens
      PROVE  n = Len(tokens) + 1 /\ tokens'[n].exp = now + Validity * Second
  <2>1. PICK t \in Token : tokens' = Append(tokens, t) /\ t.exp = now + Validity * Second
    BY <1>7 DEF Sending
  <2>2. /\ tokens' \in Seq(Token) /\ Len(tokens') = Len(tokens) + 1
        /\ tokens'[Len(tokens) + 1] = t
    BY <1>5, <2>1, AppendProperties
  <2>3. DOMAIN tokens' = 1..(Len(tokens) + 1)
    BY <2>2, LenProperties
  <2>4. n = Len(tokens) + 1
    BY <1>5, <1>7, <2>3
  <2>5. QED
    BY <2>1, <2>2, <2>4
<1>8. QED
  BY <1>1, <1>2, <1>3, <1>4, <1>6, <1>7

(* What it relies on when no worker has died *)
LEMMA SentSafe ==
  ASSUME NEW w0, Workers = {w0}, Inv, ReplInv, Sending(w0), crashes' = 0
  PROVE  /\ \A n \in DOMAIN tokens' : AuthOf(n) \in DOMAIN db =>
              Short(tokens'[n].exp, now) \/ Long(db, Access(n), tokens'[n].exp)
         /\ \A n \in replaced : Access(n) \notin DOMAIN db
         /\ \A u \in Users : Passed(job[w0], <<>>, db, u, Lively)
         /\ Chooses(job[w0], got[w0], Lively)
         /\ TakesOut(job[w0], <<>>, got[w0], db, tokens[job[w0].tok].exp, now)
<1>1. /\ crashes = 0 /\ queue[w0] = <<>>
      /\ \A n \in DOMAIN tokens : n \in DOMAIN tokens' /\ tokens'[n] = tokens[n]
  BY SentNext
<1>2. /\ \A n \in DOMAIN tokens : Linked(<<>>, db, Access(n), AuthOf(n), tokens[n].exp, now)
      /\ \A n \in replaced : Removed(<<>>, db, Access(n))
      /\ \A u \in Users : Passed(job[w0], <<>>, db, u, Lively)
      /\ Chooses(job[w0], got[w0], Lively)
      /\ TakesOut(job[w0], <<>>, got[w0], db, tokens[job[w0].tok].exp, now)
  BY <1>1 DEF ReplInv
<1>3. \A op, k : ~Has(<<>>, op, k) /\ ~Spent(<<>>, k)
  BY DEF Has, Spent
<1>4. \A n \in replaced : Access(n) \notin DOMAIN db
  BY <1>2, <1>3 DEF Removed
<1>5. ASSUME NEW n \in DOMAIN tokens', AuthOf(n) \in DOMAIN db
      PROVE  Short(tokens'[n].exp, now) \/ Long(db, Access(n), tokens'[n].exp)
  <2>1. n \in DOMAIN tokens
    BY <1>5 DEF Inv, Stored, Fits, Owned, AuthOf
  <2>2. Linked(<<>>, db, Access(n), AuthOf(n), tokens[n].exp, now)
    BY <1>2, <2>1
  <2>3. Short(tokens[n].exp, now) \/ Long(db, Access(n), tokens[n].exp)
    BY <1>3, <1>5, <2>2 DEF Linked
  <2>4. QED
    BY <1>1, <2>1, <2>3
<1>6. QED
  BY <1>2, <1>4, <1>5

(* The next stage of a lone worker's request brings no replaced token back, and the *)
(* token it replaces is gone.                                                       *)
LEMMA SendingKeepsRepl ==
  ASSUME NEW w0, Workers = {w0}, NamesApart, Inv, ReplInv, Sending(w0)
  PROVE  ReplInv'
<1> DEFINE i == job[w0]
           g == got[w0]
           j == job'[w0]
           q == queue'[w0]
           new == Lively'
           toks == tokens'
           repl == replaced'
           s == ExpiresIn(j.tok, toks)
<1>1. SUFFICES ASSUME crashes' = 0
               PROVE  /\ \A n \in DOMAIN toks : Linked(q, db, Access(n), AuthOf(n), toks[n].exp, now)
                      /\ \A n \in repl : Removed(q, db, Access(n))
                      /\ \A u \in Users : Passed(j, q, db, u, new)
                      /\ Chooses(j, <<>>, new)
                      /\ TakesOut(j, q, <<>>, db, toks[j.tok].exp, now)
  BY SentNext DEF ReplInv
<1>2. /\ now \in Nat /\ now' = now /\ Moves(i, g, j, q)
      /\ Knows(j, q, <<>>, toks) /\ Knows(i, <<>>, g, tokens)
      /\ \A n \in DOMAIN toks : n \in Nat /\ toks[n].exp \in Nat
      /\ \A n \in DOMAIN tokens : n \in DOMAIN toks /\ toks[n] = tokens[n]
      /\ \A n \in DOMAIN toks : AuthOf(n) \in DOMAIN db =>
           Short(toks[n].exp, now) \/ Long(db, Access(n), toks[n].exp)
      /\ \A n \in replaced : Access(n) \notin DOMAIN db
      /\ \A u \in Users : Passed(i, <<>>, db, u, Lively)
      /\ Chooses(i, g, Lively)
      /\ TakesOut(i, <<>>, g, db, tokens[i.tok].exp, now)
  BY <1>1, SentNext, SentSafe
<1>3. /\ new = {n \in repl : ~Short(toks[n].exp, now)}
      /\ Lively = {n \in replaced : ~Short(tokens[n].exp, now)}
      /\ replaced \subseteq DOMAIN tokens
  BY <1>2, IssuedTokens DEF Lively
<1>4. Len(tokens) + 1 \notin DOMAIN tokens
  BY <1>1, SentNext
<1>5. repl = replaced => new = Lively
  BY <1>2, <1>3
<1>6. Reading(q) \/ Taking(q, j.tok) \/ Storing(q, j.tok, j.user, s)
  BY <1>2 DEF Moves
<1>7. ASSUME ~Reading(q), ~Taking(q, j.tok)
      PROVE  /\ repl = replaced /\ new = Lively /\ j.tok \notin Lively
             /\ j.tok \in DOMAIN toks /\ Storing(q, j.tok, j.user, s)
  <2>1. \/ i.stage = "verify" /\ j.stage = "existing" /\ j.tok = i.tok
        \/ i.stage = "existing" /\ j.stage = "granted" /\ j.tok = i.tok
        \/ i.stage = "mint" /\ j.stage = "granted" /\ j.tok = Len(tokens) + 1 /\ j.user = i.user
    BY <1>2, <1>7 DEF Moves
  <2>2. repl = replaced
    BY <1>2, <2>1 DEF Moves
  <2>3. j.tok \notin Lively
    BY <1>2, <1>3, <1>4, <2>1 DEF Chooses
  <2>4. j.tok \in DOMAIN toks
    BY <1>2, <2>1 DEF Knows, Owned
  <2>5. QED
    BY <1>5, <1>6, <1>7, <2>1, <2>2, <2>3, <2>4
<1> HIDE DEF i, g, j, q, new, toks, repl, s
<1>8. Reading(q) \/ Taking(q, j.tok) => \A m \in DOMAIN q : q[m].op # "SET"
  BY NothingSet
<1>9. ASSUME NEW n \in DOMAIN toks
      PROVE  Linked(q, db, Access(n), AuthOf(n), toks[n].exp, now)
  <2>1. AuthOf(n) \in DOMAIN db => Short(toks[n].exp, now) \/ Long(db, Access(n), toks[n].exp)
    BY <1>2
  <2>2. CASE Reading(q)
    BY <1>2, <2>1, <2>2, ReadingLinks
  <2>3. CASE Taking(q, j.tok)
    BY <2>1, <2>3, TakingLinks
  <2>4. CASE ~Reading(q) /\ ~Taking(q, j.tok)
    <3>1. toks[j.tok].exp \in Nat /\ Storing(q, j.tok, j.user, ExpiresIn(j.tok, toks))
      BY <1>2, <1>7, <2>4 DEF s
    <3>2. QED
      BY <1>2, <2>1, <3>1, StoringLinks
  <2>5. QED
    BY <2>2, <2>3, <2>4
<1>10. ASSUME NEW n \in repl PROVE Removed(q, db, Access(n))
  <2>1. CASE ~Reading(q) /\ ~Taking(q, j.tok)
    <3>1. /\ n \in replaced /\ n \in DOMAIN tokens /\ Access(n) \notin DOMAIN db
      BY <1>2, <1>3, <1>7, <2>1
    <3>2. ASSUME Has(q, "SET", Access(n)) PROVE Spent(q, Access(n))
      <4>1. n = j.tok
        BY <1>7, <2>1, <3>2, StoringSets
      <4>2. Short(tokens[n].exp, now) /\ toks[n].exp \in Nat /\ toks[n] = tokens[n]
        BY <1>2, <1>3, <1>7, <2>1, <3>1, <4>1
      <4>3. Storing(q, n, j.user, ExpiresIn(n, toks))
        BY <1>7, <2>1, <4>1 DEF s
      <4>4. QED
        BY <1>2, <4>2, <4>3, StoringShort
    <3>3. QED
      BY <3>1, <3>2 DEF Removed
  <2>2. CASE Reading(q) \/ Taking(q, j.tok)
    <3>1. ~Has(q, "SET", Access(n))
      BY <1>8, <2>2 DEF Has
    <3>2. Access(n) \notin DOMAIN db
      <4>1. CASE n \in replaced
        BY <1>2, <4>1
      <4>2. CASE n \notin replaced
        <5>1. i.stage = "taken" /\ i.op = "refresh" /\ n = i.tok
          BY <1>2, <4>2 DEF Moves, repl
        <5>2. ~Has(<<>>, "DEL", Access(n))
          BY DEF Has
        <5>3. QED
          BY <1>2, <5>1, <5>2 DEF TakesOut
      <4>3. QED
        BY <4>1, <4>2
    <3>3. QED
      BY <3>1, <3>2 DEF Removed
  <2>3. QED
    BY <2>1, <2>2
<1>11. ASSUME NEW u \in Users PROVE Passed(j, q, db, u, new)
  <2> DEFINE p == AuthToAccess(u)
  <2>1. ASSUME NEW m \in DOMAIN q, q[m].op = "SET", q[m].key = p PROVE q[m].arg \notin new
    <3>1. ~Reading(q) /\ ~Taking(q, j.tok)
      BY <1>8, <2>1
    <3>2. Storing(q, j.tok, j.user, s) /\ new = Lively /\ j.tok \notin Lively
      BY <1>7, <3>1
    <3>3. q[m].arg = j.tok
      BY <2>1, <3>2, StoringSets
    <3>4. QED
      BY <3>2, <3>3
  <2>2. ASSUME p \in DOMAIN db, db[p].val \in Lively
        PROVE  Has(q, "SET", p)
    <3>1. ~Has(<<>>, "DEL", p) /\ ~Has(<<>>, "SET", p)
      BY DEF Has
    <3>2. i.stage = "mint" /\ i.user = u
      BY <1>2, <2>2, <3>1 DEF Passed
    <3>3. Storing(q, j.tok, j.user, s) /\ j.user = i.user
      BY <1>2, <3>2 DEF Moves, s, toks
    <3>4. QED
      BY <3>2, <3>3, StoringSets
  <2>3. ASSUME p \in DOMAIN db, db[p].val \in new, db[p].val \notin Lively
        PROVE  j.stage = "mint" /\ j.user = u
    <3> DEFINE n == db[p].val
    <3>1. n \in repl /\ ~Short(toks[n].exp, now) /\ n \notin replaced
      BY <1>2, <1>3, <2>3
    <3>2. i.stage = "taken" /\ i.op = "refresh" /\ n = i.tok
      BY <1>2, <3>1 DEF Moves, repl
    <3>3. Owned(n, u, tokens)
      BY <2>3 DEF Inv, Stored, Fits, AuthToAccess
    <3>4. /\ i.user = u /\ toks[n] = tokens[n]
      BY <1>2, <3>2, <3>3 DEF Knows, Owned
    <3>5. ~(g[1] = Nil /\ g[2] # Nil)
      <4>1. Len(g) > 1
        BY <1>2, <3>2 DEF Knows, TwoAnswers
      <4>2. QED
        BY <1>2, <3>1, <3>2, <3>4, <4>1 DEF TakesOut
    <3>6. QED
      BY <1>2, <3>2, <3>4, <3>5 DEF Moves
  <2>4. QED
    BY <2>1, <2>2, <2>3 DEF Passed
<1>12. Chooses(j, <<>>, new)
  <2>1. SUFFICES ASSUME j.stage \in {"verify", "existing"} PROVE j.tok \notin new
    BY DEF Chooses
  <2>2. new = Lively
    BY <1>2, <1>5, <2>1 DEF Moves, repl
  <2>3. \/ i.stage = "found" /\ g # <<>> /\ j.tok = g[1]
        \/ i.stage = "verify" /\ j.tok = i.tok
    BY <1>2, <2>1 DEF Moves
  <2>4. QED
    BY <1>2, <2>2, <2>3 DEF Chooses
<1>13. TakesOut(j, q, <<>>, db, toks[j.tok].exp, now)
  <2>1. SUFFICES ASSUME j.stage = "taken"
                 PROVE  /\ \A m \in DOMAIN q : q[m].op # "SET"
                        /\ Has(q, "DEL", Access(j.tok))
    BY DEF TakesOut
  <2>2. Taking(q, j.tok)
    BY <1>2, <2>1 DEF Moves
  <2>3. PICK o \in Nat : TakingAfter(q, j.tok, o)
    BY <2>2 DEF Taking
  <2>4. o + 3 \in DOMAIN q /\ q[o + 3] = Delete(Access(j.tok))
    BY <2>3 DEF TakingAfter
  <2>5. Has(q, "DEL", Access(j.tok))
    BY <2>4 DEF Has, Delete
  <2>6. QED
    BY <1>8, <2>2, <2>5
<1>14. QED
  BY <1>9, <1>10, <1>11, <1>12, <1>13

(* What is known of the replaced tokens *)
LEMMA ReplInvariance ==
  ASSUME NEW w0, Workers = {w0}, NamesApart
  PROVE  Spec => [](Inv /\ ReplInv)
<1>1. Init => ReplInv
  <2> SUFFICES ASSUME Init PROVE ReplInv
    OBVIOUS
  <2>1. /\ tokens = <<>> /\ replaced = {} /\ db = Empty
        /\ \A w \in Workers : job[w] = Idle /\ queue[w] = <<>> /\ got[w] = <<>>
    BY DEF Init
  <2>2. DOMAIN db = {} /\ DOMAIN tokens = {}
    BY <2>1 DEF Empty
  <2>3. Idle.stage = "idle"
    BY DEF Idle
  <2>4. \A w \in Workers, u \in Users : Passed(job[w], queue[w], db, u, Lively)
    BY <2>1, <2>2 DEF Passed
  <2>5. \A w \in Workers : Chooses(job[w], got[w], Lively)
    BY <2>1, <2>3 DEF Chooses
  <2>6. \A w \in Workers : TakesOut(job[w], queue[w], got[w], db, tokens[job[w].tok].exp, now)
    BY <2>1, <2>3 DEF TakesOut
  <2>7. QED
    BY <2>1, <2>2, <2>4, <2>5, <2>6 DEF ReplInv
<1>2. Inv /\ PairInv /\ ReplInv /\ [Next]_vars => ReplInv'
  <2>1. ASSUME ReplInv, UNCHANGED vars PROVE ReplInv'
    <3>1. Lively' = Lively
      BY <2>1 DEF Lively, vars, history
    <3>2. QED
      BY <2>1, <3>1 DEF vars, history, ReplInv
  <2>2. QED
    BY <2>1, Steps, SendingKeepsRepl, ExecKeepsRepl, TickKeepsRepl
<1>3. QED
  BY <1>1, <1>2, PairInvariance, PTL DEF Spec

(* Where requests are served one at a time and none has died, a token that a    *)
(* refresh has replaced is not readable between two requests, whatever logins   *)
(* of its user follow and store again what they find (line 155): the place where *)
(* a login looks holds it no more, or it is in its last second and is stored for *)
(* no time.                                                                     *)
THEOREM AloneReplacedStayGone ==
  ASSUME NEW w0, Workers = {w0}, NamesApart
  PROVE  Spec => []ReplacedStaysGone
<1>1. Inv /\ ReplInv => ReplacedStaysGone
  <2> SUFFICES ASSUME Inv, ReplInv, NoRequests, crashes = 0, NEW n \in replaced
               PROVE  Access(n) \notin DOMAIN db
    BY DEF ReplacedStaysGone, Exists
  <2>1. queue[w0] = <<>>
    BY DEF NoRequests, Inv, Knows
  <2>2. Removed(<<>>, db, Access(n))
    BY <2>1 DEF ReplInv
  <2>3. QED
    BY <2>2 DEF Removed, Spent
<1>2. QED
  BY <1>1, ReplInvariance, PTL

-----------------------------------------------------------------------------
(* One request at a time, and none dies: the list of a user (lines 153-166) *)

(* The tokens of whose user there is one with a later end *)
Outdated ==
  {n \in DOMAIN tokens : \E m \in DOMAIN tokens :
     tokens[m].user = tokens[n].user /\ tokens[m].exp > tokens[n].exp}

(* No token was issued after the present time. *)
Dated == \A n \in DOMAIN tokens : tokens[n].exp <= now + Validity * Second

(* A login finds the user's latest token, or none. *)
LatestInv ==
  /\ Dated
  /\ crashes = 0 =>
       \A w \in Workers :
         /\ \A u \in Users : Passed(job[w], queue[w], db, u, Outdated)
         /\ Chooses(job[w], got[w], Outdated)

(* A command of a lone worker's pipeline keeps that. *)
LEMMA ExecKeepsLatest ==
  ASSUME NEW w0, Workers = {w0}, NamesApart, Inv, LatestInv, Exec(w0)
  PROVE  LatestInv'
<1> DEFINE q == queue[w0]
           j == job[w0]
           e == Apply(db, Head(q), now)
<1>1. /\ q \in Seq(Command) /\ q # <<>> /\ Head(q) \in Command /\ queue'[w0] = Tail(q)
      /\ db' = e /\ UNCHANGED <<now, tokens, job, crashes, replaced>>
  BY Obeyed
<1>2. Outdated' = Outdated
  BY <1>1 DEF Outdated
<1>3. Dated'
  BY <1>1 DEF Dated, LatestInv
<1>4. SUFFICES ASSUME crashes = 0
               PROVE  /\ \A u \in Users : Passed(j, Tail(q), e, u, Outdated)
                      /\ Chooses(j, got'[w0], Outdated)
  BY <1>1, <1>2, <1>3 DEF LatestInv
<1>5. ASSUME NEW u \in Users PROVE Passed(j, Tail(q), e, u, Outdated)
  <2>1. Passed(j, q, db, u, Outdated) /\ u \in Words /\ Stored(db, tokens)
    BY <1>4 DEF LatestInv, Words, Inv
  <2> HIDE DEF q, j
  <2>2. QED
    BY <1>1, <2>1, ExecPasses
<1>6. Chooses(j, got'[w0], Outdated)
  <2>1. Nil \notin Outdated
    BY IssuedTokens DEF NamesApart, Outdated
  <2>2. Chooses(j, got[w0], Outdated) /\ \A u \in Users : Passed(j, q, db, u, Outdated)
    BY <1>4 DEF LatestInv
  <2>3. QED
    BY <2>1, <2>2, ExecChooses
<1>7. QED
  BY <1>5, <1>6

(* Time makes no token outdated. *)
LEMMA TickKeepsLatest ==
  ASSUME NEW w0, Workers = {w0}, Inv, LatestInv, Tick
  PROVE  LatestInv'
<1> DEFINE q == queue[w0]
           j == job[w0]
           e == Alive(db, now + 1)
<1>1. /\ now' = now + 1 /\ db' = e
      /\ UNCHANGED <<tokens, job, queue, got, crashes, replaced>>
  BY DEF Tick
<1>2. Outdated' = Outdated
  BY <1>1 DEF Outdated
<1>3. Dated'
  <2>1. now \in Nat /\ Validity \in Nat /\ Second \in Nat
    BY TokenAssumption DEF Inv, Typed
  <2>2. Validity * Second \in Nat
    BY <2>1
  <2>3. \A n \in DOMAIN tokens : tokens[n].exp \in Nat /\ tokens[n].exp <= now + Validity * Second
    BY IssuedTokens DEF LatestInv, Dated
  <2> HIDE DEF e
  <2>4. \A n \in DOMAIN tokens : tokens[n].exp <= (now + 1) + Validity * Second
    BY <2>1, <2>2, <2>3
  <2>5. QED
    BY <1>1, <2>4 DEF Dated
<1>4. \A k \in DOMAIN e : k \in DOMAIN db /\ e[k] = db[k]
  BY DEF Alive
<1>5. SUFFICES ASSUME crashes = 0
               PROVE  /\ \A u \in Users : Passed(j, q, e, u, Outdated)
                      /\ Chooses(j, got[w0], Outdated)
  BY <1>1, <1>2, <1>3 DEF LatestInv
<1>6. /\ \A u \in Users : Passed(j, q, db, u, Outdated)
      /\ Chooses(j, got[w0], Outdated)
  BY <1>5 DEF LatestInv
<1> HIDE DEF q, j, e
<1>7. \A u \in Users : Passed(j, q, e, u, Outdated)
  BY <1>4, <1>6 DEF Passed
<1>8. QED
  BY <1>6, <1>7

(* A token that is stored is the latest of its user, and what became outdated just now *)
(* is of the user whose new token is stored.                                           *)
LEMMA SentLatest ==
  ASSUME NEW w0, Workers = {w0}, Inv, LatestInv, Sending(w0), crashes' = 0
  PROVE  LET i == job[w0]
             j == job'[w0]
             q == queue'[w0]
         IN  /\ i.stage # "mint" => Outdated' = Outdated
             /\ i.stage = "mint" =>
                  \A n \in Outdated' : n \in Outdated \/ (n \in DOMAIN tokens /\ tokens[n].user = i.user)
             /\ ~Reading(q) /\ ~Taking(q, j.tok) =>
                  /\ Storing(q, j.tok, j.user, ExpiresIn(j.tok, tokens'))
                  /\ Owned(j.tok, j.user, tokens')
                  /\ j.tok \notin Outdated'
             /\ i.stage = "mint" =>
                  Storing(q, j.tok, j.user, ExpiresIn(j.tok, tokens')) /\ j.user = i.user
<1> DEFINE i == job[w0]
           g == got[w0]
           j == job'[w0]
           q == queue'[w0]
           toks == tokens'
           new == Outdated'
           last == now + Validity * Second
<1>1. /\ now \in Nat /\ Moves(i, g, j, q)
      /\ Knows(j, q, <<>>, toks) /\ Knows(i, <<>>, g, tokens)
      /\ \A n \in DOMAIN toks : n \in Nat /\ toks[n].exp \in Nat
      /\ \A n \in DOMAIN tokens : n \in DOMAIN toks /\ toks[n] = tokens[n]
      /\ \A n \in DOMAIN toks : n \notin DOMAIN tokens => n = Len(tokens) + 1 /\ toks[n].exp = last
      /\ Len(tokens) + 1 \notin DOMAIN tokens
  BY SentNext
<1>2. crashes = 0 /\ queue[w0] = <<>>
  BY SentNext
<1>3. Chooses(i, g, Outdated) /\ \A n \in DOMAIN tokens : tokens[n].exp <= last
  BY <1>2 DEF LatestInv, Dated
<1>4. /\ new = {n \in DOMAIN toks : \E m \in DOMAIN toks :
                  toks[m].user = toks[n].user /\ toks[m].exp > toks[n].exp}
      /\ Outdated = {n \in DOMAIN tokens : \E m \in DOMAIN tokens :
                       tokens[m].user = tokens[n].user /\ tokens[m].exp > tokens[n].exp}
  BY DEF Outdated
<1>5. i.stage # "mint" => toks = tokens
  BY <1>1 DEF Moves
<1>6. last \in Int
  BY <1>1, TokenAssumption
<1> HIDE DEF i, g, j, q, toks, new, last
<1>7. i.stage # "mint" => new = Outdated
  BY <1>4, <1>5
<1>8. \A n \in new : n \in DOMAIN tokens
  <2>1. ASSUME NEW n \in new, n \notin DOMAIN tokens PROVE FALSE
    <3>1. PICK m \in DOMAIN toks : toks[m].exp > toks[n].exp
      BY <1>4
    <3>2. n \in DOMAIN toks /\ toks[n].exp = last
      BY <1>1, <1>4, <2>1
    <3>3. toks[m].exp <= last
      BY <1>1, <1>3, <1>6
    <3>4. toks[m].exp \in Nat
      BY <1>1
    <3>5. QED
      BY <1>6, <3>1, <3>2, <3>3, <3>4
  <2>2. QED
    BY <2>1
<1>9. ASSUME i.stage = "mint"
      PROVE  /\ Storing(q, j.tok, j.user, ExpiresIn(j.tok, toks)) /\ j.user = i.user
             /\ j.tok = Len(tokens) + 1 /\ Owned(j.tok, j.user, toks) /\ j.tok \notin new
  <2>1. \/ i.stage = "mint" /\ j.stage = "granted" /\ j.tok = Len(tokens) + 1 /\ j.user = i.user
           /\ Storing(q, j.tok, j.user, ExpiresIn(j.tok, toks))
    BY <1>1, <1>9 DEF Moves, toks
  <2>2. QED
    BY <1>1, <1>8, <2>1 DEF Knows
<1>10. ASSUME i.stage = "mint", NEW n \in new, n \notin Outdated
       PROVE  n \in DOMAIN tokens /\ tokens[n].user = i.user
  <2>1. n \in DOMAIN tokens
    BY <1>8, <1>10
  <2>2. PICK m \in DOMAIN toks : toks[m].user = toks[n].user /\ toks[m].exp > toks[n].exp
    BY <1>4, <1>10
  <2>3. m \notin DOMAIN tokens
    BY <1>1, <1>4, <1>10, <2>1, <2>2
  <2>4. m = j.tok
    BY <1>1, <1>9, <1>10, <2>3
  <2>5. QED
    BY <1>1, <1>9, <1>10, <2>1, <2>2, <2>4 DEF Owned
<1>11. ASSUME i.stage # "mint", ~Reading(q), ~Taking(q, j.tok)
       PROVE  /\ Storing(q, j.tok, j.user, ExpiresIn(j.tok, toks))
              /\ Owned(j.tok, j.user, toks) /\ j.tok \notin new
  <2>1. /\ Storing(q, j.tok, j.user, ExpiresIn(j.tok, toks)) /\ j.stage \in {"existing", "granted"}
        /\ i.stage \in {"verify", "existing"} /\ j.tok = i.tok
    BY <1>1, <1>11 DEF Moves, toks
  <2>2. j.tok \notin Outdated
    BY <1>3, <2>1 DEF Chooses
  <2>3. QED
    BY <1>1, <1>7, <1>11, <2>1, <2>2 DEF Knows
<1>12. QED
  BY <1>7, <1>8, <1>9, <1>10, <1>11 DEF i, j, q, toks, new

(* The next stage of a request *)
LEMMA SendingKeepsLatest ==
  ASSUME NEW w0, Workers = {w0}, Inv, LatestInv, Sending(w0)
  PROVE  LatestInv'
<1> DEFINE i == job[w0]
           g == got[w0]
           j == job'[w0]
           q == queue'[w0]
           toks == tokens'
           new == Outdated'
           last == now + Validity * Second
<1>1. Dated'
  <2>1. tokens \in Seq(Token) /\ DOMAIN tokens = 1..Len(tokens) /\ Len(tokens) \in Nat
    BY LenProperties DEF Inv, Typed
  <2>2. last \in Int /\ now' = now
    BY TokenAssumption DEF Inv, Typed, Sending
  <2>3. ASSUME NEW t \in Token, toks = Append(tokens, t), t.exp = last
        PROVE  \A n \in DOMAIN toks : toks[n].exp <= last
    <3>1. /\ toks \in Seq(Token) /\ Len(toks) = Len(tokens) + 1 /\ toks[Len(tokens) + 1] = t
          /\ \A n \in 1..Len(tokens) : toks[n] = tokens[n]
      BY <2>1, <2>3, AppendProperties
    <3>2. DOMAIN toks = 1..(Len(tokens) + 1)
      BY <3>1, LenProperties
    <3>3. \A n \in 1..Len(tokens) : tokens[n].exp <= last
      BY <2>1 DEF LatestInv, Dated
    <3> HIDE DEF toks, last
    <3>4. QED
      BY <2>1, <2>2, <2>3, <3>1, <3>2, <3>3
  <2>4. toks = tokens \/ \E t \in Token : toks = Append(tokens, t) /\ t.exp = last
    BY DEF Sending
  <2>5. \A n \in DOMAIN tokens : tokens[n].exp <= last
    BY DEF LatestInv, Dated
  <2> HIDE DEF toks, last
  <2>6. \A n \in DOMAIN toks : toks[n].exp <= last
    BY <2>3, <2>4, <2>5
  <2>7. QED
    BY <2>2, <2>6 DEF Dated, toks, last
<1>2. SUFFICES ASSUME crashes' = 0
               PROVE  /\ \A u \in Users : Passed(j, q, db, u, new)
                      /\ Chooses(j, <<>>, new)
  BY <1>1, SentNext DEF LatestInv
<1>3. /\ crashes = 0 /\ queue[w0] = <<>> /\ Moves(i, g, j, q)
  BY <1>2, SentNext
<1>4. /\ \A u \in Users : Passed(i, <<>>, db, u, Outdated)
      /\ Chooses(i, g, Outdated)
  BY <1>3 DEF LatestInv
<1>5. /\ i.stage # "mint" => new = Outdated
      /\ i.stage = "mint" =>
           \A n \in new : n \in Outdated \/ (n \in DOMAIN tokens /\ tokens[n].user = i.user)
      /\ ~Reading(q) /\ ~Taking(q, j.tok) =>
           Storing(q, j.tok, j.user, ExpiresIn(j.tok, toks)) /\ j.tok \notin new
      /\ i.stage = "mint" =>
           Storing(q, j.tok, j.user, ExpiresIn(j.tok, toks)) /\ j.user = i.user
  BY <1>2, SentLatest
<1>6. Reading(q) \/ Taking(q, j.tok) => \A m \in DOMAIN q : q[m].op # "SET"
  <2> HIDE DEF q, j
  <2>1. QED
    BY NothingSet
<1> HIDE DEF i, g, j, q, toks, new
<1>7. ASSUME NEW u \in Users PROVE Passed(j, q, db, u, new)
  <2> DEFINE p == AuthToAccess(u)
  <2>1. ASSUME NEW m \in DOMAIN q, q[m].op = "SET", q[m].key = p PROVE q[m].arg \notin new
    <3>1. Storing(q, j.tok, j.user, ExpiresIn(j.tok, toks)) /\ j.tok \notin new
      BY <1>5, <1>6, <2>1
    <3>2. q[m].arg = j.tok
      BY <2>1, <3>1, StoringSets
    <3>3. QED
      BY <3>1, <3>2
  <2>2. ASSUME p \in DOMAIN db, db[p].val \in new PROVE Has(q, "SET", p)
    <3>1. ~Has(<<>>, "DEL", p) /\ ~Has(<<>>, "SET", p)
      BY DEF Has
    <3>2. i.stage = "mint" /\ i.user = u
      <4>1. CASE db[p].val \in Outdated
        BY <1>4, <2>2, <3>1, <4>1 DEF Passed
      <4>2. CASE db[p].val \notin Outdated
        <5>1. i.stage = "mint" /\ tokens[db[p].val].user = i.user
          BY <1>5, <2>2, <4>2
        <5>2. Owned(db[p].val, u, tokens)
          BY <2>2 DEF Inv, Stored, Fits, AuthToAccess
        <5>3. QED
          BY <5>1, <5>2 DEF Owned
      <4>3. QED
        BY <4>1, <4>2
    <3>3. Storing(q, j.tok, u, ExpiresIn(j.tok, toks))
      BY <1>5, <3>2
    <3>4. QED
      BY <3>3, StoringSets
  <2>3. QED
    BY <2>1, <2>2 DEF Passed
<1>8. Chooses(j, <<>>, new)
  <2>1. SUFFICES ASSUME j.stage \in {"verify", "existing"} PROVE j.tok \notin new
    BY DEF Chooses
  <2>2. \/ i.stage = "found" /\ g # <<>> /\ j.tok = g[1]
        \/ i.stage = "verify" /\ j.tok = i.tok
    BY <1>3, <2>1 DEF Moves
  <2>3. new = Outdated
    BY <1>5, <2>2
  <2>4. QED
    BY <1>4, <2>2, <2>3 DEF Chooses
<1>9. QED
  BY <1>7, <1>8

(* So a login keeps finding the latest. *)
LEMMA LatestInvariance ==
  ASSUME NEW w0, Workers = {w0}, NamesApart
  PROVE  Spec => [](Inv /\ LatestInv)
<1>1. Init => LatestInv
  <2> SUFFICES ASSUME Init PROVE LatestInv
    OBVIOUS
  <2>1. /\ tokens = <<>> /\ db = Empty
        /\ \A w \in Workers : job[w] = Idle /\ queue[w] = <<>> /\ got[w] = <<>>
    BY DEF Init
  <2>2. DOMAIN db = {} /\ DOMAIN tokens = {}
    BY <2>1 DEF Empty
  <2>3. \A w \in Workers, u \in Users : Passed(job[w], queue[w], db, u, Outdated)
    BY <2>1, <2>2 DEF Passed
  <2>4. \A w \in Workers : Chooses(job[w], got[w], Outdated)
    BY <2>1 DEF Chooses, Idle
  <2>5. QED
    BY <2>2, <2>3, <2>4 DEF LatestInv, Dated
<1>2. Inv /\ LatestInv /\ [Next]_vars => LatestInv'
  <2>1. ASSUME LatestInv, UNCHANGED vars PROVE LatestInv'
    <3>1. Outdated' = Outdated
      BY <2>1 DEF Outdated, vars
    <3>2. QED
      BY <2>1, <3>1 DEF vars, LatestInv, Dated
  <2>2. QED
    BY <2>1, Steps, SendingKeepsLatest, ExecKeepsLatest, TickKeepsLatest
<1>3. QED
  BY <1>1, <1>2, Invariance, PTL DEF Spec

(* A token that is taken out is not stored, and is not readable at the end. *)
Takes(j, q, d) ==
  j.stage = "taken" =>
    /\ \A i \in DOMAIN q : q[i].op # "SET"
    /\ Has(q, "DEL", Access(j.tok)) \/ Access(j.tok) \notin DOMAIN d

TakesInv == \A w \in Workers : Takes(job[w], queue[w], db)

(* The list under key k holds m, or m is going to be pushed to it. *)
Member(d, k, m) == k \in DOMAIN d /\ \E i \in DOMAIN d[k].val : d[k].val[i] = m
Pushes(q, k, m) == \E i \in DOMAIN q : q[i].op = "RPUSH" /\ q[i].key = k /\ q[i].arg = m

(* Before its last second, a token that can be read is or is going to be in the list, *)
(* which lasts or is going to; it is taken out of the list when it is gone.           *)
Indexed(q, d, m, k, end, t) ==
  \/ Short(end, t)
  \/ /\ \A i \in DOMAIN q : q[i].op = "EXPIRE" /\ q[i].key = k => Lengthy(q[i], end, t)
     /\ \A i, l \in DOMAIN q : q[i].op = "RPUSH" /\ q[i].key = k /\ q[l].op = "EXPIRE" /\ q[l].key = k => i < l
     /\ ~Has(q, "LREM", k) \/ ~Has(q, "RPUSH", k)
     /\ \A i \in DOMAIN q : q[i].op = "LREM" /\ q[i].key = k /\ q[i].arg = m =>
          Access(m) \notin DOMAIN d /\ ~Has(q, "SET", Access(m))
     /\ Access(m) \in DOMAIN d \/ Has(q, "SET", Access(m)) =>
          \/ Has(q, "DEL", Access(m))
          \/ /\ Member(d, k, m) \/ Pushes(q, k, m)
             /\ Long(d, k, end) \/ Has(q, "EXPIRE", k)

ListInv ==
  crashes = 0 /\ ~stretched =>
    \A w \in Workers : \A m \in DOMAIN tokens :
      Indexed(queue[w], db, m, UnameToAccess(tokens[m].user), tokens[m].exp, now)

(* RPUSH adds to a list and leaves its end alone. *)
LEMMA PushHere ==
  ASSUME NEW d, NEW toks, Stored(d, toks), NEW t, NEW c \in Command, c.op = "RPUSH"
  PROVE  LET k == c.key
             e == Apply(d, c, t)
         IN  /\ k \in DOMAIN e /\ Member(e, k, c.arg)
             /\ k \in DOMAIN d => /\ e[k].dl = d[k].dl
                                  /\ \A m : Member(d, k, m) => Member(e, k, m)
<1> DEFINE k == c.key
           e == Apply(d, c, t)
           v == c.arg
           list == d[k].val
           S == DOMAIN toks \cup {v}
<1>1. e = Push(d, k, v)
  BY DEF Apply
<1>2. CASE k \notin DOMAIN d
  <2>1. k \in DOMAIN e /\ e[k].val = <<v>>
    BY <1>1, <1>2 DEF Push, Put
  <2> HIDE DEF e, v, k
  <2>2. 1 \in DOMAIN e[k].val /\ e[k].val[1] = v
    BY <2>1
  <2>3. Member(e, k, v)
    BY <2>1, <2>2 DEF Member
  <2>4. QED
    BY <1>2, <2>1, <2>3 DEF e, v, k
<1>3. CASE k \in DOMAIN d
  <2>1. k \in ListKeys
    BY CommandParts
  <2>2. list \in Seq(DOMAIN toks)
    BY <1>3, <2>1 DEF Stored, Listed
  <2>3. v \in S /\ list \in Seq(S)
    BY <2>2
  <2>4. d[k] = [val |-> d[k].val, dl |-> d[k].dl]
    BY <1>3 DEF Stored, Entry
  <2>5. e = [d EXCEPT ![k].val = Append(list, v)]
    BY <1>1, <1>3 DEF Push
  <2> HIDE DEF e, v, k, S
  <2>6. k \in DOMAIN e /\ e[k] = [d[k] EXCEPT !.val = Append(list, v)]
    BY <1>3, <2>5
  <2>7. e[k].val = Append(list, v) /\ e[k].dl = d[k].dl
    BY <2>4, <2>6
  <2> HIDE DEF list
  <2>8. /\ Append(list, v) \in Seq(S) /\ Len(Append(list, v)) = Len(list) + 1
        /\ \A i \in 1..Len(list) : Append(list, v)[i] = list[i]
        /\ Append(list, v)[Len(list) + 1] = v
    BY <2>3, AppendProperties
  <2>9. DOMAIN list = 1..Len(list) /\ Len(list) \in Nat /\ DOMAIN Append(list, v) = 1..(Len(list) + 1)
    BY <2>3, <2>8, LenProperties
  <2>10. Member(e, k, v)
    <3>1. Len(list) + 1 \in DOMAIN Append(list, v)
      BY <2>9
    <3>2. QED
      BY <2>6, <2>7, <2>8, <3>1 DEF Member
  <2>11. ASSUME NEW m, Member(d, k, m) PROVE Member(e, k, m)
    <3>1. PICK i \in DOMAIN list : list[i] = m
      BY <2>11 DEF Member, list
    <3>2. i \in DOMAIN Append(list, v) /\ Append(list, v)[i] = m
      BY <2>8, <2>9, <3>1
    <3>3. QED
      BY <2>6, <2>7, <3>2 DEF Member
  <2>12. QED
    BY <1>3, <2>6, <2>7, <2>10, <2>11 DEF e, v, k
<1>4. QED
  BY <1>2, <1>3

(* LREM takes one value out of a list, the others stay, and so does its end. *)
LEMMA RemoveHere ==
  ASSUME NEW d, NEW toks, Stored(d, toks), NEW t, NEW c \in Command, c.op = "LREM",
         NEW m, m # c.arg, Member(d, c.key, m)
  PROVE  Member(Apply(d, c, t), c.key, m) /\ Apply(d, c, t)[c.key].dl = d[c.key].dl
<1> DEFINE S    == DOMAIN toks
           k    == c.key
           val  == c.arg
           list == Value(d, k)
           at   == {x \in DOMAIN list : list[x] = val}
           i    == CHOOSE j \in at : \A x \in at : j <= x
           low  == SubSeq(list, 1, i - 1)
           high == SubSeq(list, i + 1, Len(list))
           rest == low \o high
           e    == Apply(d, c, t)
<1>1. k \in DOMAIN d /\ list = d[k].val /\ \E p \in DOMAIN list : list[p] = m
  BY DEF Member, Value
<1>2. e = IF at = {} THEN d
          ELSE IF rest = <<>> THEN Without(d, k)
          ELSE [d EXCEPT ![k].val = rest]
  BY <1>1 DEF Apply, RemoveOne
<1>3. CASE at = {}
  BY <1>2, <1>3
<1>4. CASE at # {}
  <2>1. k \in ListKeys
    BY CommandParts
  <2>2. list \in Seq(S)
    BY <1>1, <2>1 DEF Stored, Listed
  <2>3. Len(list) \in Nat /\ DOMAIN list = 1..Len(list)
    <3> HIDE DEF list, S
    <3>1. QED
      BY <2>2, LenProperties
  <2>4. d[k] = [val |-> d[k].val, dl |-> d[k].dl]
    BY <1>1 DEF Stored, Entry
  <2> HIDE DEF e, list, k, val
  <2>5. at \in SUBSET Nat
    BY <2>3
  <2>6. \E j \in at : \A x \in at : j <= x
    <3> HIDE DEF at
    <3>1. QED
      BY <1>4, <2>5, Numbers!LeastNumber
  <2>7. i \in at
    <3> HIDE DEF at
    <3>1. QED
      BY <2>6
  <2>8. i \in 1..Len(list) /\ list[i] = val
    BY <2>3, <2>7
  <2> HIDE DEF i, at
  <2>9. PICK p \in 1..Len(list) : list[p] = m
    BY <1>1, <2>3
  <2>10. p # i /\ p \in Nat /\ i \in Nat
    BY <2>3, <2>8, <2>9 DEF val
  <2>11. /\ i - 1 \in Int /\ i + 1 \in Int /\ Len(list) \in Int
         /\ \A x \in 1..(i - 1) : list[x] \in S
         /\ \A x \in (i + 1)..Len(list) : list[x] \in S
    <3>1. \A x \in 1..Len(list) : list[x] \in S
      <4> HIDE DEF S
      <4>1. QED
        BY <2>2, ElementOfSeq
    <3>2. QED
      BY <2>3, <2>8, <3>1
  <2> HIDE DEF S
  <2>12. /\ low \in Seq(S) /\ Len(low) = i - 1
         /\ \A x \in 1..(i - 1) : low[x] = list[x]
    <3>1. /\ low \in Seq(S) /\ Len(low) = (IF 1 <= i - 1 THEN (i - 1) - 1 + 1 ELSE 0)
          /\ \A x \in 1..((i - 1) - 1 + 1) : low[x] = list[1 + x - 1]
      BY <2>11, SubSeqProperties
    <3> HIDE DEF low
    <3>2. QED
      BY <2>8, <2>10, <3>1
  <2>13. /\ high \in Seq(S) /\ Len(high) = Len(list) - i
         /\ \A x \in 1..(Len(list) - i) : high[x] = list[i + x]
    <3>1. /\ high \in Seq(S) /\ Len(high) = (IF i + 1 <= Len(list) THEN Len(list) - (i + 1) + 1 ELSE 0)
          /\ \A x \in 1..(Len(list) - (i + 1) + 1) : high[x] = list[(i + 1) + x - 1]
      BY <2>11, SubSeqProperties
    <3> HIDE DEF high
    <3>2. Len(high) = Len(list) - i
      <4>1. \A l, x \in Nat : x <= l => (IF x + 1 <= l THEN l - (x + 1) + 1 ELSE 0) = l - x
        OBVIOUS
      <4>2. i <= Len(list)
        BY <2>3, <2>8
      <4>3. QED
        BY <2>3, <2>10, <3>1, <4>1, <4>2
    <3>3. ASSUME NEW x \in 1..(Len(list) - i) PROVE high[x] = list[i + x]
      <4>1. x \in 1..(Len(list) - (i + 1) + 1) /\ (i + 1) + x - 1 = i + x
        BY <2>3, <2>10
      <4>2. high[x] = list[(i + 1) + x - 1]
        BY <3>1, <4>1
      <4>3. QED
        BY <4>1, <4>2
    <3>4. QED
      BY <3>1, <3>2, <3>3
  <2> HIDE DEF low, high
  <2>14. /\ rest \in Seq(S) /\ Len(rest) = Len(low) + Len(high)
         /\ \A x \in 1..(Len(low) + Len(high)) :
              rest[x] = IF x <= Len(low) THEN low[x] ELSE high[x - Len(low)]
    BY <2>12, <2>13, ConcatProperties
  <2> HIDE DEF rest
  <2>15. \E x \in 1..Len(rest) : rest[x] = m
    <3>1. Len(rest) = Len(list) - 1
      BY <2>3, <2>10, <2>12, <2>13, <2>14
    <3>2. CASE p < i
      <4>1. p \in 1..(i - 1) /\ p \in 1..(Len(low) + Len(high)) /\ p <= Len(low)
        BY <2>3, <2>8, <2>9, <2>10, <2>12, <2>13, <3>2
      <4>2. rest[p] = list[p]
        BY <2>12, <2>14, <4>1
      <4>3. QED
        BY <2>9, <2>14, <4>1, <4>2
    <3>3. CASE p > i
      <4>1. /\ p - 1 \in 1..(Len(low) + Len(high)) /\ ~(p - 1 <= Len(low))
            /\ (p - 1) - Len(low) = p - i /\ p - i \in 1..(Len(list) - i) /\ i + (p - i) = p
        BY <2>3, <2>8, <2>9, <2>10, <2>12, <2>13, <3>3
      <4>2. rest[p - 1] = high[p - i]
        BY <2>14, <4>1
      <4>3. high[p - i] = list[p]
        BY <2>13, <4>1
      <4>4. QED
        BY <2>9, <2>14, <4>1, <4>2, <4>3
    <3>4. QED
      BY <2>10, <3>2, <3>3
  <2>16. rest # <<>> /\ DOMAIN rest = 1..Len(rest)
    <3>1. DOMAIN rest = 1..Len(rest)
      BY <2>14, LenProperties
    <3>2. QED
      BY <2>15, <3>1
  <2>17. e = [d EXCEPT ![k].val = rest]
    BY <1>2, <1>4, <2>16
  <2>18. k \in DOMAIN e /\ e[k] = [d[k] EXCEPT !.val = rest]
    BY <1>1, <2>17
  <2>19. e[k].val = rest /\ e[k].dl = d[k].dl
    BY <2>4, <2>18
  <2>20. QED
    BY <2>15, <2>16, <2>18, <2>19 DEF Member, e, k
<1>5. QED
  BY <1>3, <1>4

(* A command of a pipeline keeps the list and what is said of it, *)
LEMMA ExecIndexes ==
  ASSUME NEW d, NEW toks, Stored(d, toks), NEW t \in Int, NEW end \in Int,
         NEW m, Access(m) \in PlainKeys, AuthOf(m) \in PlainKeys, NEW k \in ListKeys,
         NEW q \in Seq(Command), q # <<>>,
         Ordered(q, Access(m), AuthOf(m)), Indexed(q, d, m, k, end, t)
  PROVE  Indexed(Tail(q), Apply(d, Head(q), t), m, k, end, t)
<1> DEFINE r == Tail(q)
           c == Head(q)
           e == Apply(d, c, t)
           a == Access(m)
<1>1. /\ c = q[1] /\ 1 \in DOMAIN q /\ c \in Command
      /\ \A i \in DOMAIN r : i \in Int /\ i >= 1 /\ i + 1 \in DOMAIN q /\ r[i] = q[i + 1]
      /\ \A i \in DOMAIN q : /\ i \in Int /\ i >= 1
                             /\ i # 1 => i - 1 \in DOMAIN r /\ r[i - 1] = q[i]
  BY TailShift, TailGood
<1>2. \A op, x : /\ Has(r, op, x) => Has(q, op, x)
                 /\ Has(q, op, x) => Has(r, op, x) \/ (c.op = op /\ c.key = x)
  BY HasAfter, HasBefore
<1>3. \A x : x # c.key \/ c.op = "GET" =>
                (x \in DOMAIN e <=> x \in DOMAIN d) /\ (x \in DOMAIN d => e[x] = d[x])
  BY <1>1, ApplyElsewhere
<1>4. a # k /\ (c.key = k => c.op \in {"RPUSH", "LREM", "EXPIRE"})
      /\ (c.key = a => c.op \in {"GET", "SET", "DEL", "EXPIRE"})
  BY <1>1, KeyKinds, CommandParts DEF Commands
<1>5. c.key = a => /\ c.op = "DEL" => a \notin DOMAIN e
                   /\ c.op = "EXPIRE" /\ a \in DOMAIN e => a \in DOMAIN d
  BY <1>1, ApplyHere, ExpireHere
<1>6. SUFFICES ASSUME ~Short(end, t)
               PROVE  Indexed(r, e, m, k, end, t)
  BY DEF Indexed
<1>7. /\ \A i \in DOMAIN q : q[i].op = "EXPIRE" /\ q[i].key = k => Lengthy(q[i], end, t)
      /\ \A i, l \in DOMAIN q : q[i].op = "RPUSH" /\ q[i].key = k /\ q[l].op = "EXPIRE" /\ q[l].key = k => i < l
      /\ ~Has(q, "LREM", k) \/ ~Has(q, "RPUSH", k)
      /\ \A i \in DOMAIN q : q[i].op = "LREM" /\ q[i].key = k /\ q[i].arg = m =>
           a \notin DOMAIN d /\ ~Has(q, "SET", a)
      /\ a \in DOMAIN d \/ Has(q, "SET", a) =>
           \/ Has(q, "DEL", a)
           \/ (Member(d, k, m) \/ Pushes(q, k, m)) /\ (Long(d, k, end) \/ Has(q, "EXPIRE", k))
  BY <1>6 DEF Indexed
<1>8. Ordered(q, a, AuthOf(m))
  OBVIOUS
<1> HIDE DEF r, c, e, a
<1>9. ASSUME c.key = k, c.op = "RPUSH"
      PROVE  /\ k \in DOMAIN e /\ Member(e, k, c.arg)
             /\ k \in DOMAIN d => e[k].dl = d[k].dl
             /\ Member(d, k, m) => Member(e, k, m)
  <2>1. /\ c.key \in DOMAIN e /\ Member(e, c.key, c.arg)
        /\ c.key \in DOMAIN d => /\ e[c.key].dl = d[c.key].dl
                                 /\ \A x : Member(d, c.key, x) => Member(e, c.key, x)
    <3>1. c \in Command /\ c.op = "RPUSH"
      BY <1>1, <1>9
    <3>2. QED
      BY <3>1, PushHere, Zenon DEF e
  <2>2. QED
    BY <1>9, <2>1 DEF Member
<1>10. ASSUME c.key = k, c.op = "LREM", m # c.arg, Member(d, k, m)
       PROVE  Member(e, k, m) /\ e[k].dl = d[k].dl
  <2>1. Member(d, c.key, m)
    BY <1>10
  <2>2. Member(e, c.key, m) /\ e[c.key].dl = d[c.key].dl
    <3>1. c \in Command /\ c.op = "LREM" /\ m # c.arg
      BY <1>1, <1>10
    <3>2. QED
      BY <2>1, <3>1, RemoveHere, Zenon DEF e
  <2>3. QED
    BY <1>10, <2>2
<1>11. c.key = k /\ c.op = "EXPIRE" /\ c.arg > 0 /\ k \in DOMAIN d =>
         k \in DOMAIN e /\ e[k].dl = t + c.arg * Second /\ e[k].val = d[k].val
  BY <1>1, ExpireHere DEF e
<1>12. \A i \in DOMAIN r : r[i].op = "EXPIRE" /\ r[i].key = k => Lengthy(r[i], end, t)
  BY <1>1, <1>7
<1>13. \A i, l \in DOMAIN r : r[i].op = "RPUSH" /\ r[i].key = k /\ r[l].op = "EXPIRE" /\ r[l].key = k => i < l
  <2>1. ASSUME NEW i \in DOMAIN r, NEW l \in DOMAIN r,
               r[i].op = "RPUSH", r[i].key = k, r[l].op = "EXPIRE", r[l].key = k
        PROVE  i < l
    <3>1. i + 1 < l + 1
      BY <1>1, <1>7, <2>1
    <3>2. QED
      BY <1>1, <3>1
  <2>2. QED
    BY <2>1
<1>14. ~Has(r, "LREM", k) \/ ~Has(r, "RPUSH", k)
  BY <1>2, <1>7
<1>15. ASSUME NEW i \in DOMAIN r, r[i].op = "LREM", r[i].key = k, r[i].arg = m
       PROVE  a \notin DOMAIN e /\ ~Has(r, "SET", a)
  <2>1. a \notin DOMAIN d /\ ~Has(q, "SET", a)
    BY <1>1, <1>7, <1>15
  <2>2. ~(c.op = "SET" /\ c.key = a)
    BY <1>1, <2>1 DEF Has
  <2>3. a \notin DOMAIN e
    BY <1>3, <1>4, <1>5, <2>1, <2>2
  <2>4. QED
    BY <1>2, <2>1, <2>3
<1>16. ASSUME a \in DOMAIN e \/ Has(r, "SET", a), ~Has(r, "DEL", a)
       PROVE  (Member(e, k, m) \/ Pushes(r, k, m)) /\ (Long(e, k, end) \/ Has(r, "EXPIRE", k))
  <2>1. ~(c.op = "DEL" /\ c.key = a)
    <3>1. SUFFICES ASSUME c.op = "DEL", c.key = a PROVE FALSE
      OBVIOUS
    <3>2. Has(q, "SET", a)
      BY <1>2, <1>5, <1>16, <3>1
    <3>3. PICK i \in DOMAIN q : q[i].op = "SET" /\ q[i].key = a
      BY <3>2 DEF Has
    <3>4. QED
      BY <1>1, <1>8, <3>1, <3>3 DEF Ordered, Touches
  <2>2. a \in DOMAIN d \/ Has(q, "SET", a)
    <3>1. c.op = "SET" /\ c.key = a => Has(q, "SET", a)
      BY <1>1 DEF Has
    <3>2. QED
      BY <1>2, <1>3, <1>4, <1>5, <1>16, <3>1
  <2>3. ~Has(q, "DEL", a)
    BY <1>2, <1>16, <2>1
  <2>4. (Member(d, k, m) \/ Pushes(q, k, m)) /\ (Long(d, k, end) \/ Has(q, "EXPIRE", k))
    BY <1>7, <2>2, <2>3
  <2>5. Pushes(q, k, m) => Pushes(r, k, m) \/ (c.op = "RPUSH" /\ c.key = k /\ c.arg = m)
    BY <1>1 DEF Pushes
  <2>6. CASE c.key # k
    <3>1. Member(d, k, m) => Member(e, k, m)
      BY <1>3, <2>6 DEF Member
    <3>2. Long(d, k, end) => Long(e, k, end)
      BY <1>3, <2>6 DEF Long
    <3>3. QED
      BY <1>2, <2>4, <2>5, <2>6, <3>1, <3>2
  <2>7. CASE c.key = k /\ c.op = "RPUSH"
    <3>1. Member(e, k, m) \/ Pushes(r, k, m)
      BY <1>9, <2>4, <2>5, <2>7
    <3>2. Long(d, k, end) => Long(e, k, end)
      BY <1>9, <2>7 DEF Long
    <3>3. QED
      BY <1>2, <2>4, <2>7, <3>1, <3>2
  <2>8. CASE c.key = k /\ c.op = "LREM"
    <3>1. c.arg # m
      BY <1>1, <1>7, <2>2, <2>8
    <3>2. ~Pushes(q, k, m)
      BY <1>1, <1>7, <2>8 DEF Has, Pushes
    <3>3. Member(e, k, m) /\ e[k].dl = d[k].dl
      BY <1>10, <2>4, <2>8, <3>1, <3>2
    <3>4. Long(d, k, end) => Long(e, k, end)
      BY <3>3 DEF Long, Member
    <3>5. QED
      BY <1>2, <2>4, <2>8, <3>3, <3>4
  <2>9. CASE c.key = k /\ c.op = "EXPIRE"
    <3>1. ~Pushes(q, k, m)
      <4>1. SUFFICES ASSUME NEW i \in DOMAIN q, q[i].op = "RPUSH", q[i].key = k PROVE FALSE
        BY DEF Pushes
      <4>2. i < 1
        BY <1>1, <1>7, <2>9, <4>1
      <4>3. QED
        BY <1>1, <4>2
    <3>2. k \in DOMAIN d /\ Member(d, k, m)
      BY <2>4, <3>1 DEF Member
    <3>3. c.arg \in Int /\ Second \in Nat /\ t + c.arg * Second > end - Second
      <4>1. Lengthy(c, end, t)
        BY <1>1, <1>7, <2>9
      <4>2. QED
        BY <1>1, <2>9, <4>1, CommandParts, TokenAssumption DEF Lengthy
    <3>4. c.arg * Second \in Int
      BY <3>3
    <3>5. c.arg * Second > 0
      BY <1>6, <3>3, <3>4 DEF Short
    <3>6. c.arg > 0
      BY <3>3, <3>5, SecondsLeft
    <3>7. k \in DOMAIN e /\ e[k].dl = t + c.arg * Second /\ e[k].val = d[k].val
      BY <1>11, <2>9, <3>2, <3>6
    <3>8. QED
      BY <3>2, <3>3, <3>7 DEF Member, Long
  <2>10. QED
    BY <1>4, <2>6, <2>7, <2>8, <2>9
<1>17. QED
  BY <1>12, <1>13, <1>14, <1>15, <1>16 DEF Indexed, r, c, e, a

(* and so does a tick between two pipelines. *)
LEMMA TickIndexes ==
  ASSUME NEW d, NEW toks, Stored(d, toks), NEW t \in Int, NEW end \in Int, NEW m, NEW k,
         Indexed(<<>>, d, m, k, end, t)
  PROVE  Indexed(<<>>, Alive(d, t + 1), m, k, end, t + 1)
<1> DEFINE e == Alive(d, t + 1)
<1>1. \A op, x : ~Has(<<>>, op, x)
  BY DEF Has
<1>2. SUFFICES ASSUME ~Short(end, t + 1), Access(m) \in DOMAIN e
               PROVE  Member(e, k, m) /\ Long(e, k, end)
  BY <1>1 DEF Indexed
<1>3. Second \in Nat /\ ~Short(end, t) /\ end - (t + 1) >= Second
  BY <1>2, TokenAssumption DEF Short
<1>4. Access(m) \in DOMAIN d
  BY <1>2 DEF Alive
<1>5. Member(d, k, m) /\ Long(d, k, end)
  BY <1>1, <1>3, <1>4 DEF Indexed, Pushes
<1>6. k \in DOMAIN d /\ d[k].dl \in Int \cup {Forever}
  BY <1>5 DEF Long, Stored, Entry
<1>7. d[k].dl = Forever \/ d[k].dl > t + 1
  BY <1>3, <1>5, <1>6 DEF Long
<1>8. k \in DOMAIN e /\ e[k] = d[k]
  BY <1>6, <1>7 DEF Alive
<1> HIDE DEF e
<1>9. QED
  BY <1>5, <1>8 DEF Member, Long

(* What a worker is about to take out of the list is not readable. *)
LEMMA ExecTakes ==
  ASSUME NEW d, NEW toks, Stored(d, toks), NEW t, NEW j, j.tok \in Words,
         NEW q \in Seq(Command), q # <<>>, Takes(j, q, d)
  PROVE  Takes(j, Tail(q), Apply(d, Head(q), t))
<1> DEFINE r == Tail(q)
           c == Head(q)
           e == Apply(d, c, t)
           a == Access(j.tok)
<1>1. /\ c = q[1] /\ 1 \in DOMAIN q /\ c \in Command
      /\ \A i \in DOMAIN r : i \in Int /\ i >= 1 /\ i + 1 \in DOMAIN q /\ r[i] = q[i + 1]
  BY TailShift, TailGood
<1>2. a \in PlainKeys
  BY KeysTyped
<1>3. SUFFICES ASSUME j.stage = "taken"
               PROVE  (\A i \in DOMAIN r : r[i].op # "SET") /\ (Has(r, "DEL", a) \/ a \notin DOMAIN e)
  BY DEF Takes
<1>4. (\A i \in DOMAIN q : q[i].op # "SET") /\ (Has(q, "DEL", a) \/ a \notin DOMAIN d)
  BY <1>3 DEF Takes
<1>5. c.op # "SET" /\ \A i \in DOMAIN r : r[i].op # "SET"
  BY <1>1, <1>4
<1>6. a \notin DOMAIN d => a \notin DOMAIN e
  <2>1. CASE c.key # a \/ c.op = "GET"
    BY <1>1, <2>1, ApplyElsewhere
  <2>2. CASE c.key = a /\ c.op = "DEL"
    BY <1>1, <1>2, <2>2, ApplyHere
  <2>3. CASE c.key = a /\ c.op = "EXPIRE"
    BY <1>1, <2>3, ExpireHere
  <2>4. c.key = a => c.op \in {"GET", "SET", "DEL", "EXPIRE"}
    BY <1>1, <1>2, ApplyHere
  <2>5. QED
    BY <1>5, <2>1, <2>2, <2>3, <2>4
<1>7. CASE c.op = "DEL" /\ c.key = a
  BY <1>1, <1>2, <1>5, <1>7, ApplyHere
<1>8. CASE ~(c.op = "DEL" /\ c.key = a)
  <2>1. Has(q, "DEL", a) => Has(r, "DEL", a)
    BY <1>8, HasAfter
  <2>2. QED
    BY <1>4, <1>5, <1>6, <2>1
<1>9. QED
  BY <1>7, <1>8

(* The pipelines, by what they do to the list of a user *)
LEMMA QuietIndexes ==
  ASSUME NEW q, NEW d, NEW m, NEW k, NEW end, NEW t,
         \A i \in DOMAIN q : q[i].op \in {"GET", "DEL", "LREM"},
         \A i \in DOMAIN q : q[i].op = "LREM" /\ q[i].arg = m => Access(m) \notin DOMAIN d,
         Access(m) \in DOMAIN d => Short(end, t) \/ (Member(d, k, m) /\ Long(d, k, end))
  PROVE  Indexed(q, d, m, k, end, t)
<1>1. \A x : ~Has(q, "SET", x) /\ ~Has(q, "RPUSH", x) /\ ~Has(q, "EXPIRE", x)
  BY DEF Has
<1>2. QED
  BY <1>1 DEF Indexed

(* Storing a token pushes it, and gives the list the time left to the user's latest. *)
LEMMA StoringIndexes ==
  ASSUME NEW q, NEW n, NEW u, NEW toks, toks[n].exp \in Nat, now \in Nat, Owned(n, u, toks),
         Storing(q, n, u, ExpiresIn(n, toks)), NEW d, NEW m, toks[m].exp \in Nat,
         toks[m].user = u => toks[m].exp <= toks[n].exp,
         Access(m) \in DOMAIN d =>
           Short(toks[m].exp, now) \/
           (Member(d, UnameToAccess(toks[m].user), m) /\ Long(d, UnameToAccess(toks[m].user), toks[m].exp))
  PROVE  Indexed(q, d, m, UnameToAccess(toks[m].user), toks[m].exp, now)
<1> DEFINE k == UnameToAccess(toks[m].user)
           p == UnameToAccess(u)
           e == ExpiresIn(n, toks)
           end == toks[m].exp
<1>1. /\ 4 \in DOMAIN q /\ q[4].op = "RPUSH" /\ q[4].key = p /\ q[4].arg = n
      /\ 10 \in DOMAIN q /\ q[10].op = "EXPIRE" /\ q[10].key = p /\ q[10].arg = e
      /\ \A i \in DOMAIN q : i \notin {4, 10} => q[i].key[1] # "uname_to_access"
      /\ \A i \in DOMAIN q : q[i].op \notin {"LREM", "DEL"}
  BY DEF Storing, Append1, Live
<1>2. k[1] = "uname_to_access" /\ (k = p => toks[m].user = u) /\ (toks[m].user = u => k = p)
  BY DEF UnameToAccess
<1>3. now + e * Second > toks[n].exp - Second /\ e * Second \in Int
  <2>1. toks[n].exp - now \in Int /\ Second \in Nat
    BY TokenAssumption
  <2>2. ((toks[n].exp - now) \div Second) * Second > (toks[n].exp - now) - Second
    BY <2>1, LastSecond
  <2>3. ((toks[n].exp - now) \div Second) * Second \in Int
    BY <2>1, WholeSeconds
  <2>4. QED
    BY <2>1, <2>2, <2>3 DEF ExpiresIn
<1>4. Has(q, "SET", Access(m)) => m = n
  BY StoringSets
<1>5. toks[n].user = u
  BY DEF Owned
<1> HIDE DEF k, p, e, end
<1>6. \A i \in DOMAIN q : q[i].key = k => i \in {4, 10} /\ k = p
  BY <1>1, <1>2
<1>7. ASSUME NEW i \in DOMAIN q, q[i].op = "EXPIRE", q[i].key = k PROVE Lengthy(q[i], end, now)
  <2>1. i = 10 /\ k = p
    BY <1>1, <1>6, <1>7
  <2>2. end <= toks[n].exp /\ q[i].arg = e
    BY <1>1, <1>2, <2>1 DEF end
  <2>3. Second \in Nat /\ end \in Int
    BY TokenAssumption DEF end
  <2>4. now + e * Second > end - Second
    BY <1>3, <2>2, <2>3
  <2>5. QED
    BY <1>7, <2>2, <2>4 DEF Lengthy
<1>8. \A i, l \in DOMAIN q : q[i].op = "RPUSH" /\ q[i].key = k /\ q[l].op = "EXPIRE" /\ q[l].key = k => i < l
  <2>1. ASSUME NEW i \in DOMAIN q, NEW l \in DOMAIN q,
               q[i].op = "RPUSH", q[i].key = k, q[l].op = "EXPIRE", q[l].key = k
        PROVE  i < l
    <3>1. i = 4 /\ l = 10
      BY <1>1, <1>6, <2>1
    <3>2. QED
      BY <3>1
  <2>2. QED
    BY <2>1
<1>9. ~Has(q, "LREM", k)
  BY <1>1 DEF Has
<1>10. ASSUME Has(q, "SET", Access(m)) PROVE Pushes(q, k, m) /\ Has(q, "EXPIRE", k)
  <2>1. m = n /\ k = p
    BY <1>2, <1>4, <1>5, <1>10
  <2>2. QED
    BY <1>1, <2>1 DEF Pushes, Has
<1>11. Access(m) \in DOMAIN d => Short(end, now) \/ (Member(d, k, m) /\ Long(d, k, end))
  BY DEF k, end
<1>12. \A i \in DOMAIN q : q[i].op # "LREM"
  BY <1>1
<1>13. Indexed(q, d, m, k, end, now)
  BY <1>7, <1>8, <1>9, <1>10, <1>11, <1>12 DEF Indexed
<1>14. QED
  BY <1>13 DEF k, end

(* What is known of the lists is kept by a command, *)
LEMMA ExecKeepsLists ==
  ASSUME NEW w0, Workers = {w0}, Inv, PairInv, TakesInv, ListInv, Exec(w0)
  PROVE  TakesInv' /\ ListInv'
<1> DEFINE q == queue[w0]
           j == job[w0]
           e == Apply(db, Head(q), now)
           end(m) == tokens[m].exp
           k(m) == UnameToAccess(tokens[m].user)
<1>1. /\ q \in Seq(Command) /\ q # <<>> /\ Head(q) \in Command /\ queue'[w0] = Tail(q)
      /\ db' = e /\ UNCHANGED <<now, tokens, job, crashes, replaced>>
  BY Obeyed
<1>2. stretched' = stretched
  BY DEF Exec, history
<1>3. Stored(db, tokens) /\ now \in Int /\ j.tok \in Words /\ tokens \in Seq(Token)
  BY DEF Inv, Typed, Job
<1>4. TakesInv'
  <2>1. Takes(j, q, db)
    BY DEF TakesInv
  <2> HIDE DEF q, j
  <2>2. Takes(j, Tail(q), Apply(db, Head(q), now))
    BY <1>1, <1>3, <2>1, ExecTakes
  <2>3. QED
    BY <1>1, <2>2 DEF TakesInv, j
<1>5. ASSUME crashes = 0, ~stretched, NEW m \in DOMAIN tokens
      PROVE  Indexed(Tail(q), e, m, k(m), end(m), now)
  <2>1. m \in Words /\ end(m) \in Int
    BY IssuedTokens
  <2>2. tokens[m] \in Token
    BY <1>3, ElementOfSeq, LenProperties
  <2>3. tokens[m].user \in Words
    BY <2>2 DEF Token, Words
  <2>4. k(m) \in ListKeys
    BY <2>3, KeysTyped
  <2>5. Access(m) \in PlainKeys /\ AuthOf(m) \in PlainKeys
    BY <2>1, KeysTyped
  <2>6. Paired(q, db, Access(m), AuthOf(m), now)
    BY <1>5, <2>1 DEF PairInv
  <2>7. Ordered(q, Access(m), AuthOf(m))
    BY <2>6 DEF Paired
  <2>8. Indexed(q, db, m, k(m), end(m), now)
    BY <1>5 DEF ListInv
  <2> HIDE DEF q, end, k
  <2>9. QED
    BY <1>1, <1>3, <2>1, <2>4, <2>5, <2>7, <2>8, ExecIndexes
<1>6. ListInv'
  BY <1>1, <1>2, <1>5 DEF ListInv
<1>7. QED
  BY <1>4, <1>6

(* by a tick, *)
LEMMA TickKeepsLists ==
  ASSUME NEW w0, Workers = {w0}, Inv, TakesInv, ListInv, Tick
  PROVE  TakesInv' /\ ListInv'
<1>1. /\ now' = now + 1 /\ db' = Alive(db, now + 1)
      /\ UNCHANGED <<tokens, job, queue, crashes>>
  BY DEF Tick
<1>2. DOMAIN Alive(db, now + 1) \subseteq DOMAIN db
  BY DEF Alive
<1>3. TakesInv'
  BY <1>1, <1>2 DEF TakesInv, Takes
<1>4. ASSUME crashes' = 0, ~stretched' PROVE crashes = 0 /\ ~stretched /\ queue[w0] = <<>>
  BY <1>1, <1>4 DEF Tick
<1>5. ASSUME crashes' = 0, ~stretched', NEW m \in DOMAIN tokens
      PROVE  Indexed(<<>>, Alive(db, now + 1), m, UnameToAccess(tokens[m].user), tokens[m].exp, now + 1)
  <2>1. Indexed(<<>>, db, m, UnameToAccess(tokens[m].user), tokens[m].exp, now)
    BY <1>4, <1>5 DEF ListInv
  <2>2. tokens[m].exp \in Int /\ now \in Int /\ Stored(db, tokens)
    BY IssuedTokens DEF Inv, Typed
  <2>3. QED
    BY <2>1, <2>2, TickIndexes
<1>6. ListInv'
  BY <1>1, <1>4, <1>5 DEF ListInv
<1>7. QED
  BY <1>3, <1>6

(* What a lone worker relies on when it goes on *)
LEMMA SentIndexed ==
  ASSUME NEW w0, Workers = {w0}, Inv, TakesInv, ListInv, Sending(w0), crashes' = 0, ~stretched
  PROVE  /\ \A m \in DOMAIN tokens' : Access(m) \in DOMAIN db =>
              \/ Short(tokens'[m].exp, now)
              \/ /\ Member(db, UnameToAccess(tokens'[m].user), m)
                 /\ Long(db, UnameToAccess(tokens'[m].user), tokens'[m].exp)
         /\ job[w0].stage = "taken" => Access(job[w0].tok) \notin DOMAIN db
<1>1. /\ crashes = 0 /\ queue[w0] = <<>>
      /\ \A m \in DOMAIN tokens : m \in DOMAIN tokens' /\ tokens'[m] = tokens[m]
  BY SentNext
<1>2. \A op, x : ~Has(<<>>, op, x)
  BY DEF Has
<1>3. ASSUME job[w0].stage = "taken" PROVE Access(job[w0].tok) \notin DOMAIN db
  BY <1>1, <1>2, <1>3 DEF TakesInv, Takes
<1>4. ASSUME NEW m \in DOMAIN tokens', Access(m) \in DOMAIN db
      PROVE  \/ Short(tokens'[m].exp, now)
             \/ /\ Member(db, UnameToAccess(tokens'[m].user), m)
                /\ Long(db, UnameToAccess(tokens'[m].user), tokens'[m].exp)
  <2>1. m \in DOMAIN tokens
    BY <1>4 DEF Inv, Stored, Fits, Access, TokenKinds
  <2>2. Indexed(<<>>, db, m, UnameToAccess(tokens[m].user), tokens[m].exp, now)
    BY <1>1, <2>1 DEF ListInv
  <2>3. Short(tokens[m].exp, now) \/ (Member(db, UnameToAccess(tokens[m].user), m)
                                      /\ Long(db, UnameToAccess(tokens[m].user), tokens[m].exp))
    BY <1>2, <1>4, <2>2 DEF Indexed, Pushes
  <2>4. QED
    BY <1>1, <2>1, <2>3
<1>5. QED
  BY <1>3, <1>4

(* and by the next stage of the request. *)
LEMMA SendingKeepsLists ==
  ASSUME NEW w0, Workers = {w0}, Inv, LatestInv, TakesInv, ListInv, Sending(w0)
  PROVE  TakesInv' /\ ListInv'
<1> DEFINE i == job[w0]
           g == got[w0]
           j == job'[w0]
           q == queue'[w0]
           toks == tokens'
           new == Outdated'
           k(m) == UnameToAccess(toks[m].user)
<1>1. TakesInv'
  <2>1. SUFFICES ASSUME j.stage = "taken" PROVE Takes(j, q, db')
    BY DEF TakesInv, Takes
  <2>2. Moves(i, g, j, q)
    BY <2>1, SentAlone
  <2>3. Taking(q, j.tok)
    BY <2>1, <2>2 DEF Moves
  <2> HIDE DEF q, j
  <2>4. PICK o \in Nat : TakingAfter(q, j.tok, o)
    BY <2>3 DEF Taking
  <2>5. o + 3 \in DOMAIN q /\ q[o + 3] = Delete(Access(j.tok))
    BY <2>4 DEF TakingAfter
  <2>6. Has(q, "DEL", Access(j.tok))
    BY <2>5 DEF Has, Delete
  <2>7. \A m \in DOMAIN q : q[m].op # "SET"
    BY <2>3, NothingSet
  <2>8. QED
    BY <2>6, <2>7 DEF Takes
<1>2. SUFFICES ASSUME crashes' = 0, ~stretched, NEW m \in DOMAIN toks
               PROVE  Indexed(q, db, m, k(m), toks[m].exp, now)
  <2>1. db' = db /\ now' = now /\ stretched' = stretched
    BY DEF Sending
  <2>2. QED
    BY <1>1, <2>1 DEF ListInv
<1>3. /\ now \in Nat /\ Moves(i, g, j, q)
      /\ \A n \in DOMAIN toks : n \in Nat /\ toks[n].exp \in Nat
  BY <1>2, SentNext
<1>4. /\ Access(m) \in DOMAIN db =>
           Short(toks[m].exp, now) \/ (Member(db, k(m), m) /\ Long(db, k(m), toks[m].exp))
      /\ i.stage = "taken" => Access(i.tok) \notin DOMAIN db
  BY <1>2, SentIndexed
<1>5. /\ ~Reading(q) /\ ~Taking(q, j.tok) =>
           /\ Storing(q, j.tok, j.user, ExpiresIn(j.tok, toks))
           /\ Owned(j.tok, j.user, toks) /\ j.tok \notin new
  BY <1>2, SentLatest
<1>6. new = {n \in DOMAIN toks : \E o \in DOMAIN toks :
               toks[o].user = toks[n].user /\ toks[o].exp > toks[n].exp}
  BY DEF Outdated
<1> HIDE DEF i, g, j, q, toks, new
<1>7. CASE Reading(q) \/ Taking(q, j.tok)
  <2>1. \A n \in DOMAIN q : q[n].op \in {"GET", "DEL", "LREM"}
    BY <1>7 DEF Reading, Taking, TakingAfter, Get, Delete
  <2>2. \A n \in DOMAIN q : q[n].op = "LREM" /\ q[n].arg = m => Access(m) \notin DOMAIN db
    <3>1. Unlists(q, i)
      BY <1>3 DEF Moves
    <3>2. QED
      BY <1>4, <3>1 DEF Unlists
  <2> HIDE DEF k
  <2>3. QED
    BY <1>4, <2>1, <2>2, QuietIndexes
<1>8. CASE ~Reading(q) /\ ~Taking(q, j.tok)
  <2>1. /\ Storing(q, j.tok, j.user, ExpiresIn(j.tok, toks))
        /\ Owned(j.tok, j.user, toks) /\ j.tok \in DOMAIN toks /\ j.tok \notin new
        /\ toks[j.tok].user = j.user
    BY <1>5, <1>8 DEF Owned
  <2>2. toks[j.tok].exp \in Nat /\ toks[m].exp \in Nat
    BY <1>2, <1>3, <2>1
  <2>3. toks[m].user = j.user => toks[m].exp <= toks[j.tok].exp
    <3>1. toks[m].user = j.user => ~(toks[m].exp > toks[j.tok].exp)
      BY <1>2, <1>6, <2>1
    <3>2. QED
      BY <2>2, <3>1
  <2>4. QED
    BY <1>3, <1>4, <2>1, <2>2, <2>3, StoringIndexes
<1>9. QED
  BY <1>7, <1>8

(* So it is invariant. *)
LEMMA ListInvariance ==
  ASSUME NEW w0, Workers = {w0}, NamesApart
  PROVE  Spec => [](Inv /\ ListInv)
<1>1. Init => TakesInv /\ ListInv
  <2> SUFFICES ASSUME Init PROVE TakesInv /\ ListInv
    OBVIOUS
  <2>1. tokens = <<>> /\ \A w \in Workers : job[w] = Idle
    BY DEF Init
  <2>2. DOMAIN tokens = {}
    BY <2>1
  <2>3. QED
    BY <2>1, <2>2 DEF TakesInv, Takes, ListInv, Idle
<1>2. Inv /\ PairInv /\ LatestInv /\ TakesInv /\ ListInv /\ [Next]_vars => TakesInv' /\ ListInv'
  <2>1. ASSUME TakesInv, ListInv, UNCHANGED vars PROVE TakesInv' /\ ListInv'
    BY <2>1 DEF vars, history, TakesInv, ListInv
  <2>2. QED
    BY <2>1, Steps, SendingKeepsLists, ExecKeepsLists, TickKeepsLists
<1>3. QED
  BY <1>1, <1>2, PairInvariance, LatestInvariance, PTL DEF Spec

(* Where requests are served one at a time, none has died and no pipeline took  *)
(* longer than the clock, the list of a user holds, between two requests, all   *)
(* of the user's tokens that can be read and have a whole second left, although *)
(* the list ends as a whole with the time left to the token stored last (lines  *)
(* 153-166): a login finds the user's latest token, so that one is stored last. *)
THEOREM AloneListsAreComplete ==
  ASSUME NEW w0, Workers = {w0}, NamesApart
  PROVE  Spec => []UserListComplete
<1>1. Inv /\ ListInv => UserListComplete
  <2> SUFFICES ASSUME Inv, ListInv, NoRequests, crashes = 0, ~stretched, NEW n \in DOMAIN tokens,
                      Access(n) \in DOMAIN db, ExpiresIn(n, tokens) > 0
               PROVE  LET key == UnameToAccess(tokens[n].user) IN
                        key \in DOMAIN db /\ \E i \in DOMAIN db[key].val : db[key].val[i] = n
    BY DEF UserListComplete, Exists, Issued
  <2> DEFINE end == tokens[n].exp
             key == UnameToAccess(tokens[n].user)
  <2>1. queue[w0] = <<>>
    BY DEF NoRequests, Inv, Knows
  <2>2. Indexed(<<>>, db, n, key, end, now)
    BY <2>1 DEF ListInv
  <2>3. ~Short(end, now)
    <3>1. end \in Int /\ now \in Int /\ Second \in Nat \ {0}
      BY IssuedTokens, TokenAssumption DEF Inv, Typed
    <3>2. (end - now) \div Second > 0
      BY DEF ExpiresIn
    <3> HIDE DEF end
    <3>3. end - now \in Int
      BY <3>1
    <3>4. end - now >= Second
      BY <3>1, <3>2, <3>3
    <3>5. QED
      BY <3>1, <3>4 DEF Short
  <2>4. Member(db, key, n)
    BY <2>2, <2>3 DEF Indexed, Has, Pushes
  <2>5. QED
    BY <2>4 DEF Member
<1>2. QED
  BY <1>1, ListInvariance, PTL

=============================================================================

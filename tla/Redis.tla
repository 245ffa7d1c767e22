------------------------------- MODULE Redis -------------------------------
(***************************************************************************)
(* The Redis commands MyRedisTokenStore sends, as operators on a database: *)
(* a function from the keys present to [val, dl], the value and the tick   *)
(* in which the key expires.  Redis is not part of the repository.         *)
(***************************************************************************)
EXTENDS Integers, Sequences

CONSTANTS
  Forever,   (* the deadline of a key without a time to live            *)
  Nil,       (* the answer to a GET of a key that does not exist        *)
  Second     (* ticks of the clock in a second                          *)

Empty == [k \in {} |-> Nil]

Put(db, key, entry) ==
  [k \in DOMAIN db \cup {key} |-> IF k = key THEN entry ELSE db[k]]

Without(db, key) == [k \in DOMAIN db \ {key} |-> db[k]]

(* What GET answers. *)
Value(db, key) == IF key \in DOMAIN db THEN db[key].val ELSE Nil

(* SET forgets the time to live of the key, RPUSH keeps it. *)
Set(db, key, val) == Put(db, key, [val |-> val, dl |-> Forever])

Push(db, key, val) ==
  IF key \in DOMAIN db THEN [db EXCEPT ![key].val = Append(@, val)]
  ELSE Put(db, key, [val |-> <<val>>, dl |-> Forever])

(* LREM key 1 val: the first occurrence; an empty list does not exist. *)
RemoveOne(db, key, val) ==
  LET list == Value(db, key)
      at   == {i \in DOMAIN list : list[i] = val}
      i    == CHOOSE j \in at : \A k \in at : j <= k
      rest == SubSeq(list, 1, i - 1) \o SubSeq(list, i + 1, Len(list))
  IN  IF key \notin DOMAIN db THEN db
      ELSE IF at = {} THEN db
      ELSE IF rest = <<>> THEN Without(db, key)
      ELSE [db EXCEPT ![key].val = rest]

(* EXPIRE with no second left deletes the key; on a missing key it does nothing. *)
Expire(db, key, seconds, now) ==
  IF key \notin DOMAIN db THEN db
  ELSE IF seconds <= 0 THEN Without(db, key)
  ELSE [db EXCEPT ![key].dl = now + seconds * Second]

Commands == {"GET", "SET", "DEL", "RPUSH", "LREM", "EXPIRE"}

(* A command is [op, key, arg]; this is the database it leaves. *)
Apply(db, cmd, now) ==
  CASE cmd.op = "GET"    -> db
    [] cmd.op = "SET"    -> Set(db, cmd.key, cmd.arg)
    [] cmd.op = "DEL"    -> Without(db, cmd.key)
    [] cmd.op = "RPUSH"  -> Push(db, cmd.key, cmd.arg)
    [] cmd.op = "LREM"   -> RemoveOne(db, cmd.key, cmd.arg)
    [] cmd.op = "EXPIRE" -> Expire(db, cmd.key, cmd.arg, now)

(* The keys whose time is over are gone. *)
Alive(db, now) ==
  LET keys == {k \in DOMAIN db : db[k].dl = Forever \/ db[k].dl > now}
  IN  [k \in keys |-> db[k]]

=============================================================================

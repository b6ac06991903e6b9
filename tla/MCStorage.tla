----------------------------- MODULE MCStorage -----------------------------
(***************************************************************************)
(* Constants for model checking Storage: numbers are -1 .. 1, so that INCR *)
(* and DECR reach both ends of an i64, and a second is two ticks.          *)
(***************************************************************************)
EXTENDS StorageHistory, TLC

CONSTANTS w1, w2, w3, kv, kp, one, zero, minus, plus, text

MCBytes == {one, zero, minus, plus, text}

(* "+1" parses as 1, but no i64 is printed that way. *)
MCParse == one :> 1 @@ zero :> 0 @@ minus :> -1 @@ plus :> 1 @@ text :> None

MCToString == 1 :> one @@ 0 :> zero @@ -1 :> minus

(* Both keys in one shard, or each in its own. *)
OneShard  == [k \in Keys |-> kv]
OwnShards == [k \in Keys |-> k]

MCMinI64 == -1

Command(op, keys, vals, secs) == [op |-> op, keys |-> keys, vals |-> vals, secs |-> secs]
Plain(op, k) == Command(op, <<k>>, <<>>, 0)

(* Every command on the volatile key kv, and the commands over several keys *)
(* and the counter commands on kp, a key without deadlines.                 *)
AllRequests ==
  {Plain(op, kv) : op \in {"GET", "INCR", "DECR", "TTL"}} \cup
  {Command("SET", <<kv>>, <<v>>, 0) : v \in {plus, text}} \cup
  {Command("EXPIRE", <<kv>>, <<>>, s) : s \in {0, 1}} \cup
  {Command("DEL", <<kv, kp>>, <<>>, 0), Command("MSET", <<kp, kv>>, <<one, zero>>, 0),
   Command("MGET", <<kp, kv>>, <<>>, 0), Command("EXISTS", <<kv, kv>>, <<>>, 0),
   Plain("INCR", kp)}

(* Enough to race each kind of look-up against writes and deadlines. *)
RaceRequests ==
  {Plain(op, kv) : op \in {"GET", "DEL", "INCR", "TTL"}} \cup
  {Command("SET", <<kv>>, <<one>>, 0), Command("EXPIRE", <<kv>>, <<>>, 1)}

Symmetry == Permutations(Workers)
=============================================================================

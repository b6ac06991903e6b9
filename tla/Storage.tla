------------------------------ MODULE Storage ------------------------------
(***************************************************************************)
(* The keyspace of ralphdb and the threads that work on it.                *)
(*                                                                         *)
(* src/src/storage/mod.rs keeps all data in one DashMap (`inner').  Each   *)
(* pool thread runs at most one command at a time; a command is a sequence *)
(* of short sections, each of them holding one shard lock of the DashMap.  *)
(* One action of this module is one such section: between two sections of  *)
(* a thread any other thread may run and the clock may advance.            *)
(*                                                                         *)
(* Deadlines are lazy: an expired entry stays in `inner' until a call sees *)
(* it, drops the guard it saw it under, and then removes whatever entry    *)
(* the key has by that time.                                               *)
(***************************************************************************)
EXTENDS Integers, Sequences

CONSTANTS
  Workers,      \* the threads of the pool
  Keys,
  ShardOf,      \* the DashMap shard of each key
  Bytes,        \* the byte strings that occur as values
  parse,        \* str::parse::<i64> on each byte string, None if it fails
  to_string,    \* i64::to_string
  MinI64, MaxI64,
  TicksPerSec,  \* resolution of the model's clock
  MaxInstant,   \* the last instant an Instant can represent
  MaxTime,      \* model bound: the clock stops here
  Requests,     \* the commands that clients send
  None,         \* Option::None, the null reply, and "no request"
  Vacant,       \* the key has no entry
  Ok, Error     \* the OK reply and the not-an-integer error reply

I64 == MinI64 .. MaxI64

ReadOps    == {"GET", "MGET", "EXISTS"}
SingleOps  == {"GET", "SET", "INCR", "DECR", "EXPIRE", "TTL"}
Ops        == ReadOps \cup SingleOps \cup {"MSET", "DEL"}

(* A parsed command that passed the arity check of its handler. *)
WellFormed(r) ==
  /\ r \in [op : Ops, keys : Seq(Keys), vals : Seq(Bytes), secs : Int]
  /\ r.keys # <<>>
  /\ r.op \in SingleOps => Len(r.keys) = 1
  /\ r.op \in {"SET", "MSET"} => Len(r.vals) = Len(r.keys)

ASSUME IntegerAssumption ==
  /\ MinI64 \in Int /\ MaxI64 \in Int
  /\ MinI64 <= -1 /\ 1 <= MaxI64
  /\ parse \in [Bytes -> I64 \cup {None}]
  /\ to_string \in [I64 -> Bytes]
  /\ \A n \in I64 : parse[to_string[n]] = n

ASSUME ClockAssumption ==
  /\ TicksPerSec \in Nat /\ TicksPerSec >= 2
  /\ MaxInstant \in Nat /\ MaxTime \in Nat /\ MaxTime <= MaxInstant

ASSUME RequestAssumption ==
  \A r \in Requests : WellFormed(r)

ASSUME SentinelAssumption ==
  /\ None \notin Int \cup Bytes \cup Requests
  /\ Vacant \notin [value : Bytes, expires_at : Nat \cup {None}]

VARIABLES
  inner,     \* the DashMap
  now,       \* the monotonic clock behind Instant::now
  pc,        \* where each thread is
  req,       \* the command each thread runs
  out,       \* the per-key answers its command has so far
  deadline   \* the local `expiry' of Storage::expire

vars == <<inner, now, pc, req, out, deadline>>
-----------------------------------------------------------------------------
Entry == [value : Bytes, expires_at : Nat \cup {None}]

NewEntry(v) == [value |-> v, expires_at |-> None]

(* Wrong: an entry without a deadline counts as expired. *)
ExpiredByDefault(e, t) == IF e.expires_at = None THEN TRUE ELSE t >= e.expires_at

ExpiredAt(e, t) == e.expires_at # None /\ t >= e.expires_at

Expired(e) == ExpiredAt(e, now)

Present(k) == inner[k] # Vacant

Live(k) == Present(k) /\ ~Expired(inner[k])

(* What a client can learn about a key: an expired entry is no entry. *)
Visible(k) == IF Live(k) THEN inner[k] ELSE Vacant

(* The key, and for SET and MSET the value, a command is working on. *)
Key(w)   == req[w].keys[Len(out[w]) + 1]
Value(w) == req[w].vals[Len(out[w]) + 1]

(* Which storage function a command handler calls for each of its keys;     *)
(* EXPIRE with no positive number of seconds is a deletion.                 *)
Start(r) ==
  CASE r.op \in ReadOps           -> "get"
    [] r.op \in {"SET", "MSET"}   -> "set"
    [] r.op \in {"INCR", "DECR"}  -> "incr"
    [] r.op = "TTL"               -> "ttl"
    [] r.op = "DEL" \/ (r.op = "EXPIRE" /\ r.secs <= 0) -> "del"
    [] OTHER                      -> "stamp"

(* The answer of a call that found its key expired. *)
Missing(r) ==
  CASE r.op \in ReadOps -> None
    [] r.op = "TTL"     -> -2
    [] OTHER            -> 0

Goto(w, l) == pc' = [pc EXCEPT ![w] = l]

(* The section yields the answer for the current key: go on to the next     *)
(* key of the command, or to the reply.                                     *)
Answer(w, a) ==
  /\ out' = [out EXCEPT ![w] = Append(@, a)]
  /\ Goto(w, IF Len(out[w]) + 1 = Len(req[w].keys) THEN "done" ELSE Start(req[w]))

(* Wrong: the guard of a look-up is still alive when the call removes. *)
GuardKept(w) == pc[w] \in {"ttl_left", "reap"}

(* Wrong: Storage::ttl copies the deadline and drops its guard. *)
GuardDropped(w) == FALSE

(* A thread between the two clock readings of Storage::ttl keeps its Ref,   *)
(* and with it the read lock of the shard.  No other call keeps a guard     *)
(* from one section to the next.                                            *)
HoldsGuard(w) == pc[w] = "ttl_left"

(* A section that writes waits until the shard has no reader. *)
WriteLockFree(k) ==
  \A v \in Workers : HoldsGuard(v) => ShardOf[Key(v)] # ShardOf[k]
-----------------------------------------------------------------------------
Init ==
  /\ inner = [k \in Keys |-> Vacant]
  /\ now = 0
  /\ pc = [w \in Workers |-> "idle"]
  /\ req = [w \in Workers |-> None]
  /\ out = [w \in Workers |-> <<>>]
  /\ deadline = [w \in Workers |-> None]

(* The connection's thread has parsed a command and calls its handler. *)
Invoke(w) ==
  /\ pc[w] = "idle"
  /\ \E r \in Requests :
        /\ req' = [req EXCEPT ![w] = r]
        /\ Goto(w, Start(r))
  /\ UNCHANGED <<inner, now, out, deadline>>

(* Storage::set, and one turn of the loop of Storage::mset. *)
Set(w) ==
  /\ pc[w] = "set"
  /\ WriteLockFree(Key(w))
  /\ inner' = [inner EXCEPT ![Key(w)] = NewEntry(Value(w))]
  /\ Answer(w, Ok)
  /\ UNCHANGED <<now, req, deadline>>

(* Wrong: the look-up removes the entries that have not expired. *)
GetReapsLive(w) ==
  /\ pc[w] = "get"
  /\ \/ /\ ~Live(Key(w))
        /\ Answer(w, None)
     \/ /\ Live(Key(w))
        /\ Goto(w, "reap")
        /\ UNCHANGED out
  /\ UNCHANGED <<inner, now, req, deadline>>

(* Storage::get up to the drop of the guard: GET, and each turn of the      *)
(* loops of MGET and EXISTS.                                                *)
Get(w) ==
  /\ pc[w] = "get"
  /\ \/ /\ ~Present(Key(w))
        /\ Answer(w, None)
     \/ /\ Present(Key(w)) /\ Expired(inner[Key(w)])
        /\ Goto(w, "reap")
        /\ UNCHANGED out
     \/ /\ Live(Key(w))
        /\ Answer(w, inner[Key(w)].value)
  /\ UNCHANGED <<inner, now, req, deadline>>

(* Wrong: the loop of DEL removes without looking at the deadline, and so   *)
(* counts a key that expired before the call.                               *)
DelCountsExpired(w) ==
  /\ pc[w] = "del"
  /\ Goto(w, "del_take")
  /\ UNCHANGED <<inner, now, req, out, deadline>>

(* One turn of the loop of Storage::del: first the look-up that tells an    *)
(* expired key from others, then the removal that counts.                   *)
Del(w) ==
  /\ pc[w] = "del"
  /\ Goto(w, IF Present(Key(w)) /\ Expired(inner[Key(w)]) THEN "reap" ELSE "del_take")
  /\ UNCHANGED <<inner, now, req, out, deadline>>

DelTake(w) ==
  /\ pc[w] = "del_take"
  /\ WriteLockFree(Key(w))
  /\ inner' = [inner EXCEPT ![Key(w)] = Vacant]
  /\ Answer(w, IF Present(Key(w)) THEN 1 ELSE 0)
  /\ UNCHANGED <<now, req, deadline>>

(* Storage::expire reads the clock before it takes the lock; a deadline     *)
(* that no Instant can represent ends the call.                             *)
Stamp(w) ==
  /\ pc[w] = "stamp"
  /\ LET expiry == now + req[w].secs * TicksPerSec
     IN  \/ /\ expiry > MaxInstant
            /\ Answer(w, 0)
            /\ UNCHANGED deadline
         \/ /\ expiry <= MaxInstant
            /\ deadline' = [deadline EXCEPT ![w] = expiry]
            /\ Goto(w, "expire")
            /\ UNCHANGED out
  /\ UNCHANGED <<inner, now, req>>

(* Wrong: EXPIRE does not look at the deadline the entry has. *)
ExpireRevives(w) ==
  /\ pc[w] = "expire"
  /\ WriteLockFree(Key(w))
  /\ \/ /\ ~Present(Key(w))
        /\ Answer(w, 0)
        /\ UNCHANGED inner
     \/ /\ Present(Key(w))
        /\ inner' = [inner EXCEPT ![Key(w)].expires_at = deadline[w]]
        /\ Answer(w, 1)
  /\ UNCHANGED <<now, req, deadline>>

Expire(w) ==
  /\ pc[w] = "expire"
  /\ WriteLockFree(Key(w))
  /\ \/ /\ ~Present(Key(w))
        /\ Answer(w, 0)
        /\ UNCHANGED inner
     \/ /\ Present(Key(w)) /\ Expired(inner[Key(w)])
        /\ Goto(w, "reap")
        /\ UNCHANGED <<inner, out>>
     \/ /\ Live(Key(w))
        /\ inner' = [inner EXCEPT ![Key(w)].expires_at = deadline[w]]
        /\ Answer(w, 1)
  /\ UNCHANGED <<now, req, deadline>>

(* Storage::ttl: the expiry check, and, still under the same read guard,    *)
(* the second reading of the clock.                                         *)
Ttl(w) ==
  /\ pc[w] = "ttl"
  /\ \/ /\ ~Present(Key(w))
        /\ Answer(w, -2)
     \/ /\ Present(Key(w))
        /\ Goto(w, IF Expired(inner[Key(w)]) THEN "reap" ELSE "ttl_left")
        /\ UNCHANGED out
  /\ UNCHANGED <<inner, now, req, deadline>>

(* saturating_duration_since, then as_secs rounds down. *)
SecondsLeft(e, t) ==
  CASE e.expires_at = None -> -1
    [] ExpiredAt(e, t)     -> 0
    [] OTHER               -> (e.expires_at - t) \div TicksPerSec

(* Wrong: the time left is read through a second, exclusive reference.      *)
TtlLocksAgain(w) ==
  /\ pc[w] = "ttl_left"
  /\ WriteLockFree(Key(w))
  /\ Answer(w, SecondsLeft(inner[Key(w)], now))
  /\ UNCHANGED <<inner, now, req, deadline>>

TtlLeft(w) ==
  /\ pc[w] = "ttl_left"
  /\ Answer(w, SecondsLeft(inner[Key(w)], now))
  /\ UNCHANGED <<inner, now, req, deadline>>

(* Every call that met an expired entry removes by key alone, after it has  *)
(* let go of the guard: it takes whatever entry is there now.               *)
Reap(w) ==
  /\ pc[w] = "reap"
  /\ WriteLockFree(Key(w))
  /\ inner' = [inner EXCEPT ![Key(w)] = Vacant]
  /\ Answer(w, Missing(req[w]))
  /\ UNCHANGED <<now, req, deadline>>

Delta(r) == IF r.op = "INCR" THEN 1 ELSE -1

(* Wrong: wrapping instead of checked arithmetic. *)
SumWraps(v, d) ==
  IF parse[v] = None THEN None
  ELSE MinI64 + ((parse[v] + d - MinI64) % (MaxI64 - MinI64 + 1))

(* parse, then checked_add: None if either fails. *)
Sum(v, d) ==
  IF parse[v] # None /\ parse[v] + d \in I64 THEN parse[v] + d ELSE None

(* Wrong: the number is read under one lock and stored under the next (the  *)
(* local that holds it in between is `deadline').                           *)
IncrRaces(w) ==
  /\ pc[w] = "incr"
  /\ WriteLockFree(Key(w))
  /\ LET read    == IF Live(Key(w)) THEN inner[Key(w)].value ELSE to_string[0]
         updated == Sum(to_string[deadline[w]], Delta(req[w]))
     IN  \/ /\ deadline[w] = None
            /\ deadline' = [deadline EXCEPT ![w] = parse[read]]
            /\ UNCHANGED <<inner, pc, out>>
         \/ /\ deadline[w] # None /\ updated = None
            /\ Answer(w, Error)
            /\ UNCHANGED <<inner, deadline>>
         \/ /\ deadline[w] # None /\ updated # None
            /\ inner' = [inner EXCEPT ![Key(w)] = NewEntry(to_string[updated])]
            /\ Answer(w, updated)
            /\ UNCHANGED deadline
  /\ UNCHANGED <<now, req>>

(* Storage::incr_by under the entry's write lock: a missing or expired      *)
(* entry counts from "0" and has no deadline, a live one keeps its own.     *)
Incr(w) ==
  /\ pc[w] = "incr"
  /\ WriteLockFree(Key(w))
  /\ LET base    == IF Live(Key(w)) THEN inner[Key(w)] ELSE NewEntry(to_string[0])
         updated == Sum(base.value, Delta(req[w]))
     IN  \/ /\ updated = None
            /\ inner' = [inner EXCEPT ![Key(w)] = base]
            /\ Answer(w, Error)
         \/ /\ updated # None
            /\ inner' = [inner EXCEPT ![Key(w)] = [base EXCEPT !.value = to_string[updated]]]
            /\ Answer(w, updated)
  /\ UNCHANGED <<now, req, deadline>>

(* The handler returns its reply; the locals of the call are gone. *)
Return(w) ==
  /\ pc[w] = "done"
  /\ Goto(w, "idle")
  /\ req' = [req EXCEPT ![w] = None]
  /\ out' = [out EXCEPT ![w] = <<>>]
  /\ deadline' = [deadline EXCEPT ![w] = None]
  /\ UNCHANGED <<inner, now>>

Tick ==
  /\ now < MaxTime
  /\ now' = now + 1
  /\ UNCHANGED <<inner, pc, req, out, deadline>>
-----------------------------------------------------------------------------
Step(w) ==
  \/ Set(w) \/ Get(w) \/ Del(w) \/ DelTake(w) \/ Stamp(w) \/ Expire(w)
  \/ Ttl(w) \/ TtlLeft(w) \/ Reap(w) \/ Incr(w) \/ Return(w)

Next == Tick \/ \E w \in Workers : Invoke(w) \/ Step(w)

Spec == Init /\ [][Next]_vars

(* A thread inside a call is not stopped for ever by the scheduler; nothing *)
(* obliges a client to send another command.                                *)
FairSpec == Spec /\ \A w \in Workers : WF_vars(Step(w))
-----------------------------------------------------------------------------
Labels == {"idle", "get", "set", "incr", "del", "del_take", "stamp", "expire",
           "ttl", "ttl_left", "reap", "done"}

Answers == Bytes \cup Int \cup {None, Ok, Error}

(* Where a thread can be while it runs command r. *)
Reachable(r) ==
  {Start(r)} \cup
  CASE r.op \in ReadOps     -> {"reap"}
    [] r.op = "DEL"         -> {"reap", "del_take"}
    [] r.op = "TTL"         -> {"reap", "ttl_left"}
    [] r.op = "EXPIRE"      -> {"reap", IF r.secs <= 0 THEN "del_take" ELSE "expire"}
    [] OTHER                -> {}

(* Every thread is idle without a command, or inside one of the calls its   *)
(* command makes with a key left to answer for, or done with an answer for  *)
(* each key.                                                                *)
CallOK(w) ==
  \/ /\ pc[w] = "idle" /\ req[w] = None /\ out[w] = <<>> /\ deadline[w] = None
  \/ /\ pc[w] = "done" /\ req[w] \in Requests
     /\ Len(out[w]) = Len(req[w].keys)
  \/ /\ req[w] \in Requests
     /\ pc[w] \in Reachable(req[w])
     /\ Len(out[w]) < Len(req[w].keys)
     /\ pc[w] = "expire" => deadline[w] \in Nat
     /\ pc[w] = "stamp" => deadline[w] = None

(* Type invariant of the state of Storage and of the calls in flight: a     *)
(* thread is only where the handler of its command can take it, and the     *)
(* guard Storage::ttl keeps still protects an entry.                        *)
TypeOK ==
  /\ inner \in [Keys -> Entry \cup {Vacant}]
  /\ now \in Nat
  /\ pc \in [Workers -> Labels]
  /\ req \in [Workers -> Requests \cup {None}]
  /\ out \in [Workers -> Seq(Answers)]
  /\ deadline \in [Workers -> Nat \cup {None}]
  /\ \A w \in Workers : CallOK(w)
  /\ \A w \in Workers : pc[w] = "ttl_left" => Present(Key(w))

(* The keys some client gives a deadline. *)
Expirable ==
  {r.keys[1] : r \in {s \in Requests : s.op = "EXPIRE" /\ s.secs > 0}}

(* An entry has a deadline, or is about to be reaped, only if its key is    *)
(* given one by a client.                                                   *)
DeadlinesAreGiven ==
  /\ \A k \in Keys : Present(k) /\ inner[k].expires_at # None => k \in Expirable
  /\ \A w \in Workers : pc[w] = "reap" => Key(w) \in Expirable

(* A key that no client ever puts a deadline on loses its entry only to a   *)
(* deletion that counts it: the unguarded removals of Storage::get, del,    *)
(* expire and ttl cannot touch it.                                          *)
PersistentKeysAreSafe ==
  [][\A k \in Keys \ Expirable :
        Present(k) /\ inner'[k] = Vacant
          => \E w \in Workers :
               pc[w] = "del_take" /\ Key(w) = k /\ out'[w] = Append(out[w], 1)]_vars

(* SET/GET correctness under parallel access: a key that has a value and no *)
(* passed deadline is taken away by deletions only.  The removal at the end *)
(* of a call that found an older entry expired breaks it.                   *)
LiveKeysAreOnlyDeleted ==
  [][\A k \in Keys :
        Live(k) /\ inner'[k] = Vacant
          => \E w \in Workers : pc[w] = "del_take" /\ Key(w) = k]_vars

(* Every call returns, unless other threads take one read guard of TTL      *)
(* after the other for ever: no call waits for a guard of its own, no calls *)
(* wait for each other, and no guard is kept.                               *)
CallsReturn ==
  \A w \in Workers :
    \/ []<><<\E v \in Workers \ {w} : pc[v] = "ttl" /\ pc'[v] = "ttl_left">>_vars
    \/ []<>(pc[w] = "idle")
=============================================================================

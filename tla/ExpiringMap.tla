---------------------------- MODULE ExpiringMap ----------------------------
(***************************************************************************)
(* What the storage of ralphdb promises: a map whose entries disappear at  *)
(* their deadline, on which every command acts on one key at a time and    *)
(* atomically.  A command over several keys is not atomic as a whole.      *)
(*                                                                         *)
(* Three deviations from the ideal are part of the promise, because the    *)
(* code makes them.  A call that waits for its key while the key's entry   *)
(* expires may still treat the entry as there: DEL may count it, if nobody *)
(* has counted, replaced or swept it since, and TTL may answer 0.  And a   *)
(* call that has just answered "missing" for a key that is given deadlines *)
(* may take a newer entry of that key away (Forget).                       *)
(***************************************************************************)
EXTENDS Integers, Sequences

CONSTANTS
  Workers, Keys, Bytes, parse, to_string, MinI64, MaxI64,
  TicksPerSec, MaxInstant, MaxTime, Requests, None, Vacant, Ok, Error

VARIABLES
  map,       \* the unexpired entries
  now,
  req, out,  \* the command of each worker and its answers so far
  deadline,  \* the deadline an EXPIRE has computed
  lapsed     \* the workers whose key has lost its entry to the clock since
             \* they came to it, and the entry has not been swept

vars == <<map, now, req, out, deadline, lapsed>>

Readers == {"GET", "MGET", "EXISTS"}

Deletes(r) == r.op = "DEL" \/ (r.op = "EXPIRE" /\ r.secs <= 0)

Arms(r) == r.op = "EXPIRE" /\ r.secs > 0

Pending(w) == req[w] # None /\ Len(out[w]) < Len(req[w].keys)

Key(w) == req[w].keys[Len(out[w]) + 1]

(* The workers that have to answer for key k. *)
At(k) == {w \in Workers : Pending(w) /\ Key(w) = k}

Answered(w, a) == out' = [out EXCEPT ![w] = Append(@, a)]
-----------------------------------------------------------------------------
Init ==
  /\ map = [k \in Keys |-> Vacant]
  /\ now = 0
  /\ req = [w \in Workers |-> None]
  /\ out = [w \in Workers |-> <<>>]
  /\ deadline = [w \in Workers |-> None]
  /\ lapsed = {}

Invoke(w) ==
  /\ req[w] = None
  /\ \E r \in Requests : req' = [req EXCEPT ![w] = r]
  /\ UNCHANGED <<map, now, out, deadline, lapsed>>

Put(w) ==
  /\ Pending(w) /\ req[w].op \in {"SET", "MSET"}
  /\ map' = [map EXCEPT ![Key(w)] =
               [value |-> req[w].vals[Len(out[w]) + 1], expires_at |-> None]]
  /\ Answered(w, Ok)
  /\ lapsed' = lapsed \ At(Key(w))
  /\ UNCHANGED <<now, req, deadline>>

Look(w) ==
  /\ Pending(w) /\ req[w].op \in Readers
  /\ Answered(w, IF map[Key(w)] = Vacant THEN None ELSE map[Key(w)].value)
  /\ lapsed' = lapsed \ {w}
  /\ UNCHANGED <<map, now, req, deadline>>

Remove(w) ==
  /\ Pending(w) /\ Deletes(req[w])
  /\ map' = [map EXCEPT ![Key(w)] = Vacant]
  /\ \/ /\ map[Key(w)] = Vacant
        /\ Answered(w, 0)
        /\ lapsed' = lapsed \ {w}
     \/ /\ map[Key(w)] # Vacant \/ w \in lapsed
        /\ Answered(w, 1)
        /\ lapsed' = lapsed \ At(Key(w))
  /\ UNCHANGED <<now, req, deadline>>

(* EXPIRE fixes its deadline first and gives it to the key later. *)
Stamp(w) ==
  /\ Pending(w) /\ Arms(req[w]) /\ deadline[w] = None
  /\ LET d == now + req[w].secs * TicksPerSec
     IN  IF d > MaxInstant
         THEN Answered(w, 0) /\ lapsed' = lapsed \ {w} /\ UNCHANGED deadline
         ELSE deadline' = [deadline EXCEPT ![w] = d] /\ UNCHANGED <<out, lapsed>>
  /\ UNCHANGED <<map, now, req>>

(* A deadline that has passed by then expires the entry at once. *)
Arm(w) ==
  /\ Pending(w) /\ Arms(req[w]) /\ deadline[w] # None
  /\ \/ /\ map[Key(w)] = Vacant
        /\ Answered(w, 0)
        /\ lapsed' = lapsed \ {w}
        /\ UNCHANGED map
     \/ /\ map[Key(w)] # Vacant /\ deadline[w] > now
        /\ map' = [map EXCEPT ![Key(w)].expires_at = deadline[w]]
        /\ Answered(w, 1)
        /\ lapsed' = lapsed \ {w}
     \/ /\ map[Key(w)] # Vacant /\ deadline[w] <= now
        /\ map' = [map EXCEPT ![Key(w)] = Vacant]
        /\ Answered(w, 1)
        /\ lapsed' = (lapsed \cup At(Key(w))) \ {w}
  /\ UNCHANGED <<now, req, deadline>>

Measure(w) ==
  /\ Pending(w) /\ req[w].op = "TTL"
  /\ LET e == map[Key(w)]
     IN  \/ e = Vacant /\ Answered(w, -2)
         \/ e = Vacant /\ w \in lapsed /\ Answered(w, 0)
         \/ e # Vacant /\ e.expires_at = None /\ Answered(w, -1)
         \/ e # Vacant /\ e.expires_at # None
            /\ Answered(w, (e.expires_at - now) \div TicksPerSec)
  /\ lapsed' = lapsed \ {w}
  /\ UNCHANGED <<map, now, req, deadline>>

Bump(w) ==
  /\ Pending(w) /\ req[w].op \in {"INCR", "DECR"}
  /\ LET e == IF map[Key(w)] = Vacant
              THEN [value |-> to_string[0], expires_at |-> None] ELSE map[Key(w)]
         n == parse[e.value]
         d == IF req[w].op = "INCR" THEN 1 ELSE -1
     IN  IF n # None /\ n + d \in MinI64 .. MaxI64
         THEN /\ map' = [map EXCEPT ![Key(w)] = [e EXCEPT !.value = to_string[n + d]]]
              /\ Answered(w, n + d)
         ELSE Answered(w, Error) /\ UNCHANGED map
  /\ lapsed' = lapsed \ At(Key(w))
  /\ UNCHANGED <<now, req, deadline>>

Return(w) ==
  /\ req[w] # None /\ Len(out[w]) = Len(req[w].keys)
  /\ req' = [req EXCEPT ![w] = None]
  /\ out' = [out EXCEPT ![w] = <<>>]
  /\ deadline' = [deadline EXCEPT ![w] = None]
  /\ UNCHANGED <<map, now, lapsed>>

Tick ==
  /\ now < MaxTime
  /\ now' = now + 1
  /\ map' = [k \in Keys |->
               IF map[k] = Vacant \/ map[k].expires_at = None \/ now + 1 < map[k].expires_at
               THEN map[k] ELSE Vacant]
  /\ lapsed' = lapsed \cup
       {w \in Workers : /\ Pending(w)
                         /\ map[Key(w)] # Vacant /\ map'[Key(w)] = Vacant}
  /\ UNCHANGED <<req, out, deadline>>

(* What is at a key that worker w has just found missing is swept: an       *)
(* expired entry, or a newer one.                                           *)
Forget(w) ==
  /\ req[w] # None /\ out[w] # <<>>
  /\ out[w][Len(out[w])] \in {None, 0, -2}
  /\ LET k == req[w].keys[Len(out[w])]
     IN  /\ \E r \in Requests : Arms(r) /\ r.keys[1] = k
         /\ map' = [map EXCEPT ![k] = Vacant]
         /\ lapsed' = lapsed \ At(k)
  /\ UNCHANGED <<now, req, out, deadline>>
-----------------------------------------------------------------------------
Next ==
  \/ Tick
  \/ \E w \in Workers :
       \/ Invoke(w) \/ Put(w) \/ Look(w) \/ Remove(w) \/ Stamp(w) \/ Arm(w)
       \/ Measure(w) \/ Bump(w) \/ Return(w) \/ Forget(w)

Spec == Init /\ [][Next]_vars
=============================================================================

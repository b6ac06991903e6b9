--------------------------- MODULE StorageHistory ---------------------------
(***************************************************************************)
(* Storage with a history variable, and the atomic map it implements.      *)
(*                                                                         *)
(* Which answers an atomic map may give to a call depends on whether the   *)
(* entry of the call's key has expired while the call was at it.  The code *)
(* does not keep this; `lapsed' remembers it, and nothing reads it but     *)
(* the refinement mapping.                                                 *)
(***************************************************************************)
EXTENDS Storage

VARIABLE lapsed   \* the calls whose key has an entry that expired under them

(* The answers of a call as far as they are settled: one that is about to   *)
(* reap has nothing else to say.                                            *)
Said(w) == IF pc[w] = "reap" THEN Append(out[w], Missing(req[w])) ELSE out[w]

(* Worker w has an answer to give for key k. *)
On(w, k) ==
  /\ req[w] # None
  /\ Len(Said(w)) < Len(req[w].keys)
  /\ req[w].keys[Len(Said(w)) + 1] = k

(* The entry has expired and is still there. *)
Dead(k) == Present(k) /\ Expired(inner[k])

(* A call is marked when the entry of its key expires, and for as long as   *)
(* both this entry and the question about it remain.                        *)
Record ==
  lapsed' =
    {w \in Workers :
       /\ Said(w)' = Said(w)
       /\ \E k \in Keys : /\ On(w, k) /\ On(w, k)' /\ Dead(k)'
                          /\ Live(k) \/ w \in lapsed}

hvars == <<vars, lapsed>>

HistoryInit == Init /\ lapsed = {}

HistoryNext ==
  \/ Tick /\ Record
  \/ \E w \in Workers :
       \/ Invoke(w) /\ Record
       \/ Set(w) /\ Record
       \/ Get(w) /\ Record
       \/ Del(w) /\ Record
       \/ DelTake(w) /\ Record
       \/ Stamp(w) /\ Record
       \/ Expire(w) /\ Record
       \/ Ttl(w) /\ Record
       \/ TtlLeft(w) /\ Record
       \/ Reap(w) /\ Record
       \/ Incr(w) /\ Record
       \/ Return(w) /\ Record

HistorySpec == HistoryInit /\ [][HistoryNext]_hvars

FairHistorySpec == HistorySpec /\ \A w \in Workers : WF_vars(Step(w))
-----------------------------------------------------------------------------
(* The atomic map that the keyspace implements: expired entries are gone,   *)
(* and calls have answered as soon as their answer is settled.              *)
Atomic ==
  INSTANCE ExpiringMap WITH
    map <- [k \in Keys |-> Visible(k)],
    out <- [w \in Workers |-> Said(w)]

(* Each answer a client gets, key by key, is the answer of one moment of    *)
(* its call on a map whose entries disappear at their deadlines, with the   *)
(* deviations ExpiringMap names: a key that had expired when DEL came to it *)
(* is not counted, one that expires later is counted at most once.          *)
ImplementsAtomicMap == Atomic!Spec
=============================================================================

--------------------------- MODULE StorageProofs ---------------------------
(***************************************************************************)
(* Proofs about Storage for every value of its constants.                  *)
(*                                                                         *)
(* TypeOK and DeadlinesAreGiven are inductive together: the deadline a     *)
(* look-up finds expired is one a client gave to that key, and the guard   *)
(* that Storage::ttl keeps is what stops the removals of other threads     *)
(* from taking away the entry it is about to measure.                      *)
(***************************************************************************)
EXTENDS Storage, TLAPS

IInv == TypeOK /\ DeadlinesAreGiven

(* The labels of a thread that has a key to answer for. *)
Busy == Labels \ {"idle", "done"}
-----------------------------------------------------------------------------
(* What the arity checks of the handlers give for every command. *)
LEMMA RequestFacts ==
  ASSUME NEW r \in Requests
  PROVE  /\ r.op \in Ops
         /\ r.keys \in Seq(Keys) /\ Len(r.keys) \in Nat /\ Len(r.keys) >= 1
         /\ r.vals \in Seq(Bytes) /\ r.secs \in Int
         /\ r.op \in SingleOps => Len(r.keys) = 1
         /\ r.op \in {"SET", "MSET"} => Len(r.vals) = Len(r.keys)
         /\ r # None
  <1>1. WellFormed(r)
    BY RequestAssumption
  <1>2. r.op \in Ops /\ r.keys \in Seq(Keys) /\ r.vals \in Seq(Bytes) /\ r.secs \in Int
    BY <1>1 DEF WellFormed
  <1>3. Len(r.keys) \in Nat /\ Len(r.keys) >= 1
    BY <1>1, <1>2 DEF WellFormed
  <1> QED
    BY <1>1, <1>2, <1>3, SentinelAssumption DEF WellFormed

(* Where a command can take its thread. *)
LEMMA ReachableFacts ==
  ASSUME NEW r \in Requests
  PROVE  /\ Start(r) \in Reachable(r)
         /\ Reachable(r) \subseteq Busy
         /\ "set" \in Reachable(r) => r.op \in {"SET", "MSET"}
         /\ "get" \in Reachable(r) => r.op \in ReadOps
         /\ "incr" \in Reachable(r) => r.op \in {"INCR", "DECR"}
         /\ "ttl" \in Reachable(r) => r.op = "TTL"
         /\ "ttl_left" \in Reachable(r) => r.op = "TTL"
         /\ "stamp" \in Reachable(r) => r.op = "EXPIRE" /\ r.secs > 0
         /\ "expire" \in Reachable(r) => r.op = "EXPIRE" /\ r.secs > 0
         /\ "del" \in Reachable(r) => "del_take" \in Reachable(r)
         /\ r.op = "EXPIRE" /\ r.secs > 0 => "expire" \in Reachable(r)
         /\ r.op = "TTL" => "ttl_left" \in Reachable(r)
         /\ r.op \in ReadOps \cup {"TTL", "EXPIRE"} => "reap" \in Reachable(r)
         /\ "del" \in Reachable(r) => "reap" \in Reachable(r)
         /\ Start(r) \notin {"reap", "ttl_left", "expire"}
         /\ Start(r) = "stamp" => r.op = "EXPIRE"
  <1> USE RequestFacts
  <1>1. r.op \in Ops /\ r.secs \in Int
    OBVIOUS
  <1>2. CASE r.op \in ReadOps
    BY <1>1, <1>2 DEF Start, Reachable, Busy, Labels, ReadOps
  <1>3. CASE r.op \in {"SET", "MSET"}
    BY <1>1, <1>3 DEF Start, Reachable, Busy, Labels, ReadOps
  <1>4. CASE r.op \in {"INCR", "DECR"}
    BY <1>1, <1>4 DEF Start, Reachable, Busy, Labels, ReadOps
  <1>5. CASE r.op = "TTL"
    BY <1>1, <1>5 DEF Start, Reachable, Busy, Labels, ReadOps
  <1>6. CASE r.op = "DEL"
    BY <1>1, <1>6 DEF Start, Reachable, Busy, Labels, ReadOps
  <1>7. CASE r.op = "EXPIRE" /\ r.secs <= 0
    BY <1>1, <1>7 DEF Start, Reachable, Busy, Labels, ReadOps
  <1>8. CASE r.op = "EXPIRE" /\ r.secs > 0
    BY <1>1, <1>8 DEF Start, Reachable, Busy, Labels, ReadOps
  <1> QED
    BY <1>1, <1>2, <1>3, <1>4, <1>5, <1>6, <1>7, <1>8 DEF Ops, ReadOps, SingleOps

(* A thread inside a call has a key to answer for. *)
LEMMA BusyFacts ==
  ASSUME TypeOK, NEW w \in Workers, pc[w] \in Busy
  PROVE  /\ req[w] \in Requests
         /\ pc[w] \in Reachable(req[w])
         /\ Len(out[w]) \in Nat
         /\ Len(out[w]) + 1 \in 1 .. Len(req[w].keys)
         /\ Key(w) \in Keys
         /\ pc[w] = "set" => Value(w) \in Bytes
         /\ pc[w] = "expire" => deadline[w] \in Nat
  <1>1. CallOK(w) /\ out[w] \in Seq(Answers)
    BY DEF TypeOK
  <1>2. /\ req[w] \in Requests
        /\ pc[w] \in Reachable(req[w])
        /\ Len(out[w]) < Len(req[w].keys)
        /\ pc[w] = "expire" => deadline[w] \in Nat
    BY <1>1 DEF CallOK, Busy, Labels
  <1>3. Len(out[w]) \in Nat
    BY <1>1
  <1>4. req[w].keys \in Seq(Keys) /\ Len(req[w].keys) \in Nat
    BY <1>2, RequestFacts
  <1>5. Len(out[w]) + 1 \in 1 .. Len(req[w].keys)
    BY <1>2, <1>3, <1>4
  <1>6. Key(w) \in Keys
    BY <1>4, <1>5 DEF Key
  <1>7. pc[w] = "set" => Value(w) \in Bytes
    <2>1. SUFFICES ASSUME pc[w] = "set" PROVE Value(w) \in Bytes
      OBVIOUS
    <2>2. req[w].op \in {"SET", "MSET"}
      BY <1>2, <2>1, ReachableFacts
    <2>3. req[w].vals \in Seq(Bytes) /\ Len(req[w].vals) = Len(req[w].keys)
      BY <1>2, <2>2, RequestFacts
    <2> QED
      BY <1>5, <2>3 DEF Value
  <1> QED
    BY <1>2, <1>3, <1>5, <1>6, <1>7
-----------------------------------------------------------------------------
(* The part of the invariant that is about the calls in flight. *)
CallsOK ==
  /\ pc \in [Workers -> Labels]
  /\ req \in [Workers -> Requests \cup {None}]
  /\ out \in [Workers -> Seq(Answers)]
  /\ deadline \in [Workers -> Nat \cup {None}]
  /\ \A w \in Workers : CallOK(w)

(* A thread that the step leaves in the middle of a call, with the key it   *)
(* had.                                                                     *)
Stays(v, l) == pc'[v] = l => pc[v] = l /\ Key(v)' = Key(v)

(* A thread that is not the one to take the step is not disturbed by it. *)
LEMMA OtherCalls ==
  ASSUME TypeOK, NEW v \in Workers,
         pc'[v] = pc[v], req'[v] = req[v], out'[v] = out[v], deadline'[v] = deadline[v]
  PROVE  CallOK(v)' /\ \A l \in Labels : Stays(v, l)
  <1>1. CallOK(v)
    BY DEF TypeOK
  <1>2. CallOK(v)'
    BY <1>1 DEF CallOK
  <1> QED
    BY <1>2 DEF Stays, Key

(* A section that answers for the current key leaves its thread done, or    *)
(* at the start of the call for the next key.                               *)
LEMMA AnswerStep ==
  ASSUME TypeOK, NEW w \in Workers, pc[w] \in Busy, NEW a \in Answers,
         Answer(w, a), UNCHANGED <<req, deadline>>
  PROVE  /\ CallsOK'
         /\ \A v \in Workers : Stays(v, "ttl_left") /\ Stays(v, "reap")
         /\ pc'[w] \notin {"ttl_left", "reap"}
  <1> DEFINE r == req[w]
             l == IF Len(out[w]) + 1 = Len(r.keys) THEN "done" ELSE Start(r)
  <1>1. /\ r \in Requests
        /\ Len(out[w]) \in Nat
        /\ Len(out[w]) + 1 \in 1 .. Len(r.keys)
        /\ deadline[w] \in Nat \cup {None}
    BY BusyFacts DEF TypeOK
  <1>2. /\ pc' = [pc EXCEPT ![w] = l]
        /\ out' = [out EXCEPT ![w] = Append(@, a)]
    BY DEF Answer, Goto
  <1>3. l \in Labels /\ l \notin {"ttl_left", "reap", "expire"}
    BY <1>1, ReachableFacts DEF Busy, Labels
  <1>4. /\ Append(out[w], a) \in Seq(Answers)
        /\ Len(Append(out[w], a)) = Len(out[w]) + 1
    BY DEF TypeOK
  <1>5. /\ pc' \in [Workers -> Labels]
        /\ out' \in [Workers -> Seq(Answers)]
        /\ req' \in [Workers -> Requests \cup {None}]
        /\ deadline' \in [Workers -> Nat \cup {None}]
    BY <1>2, <1>3, <1>4 DEF TypeOK
  <1>6. pc'[w] = l /\ out'[w] = Append(out[w], a)
    BY <1>2 DEF TypeOK
  <1>7. CallOK(w)'
    <2>1. CASE Len(out[w]) + 1 = Len(r.keys)
      <3>1. pc'[w] = "done" /\ req'[w] \in Requests /\ Len(out'[w]) = Len(req'[w].keys)
        BY <1>1, <1>4, <1>6, <2>1
      <3> QED
        BY <3>1 DEF CallOK
    <2>2. CASE Len(out[w]) + 1 # Len(r.keys)
      <3>0. Len(out[w]) + 1 < Len(r.keys) /\ Len(r.keys) \in Nat /\ Len(r.keys) # 1
        <4>1. ASSUME NEW n \in Nat, NEW m \in Nat, n + 1 \in 1 .. m, n + 1 # m
              PROVE  n + 1 < m /\ m # 1
          BY <4>1
        <4>2. Len(r.keys) \in Nat
          BY <1>1, RequestFacts
        <4> QED
          BY <1>1, <2>2, <4>1, <4>2
      <3>1. l = Start(r)
        BY <2>2
      <3>2. l # "stamp"
        <4>1. Start(r) = "stamp" => r.op = "EXPIRE"
          BY <1>1, ReachableFacts
        <4>2. r.op = "EXPIRE" => Len(r.keys) = 1
          BY <1>1, RequestFacts DEF SingleOps
        <4>3. Start(r) # "stamp"
          BY <3>0, <4>1, <4>2, Zenon
        <4> QED
          BY <3>1, <4>3, Zenon
      <3>3. /\ req'[w] \in Requests
            /\ pc'[w] \in Reachable(req'[w])
            /\ Len(out'[w]) < Len(req'[w].keys)
            /\ pc'[w] = "expire" => deadline'[w] \in Nat
            /\ pc'[w] = "stamp" => deadline'[w] = None
        BY <1>1, <1>3, <1>4, <1>6, <3>0, <3>1, <3>2, ReachableFacts
      <3> QED
        BY <3>3 DEF CallOK
    <2> QED
      BY <2>1, <2>2
  <1>8. ASSUME NEW v \in Workers, v # w
        PROVE  CallOK(v)' /\ Stays(v, "ttl_left") /\ Stays(v, "reap")
    <2>1. pc'[v] = pc[v] /\ req'[v] = req[v] /\ out'[v] = out[v] /\ deadline'[v] = deadline[v]
      BY <1>2, <1>8 DEF TypeOK
    <2> QED
      BY <2>1, OtherCalls DEF Labels
  <1>9. Stays(w, "ttl_left") /\ Stays(w, "reap")
    BY <1>3, <1>6 DEF Stays
  <1> QED
    BY <1>3, <1>5, <1>6, <1>7, <1>8, <1>9 DEF CallsOK

(* A section that does not answer goes on inside the same call. *)
LEMMA MoveStep ==
  ASSUME TypeOK, NEW w \in Workers, pc[w] \in Busy, NEW l \in Reachable(req[w]),
         Goto(w, l), UNCHANGED <<req, out>>,
         deadline' \in [Workers -> Nat \cup {None}],
         \A v \in Workers : v # w => deadline'[v] = deadline[v],
         l = "expire" => deadline'[w] \in Nat,
         l # "stamp"
  PROVE  /\ CallsOK'
         /\ \A v \in Workers : v # w => Stays(v, "ttl_left") /\ Stays(v, "reap")
         /\ pc'[w] = l
         /\ Key(w)' = Key(w)
  <1>1. pc' = [pc EXCEPT ![w] = l] /\ pc'[w] = l
    BY DEF Goto, TypeOK
  <1>2. /\ req[w] \in Requests
        /\ Len(out[w]) < Len(req[w].keys)
        /\ l \in Labels
    <2>1. CallOK(w)
      BY DEF TypeOK
    <2>2. req[w] \in Requests /\ Len(out[w]) < Len(req[w].keys)
      BY <2>1 DEF CallOK, Busy, Labels
    <2> QED
      BY <2>2, ReachableFacts DEF Busy
  <1>3. CallOK(w)'
    BY <1>1, <1>2 DEF CallOK
  <1>4. ASSUME NEW v \in Workers, v # w
        PROVE  CallOK(v)' /\ Stays(v, "ttl_left") /\ Stays(v, "reap")
    <2>1. pc'[v] = pc[v] /\ req'[v] = req[v] /\ out'[v] = out[v] /\ deadline'[v] = deadline[v]
      BY <1>1, <1>4 DEF TypeOK
    <2> QED
      BY <2>1, OtherCalls DEF Labels
  <1>5. /\ pc' \in [Workers -> Labels]
        /\ req' \in [Workers -> Requests \cup {None}]
        /\ out' \in [Workers -> Seq(Answers)]
    BY <1>1, <1>2 DEF TypeOK
  <1> QED
    BY <1>1, <1>3, <1>4, <1>5 DEF CallsOK, Key
-----------------------------------------------------------------------------
(* A section that only reads the DashMap keeps the invariant if a thread it *)
(* brings to the second half of ttl, or to a removal, belongs there.        *)
LEMMA ReadKeeps ==
  ASSUME IInv, CallsOK', inner' = inner, now' \in Nat,
         \A v \in Workers :
           Stays(v, "ttl_left") \/ (pc'[v] = "ttl_left" /\ Present(Key(v)')),
         \A v \in Workers :
           Stays(v, "reap") \/ (pc'[v] = "reap" /\ Key(v)' \in Expirable)
  PROVE  IInv'
  <1>1. ASSUME NEW v \in Workers, pc'[v] = "ttl_left" PROVE Present(Key(v))'
    BY <1>1 DEF IInv, TypeOK, Stays, Present
  <1>2. ASSUME NEW v \in Workers, pc'[v] = "reap" PROVE (Key(v) \in Expirable)'
    BY <1>2 DEF IInv, DeadlinesAreGiven, Stays
  <1>3. ASSUME NEW k \in Keys PROVE (Present(k) /\ inner[k].expires_at # None => k \in Expirable)'
    BY DEF IInv, DeadlinesAreGiven, Present
  <1>4. inner' \in [Keys -> Entry \cup {Vacant}]
    BY DEF IInv, TypeOK
  <1> QED
    BY <1>1, <1>2, <1>3, <1>4 DEF IInv, TypeOK, DeadlinesAreGiven, CallsOK

(* A section that writes the entry of one key keeps it if the shard has no  *)
(* reader and the new entry has a deadline only where one was given.        *)
LEMMA WriteKeeps ==
  ASSUME IInv, CallsOK', now' = now, NEW k \in Keys, WriteLockFree(k),
         NEW e \in Entry \cup {Vacant}, inner' = [inner EXCEPT ![k] = e],
         e # Vacant /\ e.expires_at # None => k \in Expirable,
         \A v \in Workers : Stays(v, "ttl_left"),
         \A v \in Workers : Stays(v, "reap") \/ (pc'[v] = "reap" /\ Key(v)' \in Expirable)
  PROVE  IInv'
  <1>1. ASSUME NEW v \in Workers, pc'[v] = "ttl_left" PROVE Present(Key(v))'
    <2>1. pc[v] = "ttl_left" /\ Key(v)' = Key(v)
      BY <1>1 DEF Stays
    <2>2. Present(Key(v)) /\ Key(v) \in Keys
      BY <2>1, BusyFacts DEF IInv, TypeOK, Busy, Labels
    <2>3. Key(v) # k
      BY <2>1 DEF WriteLockFree, HoldsGuard
    <2>4. inner'[Key(v)] = inner[Key(v)]
      BY <2>2, <2>3 DEF IInv, TypeOK
    <2> QED
      BY <2>1, <2>2, <2>4 DEF Present
  <1>2. ASSUME NEW v \in Workers, pc'[v] = "reap" PROVE (Key(v) \in Expirable)'
    BY <1>2 DEF IInv, DeadlinesAreGiven, Stays
  <1>3. ASSUME NEW j \in Keys PROVE (Present(j) /\ inner[j].expires_at # None => j \in Expirable)'
    <2>1. CASE j = k
      BY <2>1 DEF IInv, TypeOK, Present
    <2>2. CASE j # k
      BY <2>2 DEF IInv, TypeOK, DeadlinesAreGiven, Present
    <2> QED
      BY <2>1, <2>2
  <1>4. inner' \in [Keys -> Entry \cup {Vacant}] /\ now' \in Nat
    BY DEF IInv, TypeOK
  <1> QED
    BY <1>1, <1>2, <1>3, <1>4 DEF IInv, TypeOK, DeadlinesAreGiven, CallsOK
-----------------------------------------------------------------------------
LEMMA EntryFacts ==
  ASSUME NEW v \in Bytes, NEW d \in Nat, NEW e \in Entry
  PROVE  /\ NewEntry(v) \in Entry /\ NewEntry(v).expires_at = None
         /\ [e EXCEPT !.value = v] \in Entry
         /\ [e EXCEPT !.value = v].expires_at = e.expires_at
         /\ [e EXCEPT !.expires_at = d] \in Entry
         /\ [e EXCEPT !.expires_at = d] # Vacant
         /\ e # Vacant
  BY SentinelAssumption DEF Entry, NewEntry

(* An EXPIRE that reaches the map is one that gives its key a deadline. *)
LEMMA ArmedKey ==
  ASSUME TypeOK, NEW w \in Workers, pc[w] = "expire"
  PROVE  Key(w) \in Expirable
  <1>1. /\ req[w] \in Requests
        /\ req[w].op = "EXPIRE" /\ req[w].secs > 0
        /\ Len(out[w]) \in Nat /\ Len(out[w]) + 1 \in 1 .. Len(req[w].keys)
    BY BusyFacts, ReachableFacts DEF Busy, Labels
  <1>2. Len(req[w].keys) = 1
    BY <1>1, RequestFacts DEF SingleOps
  <1>3. Len(out[w]) + 1 = 1
    BY <1>1, <1>2
  <1> QED
    BY <1>1, <1>3 DEF Key, Expirable

(* A call finds only keys with a given deadline expired. *)
LEMMA ExpiredKey ==
  ASSUME IInv, NEW w \in Workers, pc[w] \in Busy, Present(Key(w)), Expired(inner[Key(w)])
  PROVE  Key(w) \in Expirable
  BY BusyFacts DEF IInv, DeadlinesAreGiven, Expired, ExpiredAt

(* Going to the removal after an expired look-up. *)
LEMMA ReapNext ==
  ASSUME IInv, NEW w \in Workers, pc[w] \in Busy, "reap" \in Reachable(req[w]),
         Present(Key(w)), Expired(inner[Key(w)]),
         Goto(w, "reap"), UNCHANGED <<inner, now, req, out, deadline>>
  PROVE  IInv'
  <1>1. deadline' \in [Workers -> Nat \cup {None}]
    BY DEF IInv, TypeOK
  <1>2. /\ CallsOK'
        /\ \A v \in Workers : v # w => Stays(v, "ttl_left") /\ Stays(v, "reap")
        /\ pc'[w] = "reap" /\ Key(w)' = Key(w)
    BY <1>1, MoveStep DEF IInv
  <1>3. Key(w)' \in Expirable
    BY <1>2, ExpiredKey
  <1>4. \A v \in Workers : Stays(v, "ttl_left")
    BY <1>2 DEF Stays
  <1>5. now' \in Nat
    BY DEF IInv, TypeOK
  <1> QED
    BY <1>2, <1>3, <1>4, <1>5, ReadKeeps

(* Answering without a change to the map. *)
LEMMA AnswerNext ==
  ASSUME IInv, NEW w \in Workers, pc[w] \in Busy, NEW a \in Answers, Answer(w, a),
         UNCHANGED <<inner, now, req, deadline>>
  PROVE  IInv'
  <1>1. CallsOK' /\ \A v \in Workers : Stays(v, "ttl_left") /\ Stays(v, "reap")
    BY AnswerStep DEF IInv
  <1>2. now' \in Nat
    BY DEF IInv, TypeOK
  <1> QED
    BY <1>1, <1>2, ReadKeeps

(* Going on inside the call to a section that is neither a removal nor the  *)
(* second half of ttl.                                                      *)
LEMMA GoNext ==
  ASSUME IInv, NEW w \in Workers, pc[w] \in Busy, NEW l \in Reachable(req[w]),
         l \notin {"reap", "ttl_left", "stamp"}, Goto(w, l), UNCHANGED <<inner, now, req, out>>,
         deadline' \in [Workers -> Nat \cup {None}],
         \A v \in Workers : v # w => deadline'[v] = deadline[v],
         l = "expire" => deadline'[w] \in Nat
  PROVE  IInv'
  <1>1. /\ CallsOK'
        /\ \A v \in Workers : v # w => Stays(v, "ttl_left") /\ Stays(v, "reap")
        /\ pc'[w] = l
    BY MoveStep DEF IInv
  <1>2. \A v \in Workers : Stays(v, "ttl_left") /\ Stays(v, "reap")
    BY <1>1 DEF Stays
  <1>3. now' \in Nat
    BY DEF IInv, TypeOK
  <1> QED
    BY <1>1, <1>2, <1>3, ReadKeeps

(* Answering together with a write of the key's entry. *)
LEMMA WriteNext ==
  ASSUME IInv, NEW w \in Workers, pc[w] \in Busy, NEW a \in Answers, Answer(w, a),
         WriteLockFree(Key(w)),
         NEW e \in Entry \cup {Vacant}, inner' = [inner EXCEPT ![Key(w)] = e],
         e # Vacant /\ e.expires_at # None => Key(w) \in Expirable,
         UNCHANGED <<now, req, deadline>>
  PROVE  IInv'
  <1>1. CallsOK' /\ \A v \in Workers : Stays(v, "ttl_left") /\ Stays(v, "reap")
    BY AnswerStep DEF IInv
  <1>2. Key(w) \in Keys
    BY BusyFacts DEF IInv
  <1> QED
    BY <1>1, <1>2, WriteKeeps
-----------------------------------------------------------------------------
LEMMA InitIInv == Init => IInv
  <1> SUFFICES ASSUME Init PROVE IInv
    OBVIOUS
  <1>1. \A w \in Workers : CallOK(w)
    BY DEF Init, CallOK
  <1>2. out \in [Workers -> Seq(Answers)]
    BY DEF Init
  <1>3. TypeOK
    BY <1>1, <1>2 DEF Init, TypeOK, Labels
  <1>4. DeadlinesAreGiven
    BY DEF Init, DeadlinesAreGiven, Present
  <1> QED
    BY <1>3, <1>4 DEF IInv

LEMMA InvokeIInv ==
  ASSUME IInv, NEW w \in Workers, Invoke(w)
  PROVE  IInv'
  <1>1. PICK r \in Requests : req' = [req EXCEPT ![w] = r] /\ Goto(w, Start(r))
    BY DEF Invoke
  <1>2. /\ pc[w] = "idle" /\ UNCHANGED <<inner, now, out, deadline>>
        /\ pc' = [pc EXCEPT ![w] = Start(r)]
    BY <1>1 DEF Invoke, Goto
  <1>3. /\ Start(r) \in Reachable(r) /\ Start(r) \in Labels
        /\ Start(r) \notin {"reap", "ttl_left", "expire"}
    BY ReachableFacts DEF Busy
  <1>4. out[w] = <<>> /\ deadline[w] = None
    BY <1>2, ReachableFacts DEF IInv, TypeOK, CallOK, Busy, Labels
  <1>5. CallOK(w)'
    <2>1. /\ req'[w] = r /\ pc'[w] = Start(r)
          /\ Len(out'[w]) = 0 /\ deadline'[w] = None
      BY <1>1, <1>2, <1>4 DEF IInv, TypeOK
    <2>2. Len(r.keys) \in Nat /\ Len(r.keys) >= 1
      BY RequestFacts
    <2> QED
      BY <1>3, <2>1, <2>2 DEF CallOK
  <1>6. ASSUME NEW v \in Workers, v # w
        PROVE  CallOK(v)' /\ Stays(v, "ttl_left") /\ Stays(v, "reap")
    <2>1. pc'[v] = pc[v] /\ req'[v] = req[v] /\ out'[v] = out[v] /\ deadline'[v] = deadline[v]
      BY <1>1, <1>2, <1>6 DEF IInv, TypeOK
    <2> QED
      BY <2>1, OtherCalls DEF IInv, Labels
  <1>7. pc'[w] \notin {"reap", "ttl_left"}
    BY <1>2, <1>3 DEF IInv, TypeOK
  <1>8. /\ pc' \in [Workers -> Labels]
        /\ req' \in [Workers -> Requests \cup {None}]
        /\ out' \in [Workers -> Seq(Answers)]
        /\ deadline' \in [Workers -> Nat \cup {None}]
        /\ now' \in Nat
    BY <1>1, <1>2, <1>3 DEF IInv, TypeOK
  <1>9. CallsOK'
    BY <1>5, <1>6, <1>8 DEF CallsOK
  <1>10. \A v \in Workers : Stays(v, "ttl_left") /\ Stays(v, "reap")
    BY <1>6, <1>7 DEF Stays
  <1> QED
    BY <1>2, <1>8, <1>9, <1>10, ReadKeeps

LEMMA ReturnIInv ==
  ASSUME IInv, NEW w \in Workers, Return(w)
  PROVE  IInv'
  <1>1. /\ pc' = [pc EXCEPT ![w] = "idle"]
        /\ req' = [req EXCEPT ![w] = None]
        /\ out' = [out EXCEPT ![w] = <<>>]
        /\ deadline' = [deadline EXCEPT ![w] = None]
        /\ UNCHANGED <<inner, now>>
    BY DEF Return, Goto
  <1>2. <<>> \in Seq(Answers)
    OBVIOUS
  <1>3. /\ pc' \in [Workers -> Labels]
        /\ req' \in [Workers -> Requests \cup {None}]
        /\ out' \in [Workers -> Seq(Answers)]
        /\ deadline' \in [Workers -> Nat \cup {None}]
        /\ now' \in Nat
    BY <1>1, <1>2 DEF IInv, TypeOK, Labels
  <1>4. CallOK(w)' /\ pc'[w] = "idle"
    BY <1>1 DEF IInv, TypeOK, CallOK
  <1>5. ASSUME NEW v \in Workers, v # w
        PROVE  CallOK(v)' /\ Stays(v, "ttl_left") /\ Stays(v, "reap")
    <2>1. pc'[v] = pc[v] /\ req'[v] = req[v] /\ out'[v] = out[v] /\ deadline'[v] = deadline[v]
      BY <1>1, <1>5 DEF IInv, TypeOK
    <2> QED
      BY <2>1, OtherCalls DEF IInv, Labels
  <1>6. CallsOK'
    BY <1>3, <1>4, <1>5 DEF CallsOK
  <1>7. \A v \in Workers : Stays(v, "ttl_left") /\ Stays(v, "reap")
    BY <1>4, <1>5 DEF Stays
  <1> QED
    BY <1>1, <1>3, <1>6, <1>7, ReadKeeps

LEMMA SetIInv ==
  ASSUME IInv, NEW w \in Workers, Set(w)
  PROVE  IInv'
  <1>1. pc[w] \in Busy
    BY DEF Set, Busy, Labels
  <1>2. Value(w) \in Bytes
    BY <1>1, BusyFacts DEF IInv, Set
  <1>3. NewEntry(Value(w)) \in Entry /\ NewEntry(Value(w)).expires_at = None
    BY <1>2 DEF NewEntry, Entry
  <1>4. Ok \in Answers
    BY DEF Answers
  <1> QED
    BY <1>1, <1>3, <1>4, WriteNext DEF Set

LEMMA GetIInv ==
  ASSUME IInv, NEW w \in Workers, Get(w)
  PROVE  IInv'
  <1>1. pc[w] \in Busy
    BY DEF Get, Busy, Labels
  <1>2. UNCHANGED <<inner, now, req, deadline>>
    BY DEF Get
  <1>3. CASE ~Present(Key(w)) /\ Answer(w, None)
    BY <1>1, <1>2, <1>3, AnswerNext DEF Answers
  <1>4. CASE Present(Key(w)) /\ Expired(inner[Key(w)]) /\ Goto(w, "reap") /\ UNCHANGED out
    <2>1. "reap" \in Reachable(req[w])
      BY <1>1, BusyFacts, ReachableFacts DEF IInv, Get
    <2> QED
      BY <1>1, <1>2, <1>4, <2>1, ReapNext
  <1>5. CASE Live(Key(w)) /\ Answer(w, inner[Key(w)].value)
    <2>1. inner[Key(w)].value \in Answers
      BY <1>1, <1>5, BusyFacts DEF IInv, TypeOK, Live, Present, Entry, Answers
    <2> QED
      BY <1>1, <1>2, <1>5, <2>1, AnswerNext
  <1> QED
    BY <1>3, <1>4, <1>5 DEF Get

LEMMA DelIInv ==
  ASSUME IInv, NEW w \in Workers, Del(w)
  PROVE  IInv'
  <1>1. pc[w] = "del" /\ pc[w] \in Busy
    BY DEF Del, Busy, Labels
  <1>2. UNCHANGED <<inner, now, req, out, deadline>>
    BY DEF Del
  <1>3. "reap" \in Reachable(req[w]) /\ "del_take" \in Reachable(req[w])
    BY <1>1, BusyFacts, ReachableFacts DEF IInv
  <1>4. CASE Present(Key(w)) /\ Expired(inner[Key(w)])
    <2>1. Goto(w, "reap")
      BY <1>4 DEF Del
    <2> QED
      BY <1>1, <1>2, <1>3, <1>4, <2>1, ReapNext
  <1>5. CASE ~(Present(Key(w)) /\ Expired(inner[Key(w)]))
    <2>1. Goto(w, "del_take")
      BY <1>5 DEF Del
    <2>2. deadline' \in [Workers -> Nat \cup {None}]
      BY <1>2 DEF IInv, TypeOK
    <2> QED
      BY <1>1, <1>2, <1>3, <2>1, <2>2, GoNext
  <1> QED
    BY <1>4, <1>5

LEMMA TakeIInv ==
  ASSUME IInv, NEW w \in Workers, DelTake(w) \/ Reap(w)
  PROVE  IInv'
  <1>1. pc[w] \in Busy
    BY DEF DelTake, Reap, Busy, Labels
  <1>2. PICK a \in Answers : Answer(w, a)
    <2>1. CASE DelTake(w)
      BY <2>1 DEF DelTake, Answers
    <2>2. CASE Reap(w)
      BY <2>2 DEF Reap, Missing, Answers
    <2> QED
      BY <2>1, <2>2
  <1>3. /\ WriteLockFree(Key(w))
        /\ inner' = [inner EXCEPT ![Key(w)] = Vacant]
        /\ UNCHANGED <<now, req, deadline>>
    BY DEF DelTake, Reap
  <1> QED
    BY <1>1, <1>2, <1>3, WriteNext

LEMMA StampIInv ==
  ASSUME IInv, NEW w \in Workers, Stamp(w)
  PROVE  IInv'
  <1> DEFINE expiry == now + req[w].secs * TicksPerSec
  <1>1. pc[w] = "stamp" /\ pc[w] \in Busy /\ UNCHANGED <<inner, now, req>>
    BY DEF Stamp, Busy, Labels
  <1>2. req[w] \in Requests /\ req[w].op = "EXPIRE" /\ req[w].secs > 0
    BY <1>1, BusyFacts, ReachableFacts DEF IInv
  <1>3. "expire" \in Reachable(req[w])
    BY <1>2, ReachableFacts
  <1>4. expiry \in Nat
    <2>1. req[w].secs \in Nat /\ TicksPerSec \in Nat /\ now \in Nat
      BY <1>2, RequestFacts, ClockAssumption DEF IInv, TypeOK
    <2>2. ASSUME NEW s \in Nat, NEW t \in Nat PROVE s * t \in Nat
      BY SMT
    <2> QED
      BY <2>1, <2>2
  <1>5. CASE Answer(w, 0) /\ UNCHANGED deadline
    BY <1>1, <1>5, AnswerNext DEF Answers
  <1>6. CASE /\ deadline' = [deadline EXCEPT ![w] = expiry]
             /\ Goto(w, "expire")
             /\ UNCHANGED out
    <2>1. /\ deadline' \in [Workers -> Nat \cup {None}]
          /\ \A v \in Workers : v # w => deadline'[v] = deadline[v]
          /\ deadline'[w] \in Nat
      BY <1>4, <1>6 DEF IInv, TypeOK
    <2> QED
      BY <1>1, <1>3, <1>6, <2>1, GoNext
  <1> QED
    BY <1>5, <1>6 DEF Stamp

LEMMA ExpireIInv ==
  ASSUME IInv, NEW w \in Workers, Expire(w)
  PROVE  IInv'
  <1>1. pc[w] = "expire" /\ pc[w] \in Busy /\ UNCHANGED <<now, req, deadline>>
    BY DEF Expire, Busy, Labels
  <1>2. req[w] \in Requests /\ req[w].op = "EXPIRE" /\ deadline[w] \in Nat /\ Key(w) \in Keys
    BY <1>1, BusyFacts, ReachableFacts DEF IInv
  <1>3. CASE Answer(w, 0) /\ UNCHANGED inner
    BY <1>1, <1>3, AnswerNext DEF Answers
  <1>4. CASE Present(Key(w)) /\ Expired(inner[Key(w)]) /\ Goto(w, "reap") /\ UNCHANGED <<inner, out>>
    <2>1. "reap" \in Reachable(req[w])
      BY <1>2, ReachableFacts
    <2> QED
      BY <1>1, <1>4, <2>1, ReapNext
  <1>5. CASE /\ Live(Key(w))
             /\ inner' = [inner EXCEPT ![Key(w)].expires_at = deadline[w]]
             /\ Answer(w, 1)
    <2> DEFINE e == [inner[Key(w)] EXCEPT !.expires_at = deadline[w]]
    <2>1. inner[Key(w)] \in Entry
      BY <1>2, <1>5 DEF IInv, TypeOK, Live, Present
    <2>2. e \in Entry
      BY <1>2, <2>1 DEF Entry
    <2>3. inner' = [inner EXCEPT ![Key(w)] = e]
      BY <1>5
    <2>4. Key(w) \in Expirable
      BY <1>1, ArmedKey DEF IInv
    <2>5. WriteLockFree(Key(w)) /\ 1 \in Answers
      BY DEF Expire, Answers
    <2> HIDE DEF e
    <2> QED
      BY <1>1, <1>5, <2>2, <2>3, <2>4, <2>5, WriteNext
  <1> QED
    BY <1>3, <1>4, <1>5 DEF Expire

LEMMA TtlIInv ==
  ASSUME IInv, NEW w \in Workers, Ttl(w)
  PROVE  IInv'
  <1>1. pc[w] = "ttl" /\ pc[w] \in Busy /\ UNCHANGED <<inner, now, req, deadline>>
    BY DEF Ttl, Busy, Labels
  <1>2. "reap" \in Reachable(req[w]) /\ "ttl_left" \in Reachable(req[w])
    BY <1>1, BusyFacts, ReachableFacts DEF IInv
  <1>3. CASE ~Present(Key(w)) /\ Answer(w, -2)
    BY <1>1, <1>3, AnswerNext DEF Answers
  <1>4. CASE Present(Key(w)) /\ Expired(inner[Key(w)]) /\ Goto(w, "reap") /\ UNCHANGED out
    BY <1>1, <1>2, <1>4, ReapNext
  <1>5. CASE Present(Key(w)) /\ Goto(w, "ttl_left") /\ UNCHANGED out
    <2>1. deadline' \in [Workers -> Nat \cup {None}] /\ now' \in Nat
      BY <1>1 DEF IInv, TypeOK
    <2>2. /\ CallsOK'
          /\ \A v \in Workers : v # w => Stays(v, "ttl_left") /\ Stays(v, "reap")
          /\ pc'[w] = "ttl_left" /\ Key(w)' = Key(w)
      BY <1>1, <1>2, <1>5, <2>1, MoveStep DEF IInv
    <2>3. \A v \in Workers : Stays(v, "reap")
      BY <2>2 DEF Stays
    <2>4. pc'[w] = "ttl_left" /\ Present(Key(w)')
      BY <1>5, <2>2
    <2> QED
      BY <1>1, <2>1, <2>2, <2>3, <2>4, ReadKeeps
  <1> QED
    BY <1>3, <1>4, <1>5 DEF Ttl

LEMMA SecondsLeftType ==
  ASSUME NEW e \in Entry, NEW t \in Nat
  PROVE  SecondsLeft(e, t) \in Int
  <1>1. TicksPerSec \in Nat /\ TicksPerSec > 0
    BY ClockAssumption
  <1>2. CASE e.expires_at = None
    BY <1>2 DEF SecondsLeft
  <1>3. CASE e.expires_at # None /\ ExpiredAt(e, t)
    BY <1>3 DEF SecondsLeft
  <1>4. CASE e.expires_at # None /\ ~ExpiredAt(e, t)
    <2>1. e.expires_at \in Nat
      BY <1>4 DEF Entry
    <2>2. (e.expires_at - t) \div TicksPerSec \in Int
      BY <1>1, <2>1
    <2> QED
      BY <1>4, <2>2 DEF SecondsLeft
  <1> QED
    BY <1>2, <1>3, <1>4

LEMMA TtlLeftIInv ==
  ASSUME IInv, NEW w \in Workers, TtlLeft(w)
  PROVE  IInv'
  <1> DEFINE e == inner[Key(w)]
  <1>1. pc[w] = "ttl_left" /\ pc[w] \in Busy /\ UNCHANGED <<inner, now, req, deadline>>
    BY DEF TtlLeft, Busy, Labels
  <1>2. e \in Entry
    BY <1>1, BusyFacts DEF IInv, TypeOK, Present
  <1>3. SecondsLeft(e, now) \in Int
    BY <1>2, SecondsLeftType DEF IInv, TypeOK
  <1>4. SecondsLeft(e, now) \in Answers
    BY <1>3 DEF Answers
  <1> QED
    BY <1>1, <1>4, AnswerNext DEF TtlLeft

LEMMA SumFacts ==
  ASSUME NEW v \in Bytes, NEW d \in {-1, 1}, Sum(v, d) # None
  PROVE  Sum(v, d) \in I64 /\ to_string[Sum(v, d)] \in Bytes
  <1>1. Sum(v, d) \in I64
    BY DEF Sum
  <1> QED
    BY <1>1, IntegerAssumption

LEMMA IncrIInv ==
  ASSUME IInv, NEW w \in Workers, Incr(w)
  PROVE  IInv'
  <1> DEFINE base    == IF Live(Key(w)) THEN inner[Key(w)] ELSE NewEntry(to_string[0])
             updated == Sum(base.value, Delta(req[w]))
             e       == [base EXCEPT !.value = to_string[updated]]
  <1>1. /\ pc[w] = "incr" /\ pc[w] \in Busy /\ UNCHANGED <<now, req, deadline>>
        /\ WriteLockFree(Key(w))
    BY DEF Incr, Busy, Labels
  <1>2. Key(w) \in Keys
    BY <1>1, BusyFacts DEF IInv
  <1>3. to_string[0] \in Bytes
    BY IntegerAssumption DEF I64
  <1>4. base \in Entry /\ (base.expires_at # None => Key(w) \in Expirable)
    <2>1. CASE Live(Key(w))
      BY <1>2, <2>1 DEF IInv, TypeOK, DeadlinesAreGiven, Live, Present
    <2>2. CASE ~Live(Key(w))
      BY <1>3, <2>2 DEF Entry, NewEntry
    <2> QED
      BY <2>1, <2>2
  <1>5. CASE inner' = [inner EXCEPT ![Key(w)] = base] /\ Answer(w, Error)
    <2>1. Error \in Answers
      BY DEF Answers
    <2> HIDE DEF base
    <2> QED
      BY <1>1, <1>4, <1>5, <2>1, WriteNext
  <1>6. CASE updated # None /\ inner' = [inner EXCEPT ![Key(w)] = e] /\ Answer(w, updated)
    <2>1. base.value \in Bytes
      BY <1>4 DEF Entry
    <2>2. Delta(req[w]) \in {-1, 1}
      BY DEF Delta
    <2> HIDE DEF base
    <2>3. updated \in I64 /\ to_string[updated] \in Bytes
      BY <1>6, <2>1, <2>2, SumFacts
    <2>4. updated \in Answers
      BY <2>3, IntegerAssumption DEF Answers, I64
    <2>5. e \in Entry /\ e.expires_at = base.expires_at
      BY <1>4, <2>3 DEF Entry
    <2> HIDE DEF e, updated
    <2> QED
      BY <1>1, <1>4, <1>6, <2>4, <2>5, WriteNext
  <1> QED
    BY <1>5, <1>6 DEF Incr

LEMMA TickIInv ==
  ASSUME IInv, Tick
  PROVE  IInv'
  <1>1. now' \in Nat /\ UNCHANGED <<inner, pc, req, out, deadline>>
    BY DEF IInv, TypeOK, Tick
  <1>2. \A v \in Workers : CallOK(v)' /\ Stays(v, "ttl_left") /\ Stays(v, "reap")
    BY <1>1, OtherCalls DEF IInv, Labels
  <1>3. CallsOK'
    BY <1>1, <1>2 DEF IInv, TypeOK, CallsOK
  <1> QED
    BY <1>1, <1>2, <1>3, ReadKeeps
-----------------------------------------------------------------------------
LEMMA NextIInv ==
  ASSUME IInv, [Next]_vars
  PROVE  IInv'
  <1>1. CASE Tick
    BY <1>1, TickIInv
  <1>2. ASSUME NEW w \in Workers, Invoke(w) \/ Step(w)
        PROVE  IInv'
    BY <1>2, InvokeIInv, SetIInv, GetIInv, DelIInv, TakeIInv, StampIInv, ExpireIInv,
       TtlIInv, TtlLeftIInv, IncrIInv, ReturnIInv DEF Step
  <1>3. CASE UNCHANGED vars
    <2>1. \A v \in Workers : CallOK(v)' /\ Stays(v, "ttl_left") /\ Stays(v, "reap")
      BY <1>3, OtherCalls DEF IInv, Labels, vars
    <2>2. CallsOK' /\ now' \in Nat /\ inner' = inner
      BY <1>3, <2>1 DEF IInv, TypeOK, CallsOK, vars
    <2> QED
      BY <2>1, <2>2, ReadKeeps
  <1> QED
    BY <1>1, <1>2, <1>3 DEF Next

(* The invariant holds in every reachable state. *)
THEOREM IInvHolds == Spec => []IInv
  BY InitIInv, NextIInv, PTL DEF Spec

(* Whatever threads, keys, values, shards and commands: the state stays     *)
(* well-formed, and the entry Storage::ttl measures is there until it has.  *)
THEOREM TypeCorrect == Spec => []TypeOK
  BY IInvHolds, PTL DEF IInv

(* Only a key some EXPIRE gives a deadline ever has one, so only such a key *)
(* is removed by a call that is not DEL.                                    *)
THEOREM DeadlinesGiven == Spec => []DeadlinesAreGiven
  BY IInvHolds, PTL DEF IInv
-----------------------------------------------------------------------------
(* What a step can do to the entry of a key: the sections that take an      *)
(* entry away are the counted deletion and the removal after an expired     *)
(* look-up, each of the key its thread works on.                            *)
LEMMA Removals ==
  ASSUME IInv, [Next]_vars, NEW k \in Keys, Present(k), inner'[k] = Vacant
  PROVE  \E w \in Workers : Key(w) = k /\ (DelTake(w) \/ Reap(w))
  <1>1. inner \in [Keys -> Entry \cup {Vacant}] /\ inner'[k] # inner[k]
    BY DEF IInv, TypeOK, Present
  <1>2. CASE Tick \/ UNCHANGED vars
    BY <1>1, <1>2 DEF Tick, vars
  <1>3. ASSUME NEW w \in Workers, Invoke(w) \/ Step(w)
        PROVE  Key(w) = k /\ (DelTake(w) \/ Reap(w))
    <2>1. CASE Invoke(w) \/ Return(w) \/ Get(w) \/ Del(w) \/ Stamp(w) \/ Ttl(w) \/ TtlLeft(w)
      BY <1>1, <2>1 DEF Invoke, Return, Get, Del, Stamp, Ttl, TtlLeft
    <2>2. CASE Set(w)
      <3>1. Value(w) \in Bytes
        BY <2>2, BusyFacts DEF IInv, Set, Busy, Labels
      <3>2. NewEntry(Value(w)) # Vacant
        BY <3>1, SentinelAssumption DEF NewEntry
      <3> QED
        BY <1>1, <2>2, <3>2 DEF Set
    <2>3. CASE Expire(w)
      <3> DEFINE e == [inner[Key(w)] EXCEPT !.expires_at = deadline[w]]
      <3>1. /\ Live(Key(w)) /\ inner' = [inner EXCEPT ![Key(w)] = e]
        BY <1>1, <2>3 DEF Expire
      <3>2. deadline[w] \in Nat /\ Key(w) \in Keys
        BY <2>3, BusyFacts DEF IInv, Expire, Busy, Labels
      <3>3. inner[Key(w)] \in Entry
        BY <1>1, <3>1, <3>2 DEF Live, Present
      <3>4. e \in Entry
        BY <3>2, <3>3 DEF Entry
      <3>5. e # Vacant
        BY <3>4, SentinelAssumption DEF Entry
      <3> HIDE DEF e
      <3> QED
        BY <1>1, <3>1, <3>5
    <2>4. CASE Incr(w)
      <3> DEFINE base == IF Live(Key(w)) THEN inner[Key(w)] ELSE NewEntry(to_string[0])
                 n    == Sum(base.value, Delta(req[w]))
                 e    == [base EXCEPT !.value = to_string[n]]
      <3>1. \/ inner' = [inner EXCEPT ![Key(w)] = base]
            \/ inner' = [inner EXCEPT ![Key(w)] = e] /\ n # None
        BY <2>4 DEF Incr
      <3>2. Key(w) \in Keys
        BY <2>4, BusyFacts DEF IInv, Incr, Busy, Labels
      <3>3. base \in Entry
        <4>1. to_string[0] \in Bytes
          BY IntegerAssumption DEF I64
        <4> QED
          BY <1>1, <3>2, <4>1 DEF Live, Present, Entry, NewEntry
      <3>4. n # None => to_string[n] \in Bytes
        BY <3>3, SumFacts DEF Entry, Delta
      <3> HIDE DEF base, n
      <3>5. n # None => e \in Entry
        BY <3>3, <3>4 DEF Entry
      <3> HIDE DEF e
      <3>6. base # Vacant /\ (n # None => e # Vacant)
        BY <3>3, <3>5, SentinelAssumption DEF Entry
      <3> QED
        BY <1>1, <3>1, <3>6
    <2>5. CASE DelTake(w) \/ Reap(w)
      BY <1>1, <2>5 DEF DelTake, Reap
    <2> QED
      BY <1>3, <2>1, <2>2, <2>3, <2>4, <2>5 DEF Step
  <1> QED
    BY <1>2, <1>3 DEF Next

(* The lazy removals of Storage::get, del, expire and ttl never take away   *)
(* the entry of a key without deadlines, in spite of their removing by key  *)
(* alone: only a deletion that is counted in its reply does.                *)
THEOREM PersistentKeysSafe == Spec => PersistentKeysAreSafe
  <1>1. ASSUME IInv, [Next]_vars, NEW k \in Keys \ Expirable, Present(k), inner'[k] = Vacant
        PROVE  \E w \in Workers :
                 pc[w] = "del_take" /\ Key(w) = k /\ out'[w] = Append(out[w], 1)
    <2>1. PICK w \in Workers : Key(w) = k /\ (DelTake(w) \/ Reap(w))
      BY <1>1, Removals
    <2>2. ~Reap(w)
      BY <1>1, <2>1 DEF IInv, DeadlinesAreGiven, Reap
    <2>3. pc[w] = "del_take" /\ out' = [out EXCEPT ![w] = Append(@, 1)]
      BY <1>1, <2>1, <2>2 DEF DelTake, Answer
    <2>4. out'[w] = Append(out[w], 1)
      BY <1>1, <2>3 DEF IInv, TypeOK
    <2> QED
      BY <2>1, <2>3, <2>4
  <1>2. ASSUME IInv, [Next]_vars
        PROVE  [\A k \in Keys \ Expirable :
                  Present(k) /\ inner'[k] = Vacant
                    => \E w \in Workers :
                         pc[w] = "del_take" /\ Key(w) = k /\ out'[w] = Append(out[w], 1)]_vars
    BY <1>1, <1>2
  <1> QED
    BY <1>2, IInvHolds, PTL DEF Spec, PersistentKeysAreSafe
=============================================================================

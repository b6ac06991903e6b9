------------------------- MODULE StorageRefinement -------------------------
(***************************************************************************)
(* Storage, with its history, implements ExpiringMap, for every value of   *)
(* the constants.                                                          *)
(*                                                                         *)
(* The abstract map is the unexpired part of `inner', and a call answers   *)
(* in the section that settles its answer: the look-up if the key is found *)
(* missing or expired, the write otherwise.  A removal after an expired    *)
(* look-up is Forget: it sweeps the expired entry, or takes a newer one.   *)
(***************************************************************************)
EXTENDS StorageHistory, StorageProofs

(* The abstract variables as functions of the state of Storage. *)
MapBar == [k \in Keys |-> Visible(k)]

OutBar == [w \in Workers |-> Said(w)]

Deleting(w) == req[w].op = "DEL" \/ (req[w].op = "EXPIRE" /\ req[w].secs <= 0)

Answered(w, a) == OutBar' = [OutBar EXCEPT ![w] = Append(@, a)]
-----------------------------------------------------------------------------
LEMMA SameMap ==
  ASSUME UNCHANGED <<inner, now>>
  PROVE  MapBar' = MapBar
  BY DEF MapBar, Visible, Live, Present, Expired

LEMMA WrittenMap ==
  ASSUME IInv, NEW k \in Keys, NEW e, inner' = [inner EXCEPT ![k] = e], now' = now
  PROVE  MapBar' = [MapBar EXCEPT ![k] = IF e # Vacant /\ ~Expired(e) THEN e ELSE Vacant]
  <1>1. inner'[k] = e /\ \A j \in Keys : j # k => inner'[j] = inner[j]
    BY DEF IInv, TypeOK
  <1> QED
    BY <1>1 DEF MapBar, Visible, Live, Present, Expired

LEMMA MissingFacts ==
  ASSUME NEW r
  PROVE  /\ r.op \in ReadOps => Missing(r) = None
         /\ r.op = "TTL" => Missing(r) = -2
         /\ r.op \in {"DEL", "EXPIRE"} => Missing(r) = 0
  BY DEF Missing, ReadOps

LEMMA DeletingReachable ==
  ASSUME NEW r \in Requests, Reachable(r) \cap {"del", "del_take"} # {}
  PROVE  r.op = "DEL" \/ (r.op = "EXPIRE" /\ r.secs <= 0)
  <1>1. r.op \in Ops /\ r.secs \in Int
    BY RequestFacts
  <1>2. CASE r.op \in ReadOps \cup {"SET", "MSET", "INCR", "DECR", "TTL"}
    BY <1>2 DEF Start, Reachable, ReadOps
  <1>3. CASE r.op = "EXPIRE" /\ r.secs > 0
    BY <1>1, <1>3 DEF Start, Reachable, ReadOps
  <1> QED
    BY <1>1, <1>2, <1>3 DEF Ops, ReadOps, SingleOps

(* Where a call stands in the abstract map. *)
LEMMA PendingBar ==
  ASSUME IInv, NEW w \in Workers, pc[w] \in Busy, pc[w] # "reap"
  PROVE  /\ OutBar[w] = out[w]
         /\ Atomic!Pending(w)
         /\ Atomic!Key(w) = Key(w)
         /\ Key(w) \in Keys /\ MapBar[Key(w)] = Visible(Key(w))
  <1>1. OutBar[w] = out[w] /\ Said(w) = out[w]
    BY DEF OutBar, Said
  <1>2. req[w] \in Requests /\ req[w] # None
    BY BusyFacts, RequestFacts DEF IInv
  <1>3. Len(out[w]) < Len(req[w].keys)
    BY BusyFacts DEF IInv, TypeOK, CallOK, Busy, Labels
  <1>4. Atomic!Pending(w)
    BY <1>1, <1>2, <1>3 DEF Atomic!Pending
  <1>5. Atomic!Key(w) = Key(w)
    BY <1>1 DEF Atomic!Key, Key
  <1>6. Key(w) \in Keys
    BY BusyFacts DEF IInv
  <1> QED
    BY <1>1, <1>4, <1>5, <1>6 DEF MapBar

LEMMA AnswerBar ==
  ASSUME IInv, NEW w \in Workers, pc[w] \in Busy, pc[w] # "reap",
         NEW a \in Answers, Answer(w, a), UNCHANGED <<req, deadline>>
  PROVE  Answered(w, a)
  <1>1. pc'[w] # "reap" /\ \A v \in Workers : v # w => pc'[v] = pc[v]
    <2>1. pc'[w] # "reap"
      BY AnswerStep DEF IInv
    <2> QED
      BY <2>1 DEF Answer, Goto, IInv, TypeOK
  <1>2. out' = [out EXCEPT ![w] = Append(@, a)]
    BY DEF Answer
  <1> QED
    BY <1>1, <1>2 DEF Answered, OutBar, Said, IInv, TypeOK

LEMMA ReapBar ==
  ASSUME IInv, NEW w \in Workers, pc[w] # "reap", Goto(w, "reap"), UNCHANGED <<req, out>>
  PROVE  Answered(w, Missing(req[w]))
  <1>1. pc'[w] = "reap" /\ \A v \in Workers : v # w => pc'[v] = pc[v]
    BY DEF Goto, IInv, TypeOK
  <1>2. OutBar' = [v \in Workers |-> IF v = w THEN Append(out[v], Missing(req[v])) ELSE OutBar[v]]
    BY <1>1 DEF OutBar, Said
  <1>3. OutBar[w] = out[w]
    BY DEF OutBar, Said
  <1> QED
    BY <1>2, <1>3 DEF Answered, OutBar, Said

LEMMA MoveBar ==
  ASSUME IInv, NEW w \in Workers, pc[w] # "reap", NEW l, l # "reap", Goto(w, l),
         UNCHANGED <<req, out>>
  PROVE  OutBar' = OutBar
  <1>1. pc'[w] = l /\ \A v \in Workers : v # w => pc'[v] = pc[v]
    BY DEF Goto, IInv, TypeOK
  <1> QED
    BY <1>1 DEF OutBar, Said, Missing
-----------------------------------------------------------------------------
(* What the history variable says: the marked calls are at a key with an    *)
(* expired entry, and a call that has seen its key unexpired is marked when *)
(* it finds that it is not.                                                 *)
LapsedOK ==
  /\ \A v \in lapsed : v \in Workers /\ \E k \in Keys : On(v, k) /\ Dead(k)
  /\ \A v \in Workers :
       pc[v] \in {"del_take", "ttl_left"} /\ Dead(Key(v)) => v \in lapsed

LEMMA SaidType ==
  ASSUME IInv, NEW v \in Workers
  PROVE  Said(v) \in Seq(Answers)
  <1>1. Missing(req[v]) \in Answers
    BY DEF Missing, Answers
  <1> QED
    BY <1>1 DEF Said, IInv, TypeOK

LEMMA AtFacts ==
  ASSUME IInv, NEW v \in Workers
  PROVE  /\ \A k \in Keys : On(v, k) <=> v \in Atomic!At(k)
         /\ Atomic!Pending(v) => Atomic!Key(v) \in Keys /\ On(v, Atomic!Key(v))
         /\ \A j, k \in Keys : On(v, j) /\ On(v, k) => j = k
  <1>1. \A k \in Keys : On(v, k) <=> v \in Atomic!At(k)
    BY DEF On, Atomic!At, Atomic!Pending, Atomic!Key
  <1>2. ASSUME Atomic!Pending(v)
        PROVE  Atomic!Key(v) \in Keys /\ On(v, Atomic!Key(v))
    <2>1. req[v] # None /\ Len(Said(v)) < Len(req[v].keys)
      BY <1>2 DEF Atomic!Pending
    <2>2. req[v].keys \in Seq(Keys) /\ Len(req[v].keys) \in Nat
      BY <2>1, RequestFacts DEF IInv, TypeOK
    <2>3. Len(Said(v)) \in Nat
      BY SaidType
    <2>4. req[v].keys[Len(Said(v)) + 1] \in Keys
      BY <2>1, <2>2, <2>3
    <2> QED
      BY <2>1, <2>4 DEF Atomic!Key, On
  <1> QED
    BY <1>1, <1>2 DEF On

(* The threads S say something in this step, or have nothing to answer for; *)
(* the others stay as they are.                                             *)
Speak(S) ==
  \A v \in Workers :
    IF v \in S THEN Said(v)' # Said(v) \/ \A k \in Keys : ~On(v, k)
    ELSE Said(v)' = Said(v) /\ req'[v] = req[v]

LEMMA AnsweredSpeaks ==
  ASSUME IInv, NEW w \in Workers, NEW a \in Answers, Answered(w, a), req' = req
  PROVE  Speak({w})
  <1>1. OutBar = [v \in Workers |-> Said(v)] /\ OutBar' = [v \in Workers |-> Said(v)']
    BY DEF OutBar
  <1>2. Said(w)' = Append(Said(w), a) /\ \A v \in Workers : v # w => Said(v)' = Said(v)
    BY <1>1 DEF Answered
  <1>3. Append(Said(w), a) # Said(w)
    <2>1. Len(Append(Said(w), a)) # Len(Said(w))
      BY SaidType
    <2> QED
      BY <2>1
  <1> QED
    BY <1>2, <1>3 DEF Speak

LEMMA NobodySpeaks ==
  ASSUME OutBar' = OutBar, req' = req
  PROVE  Speak({})
  <1>1. OutBar = [v \in Workers |-> Said(v)] /\ OutBar' = [v \in Workers |-> Said(v)']
    BY DEF OutBar
  <1> QED
    BY <1>1 DEF Speak

LEMMA Lapsing ==
  ASSUME Record, NEW S, Speak(S)
  PROVE  lapsed' = {v \in Workers \ S :
                      \E k \in Keys : On(v, k) /\ Dead(k)' /\ (Live(k) \/ v \in lapsed)}
  <1>1. ASSUME NEW v \in Workers, v \notin S
        PROVE  Said(v)' = Said(v) /\ \A k \in Keys : On(v, k)' <=> On(v, k)
    BY <1>1 DEF Speak, On
  <1>2. ASSUME NEW v \in Workers, v \in S
        PROVE  Said(v)' # Said(v) \/ \A k \in Keys : ~On(v, k)
    BY <1>2 DEF Speak
  <1> QED
    BY <1>1, <1>2 DEF Record

(* A step that leaves the keyspace as it is. *)
LEMMA LapsedStays ==
  ASSUME IInv, LapsedOK, Record, NEW S, Speak(S), UNCHANGED <<inner, now>>
  PROVE  lapsed' = lapsed \ S
  <1>1. \A k \in Keys : Dead(k)' = Dead(k) /\ ~(Live(k) /\ Dead(k))
    BY DEF Dead, Live, Present, Expired
  <1> QED
    BY <1>1, Lapsing DEF LapsedOK

(* A key after which nobody has an expired entry there. *)
LEMMA LapsedSwept ==
  ASSUME IInv, LapsedOK, Record, NEW S, Speak(S), NEW k \in Keys, NEW e,
         inner' = [inner EXCEPT ![k] = e], now' = now, e = Vacant \/ ~Expired(e)
  PROVE  lapsed' = lapsed \ (S \cup Atomic!At(k))
  <1>1. inner'[k] = e /\ \A j \in Keys : j # k => inner'[j] = inner[j]
    BY DEF IInv, TypeOK
  <1>2. ~Dead(k)' /\ \A j \in Keys : j # k => Dead(j)' = Dead(j)
    BY <1>1 DEF Dead, Present, Expired
  <1>3. \A j \in Keys : ~(Live(j) /\ Dead(j))
    BY DEF Dead, Live
  <1>4. ASSUME NEW v \in lapsed', v \notin lapsed \ (S \cup Atomic!At(k))
        PROVE  FALSE
    <2>1. PICK j \in Keys : v \in Workers \ S /\ On(v, j) /\ Dead(j)' /\ (Live(j) \/ v \in lapsed)
      BY <1>4, Lapsing
    <2>2. j # k /\ v \in lapsed
      BY <1>2, <1>3, <2>1
    <2> QED
      BY <1>4, <2>1, <2>2, AtFacts
  <1>5. ASSUME NEW v \in lapsed, v \notin S, v \notin Atomic!At(k)
        PROVE  v \in lapsed'
    <2>1. PICK j \in Keys : v \in Workers /\ On(v, j) /\ Dead(j)
      BY <1>5 DEF LapsedOK
    <2>2. Dead(j)'
      BY <1>2, <1>5, <2>1, AtFacts
    <2> QED
      BY <1>5, <2>1, <2>2, Lapsing
  <1> QED
    BY <1>4, <1>5

(* An unexpired entry gets a deadline that has passed. *)
LEMMA LapsedArmed ==
  ASSUME IInv, LapsedOK, Record, NEW S, Speak(S), NEW k \in Keys, NEW e, Live(k),
         inner' = [inner EXCEPT ![k] = e], now' = now, e # Vacant, Expired(e)
  PROVE  lapsed' = (lapsed \cup Atomic!At(k)) \ S
  <1>1. inner'[k] = e /\ \A j \in Keys : j # k => inner'[j] = inner[j]
    BY DEF IInv, TypeOK
  <1>2. Dead(k)' /\ \A j \in Keys : j # k => Dead(j)' = Dead(j)
    BY <1>1 DEF Dead, Present, Expired
  <1>3. \A j \in Keys : ~(Live(j) /\ Dead(j))
    BY DEF Dead, Live
  <1>4. ASSUME NEW v \in lapsed', v \notin (lapsed \cup Atomic!At(k)) \ S
        PROVE  FALSE
    <2>1. PICK j \in Keys : v \in Workers \ S /\ On(v, j) /\ Dead(j)' /\ (Live(j) \/ v \in lapsed)
      BY <1>4, Lapsing
    <2> QED
      BY <1>2, <1>3, <1>4, <2>1, AtFacts
  <1>5. ASSUME NEW v \in (lapsed \cup Atomic!At(k)) \ S
        PROVE  v \in lapsed'
    <2>1. CASE v \in Atomic!At(k)
      <3>1. v \in Workers
        BY <2>1 DEF Atomic!At
      <3> QED
        BY <1>2, <1>5, <2>1, <3>1, AtFacts, Lapsing
    <2>2. CASE v \in lapsed
      <3>1. PICK j \in Keys : v \in Workers /\ On(v, j) /\ Dead(j)
        BY <2>2 DEF LapsedOK
      <3> QED
        BY <1>2, <1>5, <2>2, <3>1, Lapsing
    <2> QED
      BY <1>5, <2>1, <2>2
  <1> QED
    BY <1>4, <1>5

(* Nobody is marked at a key whose entry has not expired. *)
LEMMA NotLapsed ==
  ASSUME IInv, LapsedOK, NEW k \in Keys, ~Dead(k)
  PROVE  lapsed \cap Atomic!At(k) = {}
  BY AtFacts DEF LapsedOK

(* How the three kinds of section mark calls: one that looks and answers,   *)
(* one that writes and answers, one that does neither.                      *)
LEMMA LookLapses ==
  ASSUME IInv, LapsedOK, Record, NEW w \in Workers, NEW a \in Answers, Answered(w, a),
         UNCHANGED <<inner, now, req>>
  PROVE  lapsed' = lapsed \ {w}
  BY AnsweredSpeaks, LapsedStays

LEMMA WriteLapses ==
  ASSUME IInv, LapsedOK, Record, NEW w \in Workers, pc[w] \in Busy, pc[w] # "reap",
         NEW a \in Answers, Answered(w, a), NEW e, e = Vacant \/ ~Expired(e),
         inner' = [inner EXCEPT ![Key(w)] = e], UNCHANGED <<now, req>>
  PROVE  lapsed' = lapsed \ Atomic!At(Key(w))
  <1>1. Key(w) \in Keys /\ w \in Atomic!At(Key(w))
    BY PendingBar DEF Atomic!At
  <1>2. Speak({w})
    BY AnsweredSpeaks
  <1>3. lapsed' = lapsed \ ({w} \cup Atomic!At(Key(w)))
    BY <1>1, <1>2, LapsedSwept
  <1> QED
    BY <1>1, <1>3

LEMMA MoveLapses ==
  ASSUME IInv, LapsedOK, Record, OutBar' = OutBar, UNCHANGED <<inner, now, req>>
  PROVE  lapsed' = lapsed
  BY NobodySpeaks, LapsedStays
-----------------------------------------------------------------------------
LEMMA InitBar == HistoryInit => Atomic!Init
  <1> SUFFICES ASSUME HistoryInit PROVE Atomic!Init
    OBVIOUS
  <1>1. MapBar = [k \in Keys |-> Vacant]
    BY DEF HistoryInit, Init, MapBar, Visible, Live, Present
  <1>2. OutBar = [w \in Workers |-> <<>>]
    BY DEF HistoryInit, Init, OutBar, Said
  <1> QED
    BY <1>1, <1>2 DEF HistoryInit, Init, Atomic!Init, MapBar, OutBar

LEMMA InvokeBar ==
  ASSUME IInv, LapsedOK, Record, NEW w \in Workers, Invoke(w)
  PROVE  Atomic!Invoke(w)
  <1>1. PICK r \in Requests : req' = [req EXCEPT ![w] = r] /\ Goto(w, Start(r))
    BY DEF Invoke
  <1>2. pc[w] = "idle" /\ UNCHANGED <<inner, now, out, deadline>>
    BY DEF Invoke
  <1>3. req[w] = None
    BY <1>2, ReachableFacts DEF IInv, TypeOK, CallOK, Busy
  <1>4. pc'[w] # "reap" /\ \A v \in Workers : v # w => pc'[v] = pc[v] /\ req'[v] = req[v]
    BY <1>1, ReachableFacts DEF Goto, IInv, TypeOK
  <1>5. OutBar' = OutBar
    BY <1>2, <1>4 DEF OutBar, Said, Missing
  <1>6. lapsed' = lapsed
    <2>1. Speak({w})
      <3>1. \A v \in Workers : v # w => Said(v)' = Said(v) /\ req'[v] = req[v]
        BY <1>2, <1>4 DEF Said, Missing
      <3>2. \A k \in Keys : ~On(w, k)
        BY <1>3 DEF On
      <3> QED
        BY <3>1, <3>2 DEF Speak
    <2>2. w \notin lapsed
      BY <1>3 DEF LapsedOK, On
    <2> QED
      BY <1>2, <2>1, <2>2, LapsedStays
  <1> QED
    BY <1>1, <1>2, <1>3, <1>5, <1>6, SameMap DEF Atomic!Invoke, MapBar, OutBar

LEMMA SetBar ==
  ASSUME IInv, LapsedOK, Record, NEW w \in Workers, Set(w)
  PROVE  Atomic!Put(w)
  <1> DEFINE e == NewEntry(Value(w))
  <1>1. pc[w] = "set" /\ pc[w] \in Busy /\ UNCHANGED <<now, req, deadline>>
    BY DEF Set, Busy, Labels
  <1>2. req[w].op \in {"SET", "MSET"}
    BY <1>1, BusyFacts, ReachableFacts DEF IInv
  <1>3. e \in Entry /\ e.expires_at = None
    BY <1>1, BusyFacts DEF IInv, NewEntry, Entry
  <1>4. e # Vacant /\ ~Expired(e)
    BY <1>3, SentinelAssumption DEF Entry, Expired, ExpiredAt
  <1>5. MapBar' = [MapBar EXCEPT ![Key(w)] = e]
    BY <1>1, <1>4, WrittenMap, PendingBar DEF Set
  <1>6. Answered(w, Ok)
    BY <1>1, AnswerBar DEF Set, Answers
  <1>7. lapsed' = lapsed \ Atomic!At(Key(w))
    <2> HIDE DEF e
    <2> QED
      BY <1>1, <1>4, <1>6, WriteLapses DEF Set, Answers, e
  <1> QED
    BY <1>1, <1>2, <1>5, <1>6, <1>7, PendingBar
       DEF Atomic!Put, Atomic!Answered, Answered, MapBar, OutBar, NewEntry, Value

LEMMA GetBar ==
  ASSUME IInv, LapsedOK, Record, NEW w \in Workers, Get(w)
  PROVE  Atomic!Look(w)
  <1>1. pc[w] = "get" /\ pc[w] \in Busy /\ UNCHANGED <<inner, now, req, deadline>>
    BY DEF Get, Busy, Labels
  <1>2. req[w].op \in ReadOps
    BY <1>1, BusyFacts, ReachableFacts DEF IInv
  <1> DEFINE a == IF Visible(Key(w)) = Vacant THEN None ELSE Visible(Key(w)).value
  <1>3. Answered(w, a)
    <2>1. CASE ~Present(Key(w)) /\ Answer(w, None)
      <3>1. Answered(w, None)
        BY <1>1, <2>1, AnswerBar DEF Answers
      <3> QED
        BY <2>1, <3>1 DEF Visible, Live, Answered
    <2>2. CASE Present(Key(w)) /\ Expired(inner[Key(w)]) /\ Goto(w, "reap") /\ UNCHANGED out
      <3>1. Missing(req[w]) = None
        BY <1>2, MissingFacts
      <3>2. Answered(w, Missing(req[w]))
        BY <1>1, <2>2, ReapBar
      <3> QED
        BY <2>2, <3>1, <3>2 DEF Visible, Live, Answered
    <2>3. CASE Live(Key(w)) /\ Answer(w, inner[Key(w)].value)
      <3>1. inner[Key(w)].value \in Answers
        BY <1>1, <2>3, BusyFacts DEF IInv, TypeOK, Live, Present, Entry, Answers
      <3>2. Answered(w, inner[Key(w)].value)
        BY <1>1, <2>3, <3>1, AnswerBar
      <3> QED
        BY <2>3, <3>2 DEF Visible, Live, Present, Answered
    <2> QED
      BY <2>1, <2>2, <2>3 DEF Get
  <1>4. a \in Answers
    BY <1>1, BusyFacts, EntryFacts DEF IInv, TypeOK, Visible, Live, Present, Entry, Answers
  <1>5. lapsed' = lapsed \ {w}
    <2> HIDE DEF a
    <2> QED
      BY <1>1, <1>3, <1>4, LookLapses
  <1> QED
    BY <1>1, <1>2, <1>3, <1>5, PendingBar, SameMap
       DEF Atomic!Look, Atomic!Readers, Atomic!Answered, Answered, ReadOps, MapBar, OutBar

LEMMA RemoveBar ==
  ASSUME IInv, NEW w \in Workers, pc[w] \in Busy, pc[w] # "reap",
         Deleting(w), UNCHANGED <<now, req, deadline>>,
         MapBar' = [MapBar EXCEPT ![Key(w)] = Vacant],
         \/ /\ Visible(Key(w)) = Vacant
            /\ Answered(w, 0) /\ lapsed' = lapsed \ {w}
         \/ /\ Visible(Key(w)) # Vacant \/ w \in lapsed
            /\ Answered(w, 1) /\ lapsed' = lapsed \ Atomic!At(Key(w))
  PROVE  Atomic!Remove(w)
  BY PendingBar
     DEF Deleting, Atomic!Remove, Atomic!Deletes, Atomic!Answered, Answered, MapBar, OutBar

LEMMA DeletingFacts ==
  ASSUME IInv, NEW w \in Workers, pc[w] \in {"del", "del_take"}
  PROVE  Deleting(w) /\ Missing(req[w]) = 0 /\ pc[w] \in Busy
  <1>1. /\ pc[w] \in Busy /\ req[w] \in Requests /\ pc[w] \in Reachable(req[w])
        /\ req[w].op \in Ops /\ req[w].secs \in Int
    BY BusyFacts, RequestFacts DEF IInv, Busy, Labels
  <1>2. Deleting(w)
    BY <1>1, DeletingReachable DEF Deleting
  <1> QED
    BY <1>1, <1>2, MissingFacts DEF Deleting

LEMMA DelBar ==
  ASSUME IInv, LapsedOK, Record, NEW w \in Workers, Del(w)
  PROVE  Atomic!Remove(w) \/ UNCHANGED Atomic!vars
  <1>1. pc[w] = "del" /\ UNCHANGED <<inner, now, req, out, deadline>>
    BY DEF Del
  <1>2. Deleting(w) /\ Missing(req[w]) = 0 /\ pc[w] \in Busy
    BY <1>1, DeletingFacts
  <1>3. MapBar' = MapBar
    BY <1>1, SameMap
  <1>4. CASE Present(Key(w)) /\ Expired(inner[Key(w)])
    <2>1. Goto(w, "reap")
      BY <1>4 DEF Del
    <2>2. Answered(w, 0)
      BY <1>1, <1>2, <2>1, ReapBar DEF Answered
    <2>3. Visible(Key(w)) = Vacant
      BY <1>4 DEF Visible, Live
    <2>4. MapBar' = [MapBar EXCEPT ![Key(w)] = Vacant]
      BY <1>1, <1>2, <1>3, <2>3, PendingBar DEF MapBar
    <2>5. lapsed' = lapsed \ {w}
      BY <1>1, <2>2, LookLapses DEF Answers
    <2> QED
      BY <1>1, <1>2, <2>2, <2>3, <2>4, <2>5, RemoveBar
  <1>5. CASE ~(Present(Key(w)) /\ Expired(inner[Key(w)]))
    <2>1. Goto(w, "del_take")
      BY <1>5 DEF Del
    <2>2. OutBar' = OutBar
      BY <1>1, <2>1, MoveBar
    <2>3. lapsed' = lapsed
      BY <1>1, <2>2, MoveLapses
    <2> QED
      BY <1>1, <1>3, <2>2, <2>3 DEF Atomic!vars, MapBar, OutBar
  <1> QED
    BY <1>4, <1>5

LEMMA DelTakeBar ==
  ASSUME IInv, LapsedOK, Record, NEW w \in Workers, DelTake(w)
  PROVE  Atomic!Remove(w)
  <1> DEFINE n == IF Present(Key(w)) THEN 1 ELSE 0
  <1>1. /\ pc[w] = "del_take" /\ UNCHANGED <<now, req, deadline>>
        /\ inner' = [inner EXCEPT ![Key(w)] = Vacant]
        /\ Answer(w, n)
    BY DEF DelTake
  <1>2. Deleting(w) /\ pc[w] \in Busy
    BY <1>1, DeletingFacts
  <1>3. n \in Answers /\ n \in {0, 1} /\ (Visible(Key(w)) # Vacant => n = 1)
    BY DEF Answers, Visible, Live
  <1>4. MapBar' = [MapBar EXCEPT ![Key(w)] = Vacant]
    BY <1>1, <1>2, PendingBar, WrittenMap
  <1>5. Answered(w, n)
    <2> HIDE DEF n
    <2> QED
      BY <1>1, <1>2, <1>3, AnswerBar
  <1>6. lapsed' = lapsed \ Atomic!At(Key(w))
    <2> HIDE DEF n
    <2> QED
      BY <1>1, <1>2, <1>3, <1>5, WriteLapses
  <1>7. CASE Present(Key(w))
    <2>1. Visible(Key(w)) # Vacant \/ w \in lapsed
      BY <1>1, <1>7 DEF Visible, Live, Present, Dead, LapsedOK
    <2> QED
      BY <1>1, <1>2, <1>4, <1>5, <1>6, <1>7, <2>1, RemoveBar
  <1>8. CASE ~Present(Key(w))
    <2>1. Visible(Key(w)) = Vacant /\ ~Dead(Key(w))
      BY <1>8 DEF Visible, Live, Dead
    <2>2. w \in Atomic!At(Key(w)) /\ Key(w) \in Keys
      BY <1>1, <1>2, PendingBar DEF Atomic!At
    <2>3. lapsed' = lapsed \ {w}
      BY <1>6, <2>1, <2>2, NotLapsed
    <2> QED
      BY <1>1, <1>2, <1>4, <1>5, <1>8, <2>1, <2>3, RemoveBar
  <1> QED
    BY <1>7, <1>8

LEMMA StampBar ==
  ASSUME IInv, LapsedOK, Record, NEW w \in Workers, Stamp(w)
  PROVE  Atomic!Stamp(w)
  <1> DEFINE d == now + req[w].secs * TicksPerSec
  <1>1. pc[w] = "stamp" /\ pc[w] \in Busy /\ UNCHANGED <<inner, now, req>>
    BY DEF Stamp, Busy, Labels
  <1>2. Atomic!Arms(req[w]) /\ deadline[w] = None
    <2>1. req[w].op = "EXPIRE" /\ req[w].secs > 0
      BY <1>1, BusyFacts, ReachableFacts DEF IInv
    <2> QED
      BY <1>1, <2>1 DEF Atomic!Arms, IInv, TypeOK, CallOK, Busy
  <1>3. MapBar' = MapBar
    BY <1>1, SameMap
  <1>4. CASE d > MaxInstant /\ Answer(w, 0) /\ UNCHANGED deadline
    <2>1. Answered(w, 0)
      BY <1>1, <1>4, AnswerBar DEF Answers
    <2>2. lapsed' = lapsed \ {w}
      BY <1>1, <2>1, LookLapses DEF Answers
    <2> QED
      BY <1>1, <1>2, <1>3, <1>4, <2>1, <2>2, PendingBar
         DEF Atomic!Stamp, Atomic!Answered, Answered, MapBar, OutBar
  <1>5. CASE /\ d <= MaxInstant
             /\ deadline' = [deadline EXCEPT ![w] = d]
             /\ Goto(w, "expire")
             /\ UNCHANGED out
    <2>1. OutBar' = OutBar
      BY <1>1, <1>5, MoveBar
    <2>2. ~(d > MaxInstant)
      <3>1. d \in Int /\ MaxInstant \in Int
        BY <1>1, BusyFacts, RequestFacts, ClockAssumption DEF IInv, TypeOK
      <3> HIDE DEF d
      <3> QED
        BY <1>5, <3>1
    <2>3. lapsed' = lapsed
      BY <1>1, <2>1, MoveLapses
    <2> QED
      BY <1>1, <1>2, <1>3, <1>5, <2>1, <2>2, <2>3, PendingBar
         DEF Atomic!Stamp, MapBar, OutBar
  <1> QED
    BY <1>4, <1>5 DEF Stamp

LEMMA ExpireBar ==
  ASSUME IInv, LapsedOK, Record, NEW w \in Workers, Expire(w)
  PROVE  Atomic!Arm(w)
  <1> DEFINE e == [inner[Key(w)] EXCEPT !.expires_at = deadline[w]]
  <1>1. pc[w] = "expire" /\ pc[w] \in Busy /\ UNCHANGED <<now, req, deadline>>
    BY DEF Expire, Busy, Labels
  <1>2. /\ req[w] \in Requests /\ req[w].op = "EXPIRE" /\ req[w].secs > 0
        /\ deadline[w] \in Nat /\ deadline[w] # None
    BY <1>1, BusyFacts, ReachableFacts, SentinelAssumption DEF IInv
  <1>3. Atomic!Arms(req[w])
    BY <1>2 DEF Atomic!Arms
  <1>4. CASE ~Present(Key(w)) /\ Answer(w, 0) /\ UNCHANGED inner
    <2>1. Answered(w, 0)
      BY <1>1, <1>4, AnswerBar DEF Answers
    <2>2. Visible(Key(w)) = Vacant /\ MapBar' = MapBar
      BY <1>1, <1>4, SameMap DEF Visible, Live
    <2>3. lapsed' = lapsed \ {w}
      BY <1>1, <1>4, <2>1, LookLapses DEF Answers
    <2> QED
      BY <1>1, <1>2, <1>3, <2>1, <2>2, <2>3, PendingBar
         DEF Atomic!Arm, Atomic!Answered, Answered, MapBar, OutBar
  <1>5. CASE Present(Key(w)) /\ Expired(inner[Key(w)]) /\ Goto(w, "reap") /\ UNCHANGED <<inner, out>>
    <2>1. Missing(req[w]) = 0
      BY <1>2, MissingFacts
    <2>2. Answered(w, 0)
      BY <1>1, <1>5, <2>1, ReapBar DEF Answered
    <2>3. Visible(Key(w)) = Vacant /\ MapBar' = MapBar
      BY <1>1, <1>5, SameMap DEF Visible, Live
    <2>4. lapsed' = lapsed \ {w}
      BY <1>1, <1>5, <2>2, LookLapses DEF Answers
    <2> QED
      BY <1>1, <1>2, <1>3, <2>2, <2>3, <2>4, PendingBar
         DEF Atomic!Arm, Atomic!Answered, Answered, MapBar, OutBar
  <1>6. CASE /\ Live(Key(w))
             /\ inner' = [inner EXCEPT ![Key(w)].expires_at = deadline[w]]
             /\ Answer(w, 1)
    <2>1. Answered(w, 1)
      BY <1>1, <1>6, AnswerBar DEF Answers
    <2>2. Visible(Key(w)) = inner[Key(w)] /\ Visible(Key(w)) # Vacant
      BY <1>6 DEF Visible, Live, Present
    <2>3. inner[Key(w)] \in Entry /\ now \in Nat
      BY <1>1, <1>6, BusyFacts DEF IInv, TypeOK, Live, Present
    <2>4. e # Vacant /\ e.expires_at = deadline[w]
      BY <1>2, <2>3, EntryFacts, IntegerAssumption DEF Entry
    <2>5. inner' = [inner EXCEPT ![Key(w)] = e]
      BY <1>6
    <2>6. Expired(e) <=> deadline[w] <= now
      BY <1>2, <2>3, <2>4 DEF Expired, ExpiredAt
    <2> HIDE DEF e
    <2>7. MapBar' = [MapBar EXCEPT ![Key(w)] = IF deadline[w] <= now THEN Vacant ELSE e]
      BY <1>1, <2>4, <2>5, <2>6, WrittenMap, PendingBar
    <2>8. MapBar[Key(w)] = inner[Key(w)] /\ Key(w) \in Keys /\ w \in Atomic!At(Key(w))
      BY <1>1, <2>2, PendingBar DEF Atomic!At
    <2>9. CASE deadline[w] > now
      <3>1. ~Expired(e)
        BY <1>2, <2>3, <2>6, <2>9
      <3>2. MapBar' = [MapBar EXCEPT ![Key(w)].expires_at = deadline[w]]
        <4>1. MapBar' = [MapBar EXCEPT ![Key(w)] = e]
          <5>1. ~(deadline[w] <= now)
            BY <1>2, <2>3, <2>9
          <5> QED
            BY <2>7, <5>1
        <4>2. e = [MapBar[Key(w)] EXCEPT !.expires_at = deadline[w]]
          BY <2>8 DEF e
        <4> QED
          BY <4>1, <4>2
      <3>3. lapsed' = lapsed \ {w}
        <4>1. lapsed' = lapsed \ Atomic!At(Key(w))
          <5>1. 1 \in Answers /\ pc[w] # "reap"
            BY <1>1 DEF Answers
          <5>2. e = Vacant \/ ~Expired(e)
            BY <3>1
          <5> QED
            BY <1>1, <2>1, <2>5, <5>1, <5>2, WriteLapses
        <4>2. ~Dead(Key(w))
          BY <1>6 DEF Dead, Live
        <4> QED
          BY <2>8, <4>1, <4>2, NotLapsed
      <3> QED
        BY <1>1, <1>2, <1>3, <2>1, <2>2, <2>9, <3>2, <3>3, PendingBar
           DEF Atomic!Arm, Atomic!Answered, Answered, MapBar, OutBar
    <2>10. CASE deadline[w] <= now
      <3>1. MapBar' = [MapBar EXCEPT ![Key(w)] = Vacant]
        BY <2>7, <2>10
      <3>2. lapsed' = (lapsed \cup Atomic!At(Key(w))) \ {w}
        <4>1. Speak({w})
          BY <1>1, <2>1, AnsweredSpeaks DEF Answers
        <4> QED
          BY <1>1, <1>6, <2>4, <2>5, <2>6, <2>8, <2>10, <4>1, LapsedArmed
      <3> QED
        BY <1>1, <1>2, <1>3, <2>1, <2>2, <2>10, <3>1, <3>2, PendingBar
           DEF Atomic!Arm, Atomic!Answered, Answered, MapBar, OutBar
    <2> QED
      BY <1>2, <2>3, <2>9, <2>10
  <1> QED
    BY <1>4, <1>5, <1>6 DEF Expire

LEMMA TtlBar ==
  ASSUME IInv, LapsedOK, Record, NEW w \in Workers, Ttl(w)
  PROVE  Atomic!Measure(w) \/ UNCHANGED Atomic!vars
  <1>1. pc[w] = "ttl" /\ pc[w] \in Busy /\ UNCHANGED <<inner, now, req, deadline>>
    BY DEF Ttl, Busy, Labels
  <1>2. req[w].op = "TTL" /\ Missing(req[w]) = -2
    BY <1>1, BusyFacts, ReachableFacts, MissingFacts DEF IInv
  <1>3. MapBar' = MapBar
    BY <1>1, SameMap
  <1>4. ASSUME Visible(Key(w)) = Vacant, Answered(w, -2)
        PROVE  Atomic!Measure(w)
    <2>1. lapsed' = lapsed \ {w}
      BY <1>1, <1>4, LookLapses DEF Answers
    <2> QED
      BY <1>1, <1>2, <1>3, <1>4, <2>1, PendingBar
         DEF Atomic!Measure, Atomic!Answered, Answered, MapBar, OutBar
  <1>5. CASE ~Present(Key(w)) /\ Answer(w, -2)
    <2>1. Answered(w, -2)
      BY <1>1, <1>5, AnswerBar DEF Answers
    <2> QED
      BY <1>4, <1>5, <2>1 DEF Visible, Live
  <1>6. CASE Present(Key(w)) /\ Expired(inner[Key(w)]) /\ Goto(w, "reap") /\ UNCHANGED out
    <2>1. Answered(w, -2)
      BY <1>1, <1>2, <1>6, ReapBar DEF Answered
    <2> QED
      BY <1>4, <1>6, <2>1 DEF Visible, Live
  <1>7. CASE Goto(w, "ttl_left") /\ UNCHANGED out
    <2>1. OutBar' = OutBar
      BY <1>1, <1>7, MoveBar
    <2>2. lapsed' = lapsed
      BY <1>1, <2>1, MoveLapses
    <2> QED
      BY <1>1, <1>3, <2>1, <2>2 DEF Atomic!vars, MapBar, OutBar
  <1> QED
    BY <1>5, <1>6, <1>7 DEF Ttl

LEMMA TtlLeftBar ==
  ASSUME IInv, LapsedOK, Record, NEW w \in Workers, TtlLeft(w)
  PROVE  Atomic!Measure(w)
  <1> DEFINE e == inner[Key(w)]
             a == SecondsLeft(e, now)
  <1>1. /\ pc[w] = "ttl_left" /\ pc[w] \in Busy /\ UNCHANGED <<inner, now, req, deadline>>
        /\ Answer(w, a)
    BY DEF TtlLeft, Busy, Labels
  <1>2. e \in Entry /\ Present(Key(w)) /\ now \in Nat
    BY <1>1, BusyFacts DEF IInv, TypeOK, Present
  <1>3. req[w].op = "TTL"
    BY <1>1, BusyFacts, ReachableFacts DEF IInv
  <1>4. MapBar' = MapBar
    BY <1>1, SameMap
  <1>5. a \in Answers
    BY <1>1, <1>2, SecondsLeftType DEF IInv, TypeOK, Answers
  <1>6. Answered(w, a)
    <2> HIDE DEF a
    <2> QED
      BY <1>1, <1>5, AnswerBar
  <1> DEFINE gone == lapsed' = lapsed \ {w}
  <1>L. gone
    <2> HIDE DEF a
    <2> QED
      BY <1>1, <1>5, <1>6, LookLapses
  <1>7. CASE e.expires_at = None
    <2>1. a = -1 /\ Visible(Key(w)) = e /\ e # Vacant
      BY <1>2, <1>7 DEF SecondsLeft, Visible, Live, Present, Expired, ExpiredAt
    <2>2. Answered(w, -1)
      BY <1>6, <2>1 DEF Answered
    <2> QED
      BY <1>1, <1>3, <1>4, <1>L, <1>7, <2>1, <2>2, PendingBar
         DEF Atomic!Measure, Atomic!Answered, Answered, MapBar, OutBar
  <1>8. CASE e.expires_at # None /\ ExpiredAt(e, now)
    <2>1. a = 0 /\ Visible(Key(w)) = Vacant /\ w \in lapsed
      BY <1>1, <1>2, <1>8 DEF SecondsLeft, Visible, Live, Expired, Dead, LapsedOK
    <2>2. Answered(w, 0)
      BY <1>6, <2>1 DEF Answered
    <2> QED
      BY <1>1, <1>3, <1>4, <1>L, <2>1, <2>2, PendingBar
         DEF Atomic!Measure, Atomic!Answered, Answered, MapBar, OutBar
  <1>9. CASE e.expires_at # None /\ ~ExpiredAt(e, now)
    <2>1. Visible(Key(w)) = e /\ e # Vacant
      BY <1>2, <1>9 DEF Visible, Live, Present, Expired
    <2>2. a = (e.expires_at - now) \div TicksPerSec
      BY <1>9 DEF SecondsLeft
    <2>3. Answered(w, (e.expires_at - now) \div TicksPerSec)
      BY <1>6, <2>2 DEF Answered
    <2> QED
      BY <1>1, <1>3, <1>4, <1>L, <1>9, <2>1, <2>3, PendingBar
         DEF Atomic!Measure, Atomic!Answered, Answered, MapBar, OutBar
  <1> QED
    BY <1>7, <1>8, <1>9

(* The removal after an expired look-up: the call has answered already. *)
LEMMA ReapStep ==
  ASSUME IInv, LapsedOK, Record, NEW w \in Workers, Reap(w)
  PROVE  Atomic!Forget(w)
  <1>1. /\ pc[w] = "reap" /\ pc[w] \in Busy /\ UNCHANGED <<now, req, deadline>>
        /\ inner' = [inner EXCEPT ![Key(w)] = Vacant]
        /\ Answer(w, Missing(req[w]))
    BY DEF Reap, Busy, Labels
  <1>2. /\ req[w] \in Requests /\ req[w] # None /\ Key(w) \in Keys
        /\ out[w] \in Seq(Answers) /\ Len(out[w]) \in Nat
        /\ Missing(req[w]) \in {None, 0, -2}
    BY <1>1, BusyFacts, RequestFacts DEF IInv, TypeOK, Missing
  <1>3. OutBar' = OutBar
    <2>1. pc'[w] # "reap" /\ \A v \in Workers : v # w => pc'[v] = pc[v]
      <3>1. Missing(req[w]) \in Answers
        BY <1>2 DEF Answers
      <3>2. pc'[w] # "reap"
        BY <1>1, <3>1, AnswerStep DEF IInv
      <3> QED
        BY <1>1, <3>2 DEF Answer, Goto, IInv, TypeOK
    <2>2. out' = [out EXCEPT ![w] = Append(@, Missing(req[w]))]
      BY <1>1 DEF Answer
    <2> QED
      BY <1>1, <2>1, <2>2 DEF OutBar, Said, IInv, TypeOK
  <1>4. MapBar' = [MapBar EXCEPT ![Key(w)] = Vacant]
    BY <1>1, <1>2, WrittenMap
  <1>5. /\ OutBar[w] = Append(out[w], Missing(req[w]))
        /\ Len(OutBar[w]) = Len(out[w]) + 1
        /\ OutBar[w] # <<>>
        /\ OutBar[w][Len(OutBar[w])] = Missing(req[w])
    <2>1. OutBar[w] = Append(out[w], Missing(req[w]))
      BY <1>1 DEF OutBar, Said
    <2>2. /\ Missing(req[w]) \in Answers
      BY <1>2 DEF Answers
    <2>3. ASSUME NEW s \in Seq(Answers), NEW a \in Answers
          PROVE  /\ Len(Append(s, a)) = Len(s) + 1
                 /\ Append(s, a) # <<>>
                 /\ Append(s, a)[Len(s) + 1] = a
      OBVIOUS
    <2> QED
      BY <1>2, <2>1, <2>2, <2>3
  <1>6. req[w].keys[Len(OutBar[w])] = Key(w)
    BY <1>5 DEF Key
  <1>7. \E r \in Requests : Atomic!Arms(r) /\ r.keys[1] = Key(w)
    BY <1>1 DEF IInv, DeadlinesAreGiven, Expirable, Atomic!Arms
  <1>8. lapsed' = lapsed \ Atomic!At(Key(w))
    <2>1. Speak({})
      BY <1>1, <1>3, NobodySpeaks
    <2>2. lapsed' = lapsed \ ({} \cup Atomic!At(Key(w)))
      BY <1>1, <1>2, <2>1, LapsedSwept
    <2> QED
      BY <2>2
  <1> QED
    BY <1>1, <1>2, <1>3, <1>4, <1>5, <1>6, <1>7, <1>8 DEF Atomic!Forget, MapBar, OutBar

LEMMA IncrBar ==
  ASSUME IInv, LapsedOK, Record, NEW w \in Workers, Incr(w)
  PROVE  Atomic!Bump(w)
  <1> DEFINE zero == [value |-> to_string[0], expires_at |-> None]
             base == IF Live(Key(w)) THEN inner[Key(w)] ELSE NewEntry(to_string[0])
             d    == Delta(req[w])
             n    == parse[base.value]
             e    == [base EXCEPT !.value = to_string[n + d]]
  <1>1. /\ pc[w] = "incr" /\ pc[w] \in Busy /\ UNCHANGED <<now, req, deadline>>
    BY DEF Incr, Busy, Labels
  <1>2. req[w].op \in {"INCR", "DECR"} /\ Key(w) \in Keys
    BY <1>1, BusyFacts, ReachableFacts DEF IInv
  <1>3. /\ base = IF Visible(Key(w)) = Vacant THEN zero ELSE Visible(Key(w))
        /\ base \in Entry
    <2>1. to_string[0] \in Bytes
      BY IntegerAssumption DEF I64
    <2>2. CASE Live(Key(w))
      BY <1>2, <2>2 DEF Visible, Live, Present, IInv, TypeOK
    <2>3. CASE ~Live(Key(w))
      BY <2>1, <2>3 DEF Visible, NewEntry, Entry
    <2> QED
      BY <2>2, <2>3
  <1>4. base # Vacant /\ base.value \in Bytes /\ base.expires_at \in Nat \cup {None}
    BY <1>3, SentinelAssumption DEF Entry
  <1>5. ~Expired(base)
    <2>1. CASE Live(Key(w))
      BY <2>1 DEF Live
    <2>2. CASE ~Live(Key(w))
      BY <2>2 DEF NewEntry, Expired, ExpiredAt
    <2> QED
      BY <2>1, <2>2
  <1>6. (n # None /\ n + d \in I64) => Sum(base.value, d) = n + d /\ Sum(base.value, d) # None
    BY IntegerAssumption, SentinelAssumption DEF Sum, I64
  <1>7. ~(n # None /\ n + d \in I64) => Sum(base.value, d) = None
    BY DEF Sum
  <1>8. d = (IF req[w].op = "INCR" THEN 1 ELSE -1)
    BY DEF Delta
  <1>9. I64 = MinI64 .. MaxI64
    BY DEF I64
  <1> HIDE DEF d
  <1>10. CASE n # None /\ n + d \in I64
    <2>1. /\ inner' = [inner EXCEPT ![Key(w)] = e] /\ Answer(w, n + d)
      BY <1>6, <1>10 DEF Incr, d
    <2>2. to_string[n + d] \in Bytes /\ n + d \in Int
      BY <1>10, IntegerAssumption DEF I64
    <2>3. e \in Entry /\ e.expires_at = base.expires_at
      BY <1>3, <2>2 DEF Entry
    <2>4. e # Vacant /\ ~Expired(e)
      BY <1>5, <2>3, SentinelAssumption DEF Entry, Expired, ExpiredAt
    <2>5. MapBar' = [MapBar EXCEPT ![Key(w)] = e]
      <3> HIDE DEF e
      <3> QED
        BY <1>1, <1>2, <2>1, <2>4, WrittenMap
    <2>6. n + d \in Answers
      BY <2>2 DEF Answers
    <2>7. Answered(w, n + d)
      <3> HIDE DEF n
      <3> QED
        BY <1>1, <2>1, <2>6, AnswerBar
    <2>8. lapsed' = lapsed \ Atomic!At(Key(w))
      <3> HIDE DEF e, n
      <3> QED
        BY <1>1, <2>1, <2>4, <2>6, <2>7, WriteLapses
    <2> QED
      BY <1>1, <1>2, <1>3, <1>8, <1>9, <1>10, <2>5, <2>7, <2>8, PendingBar
         DEF Atomic!Bump, Atomic!Answered, Answered, MapBar, OutBar
  <1>11. CASE ~(n # None /\ n + d \in I64)
    <2>1. inner' = [inner EXCEPT ![Key(w)] = base] /\ Answer(w, Error)
      BY <1>7, <1>11 DEF Incr, d
    <2>2. Answered(w, Error)
      BY <1>1, <2>1, AnswerBar DEF Answers
    <2>3. Live(Key(w))
      <3>1. ASSUME ~Live(Key(w)) PROVE FALSE
        <4>1. n = 0
          BY <3>1, IntegerAssumption DEF NewEntry, I64
        <4>2. n # None /\ d \in {-1, 1}
          BY <4>1, SentinelAssumption DEF d, Delta
        <4> HIDE DEF n
        <4>3. n + d \in I64
          BY <4>1, <4>2, IntegerAssumption DEF I64
        <4> QED
          BY <1>11, <4>2, <4>3
      <3> QED
        BY <3>1
    <2>4. inner' = inner
      BY <2>1, <2>3 DEF IInv, TypeOK
    <2>5. MapBar' = MapBar
      BY <1>1, <2>4, SameMap
    <2>6. lapsed' = lapsed \ Atomic!At(Key(w))
      <3> HIDE DEF base
      <3> QED
        BY <1>1, <1>5, <2>1, <2>2, WriteLapses DEF Answers
    <2> QED
      BY <1>1, <1>2, <1>3, <1>8, <1>9, <1>11, <2>2, <2>5, <2>6, PendingBar
         DEF Atomic!Bump, Atomic!Answered, Answered, MapBar, OutBar
  <1> QED
    BY <1>10, <1>11

LEMMA ReturnBar ==
  ASSUME IInv, LapsedOK, Record, NEW w \in Workers, Return(w)
  PROVE  Atomic!Return(w)
  <1>1. /\ pc[w] = "done" /\ UNCHANGED <<inner, now>>
        /\ pc' = [pc EXCEPT ![w] = "idle"]
        /\ req' = [req EXCEPT ![w] = None]
        /\ out' = [out EXCEPT ![w] = <<>>]
        /\ deadline' = [deadline EXCEPT ![w] = None]
    BY DEF Return, Goto
  <1>2. req[w] \in Requests /\ Len(out[w]) = Len(req[w].keys)
    BY <1>1, ReachableFacts DEF IInv, TypeOK, CallOK, Busy
  <1>3. req[w] # None /\ OutBar[w] = out[w]
    BY <1>1, <1>2, RequestFacts DEF OutBar, Said
  <1>4. OutBar' = [OutBar EXCEPT ![w] = <<>>]
    <2>1. /\ pc'[w] = "idle" /\ out'[w] = <<>>
          /\ \A v \in Workers : v # w => pc'[v] = pc[v] /\ out'[v] = out[v] /\ req'[v] = req[v]
      BY <1>1 DEF IInv, TypeOK
    <2> QED
      BY <2>1 DEF OutBar, Said
  <1>5. lapsed' = lapsed
    <2>1. \A k \in Keys : ~On(w, k)
      BY <1>1, <1>2 DEF On, Said
    <2>2. \A v \in Workers : v # w => Said(v)' = Said(v) /\ req'[v] = req[v]
      BY <1>1 DEF Said, IInv, TypeOK
    <2>3. Speak({w})
      BY <2>1, <2>2 DEF Speak
    <2>4. w \notin lapsed
      BY <2>1 DEF LapsedOK
    <2> QED
      BY <1>1, <2>3, <2>4, LapsedStays
  <1> QED
    BY <1>1, <1>2, <1>3, <1>4, <1>5, SameMap DEF Atomic!Return, MapBar, OutBar

(* The clock takes away the entries whose deadline it reaches. *)
LEMMA TickBar ==
  ASSUME IInv, LapsedOK, Record, Tick
  PROVE  Atomic!Tick
  <1>1. now < MaxTime /\ now' = now + 1 /\ UNCHANGED <<inner, pc, req, out, deadline>> /\ now \in Nat
    BY DEF Tick, IInv, TypeOK
  <1>2. OutBar' = OutBar
    BY <1>1 DEF OutBar, Said, Missing
  <1>3. MapBar' = [k \in Keys |->
                     IF \/ MapBar[k] = Vacant
                        \/ MapBar[k].expires_at = None
                        \/ now + 1 < MapBar[k].expires_at
                     THEN MapBar[k] ELSE Vacant]
    <2>1. ASSUME NEW k \in Keys
          PROVE  Visible(k)' = IF \/ Visible(k) = Vacant
                                  \/ Visible(k).expires_at = None
                                  \/ now + 1 < Visible(k).expires_at
                               THEN Visible(k) ELSE Vacant
      <3>1. CASE inner[k] = Vacant
        BY <1>1, <3>1 DEF Visible, Live, Present
      <3>2. CASE inner[k] \in Entry /\ inner[k].expires_at = None
        <4>1. inner[k] # Vacant
          BY <3>2, SentinelAssumption DEF Entry
        <4> QED
          BY <1>1, <3>2, <4>1 DEF Visible, Live, Present, Expired, ExpiredAt
      <3>3. CASE inner[k] \in Entry /\ inner[k].expires_at # None
        <4>1. inner[k].expires_at \in Nat /\ inner[k] # Vacant
          BY <3>3, SentinelAssumption DEF Entry
        <4> QED
          BY <1>1, <3>3, <4>1 DEF Visible, Live, Present, Expired, ExpiredAt
      <3> QED
        BY <3>1, <3>2, <3>3 DEF IInv, TypeOK
    <2> QED
      BY <2>1 DEF MapBar
  <1> DEFINE fresh == {v \in Workers :
                         /\ Atomic!Pending(v)
                         /\ MapBar[Atomic!Key(v)] # Vacant /\ MapBar'[Atomic!Key(v)] = Vacant}
  <1>4. lapsed' = lapsed \cup fresh
    <2>1. lapsed' = {v \in Workers :
                      \E k \in Keys : On(v, k) /\ Dead(k)' /\ (Live(k) \/ v \in lapsed)}
      BY <1>1, <1>2, NobodySpeaks, Lapsing
    <2>2. \A k \in Keys : /\ Dead(k) => Dead(k)'
                          /\ Live(k) /\ Dead(k)' <=> MapBar[k] # Vacant /\ MapBar'[k] = Vacant
      <3>1. SUFFICES ASSUME NEW k \in Keys
                     PROVE  /\ Dead(k) => Dead(k)'
                            /\ Live(k) /\ Dead(k)' <=> Visible(k) # Vacant /\ Visible(k)' = Vacant
        BY DEF MapBar
      <3>2. CASE inner[k] = Vacant
        BY <1>1, <3>2 DEF Visible, Live, Present, Dead
      <3>3. CASE inner[k] # Vacant
        <4>1. inner[k].expires_at \in Nat \cup {None}
          BY <3>3 DEF IInv, TypeOK, Entry
        <4> QED
          BY <1>1, <3>3, <4>1 DEF Visible, Live, Present, Dead, Expired, ExpiredAt
      <3> QED
        BY <3>2, <3>3
    <2>3. \A v \in Workers :
            v \in fresh <=> \E k \in Keys : On(v, k) /\ Live(k) /\ Dead(k)'
      <3>1. \A v \in Workers, k \in Keys : On(v, k) <=> Atomic!Pending(v) /\ Atomic!Key(v) = k
        BY AtFacts DEF Atomic!At
      <3> QED
        BY <2>2, <3>1, AtFacts
    <2> HIDE DEF fresh
    <2>4. \A v \in fresh : v \in Workers
      BY DEF fresh
    <2> QED
      BY <2>1, <2>2, <2>3, <2>4 DEF LapsedOK
  <1> QED
    BY <1>1, <1>2, <1>3, <1>4 DEF Atomic!Tick, MapBar, OutBar
-----------------------------------------------------------------------------
(* A section is its own thread's affair. *)
LEMMA OtherThreads ==
  ASSUME IInv, NEW w \in Workers, Invoke(w) \/ Step(w)
  PROVE  /\ \A v \in Workers : v # w => pc'[v] = pc[v] /\ req'[v] = req[v] /\ out'[v] = out[v]
         /\ pc[w] \in Busy => req' = req
<1>1. pc \in [Workers -> Labels] /\ DOMAIN req = Workers /\ DOMAIN out = Workers
  BY DEF IInv, TypeOK
<1>2. CASE Invoke(w)
  BY <1>1, <1>2 DEF Invoke, Goto, Busy
<1>3. CASE Return(w)
  BY <1>1, <1>3 DEF Return, Goto, Busy
<1>4. CASE Step(w) /\ ~Return(w)
  <2>1. req' = req
    BY <1>4 DEF Step, Set, Get, Del, DelTake, Stamp, Expire, Ttl, TtlLeft, Reap, Incr
  <2>2. \E l : Goto(w, l)
    BY <1>4 DEF Step, Set, Get, Del, DelTake, Stamp, Expire, Ttl, TtlLeft, Reap, Incr, Answer
  <2>3. out' = out \/ \E a : out' = [out EXCEPT ![w] = Append(@, a)]
    BY <1>4 DEF Step, Set, Get, Del, DelTake, Stamp, Expire, Ttl, TtlLeft, Reap, Incr, Answer
  <2> QED
    BY <1>1, <2>1, <2>2, <2>3 DEF Goto
<1> QED
  BY <1>2, <1>3, <1>4

(* An expired entry was there before it expired. *)
LEMMA Aging ==
  ASSUME IInv, [Next]_vars, NEW k \in Keys, Dead(k)'
  PROVE  Present(k)
  <1> SUFFICES ASSUME inner[k] = Vacant PROVE FALSE
    BY DEF Present
  <1>1. inner'[k] # Vacant /\ inner \in [Keys -> Entry \cup {Vacant}]
    BY DEF Dead, Present, IInv, TypeOK
  <1>2. CASE Tick \/ UNCHANGED vars
    BY <1>1, <1>2 DEF Tick, vars
  <1>3. ASSUME NEW w \in Workers, Invoke(w) \/ Step(w)
        PROVE  FALSE
    <2>1. CASE UNCHANGED inner
      BY <1>1, <2>1
    <2>2. CASE DelTake(w) \/ Reap(w)
      BY <1>1, <2>2 DEF DelTake, Reap
    <2>3. CASE Set(w)
      BY <1>1, <2>3 DEF Set, NewEntry, Dead, Expired, ExpiredAt
    <2>4. CASE Expire(w)
      BY <1>1, <2>4 DEF Expire, Live, Present
    <2>5. CASE Incr(w)
      <3>1. PICK e \in {NewEntry(to_string[0])} \cup
                       {[NewEntry(to_string[0]) EXCEPT !.value = v] : v \in Bytes} :
              inner'[k] = e
        <4>1. ~Live(k)
          BY DEF Live, Present
        <4>2. \A v, d : Sum(v, d) # None => Sum(v, d) \in I64
          BY DEF Sum
        <4>3. Key(w) = k /\ Key(w) \in Keys
          BY <1>1, <2>5 DEF Incr
        <4> QED
          BY <1>1, <2>5, <4>1, <4>2, <4>3, IntegerAssumption DEF Incr
      <3>2. e.expires_at = None
        BY <3>1 DEF NewEntry
      <3> QED
        BY <3>1, <3>2 DEF Dead, Expired, ExpiredAt
    <2> QED
      BY <1>3, <2>1, <2>2, <2>3, <2>4, <2>5
         DEF Invoke, Step, Get, Del, Stamp, Ttl, TtlLeft, Return
  <1> QED
    BY <1>2, <1>3 DEF Next

(* A thread gets to where it counts or measures by a look-up that does not  *)
(* find its key expired.                                                    *)
LEMMA Arrives ==
  ASSUME IInv, [Next]_vars, NEW v \in Workers, pc'[v] \in {"del_take", "ttl_left"}
  PROVE  \/ pc'[v] = pc[v] /\ req'[v] = req[v] /\ out'[v] = out[v]
         \/ ~Dead(Key(v))'
  <1>1. CASE Tick \/ UNCHANGED vars
    BY <1>1 DEF Tick, vars
  <1>2. ASSUME NEW w \in Workers, Invoke(w) \/ Step(w), w # v
        PROVE  pc'[v] = pc[v] /\ req'[v] = req[v] /\ out'[v] = out[v]
    BY <1>2, OtherThreads
  <1>3. CASE Invoke(v) \/ Step(v)
    <2>1. \A r : Start(r) \notin {"del_take", "ttl_left"}
      BY DEF Start
    <2>2. \A l : Goto(v, l) => pc'[v] = l
      BY DEF Goto, IInv, TypeOK
    <2>3. \A a : ~Answer(v, a)
      BY <2>1, <2>2 DEF Answer
    <2>4. Del(v) \/ Ttl(v)
      BY <1>3, <2>1, <2>2, <2>3
         DEF Invoke, Step, Set, Get, DelTake, Stamp, Expire, TtlLeft, Reap, Incr, Return
    <2>5. UNCHANGED <<inner, now, req, out>> /\ ~Dead(Key(v))
      BY <2>2, <2>3, <2>4 DEF Del, Ttl, Dead
    <2> QED
      BY <2>5 DEF Key, Dead, Present, Expired
  <1> QED
    BY <1>1, <1>2, <1>3 DEF Next

LEMMA LapsedNext ==
  ASSUME IInv, LapsedOK, [Next]_vars, Record
  PROVE  LapsedOK'
  <1>1. \A v \in lapsed' : v \in Workers /\ \E k \in Keys : On(v, k)' /\ Dead(k)'
    BY DEF Record
  <1>2. ASSUME NEW v \in Workers, pc'[v] \in {"del_take", "ttl_left"}, Dead(Key(v))'
        PROVE  v \in lapsed'
    <2>1. pc'[v] = pc[v] /\ req'[v] = req[v] /\ out'[v] = out[v]
      BY <1>2, Arrives
    <2>2. Said(v)' = Said(v) /\ Key(v)' = Key(v) /\ \A k \in Keys : On(v, k)' <=> On(v, k)
      BY <2>1 DEF Said, Key, On
    <2>3. Key(v) \in Keys /\ On(v, Key(v))
      <3>1. pc[v] \in Busy /\ pc[v] # "reap"
        BY <1>2, <2>1 DEF Busy, Labels
      <3> QED
        BY <3>1, PendingBar, AtFacts DEF Atomic!At
    <2>4. Dead(Key(v))'
      BY <1>2
    <2>5. Live(Key(v)) \/ Dead(Key(v))
      BY <1>2, <2>2, <2>3, Aging DEF Live, Dead
    <2>6. Live(Key(v)) \/ v \in lapsed
      BY <1>2, <2>1, <2>5 DEF LapsedOK
    <2> QED
      BY <1>2, <2>2, <2>3, <2>6 DEF Record
  <1> QED
    BY <1>1, <1>2 DEF LapsedOK
-----------------------------------------------------------------------------
LEMMA NextBar ==
  ASSUME IInv, LapsedOK, [Next /\ Record]_hvars
  PROVE  [Atomic!Next]_(Atomic!vars)
  <1>1. CASE Tick /\ Record
    BY <1>1, TickBar DEF Atomic!Next
  <1>2. ASSUME NEW w \in Workers, Invoke(w) \/ Step(w), Record
        PROVE  [Atomic!Next]_(Atomic!vars)
    <2>1. \/ Atomic!Invoke(w) \/ Atomic!Put(w) \/ Atomic!Look(w) \/ Atomic!Remove(w)
          \/ Atomic!Stamp(w) \/ Atomic!Arm(w) \/ Atomic!Measure(w) \/ Atomic!Bump(w)
          \/ Atomic!Return(w) \/ Atomic!Forget(w) \/ UNCHANGED Atomic!vars
      BY <1>2, InvokeBar, SetBar, GetBar, DelBar, DelTakeBar, StampBar, ExpireBar,
         TtlBar, TtlLeftBar, ReapStep, IncrBar, ReturnBar DEF Step
    <2> QED
      BY <2>1 DEF Atomic!Next
  <1>3. CASE UNCHANGED hvars
    <2>1. MapBar' = MapBar
      BY <1>3, SameMap DEF hvars, vars
    <2>2. OutBar' = OutBar
      BY <1>3 DEF hvars, vars, OutBar, Said, Missing
    <2> QED
      BY <1>3, <2>1, <2>2 DEF hvars, vars, Atomic!vars, MapBar, OutBar
  <1> QED
    BY <1>1, <1>2, <1>3 DEF Next

(* The history variable adds nothing to what the threads do.                *)
LEMMA HistorySteps == [HistoryNext]_hvars => [Next /\ Record]_hvars
  BY DEF HistoryNext, Next, Step, hvars

LEMMA HistoryIsStorage == HistorySpec => Spec
  <1>1. [HistoryNext]_hvars => [Next]_vars
    BY DEF HistoryNext, Next, Step, hvars
  <1>2. HistoryInit => Init
    BY DEF HistoryInit
  <1> QED
    BY <1>1, <1>2, PTL DEF HistorySpec, Spec

LEMMA LapsedInit == HistoryInit => LapsedOK
  BY DEF HistoryInit, Init, LapsedOK

LEMMA LapsedStutter ==
  ASSUME LapsedOK, UNCHANGED hvars
  PROVE  LapsedOK'
  BY DEF hvars, vars, LapsedOK, On, Said, Missing, Dead, Present, Expired, Key

LEMMA LapsedHolds == HistorySpec => []LapsedOK
  <1>1. IInv /\ LapsedOK /\ [Next /\ Record]_hvars => LapsedOK'
    BY LapsedNext, LapsedStutter
  <1> QED
    BY <1>1, LapsedInit, HistorySteps, HistoryIsStorage, IInvHolds, PTL DEF HistorySpec

(* Where the keyspace rests, so does its history. *)
LEMMA IdleHistory ==
  ASSUME IInv, LapsedOK, UNCHANGED vars, Record
  PROVE  lapsed' = lapsed
  <1>1. OutBar' = OutBar
    BY DEF vars, OutBar, Said, Missing
  <1> QED
    BY <1>1, MoveLapses DEF vars

(* Every behaviour of the threads on the DashMap is one of the atomic map:  *)
(* each answer a client gets, key by key, is the answer of one moment       *)
(* between its request and its reply, on a map whose entries disappear at   *)
(* their deadline.  Of the deviations that ExpiringMap names, DEL counts a  *)
(* missing key, and TTL answers 0, only if the key expired under the call.  *)
THEOREM Refinement == HistorySpec => ImplementsAtomicMap
  <1>1. HistoryInit => Atomic!Init
    BY InitBar
  <1>2. IInv /\ LapsedOK /\ [Next /\ Record]_hvars => [Atomic!Next]_(Atomic!vars)
    BY NextBar
  <1> QED
    BY <1>1, <1>2, HistorySteps, HistoryIsStorage, IInvHolds, LapsedHolds, PTL
       DEF HistorySpec, ImplementsAtomicMap, Atomic!Spec
=============================================================================

---------------------------- MODULE RalphdbProofs ----------------------------
(***************************************************************************)
(* Proofs about the process for every value of its constants: putting the  *)
(* keyspace behind a pool of threads takes nothing away from what Storage  *)
(* promises, nor from what Server does; and what clients are told of a     *)
(* counter is unique and in real-time order.                               *)
(***************************************************************************)
EXTENDS Ralphdb, StorageRefinement

(* What the counter has come to. *)
Count == IF inner[Counter] = Vacant THEN 0 ELSE parse[inner[Counter].value]

(* A thread is about to tell its client a value of the counter. *)
HasNews(w) == OnCounter(w) /\ Told(w) # None

(* Nobody has been told a value the counter has not come to. *)
History ==
  /\ told \in Nat /\ told <= Count
  /\ tickets \in [1 .. MaxI64 -> Nat]
  /\ \A n \in 1 .. MaxI64 : tickets[n] <= 1 /\ (n > Count => tickets[n] = 0)
  /\ floor \in [Workers -> Nat]
  /\ \A w \in Workers : floor[w] <= told

(* The values in the threads' hands are new, and each is in one hand. *)
News ==
  /\ \A w \in Workers :
       HasNews(w) => Told(w) \in 1 .. Count /\ floor[w] < Told(w) /\ tickets[Told(w)] = 0
  /\ \A v, w \in Workers : HasNews(v) /\ HasNews(w) /\ Told(v) = Told(w) => v = w

CInv == Count \in 0 .. MaxI64 /\ History /\ News
-----------------------------------------------------------------------------
(* No other command than INCR changes a counter. *)
LEMMA CounterRequest ==
  ASSUME NEW r \in Requests, NEW i \in 1 .. Len(r.keys), r.keys[i] = Counter
  PROVE  \/ r.op \in ReadOps \cup {"TTL"}
         \/ r.op = "INCR" /\ r.keys = <<Counter>>
<1>1. i \in DOMAIN r.keys
  BY RequestFacts
<1> QED
  BY <1>1, CounterAssumption

(* Nobody gives a counter a deadline. *)
LEMMA CounterGiven == Counter \notin Expirable
<1> SUFFICES ASSUME NEW r \in Requests, r.op = "EXPIRE", r.keys[1] = Counter PROVE FALSE
  BY DEF Expirable
<1>1. 1 \in 1 .. Len(r.keys)
  BY RequestFacts
<1>2. r.op \in ReadOps \cup {"TTL", "INCR"}
  BY <1>1, CounterRequest
<1> QED
  BY <1>2 DEF ReadOps

(* So a counter does not expire. *)
LEMMA CounterStays ==
  ASSUME IInv, Present(Counter)
  PROVE  ~Expired(inner[Counter]) /\ inner[Counter] \in Entry
<1> QED
  BY CounterGiven, CounterAssumption DEF IInv, TypeOK, DeadlinesAreGiven, Present, Expired, ExpiredAt

(* A thread that has the counter for its key looks at it, or is about to    *)
(* increment it and has no answer yet; it never reaps it.                   *)
LEMMA OnTheCounter ==
  ASSUME IInv, NEW w \in Workers, pc[w] \in Busy
  PROVE  /\ Key(w) \in Keys /\ req[w] \in Requests
         /\ Key(w) = Counter /\ pc[w] = "incr" =>
              req[w].op = "INCR" /\ req[w].keys = <<Counter>> /\ out[w] = <<>>
         /\ Key(w) = Counter /\ pc[w] # "incr" =>
              pc[w] \in {"get", "ttl", "ttl_left"} /\ req[w].op # "INCR"
         /\ req[w].keys = <<Counter>> => Key(w) = Counter
<1>1. /\ req[w] \in Requests /\ Key(w) \in Keys
      /\ Len(out[w]) \in Nat /\ Len(out[w]) + 1 \in 1 .. Len(req[w].keys)
      /\ pc[w] \in Reachable(req[w]) /\ out[w] \in Seq(Answers)
  BY BusyFacts DEF IInv, TypeOK
<1>2. ASSUME Key(w) = Counter
      PROVE  /\ pc[w] = "incr" =>
                  req[w].op = "INCR" /\ req[w].keys = <<Counter>> /\ out[w] = <<>>
             /\ pc[w] # "incr" =>
                  pc[w] \in {"get", "ttl", "ttl_left"} /\ req[w].op # "INCR"
  <2>1. \/ req[w].op \in ReadOps \cup {"TTL"}
        \/ req[w].op = "INCR" /\ req[w].keys = <<Counter>>
    BY <1>1, <1>2, CounterRequest DEF Key
  <2>2. CASE req[w].op \in ReadOps \cup {"TTL"}
    <3>1. pc[w] # "reap"
      BY <1>2, CounterGiven DEF IInv, DeadlinesAreGiven
    <3>2. pc[w] \in {"get", "ttl", "ttl_left"} /\ req[w].op # "INCR"
      BY <1>1, <2>2, <3>1 DEF Reachable, Start, ReadOps
    <3> QED
      BY <3>2
  <2>3. CASE req[w].op = "INCR" /\ req[w].keys = <<Counter>>
    <3>1. Len(out[w]) = 0
      BY <1>1, <2>3
    <3>2. pc[w] = "incr"
      BY <1>1, <2>3 DEF Reachable, Start, ReadOps
    <3> QED
      BY <1>1, <2>3, <3>1, <3>2
  <2> QED
    BY <2>1, <2>2, <2>3
<1>3. ASSUME req[w].keys = <<Counter>>
      PROVE  Key(w) = Counter
  <2>1. Len(out[w]) + 1 = 1
    BY <1>1, <1>3
  <2> QED
    BY <1>3, <2>1 DEF Key
<1> QED
  BY <1>1, <1>2, <1>3

(* A section of another call leaves the counter alone. *)
LEMMA OtherSections ==
  ASSUME IInv, NEW w \in Workers, pc[w] \in Busy, Step(w), Key(w) # Counter \/ pc[w] # "incr"
  PROVE  inner'[Counter] = inner[Counter]
<1>1. inner' = inner \/ \E e : inner' = [inner EXCEPT ![Key(w)] = e]
  BY DEF Step, Set, Get, Del, DelTake, Stamp, Expire, Ttl, TtlLeft, Reap, Incr, Return
<1>2. inner \in [Keys -> Entry \cup {Vacant}] /\ Counter \in Keys
  BY CounterAssumption DEF IInv, TypeOK
<1>3. CASE pc[w] \in {"get", "ttl", "ttl_left"}
  BY <1>3 DEF Step, Set, Get, Del, DelTake, Stamp, Expire, Ttl, TtlLeft, Reap, Incr, Return
<1> QED
  BY <1>1, <1>2, <1>3, OnTheCounter

(* Incrementing a counter: it goes up by one and the answer is its value,   *)
(* or it is at its limit and the answer is the error.                       *)
LEMMA CountsUp ==
  ASSUME IInv, Count \in 0 .. MaxI64, NEW w \in Workers, Incr(w), Key(w) = Counter
  PROVE  /\ Count' \in {Count, Count + 1} /\ Count' \in 0 .. MaxI64
         /\ out'[w] # <<Error>> => out'[w] = <<Count'>> /\ Count' = Count + 1
<1> DEFINE base    == IF Live(Key(w)) THEN inner[Key(w)] ELSE NewEntry(to_string[0])
           updated == Sum(base.value, Delta(req[w]))
<1>1. /\ pc[w] \in Busy /\ req[w].op = "INCR" /\ out[w] = <<>>
      /\ inner \in [Keys -> Entry \cup {Vacant}] /\ Counter \in Keys /\ DOMAIN out = Workers
  BY OnTheCounter, CounterAssumption DEF Incr, Busy, Labels, IInv, TypeOK
<1>2. /\ MaxI64 \in Int /\ MinI64 \in Int /\ MinI64 <= -1 /\ 1 <= MaxI64
      /\ to_string[0] \in Bytes /\ parse[to_string[0]] = 0
      /\ \A n \in I64 : to_string[n] \in Bytes /\ parse[to_string[n]] = n
      /\ None \notin Int
  BY IntegerAssumption, SentinelAssumption DEF I64
<1>3. base \in Entry /\ parse[base.value] = Count
  <2>1. CASE inner[Counter] = Vacant
    BY <1>2, <2>1 DEF Count, Live, Present, Entry, NewEntry
  <2>2. CASE inner[Counter] # Vacant
    BY <2>2, CounterStays DEF Count, Live, Present
  <2> QED
    BY <2>1, <2>2
<1>4. updated = IF Count + 1 \in I64 THEN Count + 1 ELSE None
  <2>1. Delta(req[w]) = 1
    BY <1>1 DEF Delta
  <2>2. Count # None
    BY <1>2
  <2> HIDE DEF base
  <2> QED
    BY <1>3, <2>1, <2>2 DEF Sum
<1>5. CASE inner' = [inner EXCEPT ![Key(w)] = base] /\ Answer(w, Error)
  <2> HIDE DEF base
  <2>1. inner'[Counter] = base /\ base # Vacant
    BY <1>1, <1>3, <1>5, SentinelAssumption DEF Entry
  <2>2. out'[w] = <<Error>>
    BY <1>1, <1>5 DEF Answer
  <2>3. Count' = Count
    BY <1>3, <2>1 DEF Count
  <2> QED
    BY <2>2, <2>3
<1>6. CASE /\ updated # None
           /\ inner' = [inner EXCEPT ![Key(w)] = [base EXCEPT !.value = to_string[updated]]]
           /\ Answer(w, updated)
  <2>1. updated = Count + 1 /\ Count + 1 \in I64
    BY <1>4, <1>6
  <2> HIDE DEF base, updated
  <2>2. /\ inner'[Counter] = [base EXCEPT !.value = to_string[updated]]
        /\ inner'[Counter] # Vacant /\ inner'[Counter].value = to_string[Count + 1]
    <3>1. inner'[Counter] = [base EXCEPT !.value = to_string[updated]]
      BY <1>1, <1>6
    <3>2. [base EXCEPT !.value = to_string[updated]] \in Entry
      BY <1>2, <1>3, <2>1 DEF Entry
    <3>3. [base EXCEPT !.value = to_string[updated]].value = to_string[updated]
      BY <1>3 DEF Entry
    <3> QED
      BY <2>1, <3>1, <3>2, <3>3, SentinelAssumption DEF Entry
  <2>3. Count' = Count + 1
    BY <1>2, <2>1, <2>2 DEF Count
  <2>4. out'[w] = <<Count'>>
    BY <1>1, <1>6, <2>1, <2>3 DEF Answer
  <2>5. Count' \in 1 .. MaxI64
    BY <1>2, <2>1, <2>3 DEF I64
  <2> QED
    BY <2>3, <2>4, <2>5
<1> QED
  BY <1>5, <1>6 DEF Incr
-----------------------------------------------------------------------------
LEMMA InitCInv == ProcessInit => CInv
<1> SUFFICES ASSUME ProcessInit PROVE CInv
  OBVIOUS
<1>1. Init /\ told = 0 /\ tickets = [n \in 1 .. MaxI64 |-> 0] /\ floor = [w \in Workers |-> 0]
  BY DEF ProcessInit
<1>2. Count = 0
  BY <1>1, CounterAssumption DEF Init, Count
<1>3. MaxI64 \in Nat
  BY IntegerAssumption
<1>4. \A w \in Workers : ~HasNews(w)
  BY <1>1 DEF Init, HasNews, OnCounter
<1> QED
  BY <1>1, <1>2, <1>3, <1>4 DEF CInv, History, News

(* What the history says does not depend on a thread that has no news. *)
LEMMA SameCount ==
  ASSUME CInv, NEW w \in Workers, NEW f \in Nat, f <= told,
         inner'[Counter] = inner[Counter], UNCHANGED <<told, tickets>>,
         \/ floor' = floor
         \/ floor' = [floor EXCEPT ![w] = f] /\ ~HasNews(w)',
         \A v \in Workers : HasNews(v)' => HasNews(v) /\ Told(v)' = Told(v)
  PROVE  CInv'
<1>1. Count' = Count
  BY DEF Count
<1>2. History'
  BY <1>1 DEF CInv, History
<1>3. News'
  <2>1. ASSUME NEW v \in Workers, HasNews(v)'
        PROVE  /\ Told(v)' \in 1 .. Count' /\ floor'[v] < Told(v)'
               /\ tickets'[Told(v)'] = 0
    <3>1. floor'[v] = floor[v]
      BY <2>1 DEF CInv, History
    <3> QED
      BY <1>1, <2>1, <3>1 DEF CInv, News
  <2>2. ASSUME NEW u \in Workers, NEW v \in Workers, HasNews(u)', HasNews(v)', Told(u)' = Told(v)'
        PROVE  u = v
    BY <2>2 DEF CInv, News
  <2> QED
    BY <2>1, <2>2 DEF News
<1> QED
  BY <1>1, <1>2, <1>3 DEF CInv
(* The news of a thread is its own. *)
LEMMA NewsIsKept ==
  ASSUME NEW v, pc'[v] = pc[v], req'[v] = req[v], out'[v] = out[v]
  PROVE  HasNews(v)' => HasNews(v) /\ Told(v)' = Told(v)
BY DEF HasNews, OnCounter, Told

LEMMA UnchangedCInv ==
  ASSUME CInv, inner' = inner, UNCHANGED <<pc, req, out, history>>
  PROVE  CInv'
<1>1. \A v \in Workers : HasNews(v)' <=> HasNews(v)
  BY DEF HasNews, OnCounter, Told
<1>2. \A v \in Workers : Told(v)' = Told(v)
  BY DEF Told
<1>3. Count' = Count
  BY DEF Count
<1> QED
  BY <1>1, <1>2, <1>3 DEF CInv, History, News, history

LEMMA ExecuteCInv ==
  ASSUME IInv, CInv, NEW w \in Workers, Execute(w)
  PROVE  CInv'
<1>1. CASE UNCHANGED <<vars, floor>>
  BY <1>1, UnchangedCInv DEF Execute, vars, history
<1>2. CASE Invoke(w) /\ floor' = [floor EXCEPT ![w] = told]
  <2>1. \A v \in Workers : v # w => pc'[v] = pc[v] /\ req'[v] = req[v] /\ out'[v] = out[v]
    BY <1>2, OtherThreads
  <2>2. PICK r \in Requests : pc'[w] = Start(r)
    BY <1>2 DEF Invoke, Goto, IInv, TypeOK
  <2>3. ~HasNews(w)'
    BY <2>2, ReachableFacts DEF HasNews, OnCounter, Busy
  <2>4. told \in Nat /\ told <= told
    BY DEF CInv, History
  <2>5. \A v \in Workers : HasNews(v)' => HasNews(v) /\ Told(v)' = Told(v)
    BY <2>1, <2>3, NewsIsKept
  <2>6. inner'[Counter] = inner[Counter] /\ UNCHANGED <<told, tickets>>
    BY <1>2 DEF Execute, Invoke
  <2> QED
    BY <1>2, <2>3, <2>4, <2>5, <2>6, SameCount
<1> QED
  BY <1>1, <1>2 DEF Execute

(* An increment draws the next value, which nobody has been told and no     *)
(* other thread has.                                                        *)
LEMMA IncrementCInv ==
  ASSUME IInv, CInv, NEW w \in Workers, Incr(w), Key(w) = Counter, UNCHANGED history,
         \A v \in Workers : v # w => pc'[v] = pc[v] /\ req'[v] = req[v] /\ out'[v] = out[v]
  PROVE  CInv'
<1>1. /\ Count' \in {Count, Count + 1} /\ Count' \in 0 .. MaxI64 /\ Count \in 0 .. MaxI64
      /\ out'[w] # <<Error>> => out'[w] = <<Count'>> /\ Count' = Count + 1
  BY CountsUp DEF CInv
<1>2. History'
  BY <1>1 DEF CInv, History, history
<1>3. ASSUME NEW v \in Workers, HasNews(v)'
      PROVE  /\ Told(v)' \in 1 .. Count' /\ floor'[v] < Told(v)' /\ tickets'[Told(v)'] = 0
             /\ v # w => HasNews(v) /\ Told(v)' = Told(v) /\ Told(v)' <= Count
             /\ v = w => Told(v)' = Count + 1
  <2>1. CASE v # w
    <3>1. HasNews(v) /\ Told(v)' = Told(v)
      BY <1>3, <2>1, NewsIsKept
    <3> QED
      BY <1>1, <2>1, <3>1 DEF CInv, News, history
  <2>2. CASE v = w
    <3>1. out'[w] # <<Error>>
      BY <1>3, <2>2 DEF HasNews, Told
    <3>2. Told(v)' = Count + 1 /\ Count' = Count + 1
      BY <1>1, <1>3, <2>2, <3>1 DEF HasNews, Told
    <3>3. tickets[Count + 1] = 0 /\ floor[w] < Count + 1
      BY <1>1, <3>2 DEF CInv, History
    <3> QED
      BY <1>1, <2>2, <3>2, <3>3 DEF history
  <2> QED
    BY <2>1, <2>2
<1>4. ASSUME NEW u \in Workers, NEW v \in Workers, HasNews(u)', HasNews(v)', Told(u)' = Told(v)'
      PROVE  u = v
  BY <1>1, <1>3, <1>4 DEF CInv, News
<1>5. News'
  BY <1>3, <1>4 DEF News
<1> QED
  BY <1>1, <1>2, <1>5 DEF CInv

LEMMA CallCInv ==
  ASSUME IInv, CInv, NEW w \in Workers, Call(w)
  PROVE  CInv'
<1>1. Step(w) /\ pc[w] \in Busy /\ UNCHANGED history
  BY DEF Call, Step, Set, Get, Del, DelTake, Stamp, Expire, Ttl, TtlLeft, Reap, Incr, Return,
         Busy, Labels
<1>2. /\ \A v \in Workers : v # w => pc'[v] = pc[v] /\ req'[v] = req[v] /\ out'[v] = out[v]
      /\ req' = req
  BY <1>1, OtherThreads
<1>3. CASE Key(w) = Counter /\ pc[w] = "incr"
  <2>2. Incr(w)
    BY <1>1, <1>3 DEF Step, Set, Get, Del, DelTake, Stamp, Expire, Ttl, TtlLeft, Reap, Return
  <2> QED
    BY <1>1, <1>2, <1>3, <2>2, IncrementCInv
<1>4. CASE Key(w) # Counter \/ pc[w] # "incr"
  <2>1. ~HasNews(w)'
    BY <1>1, <1>2, <1>4, OnTheCounter DEF HasNews, OnCounter
  <2>2. inner'[Counter] = inner[Counter]
    BY <1>1, <1>4, OtherSections
  <2>3. \A v \in Workers : HasNews(v)' => HasNews(v) /\ Told(v)' = Told(v)
    BY <1>2, <2>1, NewsIsKept
  <2>4. 0 <= told /\ 0 \in Nat
    BY DEF CInv, History
  <2> QED
    BY <1>1, <2>2, <2>3, <2>4, SameCount DEF history
<1> QED
  BY <1>3, <1>4

(* A finished call is over for its thread only. *)
LEMMA FinishFacts ==
  ASSUME IInv, NEW w \in Workers, Finish(w)
  PROVE  /\ inner' = inner /\ floor' = [floor EXCEPT ![w] = 0]
         /\ ~HasNews(w)'
         /\ \A v \in Workers : v # w =>
              pc'[v] = pc[v] /\ req'[v] = req[v] /\ out'[v] = out[v]
<1>1. CASE pc[w] = "idle" /\ UNCHANGED vars
  BY <1>1 DEF Finish, vars, HasNews, OnCounter
<1>2. CASE Return(w)
  <2>1. pc'[w] = "idle"
    BY <1>2 DEF Return, Goto, IInv, TypeOK
  <2>2. \A v \in Workers : v # w => pc'[v] = pc[v] /\ req'[v] = req[v] /\ out'[v] = out[v]
    BY <1>2, OtherThreads DEF Step
  <2> QED
    BY <1>2, <2>1, <2>2 DEF Finish, Return, HasNews, OnCounter
<1> QED
  BY <1>1, <1>2 DEF Finish

LEMMA QuietFinish ==
  ASSUME IInv, CInv, NEW w \in Workers, Finish(w), UNCHANGED <<told, tickets>>
  PROVE  CInv'
<1>1. \A v \in Workers : HasNews(v)' => HasNews(v) /\ Told(v)' = Told(v)
  BY FinishFacts, NewsIsKept
<1>2. 0 <= told /\ 0 \in Nat
  BY DEF CInv, History
<1> QED
  BY <1>1, <1>2, FinishFacts, SameCount

(* A client is told the value its thread has drawn. *)
LEMMA ReplyCInv ==
  ASSUME IInv, CInv, NEW w \in Workers, Reply(w)
  PROVE  CInv'
<1>1. Finish(w)
  BY DEF Reply
<1>2. CASE UNCHANGED <<told, tickets>>
  BY <1>1, <1>2, QuietFinish
<1>3. CASE /\ HasNews(w)
           /\ told' = IF Told(w) > told THEN Told(w) ELSE told
           /\ tickets' = [tickets EXCEPT ![Told(w)] = @ + 1]
  <2> DEFINE n == Told(w)
  <2>1. /\ n \in 1 .. Count /\ tickets[n] = 0 /\ Count \in 0 .. MaxI64
        /\ told \in Nat /\ told <= Count /\ floor \in [Workers -> Nat]
        /\ tickets \in [1 .. MaxI64 -> Nat] /\ n \in 1 .. MaxI64
    <3>1. MaxI64 \in Int
      BY IntegerAssumption
    <3> QED
      BY <1>3, <3>1 DEF CInv, News, History
  <2>2. Count' = Count /\ floor' = [floor EXCEPT ![w] = 0]
    BY <1>1, FinishFacts DEF Count
  <2>3. /\ told' \in Nat /\ told <= told' /\ told' <= Count
        /\ tickets' \in [1 .. MaxI64 -> Nat]
        /\ tickets'[n] = 1 /\ \A m \in 1 .. MaxI64 : m # n => tickets'[m] = tickets[m]
    <3> HIDE DEF n
    <3>1. told' = (IF n > told THEN n ELSE told) /\ tickets' = [tickets EXCEPT ![n] = @ + 1]
      BY <1>3 DEF n
    <3> QED
      BY <2>1, <3>1
  <2>4. History'
    <3>1. \A m \in 1 .. MaxI64 : tickets'[m] <= 1 /\ (m > Count => tickets'[m] = 0)
      BY <2>1, <2>3 DEF CInv, History
    <3>2. floor' \in [Workers -> Nat] /\ \A v \in Workers : floor'[v] <= told'
      BY <2>1, <2>2, <2>3 DEF CInv, History
    <3> QED
      BY <2>2, <2>3, <3>1, <3>2 DEF History
  <2>5. ASSUME NEW v \in Workers, HasNews(v)'
        PROVE  v # w /\ HasNews(v) /\ Told(v)' = Told(v)
    BY <1>1, <2>5, FinishFacts, NewsIsKept
  <2>6. ASSUME NEW v \in Workers, HasNews(v)'
        PROVE  /\ Told(v)' \in 1 .. Count' /\ floor'[v] < Told(v)'
               /\ tickets'[Told(v)'] = 0
    <3>1. v # w /\ HasNews(v) /\ Told(v)' = Told(v)
      BY <2>5, <2>6
    <3>2. Told(v) # n
      BY <1>3, <3>1 DEF CInv, News
    <3>3. Told(v) \in 1 .. Count /\ floor[v] < Told(v) /\ tickets[Told(v)] = 0
      BY <3>1 DEF CInv, News
    <3>4. floor'[v] = floor[v]
      BY <2>1, <2>2, <3>1
    <3>5. tickets'[Told(v)] = 0
      <4>1. Told(v) \in 1 .. MaxI64
        BY <2>1, <3>3, IntegerAssumption
      <4> QED
        BY <2>3, <3>2, <3>3, <4>1
    <3> QED
      BY <2>2, <3>1, <3>3, <3>4, <3>5
  <2>7. News'
    BY <2>5, <2>6 DEF CInv, News
  <2> QED
    BY <2>1, <2>2, <2>4, <2>7 DEF CInv
<1> QED
  BY <1>2, <1>3 DEF Reply, HasNews

LEMMA NextCInv ==
  ASSUME IInv, CInv, [ProcessNext]_processVars
  PROVE  CInv'
<1>1. CASE UNCHANGED <<vars, history>>
  BY <1>1, UnchangedCInv DEF vars
<1>2. CASE Clock
  BY <1>2, UnchangedCInv DEF Clock, Tick
<1>3. ASSUME NEW w \in Workers, Begin(w) \/ Handle(w)
      PROVE  CInv'
  <2>1. CASE Begin(w) \/ Idle(w)
    BY <1>1, <2>1 DEF Begin, Idle
  <2>2. CASE ReplyFails(w)
    BY <2>2, QuietFinish DEF ReplyFails
  <2> QED
    BY <1>3, <2>1, <2>2, ExecuteCInv, CallCInv, ReplyCInv DEF Handle
<1>4. CASE Accept \/ \E c \in Conns : Client(c)
  BY <1>1, <1>4 DEF Accept, Client
<1>5. CASE UNCHANGED processVars
  BY <1>1, <1>5 DEF processVars
<1> QED
  BY <1>2, <1>3, <1>4, <1>5 DEF ProcessNext
-----------------------------------------------------------------------------
(* Each step of the process is one step of the keyspace, or none. *)
LEMMA KeyspaceStep == [ProcessNext]_processVars => [Next]_vars
<1> SUFFICES ASSUME [ProcessNext]_processVars PROVE [Next]_vars
  OBVIOUS
<1>1. ASSUME NEW w \in Workers, Finish(w)
      PROVE  [Next]_vars
  BY <1>1 DEF Finish, Next, Step
<1>2. ASSUME NEW w \in Workers, Begin(w) \/ Handle(w)
      PROVE  [Next]_vars
  BY <1>1, <1>2 DEF Begin, Handle, Execute, Call, Reply, ReplyFails, Idle, Next
<1>3. CASE Accept \/ Clock \/ \E c \in Conns : Client(c)
  BY <1>3 DEF Accept, Clock, Client, Next
<1>4. CASE UNCHANGED processVars
  BY <1>4 DEF processVars
<1> QED
  BY <1>2, <1>3, <1>4 DEF ProcessNext

(* Each step of the process is one step of the pool, or none. *)
LEMMA PoolStep == [ProcessNext]_processVars => [Net!Next]_(Net!vars)
<1> SUFFICES ASSUME [ProcessNext]_processVars PROVE [Net!Next]_(Net!vars)
  OBVIOUS
<1>1. UNCHANGED netVars => UNCHANGED Net!vars
  BY DEF netVars, Net!vars
<1>2. ASSUME NEW w \in Workers, Begin(w) \/ Handle(w)
      PROVE  [Net!Next]_(Net!vars)
  BY <1>1, <1>2 DEF Begin, Handle, Execute, Call, Reply, ReplyFails, Idle, Net!Next, Net!Handle
<1>3. CASE Accept \/ \E c \in Conns : Client(c)
  BY <1>3 DEF Accept, Client, Net!Next
<1>4. CASE Clock \/ UNCHANGED processVars
  BY <1>1, <1>4 DEF Clock, processVars
<1> QED
  BY <1>2, <1>3, <1>4 DEF ProcessNext

(* The keyspace behind the pool is the one of Storage: what is proved of    *)
(* Storage's Spec holds in the process, whatever clients and connections    *)
(* do.                                                                      *)
THEOREM ProcessKeyspace == ProcessSpec => Spec
<1>1. ProcessInit => Init
  BY DEF ProcessInit
<1> QED
  BY <1>1, KeyspaceStep, PTL DEF ProcessSpec, Spec

(* In the whole process each client still sees an atomic map that drops its *)
(* entries at their deadlines, with the answers that ExpiringMap allows for *)
(* a key that expires under a call.                                         *)
THEOREM ProcessIsAtomic ==
  ProcessSpec /\ lapsed = {} /\ [][Record]_hvars => ImplementsAtomicMap
<1>1. ProcessInit /\ lapsed = {} => HistoryInit
  BY DEF ProcessInit, HistoryInit
<1>2. [Next]_vars /\ [Record]_hvars /\ IInv /\ LapsedOK => [HistoryNext]_hvars
  <2> SUFFICES ASSUME [Next]_vars, [Record]_hvars, IInv, LapsedOK PROVE [HistoryNext]_hvars
    OBVIOUS
  <2>1. CASE Next /\ Record
    BY <2>1 DEF Next, Step, HistoryNext
  <2>2. CASE UNCHANGED vars /\ Record
    BY <2>2, IdleHistory DEF hvars
  <2>3. CASE UNCHANGED hvars
    BY <2>3
  <2> QED
    BY <2>1, <2>2, <2>3 DEF hvars
<1>3. [Next]_vars /\ [Record]_hvars /\ IInv /\ LapsedOK => LapsedOK'
  <2> SUFFICES ASSUME [Next]_vars, [Record]_hvars, IInv, LapsedOK PROVE LapsedOK'
    OBVIOUS
  <2>1. CASE Record
    BY <2>1, LapsedNext
  <2>2. CASE UNCHANGED hvars
    BY <2>2, LapsedStutter
  <2> QED
    BY <2>1, <2>2
<1>4. HistoryInit => LapsedOK
  BY LapsedInit
<1>5. ProcessSpec => [][Next]_vars /\ []IInv
  BY KeyspaceStep, ProcessKeyspace, IInvHolds, PTL DEF ProcessSpec
<1>6. ProcessSpec /\ lapsed = {} /\ [][Record]_hvars => HistorySpec
  BY <1>1, <1>2, <1>3, <1>4, <1>5, PTL DEF ProcessSpec, HistorySpec
<1> QED
  BY <1>6, Refinement

(* Calls of several steps that wait for each other's locks add no behaviour *)
(* of threads and connections to those of Server.                           *)
THEOREM ProcessPool == ProcessSpec => Net!Spec
<1>1. ProcessInit => Net!Init
  BY DEF ProcessInit
<1> QED
  BY <1>1, PoolStep, PTL DEF ProcessSpec, Net!Spec

LEMMA CInvHolds == ProcessSpec => []CInv
<1>1. ProcessInit => CInv
  BY InitCInv
<1>2. IInv /\ CInv /\ [ProcessNext]_processVars => CInv'
  BY NextCInv
<1>3. ProcessSpec => []IInv
  BY ProcessKeyspace, IInvHolds, PTL
<1> QED
  BY <1>1, <1>2, <1>3, PTL DEF ProcessSpec

(* No value of a counter is told twice, on however many connections,        *)
(* threads and shards, however many replies are lost.                       *)
THEOREM TicketsUnique == ProcessSpec => []TicketsAreUnique
<1>1. CInv => TicketsAreUnique
  BY DEF CInv, History, TicketsAreUnique
<1> QED
  BY <1>1, CInvHolds, PTL

(* A request that is decoded after some client was told a value of the      *)
(* counter gets a higher one.                                               *)
THEOREM RealTimeOrdered == ProcessSpec => []RealTimeOrder
<1>1. CInv => RealTimeOrder
  <2> SUFFICES ASSUME CInv, NEW w \in Workers, HasNews(w)
               PROVE  Told(w) > floor[w]
    BY DEF RealTimeOrder, HasNews
  <2>1. /\ Told(w) \in 1 .. Count /\ floor[w] < Told(w)
        /\ Count \in 0 .. MaxI64 /\ floor[w] \in Nat
    BY DEF CInv, News, History
  <2> QED
    BY <2>1
<1> QED
  BY <1>1, CInvHolds, PTL
=============================================================================

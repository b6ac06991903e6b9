---------------------------- MODULE ServerProofs ----------------------------
(***************************************************************************)
(* Proofs about Server for every number of connections and threads.        *)
(*                                                                         *)
(* InOnePlace is inductive as it stands.  OneReplyEach is not: when a      *)
(* client has closed its end its replies are no longer counted, and when   *)
(* it connects nothing may be left of an earlier life of the connection;   *)
(* NewIsUnused and NotAhead say so.                                        *)
(***************************************************************************)
EXTENDS Server, FiniteSetTheorems, TLAPS

Busy(c) == \E w \in Workers : job[w] = c /\ reply[w] # "none"

(* OneReplyEach without the cardinality. *)
Counted ==
  \A c \in Conns :
    Open(c) /\ client[c] # "gone" =>
      owed[c] = Len(inbox[c]) + (IF Busy(c) THEN 1 ELSE 0) + unread[c]

NewIsUnused ==
  \A c \in Conns : conn[c] = "new" => inbox[c] = <<>> /\ unread[c] = 0 /\ owed[c] = 0

NotAhead ==
  \A c \in Conns : client[c] # "gone" => unread[c] <= owed[c]

IInv == TypeOK /\ InOnePlace /\ Counted /\ NewIsUnused /\ NotAhead
-----------------------------------------------------------------------------
(* A connection with one thread has at most one reply in hand. *)
LEMMA Hands ==
  ASSUME NEW c, \A v, w \in Workers : job[v] = c /\ job[w] = c => v = w
  PROVE  InHand(c) = IF Busy(c) THEN 1 ELSE 0
  <1> DEFINE S == {w \in Served(c) : reply[w] # "none"}
  <1>1. CASE Busy(c)
    <2>1. PICK w \in Workers : job[w] = c /\ reply[w] # "none"
      BY <1>1 DEF Busy
    <2>2. S = {w}
      BY <2>1 DEF Served
    <2>3. Cardinality(S) = 1
      BY <2>2, FS_Singleton
    <2> QED
      BY <1>1, <2>3 DEF InHand
  <1>2. CASE ~Busy(c)
    <2>1. S = {}
      BY <1>2 DEF Served, Busy
    <2>2. Cardinality(S) = 0
      BY <2>1, FS_EmptySet
    <2> QED
      BY <1>2, <2>2 DEF InHand
  <1> QED
    BY <1>1, <1>2

LEMMA InitIInv == Init => IInv
  <1> SUFFICES ASSUME Init PROVE IInv
    OBVIOUS
  <1> USE ServerAssumption DEF Init
  <1>1. TypeOK
    BY DEF TypeOK, Kinds
  <1>2. InOnePlace
    BY DEF InOnePlace, Served
  <1>3. Counted /\ NewIsUnused /\ NotAhead
    BY DEF Counted, NewIsUnused, NotAhead, Open
  <1> QED
    BY <1>1, <1>2, <1>3 DEF IInv
-----------------------------------------------------------------------------
(* The steps of the clients: the pool does not change. *)
LEMMA ConnectIInv ==
  ASSUME IInv, NEW c \in Conns, Connect(c)
  PROVE  IInv'
  <1> USE DEF IInv, Connect
  <1>1. TypeOK'
    BY DEF TypeOK
  <1>2. InOnePlace'
    BY DEF InOnePlace, Served, TypeOK
  <1>3. Counted'
    <2> SUFFICES ASSUME NEW d \in Conns, Open(d)', client'[d] # "gone"
                 PROVE  owed'[d] = Len(inbox'[d]) + (IF Busy(d)' THEN 1 ELSE 0) + unread'[d]
      BY DEF Counted
    <2>1. CASE d = c
      <3>1. ~Busy(c)
        BY DEF Busy, InOnePlace, Served, TypeOK
      <3> QED
        BY <2>1, <3>1 DEF Busy, NewIsUnused, TypeOK
    <2>2. CASE d # c
      BY <2>2 DEF Counted, Busy, Open, TypeOK
    <2> QED
      BY <2>1, <2>2
  <1>4. NewIsUnused' /\ NotAhead'
    BY DEF NewIsUnused, NotAhead, TypeOK
  <1> QED
    BY <1>1, <1>2, <1>3, <1>4

LEMMA SendIInv ==
  ASSUME IInv, NEW c \in Conns, Send(c)
  PROVE  IInv'
  <1> USE DEF IInv, Send
  <1>0. PICK k \in Kinds : inbox' = [inbox EXCEPT ![c] = Append(@, k)]
    OBVIOUS
  <1>a. Len(inbox'[c]) = Len(inbox[c]) + 1 /\ inbox'[c] \in Seq(Kinds)
    BY <1>0 DEF TypeOK
  <1>1. TypeOK'
    BY <1>0, <1>a DEF TypeOK
  <1>2. InOnePlace'
    BY DEF InOnePlace, Served
  <1>3. Counted'
    <2> SUFFICES ASSUME NEW d \in Conns, Open(d)', client'[d] # "gone"
                 PROVE  owed'[d] = Len(inbox'[d]) + (IF Busy(d)' THEN 1 ELSE 0) + unread'[d]
      BY DEF Counted
    <2>0. owed[d] = Len(inbox[d]) + (IF Busy(d) THEN 1 ELSE 0) + unread[d]
      BY DEF Counted, Open
    <2>1. Busy(d)' <=> Busy(d)
      BY DEF Busy
    <2>2. CASE d = c
      <3>1. /\ Len(inbox[d]) \in Nat /\ unread[d] \in Nat
            /\ Len(inbox'[d]) = Len(inbox[d]) + 1
            /\ owed'[d] = owed[d] + 1 /\ unread'[d] = unread[d]
        BY <1>a, <2>2 DEF TypeOK
      <3> HIDE DEF IInv, Send
      <3> QED
        <4> DEFINE b == IF Busy(d) THEN 1 ELSE 0
        <4>2. b \in Nat /\ owed[d] = Len(inbox[d]) + b + unread[d]
          BY <2>0
        <4>3. (IF Busy(d)' THEN 1 ELSE 0) = b
          BY <2>1
        <4> HIDE DEF b
        <4>4. owed'[d] = Len(inbox'[d]) + b + unread'[d]
          BY <3>1, <4>2
        <4> QED
          BY <4>3, <4>4
    <2>3. CASE d # c
      BY <1>0, <2>0, <2>1, <2>3 DEF TypeOK
    <2> QED
      BY <2>2, <2>3
  <1>4. NewIsUnused' /\ NotAhead'
    BY <1>0 DEF NewIsUnused, NotAhead, TypeOK, Open
  <1> QED
    BY <1>1, <1>2, <1>3, <1>4

LEMMA ReceiveIInv ==
  ASSUME IInv, NEW c \in Conns, Receive(c)
  PROVE  IInv'
  <1> USE DEF IInv, Receive
  <1>1. TypeOK'
    <2>1. Window \in Nat /\ unread[c] \in 1 .. Window /\ owed[c] \in Nat /\ unread[c] <= owed[c]
      BY ServerAssumption DEF TypeOK, NotAhead
    <2>2. unread[c] - 1 \in 0 .. Window /\ owed[c] - 1 \in Nat
      BY <2>1
    <2> QED
      BY <2>2 DEF TypeOK
  <1>2. InOnePlace'
    BY DEF InOnePlace, Served
  <1>3. Counted'
    <2> SUFFICES ASSUME NEW d \in Conns, Open(d)', client'[d] # "gone"
                 PROVE  owed'[d] = Len(inbox'[d]) + (IF Busy(d)' THEN 1 ELSE 0) + unread'[d]
      BY DEF Counted
    <2>0. owed[d] = Len(inbox[d]) + (IF Busy(d) THEN 1 ELSE 0) + unread[d]
      BY DEF Counted, Open
    <2>1. Busy(d)' <=> Busy(d)
      BY DEF Busy
    <2>a. Len(inbox[d]) \in Nat
      BY DEF TypeOK
    <2> QED
      BY <2>0, <2>1, <2>a DEF TypeOK
  <1>4. NewIsUnused' /\ NotAhead'
    BY DEF NewIsUnused, NotAhead, TypeOK
  <1> QED
    BY <1>1, <1>2, <1>3, <1>4

LEMMA LeaveIInv ==
  ASSUME IInv, NEW c \in Conns, Leave(c)
  PROVE  IInv'
  <1> USE DEF IInv, Leave
  <1>1. TypeOK'
    BY DEF TypeOK
  <1>2. InOnePlace'
    BY DEF InOnePlace, Served
  <1>3. Counted'
    BY DEF Counted, Busy, Open, TypeOK
  <1>4. NewIsUnused' /\ NotAhead'
    BY DEF NewIsUnused, NotAhead, TypeOK
  <1> QED
    BY <1>1, <1>2, <1>3, <1>4
-----------------------------------------------------------------------------
(* The steps of the pool. *)
LEMMA AcceptIInv ==
  ASSUME IInv, Accept
  PROVE  IInv'
  <1> USE DEF IInv, Accept
  <1>0. PICK c \in Conns : /\ conn[c] = "backlog"
                           /\ conn' = [conn EXCEPT ![c] = "queued"]
                           /\ queue' = Append(queue, c)
    OBVIOUS
  <1>a. /\ queue \in Seq(Conns) /\ Len(queue) \in Nat
        /\ DOMAIN queue = 1 .. Len(queue)
        /\ DOMAIN queue' = 1 .. Len(queue) + 1
        /\ queue'[Len(queue) + 1] = c
        /\ \A i \in 1 .. Len(queue) : queue'[i] = queue[i] /\ queue[i] # c
    <2>1. queue \in Seq(Conns) /\ c \in Conns /\ conn[c] # "queued"
      BY <1>0 DEF TypeOK
    <2>2. \A i \in DOMAIN queue : queue[i] # c
      BY <2>1 DEF InOnePlace
    <2> HIDE DEF IInv, Accept
    <2> QED
      BY <1>0, <2>1, <2>2
  <1>1. TypeOK'
    BY <1>0 DEF TypeOK
  <1>2. InOnePlace'
    <2>1. \A i, j \in DOMAIN queue' : queue'[i] = queue'[j] => i = j
      <3>1. \A i, j \in 1 .. Len(queue) : queue[i] = queue[j] => i = j
        BY <1>a DEF InOnePlace
      <3> HIDE DEF IInv, Accept
      <3> TAKE i, j \in DOMAIN queue'
      <3>2. CASE i \in 1 .. Len(queue) /\ j \in 1 .. Len(queue)
        BY <1>a, <3>1, <3>2
      <3>3. CASE i = Len(queue) + 1 \/ j = Len(queue) + 1
        BY <1>a, <3>3
      <3> QED
        BY <1>a, <3>2, <3>3
    <2>2. \A d \in Conns : conn'[d] = "queued" <=> \E i \in DOMAIN queue' : queue'[i] = d
      <3> TAKE d \in Conns
      <3>1. CASE d = c
        <4>1. conn'[d] = "queued"
          BY <1>0, <3>1 DEF TypeOK
        <4>2. Len(queue) + 1 \in DOMAIN queue' /\ queue'[Len(queue) + 1] = d
          BY <1>a, <3>1
        <4> QED
          BY <4>1, <4>2
      <3>2. CASE d # c
        BY <1>0, <1>a, <3>2 DEF TypeOK, InOnePlace
      <3> QED
        BY <3>1, <3>2
    <2>3. \A d \in Conns : conn'[d] = "served" <=> Served(d)' # {}
      BY <1>0 DEF TypeOK, InOnePlace, Served
    <2> QED
      BY <2>1, <2>2, <2>3 DEF InOnePlace
  <1>3. Counted'
    BY <1>0 DEF Counted, Busy, Open, TypeOK
  <1>4. NewIsUnused' /\ NotAhead'
    BY <1>0 DEF NewIsUnused, NotAhead, TypeOK
  <1> QED
    BY <1>1, <1>2, <1>3, <1>4

(* What is left of the queue when its first job is taken. *)
LEMMA QueueTail ==
  ASSUME IInv, queue # <<>>
  PROVE  /\ Head(queue) \in Conns /\ conn[Head(queue)] = "queued"
         /\ Tail(queue) \in Seq(Conns)
         /\ \A i, j \in DOMAIN Tail(queue) : Tail(queue)[i] = Tail(queue)[j] => i = j
         /\ \A d \in Conns : (\E i \in DOMAIN Tail(queue) : Tail(queue)[i] = d)
                               <=> conn[d] = "queued" /\ d # Head(queue)
  <1> USE DEF IInv
  <1>1. /\ queue \in Seq(Conns) /\ Len(queue) \in Nat /\ Len(queue) >= 1
        /\ DOMAIN queue = 1 .. Len(queue)
        /\ Head(queue) = queue[1] /\ Head(queue) \in Conns
        /\ Tail(queue) \in Seq(Conns)
        /\ DOMAIN Tail(queue) = 1 .. Len(queue) - 1
        /\ \A i \in 1 .. Len(queue) - 1 : Tail(queue)[i] = queue[i + 1]
    BY DEF TypeOK
  <1>2. conn[Head(queue)] = "queued"
    BY <1>1 DEF InOnePlace
  <1>3. \A i, j \in DOMAIN Tail(queue) : Tail(queue)[i] = Tail(queue)[j] => i = j
    BY <1>1 DEF InOnePlace
  <1>4. ASSUME NEW d \in Conns
        PROVE  (\E i \in DOMAIN Tail(queue) : Tail(queue)[i] = d)
                 <=> conn[d] = "queued" /\ d # Head(queue)
    <2>1. ASSUME NEW i \in DOMAIN Tail(queue), Tail(queue)[i] = d
          PROVE  conn[d] = "queued" /\ d # Head(queue)
      <3>1. i + 1 \in DOMAIN queue /\ queue[i + 1] = d /\ 1 \in DOMAIN queue /\ i + 1 # 1
        BY <1>1, <2>1
      <3> QED
        BY <1>1, <3>1 DEF InOnePlace
    <2>2. ASSUME conn[d] = "queued", d # Head(queue)
          PROVE  \E i \in DOMAIN Tail(queue) : Tail(queue)[i] = d
      <3>1. PICK j \in DOMAIN queue : queue[j] = d
        BY <2>2 DEF InOnePlace
      <3>2. j # 1
        BY <1>1, <2>2, <3>1
      <3>3. j - 1 \in DOMAIN Tail(queue) /\ Tail(queue)[j - 1] = d
        BY <1>1, <3>1, <3>2
      <3> QED
        BY <3>3
    <2> QED
      BY <2>1, <2>2
  <1> QED
    BY <1>1, <1>2, <1>3, <1>4

LEMMA TakeIInv ==
  ASSUME IInv, NEW w \in Workers, Take(w)
  PROVE  IInv'
  <1> DEFINE c == Head(queue)
  <1>0. /\ c \in Conns /\ conn[c] = "queued"
        /\ job' = [job EXCEPT ![w] = c] /\ conn' = [conn EXCEPT ![c] = "served"]
        /\ job[w] = None /\ None \notin Conns
        /\ \A v \in Workers : job[v] # c
    <2>1. c \in Conns /\ conn[c] = "queued"
      BY QueueTail DEF Take
    <2>2. Served(c) = {}
      BY <2>1 DEF IInv, InOnePlace
    <2> QED
      BY <2>1, <2>2, ServerAssumption DEF Take, Served
  <1>t. /\ queue' \in Seq(Conns)
        /\ \A i, j \in DOMAIN queue' : queue'[i] = queue'[j] => i = j
        /\ \A d \in Conns : (\E i \in DOMAIN queue' : queue'[i] = d)
                              <=> conn[d] = "queued" /\ d # c
    BY QueueTail DEF Take
  <1> HIDE DEF c
  <1> USE DEF IInv, Take
  <1>1. TypeOK'
    <2>1. job' \in [Workers -> Conns \cup {None}] /\ inbox' \in [Conns -> Seq(Kinds)]
      BY <1>0 DEF TypeOK
    <2>2. conn' \in [Conns -> {"new", "backlog", "queued", "served", "closed"}]
      BY <1>0 DEF TypeOK
    <2> QED
      BY <1>t, <2>1, <2>2 DEF TypeOK
  <1>2. InOnePlace'
    <2>1. \A d \in Conns : conn'[d] = "queued" <=> \E i \in DOMAIN queue' : queue'[i] = d
      <3>1. \A d \in Conns : conn'[d] = "queued" <=> conn[d] = "queued" /\ d # c
        BY <1>0 DEF TypeOK
      <3> QED
        BY <1>t, <3>1, Zenon
    <2>2. ASSUME NEW d \in Conns
          PROVE  conn'[d] = "served" <=> Served(d)' # {}
      <3>1. CASE d = c
        <4>1. w \in Served(d)'
          BY <1>0, <3>1 DEF Served, TypeOK
        <4> QED
          BY <1>0, <3>1, <4>1 DEF TypeOK
      <3>2. CASE d # c
        <4>1. Served(d)' = Served(d)
          BY <1>0, <3>2 DEF Served, TypeOK
        <4>2. conn'[d] = conn[d]
          BY <1>0, <3>2 DEF TypeOK
        <4>3. conn[d] = "served" <=> Served(d) # {}
          BY DEF InOnePlace
        <4> QED
          BY <4>1, <4>2, <4>3, Zenon
      <3> QED
        BY <3>1, <3>2
    <2>3. \A v, u \in Workers : job'[v] = job'[u] /\ job'[v] # None => v = u
      BY <1>0 DEF TypeOK, InOnePlace
    <2>4. \A v \in Workers : job'[v] = None => reply'[v] = "none"
      BY <1>0 DEF TypeOK, InOnePlace
    <2> QED
      BY <1>t, <2>1, <2>2, <2>3, <2>4 DEF InOnePlace
  <1>3. Counted'
    <2> SUFFICES ASSUME NEW d \in Conns, Open(d)', client'[d] # "gone"
                 PROVE  owed'[d] = Len(inbox'[d]) + (IF Busy(d)' THEN 1 ELSE 0) + unread'[d]
      BY DEF Counted
    <2>1. Open(d)
      BY <1>0 DEF Open, TypeOK
    <2>2. Busy(d)' <=> Busy(d)
      <3>1. reply[w] = "none"
        BY <1>0 DEF InOnePlace
      <3> QED
        BY <1>0, <3>1 DEF Busy, TypeOK
    <2> QED
      BY <2>1, <2>2 DEF Counted
  <1>4. NewIsUnused' /\ NotAhead'
    BY <1>0 DEF NewIsUnused, NotAhead, TypeOK
  <1> QED
    BY <1>1, <1>2, <1>3, <1>4

LEMMA SetupFailsIInv ==
  ASSUME IInv, NEW w \in Workers, SetupFails(w)
  PROVE  IInv'
  <1> DEFINE c == Head(queue)
  <1>0. /\ c \in Conns /\ conn[c] = "queued"
        /\ conn' = [conn EXCEPT ![c] = "closed"] /\ inbox' = [inbox EXCEPT ![c] = <<>>]
    BY QueueTail DEF SetupFails
  <1>t. /\ queue' \in Seq(Conns)
        /\ \A i, j \in DOMAIN queue' : queue'[i] = queue'[j] => i = j
        /\ \A d \in Conns : (\E i \in DOMAIN queue' : queue'[i] = d)
                              <=> conn[d] = "queued" /\ d # c
    BY QueueTail DEF SetupFails
  <1> HIDE DEF c
  <1> USE DEF IInv, SetupFails
  <1>1. TypeOK'
    <2>1. job' \in [Workers -> Conns \cup {None}] /\ inbox' \in [Conns -> Seq(Kinds)]
      BY <1>0 DEF TypeOK
    <2>2. conn' \in [Conns -> {"new", "backlog", "queued", "served", "closed"}]
      BY <1>0 DEF TypeOK
    <2> QED
      BY <1>t, <2>1, <2>2 DEF TypeOK
  <1>2. InOnePlace'
    <2>1. \A d \in Conns : conn'[d] = "queued" <=> \E i \in DOMAIN queue' : queue'[i] = d
      <3>1. \A d \in Conns : conn'[d] = "queued" <=> conn[d] = "queued" /\ d # c
        BY <1>0 DEF TypeOK
      <3> QED
        BY <1>t, <3>1, Zenon
    <2>2. \A d \in Conns : conn'[d] = "served" <=> Served(d)' # {}
      BY <1>0 DEF TypeOK, InOnePlace, Served
    <2> QED
      BY <1>t, <2>1, <2>2 DEF InOnePlace
  <1>3. Counted'
    <2> SUFFICES ASSUME NEW d \in Conns, Open(d)', client'[d] # "gone"
                 PROVE  owed'[d] = Len(inbox'[d]) + (IF Busy(d)' THEN 1 ELSE 0) + unread'[d]
      BY DEF Counted
    <2>1. Open(d) /\ d # c /\ inbox'[d] = inbox[d]
      BY <1>0 DEF Open, TypeOK
    <2>2. Busy(d)' <=> Busy(d)
      BY DEF Busy
    <2> QED
      BY <2>1, <2>2 DEF Counted
  <1>4. NewIsUnused' /\ NotAhead'
    BY <1>0 DEF NewIsUnused, NotAhead, TypeOK
  <1> QED
    BY <1>1, <1>2, <1>3, <1>4
-----------------------------------------------------------------------------
(* The steps of a thread that serves a connection. *)
LEMMA ServesFacts ==
  ASSUME IInv, NEW w \in Workers, job[w] # None
  PROVE  /\ job[w] \in Conns /\ conn[job[w]] = "served" /\ Open(job[w])
         /\ \A v \in Workers : job[v] = job[w] => v = w
  <1>1. job[w] \in Conns
    BY DEF IInv, TypeOK
  <1>2. w \in Served(job[w])
    BY DEF Served
  <1> QED
    BY <1>1, <1>2 DEF IInv, InOnePlace, Open

(* A request is taken from the inbox into the hands of the thread. *)
LEMMA ReadIInv ==
  ASSUME IInv, NEW w \in Workers, Read(w)
  PROVE  IInv'
  <1> DEFINE c == job[w]
  <1>0. /\ c \in Conns /\ c # None /\ \A v \in Workers : job[v] = c => v = w
        /\ reply[w] = "none"
    BY ServesFacts DEF Read, Reading
  <1>a. PICK r \in {"last", "more"} : reply' = [reply EXCEPT ![w] = r]
    BY DEF Read
  <1>b. /\ inbox' = [inbox EXCEPT ![c] = Tail(@)]
        /\ Len(inbox[c]) \in Nat /\ Len(inbox[c]) >= 1
        /\ Tail(inbox[c]) \in Seq(Kinds) /\ Len(Tail(inbox[c])) = Len(inbox[c]) - 1
    BY <1>0 DEF Read, IInv, TypeOK
  <1> HIDE DEF c
  <1>c. UNCHANGED <<env, pool, conn, queue, job, unread, client, owed>> /\ c = job[w]
    BY DEF Read, c
  <1> USE DEF IInv
  <1>1. TypeOK'
    BY <1>0, <1>a, <1>b, <1>c DEF TypeOK
  <1>2. InOnePlace'
    BY <1>0, <1>a, <1>c DEF InOnePlace, Served, TypeOK
  <1>3. Counted'
    <2> SUFFICES ASSUME NEW d \in Conns, Open(d)', client'[d] # "gone"
                 PROVE  owed'[d] = Len(inbox'[d]) + (IF Busy(d)' THEN 1 ELSE 0) + unread'[d]
      BY DEF Counted
    <2>0. owed[d] = Len(inbox[d]) + (IF Busy(d) THEN 1 ELSE 0) + unread[d]
      BY <1>c DEF Counted, Open
    <2>1. CASE d = c
      <3>1. ~Busy(d)
        BY <1>0, <2>1 DEF Busy
      <3>2. Busy(d)'
        BY <1>a, <1>c, <2>1 DEF Busy, TypeOK
      <3>3. inbox'[d] = Tail(inbox[c]) /\ unread[d] \in Nat
        BY <1>b, <2>1 DEF TypeOK
      <3> QED
        <4> HIDE DEF IInv
        <4>1. Len(inbox'[d]) = Len(inbox[d]) - 1 /\ Len(inbox[d]) \in Nat
          BY <1>b, <2>1, <3>3
        <4>2. owed[d] = Len(inbox[d]) + unread[d]
          BY <2>0, <3>1, <3>3, <4>1
        <4>3. owed'[d] = Len(inbox'[d]) + 1 + unread'[d]
          BY <1>c, <3>3, <4>1, <4>2
        <4> QED
          BY <3>2, <4>3
    <2>2. CASE d # c
      <3>1. Busy(d)' <=> Busy(d)
        BY <1>a, <1>c, <2>2 DEF Busy, TypeOK
      <3> QED
        BY <1>b, <1>c, <2>0, <2>2, <3>1 DEF TypeOK
    <2> QED
      BY <2>1, <2>2
  <1>4. NewIsUnused' /\ NotAhead'
    <2>1. conn[c] = "served"
      BY <1>0, <1>c, ServesFacts
    <2> QED
      BY <1>0, <1>b, <1>c, <2>1 DEF NewIsUnused, NotAhead, TypeOK
  <1> QED
    BY <1>1, <1>2, <1>3, <1>4

(* A connection ends.  The replies in its socket are those it is owed, one  *)
(* more than before if the last one has been written.                       *)
LEMMA EndIInv ==
  ASSUME IInv, NEW w \in Workers, job[w] # None, End(w),
         UNCHANGED <<env, pool, queue, client, owed>>,
         unread' \in [Conns -> 0 .. Window],
         \A d \in Conns : d # job[w] => unread'[d] = unread[d],
         client[job[w]] # "gone" => unread'[job[w]] <= owed[job[w]]
  PROVE  IInv'
  <1> DEFINE c == job[w]
  <1>0. /\ c \in Conns /\ c # None /\ conn[c] = "served"
        /\ \A v \in Workers : job[v] = c => v = w
    BY ServesFacts
  <1>a. /\ conn' = [conn EXCEPT ![c] = "closed"] /\ inbox' = [inbox EXCEPT ![c] = <<>>]
        /\ job' = [job EXCEPT ![w] = None] /\ reply' = [reply EXCEPT ![w] = "none"]
        /\ None \notin Conns /\ c = job[w]
    BY ServerAssumption DEF End
  <1> HIDE DEF c
  <1> USE DEF IInv
  <1>1. TypeOK'
    BY <1>0, <1>a DEF TypeOK
  <1>2. InOnePlace'
    <2>1. \A d \in Conns : conn'[d] = "queued" <=> \E i \in DOMAIN queue' : queue'[i] = d
      BY <1>0, <1>a DEF InOnePlace, TypeOK
    <2>2. ASSUME NEW d \in Conns
          PROVE  conn'[d] = "served" <=> Served(d)' # {}
      <3>1. CASE d = c
        <4>1. Served(d)' = {}
          BY <1>0, <1>a, <3>1 DEF Served, TypeOK
        <4> QED
          BY <1>0, <1>a, <3>1, <4>1 DEF TypeOK
      <3>2. CASE d # c
        <4>1. Served(d)' = Served(d)
          BY <1>0, <1>a, <3>2 DEF Served, TypeOK
        <4> QED
          BY <1>0, <1>a, <3>2, <4>1 DEF TypeOK, InOnePlace
      <3> QED
        BY <3>1, <3>2
    <2>3. \A v, u \in Workers : job'[v] = job'[u] /\ job'[v] # None => v = u
      BY <1>0, <1>a DEF TypeOK, InOnePlace
    <2>4. \A v \in Workers : job'[v] = None => reply'[v] = "none"
      BY <1>0, <1>a DEF TypeOK, InOnePlace
    <2>5. \A i, j \in DOMAIN queue' : queue'[i] = queue'[j] => i = j
      BY DEF InOnePlace
    <2> QED
      BY <2>1, <2>2, <2>3, <2>4, <2>5 DEF InOnePlace
  <1>3. Counted'
    <2> SUFFICES ASSUME NEW d \in Conns, Open(d)', client'[d] # "gone"
                 PROVE  owed'[d] = Len(inbox'[d]) + (IF Busy(d)' THEN 1 ELSE 0) + unread'[d]
      BY DEF Counted
    <2>1. Open(d) /\ d # c /\ inbox'[d] = inbox[d] /\ unread'[d] = unread[d]
      BY <1>0, <1>a DEF Open, TypeOK
    <2>2. Busy(d)' <=> Busy(d)
      BY <1>0, <1>a, <2>1 DEF Busy, TypeOK
    <2> QED
      BY <2>1, <2>2 DEF Counted
  <1>4. NewIsUnused' /\ NotAhead'
    BY <1>0, <1>a DEF NewIsUnused, NotAhead, TypeOK
  <1> QED
    BY <1>1, <1>2, <1>3, <1>4

LEMMA EndsIInv ==
  ASSUME IInv, NEW w \in Workers, ReadTimeout(w) \/ ReadEof(w) \/ WriteFails(w)
  PROVE  IInv'
  <1>1. /\ job[w] # None /\ End(w)
        /\ UNCHANGED <<env, pool, queue, unread, client, owed>>
    BY DEF ReadTimeout, ReadEof, WriteFails, Reading, Writing
  <1>2. unread' \in [Conns -> 0 .. Window] /\ job[w] \in Conns
    BY <1>1, ServesFacts DEF IInv, TypeOK
  <1>3. client[job[w]] # "gone" => unread'[job[w]] <= owed[job[w]]
    BY <1>1, <1>2 DEF IInv, NotAhead
  <1> QED
    BY <1>1, <1>2, <1>3, EndIInv

(* A reply goes from the hands of the thread into the socket. *)
LEMMA FlushIInv ==
  ASSUME IInv, NEW w \in Workers, Flush(w)
  PROVE  IInv'
  <1> DEFINE c == job[w]
  <1>0. /\ c \in Conns /\ c # None /\ Open(c) /\ conn[c] = "served"
        /\ \A v \in Workers : job[v] = c => v = w
        /\ reply[w] # "none"
    BY ServesFacts DEF Flush, Writing
  <1>a. UNCHANGED <<env, pool, queue, client, owed>> /\ c = job[w]
    BY DEF Flush
  <1>b. \/ client[c] = "gone" /\ unread' = unread
        \/ /\ client[c] # "gone" /\ unread[c] < Window
           /\ unread' = [unread EXCEPT ![c] = @ + 1]
    BY DEF Flush
  <1>c. \/ reply[w] = "last" /\ End(w)
        \/ /\ reply' = [reply EXCEPT ![w] = "none"]
           /\ UNCHANGED <<conn, job, inbox>>
    BY DEF Flush
  <1> HIDE DEF c
  <1>d. /\ unread' \in [Conns -> 0 .. Window]
        /\ \A d \in Conns : d # c => unread'[d] = unread[d]
    <2>1. unread \in [Conns -> 0 .. Window] /\ Window \in Nat
      BY ServerAssumption DEF IInv, TypeOK
    <2> QED
      BY <1>0, <1>b, <2>1
  <1>e. client[c] # "gone" =>
          /\ unread'[c] = unread[c] + 1
          /\ unread[c] \in Nat /\ Len(inbox[c]) \in Nat
          /\ owed[c] = Len(inbox[c]) + 1 + unread[c]
    <2>1. Busy(c)
      BY <1>0, <1>a DEF Busy
    <2> QED
      BY <1>0, <1>b, <2>1 DEF IInv, Counted, TypeOK
  <1>f. client[c] # "gone" => unread'[c] <= owed[c]
    BY <1>e
  <1>1. CASE End(w)
    BY <1>0, <1>a, <1>d, <1>f, <1>1, EndIInv
  <1>2. CASE reply' = [reply EXCEPT ![w] = "none"] /\ UNCHANGED <<conn, job, inbox>>
    <2> USE DEF IInv
    <2>1. TypeOK'
      BY <1>a, <1>d, <1>2 DEF TypeOK
    <2>2. InOnePlace'
      BY <1>a, <1>2 DEF InOnePlace, Served, TypeOK
    <2>3. Counted'
      <3> SUFFICES ASSUME NEW d \in Conns, Open(d)', client'[d] # "gone"
                   PROVE  owed'[d] = Len(inbox'[d]) + (IF Busy(d)' THEN 1 ELSE 0) + unread'[d]
        BY DEF Counted
      <3>1. CASE d = c
        <4>1. ~Busy(d)'
          BY <1>0, <1>a, <1>2, <3>1 DEF Busy, TypeOK
        <4> QED
          BY <1>a, <1>e, <1>2, <3>1, <4>1
      <3>2. CASE d # c
        <4>1. Busy(d)' <=> Busy(d)
          BY <1>0, <1>a, <1>2, <3>2 DEF Busy, TypeOK
        <4> QED
          BY <1>a, <1>d, <1>2, <3>2, <4>1 DEF Counted, Open
      <3> QED
        BY <3>1, <3>2
    <2>4. NewIsUnused'
      BY <1>0, <1>a, <1>d, <1>2 DEF NewIsUnused, TypeOK
    <2>5. NotAhead'
      BY <1>0, <1>a, <1>d, <1>f DEF NotAhead, TypeOK
    <2> QED
      BY <2>1, <2>2, <2>3, <2>4, <2>5
  <1> QED
    BY <1>c, <1>1, <1>2
-----------------------------------------------------------------------------
LEMMA IInvHolds == Spec => []IInv
  <1>1. IInv /\ [Next]_vars => IInv'
    <2> SUFFICES ASSUME IInv, [Next]_vars PROVE IInv'
      OBVIOUS
    <2>1. CASE UNCHANGED vars
      BY <2>1 DEF vars, IInv, TypeOK, InOnePlace, Served, Counted, Busy, Open,
                  NewIsUnused, NotAhead
    <2>2. CASE Accept
      BY <2>2, AcceptIInv
    <2>3. CASE \E c \in Conns : Connect(c) \/ Send(c) \/ Receive(c) \/ Leave(c)
      BY <2>3, ConnectIInv, SendIInv, ReceiveIInv, LeaveIInv
    <2>4. CASE \E w \in Workers : Take(w) \/ SetupFails(w) \/ Handle(w)
      <3>1. PICK w \in Workers : Take(w) \/ SetupFails(w) \/ Handle(w)
        BY <2>4
      <3> QED
        BY <3>1, TakeIInv, SetupFailsIInv, ReadIInv, EndsIInv, FlushIInv DEF Handle
    <2> QED
      BY <2>1, <2>2, <2>3, <2>4 DEF Next
  <1> QED
    BY InitIInv, <1>1, PTL DEF Spec

(* The state of the server is well-formed, for any number of connections    *)
(* and threads and any size of sockets.                                     *)
THEOREM TypeCorrect == Spec => []TypeOK
  <1>1. IInv => TypeOK
    BY DEF IInv
  <1> QED
    BY IInvHolds, <1>1, PTL

(* The pool neither loses a connection nor gives it to two threads          *)
(* (Server::serve and ThreadPool::execute).                                 *)
THEOREM AlwaysInOnePlace == Spec => []InOnePlace
  <1>1. IInv => InOnePlace
    BY DEF IInv
  <1> QED
    BY IInvHolds, <1>1, PTL

(* What CONFIG GET parses for itself is what Config::from_env has made the  *)
(* pool of, in every environment but one.                                   *)
THEOREM AlwaysReportsItsThreads == Spec => []ReportsItsThreads
  <1>1. TypeOK => ReportsItsThreads
    <2> SUFFICES ASSUME TypeOK, env.RALPHDB_THREADS # 0
                 PROVE  ReportedThreads(env) = Threads(env)
      BY DEF TypeOK, ReportsItsThreads
    <2>1. env.RALPHDB_THREADS \in Int \cup {None} /\ CPUs \in Nat \ {0} /\ None \notin Int
      BY ConfigAssumption DEF TypeOK
    <2> QED
      BY <2>1 DEF ReportedThreads, Threads, Usize, AtLeast
  <1> QED
    BY TypeCorrect, <1>1, PTL

(* No request goes without a reply and none has two, however they are       *)
(* pipelined (the loop of Server::handle_connection).                       *)
THEOREM AlwaysOneReplyEach == Spec => []OneReplyEach
  <1>1. IInv => OneReplyEach
    <2> SUFFICES ASSUME IInv, NEW c \in Conns, Open(c), client[c] # "gone"
                 PROVE  owed[c] = Len(inbox[c]) + InHand(c) + unread[c]
      BY DEF OneReplyEach
    <2>1. c # None
      BY ServerAssumption
    <2>2. \A v, w \in Workers : job[v] = c /\ job[w] = c => v = w
      BY <2>1 DEF IInv, InOnePlace
    <2>3. InHand(c) = IF Busy(c) THEN 1 ELSE 0
      BY <2>2, Hands
    <2> QED
      BY <2>3 DEF IInv, Counted
  <1> QED
    BY IInvHolds, <1>1, PTL
=============================================================================

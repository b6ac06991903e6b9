------------------------------- MODULE Server -------------------------------
(***************************************************************************)
(* The listener, the thread pool and the connections of ralphdb            *)
(* (src/src/server/mod.rs).                                                *)
(*                                                                         *)
(* The main thread accepts connections and gives each of them to the pool  *)
(* as one job; a pool thread runs the job until the connection ends, so a  *)
(* connection has a thread of its own for as long as it lasts, and an      *)
(* accepted connection waits in the pool's queue until a thread is free.   *)
(* The idle timeout is set on the socket by the job, not by the listener.  *)
(*                                                                         *)
(* What a request says is left to other modules: here it has one reply and *)
(* may be the QUIT that ends the connection.                               *)
(***************************************************************************)
EXTENDS Config, Sequences, FiniteSets

CONSTANTS
  Conns,     \* the connections clients make
  Workers,   \* names for the threads of the pool
  Inbox,     \* model bound: requests of a client the server has not read
  Window     \* replies that fit into the socket of a client that does not read

ASSUME ServerAssumption ==
  /\ \A e \in Environments : Threads(e) <= Cardinality(Workers)
  /\ Inbox \in Nat \ {0} /\ Window \in Nat \ {0}
  /\ None \notin Conns
  /\ IsFiniteSet(Workers) /\ Workers # {}

VARIABLES
  env,       \* the environment the process was started in
  pool,      \* the threads the pool has
  conn,      \* where each connection is
  queue,     \* the jobs of the pool that no thread has taken yet
  job,       \* the connection each thread serves
  reply,     \* what each thread is about to write
  inbox,     \* the requests on each connection that are not read yet
  unread,    \* the replies the client has not received yet
  client,    \* what each client is up to
  owed       \* requests a client has sent less replies it has received

vars == <<env, pool, conn, queue, job, reply, inbox, unread, client, owed>>

(* Is there an idle timeout? *)
timeouts == IdleTimeout(env) # None

Kinds == {"command", "QUIT"}

Open(c) == conn[c] \in {"backlog", "queued", "served"}

Served(c) == {w \in Workers : job[w] = c}
-----------------------------------------------------------------------------
Init ==
  /\ env \in Environments
  /\ pool \in {p \in SUBSET Workers : Cardinality(p) = Threads(env)}
  /\ conn = [c \in Conns |-> "new"]
  /\ queue = <<>>
  /\ job = [w \in Workers |-> None]
  /\ reply = [w \in Workers |-> "none"]
  /\ inbox = [c \in Conns |-> <<>>]
  /\ unread = [c \in Conns |-> 0]
  /\ client = [c \in Conns |-> "talking"]
  /\ owed = [c \in Conns |-> 0]

-----------------------------------------------------------------------------
(* The clients.  The kernel completes a connection and takes in requests    *)
(* before the server accepts it.                                            *)
Connect(c) ==
  /\ conn[c] = "new"
  /\ conn' = [conn EXCEPT ![c] = "backlog"]
  /\ UNCHANGED <<env, pool, queue, job, reply, inbox, unread, client, owed>>

Send(c) ==
  /\ Open(c) /\ client[c] = "talking"
  /\ Len(inbox[c]) < Inbox
  /\ \E k \in Kinds : inbox' = [inbox EXCEPT ![c] = Append(@, k)]
  /\ owed' = [owed EXCEPT ![c] = @ + 1]
  /\ UNCHANGED <<env, pool, conn, queue, job, reply, unread, client>>

Receive(c) ==
  /\ client[c] # "gone" /\ unread[c] > 0
  /\ unread' = [unread EXCEPT ![c] = @ - 1]
  /\ owed' = [owed EXCEPT ![c] = @ - 1]
  /\ UNCHANGED <<env, pool, conn, queue, job, reply, inbox, client>>

(* A client falls silent for good, or closes its end. *)
Leave(c) ==
  /\ conn[c] # "new"
  /\ \/ client[c] = "talking" /\ client' = [client EXCEPT ![c] = "quiet"]
     \/ client[c] # "gone" /\ client' = [client EXCEPT ![c] = "gone"]
  /\ UNCHANGED <<env, pool, conn, queue, job, reply, inbox, unread, owed>>
-----------------------------------------------------------------------------
(* Server::serve, one turn of its loop. *)
Accept ==
  /\ \E c \in Conns :
        /\ conn[c] = "backlog"
        /\ conn' = [conn EXCEPT ![c] = "queued"]
        /\ queue' = Append(queue, c)
  /\ UNCHANGED <<env, pool, job, reply, inbox, unread, client, owed>>

(* Wrong: the job stays in the queue of the pool when a thread takes it. *)
TakeTwice(w) ==
  /\ w \in pool /\ job[w] = None /\ queue # <<>>
  /\ job' = [job EXCEPT ![w] = Head(queue)]
  /\ conn' = [conn EXCEPT ![Head(queue)] = "served"]
  /\ UNCHANGED <<env, pool, queue, reply, inbox, unread, client, owed>>

(* A free thread of the pool takes the oldest job and starts                *)
(* Server::handle_connection.                                               *)
Take(w) ==
  /\ w \in pool /\ job[w] = None /\ queue # <<>>
  /\ job' = [job EXCEPT ![w] = Head(queue)]
  /\ queue' = Tail(queue)
  /\ conn' = [conn EXCEPT ![Head(queue)] = "served"]
  /\ UNCHANGED <<env, pool, reply, inbox, unread, client, owed>>

(* The handler gives up before its loop: the socket cannot be cloned, or    *)
(* does not take its timeouts.                                              *)
SetupFails(w) ==
  /\ w \in pool /\ job[w] = None /\ queue # <<>>
  /\ queue' = Tail(queue)
  /\ conn' = [conn EXCEPT ![Head(queue)] = "closed"]
  /\ inbox' = [inbox EXCEPT ![Head(queue)] = <<>>]
  /\ UNCHANGED <<env, pool, job, reply, unread, client, owed>>

(* The handler returns: both halves of the socket are closed and what is    *)
(* left to read is dropped.                                                 *)
End(w) ==
  /\ conn' = [conn EXCEPT ![job[w]] = "closed"]
  /\ inbox' = [inbox EXCEPT ![job[w]] = <<>>]
  /\ job' = [job EXCEPT ![w] = None]
  /\ reply' = [reply EXCEPT ![w] = "none"]

Reading(w) == job[w] # None /\ reply[w] = "none"
Writing(w) == job[w] # None /\ reply[w] # "none"

(* Wrong: a request that fails is dropped without an error reply. *)
ReadDrops(w) ==
  /\ Reading(w) /\ inbox[job[w]] # <<>>
  /\ inbox' = [inbox EXCEPT ![job[w]] = Tail(@)]
  /\ reply' = [reply EXCEPT ![w] = IF Head(inbox[job[w]]) = "QUIT" THEN "last" ELSE "none"]
  /\ UNCHANGED <<env, pool, conn, queue, job, unread, client, owed>>

(* A request is decoded and executed. *)
Read(w) ==
  /\ Reading(w) /\ inbox[job[w]] # <<>>
  /\ inbox' = [inbox EXCEPT ![job[w]] = Tail(@)]
  /\ reply' = [reply EXCEPT ![w] = IF Head(inbox[job[w]]) = "QUIT" THEN "last" ELSE "more"]
  /\ UNCHANGED <<env, pool, conn, queue, job, unread, client, owed>>

(* Wrong: a read that times out is tried again. *)
ReadRetried(w) ==
  /\ timeouts
  /\ Reading(w) /\ inbox[job[w]] = <<>> /\ client[job[w]] # "gone"
  /\ UNCHANGED vars

(* Nothing arrives within the read timeout. *)
ReadTimeout(w) ==
  /\ timeouts
  /\ Reading(w) /\ inbox[job[w]] = <<>> /\ client[job[w]] # "gone"
  /\ End(w)
  /\ UNCHANGED <<env, pool, queue, unread, client, owed>>

(* Wrong: the end of the stream is taken for a malformed frame. *)
EofContinues(w) ==
  /\ Reading(w) /\ inbox[job[w]] = <<>> /\ client[job[w]] = "gone"
  /\ UNCHANGED vars

(* The client has closed its end. *)
ReadEof(w) ==
  /\ Reading(w) /\ inbox[job[w]] = <<>> /\ client[job[w]] = "gone"
  /\ End(w)
  /\ UNCHANGED <<env, pool, queue, unread, client, owed>>

(* Wrong: the reply to a request that fails does not end the turn of the    *)
(* loop, and a second one follows.                                          *)
FlushTwice(w) ==
  /\ Writing(w)
  /\ client[job[w]] # "gone" /\ unread[job[w]] < Window
  /\ unread' = [unread EXCEPT ![job[w]] = @ + 2]
  /\ reply' = [reply EXCEPT ![w] = "none"]
  /\ UNCHANGED <<env, pool, conn, queue, job, inbox, client, owed>>

(* encode_response and flush; the loop ends after the reply to QUIT. *)
Flush(w) ==
  /\ Writing(w)
  /\ \/ /\ client[job[w]] = "gone"
        /\ UNCHANGED unread
     \/ /\ client[job[w]] # "gone" /\ unread[job[w]] < Window
        /\ unread' = [unread EXCEPT ![job[w]] = @ + 1]
  /\ \/ /\ reply[w] = "last"
        /\ End(w)
     \/ /\ reply[w] = "more"
        /\ reply' = [reply EXCEPT ![w] = "none"]
        /\ UNCHANGED <<conn, job, inbox>>
  /\ UNCHANGED <<env, pool, queue, client, owed>>

(* Wrong: the write timeout is not set. *)
WriteWaits(w) ==
  /\ Writing(w) /\ client[job[w]] = "gone"
  /\ End(w)
  /\ UNCHANGED <<env, pool, queue, unread, client, owed>>

(* The write fails because the client is gone, or because it has not made   *)
(* room for the reply within the write timeout.                             *)
WriteFails(w) ==
  /\ Writing(w)
  /\ \/ client[job[w]] = "gone"
     \/ timeouts /\ unread[job[w]] = Window
  /\ End(w)
  /\ UNCHANGED <<env, pool, queue, unread, client, owed>>

Handle(w) == Read(w) \/ ReadTimeout(w) \/ ReadEof(w) \/ Flush(w) \/ WriteFails(w)

Next ==
  \/ Accept
  \/ \E c \in Conns : Connect(c) \/ Send(c) \/ Receive(c) \/ Leave(c)
  \/ \E w \in Workers : Take(w) \/ SetupFails(w) \/ Handle(w)

Spec == Init /\ [][Next]_vars

(* The threads run and the timers run out; clients do as they like. *)
FairSpec ==
  /\ Spec
  /\ WF_vars(Accept)
  /\ \A w \in Workers : WF_vars(Take(w)) /\ WF_vars(Handle(w))
-----------------------------------------------------------------------------
(* Type invariant. *)
TypeOK ==
  /\ env \in Environments
  /\ pool \subseteq Workers /\ Cardinality(pool) = Threads(env)
  /\ conn \in [Conns -> {"new", "backlog", "queued", "served", "closed"}]
  /\ queue \in Seq(Conns)
  /\ job \in [Workers -> Conns \cup {None}]
  /\ reply \in [Workers -> {"none", "more", "last"}]
  /\ inbox \in [Conns -> Seq(Kinds)]
  /\ unread \in [Conns -> 0 .. Window]
  /\ client \in [Conns -> {"talking", "quiet", "gone"}]
  /\ owed \in [Conns -> Nat]

(* A connection is in one place at a time: it is in the queue of the pool   *)
(* once and while it is "queued", and has a thread, and only one, while it  *)
(* is "served".                                                             *)
InOnePlace ==
  /\ \A i, j \in DOMAIN queue : queue[i] = queue[j] => i = j
  /\ \A c \in Conns : conn[c] = "queued" <=> \E i \in DOMAIN queue : queue[i] = c
  /\ \A c \in Conns : conn[c] = "served" <=> Served(c) # {}
  /\ \A v, w \in Workers : job[v] = job[w] /\ job[v] # None => v = w
  /\ \A w \in Workers : job[w] = None => reply[w] = "none"

(* Every request has one reply, however requests are pipelined: what a      *)
(* client is owed is what waits in its inbox, in the hands of its thread,   *)
(* and in its socket.                                                       *)
InHand(c) == Cardinality({w \in Served(c) : reply[w] # "none"})

OneReplyEach ==
  \A c \in Conns :
    Open(c) /\ client[c] # "gone" => owed[c] = Len(inbox[c]) + InHand(c) + unread[c]

(* CONFIG GET parses RALPHDB_THREADS by itself, and reports the threads the *)
(* pool has, whatever the variable holds, unless that is 0: then one thread *)
(* runs and the number of CPUs is reported.                                 *)
ReportsItsThreads ==
  env.RALPHDB_THREADS # 0 => ReportedThreads(env) = Cardinality(pool)

(* A client that lets its connection end: with timeouts it is enough to     *)
(* fall silent, without them the client has to close its end.               *)
Leaves(c) ==
  IF timeouts THEN client[c] # "talking" ELSE client[c] = "gone"

(* If every client that connects some time lets its connection end, every   *)
(* accepted connection gets a thread: no thread is held for ever, neither   *)
(* by a client that does not send nor by one that does not read.            *)
AcceptedIsServed ==
  (\A c \in Conns : <>[](Leaves(c) \/ conn[c] \in {"new", "closed"}))
    => \A c \in Conns : conn[c] \in {"backlog", "queued"} ~> conn[c] \in {"served", "closed"}

(* With an idle timeout, the connection of a thread does not outlast the    *)
(* silence of its client, whatever its client has left unread, unless the   *)
(* client closes it first.                                                  *)
SilentConnectionsClose ==
  \A c \in Conns :
    timeouts /\ conn[c] = "served" /\ client[c] = "quiet"
      ~> conn[c] = "closed" \/ client[c] = "gone"

(* Idle connections close, wherever they are.  The code falls short of it:  *)
(* a connection in the queue of the pool has no timer.                      *)
IdleConnectionsClose ==
  \A c \in Conns :
    timeouts /\ client[c] = "quiet" ~> conn[c] = "closed" \/ client[c] = "gone"
=============================================================================

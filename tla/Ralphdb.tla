------------------------------ MODULE Ralphdb ------------------------------
(***************************************************************************)
(* The whole process: the threads of Server at work on the keyspace of     *)
(* Storage, which this module extends.  A worker of one module is the same *)
(* thread as that worker of the other.  It has a call in Storage from the  *)
(* moment its connection's next command is decoded until the reply is      *)
(* written, and nothing else of Server happens to its connection in        *)
(* between (handle_connection of src/src/server/mod.rs).                   *)
(*                                                                         *)
(* A counter is a key that clients INCR and otherwise only look at.  The   *)
(* history variables record what they have been told by their INCRs.       *)
(***************************************************************************)
EXTENDS Storage

CONSTANTS
  Conns, CPUs, Environments, Inbox, Window,     \* of Server
  Counter                                       \* a key

ASSUME CounterAssumption ==
  /\ Counter \in Keys
  /\ \A r \in Requests :
       (\E i \in DOMAIN r.keys : r.keys[i] = Counter)
         => \/ r.op \in ReadOps \cup {"TTL"}
            \/ r.op = "INCR" /\ r.keys = <<Counter>>

VARIABLES
  env, pool, conn, queue, job, reply, inbox, unread, client, owed,
  told,      \* history: the highest value in a reply to INCR so far
  tickets,   \* history: how many replies had each value of the counter
  floor      \* history: `told' when a thread decoded the request it serves

Net == INSTANCE Server

netVars     == <<env, pool, conn, queue, job, reply, inbox, unread, client, owed>>
history     == <<told, tickets, floor>>
processVars == <<netVars, vars, history>>

ProcessInit ==
  /\ Net!Init
  /\ Init
  /\ told = 0
  /\ tickets = [n \in 1 .. MaxI64 |-> 0]
  /\ floor = [w \in Workers |-> 0]
-----------------------------------------------------------------------------
(* A thread decodes a request and calls its handler.  QUIT, PING and others *)
(* need no storage, nor does a request that is refused or malformed.        *)
Execute(w) ==
  /\ Net!Read(w)
  /\ \/ /\ reply'[w] = "more" /\ Invoke(w)
        /\ floor' = [floor EXCEPT ![w] = told]
     \/ UNCHANGED <<vars, floor>>
  /\ UNCHANGED <<told, tickets>>

(* The thread is inside the handler. *)
Call(w) ==
  /\ pc[w] # "done" /\ Step(w)
  /\ UNCHANGED <<netVars, history>>

OnCounter(w) ==
  pc[w] = "done" /\ req[w].op = "INCR" /\ req[w].keys = <<Counter>>

(* The value of the counter in the answer of a finished call, None if that  *)
(* is the error that it cannot be incremented.                              *)
Told(w) == IF out[w][1] = Error THEN None ELSE out[w][1]

(* The handler has returned, and its reply is dealt with: the call is over, *)
(* whether the client gets to know or not.                                  *)
Finish(w) ==
  /\ floor' = [floor EXCEPT ![w] = 0]
  /\ IF pc[w] = "idle" THEN UNCHANGED vars ELSE Return(w)

(* Wrong: a reply is left in the BufWriter. *)
ReplyUnflushed(w) ==
  /\ reply[w] = "more" /\ Finish(w)
  /\ reply' = [reply EXCEPT ![w] = "none"]
  /\ UNCHANGED <<env, pool, conn, queue, job, inbox, unread, client, owed, told, tickets>>

(* encode_response, flush and the end of the turn. *)
Reply(w) ==
  /\ Net!Flush(w) /\ Finish(w)
  /\ \/ /\ OnCounter(w) /\ Told(w) # None
        /\ told' = IF Told(w) > told THEN Told(w) ELSE told
        /\ tickets' = [tickets EXCEPT ![Told(w)] = @ + 1]
     \/ /\ OnCounter(w) => Told(w) = None
        /\ UNCHANGED <<told, tickets>>

(* What the call has done stays done, although its client never hears. *)
ReplyFails(w) ==
  /\ Net!WriteFails(w) /\ Finish(w)
  /\ UNCHANGED <<told, tickets>>

(* A thread without a request waits for its client. *)
Idle(w) ==
  /\ Net!ReadTimeout(w) \/ Net!ReadEof(w)
  /\ UNCHANGED <<vars, history>>

Handle(w) == Execute(w) \/ Call(w) \/ Reply(w) \/ ReplyFails(w) \/ Idle(w)

Begin(w) ==
  /\ Net!Take(w) \/ Net!SetupFails(w)
  /\ UNCHANGED <<vars, history>>

Accept == Net!Accept /\ UNCHANGED <<vars, history>>

Client(c) ==
  /\ Net!Connect(c) \/ Net!Send(c) \/ Net!Receive(c) \/ Net!Leave(c)
  /\ UNCHANGED <<vars, history>>

Clock == Tick /\ UNCHANGED <<netVars, history>>

ProcessNext ==
  \/ Accept \/ Clock
  \/ \E c \in Conns : Client(c)
  \/ \E w \in Workers : Begin(w) \/ Handle(w)

ProcessSpec == ProcessInit /\ [][ProcessNext]_processVars

(* The main thread and the threads of the pool run. *)
FairProcess ==
  /\ ProcessSpec
  /\ WF_processVars(Accept)
  /\ \A w \in Workers : WF_processVars(Begin(w)) /\ WF_processVars(Handle(w))
-----------------------------------------------------------------------------
(* Every reply to an INCR of a counter has a value no other reply has had,  *)
(* on whatever connection and thread ("atomic counter support", README.md): *)
(* also when replies are lost and when the counter reaches its limit.       *)
TicketsAreUnique == \A n \in DOMAIN tickets : tickets[n] <= 1

(* What one client has been told is not undone: a request that is decoded   *)
(* later, on any connection, finds a higher value, whatever calls and lost  *)
(* replies came in between.                                                 *)
RealTimeOrder ==
  \A w \in Workers : OnCounter(w) /\ Told(w) # None => Told(w) > floor[w]

(* Other threads take one read guard after the other (Storage::ttl), and    *)
(* the locks of the DashMap need not let a writer in between.               *)
KeptOut(w) ==
  []<><<\E v \in Workers \ {w} : pc[v] = "ttl" /\ pc'[v] = "ttl_left">>_vars

(* The commands take none of the pool's promises away: with calls that take *)
(* several steps and wait for each other's locks, threads and connections   *)
(* still behave, and keep moving, as Server says.  Only a thread that is    *)
(* kept out by ever new readers need not come to answer its request.        *)
ImplementsServer ==
  /\ Net!Spec
  /\ WF_netVars(Net!Accept)
  /\ \A w \in Workers :
       /\ WF_netVars(Net!Take(w))
       /\ KeptOut(w) \/ WF_netVars(Net!Handle(w))
=============================================================================

----------------------------- MODULE MCRalphdb -----------------------------
(* Two clients on two threads share one counter of -1 .. MaxI64. *)
EXTENDS Ralphdb, TLC

CONSTANTS c1, c2, t1, t2, counter, minus, zero, one, two

MCMinI64 == -1

MCBytes == {minus, zero, one, two}

MCParse == minus :> -1 @@ zero :> 0 @@ one :> 1 @@ two :> (IF MaxI64 >= 2 THEN 2 ELSE None)

MCToString == [n \in MCMinI64 .. MaxI64 |-> CHOOSE b \in MCBytes : MCParse[b] = n]

OneShard == [k \in Keys |-> k]

CounterRequests ==
  {[op |-> op, keys |-> <<counter>>, vals |-> <<>>, secs |-> 0] : op \in {"INCR", "TTL"}}

(* The idle timeout is the default one. *)
TwoThreads == {[RALPHDB_THREADS |-> 2, RALPHDB_IDLE_TIMEOUT_SECS |-> None]}
(* What the run leaves out: silence for good, which is no different from    *)
(* silence for now where nothing is said of it; one of two orders in which  *)
(* the clients come; time during a connection, as a counter has no          *)
(* deadline.                                                                *)
Bounds ==
  /\ \A c \in Conns : client[c] # "quiet"
  /\ conn[c1] = "new" => conn[c2] = "new"
  /\ now > 0 => \A c \in Conns : ~Net!Open(c)
=============================================================================

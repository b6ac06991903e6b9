------------------------------ MODULE MCServer ------------------------------
(* The environments in which the runs of Server start it. *)
EXTENDS Server, TLC

CONSTANTS c1, c2, t1, t2

Env(threads, secs) ==
  [RALPHDB_THREADS |-> threads, RALPHDB_IDLE_TIMEOUT_SECS |-> secs]

(* One thread by default, by clamping and for want of a usable number, and  *)
(* two threads; with a timer by default, for want of a usable number and as *)
(* configured, and without.                                                 *)
AllKinds ==
  {Env(None, None), Env(0, 0), Env(-1, -1), Env(2, 30), Env(2, 0)}
=============================================================================

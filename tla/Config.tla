------------------------------- MODULE Config -------------------------------
(***************************************************************************)
(* What the environment variables of ralphdb configure: Config::from_env   *)
(* of src/src/server/mod.rs, which the server runs with, and               *)
(* default_threads of src/src/command/mod.rs, which CONFIG GET reports.    *)
(*                                                                         *)
(* A variable is the number it holds, or None when it is unset or holds no *)
(* number: from_env makes no difference between the two.                   *)
(***************************************************************************)
EXTENDS Integers

CONSTANTS
  CPUs,         \* std::thread::available_parallelism, or 1 if that fails
  Environments, \* the environments the process may be started in
  None          \* the variable is unset or not a number

ASSUME ConfigAssumption ==
  /\ CPUs \in Nat \ {0}
  /\ None \notin Int
  /\ Environments \subseteq
       [RALPHDB_THREADS : Int \cup {None}, RALPHDB_IDLE_TIMEOUT_SECS : Int \cup {None}]

AtLeast(n, m) == IF n < m THEN m ELSE n

(* str::parse::<usize>: a negative number is not one. *)
Usize(v) == IF v # None /\ v >= 0 THEN v ELSE None

(* Wrong: the number of threads is taken as it is. *)
ThreadsUnclamped(e) ==
  IF Usize(e.RALPHDB_THREADS) = None THEN CPUs ELSE Usize(e.RALPHDB_THREADS)

(* Wrong: the pool never has more threads than there are CPUs. *)
ThreadsCapped(e) ==
  LET threads == Usize(e.RALPHDB_THREADS)
  IN  IF threads = None \/ threads > CPUs THEN CPUs ELSE AtLeast(threads, 1)

(* A thread count of 0 would make the pool panic. *)
Threads(e) ==
  AtLeast(IF Usize(e.RALPHDB_THREADS) = None THEN CPUs ELSE Usize(e.RALPHDB_THREADS), 1)

(* Seconds, None for no timer.  A number that makes no sense counts as none *)
(* at all, and the default applies.                                         *)
DefaultIdleTimeoutSecs == 300

IdleTimeout(e) ==
  LET secs == e.RALPHDB_IDLE_TIMEOUT_SECS
  IN  CASE secs = None -> DefaultIdleTimeoutSecs
        [] secs = 0    -> None
        [] secs > 0    -> secs
        [] OTHER       -> DefaultIdleTimeoutSecs

(* server.threads in the reply to CONFIG GET. *)
ReportedThreads(e) ==
  LET threads == Usize(e.RALPHDB_THREADS)
  IN  IF threads # None /\ threads > 0 THEN threads ELSE CPUs
=============================================================================

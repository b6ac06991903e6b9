------------------------- MODULE MCBenchmarkProfile -------------------------
(* Exit statuses for the runs of BenchmarkProfile. *)
EXTENDS BenchmarkProfile

(* An error, an out-of-memory kill and a crash. *)
MCStatuses == {1, 137, 139}

(* Tools that do not stop the command, are not found, are not timeout tools *)
(* at all, and that work: GNU, and others that pass on the signal.          *)
MCProbeExits == {0, 1, 124, 127, 143, 152}
=============================================================================

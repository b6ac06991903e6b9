------------------------------- MODULE MCGlob -------------------------------
(* The alphabet of the runs of Glob. *)
EXTENDS Glob

CONSTANTS a, b
=============================================================================

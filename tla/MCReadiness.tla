----------------------------- MODULE MCReadiness -----------------------------
(***************************************************************************)
(* Every poll interval and every maximum there is in six-bit durations,    *)
(* with more errors in a row than doublings fit; those of SmallSettings    *)
(* also through successes, outages and recoveries.                         *)
(***************************************************************************)
EXTENDS Readiness

AllDurations == Ints

SmallSettings == {-3} \cup 0..7

=============================================================================

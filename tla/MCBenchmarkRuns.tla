---------------------------- MODULE MCBenchmarkRuns ----------------------------
(* Instances of BenchmarkRuns for TLC. *)
EXTENDS BenchmarkRuns

CONSTANTS b1, b2, b3, d1, d2
===============================================================================

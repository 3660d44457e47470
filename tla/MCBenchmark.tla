----------------------------- MODULE MCBenchmark -----------------------------
(* Model values for Benchmark. *)
EXTENDS Benchmark
=============================================================================

----------------------------- MODULE MCBenchmark -----------------------------
(* Instances of Benchmark for TLC: an edit of the sources may or may not be  *)
(* heard, and the renders of one path can use up the time of all.            *)
EXTENDS Benchmark

MCVoices == {v \in [Version -> Audio] : v[0] = 1}
=============================================================================

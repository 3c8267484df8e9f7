----------------------------- MODULE MCBenchmark -----------------------------
(***************************************************************************)
(* Three invocations over a small grid: one size, two, one size twice, and *)
(* sizes that cannot be measured, alone and after one that can.            *)
(***************************************************************************)
EXTENDS Benchmark

MCPrefixes == {1}
MCSizeLists == {<<4>>, <<12, 3>>, <<4, 4>>, <<5, 0>>, <<17>>}
MCSweepCounts == {0, 1, 2}
=============================================================================

---------------------------- MODULE MCReplayGuard ----------------------------
(***************************************************************************)
(* Instances of ReplayGuard for TLC: three streams of which two fit, and   *)
(* sequence numbers from one below zero to one past two whole windows.     *)
(***************************************************************************)
EXTENDS ReplayBitmap, TLC

CONSTANTS k1, k2, k3

MCKeys == {k1, k2, k3}
MCSeqs == -1 .. 6
Symmetry == Permutations(MCKeys)
=============================================================================

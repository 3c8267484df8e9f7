------------------------------- MODULE MCRunAll -------------------------------
(***************************************************************************)
(* The pipeline with two configurations of two demonstrations each.        *)
(***************************************************************************)
EXTENDS RunAll
=============================================================================

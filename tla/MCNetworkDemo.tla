---------------------------- MODULE MCNetworkDemo ----------------------------
(***************************************************************************)
(* The plan of the demonstration itself and its record counts: one below   *)
(* none, none, up to the middle of the plan, up to the replay, the default *)
(* of twelve, which here is also the whole budget, and one more.           *)
(***************************************************************************)
EXTENDS NetworkDemo, TLC

MCPlan == (2 :> "flip-ciphertext") @@ (4 :> "flip-tag") @@ (6 :> "tamper-aad")
          @@ (8 :> "drop") @@ (9 :> "replay")

MCCounts == {-1, 0, 1, 5, 9, 10, 12, 13}
=============================================================================

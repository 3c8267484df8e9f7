------------------------------ MODULE DemoPlan ------------------------------
(***************************************************************************)
(* What the network demonstration promises: the receiver's verdicts are    *)
(* the ones the actor's plan calls for, in the order of the records, and   *)
(* the result printed is PASS exactly when all of them have been given by  *)
(* then (and the record count was not negative).                           *)
(***************************************************************************)
EXTENDS Integers, SequencesExt

CONSTANTS RecordCounts, Plan

VARIABLES records, judged, result

planVars == <<records, judged, result>>

\* The first record that goes through as it is, which the actor keeps.
Kept(i) == \E j \in 0 .. i - 1 : j \notin DOMAIN Plan

\* The verdicts the i-th record leads to.
VerdictsFor(i) ==
  CASE i \notin DOMAIN Plan -> <<"accepted">>
    [] i \in DOMAIN Plan /\ Plan[i] = "drop" -> <<>>
    [] i \in DOMAIN Plan /\ Plan[i] = "replay" ->
         <<"accepted">> \o (IF Kept(i) THEN <<"REPLAY_DETECTED">> ELSE <<>>)
    [] OTHER -> <<"AUTH_FAILED">>

PlannedVerdicts(n) == FlattenSeq([i \in 1 .. n |-> VerdictsFor(i - 1)])

Init == records \in RecordCounts /\ judged = <<>> /\ result = "none"

JudgeNext ==
  /\ Len(judged) < Len(PlannedVerdicts(records))
  /\ judged' = Append(judged, PlannedVerdicts(records)[Len(judged) + 1])
  /\ UNCHANGED <<records, result>>

Announce ==
  /\ result = "none"
  /\ result' = IF records >= 0 /\ judged = PlannedVerdicts(records) THEN "PASS" ELSE "FAIL"
  /\ UNCHANGED <<records, judged>>

Spec == Init /\ [][JudgeNext \/ Announce]_planVars
=============================================================================

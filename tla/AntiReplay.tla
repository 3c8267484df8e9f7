------------------------------ MODULE AntiReplay ------------------------------
(***************************************************************************)
(* What an anti-replay component promises, without windows: a sequence     *)
(* number of a stream is taken at most once until everything is forgotten, *)
(* and never when it lies Reach or more behind one already taken.          *)
(***************************************************************************)
EXTENDS Integers

CONSTANTS StreamKeys, Numbers, Reach

VARIABLE taken      \* stream -> the sequence numbers taken so far

Init == taken = [k \in StreamKeys |-> {}]

Take(k, s) ==
  /\ s \notin taken[k]
  /\ \A t \in taken[k] : t - s < Reach
  /\ taken' = [taken EXCEPT ![k] = @ \cup {s}]

Forget == taken' = [k \in StreamKeys |-> {}]

Next == Forget \/ \E k \in StreamKeys, s \in Numbers : Take(k, s)

Spec == Init /\ [][Next]_taken
=============================================================================

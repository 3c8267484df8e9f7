----------------------------- MODULE IdealChannel -----------------------------
(***************************************************************************)
(* The promise of the whole library: records are delivered as they were    *)
(* sent, in any order or not at all, and each place of a stream at most    *)
(* once until the receiver forgets everything.                             *)
(***************************************************************************)
VARIABLES sent, delivered

Place(w) == <<w.header.session, w.header.stream, w.header.seq>>

Init == sent = {} /\ delivered = {}

Send == sent \subseteq sent' /\ UNCHANGED delivered

Deliver ==
  /\ \E w \in sent : /\ \A d \in delivered : Place(d) # Place(w)
                     /\ delivered' = delivered \cup {w}
  /\ UNCHANGED sent

Forget == delivered' = {} /\ UNCHANGED sent

Next == Send \/ Deliver \/ Forget

Spec == Init /\ [][Next]_<<sent, delivered>>
=============================================================================

---------------------------- MODULE MCWireFormat ----------------------------
(***************************************************************************)
(* Bytes of two values; sequence numbers and lengths of two bytes, every   *)
(* other field of one.  The candidates run one past each field's range.    *)
(***************************************************************************)
EXTENDS WireFormat

MCCandidates ==
  [version : {1}, suite : {1}, type : {0, 1}, flags : {0}, session : {<<0>>, <<1>>, <<0, 1>>},
   stream : 0 .. 2, prefix : {<<1>>}, seq : 0 .. 4, length : 0 .. 3]

MCBodies == {<<1>>, <<0, 1>>, <<1, 0>>, <<1, 1, 0>>}
=============================================================================

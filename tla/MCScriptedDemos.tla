--------------------------- MODULE MCScriptedDemos ---------------------------
(***************************************************************************)
(* The numbers of the demonstrations themselves, with a sequence space of  *)
(* 24 bits, a budget the longest of them just does not reach, and three    *)
(* prefixes, so that they can coincide.                                    *)
(***************************************************************************)
EXTENDS ScriptedDemos

MCDeadBeef == 70000
MCPrefixes == {MCDeadBeef, 80000, 90000}
MCSuites == {1, 2}
MCSessions == {1, 2}
MCStreamIds == {1, 7}
MCRecordTypes == {1, 3}
MCPayloads == {"empty", "text"}
MCPayloadLen == [p \in MCPayloads |-> IF p = "empty" THEN 0 ELSE 32]
MCFieldBits == [version |-> 8, suite |-> 8, type |-> 16, session |-> 24, stream |-> 24,
                prefix |-> 24, seq |-> 24, len |-> 24]
MCFieldMasks == [f \in DOMAIN MCFieldBits |-> [b \in 1 .. MCFieldBits[f] |-> 2^(b - 1)]]
MCCounts == {0, 1, 70, 400, 401}
=============================================================================

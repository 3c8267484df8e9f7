--------------------------- MODULE MCSecureChannel ---------------------------
(***************************************************************************)
(* Instances of SecureChannel for TLC.  first and again are one sender     *)
(* before and after a restart: same session and stream, numbers from 0,    *)
(* another random prefix.  other writes in another session, from a later   *)
(* number on; side on another stream, and may spend its number on a record *)
(* that does not fit a header; alien under another key.                    *)
(***************************************************************************)
EXTENDS SecureChannel, TLC

CONSTANTS first, again, other, side, alien,
          key, oldKey, rogue, sessA, sessB, p1, p2, data, close, empty, short

MCSessions == {sessA, sessB}
MCStreams == {1, 2}
MCPrefixes == {p1, p2}
MCTypes == {data, close}
MCPayloads == {empty, short}
MCPayloadLen == (empty :> 0) @@ (short :> 1)
MCSuites == {1, 2}
MCSeqs == 0 .. 3

\* What the attacker writes into headers: under one label every place in every
\* stream, every label in the place of the first record and in one with nothing in
\* common with it, and another protocol version.
MCHeaders ==
  [version : {1, 2}, suite : MCSuites, type : MCTypes, session : MCSessions,
   stream : MCStreams, prefix : MCPrefixes, seq : MCSeqs, len : {0, 1}]

Plain(h) == h.suite = 1 /\ h.type = data /\ h.len = 1 /\ h.prefix = p1
Home(h) == h.session = sessA /\ h.stream = 1 /\ h.prefix = p1 /\ h.seq = 0
Away(h) == h.session = sessB /\ h.stream = 2 /\ h.prefix = p2 /\ h.seq = 3

MCForgedHeaders ==
  {h \in MCHeaders : IF h.version = 1 THEN Plain(h) \/ Home(h) \/ Away(h)
                                      ELSE Plain(h) /\ Home(h)}

Conf(k, session, stream, prefix, start, limit, says, misfits) ==
  [key |-> k, session |-> session, stream |-> stream, prefix |-> prefix,
   start |-> start, limit |-> limit, says |-> says, misfits |-> misfits]

Short == {<<data, short>>}
Either == {<<data, short>>, <<close, empty>>}

MCConf ==
  (first :> Conf(key, sessA, 1, p1, 0, 3, Short, FALSE))
  @@ (again :> Conf(key, sessA, 1, p2, 0, 1, Either, FALSE))
  @@ (other :> Conf(key, sessB, 1, p1, 2, 1, Short, FALSE))
  @@ (side :> Conf(key, sessA, 2, p1, 0, 1, Either, TRUE))
  @@ (alien :> Conf(oldKey, sessA, 1, p1, 0, 1, Short, FALSE))

MCSenders == DOMAIN MCConf
MCPins == {NotPinned, sessA}
=============================================================================

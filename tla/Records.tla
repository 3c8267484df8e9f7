------------------------------- MODULE Records -------------------------------
(***************************************************************************)
(* Protected records as terms (srp/header.py, srp/suites.py).  A wire      *)
(* record is a header and a body; a body remembers how the AEAD made it.   *)
(* Lengths are those of the payload: the 40 bytes of header and the 16 of  *)
(* tag are the same for every record.  The AEAD is ideal: a body opens     *)
(* under exactly the key, suite, nonce and associated data it was sealed   *)
(* with, and only if no bit of it was changed.                             *)
(***************************************************************************)
EXTENDS NonceManager

CONSTANTS Suites,       \* suite identifiers
          Sessions,     \* session identifiers
          StreamIds,    \* stream identifiers
          RecordTypes,  \* the record_type and flags bytes, taken together
          Payloads,     \* application payloads
          PayloadLen    \* their lengths

ASSUME PayloadAssumption == PayloadLen \in [Payloads -> Nat]

ProtocolVersion == 1

\* RecordHeader; the header serialises canonically, so it is its own AAD.
Header(suite, session, stream, prefix, seq, type, len) ==
  [version |-> ProtocolVersion, suite |-> suite, type |-> type, session |-> session,
   stream |-> stream, prefix |-> prefix, seq |-> seq, len |-> len]

HeaderNonce(h) == DeriveNonce(h.prefix, h.seq)

\* AeadSuite.seal
Seal(key, suite, nonce, payload, aad) ==
  [key |-> key, suite |-> suite, nonce |-> nonce, aad |-> aad,
   payload |-> payload, len |-> PayloadLen[payload], intact |-> TRUE]

\* (mutants) The header is not authenticated; any key will do.
Opens_NoAad(key, suite, nonce, body, aad) ==
  body.key = key /\ body.suite = suite /\ body.nonce = nonce /\ body.intact

Opens_AnyKey(key, suite, nonce, body, aad) ==
  body.suite = suite /\ body.nonce = nonce /\ body.aad = aad /\ body.intact

\* AeadSuite.open: TRUE when it returns a plaintext, which is body.payload.
Opens(key, suite, nonce, body, aad) ==
  /\ body.key = key
  /\ body.suite = suite
  /\ body.nonce = nonce
  /\ body.aad = aad
  /\ body.intact

\* Bytes that are no frame at all.
Noise == [header |-> "none"]

\* parse_record: long enough, known version, and a body of the declared length.
\* (The policy limit on the length is below every length modelled here.)
Parses(w) ==
  /\ w # Noise
  /\ w.header.version = ProtocolVersion
  /\ w.body.len = w.header.len

\* (mutant) Sessions share their windows.
StreamKey_NoSession(h) == <<CHOOSE s \in Sessions : TRUE, h.stream>>

\* Where the receiver files a record's sequence number.
StreamKey(h) == <<h.session, h.stream>>
=============================================================================

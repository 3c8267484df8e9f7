------------------------------ MODULE Adversary ------------------------------
(***************************************************************************)
(* What the active attacker of srp/adversary.py can put on the wire, given *)
(* the genuine records it has observed: each operator is the set of the    *)
(* results of one family of MaliciousActor methods.                        *)
(***************************************************************************)
EXTENDS Records

CONSTANTS RogueKey,         \* a key the attacker chose
          ForgedHeaders     \* the headers the attacker writes

\* tamper_header, which rewrites any fields at once, with each of its named uses, and
\* flip_header_bit: another header, the same body.
Tamper(w) == {[header |-> h, body |-> w.body] : h \in ForgedHeaders \ {w.header}}

\* flip_ciphertext_bit (which needs a ciphertext), flip_tag_bit, replace_tag and
\* zero_tag: the body keeps its length and no longer verifies.
Damage(w) == {[w EXCEPT !.body.intact = FALSE]}

\* truncate_ciphertext, which leaves an empty ciphertext alone, and truncate_tag.
Truncate(w) ==
  {[w EXCEPT !.body.intact = FALSE, !.body.len = @ - 1]}
  \cup (IF w.body.len = 0 THEN {w} ELSE {})

\* splice and swap_bodies.
Splice(v, w) == {[header |-> v.header, body |-> w.body]}

\* forge_with_wrong_key: any session, stream, sequence number, prefix and payload, and
\* everything right but the key.  (Any record type, of which the method writes DATA.)
Forgery(h, p) ==
  LET g == [h EXCEPT !.version = ProtocolVersion, !.len = PayloadLen[p]]
  IN  [header |-> g, body |-> Seal(RogueKey, g.suite, HeaderNonce(g), p, g)]

Forge == {Forgery(h, p) : h \in ForgedHeaders, p \in Payloads}

\* replay, and every record the attacker simply lets through, in any order; and
\* random_bytes.
Injectable(observed) ==
  observed
  \cup {Noise}
  \cup Forge
  \cup (UNION {Tamper(w) \cup Damage(w) \cup Truncate(w) : w \in observed})
  \cup (UNION {Splice(v, w) : v, w \in observed})
=============================================================================

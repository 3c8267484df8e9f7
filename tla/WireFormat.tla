------------------------------ MODULE WireFormat ------------------------------
(***************************************************************************)
(* The wire format byte by byte (srp/header.py): how a record becomes      *)
(* bytes, how bytes are parsed back, and what a change of a few bytes on   *)
(* the way does to the parse.  Field widths and the number base are        *)
(* parameters (16, 4, 4, 8, 4, 16 and 256 in the code).                    *)
(***************************************************************************)
EXTENDS Integers, Sequences

CONSTANTS Base,                                     \* values of one byte
          SessionLen, StreamLen, PrefixLen, SeqLen, LengthLen, TagLen,
          MaxPayloadLen,                            \* MAX_PAYLOAD_LEN
          Candidates,                               \* header fields a caller may ask for
          Bodies,                                   \* ciphertext || tag of a seal
          MaxChanges                                \* bound: bytes changed in transit

ASSUME WireAssumption == /\ Base \in Nat \ {0, 1}
                         /\ {SessionLen, StreamLen, PrefixLen, SeqLen, LengthLen, TagLen} \subseteq Nat
                         /\ MaxPayloadLen \in Nat /\ MaxChanges \in Nat

Byte == 0 .. Base - 1
Version == 1
HeaderLen == 4 + SessionLen + StreamLen + PrefixLen + SeqLen + LengthLen

\* What a caller may put into a header: single bytes, byte strings and integers of
\* any length and size.
ASSUME InputAssumption ==
  /\ Candidates \subseteq [version : Byte, suite : Byte, type : Byte, flags : Byte,
                           session : Seq(Byte), stream : Int, prefix : Seq(Byte),
                           seq : Int, length : Int]
  /\ Bodies \subseteq Seq(Byte)

(***************************************************************************)
(* struct.pack and struct.unpack with "!": unsigned, big-endian, no padding *)
(***************************************************************************)
\* How many numbers a field of n bytes can hold, Base^n.
Capacity[n \in Nat] == IF n = 0 THEN 1 ELSE Base * Capacity[n - 1]

Pack(n, width) == [i \in 1 .. width |-> (n \div Capacity[width - i]) % Base]

Unpack(bytes) ==
  LET value[i \in 0 .. Len(bytes)] == IF i = 0 THEN 0 ELSE value[i - 1] * Base + bytes[i]
  IN  value[Len(bytes)]

\* The bytes of a field that starts after `skip` others.
Field(raw, skip, width) == SubSeq(raw, skip + 1, skip + width)

\* RecordHeader.__post_init__: what it lets be built.  (version, suite, type and
\* flags are not looked at; struct.pack wants them to be bytes.)
Encodable(h) ==
  /\ Len(h.session) = SessionLen
  /\ Len(h.prefix) = PrefixLen
  /\ h.seq \in 0 .. Capacity[SeqLen] - 1
  /\ h.stream \in 0 .. Capacity[StreamLen] - 1
  /\ h.length \in 0 .. Capacity[LengthLen] - 1

\* (mutant) Prefix and sequence number change places.
HeaderBytes_Swapped(h) ==
  <<h.version, h.suite, h.type, h.flags>> \o h.session \o Pack(h.stream, StreamLen)
    \o Pack(h.seq, SeqLen) \o h.prefix \o Pack(h.length, LengthLen)

\* RecordHeader.to_bytes, and aad.
HeaderBytes(h) ==
  <<h.version, h.suite, h.type, h.flags>> \o h.session \o Pack(h.stream, StreamLen)
    \o h.prefix \o Pack(h.seq, SeqLen) \o Pack(h.length, LengthLen)

\* (mutant) Unknown record types are read as DATA.
KeptType_Coerced(value) == 1

\* _coerce_type: the number of the type, known or not.
KeptType(value) == value

\* (mutant) Flag bits the enumeration does not know are dropped.
KeptFlags_Known(value) == 0

\* RecordFlags(flags & 0xFF)
KeptFlags(value) == value % Base

\* RecordHeader.from_bytes: _coerce_type and RecordFlags keep unknown values.
ParsedHeader(raw) ==
  LET stream == 4 + SessionLen
      prefix == stream + StreamLen
      seq    == prefix + PrefixLen
      length == seq + SeqLen
  IN  [version |-> raw[1], suite |-> raw[2], type |-> KeptType(raw[3]), flags |-> KeptFlags(raw[4]),
       session |-> Field(raw, 4, SessionLen),
       stream  |-> Unpack(Field(raw, stream, StreamLen)),
       prefix  |-> Field(raw, prefix, PrefixLen),
       seq     |-> Unpack(Field(raw, seq, SeqLen)),
       length  |-> Unpack(Field(raw, length, LengthLen))]

\* ProtectedRecord.to_bytes
RecordBytes(r) == HeaderBytes(r.header) \o r.body

\* parse_record: what it returns, and why it raises MalformedRecordError instead.
ParsedRecord(raw) ==
  [header |-> ParsedHeader(SubSeq(raw, 1, HeaderLen)),
   body   |-> SubSeq(raw, HeaderLen + 1, Len(raw))]

Fault(raw) ==
  LET r == ParsedRecord(raw)
  IN  IF Len(raw) < HeaderLen + TagLen THEN "too short"
      ELSE IF r.header.version # Version THEN "bad version"
      ELSE IF r.header.length > MaxPayloadLen THEN "over the limit"
      ELSE IF Len(r.body) # r.header.length + TagLen THEN "wrong length"
      ELSE "none"

(***************************************************************************)
(* One record in transit                                                   *)
(***************************************************************************)
VARIABLES original,     \* the record the sender built
          wire,         \* its bytes, as they are now
          changes       \* how many changes they went through

vars == <<original, wire, changes>>

\* Sender.seal: the header says how long the payload is; records over the limit
\* are refused before a header is built.
Sealed == {[header |-> h, body |-> b] : h \in {c \in Candidates : Encodable(c)}, b \in Bodies}

Init ==
  /\ original \in {r \in Sealed : /\ r.header.version = Version
                                  /\ Len(r.body) = r.header.length + TagLen
                                  /\ r.header.length <= MaxPayloadLen}
  /\ wire = RecordBytes(original)
  /\ changes = 0

Change ==
  /\ changes < MaxChanges
  /\ changes' = changes + 1
  /\ UNCHANGED original

\* flip_header_bit, flip_ciphertext_bit, flip_tag_bit: one byte differs.
Overwrite(i, b) ==
  /\ Change
  /\ b # wire[i]
  /\ wire' = [wire EXCEPT ![i] = b]

\* truncate_tag, truncate_ciphertext: one byte fewer, at the end or inside.
Cut(i) ==
  /\ Change
  /\ wire' = SubSeq(wire, 1, i - 1) \o SubSeq(wire, i + 1, Len(wire))

\* One byte too many, as when frames run together.
Grow(b) ==
  /\ Change
  /\ wire' = Append(wire, b)

Next ==
  \/ \E i \in DOMAIN wire : Cut(i) \/ \E b \in Byte : Overwrite(i, b)
  \/ \E b \in Byte : Grow(b)

Spec == Init /\ [][Next]_vars

(***************************************************************************)
(* Properties                                                              *)
(***************************************************************************)
Parsed == ParsedRecord(wire)

Parses == Fault(wire) = "none"

\* The receiver authenticates the header it re-serialises from the parse, not the
\* bytes that came (receiver.py:264-266).  That is sound only because parsing and
\* serialising again is the identity on everything that parses, unknown suites,
\* types and flags included (header.py:181-184, 262-267).
ReserialisesExactly ==
  Parses => RecordBytes(Parsed) = wire

\* A record that nobody touched parses to what the sender built: no field is cut,
\* shifted or reordered on the way, at the ends of its range least of all.
UntouchedParses == wire = RecordBytes(original) => Parses /\ Parsed = original

\* There is no second encoding of a record: whatever was changed, the parse fails
\* or shows the change to the AEAD (header.py:178-185).
ChangeIsVisible == wire # RecordBytes(original) => ~ Parses \/ Parsed # original
=============================================================================

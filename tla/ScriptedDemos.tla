---------------------------- MODULE ScriptedDemos ----------------------------
(***************************************************************************)
(* The scripted demonstrations TR-1 to TR-7 (demo/run_demo.py) for one     *)
(* AEAD configuration.  Each is a script of sends, attacks and deliveries  *)
(* on channels of its own; its checks ask for verdicts, and its narration  *)
(* raises when a verdict has not the shape it describes.  What a script    *)
(* sees follows from the records, the nonces and the windows themselves.   *)
(***************************************************************************)
EXTENDS Records, Sequences, FiniteSets

CONSTANTS RecordCounts,     \* values of --records
          DeadBeef,         \* the nonce prefix TR-4 writes
          DefaultLimit, SmallLimit,     \* record_limit: the policy's, TR-7's
          DefaultWindow,    \* replay_window of the policy
          FieldMasks,       \* header field -> 1 << bit, for each bit TR-4 flips
          Restarts          \* restarts TR-7 simulates

\* replay_window of TR-5's second channel.
SmallWindow == 8

\* The fields of a header; flags count as part of the type.
Fields == {"version", "suite", "type", "session", "stream", "prefix", "seq", "len"}

\* The policy's budget covers the longest script and the header sweep: 2^24
\* records against 387 and 329.
ASSUME DemosAssumption ==
  /\ RecordCounts \subseteq Int /\ SmallLimit \in Nat \ {0} /\ Restarts \in Nat
  /\ FieldMasks \in [Fields -> Seq(Nat \ {0})]
  /\ DefaultLimit \in Nat /\ SeqSpace >= DefaultLimit
  /\ DefaultLimit >= 387
  /\ DefaultLimit >= 9 + Len(FieldMasks["version"]) + Len(FieldMasks["suite"])
                       + Len(FieldMasks["type"]) + Len(FieldMasks["session"])
                       + Len(FieldMasks["stream"]) + Len(FieldMasks["prefix"])
                       + Len(FieldMasks["seq"]) + Len(FieldMasks["len"])
  /\ DefaultWindow \in Nat \ {0}

\* Header fields are numbers; there is another value wherever TR-4 writes one, and
\* its payload is not one byte long.
ASSUME ValuesAssumption ==
  /\ Suites \subseteq Int /\ Prefixes \subseteq Int
  /\ \A own \in Suites : \E x \in Suites : x # own
  /\ \A set \in {RecordTypes, StreamIds, Sessions} : \E x \in set : x # 1
  /\ {"empty", "text"} \subseteq Payloads /\ PayloadLen["text"] # 1

VARIABLES suite, count,     \* --suite and --records
          demo, pc,         \* the demonstration and its next step
          where,            \* "running", "done" or "raised"
          channels,         \* the channels it has opened
          drawn,            \* the first nonces of the restarts it has simulated
          missed,           \* has a check of this demonstration failed
          outcomes          \* Evidence.outcomes

vars == <<suite, count, demo, pc, where, channels, drawn, missed, outcomes>>

Windows(size) == INSTANCE ReplayWindow WITH WindowSize <- size

AllVerdicts == {"ACCEPTED", "MALFORMED", "SUITE_MISMATCH", "SESSION_MISMATCH",
                "REPLAY_DETECTED", "STALE_RECORD", "AUTH_FAILED"}
Rejected == AllVerdicts \ {"ACCEPTED"}

(***************************************************************************)
(* Steps of a script.  "wanted" is what a check asks of the verdict,       *)
(* "fatal" are the verdicts the narration cannot describe, "skip" the      *)
(* steps a failure leaves out, "still" a window that must not move.        *)
(***************************************************************************)
Attack(kind, field, value) == [kind |-> kind, field |-> field, value |-> value]
Unaltered == Attack("none", "none", 0)
Damaged == Attack("damage", "none", 0)
Forged == Attack("forge", "none", 0)
Shortened(n) == Attack("cut", "none", n)
Rewrite(field, value) == Attack("set", field, value)
FlipBit(field, mask) == Attack("flip", field, mask)

Step(op) == [op |-> op, payload |-> "text", attack |-> Unaltered, to |-> "peer",
             wanted |-> AllVerdicts, fatal |-> {}, skip |-> 0, n |-> -1, size |-> DefaultWindow,
             on |-> 1, still |-> FALSE]

Open(size, limit) == [Step("open") EXCEPT !.size = size, !.n = limit]
NewChannel == Open(DefaultWindow, DefaultLimit)
Sends(n) == [i \in 1 .. n |-> Step("send")]
Probe(attack, wanted) == [Step("probe") EXCEPT !.attack = attack, !.wanted = wanted]
Again(n, attack, wanted) == [Step("again") EXCEPT !.n = n, !.attack = attack, !.wanted = wanted]
Times(n, step) == [i \in 1 .. n |-> step]
On(c, steps) == [i \in DOMAIN steps |-> [steps[i] EXCEPT !.on = c]]

\* The narration reads verdict.reason.value; it reads the length of the plaintext.
NeedsReason(step) == [step EXCEPT !.fatal = {"ACCEPTED"}]
NeedsPlaintext(step) == [step EXCEPT !.fatal = Rejected]

(***************************************************************************)
(* The seven scripts                                                       *)
(***************************************************************************)
Accepted == Probe(Unaltered, {"ACCEPTED"})

TR1 ==
  <<NewChannel, [Accepted EXCEPT !.payload = "empty"]>>
    \o Times(4, Accepted)
    \o <<NeedsPlaintext(Accepted), Accepted>>

TR2 ==
  <<NewChannel, NeedsReason(Probe(Damaged, {"AUTH_FAILED"}))>>
    \o Times(64, Probe(Damaged, {"AUTH_FAILED"}))
    \o <<NeedsReason(Probe(Shortened(4), {"MALFORMED"}))>>

TR3 ==
  <<NewChannel, NeedsReason(Probe(Damaged, {"AUTH_FAILED"}))>>
    \o Times(128, Probe(Damaged, {"AUTH_FAILED"}))
    \o Times(256, Probe(Damaged, Rejected))
    \o <<Probe(Damaged, {"AUTH_FAILED"}), NeedsReason(Probe(Shortened(4), {"MALFORMED"}))>>

TR4Cases(own) ==
  LET other(set, x) == CHOOSE y \in set : y # x
  IN  <<Rewrite("type", other(RecordTypes, 1)), Rewrite("type", other(RecordTypes, 1)),
        Rewrite("stream", other(StreamIds, 1)), Rewrite("prefix", DeadBeef),
        Rewrite("seq", 5000), Rewrite("session", other(Sessions, 1)),
        Rewrite("suite", other(Suites, own)), Rewrite("len", 1)>>

\* What the attribution of the header sweep asks for.
Attribution(field) ==
  CASE field = "version" -> Rejected
    [] field = "suite" -> {"SUITE_MISMATCH"}
    [] field = "session" -> {"SESSION_MISMATCH"}
    [] field = "len" -> {"MALFORMED"}
    [] OTHER -> {"AUTH_FAILED"}

SweepOf(field) ==
  [b \in 1 .. Len(FieldMasks[field]) |->
     Probe(FlipBit(field, FieldMasks[field][b]), Attribution(field))]

Sweep ==
  SweepOf("version") \o SweepOf("suite") \o SweepOf("type") \o SweepOf("session")
    \o SweepOf("stream") \o SweepOf("prefix") \o SweepOf("seq") \o SweepOf("len")

TR4(own) ==
  <<NewChannel, Step("send")>>
    \o [i \in 1 .. 8 |-> Probe(TR4Cases(own)[i], Rejected)]
    \o Sweep

\* Delivery order on TR-5's second channel.
Order == <<3, 0, 7, 1, 5, 2, 6, 4>>

TR5 ==
  <<NewChannel, Step("send"),
    Again(0, Unaltered, {"ACCEPTED"}),
    NeedsReason(Again(0, Unaltered, {"REPLAY_DETECTED"}))>>
    \o Times(100, Again(0, Unaltered, Rejected))
    \o On(2, <<Open(SmallWindow, DefaultLimit)>> \o Sends(32)
             \o [i \in DOMAIN Order |->
                   [Again(Order[i], Unaltered, {"ACCEPTED"}) EXCEPT !.skip = Len(Order) - i]]
             \o <<Again(3, Unaltered, {"REPLAY_DETECTED"}),
                  Again(19, Unaltered, AllVerdicts), Step("look"),
                  Again(12, Unaltered, {"ACCEPTED"}),
                  NeedsReason(Again(11, Unaltered, {"STALE_RECORD"}))>>)
    \o On(3, <<NewChannel, Probe(Unaltered, AllVerdicts), Step("look"),
               [Probe(Rewrite("seq", SeqSpace \div 2), AllVerdicts) EXCEPT !.still = TRUE],
               Accepted>>)
    \o <<NeedsReason(Again(0, Rewrite("seq", 999999), {"AUTH_FAILED"}))>>

TR6 ==
  <<NewChannel, Step("send"),
    Again(0, Unaltered, {"ACCEPTED"}),
    NeedsReason([Again(0, Unaltered, {"AUTH_FAILED"}) EXCEPT !.to = "stranger"])>>
    \o Times(100, [Probe(Unaltered, Rejected) EXCEPT !.to = "stranger"])
    \o Times(256, [Probe(Unaltered, Rejected) EXCEPT !.to = "near_miss"])
    \o <<Probe(Unaltered, AllVerdicts), NeedsReason(Again(-1, Forged, {"AUTH_FAILED"}))>>

TR7(records) ==
  <<NewChannel>>
    \o [i \in 1 .. records |-> [Accepted EXCEPT !.n = i - 1]]
    \o <<Step("range")>>
    \o Times(Restarts, Step("restart"))
    \o On(2, <<Open(DefaultWindow, SmallLimit)>> \o Sends(SmallLimit)
             \o Times(6, Step("overrun")))

Scripts == [own \in Suites |-> [records \in RecordCounts |->
             <<TR1, TR2, TR3, TR4(own), TR5, TR6, TR7(records)>>]]

Script == Scripts[suite][count][demo]

(***************************************************************************)
(* Channels, records and attacks                                           *)
(***************************************************************************)
OwnSession == 1
OwnStream == 1
Data == 1

\* create_channel, and the second receiver of TR-6: each receiver holds a key.
FreshReceivers(size) ==
  [who \in {"peer", "stranger"} |->
     [key |-> IF who = "peer" THEN "K" ELSE "K2", size |-> size,
      windows |-> [k \in {} |-> 0]]]

\* Bit by bit, a key that is not the sender's; its receiver is used once.
NearMiss == [key |-> "near_K", size |-> DefaultWindow, windows |-> [k \in {} |-> 0]]

\* The record a channel's sender makes of a payload under a sequence number.
Protected(channel, seq, payload) ==
  LET h == Header(suite, OwnSession, OwnStream, channel.sender.prefix, seq, Data,
                  PayloadLen[payload])
  IN  [header |-> h, body |-> Seal("K", suite, HeaderNonce(h), payload, h)]

Flipped(x, mask) == IF (x \div mask) % 2 = 0 THEN x + mask ELSE x - mask

\* What the malicious actor delivers instead.
Attacked(w, attack) ==
  LET f == attack.field
  IN  CASE attack.kind = "none" -> w
        [] attack.kind = "damage" -> [w EXCEPT !.body.intact = FALSE]
        [] attack.kind = "cut" -> [w EXCEPT !.body.intact = FALSE, !.body.len = @ - attack.value]
        [] attack.kind = "set" -> [w EXCEPT !.header[f] = attack.value]
        [] attack.kind = "flip" -> [w EXCEPT !.header[f] = Flipped(@, attack.value)]
        [] attack.kind = "forge" ->
             LET h == [w.header EXCEPT !.seq = @ + 1]
             IN  [header |-> h, body |-> Seal("rogue", suite, HeaderNonce(h), "text", h)]

WindowFor(r, k) == IF k \in DOMAIN r.windows THEN r.windows[k] ELSE Windows(r.size)!EmptyWindow

\* Receiver.receive: framing, suite, session, replay, authentication.
Verdict(r, w) ==
  LET h == w.header
      replay == Windows(r.size)!WindowCheck(WindowFor(r, StreamKey(h)), h.seq)
  IN  IF ~ Parses(w) THEN "MALFORMED"
      ELSE IF h.suite # suite THEN "SUITE_MISMATCH"
      ELSE IF h.session # OwnSession THEN "SESSION_MISMATCH"
      ELSE IF replay = "DUPLICATE" THEN "REPLAY_DETECTED"
      ELSE IF replay = "TOO_OLD" THEN "STALE_RECORD"
      ELSE IF ~ Opens(r.key, suite, HeaderNonce(h), w.body, h) THEN "AUTH_FAILED"
      ELSE "ACCEPTED"

Committed(r, w) ==
  LET k == StreamKey(w.header)
  IN  [r EXCEPT !.windows = [j \in DOMAIN @ \cup {k} |->
         IF j = k THEN Windows(r.size)!WindowCommit(WindowFor(r, k), w.header.seq) ELSE @[j]]]

\* (mutant) The window moves before the record is authenticated.
Received_CommitsEarly(r, w) ==
  IF Verdict(r, w) \in {"ACCEPTED", "AUTH_FAILED"} THEN Committed(r, w) ELSE r

\* The receiver after Receiver.receive.
Received(r, w) == IF Verdict(r, w) = "ACCEPTED" THEN Committed(r, w) ELSE r

(***************************************************************************)
(* Running a script                                                        *)
(***************************************************************************)
Init ==
  /\ suite \in Suites /\ count \in RecordCounts
  /\ demo = 1 /\ pc = 1 /\ where = "running"
  /\ channels = <<>> /\ drawn = <<>> /\ missed = FALSE
  /\ outcomes = <<>>

Doing(ops) == where = "running" /\ pc <= Len(Script) /\ Script[pc].op \in ops

Now == Script[pc]
Channel == channels[Now.on]

\* The step is done, and the check on what it saw comes out as given.
Goes(holds) ==
  /\ pc' = IF holds THEN pc + 1 ELSE pc + 1 + Now.skip
  /\ missed' = (missed \/ ~ holds)
  /\ UNCHANGED <<suite, count, demo, where, outcomes>>

\* An exception leaves the demonstration, and the program.
Raises ==
  /\ where' = "raised"
  /\ UNCHANGED <<suite, count, demo, pc, channels, drawn, missed, outcomes>>

OpenChannel ==
  /\ Doing({"open"})
  /\ \E prefix \in Prefixes :
       channels' = Append(channels, [sender |-> NewManager(prefix, 0, Now.n),
                                     receivers |-> FreshReceivers(Now.size)])
  /\ Goes(TRUE)
  /\ UNCHANGED drawn

SendOnly ==
  /\ Doing({"send"})
  /\ IF Exhausted(Channel.sender)
     THEN Raises
     ELSE /\ channels' = [channels EXCEPT ![Now.on].sender = Allocate(@)]
          /\ Goes(TRUE)
          /\ UNCHANGED drawn

\* A delivery, what the checks ask of it, and what the narration cannot say.
Deliver(w, mgr) ==
  LET who == Now.to
      r == IF who = "near_miss" THEN NearMiss ELSE Channel.receivers[who]
      v == Verdict(r, w)
      k == <<OwnSession, OwnStream>>
      stays == WindowFor(Received(r, w), k).highest = WindowFor(r, k).highest
      numbered == Now.n \in {-1, w.header.seq}
  IN  IF v \in Now.fatal
      THEN Raises
      ELSE /\ channels' = [channels EXCEPT
                ![Now.on] = [sender |-> mgr,
                             receivers |-> [x \in DOMAIN @.receivers |->
                               IF x = who THEN Received(r, w) ELSE @.receivers[x]]]]
           /\ Goes(v \in Now.wanted /\ (Now.still => stays) /\ (Now.op = "probe" => numbered))
           /\ UNCHANGED drawn

\* channel.send, the attack, channel.deliver.
SendAndDeliver ==
  /\ Doing({"probe"})
  /\ IF Exhausted(Channel.sender)
     THEN Raises
     ELSE Deliver(Attacked(Protected(Channel, Channel.sender.next, Now.payload), Now.attack),
                  Allocate(Channel.sender))

\* A record sent before, by its number; the last one without.
DeliverAgain ==
  /\ Doing({"again"})
  /\ LET seq == IF Now.n < 0 THEN Channel.sender.next - 1 ELSE Now.n
     IN  Deliver(Attacked(Protected(Channel, seq, "text"), Now.attack), Channel.sender)

\* The demonstration reads the receiver's window; there is none before it has
\* accepted a record.
LookAtWindow ==
  /\ Doing({"look"})
  /\ IF DOMAIN Channel.receivers["peer"].windows = {}
     THEN Raises
     ELSE Goes(TRUE) /\ UNCHANGED <<channels, drawn>>

\* TR-7 shows the first and the last of the numbers it has seen.
ShowRange ==
  /\ Doing({"range"})
  /\ IF count < 1 THEN Raises ELSE Goes(TRUE) /\ UNCHANGED <<channels, drawn>>

\* A sender is built anew over the one key and sends its first record.
RestartSender ==
  /\ Doing({"restart"})
  /\ \E prefix \in Prefixes :
       LET nonce == AllocatedNonce(NewManager(prefix, 0, DefaultLimit))
       IN  /\ drawn' = Append(drawn, nonce)
           /\ Goes(\A i \in DOMAIN drawn : drawn[i] # nonce)
  /\ UNCHANGED channels

\* A send past the budget, whose NonceExhaustedError is caught.
Overrun ==
  /\ Doing({"overrun"})
  /\ channels' = [channels EXCEPT ![Now.on].sender = IF Exhausted(@) THEN @ ELSE Allocate(@)]
  /\ Goes(Exhausted(Channel.sender))
  /\ UNCHANGED drawn

\* Evidence.end, and the next of DEMOS.
EndDemo ==
  /\ where = "running"
  /\ pc = Len(Script) + 1
  /\ outcomes' = Append(outcomes, IF missed THEN "FAIL" ELSE "PASS")
  /\ IF demo = 7
     THEN where' = "done" /\ UNCHANGED demo
     ELSE demo' = demo + 1 /\ UNCHANGED where
  /\ pc' = 1 /\ channels' = <<>> /\ drawn' = <<>> /\ missed' = FALSE
  /\ UNCHANGED <<suite, count>>

Next ==
  \/ OpenChannel \/ SendOnly \/ SendAndDeliver \/ DeliverAgain \/ LookAtWindow
  \/ ShowRange \/ RestartSender \/ Overrun \/ EndDemo

Spec == Init /\ [][Next]_vars

(***************************************************************************)
(* Properties                                                              *)
(***************************************************************************)
\* A testing requirement is reported as failed for one reason only, chance: the
\* sender drew the prefix that TR-4 writes (run_demo.py:355), or two of TR-7's
\* restarts drew the same one (737-741).  Windows, attacks and earlier
\* deliveries never make a check fail.
FailsByChanceOnly ==
  missed =>
    \/ demo = 4 /\ channels[1].sender.prefix = DeadBeef
    \/ demo = 7 /\ Cardinality({drawn[i] : i \in DOMAIN drawn}) < Len(drawn)

\* The program ends in an exception only if --records is less than one, or more
\* than the budget of a channel: no verdict leaves a narration without words
\* (205, 474, 522) or a demonstration without its window (495, 505).
RaisesForRecordsOnly == where = "raised" => demo = 7 /\ count \notin 1 .. DefaultLimit
=============================================================================

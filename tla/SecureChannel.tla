---------------------------- MODULE SecureChannel ----------------------------
(***************************************************************************)
(* Senders, an active attacker and one receiver.  The senders of a key put *)
(* genuine records on a network the attacker controls: any record it can   *)
(* build from what was sent may reach the receiver, at any time, in any    *)
(* order, any number of times, or never.                                   *)
(***************************************************************************)
EXTENDS Receiver, Adversary

CONSTANTS SenderIds,
          SenderConf,       \* id -> [key, session, stream, prefix, start, limit, says,
                            \* misfits]; says is the set of <<type, payload>> its
                            \* application hands it, misfits whether some of what it
                            \* hands it does not fit the header
          MaxRejects,       \* bound: rejections counted in one life of the receiver
          MaxRestarts       \* bound: how often the receiver is rebuilt

ASSUME ChannelAssumption == /\ MaxRejects \in Nat /\ MaxRestarts \in Nat
                            /\ \A h \in ForgedHeaders : StreamKey(h) \in StreamKeys /\ h.seq \in Seqs

ASSUME ConfAssumption ==
  \A s \in SenderIds :
    LET c == SenderConf[s]
    IN  /\ c.session \in Sessions /\ c.stream \in StreamIds /\ c.prefix \in Prefixes
        /\ Admissible(c.start, c.limit) /\ c.start .. c.start + c.limit - 1 \subseteq Seqs
        /\ c.limit \in Nat /\ c.misfits \in BOOLEAN
        /\ c.says \subseteq RecordTypes \X Payloads

\* What the proofs need of cryptography beyond Opens: the attacker's key is its own.
ASSUME KeyAssumption == RogueKey # ReceiverKey

VARIABLES mgr,              \* sender -> its nonce manager
          sent,             \* every genuine record ever put on the wire
          delivered,        \* history: records this receiver has accepted
          restarts          \* history: how often it was rebuilt

vars == <<streams, accepted, stats, pinned, mgr, sent, delivered, restarts>>

Init ==
  /\ ReceiverInit
  /\ mgr = [s \in SenderIds |-> NewManager(SenderConf[s].prefix, SenderConf[s].start, SenderConf[s].limit)]
  /\ sent = {}
  /\ delivered = {}
  /\ restarts = 0

\* Sender.seal and to_bytes: allocate, build the header, seal with it as AAD.
Send(s, type, payload) ==
  LET c == SenderConf[s]
      h == Header(ReceiverSuite, c.session, c.stream, c.prefix, mgr[s].next, type,
                  PayloadLen[payload])
  IN  /\ ~ Exhausted(mgr[s])
      /\ mgr' = [mgr EXCEPT ![s] = Allocate(@)]
      /\ sent' = sent \cup
           {[header |-> h,
             body |-> Seal(c.key, ReceiverSuite, AllocatedNonce(mgr[s]), payload, h)]}
      /\ UNCHANGED <<streams, accepted, stats, pinned, delivered, restarts>>

\* Sender.seal that raises after the allocation, because the stream id, record type
\* or flags do not fit the header: the number is spent and nothing goes on the wire.
BurnsNonce(s) ==
  /\ SenderConf[s].misfits
  /\ ~ Exhausted(mgr[s])
  /\ mgr' = [mgr EXCEPT ![s] = Allocate(@)]
  /\ UNCHANGED <<streams, accepted, stats, pinned, sent, delivered, restarts>>

DeliverAccepted(w) ==
  /\ Accept(w)
  /\ delivered' = delivered \cup {w}
  /\ UNCHANGED <<mgr, sent, restarts>>

DeliverRejected(w) ==
  /\ RejectedTotal < MaxRejects
  /\ Reject(w)
  /\ UNCHANGED <<mgr, sent, delivered, restarts>>

\* The receiver process restarts: a new Receiver over the same key.
Restart ==
  /\ restarts < MaxRestarts
  /\ Rebuild
  /\ delivered' = {}
  /\ restarts' = restarts + 1
  /\ UNCHANGED <<mgr, sent>>

Next ==
  \/ \E s \in SenderIds : \E x \in SenderConf[s].says : Send(s, x[1], x[2])
  \/ \E s \in SenderIds : BurnsNonce(s)
  \/ \E w \in Injectable(sent) : DeliverAccepted(w) \/ DeliverRejected(w)
  \/ Restart

Spec == Init /\ [][Next]_vars

(***************************************************************************)
(* Properties                                                              *)
(***************************************************************************)
Slot(w) == <<w.header.session, w.header.stream, w.header.seq>>

ChannelTypeOK ==
  /\ Guard!TypeOK
  /\ stats \in [accepted : Nat, bytes : Nat, rejected : [RejectReasons -> Nat]]
  /\ mgr \in [SenderIds -> Manager]
  /\ delivered \subseteq sent
  /\ restarts \in 0 .. MaxRestarts

\* The channel as a whole, attacker included, does no more than an ideal one:
\* what is delivered was sent, bit for bit, and no place in a stream is filled
\* twice in one life of the receiver (receiver.py:188-282 against adversary.py).
Ideal == INSTANCE IdealChannel

ImplementsIdealChannel == Ideal!Spec

\* Every acceptance handed the application a different record: the counters are
\* those of the set of delivered records (receiver.py:276-277), so no record was
\* delivered a second time under cover of the first.
DeliveredOnce ==
  /\ stats.accepted = Cardinality(delivered)
  /\ stats.bytes = Sets!MapThenSumSet(LAMBDA w : PayloadLen[w.body.payload], delivered)

\* The replay guard remembers exactly what was delivered.  An injected record
\* that fails leaves no trace in it, so it can neither slide a window past
\* genuine records nor use up a stream (replay.py:25-41), and an accepted one is
\* never missing although the result of commit is ignored (receiver.py:273).
GuardMirrorsDelivered ==
  \A k \in StreamKeys :
    /\ accepted[k] = {w.header.seq : w \in {d \in delivered : StreamKey(d.header) = k}}
    /\ k \in Guard!Tracked <=> accepted[k] # {}

\* The invariant the proofs rest on: the wire holds sealed records only, as their
\* senders numbered them, and guard, counters and delivered records agree.
GenuineHeader ==
  [version : {ProtocolVersion}, suite : {ReceiverSuite}, type : RecordTypes,
   session : Sessions, stream : StreamIds, prefix : Prefixes, seq : Seqs, len : Nat]

Sealed(w) ==
  /\ w = [header |-> w.header, body |-> w.body]
  /\ w.header \in GenuineHeader
  /\ \E s \in SenderIds, p \in Payloads :
       /\ w.header.len = PayloadLen[p]
       /\ w.body = Seal(SenderConf[s].key, ReceiverSuite, HeaderNonce(w.header), p, w.header)

SenderOnTrack(s) ==
  /\ mgr[s].prefix = SenderConf[s].prefix
  /\ mgr[s].limit = SenderConf[s].limit
  /\ mgr[s].next = SenderConf[s].start + mgr[s].issued

ChannelExact ==
  /\ ChannelTypeOK
  /\ Guard!HistoryExact
  /\ \A w \in sent : Sealed(w)
  /\ \A s \in SenderIds : SenderOnTrack(s)
  /\ GuardMirrorsDelivered
  /\ IsFiniteSet(delivered)
  /\ stats.accepted = Cardinality(delivered)

\* What a genuine record of this key and session meets depends on nothing but
\* what was delivered before: the attacker cannot have it refused, or refused for
\* another reason, by anything it injects (replay.py:25-28, receiver.py:230-257).
ExpectedVerdict(w) ==
  LET Ours == {d \in delivered : StreamKey(d.header) = StreamKey(w.header)}
  IN  IF \E d \in Ours : d.header.seq - w.header.seq >= WindowSize THEN "STALE_RECORD"
      ELSE IF \E d \in Ours : Slot(d) = Slot(w) THEN "REPLAY_DETECTED"
      ELSE IF Ours = {} /\ Cardinality({StreamKey(d.header) : d \in delivered}) >= MaxStreams
           THEN "STALE_RECORD"
      ELSE "ACCEPTED"

GenuineVerdict ==
  \A w \in sent :
    (w.body.key = ReceiverKey /\ pinned \in {NotPinned, w.header.session})
      => Verdict(w) = ExpectedVerdict(w)
=============================================================================

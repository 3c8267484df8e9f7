---------------------------- MODULE ChannelProofs ----------------------------
(***************************************************************************)
(* Proofs about SecureChannel for every set of senders, sessions, streams, *)
(* records and numbers, every window and every cap.  What they need of the *)
(* guard are the lemmas of ReplayGuardProofs.                              *)
(***************************************************************************)
EXTENDS SecureChannel, FiniteSetTheorems, TLAPS

Lib == INSTANCE ReplayGuardProofs

(***************************************************************************)
(* The receiver's guard is the guard the lemmas are about                  *)
(***************************************************************************)
\* An instance has its own copy of the standard operators.
LEMMA SameFinite ==
  \A S : /\ Guard!IsFiniteSet(S) <=> IsFiniteSet(S)
         /\ Lib!IsFiniteSet(S) <=> IsFiniteSet(S)
         /\ Guard!Cardinality(S) = Cardinality(S)
         /\ Lib!Cardinality(S) = Cardinality(S)
<1>1. \A S : Guard!IsFiniteSet(S) <=> IsFiniteSet(S)
  BY DEF Guard!IsFiniteSet, IsFiniteSet
<1>2. \A S : Lib!IsFiniteSet(S) <=> IsFiniteSet(S)
  BY DEF Lib!IsFiniteSet, IsFiniteSet
<1>3. \A S : Guard!Cardinality(S) = Cardinality(S)
  BY DEF Guard!Cardinality, Cardinality
<1>4. \A S : Lib!Cardinality(S) = Cardinality(S)
  BY DEF Lib!Cardinality, Cardinality
<1> QED
  BY <1>1, <1>2, <1>3, <1>4

LEMMA SameWindows ==
  /\ Guard!Tracked = Lib!Tracked
  /\ Guard!AtCap <=> Lib!AtCap
  /\ \A k : Guard!WindowOf(k) = Lib!WindowOf(k)
<1>1. Guard!Tracked = Lib!Tracked
  BY DEF Guard!Tracked, Lib!Tracked
<1>2. \A k : Guard!WindowOf(k) = Lib!WindowOf(k)
  BY <1>1 DEF Guard!WindowOf, Lib!WindowOf, Guard!EmptyWindow, Lib!EmptyWindow
<1>3. Guard!AtCap <=> Lib!AtCap
  BY <1>1, SameFinite DEF Guard!AtCap, Lib!AtCap
<1> QED
  BY <1>1, <1>2, <1>3

LEMMA SameExact == Guard!HistoryExact <=> Lib!HistoryExact
<1>1. \A w, h : Guard!WindowExact(w, h) <=> Lib!WindowExact(w, h)
  BY SameFinite DEF Guard!WindowExact, Lib!WindowExact
<1>2. Guard!TypeOK <=> Lib!TypeOK
  BY SameWindows DEF Guard!TypeOK, Lib!TypeOK, Guard!Window, Lib!Window
<1> QED
  BY <1>1, <1>2, SameWindows, SameFinite DEF Guard!HistoryExact, Lib!HistoryExact

LEMMA SameChecks == \A k, s : Guard!GuardCheck(k, s) = Lib!GuardCheck(k, s)
BY SameWindows DEF Guard!GuardCheck, Lib!GuardCheck, Guard!WindowCheck, Lib!WindowCheck,
   Guard!Ahead, Lib!Ahead, Guard!Behind, Lib!Behind

LEMMA SameTakes == \A k, s : Guard!GuardTakes(k, s) <=> Lib!GuardTakes(k, s)
BY SameWindows DEF Guard!GuardTakes, Lib!GuardTakes, Guard!WindowTakes, Lib!WindowTakes,
   Guard!Ahead, Lib!Ahead, Guard!Behind, Lib!Behind

LEMMA SameActions ==
  /\ Guard!Init <=> Lib!Init
  /\ Guard!Reset <=> Lib!Reset
  /\ \A k, s : Guard!Commit(k, s) <=> Lib!Commit(k, s)
<1>1. (Guard!Init <=> Lib!Init) /\ (Guard!Reset <=> Lib!Reset)
  BY DEF Guard!Init, Lib!Init, Guard!Reset, Lib!Reset, Guard!EmptyWindow, Lib!EmptyWindow
<1>2. ASSUME NEW k, NEW s PROVE Guard!Commit(k, s) <=> Lib!Commit(k, s)
  <2>1. \A w : Guard!WindowCommit(w, s) = Lib!WindowCommit(w, s)
    BY DEF Guard!WindowTakes, Lib!WindowTakes, Guard!Ahead, Lib!Ahead, Guard!Behind,
       Lib!Behind, Guard!WindowCommit, Lib!WindowCommit, Guard!Shifted, Lib!Shifted
  <2> QED
    BY <2>1, SameWindows, SameTakes DEF Guard!Commit, Lib!Commit
<1> QED
  BY <1>1, <1>2

\* The receiver gives the guard what it assumes of its parameters.
LEMMA GuardParameters == WindowSize \in Nat /\ MaxStreams \in Nat /\ Seqs \subseteq Int
BY ReceiverAssumption

\* The guard's lemmas, about the receiver's guard.
LEMMA GuardSteps ==
  /\ Guard!Init => Guard!HistoryExact
  /\ Guard!Reset => (Guard!HistoryExact)'
  /\ \A k \in StreamKeys, s \in Seqs :
       Guard!HistoryExact /\ Guard!Commit(k, s) => (Guard!HistoryExact)'
  /\ Guard!HistoryExact /\ UNCHANGED <<streams, accepted>> => (Guard!HistoryExact)'
<1>0. WindowSize \in Nat /\ MaxStreams \in Nat /\ Seqs \subseteq Int
  BY GuardParameters
<1>1. Guard!Init => Guard!HistoryExact
  BY <1>0, SameExact, SameActions, Lib!InitExact
<1>2. (Guard!HistoryExact <=> Lib!HistoryExact)'
  BY SameExact, PTL
<1>3. Guard!Reset => (Guard!HistoryExact)'
  BY <1>0, <1>2, SameActions, Lib!ResetExact
<1>4. ASSUME NEW k \in StreamKeys, NEW s \in Seqs, Guard!HistoryExact, Guard!Commit(k, s)
      PROVE  (Guard!HistoryExact)'
  <2>1. Lib!HistoryExact /\ Lib!Commit(k, s)
    BY <1>4, SameExact, SameActions
  <2> QED
    BY <1>0, <1>2, <2>1, Lib!CommitExact
<1>5. Guard!HistoryExact /\ UNCHANGED <<streams, accepted>> => (Guard!HistoryExact)'
  BY <1>0, <1>2, SameExact, Lib!UnchangedExact DEF Lib!vars
<1> QED
  BY <1>1, <1>3, <1>4, <1>5

LEMMA GuardChecks ==
  ASSUME Guard!HistoryExact, NEW k \in StreamKeys, NEW s \in Seqs
  PROVE  /\ Guard!GuardCheck(k, s) =
              IF \E t \in accepted[k] : t - s >= WindowSize THEN "TOO_OLD"
              ELSE IF s \in accepted[k] THEN "DUPLICATE"
              ELSE IF k \notin Guard!Tracked /\ Guard!AtCap THEN "INVALID" ELSE "FRESH"
         /\ Guard!GuardTakes(k, s) <=> Guard!GuardCheck(k, s) = "FRESH"
<1>1. /\ WindowSize \in Nat /\ MaxStreams \in Nat /\ Seqs \subseteq Int
      /\ s \in Nat
  BY ReceiverAssumption
<1>2. Lib!HistoryExact
  BY SameExact
<1>3. Lib!GuardCheck(k, s) =
        IF \E t \in accepted[k] : t - s >= WindowSize THEN "TOO_OLD"
        ELSE IF s \in accepted[k] THEN "DUPLICATE"
        ELSE IF k \notin Lib!Tracked /\ Lib!AtCap THEN "INVALID" ELSE "FRESH"
  BY <1>1, <1>2, Lib!CheckOfHistory
<1>4. Lib!GuardTakes(k, s) <=> Lib!GuardCheck(k, s) = "FRESH"
  BY <1>1, <1>2, Lib!TakesWhatIsFresh
<1> QED
  BY <1>3, <1>4, SameWindows, SameChecks, SameTakes

(***************************************************************************)
(* The attacker                                                            *)
(***************************************************************************)
\* Of everything the attacker can inject, the receiver accepts only what was
\* sent: the AEAD binds every field of the header to the body.
LEMMA AcceptedWasSent ==
  ASSUME \A v \in sent : Sealed(v),
         NEW w \in Injectable(sent), Verdict(w) = "ACCEPTED"
  PROVE  w \in sent
<1>1. Parses(w) /\ Opens(ReceiverKey, ReceiverSuite, HeaderNonce(w.header), w.body, w.header)
  BY DEF Verdict
<1>2. CASE w = Noise
  BY <1>1, <1>2 DEF Parses
<1>3. ASSUME NEW v \in sent, w \in Tamper(v) PROVE FALSE
  <2> DEFINE h == v.header
  <2>1. Sealed(v) /\ h \in GenuineHeader
    BY DEF Sealed
  <2>2. v.body.aad = h
    BY <2>1 DEF Sealed, Seal
  <2>3. w.header # h /\ w.body = v.body
    BY <1>3 DEF Tamper
  <2> QED
    BY <1>1, <2>2, <2>3 DEF Opens
<1>4. ASSUME NEW v \in sent, w \in Damage(v) PROVE FALSE
  <2>1. Sealed(v)
    OBVIOUS
  <2>2. w.body.intact = FALSE
    BY <1>4, <2>1 DEF Damage, Sealed, Seal
  <2> QED
    BY <1>1, <2>2 DEF Opens
<1>5. ASSUME NEW v \in sent, w \in Truncate(v) PROVE w \in sent
  <2>1. Sealed(v)
    OBVIOUS
  <2>2. PICK s \in SenderIds, p \in Payloads :
          v.body = Seal(SenderConf[s].key, ReceiverSuite, HeaderNonce(v.header), p, v.header)
    BY <2>1 DEF Sealed
  <2>3. v = [header |-> v.header, body |-> v.body]
    BY <2>1 DEF Sealed
  <2> DEFINE cut == [v.body EXCEPT !.intact = FALSE, !.len = @ - 1]
  <2>4. cut.intact = FALSE
    BY <2>2 DEF Seal
  <2>5. w = v \/ w = [v EXCEPT !.body.intact = FALSE, !.body.len = @ - 1]
    BY <1>5 DEF Truncate
  <2>6. [v EXCEPT !.body.intact = FALSE, !.body.len = @ - 1].body = cut
    BY <2>3
  <2> HIDE DEF cut
  <2>7. w = v \/ w.body.intact = FALSE
    BY <2>4, <2>5, <2>6
  <2> QED
    BY <1>1, <2>7 DEF Opens
<1>6. CASE w \in Forge
  <2>1. PICK h, p : w = Forgery(h, p)
    BY <1>6 DEF Forge
  <2>2. w.body.key = RogueKey
    BY <2>1 DEF Forgery, Seal
  <2> QED
    BY <1>1, <2>2, KeyAssumption DEF Opens
<1>7. ASSUME NEW u \in sent, NEW v \in sent, w \in Splice(u, v) PROVE w \in sent
  <2>1. Sealed(u) /\ Sealed(v)
    OBVIOUS
  <2>2. w = [header |-> u.header, body |-> v.body]
    BY <1>7 DEF Splice
  <2>3. u.header = v.header
    BY <1>1, <2>1, <2>2 DEF Opens, Sealed, Seal
  <2>4. w = v
    BY <2>1, <2>2, <2>3 DEF Sealed
  <2> QED
    BY <2>4
<1> QED
  BY <1>2, <1>3, <1>4, <1>5, <1>6, <1>7 DEF Injectable

(***************************************************************************)
(* Genuine records at the receiver                                         *)
(***************************************************************************)
LEMMA SealedTyped ==
  ASSUME NEW w, Sealed(w)
  PROVE  /\ StreamKey(w.header) \in StreamKeys
         /\ w.header.seq \in Seqs
         /\ w.header.seq \in Nat
         /\ w.body.len \in Nat
         /\ w.header.suite = ReceiverSuite
         /\ Parses(w)
<1>1. /\ w.header \in GenuineHeader
      /\ w.header.len \in Nat
      /\ w.body.len = w.header.len
  BY DEF Sealed, Seal, GenuineHeader
<1>2. w # Noise
  <2>1. w.header.version = 1 /\ w.header \in GenuineHeader
    BY <1>1 DEF GenuineHeader, ProtocolVersion
  <2> SUFFICES ASSUME w = Noise PROVE FALSE
    OBVIOUS
  <2>2. w = [header |-> w.header, body |-> w.body]
    BY DEF Sealed
  <2>3. DOMAIN w = {"header", "body"}
    BY <2>2
  <2>4. DOMAIN w = {"header"}
    BY DEF Noise
  <2> QED
    BY <2>3, <2>4
<1> QED
  BY <1>1, <1>2, ReceiverAssumption
  DEF GenuineHeader, StreamKey, StreamKeys, Parses

(***************************************************************************)
(* The invariant                                                           *)
(***************************************************************************)
LEMMA ConfTyped ==
  ASSUME NEW s \in SenderIds
  PROVE  /\ SenderConf[s].start \in Nat /\ SenderConf[s].limit \in Nat
         /\ SenderConf[s].prefix \in Prefixes
<1>1. SenderConf[s].start \in 0 .. SeqSpace - 1
  BY ConfAssumption DEF Admissible
<1> QED
  BY <1>1, SeqSpaceAssumption, ConfAssumption

LEMMA InitChannelExact == Init => ChannelExact
<1> SUFFICES ASSUME Init PROVE ChannelExact
  OBVIOUS
<1>1. Guard!Init /\ Guard!HistoryExact
  BY GuardSteps DEF Init, ReceiverInit
<1>2. Guard!TypeOK
  BY <1>1 DEF Guard!HistoryExact
<1>3. stats \in [accepted : Nat, bytes : Nat, rejected : [RejectReasons -> Nat]]
  BY DEF Init, ReceiverInit, FreshStats
<1>4. mgr \in [SenderIds -> Manager] /\ \A s \in SenderIds : SenderOnTrack(s)
  BY ConfTyped DEF Init, NewManager, Manager, SenderOnTrack
<1>5. ChannelTypeOK
  BY <1>2, <1>3, <1>4, ChannelAssumption DEF Init, ChannelTypeOK
<1>6. GuardMirrorsDelivered
  BY <1>1 DEF Init, GuardMirrorsDelivered, Guard!Init, Guard!Tracked
<1>7. IsFiniteSet(delivered) /\ stats.accepted = Cardinality(delivered)
  BY FS_EmptySet DEF Init, ReceiverInit, FreshStats
<1> QED
  BY <1>1, <1>4, <1>5, <1>6, <1>7 DEF Init, ChannelExact

\* A record that is accepted was sent, fills a place nothing has filled before,
\* and is committed: the result of commit can be ignored.
LEMMA AcceptEffect ==
  ASSUME ChannelExact, NEW w \in Injectable(sent), DeliverAccepted(w)
  PROVE  /\ w \in sent /\ Sealed(w)
         /\ Guard!Commit(StreamKey(w.header), w.header.seq)
         /\ Guard!Tracked' = Guard!Tracked \cup {StreamKey(w.header)}
         /\ accepted' = [accepted EXCEPT ![StreamKey(w.header)] = @ \cup {w.header.seq}]
         /\ \A d \in delivered : Slot(d) # Slot(w)
         /\ delivered' = delivered \cup {w}
<1> DEFINE k == StreamKey(w.header)
           n == w.header.seq
<1>1. Verdict(w) = "ACCEPTED" /\ delivered' = delivered \cup {w}
  BY DEF DeliverAccepted, Accept
<1>2. w \in sent /\ Sealed(w)
  BY <1>1, AcceptedWasSent DEF ChannelExact
<1>3. k \in StreamKeys /\ n \in Seqs
  BY <1>2, SealedTyped
<1>4. Guard!GuardCheck(k, n) \notin {"DUPLICATE", "TOO_OLD", "INVALID"}
  BY <1>1 DEF Verdict
<1>5. /\ Guard!GuardTakes(k, n)
      /\ n \notin accepted[k]
      /\ k \in Guard!Tracked \/ ~ Guard!AtCap
  BY <1>3, <1>4, GuardChecks DEF ChannelExact
<1>6. Guard!Commit(k, n)
  BY <1>1, <1>5 DEF DeliverAccepted, Accept, Guard!CommitRefused
<1>7. accepted' = [accepted EXCEPT ![k] = @ \cup {n}]
  BY <1>5, <1>6 DEF Guard!Commit
<1>8. Guard!Tracked' = Guard!Tracked \cup {k}
  BY <1>6 DEF Guard!Commit, Guard!Tracked
<1>9. ASSUME NEW d \in delivered, Slot(d) = Slot(w) PROVE FALSE
  <2>1. StreamKey(d.header) = k /\ d.header.seq = n
    BY <1>9 DEF Slot, StreamKey
  <2>2. n \in accepted[k]
    BY <1>3, <2>1 DEF ChannelExact, GuardMirrorsDelivered
  <2> QED
    BY <1>5, <2>2
<1> QED
  BY <1>1, <1>2, <1>6, <1>7, <1>8, <1>9

LEMMA AllocateKeeps ==
  ASSUME ChannelExact, NEW s \in SenderIds, mgr' = [mgr EXCEPT ![s] = Allocate(@)]
  PROVE  mgr' \in [SenderIds -> Manager] /\ \A t \in SenderIds : SenderOnTrack(t)'
<1> DEFINE m == mgr[s]
<1>1. /\ mgr \in [SenderIds -> Manager]
      /\ \A t \in SenderIds : SenderOnTrack(t)
  BY DEF ChannelExact, ChannelTypeOK
<1>2. /\ m.prefix \in Prefixes /\ m.start \in Nat /\ m.next \in Nat
      /\ m.limit \in Nat /\ m.issued \in Nat
  BY <1>1 DEF Manager
<1>3. Allocate(m) \in Manager
  BY <1>2 DEF Allocate, Manager
<1>4. mgr' \in [SenderIds -> Manager] /\ mgr'[s] = Allocate(m)
  BY <1>1, <1>3
<1>5. SenderOnTrack(s)'
  <2>1. /\ Allocate(m).prefix = m.prefix /\ Allocate(m).limit = m.limit
        /\ Allocate(m).next = m.next + 1 /\ Allocate(m).issued = m.issued + 1
    BY DEF Allocate
  <2>2. m.next = SenderConf[s].start + m.issued
    BY <1>1 DEF SenderOnTrack
  <2>3. m.next + 1 = SenderConf[s].start + (m.issued + 1)
    BY <1>2, <2>2, ConfTyped
  <2> QED
    BY <1>1, <1>4, <2>1, <2>3 DEF SenderOnTrack
<1>6. ASSUME NEW t \in SenderIds, t # s PROVE SenderOnTrack(t)'
  <2>1. mgr'[t] = mgr[t]
    BY <1>1, <1>6
  <2> QED
    BY <1>1, <2>1 DEF SenderOnTrack
<1> QED
  BY <1>4, <1>5, <1>6

LEMMA SendKeeps ==
  ASSUME ChannelExact, NEW s \in SenderIds, NEW x \in SenderConf[s].says,
         Send(s, x[1], x[2])
  PROVE  ChannelExact'
<1> DEFINE c == SenderConf[s]
           m == mgr[s]
           h == Header(ReceiverSuite, c.session, c.stream, c.prefix, m.next, x[1],
                       PayloadLen[x[2]])
           w == [header |-> h,
                 body |-> Seal(c.key, ReceiverSuite, AllocatedNonce(m), x[2], h)]
<1>1. /\ ~ Exhausted(m)
      /\ mgr' = [mgr EXCEPT ![s] = Allocate(@)]
      /\ sent' = sent \cup {w}
      /\ UNCHANGED <<streams, accepted, stats, delivered, restarts>>
  BY DEF Send
<1>2. /\ m \in Manager /\ SenderOnTrack(s)
      /\ x[1] \in RecordTypes /\ x[2] \in Payloads
      /\ PayloadLen[x[2]] \in Nat
  BY ConfAssumption, PayloadAssumption DEF ChannelExact, ChannelTypeOK
<1>3. m.next \in Nat /\ m.next \in Seqs
  <2>1. m.next \in c.start .. c.start + c.limit - 1
    BY <1>1, <1>2, ConfTyped DEF Exhausted, SenderOnTrack, Manager
  <2>2. c.start .. c.start + c.limit - 1 \subseteq Seqs
    BY ConfAssumption
  <2>3. m.next \in Nat
    BY <1>2 DEF Manager
  <2> QED
    BY <2>1, <2>2, <2>3
<1>4. Sealed(w)
  <2>1. h \in GenuineHeader
    BY <1>2, <1>3, ConfAssumption DEF Header, GenuineHeader
  <2>2. AllocatedNonce(m) = HeaderNonce(h)
    BY <1>2 DEF AllocatedNonce, HeaderNonce, Header, SenderOnTrack
  <2>3. h.len = PayloadLen[x[2]]
    BY DEF Header
  <2> QED
    BY <1>2, <2>1, <2>2, <2>3 DEF Sealed
<1>5. mgr' \in [SenderIds -> Manager] /\ \A t \in SenderIds : SenderOnTrack(t)'
  BY <1>1, AllocateKeeps
<1>6. (Guard!HistoryExact)'
  BY <1>1, GuardSteps DEF ChannelExact
<1>7. ChannelTypeOK'
  BY <1>1, <1>5, <1>6 DEF ChannelExact, ChannelTypeOK, Guard!HistoryExact
<1>8. GuardMirrorsDelivered'
  BY <1>1 DEF ChannelExact, GuardMirrorsDelivered, Guard!Tracked
<1>9. \A v \in sent' : Sealed(v)
  BY <1>1, <1>4 DEF ChannelExact
<1> QED
  BY <1>1, <1>5, <1>6, <1>7, <1>8, <1>9 DEF ChannelExact, Sealed, Seal, HeaderNonce

LEMMA BurnKeeps ==
  ASSUME ChannelExact, NEW s \in SenderIds, BurnsNonce(s)
  PROVE  ChannelExact'
<1>1. /\ mgr' = [mgr EXCEPT ![s] = Allocate(@)]
      /\ UNCHANGED <<streams, accepted, stats, sent, delivered, restarts>>
  BY DEF BurnsNonce
<1>2. mgr' \in [SenderIds -> Manager] /\ \A t \in SenderIds : SenderOnTrack(t)'
  BY <1>1, AllocateKeeps
<1>3. (Guard!HistoryExact)'
  BY <1>1, GuardSteps DEF ChannelExact
<1>4. ChannelTypeOK'
  BY <1>1, <1>2, <1>3 DEF ChannelExact, ChannelTypeOK, Guard!HistoryExact
<1>5. GuardMirrorsDelivered'
  BY <1>1 DEF ChannelExact, GuardMirrorsDelivered, Guard!Tracked
<1> QED
  BY <1>1, <1>2, <1>3, <1>4, <1>5 DEF ChannelExact, Sealed, Seal, HeaderNonce

LEMMA AcceptKeeps ==
  ASSUME ChannelExact, NEW w \in Injectable(sent), DeliverAccepted(w)
  PROVE  ChannelExact'
<1> DEFINE k == StreamKey(w.header)
           n == w.header.seq
<1>1. /\ w \in sent /\ Sealed(w)
      /\ Guard!Commit(k, n)
      /\ Guard!Tracked' = Guard!Tracked \cup {k}
      /\ accepted' = [accepted EXCEPT ![k] = @ \cup {n}]
      /\ \A d \in delivered : Slot(d) # Slot(w)
      /\ delivered' = delivered \cup {w}
  BY AcceptEffect
<1>2. k \in StreamKeys /\ n \in Seqs /\ w.body.len \in Nat
  BY <1>1, SealedTyped
<1>3. /\ stats' = [stats EXCEPT !.accepted = @ + 1, !.bytes = @ + w.body.len]
      /\ UNCHANGED <<mgr, sent, restarts>>
  BY DEF DeliverAccepted, Accept
<1>4. (Guard!HistoryExact)'
  BY <1>1, <1>2, GuardSteps DEF ChannelExact
<1>5. /\ stats' \in [accepted : Nat, bytes : Nat, rejected : [RejectReasons -> Nat]]
      /\ stats'.accepted = stats.accepted + 1
  <2>1. stats \in [accepted : Nat, bytes : Nat, rejected : [RejectReasons -> Nat]]
    BY DEF ChannelExact, ChannelTypeOK
  <2>2. stats' = [accepted |-> stats.accepted + 1, bytes |-> stats.bytes + w.body.len,
                  rejected |-> stats.rejected]
    BY <1>3, <2>1
  <2> QED
    BY <1>2, <2>1, <2>2
<1>6. ChannelTypeOK'
  BY <1>1, <1>3, <1>4, <1>5 DEF ChannelExact, ChannelTypeOK, Guard!HistoryExact
<1>7. IsFiniteSet(delivered') /\ stats'.accepted = Cardinality(delivered')
  <2>1. w \notin delivered
    BY <1>1
  <2>2. IsFiniteSet(delivered \cup {w})
          /\ Cardinality(delivered \cup {w}) = Cardinality(delivered) + 1
    BY <2>1, FS_AddElement DEF ChannelExact
  <2> QED
    BY <1>1, <1>5, <2>2 DEF ChannelExact
<1>8. GuardMirrorsDelivered'
  <2> SUFFICES ASSUME NEW j \in StreamKeys
               PROVE  /\ accepted'[j] = {v.header.seq :
                                           v \in {d \in delivered' : StreamKey(d.header) = j}}
                      /\ j \in Guard!Tracked' <=> accepted'[j] # {}
    BY DEF GuardMirrorsDelivered
  <2>1. /\ accepted[j] = {v.header.seq : v \in {d \in delivered : StreamKey(d.header) = j}}
        /\ j \in Guard!Tracked <=> accepted[j] # {}
        /\ accepted \in [StreamKeys -> SUBSET Nat]
    BY DEF ChannelExact, GuardMirrorsDelivered, ChannelTypeOK, Guard!TypeOK
  <2>2. CASE j = k
    BY <1>1, <2>1, <2>2
  <2>3. CASE j # k
    BY <1>1, <2>1, <2>3
  <2> QED
    BY <2>2, <2>3
<1>9. (\A v \in sent' : Sealed(v)) /\ (\A s \in SenderIds : SenderOnTrack(s)')
  BY <1>3 DEF ChannelExact, SenderOnTrack
<1> QED
  BY <1>4, <1>6, <1>7, <1>8, <1>9 DEF ChannelExact, Sealed, Seal, HeaderNonce

LEMMA RejectKeeps ==
  ASSUME ChannelExact, NEW w, DeliverRejected(w)
  PROVE  ChannelExact'
<1>1. /\ stats' = [stats EXCEPT !.rejected[Verdict(w)] = @ + 1]
      /\ Verdict(w) \in RejectReasons
      /\ UNCHANGED <<streams, accepted, mgr, sent, delivered, restarts>>
  BY DEF DeliverRejected, Reject
<1>2. (Guard!HistoryExact)'
  BY <1>1, GuardSteps DEF ChannelExact
<1>3. /\ stats' \in [accepted : Nat, bytes : Nat, rejected : [RejectReasons -> Nat]]
      /\ stats'.accepted = stats.accepted
  BY <1>1 DEF ChannelExact, ChannelTypeOK
<1>4. ChannelTypeOK'
  BY <1>1, <1>2, <1>3 DEF ChannelExact, ChannelTypeOK, Guard!HistoryExact
<1>5. GuardMirrorsDelivered'
  BY <1>1 DEF ChannelExact, GuardMirrorsDelivered, Guard!Tracked
<1> QED
  BY <1>1, <1>2, <1>3, <1>4, <1>5
  DEF ChannelExact, Sealed, Seal, HeaderNonce, SenderOnTrack

LEMMA RestartKeeps == ChannelExact /\ Restart => ChannelExact'
<1> SUFFICES ASSUME ChannelExact, Restart PROVE ChannelExact'
  OBVIOUS
<1>1. /\ Guard!Reset /\ stats' = FreshStats
      /\ delivered' = {} /\ restarts' = restarts + 1 /\ restarts < MaxRestarts
      /\ UNCHANGED <<mgr, sent>>
  BY DEF Restart, Rebuild
<1>2. (Guard!HistoryExact)'
  BY <1>1, GuardSteps
<1>3. /\ stats' \in [accepted : Nat, bytes : Nat, rejected : [RejectReasons -> Nat]]
      /\ stats'.accepted = 0
  BY <1>1 DEF FreshStats
<1>4. ChannelTypeOK'
  BY <1>1, <1>2, <1>3, ChannelAssumption
  DEF ChannelExact, ChannelTypeOK, Guard!HistoryExact
<1>5. GuardMirrorsDelivered'
  BY <1>1 DEF GuardMirrorsDelivered, Guard!Reset, Guard!Tracked
<1>6. IsFiniteSet(delivered') /\ stats'.accepted = Cardinality(delivered')
  BY <1>1, <1>3, FS_EmptySet
<1> QED
  BY <1>1, <1>2, <1>4, <1>5, <1>6
  DEF ChannelExact, Sealed, Seal, HeaderNonce, SenderOnTrack

LEMMA StutterKeeps == ChannelExact /\ UNCHANGED vars => ChannelExact'
<1> SUFFICES ASSUME ChannelExact, UNCHANGED vars PROVE ChannelExact'
  OBVIOUS
<1>1. UNCHANGED <<streams, accepted, stats, mgr, sent, delivered, restarts>>
  BY DEF vars
<1>2. (Guard!HistoryExact)'
  BY <1>1, GuardSteps DEF ChannelExact
<1>3. ChannelTypeOK'
  BY <1>1, <1>2 DEF ChannelExact, ChannelTypeOK, Guard!HistoryExact
<1>4. GuardMirrorsDelivered'
  BY <1>1 DEF ChannelExact, GuardMirrorsDelivered, Guard!Tracked
<1> QED
  BY <1>1, <1>2, <1>3, <1>4
  DEF ChannelExact, Sealed, Seal, HeaderNonce, SenderOnTrack

LEMMA NextKeeps == ChannelExact /\ [Next]_vars => ChannelExact'
<1> SUFFICES ASSUME ChannelExact, [Next]_vars PROVE ChannelExact'
  OBVIOUS
<1>1. ASSUME NEW s \in SenderIds, NEW x \in SenderConf[s].says, Send(s, x[1], x[2])
      PROVE  ChannelExact'
  BY <1>1, SendKeeps
<1>2. ASSUME NEW w \in Injectable(sent), DeliverAccepted(w) PROVE ChannelExact'
  BY <1>2, AcceptKeeps
<1>3. ASSUME NEW w \in Injectable(sent), DeliverRejected(w) PROVE ChannelExact'
  BY <1>3, RejectKeeps
<1>4. CASE Restart
  BY <1>4, RestartKeeps
<1>5. CASE UNCHANGED vars
  BY <1>5, StutterKeeps
<1>6. ASSUME NEW s \in SenderIds, BurnsNonce(s) PROVE ChannelExact'
  BY <1>6, BurnKeeps
<1> QED
  BY <1>1, <1>2, <1>3, <1>4, <1>5, <1>6 DEF Next

\* The wire holds sealed records, and guard, counters and deliveries agree.
THEOREM ChannelKept == Spec => []ChannelExact
BY InitChannelExact, NextKeeps, PTL DEF Spec

(***************************************************************************)
(* The checked properties                                                  *)
(***************************************************************************)
\* The guard remembers what was delivered, no more and no less.
THEOREM GuardRemembersDeliveries == Spec => []GuardMirrorsDelivered
<1>1. ChannelExact => GuardMirrorsDelivered
  BY DEF ChannelExact
<1> QED
  BY <1>1, ChannelKept, PTL

\* The channel with its attacker is an ideal channel: what is delivered was
\* sent, and no place of a stream is filled twice.
THEOREM ChannelIsIdeal == Spec => ImplementsIdealChannel
<1>1. Init => Ideal!Init
  BY DEF Init, Ideal!Init
<1>2. ChannelExact /\ [Next]_vars => [Ideal!Next]_<<sent, delivered>>
  <2> SUFFICES ASSUME ChannelExact, [Next]_vars
               PROVE  Ideal!Next \/ UNCHANGED <<sent, delivered>>
    OBVIOUS
  <2>1. ASSUME NEW s \in SenderIds, NEW x \in SenderConf[s].says, Send(s, x[1], x[2])
        PROVE  Ideal!Next
    BY <2>1 DEF Send, Ideal!Send, Ideal!Next
  <2>2. ASSUME NEW w \in Injectable(sent), DeliverAccepted(w) PROVE Ideal!Next
    <3>1. /\ w \in sent
          /\ \A d \in delivered : Slot(d) # Slot(w)
          /\ delivered' = delivered \cup {w}
      BY <2>2, AcceptEffect
    <3>2. \A d \in delivered : Ideal!Place(d) # Ideal!Place(w)
      BY <3>1 DEF Slot, Ideal!Place
    <3>3. UNCHANGED sent
      BY <2>2 DEF DeliverAccepted
    <3> QED
      BY <3>1, <3>2, <3>3 DEF Ideal!Deliver, Ideal!Next
  <2>3. ASSUME NEW w \in Injectable(sent), DeliverRejected(w)
        PROVE  UNCHANGED <<sent, delivered>>
    BY <2>3 DEF DeliverRejected
  <2>4. CASE Restart
    BY <2>4 DEF Restart, Ideal!Forget, Ideal!Next
  <2>5. CASE UNCHANGED vars
    BY <2>5 DEF vars
  <2>6. ASSUME NEW s \in SenderIds, BurnsNonce(s) PROVE UNCHANGED <<sent, delivered>>
    BY <2>6 DEF BurnsNonce
  <2> QED
    BY <2>1, <2>2, <2>3, <2>4, <2>5, <2>6 DEF Next
<1> QED
  BY <1>1, <1>2, ChannelKept, PTL DEF Spec, ImplementsIdealChannel, Ideal!Spec

\* A genuine record of this key and session is judged by what was delivered
\* before and by nothing else: nothing injected has it refused.
THEOREM GenuineJudgedAlone == Spec => []GenuineVerdict
<1>1. ChannelExact => GenuineVerdict
  <2> SUFFICES ASSUME ChannelExact, NEW w \in sent, w.body.key = ReceiverKey,
                      pinned \in {NotPinned, w.header.session}
               PROVE  Verdict(w) = ExpectedVerdict(w)
    BY DEF GenuineVerdict
  <2> DEFINE k == StreamKey(w.header)
             n == w.header.seq
             Ours == {d \in delivered : StreamKey(d.header) = k}
             Streams == {StreamKey(d.header) : d \in delivered}
  <2>1. Sealed(w) /\ \A d \in delivered : Sealed(d)
    BY DEF ChannelExact, ChannelTypeOK
  <2>2. k \in StreamKeys /\ n \in Seqs /\ Parses(w) /\ w.header.suite = ReceiverSuite
    BY <2>1, SealedTyped
  <2>3. Opens(ReceiverKey, ReceiverSuite, HeaderNonce(w.header), w.body, w.header)
    BY <2>1 DEF Opens, Sealed, Seal
  <2>4. /\ accepted[k] = {d.header.seq : d \in Ours}
        /\ k \in Guard!Tracked <=> accepted[k] # {}
    BY <2>2 DEF ChannelExact, GuardMirrorsDelivered
  <2>5. Guard!Tracked = Streams
    <3>1. Guard!Tracked \subseteq StreamKeys /\ Streams \subseteq StreamKeys
      BY <2>1, SealedTyped DEF ChannelExact, ChannelTypeOK, Guard!TypeOK
    <3>2. ASSUME NEW j \in StreamKeys PROVE j \in Guard!Tracked <=> j \in Streams
      <4>1. /\ accepted[j] = {v.header.seq : v \in {d \in delivered : StreamKey(d.header) = j}}
            /\ j \in Guard!Tracked <=> accepted[j] # {}
        BY DEF ChannelExact, GuardMirrorsDelivered
      <4> QED
        BY <4>1
    <3> QED
      BY <3>1, <3>2
  <2>6. Guard!AtCap <=> Cardinality(Streams) >= MaxStreams
    BY <2>5, SameFinite DEF Guard!AtCap
  <2>7. Guard!GuardCheck(k, n) =
          IF \E d \in Ours : d.header.seq - n >= WindowSize THEN "TOO_OLD"
          ELSE IF \E d \in Ours : d.header.seq = n THEN "DUPLICATE"
          ELSE IF Ours = {} /\ Cardinality(Streams) >= MaxStreams THEN "INVALID"
          ELSE "FRESH"
    <3>1. Guard!GuardCheck(k, n) =
            IF \E t \in accepted[k] : t - n >= WindowSize THEN "TOO_OLD"
            ELSE IF n \in accepted[k] THEN "DUPLICATE"
            ELSE IF k \notin Guard!Tracked /\ Guard!AtCap THEN "INVALID" ELSE "FRESH"
      BY <2>2, GuardChecks DEF ChannelExact
    <3>2. k \notin Guard!Tracked <=> Ours = {}
      BY <2>4
    <3>3. /\ (\E t \in accepted[k] : t - n >= WindowSize)
               <=> \E d \in Ours : d.header.seq - n >= WindowSize
          /\ n \in accepted[k] <=> \E d \in Ours : d.header.seq = n
      BY <2>4
    <3> QED
      BY <2>6, <3>1, <3>2, <3>3
  <2>8. \A d \in Ours : Slot(d) = Slot(w) <=> d.header.seq = n
    BY DEF Slot, StreamKey
  <2>9. Verdict(w) = IF Guard!GuardCheck(k, n) = "DUPLICATE" THEN "REPLAY_DETECTED"
                     ELSE IF Guard!GuardCheck(k, n) \in {"TOO_OLD", "INVALID"}
                          THEN "STALE_RECORD" ELSE "ACCEPTED"
    BY <2>2, <2>3 DEF Verdict
  <2> QED
    BY <2>7, <2>8, <2>9 DEF ExpectedVerdict
<1> QED
  BY <1>1, ChannelKept, PTL

\* The receiver's counter of accepted records counts different records.
THEOREM DeliveriesCounted == Spec => [](stats.accepted = Cardinality(delivered))
<1>1. ChannelExact => stats.accepted = Cardinality(delivered)
  BY DEF ChannelExact
<1> QED
  BY <1>1, ChannelKept, PTL

(***************************************************************************)
(* The bytes handed to the application                                     *)
(***************************************************************************)
BytesOf(S) == Sets!MapThenSumSet(LAMBDA w : PayloadLen[w.body.payload], S)

\* The length of each record, as a function.
Sizes(S) == [w \in S |-> PayloadLen[w.body.payload]]

\* A sealed record has as many bytes as its payload.
LEMMA SealedSize ==
  ASSUME NEW w, Sealed(w)
  PROVE  /\ PayloadLen[w.body.payload] \in Nat
         /\ w.body.len = PayloadLen[w.body.payload]
<1>1. PICK s \in SenderIds, p \in Payloads :
        w.body = Seal(SenderConf[s].key, ReceiverSuite, HeaderNonce(w.header), p, w.header)
  BY DEF Sealed
<1>2. w.body.payload = p /\ w.body.len = PayloadLen[p]
  BY <1>1 DEF Seal
<1> QED
  BY <1>1, <1>2, PayloadAssumption

\* The fold over a set of sealed records is the sum of the guard's lemmas.
LEMMA BytesAreSum ==
  ASSUME NEW S, IsFiniteSet(S), Sizes(S) \in [S -> Nat]
  PROVE  BytesOf(S) = Lib!SumOf(Sizes(S), S)
<1> DEFINE U(f) == [s \in SUBSET S |->
                      IF s = {} THEN 0
                      ELSE PayloadLen[Lib!Pick(s).body.payload] + f[s \ {Lib!Pick(s)}]]
           c == CHOOSE f : f = U(f)
<1>1. BytesOf(S) = c[S]
  BY Zenon DEF BytesOf, Sets!MapThenSumSet, Sets!MapThenFoldSet, Lib!Pick
<1>2. ASSUME NEW f PROVE U(f) = Lib!Unrolled(Sizes(S), f, S)
  <2>1. \A s \in SUBSET S : s # {} => Lib!Pick(s) \in S
    BY DEF Lib!Pick
  <2>2. \A s \in SUBSET S :
          s # {} => Sizes(S)[Lib!Pick(s)] = PayloadLen[Lib!Pick(s).body.payload]
    BY <2>1 DEF Sizes
  <2> QED
    BY <2>2 DEF Lib!Unrolled
<1> HIDE DEF U
<1>3. \E f : f = U(f)
  BY <1>2, Lib!SumExists, SameFinite, GuardParameters
<1>4. c = U(c)
  BY <1>3
<1> HIDE DEF c
<1>5. c = Lib!Unrolled(Sizes(S), c, S)
  BY <1>2, <1>4
<1>6. Lib!SumOf(Sizes(S), S) = c[S]
  BY <1>5, Lib!SumIs, SameFinite, GuardParameters
<1> QED
  BY <1>1, <1>6

LEMMA BytesOfNone == BytesOf({}) = 0
<1>1. Sizes({}) \in [{} -> Nat]
  BY DEF Sizes
<1> QED
  BY <1>1, BytesAreSum, Lib!SumEmpty, FS_EmptySet, SameFinite, GuardParameters

LEMMA BytesOfMore ==
  ASSUME NEW S, IsFiniteSet(S), \A d \in S : Sealed(d), NEW w, Sealed(w), w \notin S
  PROVE  BytesOf(S \cup {w}) = BytesOf(S) + w.body.len
<1> DEFINE T == S \cup {w}
<1>1. IsFiniteSet(T)
  BY FS_AddElement
<1>2. \A d \in T : PayloadLen[d.body.payload] \in Nat
  BY SealedSize
<1>3. Sizes(T) \in [T -> Nat] /\ Sizes(S) \in [S -> Nat] /\ Sizes(T)[w] = w.body.len
  BY <1>2, SealedSize DEF Sizes
<1>4. BytesOf(T) = Lib!SumOf(Sizes(T), T) /\ BytesOf(S) = Lib!SumOf(Sizes(S), S)
  BY <1>1, <1>3, BytesAreSum
<1>5. Lib!SumOf(Sizes(T), T) = Lib!SumOf(Sizes(T), S) + Sizes(T)[w]
  BY <1>3, Lib!SumAdd, SameFinite, GuardParameters
<1>6. Lib!SumOf(Sizes(T), S) = Lib!SumOf(Sizes(S), S)
  <2>1. \A d \in S : Sizes(T)[d] = Sizes(S)[d]
    BY DEF Sizes
  <2>2. PICK f : f = Lib!Unrolled(Sizes(S), f, S)
    BY <1>3, Lib!SumExists, SameFinite, GuardParameters
  <2> DEFINE g == Sizes(S)
             h == Sizes(T)
  <2>3. S \in SUBSET S /\ g \in [S -> Nat] /\ f = Lib!Unrolled(g, f, S)
        /\ \A d \in S : h[d] = g[d]
    BY <1>3, <2>1, <2>2
  <2> HIDE DEF g, h
  <2>4. Lib!SumOf(h, S) = f[S] /\ Lib!SumOf(g, S) = f[S]
    BY <2>3, Lib!SumIs, SameFinite, GuardParameters
  <2> QED
    BY <2>4 DEF g, h
<1> QED
  BY <1>3, <1>4, <1>5, <1>6

\* Both counters of the receiver are those of the set of delivered records: no
\* record reached the application a second time (receiver.py:276-277).
THEOREM EachDeliveredOnce == Spec => []DeliveredOnce
<1> DEFINE Counted == stats.bytes = BytesOf(delivered)
<1>1. Init => Counted
  BY BytesOfNone DEF Init, ReceiverInit, FreshStats
<1>2. ChannelExact /\ Counted /\ [Next]_vars => Counted'
  <2> SUFFICES ASSUME ChannelExact, Counted, [Next]_vars PROVE Counted'
    OBVIOUS
  <2>1. ASSUME NEW s \in SenderIds, NEW x \in SenderConf[s].says, Send(s, x[1], x[2])
        PROVE  Counted'
    BY <2>1 DEF Send
  <2>2. ASSUME NEW w \in Injectable(sent), DeliverAccepted(w) PROVE Counted'
    <3>1. /\ w \in sent /\ Sealed(w) /\ w \notin delivered
          /\ delivered' = delivered \cup {w}
      BY <2>2, AcceptEffect
    <3>2. stats'.bytes = stats.bytes + w.body.len
      BY <2>2 DEF DeliverAccepted, Accept, ChannelExact, ChannelTypeOK
    <3>3. IsFiniteSet(delivered) /\ \A d \in delivered : Sealed(d)
      BY DEF ChannelExact, ChannelTypeOK
    <3>4. BytesOf(delivered \cup {w}) = BytesOf(delivered) + w.body.len
      BY <3>1, <3>3, BytesOfMore
    <3> QED
      BY <3>1, <3>2, <3>4
  <2>3. ASSUME NEW w \in Injectable(sent), DeliverRejected(w) PROVE Counted'
    BY <2>3 DEF DeliverRejected, Reject, ChannelExact, ChannelTypeOK
  <2>4. CASE Restart
    BY <2>4, BytesOfNone DEF Restart, Rebuild, FreshStats
  <2>5. CASE UNCHANGED vars
    BY <2>5 DEF vars
  <2>6. ASSUME NEW s \in SenderIds, BurnsNonce(s) PROVE Counted'
    BY <2>6 DEF BurnsNonce
  <2> QED
    BY <2>1, <2>2, <2>3, <2>4, <2>5, <2>6 DEF Next
<1>3. Counted /\ stats.accepted = Cardinality(delivered) => DeliveredOnce
  BY DEF DeliveredOnce, BytesOf
<1> QED
  BY <1>1, <1>2, <1>3, ChannelKept, DeliveriesCounted, PTL DEF Spec
=============================================================================

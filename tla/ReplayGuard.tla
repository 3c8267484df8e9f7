----------------------------- MODULE ReplayGuard -----------------------------
(***************************************************************************)
(* The per-stream replay state of a receiver (class ReplayGuard of         *)
(* srp/replay.py): a dictionary of windows, filled by commit, emptied by   *)
(* reset, consulted by check.                                              *)
(***************************************************************************)
EXTENDS ReplayWindow, FiniteSets

CONSTANTS StreamKeys,   \* the (session_id, stream_id) pairs records may name
          Seqs,         \* the sequence numbers commit and check are called with
          MaxStreams    \* ReplayGuard(max_streams)

ASSUME SeqsAssumption == Seqs \subseteq Int
ASSUME MaxStreamsAssumption == MaxStreams \in Nat

VARIABLES streams,      \* _streams: tracked stream -> its window
          accepted      \* history: what commit has returned True for since reset

vars == <<streams, accepted>>

Tracked == DOMAIN streams

AtCap == Cardinality(Tracked) >= MaxStreams

WindowOf(k) == IF k \in Tracked THEN streams[k] ELSE EmptyWindow

(***************************************************************************)
(* Queries and results                                                     *)
(***************************************************************************)
\* (mutant) The cap is not looked at before authentication.
GuardCheck_NoCap(k, s) ==
  IF k \in Tracked THEN WindowCheck(streams[k], s)
  ELSE IF s < 0 THEN "INVALID" ELSE "FRESH"

\* ReplayGuard.check
GuardCheck(k, s) ==
  IF k \in Tracked THEN WindowCheck(streams[k], s)
  ELSE IF AtCap \/ s < 0 THEN "INVALID"
  ELSE "FRESH"

\* The Boolean ReplayGuard.commit returns.
GuardTakes(k, s) ==
  /\ k \in Tracked \/ ~ AtCap
  /\ WindowTakes(WindowOf(k), s)

(***************************************************************************)
(* The state machine                                                       *)
(***************************************************************************)
Init ==
  /\ streams = [k \in {} |-> EmptyWindow]
  /\ accepted = [k \in StreamKeys |-> {}]

\* ReplayGuard.commit on a stream that is tracked, or that there is room for:
\* a new stream gets its window even if the window then takes nothing.
Commit(k, s) ==
  /\ k \in Tracked \/ ~ AtCap
  /\ streams' = [j \in Tracked \cup {k} |->
                   IF j = k THEN WindowCommit(WindowOf(k), s) ELSE streams[j]]
  /\ accepted' = [accepted EXCEPT ![k] = IF GuardTakes(k, s) THEN @ \cup {s} ELSE @]

\* ReplayGuard.commit on a new stream at the cap: returns False.
CommitRefused(k) ==
  /\ k \notin Tracked
  /\ AtCap
  /\ UNCHANGED vars

\* ReplayGuard.reset: a fresh key epoch.
Reset ==
  /\ streams' = [k \in {} |-> EmptyWindow]
  /\ accepted' = [k \in StreamKeys |-> {}]

Next ==
  \/ \E k \in StreamKeys, s \in Seqs : Commit(k, s)
  \/ \E k \in StreamKeys : CommitRefused(k)
  \/ Reset

Spec == Init /\ [][Next]_vars

(***************************************************************************)
(* Properties                                                              *)
(***************************************************************************)
TypeOK ==
  /\ Tracked \subseteq StreamKeys
  /\ streams \in [Tracked -> Window]
  /\ accepted \in [StreamKeys -> SUBSET Nat]

\* The bitmap, the highest number and the counter of a window say exactly which
\* of the numbers taken so far lie within reach of the highest one.
WindowExact(w, h) ==
  /\ IsFiniteSet(h)
  /\ h = {} => w.highest = -1
  /\ h # {} => w.highest \in h
  /\ \A t \in h : t <= w.highest
  /\ w.bitmap = {i \in 0 .. w.highest : /\ w.highest - i \in h
                                       /\ (i < WindowSize \/ i = 0)}
  /\ w.accepted = Cardinality(h)

\* The invariant the proofs rest on: every window is exact about its stream's
\* history, and a stream without a window has none (replay.py:172-208, 277-289).
HistoryExact ==
  /\ TypeOK
  /\ IsFiniteSet(Tracked)
  /\ Cardinality(Tracked) <= MaxStreams
  /\ \A k \in StreamKeys : WindowExact(WindowOf(k), accepted[k])

\* Replay protection, the promise of replay.py:15-24: a sequence number the
\* guard has once taken is never classified FRESH again, whatever was committed
\* after it and however far the window has moved since.
AtMostOnce ==
  \A k \in StreamKeys : \A s \in accepted[k] :
    GuardCheck(k, s) \in {"DUPLICATE", "TOO_OLD"}

\* No false alarm: DUPLICATE is said only of what was taken before, TOO_OLD only
\* of what is a whole window behind something taken, INVALID only of a negative
\* number or of a stream there is no room for.
VerdictsJustified ==
  \A k \in StreamKeys, s \in Seqs :
    /\ GuardCheck(k, s) = "DUPLICATE" => s \in accepted[k]
    /\ GuardCheck(k, s) = "TOO_OLD" => \E t \in accepted[k] : t - s >= WindowSize
    /\ GuardCheck(k, s) = "INVALID" => s < 0 \/ (accepted[k] = {} /\ AtCap)

\* check and commit are two calls with the AEAD open between them, and the
\* receiver ignores what commit returns (receiver.py:273).  That is right only
\* because commit takes exactly what check called FRESH.
CommitAgreesWithCheck ==
  \A k \in StreamKeys, s \in Seqs :
    GuardTakes(k, s) <=> GuardCheck(k, s) = "FRESH"

\* Receiver memory is bounded (replay.py:39-41): at most max_streams windows,
\* each with at most window_size bits (one bit if the size is 0).
BoundedMemory ==
  /\ Cardinality(Tracked) <= MaxStreams
  /\ \A k \in Tracked : \A i \in streams[k].bitmap : i < WindowSize \/ i = 0

\* Nothing but a reset makes the guard forget: no commit, on whichever stream,
\* drops a stream or moves a window backwards.
NeverForgets ==
  [][\/ accepted' = [k \in StreamKeys |-> {}]
     \/ \A k \in Tracked : /\ k \in DOMAIN streams'
                           /\ streams'[k].highest >= streams[k].highest
                           /\ accepted[k] \subseteq accepted'[k]]_vars

\* The guard with its windows, caps and bitmaps keeps the promise of AntiReplay,
\* which knows only the set of numbers taken so far.
Promise == INSTANCE AntiReplay WITH Numbers <- {s \in Seqs : s >= 0},
                                    Reach <- WindowSize, taken <- accepted

ImplementsAntiReplay == Promise!Spec

\* report/REPORT.md:922-923 says a receiver at its stream limit "evicts
\* least-recently-used", so that a new stream is always let in; the code
\* refuses it (replay.py:270-271) and never evicts.
NewStreamAdmitted ==
  MaxStreams > 0 =>
    \A k \in StreamKeys, s \in Seqs :
      (k \notin Tracked /\ s >= 0) => GuardCheck(k, s) = "FRESH"
=============================================================================

------------------------------- MODULE Receiver -------------------------------
(***************************************************************************)
(* The receiver (srp/receiver.py): the eight steps of Receiver.receive on  *)
(* top of a ReplayGuard.  The call is synchronous and the class is used    *)
(* from one thread, so it is one action.                                   *)
(***************************************************************************)
EXTENDS Records, FiniteSets

CONSTANTS ReceiverKey, ReceiverSuite,
          Pins,                     \* what expected_session_id may be
          NotPinned,                \* None
          WindowSize, MaxStreams,   \* replay_window, max_streams
          Seqs                      \* every sequence number a header may hold

ASSUME ReceiverAssumption ==
  WindowSize \in Nat /\ MaxStreams \in Nat /\ Seqs \subseteq Nat

VARIABLES streams, accepted,        \* the replay guard
          stats,                    \* ReceiverStats
          pinned                    \* expected_session_id of this object

RejectReasons == {"MALFORMED", "SUITE_MISMATCH", "SESSION_MISMATCH",
                  "REPLAY_DETECTED", "STALE_RECORD", "AUTH_FAILED"}

StreamKeys == Sessions \X StreamIds

Guard == INSTANCE ReplayGuard

FreshStats == [accepted |-> 0, bytes |-> 0, rejected |-> [r \in RejectReasons |-> 0]]

Sets == INSTANCE FiniteSetsExt

RejectedTotal == Sets!MapThenSumSet(LAMBDA r : stats.rejected[r], RejectReasons)

ReceiverInit == Guard!Init /\ stats = FreshStats /\ pinned \in Pins

\* Steps 1 to 6 of receive: "ACCEPTED" or the reason of the rejection.
Verdict(w) ==
  LET h == w.header
      replay == Guard!GuardCheck(StreamKey(h), h.seq)
  IN  IF ~ Parses(w) THEN "MALFORMED"
      ELSE IF h.suite # ReceiverSuite THEN "SUITE_MISMATCH"
      ELSE IF pinned \notin {NotPinned, h.session} THEN "SESSION_MISMATCH"
      ELSE IF replay = "DUPLICATE" THEN "REPLAY_DETECTED"
      ELSE IF replay \in {"TOO_OLD", "INVALID"} THEN "STALE_RECORD"
      ELSE IF ~ Opens(ReceiverKey, ReceiverSuite, HeaderNonce(h), w.body, h) THEN "AUTH_FAILED"
      ELSE "ACCEPTED"

\* (mutant) The commit after authentication is missing.
Accept_NoCommit(w) ==
  /\ Verdict(w) = "ACCEPTED"
  /\ stats' = [stats EXCEPT !.accepted = @ + 1, !.bytes = @ + w.body.len]
  /\ UNCHANGED <<streams, accepted, pinned>>

\* Steps 7 and 8; what commit returns is not looked at.
Accept(w) ==
  /\ Verdict(w) = "ACCEPTED"
  /\ LET k == StreamKey(w.header)
     IN  Guard!Commit(k, w.header.seq) \/ Guard!CommitRefused(k)
  /\ stats' = [stats EXCEPT !.accepted = @ + 1, !.bytes = @ + w.body.len]
  /\ UNCHANGED pinned

\* (mutant) The replay state moves before the record is authenticated.
Reject_Commits(w) ==
  /\ Verdict(w) \in RejectReasons
  /\ stats' = [stats EXCEPT !.rejected[Verdict(w)] = @ + 1]
  /\ IF Verdict(w) = "AUTH_FAILED"
     THEN Guard!Commit(StreamKey(w.header), w.header.seq)
     ELSE UNCHANGED <<streams, accepted>>
  /\ UNCHANGED pinned

\* Receiver._reject
Reject(w) ==
  /\ Verdict(w) \in RejectReasons
  /\ stats' = [stats EXCEPT !.rejected[Verdict(w)] = @ + 1]
  /\ UNCHANGED <<streams, accepted, pinned>>

\* A new Receiver object, as after a restart: only the configuration is kept.
Rebuild == Guard!Reset /\ stats' = FreshStats /\ UNCHANGED pinned
=============================================================================

----------------------------- MODULE NetworkDemo -----------------------------
(***************************************************************************)
(* The network demonstration (demo/run_network_demo.py): the main thread   *)
(* sends records over one TCP connection to an actor thread, which relays  *)
(* them, as its plan says, over a second one to a receiver thread; then    *)
(* main joins both threads, for a limited time, and judges the counters.   *)
(***************************************************************************)
EXTENDS ReplayWindow, Sequences, FiniteSets

CONSTANTS RecordCounts,     \* values of --records
          RecordLimit,      \* the budget of the sender's key, 2^24
          Plan,             \* record index -> what the actor does to it
          FrameUnits,       \* pieces a frame travels in; the first is its length
          BufferSize        \* bound: pieces a TCP connection holds

ASSUME DemoAssumption == /\ RecordCounts \subseteq Int
                         /\ RecordLimit \in Nat
                         /\ FrameUnits \in Nat \ {0, 1}
                         /\ BufferSize \in Nat \ {0}

VARIABLES records,      \* the count of this run
          slow,         \* in this run 20 seconds can pass while a thread waits
          main,         \* where the main thread is
          next,         \* the next record index, and sequence number, to send
          written,      \* pieces of record next that sendall has written
          up, upOpen,   \* sender -> actor: pieces in flight; sender's end open
          actor,        \* where the actor thread is
          upGot,        \* the pieces recv_frame holds in the actor
          index,        \* the actor's record index
          out,          \* frames the actor has still to send or log for this index
          relayed,      \* pieces of the first of them that sendall has written
          captured,     \* the index of the record kept for replay, or -1
          actions,      \* the actor's log
          down, downState, \* actor -> receiver: pieces in flight; the connection
          receiver,     \* where the receiver thread is
          downGot,      \* the pieces recv_frame holds in the receiver
          window,       \* the receiver's replay window
          stats,        \* the receiver's counters
          pending,      \* the verdict about to be logged
          verdicts,     \* the receiver's log
          result        \* what main printed

mainVars == <<records, slow, main, next, written, up, upOpen, result>>
actorVars == <<actor, upGot, index, out, relayed, captured, actions, down, downState>>
receiverVars == <<receiver, downGot, window, stats, pending, verdicts>>
vars == <<mainVars, actorVars, receiverVars>>

Gone == {"returned", "died"}

\* main closes the two listening sockets after the joins.
ListenersOpen == main \notin {"judging", "judging rejections", "done", "exited"}

Frame(seq, intact) == [seq |-> seq, intact |-> intact]

(***************************************************************************)
(* Transport framing: sendall writes the pieces of a frame one after the   *)
(* other as the connection takes them, recv_exact collects them as they    *)
(* come.                                                                   *)
(***************************************************************************)
Piece(frame, n) == [frame |-> frame, n |-> n]

\* Not the pieces, in order, of one frame.
Garbled == [seq |-> -1, intact |-> FALSE]

\* What recv_frame returns once it holds enough pieces.
Assembled(got) ==
  IF got = [n \in 1 .. FrameUnits |-> Piece(got[1].frame, n)] THEN got[1].frame ELSE Garbled

\* sendall is stuck: its peer is gone, or it has taken 20 seconds.
SendFails(peer, connection, done) ==
  peer \in Gone \/ (slow /\ (Len(connection) = BufferSize \/ done > 0))

Planned(i) == IF i \in DOMAIN Plan THEN Plan[i] ELSE "forward"

Tampering == {"flip-ciphertext", "flip-tag", "tamper-aad"}

\* The plan (164-170) names known ways of treating a record; what it has replayed
\* is still in the receiver's window, and there is a record before to replay.
ASSUME PlanAssumption ==
  \A i \in DOMAIN Plan :
    /\ i \in Nat /\ Plan[i] \in Tampering \cup {"drop", "replay"}
    /\ Plan[i] = "replay" => i < WindowSize /\ \E j \in 0 .. i - 1 : j \notin DOMAIN Plan

Init ==
  /\ records \in RecordCounts /\ slow \in BOOLEAN
  /\ main = "connecting" /\ next = 0 /\ written = 0 /\ up = <<>> /\ upOpen = FALSE /\ result = "none"
  /\ actor = "accepting" /\ upGot = <<>> /\ index = 0 /\ out = <<>> /\ relayed = 0 /\ captured = -1 /\ actions = <<>>
  /\ down = <<>> /\ downState = "unopened"
  /\ receiver = "accepting" /\ downGot = <<>> /\ window = EmptyWindow
  /\ stats = [accepted |-> 0, MALFORMED |-> 0, AUTH_FAILED |-> 0, REPLAY_DETECTED |-> 0, STALE_RECORD |-> 0]
  /\ pending = "none" /\ verdicts = <<>>

(***************************************************************************)
(* Main thread: sender_entity, the joins, the judgement                    *)
(***************************************************************************)
Connect ==
  /\ main = "connecting"
  /\ main' = "sending"
  /\ upOpen' = TRUE
  /\ UNCHANGED <<records, slow, next, written, up, result, actorVars, receiverVars>>

\* sendall moves a piece into the connection, even if the actor is gone; with its
\* last piece the record is sent.
SendRecord ==
  /\ main = "sending"
  /\ next < records
  /\ next < RecordLimit
  /\ Len(up) < BufferSize
  /\ up' = Append(up, Piece(Frame(next, TRUE), written + 1))
  /\ written' = (written + 1) % FrameUnits
  /\ next' = IF written + 1 = FrameUnits THEN next + 1 ELSE next
  /\ UNCHANGED <<records, slow, main, upOpen, result, actorVars, receiverVars>>

\* (mutant) The socket is not closed.
CloseUp_LeftOpen ==
  /\ main = "sending"
  /\ next >= records
  /\ main' = "joining receiver"
  /\ UNCHANGED <<records, slow, next, written, up, upOpen, result, actorVars, receiverVars>>

\* All records sent, or --records negative and none to send: the socket is closed,
\* the joins begin.
CloseUp ==
  /\ main = "sending"
  /\ next >= records
  /\ upOpen' = FALSE
  /\ main' = "joining receiver"
  /\ UNCHANGED <<records, slow, next, written, up, result, actorVars, receiverVars>>

\* An exception leaves the `with` block: the socket is closed while the program, and
\* with it the daemon threads, still runs.
LeaveSending ==
  /\ main' = "raising"
  /\ upOpen' = FALSE
  /\ UNCHANGED <<records, slow, next, written, up, result, actorVars, receiverVars>>

\* protect raises NonceExhaustedError: the budget of the key is spent.
ProtectRaises ==
  /\ main = "sending"
  /\ next < records
  /\ next >= RecordLimit
  /\ LeaveSending

\* sendall raises, perhaps between two pieces.
SendRaises ==
  /\ main = "sending"
  /\ next < records
  /\ next < RecordLimit
  /\ SendFails(actor, up, written)
  /\ LeaveSending

\* The program ends: by the exception, or some time after the result is printed,
\* the other suite's run in between.
ProgramEnds ==
  /\ \/ main = "raising" /\ main' = "raised"
     \/ main = "done" /\ main' = "exited"
  /\ UNCHANGED <<records, slow, next, written, up, upOpen, result, actorVars, receiverVars>>

JoinReceiver ==
  /\ main = "joining receiver"
  /\ receiver \in Gone \/ slow
  /\ main' = "joining actor"
  /\ UNCHANGED <<records, slow, next, written, up, upOpen, result, actorVars, receiverVars>>

JoinActor ==
  /\ main = "joining actor"
  /\ actor \in Gone \/ slow
  /\ main' = "judging"
  /\ UNCHANGED <<records, slow, next, written, up, upOpen, result, actorVars, receiverVars>>

\* The records of this run that the plan treats in one of the given ways.
PlannedAs(ways) == {i \in 0 .. records - 1 : Planned(i) \in ways}

Expected ==
  [accepted |-> records - Cardinality(PlannedAs(Tampering \cup {"drop"})),
   AUTH_FAILED |-> Cardinality(PlannedAs(Tampering)),
   REPLAY_DETECTED |-> Cardinality(PlannedAs({"replay"})),
   STALE_RECORD |-> 0, MALFORMED |-> 0]

Rejections(counters) == [r \in DOMAIN counters \ {"accepted"} |-> counters[r]]

\* The two comparisons read the counters one after the other, and the receiver
\* may still be counting when a join has timed out.
JudgeAccepted ==
  /\ main = "judging"
  /\ IF stats.accepted = Expected.accepted
     THEN main' = "judging rejections" /\ UNCHANGED result
     ELSE main' = "done" /\ result' = "FAIL"
  /\ UNCHANGED <<records, slow, next, written, up, upOpen, actorVars, receiverVars>>

\* (mutant) Only the accepted records are compared.
JudgeRejections_Skipped ==
  /\ main = "judging rejections"
  /\ result' = "PASS"
  /\ main' = "done"
  /\ UNCHANGED <<records, slow, next, written, up, upOpen, actorVars, receiverVars>>

JudgeRejections ==
  /\ main = "judging rejections"
  /\ result' = IF Rejections(stats) = Rejections(Expected) THEN "PASS" ELSE "FAIL"
  /\ main' = "done"
  /\ UNCHANGED <<records, slow, next, written, up, upOpen, actorVars, receiverVars>>

(***************************************************************************)
(* Actor thread: actor_entity                                              *)
(***************************************************************************)
ActorAccept ==
  /\ actor = "accepting"
  /\ main # "connecting"
  /\ ListenersOpen
  /\ actor' = "relaying"
  /\ downState' = "open"
  /\ UNCHANGED <<upGot, index, out, relayed, captured, actions, down, mainVars, receiverVars>>

\* (mutant) The replayed copy is logged as an ordinary record.
Outputs_LogsForward(i, frame) ==
  LET plain == <<[frame |-> frame, entry |-> <<i, "forward">>]>>
      way == Planned(i)
  IN  CASE way = "forward" -> plain
        [] way \in Tampering -> <<[frame |-> Frame(frame.seq, FALSE), entry |-> <<i, way>>]>>
        [] way = "drop" -> <<>>
        [] way = "replay" ->
             plain \o <<[frame |-> Frame(captured, TRUE), entry |-> <<captured, "forward">>]>>

\* What the actor puts on the wire for one record, with its log entries.
Outputs(i, frame) ==
  LET plain == <<[frame |-> frame, entry |-> <<i, "forward">>]>>
      way == Planned(i)
  IN  CASE way = "forward" -> plain
        [] way \in Tampering -> <<[frame |-> Frame(frame.seq, FALSE), entry |-> <<i, way>>]>>
        [] way = "drop" -> <<>>
        [] way = "replay" ->
             IF captured < 0 THEN plain
             ELSE plain \o <<[frame |-> Frame(captured, TRUE),
                              entry |-> <<captured, "replay">>]>>

ActorRecvPiece ==
  /\ actor = "relaying"
  /\ out = <<>>
  /\ up # <<>>
  /\ Len(upGot) + 1 < FrameUnits
  /\ upGot' = Append(upGot, Head(up))
  /\ up' = Tail(up)
  /\ UNCHANGED <<actor, index, out, relayed, captured, actions, down, downState,
                 records, slow, main, next, written, upOpen, result, receiverVars>>

\* The frame is complete: what follows from it is the plan's.
ActorRecv ==
  /\ actor = "relaying"
  /\ out = <<>>
  /\ up # <<>>
  /\ Len(upGot) + 1 = FrameUnits
  /\ up' = Tail(up)
  /\ upGot' = <<>>
  /\ out' = Outputs(index, Assembled(Append(upGot, Head(up))))
  /\ captured' = IF captured < 0 /\ Planned(index) = "forward" THEN index ELSE captured
  /\ index' = index + 1
  /\ UNCHANGED <<actor, relayed, actions, down, downState,
                 records, slow, main, next, written, upOpen, result, receiverVars>>

ActorSend ==
  /\ actor = "relaying"
  /\ out # <<>>
  /\ Len(down) < BufferSize
  /\ down' = Append(down, Piece(Head(out).frame, relayed + 1))
  /\ relayed' = (relayed + 1) % FrameUnits
  /\ actor' = IF relayed + 1 = FrameUnits THEN "logging" ELSE actor
  /\ UNCHANGED <<upGot, index, out, captured, actions, downState, mainVars, receiverVars>>

ActorLog ==
  /\ actor = "logging"
  /\ actions' = Append(actions, Head(out).entry)
  /\ out' = Tail(out)
  /\ actor' = "relaying"
  /\ UNCHANGED <<upGot, index, relayed, captured, down, downState, mainVars, receiverVars>>

\* End of the stream, perhaps inside a frame, which recv_exact does not tell from
\* an end between two: the actor returns and closes its connections.  (Nothing can
\* be observed between its leaving of the `with` block and the end of the thread.)
ActorReturn ==
  /\ actor = "relaying"
  /\ out = <<>>
  /\ up = <<>>
  /\ ~ upOpen
  /\ actor' = "returned"
  /\ downState' = "closed"
  /\ UNCHANGED <<upGot, index, out, relayed, captured, actions, down, mainVars, receiverVars>>

\* An exception in the actor: the receiver or a listener is gone, or a wait lasts
\* 20 seconds.
ActorDies ==
  /\ \/ actor = "accepting" /\ ((main = "connecting" /\ slow) \/ ~ ListenersOpen)
     \/ /\ actor = "relaying"
        /\ \/ out # <<>> /\ SendFails(receiver, down, relayed)
           \/ out = <<>> /\ up = <<>> /\ upOpen /\ slow
  /\ actor' = "died"
  /\ downState' = IF downState = "open" THEN "closed" ELSE downState
  /\ UNCHANGED <<upGot, index, out, relayed, captured, actions, down, mainVars, receiverVars>>

(***************************************************************************)
(* Receiver thread: receiver_entity                                        *)
(***************************************************************************)
ReceiverAccept ==
  /\ receiver = "accepting"
  /\ downState # "unopened"
  /\ ListenersOpen
  /\ receiver' = "reading"
  /\ UNCHANGED <<downGot, window, stats, pending, verdicts, mainVars, actorVars>>

\* Receiver.receive as far as this run can reach: replay check, AEAD, commit.
VerdictOn(f) ==
  LET c == WindowCheck(window, f.seq)
  IN  CASE f = Garbled -> "MALFORMED"
        [] c = "DUPLICATE" -> "REPLAY_DETECTED"
        [] c = "TOO_OLD" -> "STALE_RECORD"
        [] c = "FRESH" -> IF f.intact THEN "accepted" ELSE "AUTH_FAILED"

ReceiverPiece ==
  /\ receiver = "reading"
  /\ down # <<>>
  /\ Len(downGot) + 1 < FrameUnits
  /\ downGot' = Append(downGot, Head(down))
  /\ down' = Tail(down)
  /\ UNCHANGED <<receiver, window, stats, pending, verdicts, mainVars,
                 actor, upGot, index, out, relayed, captured, actions, downState>>

\* (mutant) Accepted records are not committed.
Judge_NoCommit(f) ==
  /\ pending' = VerdictOn(f)
  /\ stats' = [stats EXCEPT ![VerdictOn(f)] = @ + 1]
  /\ downGot' = <<>>
  /\ receiver' = "logging"
  /\ UNCHANGED <<window, verdicts>>

\* receiver.receive on a complete frame.
Judge(f) ==
  /\ pending' = VerdictOn(f)
  /\ stats' = [stats EXCEPT ![VerdictOn(f)] = @ + 1]
  /\ window' = IF VerdictOn(f) = "accepted" THEN WindowCommit(window, f.seq) ELSE window
  /\ downGot' = <<>>
  /\ receiver' = "logging"
  /\ UNCHANGED verdicts

ReceiverReceive ==
  /\ receiver = "reading"
  /\ down # <<>>
  /\ Len(downGot) + 1 = FrameUnits
  /\ Judge(Assembled(Append(downGot, Head(down))))
  /\ down' = Tail(down)
  /\ UNCHANGED <<mainVars, actor, upGot, index, out, relayed, captured, actions, downState>>

ReceiverLog ==
  /\ receiver = "logging"
  /\ verdicts' = Append(verdicts, pending)
  /\ pending' = "none"
  /\ receiver' = "reading"
  /\ UNCHANGED <<downGot, window, stats, mainVars, actorVars>>

\* (mutant) What has come of a frame when the stream ends is taken for a frame.
ReceiverReturn_Torn ==
  /\ receiver = "reading"
  /\ down = <<>>
  /\ downState = "closed"
  /\ IF downGot = <<>>
     THEN receiver' = "returned" /\ UNCHANGED <<downGot, window, stats, pending, verdicts>>
     ELSE Judge(Garbled)
  /\ UNCHANGED <<mainVars, actorVars>>

ReceiverReturn ==
  /\ receiver = "reading"
  /\ down = <<>>
  /\ downState = "closed"
  /\ receiver' = "returned"
  /\ UNCHANGED <<downGot, window, stats, pending, verdicts, mainVars, actorVars>>

\* No connection, or no frame, for 20 seconds; or no listener any more.
ReceiverDies ==
  /\ \/ receiver = "accepting" /\ ((downState = "unopened" /\ slow) \/ ~ ListenersOpen)
     \/ receiver = "reading" /\ down = <<>> /\ downState = "open" /\ slow
  /\ receiver' = "died"
  /\ UNCHANGED <<downGot, window, stats, pending, verdicts, mainVars, actorVars>>

(***************************************************************************)
(* The program                                                             *)
(***************************************************************************)
Ended == main \in {"exited", "raised"}

MainStep ==
  \/ Connect \/ SendRecord \/ CloseUp \/ ProtectRaises \/ SendRaises
  \/ JoinReceiver \/ JoinActor \/ JudgeAccepted \/ JudgeRejections \/ ProgramEnds

\* The threads are daemons: they run on until the program ends, and stop with it.
ActorStep ==
  /\ ~ Ended
  /\ \/ ActorAccept \/ ActorRecvPiece \/ ActorRecv \/ ActorSend \/ ActorLog
     \/ ActorReturn \/ ActorDies

ReceiverStep ==
  /\ ~ Ended
  /\ \/ ReceiverAccept \/ ReceiverPiece \/ ReceiverReceive \/ ReceiverLog
     \/ ReceiverReturn \/ ReceiverDies

Next == MainStep \/ ActorStep \/ ReceiverStep

\* The operating system runs every thread that can run.
Spec == Init /\ [][Next]_vars /\ WF_vars(MainStep) /\ WF_vars(ActorStep) /\ WF_vars(ReceiverStep)

(***************************************************************************)
(* Properties                                                              *)
(***************************************************************************)
\* The two logs are filled by two threads and printed side by side
\* (run_network_demo.py:115-118, 215): the n-th verdict is about the n-th action,
\* whatever the interleaving and wherever a thread stops.
Answers == [forward |-> "accepted", replay |-> "REPLAY_DETECTED"]

AnswerTo(way) == IF way \in DOMAIN Answers THEN Answers[way] ELSE "AUTH_FAILED"

LogsLineUp ==
  /\ \A n \in DOMAIN actions \cap DOMAIN verdicts : verdicts[n] = AnswerTo(actions[n][2])
  /\ Len(verdicts) <= Len(actions) + 1

\* A frame that a timeout, an exception or the end of a thread cuts short is never
\* judged: recv_exact's None (62-69) does not tell it from a clean end of the stream,
\* and a thread takes it for one only where its peer has failed, in a run that then
\* prints no result (the sender) or does not print PASS (the actor).
FramesStayWhole ==
  /\ stats.MALFORMED = 0
  /\ actor = "returned" /\ upGot # <<>> => main \in {"raising", "raised"}
  /\ receiver = "returned" /\ downGot # <<>> => actor = "died" /\ result # "PASS"

\* The run implements its plan: although the joins may time out, and main then
\* compares counters the receiver is still writing (208-242), the verdicts are
\* the planned ones in order and PASS is printed exactly over a complete run.
Promised == INSTANCE DemoPlan WITH
  judged <- IF pending = "none" THEN verdicts ELSE Append(verdicts, pending)

ImplementsPlan == Promised!Spec

\* Without 20-second waits the demonstration passes for every record count that the
\* budget of the key covers.  A negative --records prints FAIL (229-244), and beyond
\* the budget protect raises before there is a result (149).
AlwaysPasses ==
  ~ slow =>
    /\ main \in {"raising", "raised"} => records > RecordLimit
    /\ result # "none" => (result = "PASS" <=> records \in 0 .. RecordLimit)

\* The program ends, also in a run where no timeout is there to end it: no thread
\* waits for another for ever (run_network_demo.py:178-209).
Terminates == <>Ended
=============================================================================

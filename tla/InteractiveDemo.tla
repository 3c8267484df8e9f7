---------------------------- MODULE InteractiveDemo ----------------------------
(***************************************************************************)
(* The menu-driven demonstration (demo/interactive.py).  One channel lives *)
(* across the choices of the user, so each demonstration meets the replay  *)
(* window and the sequence numbers that all the earlier ones left behind,  *)
(* the aborted ones included.                                              *)
(***************************************************************************)
EXTENDS ReplayWindow, Sequences

CONSTANTS Lengths,          \* lengths of the messages the user may type
          DeclaredLen,      \* the length TR-4 writes into the header (9999)
          RenumberedSeq,    \* the sequence number of TR-4 (99999)
          PoisonSeq,        \* that of TR-5 (999999)
          ForgedSeq,        \* that of TR-6 (100)
          MaxSends          \* bound: records sent on one channel

\* The channel has the default window, which is not empty (replay.py:52, session.py:36).
ASSUME InteractiveAssumption ==
  Lengths \subseteq Nat \ {0} /\ MaxSends \in Nat /\ WindowSize > 0

VARIABLES window,       \* the receiver's window of the channel's stream
          next,         \* the sender's next sequence number
          wire,         \* the genuine record at hand: [seq, len]
          todo,         \* steps left of the running demonstration
          queued,       \* demonstrations left of "run all"
          where,        \* "menu", "demo", "run all", "quit" or "crashed"
          last          \* the last verdict line shown

vars == <<window, next, wire, todo, queued, where, last>>

Demos == <<"TR-1", "TR-2", "TR-3", "TR-4", "TR-5", "TR-6">>

(***************************************************************************)
(* What the demonstrations do: steps, with the verdicts called a success   *)
(***************************************************************************)
AllVerdicts == {"ACCEPTED", "MALFORMED", "SUITE_MISMATCH", "SESSION_MISMATCH",
              "REPLAY_DETECTED", "STALE_RECORD", "AUTH_FAILED"}

Rejected == AllVerdicts \ {"ACCEPTED"}

Ask == [op |-> "ask", attack |-> "", wanted |-> {}]
SendIt == [op |-> "send", attack |-> "", wanted |-> {}]
Deliver(attack, wanted) == [op |-> "deliver", attack |-> attack, wanted |-> wanted]

TagAttacks == <<"zero tag", "random tag", "flip tag", "cut tag">>

HeaderAttacks == <<"type", "flags", "stream", "session", "suite", "length", "prefix",
                   "renumber">>

Against(attacks) == [i \in DOMAIN attacks |-> Deliver(attacks[i], Rejected)]

\* TR-3 runs the attack the user picks, or all of them.
Scripts(demo) ==
  CASE demo = "TR-1" -> {<<SendIt, Deliver("none", {"ACCEPTED"})>>}
    [] demo = "TR-2" -> {<<SendIt, Ask, Deliver("flip ciphertext", {"AUTH_FAILED"})>>}
    [] demo = "TR-3" -> {<<SendIt>> \o Against(t) :
                           t \in {<<TagAttacks[i]>> : i \in DOMAIN TagAttacks} \cup {TagAttacks}}
    [] demo = "TR-4" -> {<<SendIt>> \o Against(HeaderAttacks)}
    [] demo = "TR-5" -> {<<SendIt, Deliver("none", {"ACCEPTED"}),
                           Deliver("none", {"REPLAY_DETECTED"}),
                           Deliver("poison", AllVerdicts), SendIt,
                           Deliver("none", {"ACCEPTED"})>>}
    [] demo = "TR-6" -> {<<SendIt, Deliver("none", {"ACCEPTED"}),
                           Deliver("forge", Rejected)>>}

(***************************************************************************)
(* The channel                                                             *)
(***************************************************************************)
\* What an attack makes of the record: the number it claims, the window it is
\* looked up in, and the first check after or around the window that it fails.
Record(seq, ourStream, fault) == [seq |-> seq, ours |-> ourStream, fault |-> fault]

Attacked(attack) ==
  LET Same == Record(wire.seq, TRUE, "none")
      Renumbered(s) == Record(s, TRUE, IF s = wire.seq THEN "none" ELSE "AUTH_FAILED")
  IN  CASE attack = "none" -> Same
        [] attack = "cut tag" -> Record(wire.seq, TRUE, "MALFORMED")
        [] attack = "length" -> IF wire.len = DeclaredLen THEN Same
                                ELSE Record(wire.seq, TRUE, "MALFORMED")
        [] attack = "session" -> Record(wire.seq, TRUE, "SESSION_MISMATCH")
        [] attack = "suite" -> Record(wire.seq, TRUE, "SUITE_MISMATCH")
        [] attack = "stream" -> Record(wire.seq, FALSE, "AUTH_FAILED")
        [] attack = "renumber" -> Renumbered(RenumberedSeq)
        [] attack = "poison" -> Renumbered(PoisonSeq)
        [] attack = "forge" -> Record(ForgedSeq, TRUE, "AUTH_FAILED")
        [] OTHER -> Record(wire.seq, TRUE, "AUTH_FAILED")

\* Receiver.receive: framing, suite, session, replay, authentication.
Verdict(r) ==
  LET replay == WindowCheck(IF r.ours THEN window ELSE EmptyWindow, r.seq)
  IN  IF r.fault \in {"MALFORMED", "SUITE_MISMATCH", "SESSION_MISMATCH"} THEN r.fault
      ELSE IF replay = "DUPLICATE" THEN "REPLAY_DETECTED"
      ELSE IF replay = "TOO_OLD" THEN "STALE_RECORD"
      ELSE IF r.fault # "none" THEN r.fault
      ELSE "ACCEPTED"

Nothing == [seq |-> 0, len |-> 0]
NoLine == [shown |-> "PASS", altered |-> FALSE]

FreshChannel == window' = EmptyWindow /\ next' = 0 /\ wire' = Nothing

Init ==
  /\ window = EmptyWindow /\ next = 0 /\ wire = Nothing
  /\ todo = <<>> /\ queued = <<>> /\ where = "menu" /\ last = NoLine

(***************************************************************************)
(* The menu                                                                *)
(***************************************************************************)
Choose(demo) ==
  /\ where = "menu"
  /\ next + 2 <= MaxSends
  /\ todo' \in Scripts(demo)
  /\ where' = "demo"
  /\ UNCHANGED <<window, next, wire, queued, last>>

\* "a": TR-1 on the channel as it is, then each demonstration on a fresh one.
RunAll ==
  /\ where = "menu"
  /\ next + 2 <= MaxSends
  /\ todo' \in Scripts("TR-1")
  /\ queued' = Tail(Demos)
  /\ where' = "run all"
  /\ UNCHANGED <<window, next, wire, last>>

\* "r" and "s"
NewChannel ==
  /\ where = "menu"
  /\ FreshChannel
  /\ UNCHANGED <<todo, queued, where, last>>

Quit ==
  /\ where = "menu"
  /\ where' = "quit"
  /\ UNCHANGED <<window, next, wire, todo, queued, last>>

NextDemo ==
  /\ where = "run all" /\ todo = <<>> /\ queued # <<>>
  /\ FreshChannel
  /\ todo' \in Scripts(Head(queued))
  /\ queued' = Tail(queued)
  /\ UNCHANGED <<where, last>>

DemoEnds ==
  /\ where \in {"demo", "run all"} /\ todo = <<>> /\ queued = <<>>
  /\ where' = "menu"
  /\ UNCHANGED <<window, next, wire, todo, queued, last>>

(***************************************************************************)
(* The steps of a demonstration                                            *)
(***************************************************************************)
Doing(op) == todo # <<>> /\ Head(todo).op = op

\* channel.send of what the user typed, or of the default.
Send(len) ==
  /\ Doing("send")
  /\ wire' = [seq |-> next, len |-> len]
  /\ next' = next + 1
  /\ todo' = Tail(todo)
  /\ UNCHANGED <<window, queued, where, last>>

\* The offset and the bit to flip: numbers that fit, or no number.
Answer ==
  /\ Doing("ask")
  /\ todo' = Tail(todo)
  /\ UNCHANGED <<window, next, wire, queued, where, last>>

\* A number that does not fit raises: the menu reports it, "run all" does not.
AnswerRaises ==
  /\ Doing("ask")
  /\ todo' = <<>>
  /\ queued' = <<>>
  /\ where' = IF where = "run all" THEN "crashed" ELSE "menu"
  /\ UNCHANGED <<window, next, wire, last>>

\* (mutant) The window moves before the record is authenticated.
Receive_CommitsEarly(r) ==
  window' = IF r.ours /\ Verdict(r) \in {"ACCEPTED", "AUTH_FAILED"}
            THEN WindowCommit(window, r.seq) ELSE window

Receive(r) ==
  window' = IF Verdict(r) = "ACCEPTED" THEN WindowCommit(window, r.seq) ELSE window

\* channel.deliver, and the line that tells the user how it went.
DeliverIt ==
  /\ Doing("deliver")
  /\ LET step == Head(todo)
         r == Attacked(step.attack)
     IN  /\ Receive(r)
         /\ last' = [shown |-> IF Verdict(r) \in step.wanted THEN "PASS" ELSE "FAIL",
                     altered |-> step.attack = "none" \/ r.fault # "none"]
  /\ todo' = Tail(todo)
  /\ UNCHANGED <<next, wire, queued, where>>

Next ==
  \/ \E i \in DOMAIN Demos : Choose(Demos[i])
  \/ RunAll \/ NewChannel \/ Quit \/ NextDemo \/ DemoEnds
  \/ \E len \in Lengths : Send(len)
  \/ Answer \/ AnswerRaises \/ DeliverIt

Spec == Init /\ [][Next]_vars

(***************************************************************************)
(* Properties                                                              *)
(***************************************************************************)
\* Whatever was demonstrated, aborted or attacked before, a demonstration shows
\* FAIL only if its attack happened to leave the record as it was, as TR-4's
\* "payload_len -> 9999" does to a message of 9999 bytes (interactive.py:198-215).
FailMeansUnaltered == last.shown = "FAIL" => ~ last.altered

\* No forged number ever moves the window: it stays among the numbers that were
\* sent, so the channel remains usable (interactive.py:244-260).
NeverPoisoned == window.highest < next
=============================================================================

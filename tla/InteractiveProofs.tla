--------------------------- MODULE InteractiveProofs ---------------------------
(***************************************************************************)
(* Proofs about InteractiveDemo for any window, any message lengths and    *)
(* any forged numbers.  A session of the menu is an arbitrary sequence of  *)
(* scripts, cut short anywhere an answer does not fit; what makes it       *)
(* predictable is local: which step may follow which, and what the step at *)
(* the head of the script may rely on.                                     *)
(***************************************************************************)
EXTENDS InteractiveDemo, SequenceTheorems, TLAPS

USE WindowSizeAssumption, InteractiveAssumption

DemoNames == {"TR-1", "TR-2", "TR-3", "TR-4", "TR-5", "TR-6"}

\* The steps the scripts are made of.
Accept == Deliver("none", {"ACCEPTED"})
Again == Deliver("none", {"REPLAY_DETECTED"})
Flip == Deliver("flip ciphertext", {"AUTH_FAILED"})
Poison == Deliver("poison", AllVerdicts)
HostileAttacks == {"zero tag", "random tag", "flip tag", "cut tag", "type", "flags",
                   "stream", "session", "suite", "length", "prefix", "renumber", "forge"}
Hostile == {Deliver(a, Rejected) : a \in HostileAttacks}
Steps == {Ask, SendIt, Accept, Again, Flip, Poison} \cup Hostile

TypeOK ==
  /\ window \in Window
  /\ next \in Nat
  /\ wire \in [seq : Nat, len : Nat]
  /\ todo \in Seq(Steps)
  /\ queued \in Seq(DemoNames)
  /\ last \in [shown : {"PASS", "FAIL"}, altered : BOOLEAN]

\* Which step may stand right before a step.
Follows(step, prev) ==
  /\ step \in {Accept, Ask} => prev = SendIt
  /\ step = Flip => prev = Ask
  /\ step = Again => prev = Accept

Orderly(t) == \A i \in 1 .. Len(t) - 1 : Follows(t[i + 1], t[i])

\* What a step relies on: a record sent before, one that the window has not seen,
\* or one that it has.
Sent == wire.seq < next
Unseen == window.highest < wire.seq
Seen == WindowCheck(window, wire.seq) = "DUPLICATE"

Reliable(step) ==
  /\ step # SendIt => Sent
  /\ step \in {Accept, Ask, Flip} => Unseen
  /\ step = Again => Seen

SessionInv ==
  /\ TypeOK
  /\ where = "menu" => todo = <<>>
  /\ Orderly(todo)
  /\ todo # <<>> => Reliable(Head(todo))
  /\ NeverPoisoned
  /\ FailMeansUnaltered

-----------------------------------------------------------------------------
\* The steps differ from one another.
LEMMA StepsDiffer ==
  /\ SendIt \notin {Ask, Accept, Again, Flip, Poison} \cup Hostile
  /\ Ask \notin {Accept, Again, Flip, Poison} \cup Hostile
  /\ Accept \notin {Again, Flip, Poison} \cup Hostile
  /\ Again \notin {Flip, Poison} \cup Hostile
  /\ Flip \notin {Poison} \cup Hostile
<1>1. {"ACCEPTED"} # {"REPLAY_DETECTED"} /\ {"ACCEPTED"} # {"AUTH_FAILED"}
  OBVIOUS
<1>2. \A h \in Hostile : h.op = "deliver" /\ h.attack \in HostileAttacks
  BY DEF Hostile, Deliver
<1>3. /\ "none" \notin HostileAttacks
      /\ "flip ciphertext" \notin HostileAttacks
  BY DEF HostileAttacks
<1>4. /\ SendIt.op = "send" /\ Ask.op = "ask"
      /\ Accept.op = "deliver" /\ Accept.attack = "none" /\ Accept.wanted = {"ACCEPTED"}
      /\ Again.op = "deliver" /\ Again.attack = "none" /\ Again.wanted = {"REPLAY_DETECTED"}
      /\ Flip.op = "deliver" /\ Flip.attack = "flip ciphertext"
      /\ Poison.op = "deliver" /\ Poison.attack = "poison"
  BY DEF SendIt, Ask, Accept, Again, Flip, Poison, Deliver
<1> QED
  BY <1>1, <1>2, <1>3, <1>4

\* What each step delivers, and the verdicts it wants.
LEMMA StepFields ==
  /\ Accept.attack = "none" /\ Accept.wanted = {"ACCEPTED"}
  /\ Again.attack = "none" /\ Again.wanted = {"REPLAY_DETECTED"}
  /\ Flip.attack = "flip ciphertext" /\ Flip.wanted = {"AUTH_FAILED"}
  /\ Poison.wanted = AllVerdicts
  /\ \A h \in Hostile : h.attack # "none" /\ h.wanted = Rejected
<1>1. \A a \in HostileAttacks : a # "none"
  BY DEF HostileAttacks
<1> QED
  BY <1>1 DEF Accept, Again, Flip, Poison, Hostile, Deliver

\* What the steps do tells them apart.
LEMMA StepKinds ==
  ASSUME NEW step \in Steps
  PROVE  /\ step.op = "ask" <=> step = Ask
         /\ step.op = "send" <=> step = SendIt
         /\ step.op = "deliver" <=> step \in {Accept, Again, Flip, Poison} \cup Hostile
<1>1. \A h \in Hostile : h.op = "deliver"
  BY DEF Hostile, Deliver
<1>2. /\ SendIt.op = "send" /\ Ask.op = "ask" /\ Accept.op = "deliver"
      /\ Again.op = "deliver" /\ Flip.op = "deliver" /\ Poison.op = "deliver"
  BY DEF SendIt, Ask, Accept, Again, Flip, Poison, Deliver
<1> QED
  BY <1>1, <1>2 DEF Steps

\* The attacks on one record, each expecting a rejection.
LEMMA AgainstHostile ==
  ASSUME NEW t \in Seq(HostileAttacks)
  PROVE  /\ Against(t) \in Seq(Hostile)
         /\ Len(Against(t)) = Len(t)
BY DEF Against, Hostile

\* A script that delivers attacked records after one that was sent.
LEMMA AttacksOrderly ==
  ASSUME NEW t \in Seq(HostileAttacks)
  PROVE  /\ <<SendIt>> \o Against(t) \in Seq(Steps)
         /\ <<SendIt>> \o Against(t) # <<>>
         /\ Head(<<SendIt>> \o Against(t)) = SendIt
         /\ Orderly(<<SendIt>> \o Against(t))
<1> DEFINE s == <<SendIt>> \o Against(t)
<1>1. /\ s \in Seq(Steps) /\ Len(s) = Len(t) + 1 /\ s[1] = SendIt /\ Len(t) \in Nat
      /\ \A i \in 1 .. Len(s) - 1 : s[i + 1] \in Hostile
  BY AgainstHostile DEF Steps
<1>2. \A h \in Hostile : \A prev : Follows(h, prev)
  BY StepsDiffer DEF Follows
<1> QED
  BY <1>1, <1>2 DEF Orderly

\* Every script begins by sending a record and respects the order of its steps.
LEMMA ScriptsOrderly ==
  ASSUME NEW demo \in DemoNames, NEW s \in Scripts(demo)
  PROVE  s \in Seq(Steps) /\ s # <<>> /\ Head(s) = SendIt /\ Orderly(s)
<1>a. /\ SendIt \in Steps /\ Ask \in Steps /\ Accept \in Steps /\ Again \in Steps
      /\ Flip \in Steps /\ Poison \in Steps
  BY DEF Steps
<1>b. /\ Follows(Accept, SendIt) /\ Follows(Ask, SendIt) /\ Follows(Flip, Ask)
      /\ Follows(Again, Accept) /\ Follows(Poison, Again) /\ Follows(SendIt, Poison)
      /\ \A h \in Hostile : Follows(h, Accept)
  BY StepsDiffer DEF Follows
<1>1. CASE demo = "TR-1"
  <2>1. s = <<SendIt, Accept>>
    BY <1>1 DEF Scripts, Accept
  <2>2. Len(s) = 2 /\ s[1] = SendIt /\ s[2] = Accept /\ s \in Seq(Steps)
    BY <2>1, <1>a
  <2>3. \A i \in 1 .. Len(s) - 1 : i = 1
    BY <2>2
  <2> QED
    BY <2>2, <2>3, <1>b DEF Orderly
<1>2. CASE demo = "TR-2"
  <2>1. s = <<SendIt, Ask, Flip>>
    BY <1>2 DEF Scripts, Flip
  <2>2. Len(s) = 3 /\ s[1] = SendIt /\ s[2] = Ask /\ s[3] = Flip /\ s \in Seq(Steps)
    BY <2>1, <1>a
  <2>3. \A i \in 1 .. Len(s) - 1 : i = 1 \/ i = 2
    BY <2>2
  <2> QED
    BY <2>2, <2>3, <1>b DEF Orderly
<1>3. CASE demo = "TR-3"
  <2>0. TagAttacks \in Seq(HostileAttacks)
    BY DEF TagAttacks, HostileAttacks
  <2>1. PICK t \in {<<TagAttacks[i]>> : i \in DOMAIN TagAttacks} \cup {TagAttacks} :
               s = <<SendIt>> \o Against(t)
    BY <1>3 DEF Scripts
  <2>2. t \in Seq(HostileAttacks)
    <3>1. \A i \in DOMAIN TagAttacks : <<TagAttacks[i]>> \in Seq(HostileAttacks)
      BY <2>0
    <3> QED
      BY <2>0, <2>1, <3>1
  <2> QED
    BY <2>1, <2>2, AttacksOrderly
<1>4. CASE demo = "TR-4"
  <2>1. HeaderAttacks \in Seq(HostileAttacks)
    BY DEF HeaderAttacks, HostileAttacks
  <2>2. s = <<SendIt>> \o Against(HeaderAttacks)
    BY <1>4 DEF Scripts
  <2> QED
    BY <2>1, <2>2, AttacksOrderly
<1>5. CASE demo = "TR-5"
  <2>1. s = <<SendIt, Accept, Again, Poison, SendIt, Accept>>
    BY <1>5 DEF Scripts, Accept, Again, Poison
  <2>2. /\ Len(s) = 6 /\ s[1] = SendIt /\ s[2] = Accept /\ s[3] = Again
        /\ s[4] = Poison /\ s[5] = SendIt /\ s[6] = Accept /\ s \in Seq(Steps)
    BY <2>1, <1>a
  <2>3. \A i \in 1 .. Len(s) - 1 : i = 1 \/ i = 2 \/ i = 3 \/ i = 4 \/ i = 5
    BY <2>2
  <2> QED
    BY <2>2, <2>3, <1>b DEF Orderly
<1>6. CASE demo = "TR-6"
  <2>1. Deliver("forge", Rejected) \in Hostile
    BY DEF Hostile, HostileAttacks
  <2> QED
    <3> DEFINE h == Deliver("forge", Rejected)
    <3>1. s = <<SendIt, Accept, h>>
      BY <1>6 DEF Scripts, Accept
    <3>2. h \in Hostile /\ h \in Steps
      BY <2>1 DEF Steps
    <3> HIDE DEF h
    <3>3. Len(s) = 3 /\ s[1] = SendIt /\ s[2] = Accept /\ s[3] = h /\ s \in Seq(Steps)
      BY <3>1, <3>2, <1>a
    <3>4. \A i \in 1 .. Len(s) - 1 : i = 1 \/ i = 2
      BY <3>3
    <3> QED
      BY <3>2, <3>3, <3>4, <1>b DEF Orderly
<1> QED
  BY <1>1, <1>2, <1>3, <1>4, <1>5, <1>6 DEF DemoNames

-----------------------------------------------------------------------------
(***************************************************************************)
(* One record                                                              *)
(***************************************************************************)
\* What an attack leaves of the record: untouched, it is the genuine one.
LEMMA AttackedFaults ==
  ASSUME NEW attack
  PROVE  /\ Attacked(attack).fault \in {"none", "MALFORMED", "SUITE_MISMATCH",
                                        "SESSION_MISMATCH", "AUTH_FAILED"}
         /\ Attacked(attack).fault = "none" =>
              Attacked(attack) = Record(wire.seq, TRUE, "none")
         /\ attack = "none" => Attacked(attack) = Record(wire.seq, TRUE, "none")
         /\ attack = "flip ciphertext" =>
              Attacked(attack) = Record(wire.seq, TRUE, "AUTH_FAILED")
BY DEF Attacked, Record

\* A verdict: never acceptance of a record with a fault.
LEMMA VerdictOfFault ==
  ASSUME NEW attack
  PROVE  LET v == Verdict(Attacked(attack))
         IN  /\ v \in AllVerdicts
             /\ Attacked(attack).fault # "none" => v \in Rejected
BY AttackedFaults DEF Verdict, AllVerdicts, Rejected

\* The verdict on the genuine record, and on its number with a bad tag.
LEMMA VerdictOfGenuine ==
  ASSUME TypeOK, NEW fault \in {"none", "AUTH_FAILED"}
  PROVE  LET v == Verdict(Record(wire.seq, TRUE, fault))
             bare == IF fault = "none" THEN "ACCEPTED" ELSE fault
         IN  /\ Unseen => v = bare
             /\ Seen => v = "REPLAY_DETECTED"
             /\ v = "ACCEPTED" => WindowTakes(window, wire.seq)
BY DEF Verdict, Record, Unseen, Seen, WindowCheck, WindowTakes, Ahead, Behind, TypeOK, Window

\* After its record was accepted the window has seen it, and has not moved beyond it
\* or where it was.
LEMMA CommitSeen ==
  ASSUME NEW w \in Window, NEW s \in Nat, WindowTakes(w, s)
  PROVE  /\ WindowCommit(w, s) \in Window
         /\ WindowCheck(WindowCommit(w, s), s) = "DUPLICATE"
         /\ WindowCommit(w, s).highest \in {w.highest, s}
<1> DEFINE v == WindowCommit(w, s)
<1>1. CASE Ahead(w, s)
  <2>1. v = [highest |-> s, bitmap |-> Shifted(w, s), accepted |-> w.accepted + 1]
    BY <1>1 DEF WindowCommit
  <2>2. Shifted(w, s) \in SUBSET Nat /\ 0 \in Shifted(w, s)
    BY <1>1 DEF Shifted, Ahead, Window
  <2>3. v \in Window
    BY <2>1, <2>2 DEF Window
  <2> QED
    BY <2>1, <2>2, <2>3 DEF WindowCheck, Ahead, Behind
<1>2. CASE ~ Ahead(w, s)
  <2>1. v = [highest |-> w.highest, bitmap |-> w.bitmap \cup {w.highest - s},
             accepted |-> w.accepted + 1]
    BY <1>2 DEF WindowCommit
  <2>2. w.highest - s \in Nat /\ w.highest >= 0 /\ ~ Behind(w, s)
    BY <1>2 DEF Ahead, Window, WindowTakes
  <2>3. v \in Window
    BY <2>1, <2>2 DEF Window
  <2> QED
    BY <2>1, <2>2, <2>3, <1>2 DEF WindowCheck, Ahead, Behind, Window
<1> QED
  BY <1>1, <1>2

-----------------------------------------------------------------------------
(***************************************************************************)
(* The session                                                             *)
(***************************************************************************)
\* What is left of an orderly script is orderly.
LEMMA TailOrderly ==
  ASSUME NEW t \in Seq(Steps), t # <<>>, Orderly(t)
  PROVE  /\ Tail(t) \in Seq(Steps) /\ Orderly(Tail(t)) /\ Head(t) \in Steps
         /\ Tail(t) # <<>> => Follows(Head(Tail(t)), Head(t)) /\ Head(Tail(t)) \in Steps
<1>1. /\ Tail(t) \in Seq(Steps) /\ Len(t) \in Nat \ {0} /\ Len(Tail(t)) = Len(t) - 1
      /\ \A i \in 1 .. Len(Tail(t)) : Tail(t)[i] = t[i + 1]
      /\ Head(t) = t[1] /\ Head(t) \in Steps
  OBVIOUS
<1>2. Orderly(Tail(t))
  <2> SUFFICES ASSUME NEW i \in 1 .. Len(Tail(t)) - 1
               PROVE  Follows(Tail(t)[i + 1], Tail(t)[i])
    BY DEF Orderly
  <2>1. i + 1 \in 1 .. Len(t) - 1 /\ i \in 1 .. Len(Tail(t)) /\ i + 1 \in 1 .. Len(Tail(t))
    BY <1>1
  <2> QED
    BY <1>1, <2>1 DEF Orderly
<1>3. ASSUME Tail(t) # <<>>
      PROVE  Follows(Head(Tail(t)), Head(t)) /\ Head(Tail(t)) \in Steps
  <2>1. 1 \in 1 .. Len(t) - 1 /\ Head(Tail(t)) = t[2]
    BY <1>1, <1>3
  <2> QED
    BY <1>1, <1>3, <2>1 DEF Orderly
<1> QED
  BY <1>1, <1>2, <1>3

LEMMA InitSession == Init => SessionInv
BY DEF Init, SessionInv, TypeOK, Window, EmptyWindow, Nothing, NoLine, Orderly,
       NeverPoisoned, FailMeansUnaltered

\* A script begins, on the channel as it is or on a fresh one.
LEMMA ScriptBegins ==
  ASSUME SessionInv, NEW demo \in DemoNames, todo' \in Scripts(demo),
         UNCHANGED <<window, next, wire>> \/ FreshChannel,
         queued' \in Seq(DemoNames), where' # "menu", last' = last
  PROVE  SessionInv'
<1>1. todo' \in Seq(Steps) /\ todo' # <<>> /\ Head(todo') = SendIt /\ Orderly(todo')
  BY ScriptsOrderly
<1>2. TypeOK' /\ NeverPoisoned'
  BY <1>1 DEF SessionInv, TypeOK, NeverPoisoned, FreshChannel, EmptyWindow, Nothing, Window
<1>3. Reliable(Head(todo))'
  BY <1>1, StepsDiffer DEF Reliable
<1> QED
  BY <1>1, <1>2, <1>3 DEF SessionInv, FailMeansUnaltered

LEMMA SendSession ==
  ASSUME SessionInv, NEW len \in Lengths, Send(len)
  PROVE  SessionInv'
<1>1. /\ todo # <<>> /\ Head(todo).op = "send" /\ todo' = Tail(todo)
      /\ wire' = [seq |-> next, len |-> len] /\ next' = next + 1 /\ window' = window
      /\ TypeOK /\ len \in Nat /\ where # "menu"
  BY DEF Send, Doing, SessionInv
<1>2. Head(todo) = SendIt
  <2>1. Head(todo) \in Steps
    BY <1>1, TailOrderly DEF SessionInv, TypeOK
  <2> QED
    BY <1>1, <2>1, StepKinds
<1>3. /\ Tail(todo) \in Seq(Steps) /\ Orderly(Tail(todo))
      /\ Tail(todo) # <<>> => Follows(Head(Tail(todo)), SendIt)
  BY <1>1, <1>2, TailOrderly DEF SessionInv, TypeOK
<1>4. TypeOK'
  BY <1>1, <1>3 DEF Send, TypeOK
<1>5. Sent' /\ Unseen'
  BY <1>1 DEF Sent, Unseen, SessionInv, NeverPoisoned, TypeOK
<1>6. todo' # <<>> => Reliable(Head(todo))'
  BY <1>1, <1>3, <1>5, StepsDiffer DEF Reliable, Follows
<1>7. NeverPoisoned'
  BY <1>1 DEF SessionInv, NeverPoisoned, TypeOK, Window
<1> QED
  BY <1>1, <1>3, <1>4, <1>6, <1>7 DEF SessionInv, FailMeansUnaltered, Send

LEMMA AnswerSession ==
  ASSUME SessionInv, Answer
  PROVE  SessionInv'
<1>1. /\ todo # <<>> /\ Head(todo).op = "ask" /\ todo' = Tail(todo)
      /\ TypeOK /\ where # "menu"
  BY DEF Answer, Doing, SessionInv
<1>2. Head(todo) = Ask
  <2>1. Head(todo) \in Steps
    BY <1>1, TailOrderly DEF SessionInv, TypeOK
  <2> QED
    BY <1>1, <2>1, StepKinds
<1>3. /\ Tail(todo) \in Seq(Steps) /\ Orderly(Tail(todo))
      /\ Tail(todo) # <<>> => Follows(Head(Tail(todo)), Ask)
  BY <1>1, <1>2, TailOrderly DEF SessionInv, TypeOK
<1>4. Sent /\ Unseen
  BY <1>1, <1>2, StepsDiffer DEF SessionInv, Reliable
<1>5. todo' # <<>> => Reliable(Head(todo))'
  BY <1>1, <1>3, <1>4, StepsDiffer DEF Reliable, Follows, Answer, Sent, Unseen
<1> QED
  BY <1>1, <1>3, <1>5 DEF SessionInv, TypeOK, NeverPoisoned, FailMeansUnaltered, Answer

\* A delivery: nothing but the record that was sent moves the window, and the
\* line it shows is the wanted one unless the attack left the record as it was.
LEMMA DeliverSession ==
  ASSUME SessionInv, DeliverIt
  PROVE  SessionInv'
<1> DEFINE step == Head(todo)
           r == Attacked(step.attack)
           v == Verdict(r)
<1>1. /\ todo # <<>> /\ step.op = "deliver" /\ todo' = Tail(todo)
      /\ TypeOK /\ where # "menu"
      /\ window' = IF v = "ACCEPTED" THEN WindowCommit(window, r.seq) ELSE window
      /\ last' = [shown |-> IF v \in step.wanted THEN "PASS" ELSE "FAIL",
                  altered |-> step.attack = "none" \/ r.fault # "none"]
      /\ UNCHANGED <<next, wire, queued, where>>
  BY DEF DeliverIt, Doing, Receive, SessionInv
<1>2. /\ step \in {Accept, Again, Flip, Poison} \cup Hostile
      /\ Tail(todo) \in Seq(Steps) /\ Orderly(Tail(todo))
      /\ Tail(todo) # <<>> => Follows(Head(Tail(todo)), step)
  BY <1>1, TailOrderly, StepKinds DEF SessionInv, TypeOK
<1>3. Sent /\ (step \in {Accept, Flip} => Unseen) /\ (step = Again => Seen)
  BY <1>1, <1>2, StepsDiffer DEF SessionInv, Reliable
<1>4. /\ v \in AllVerdicts
      /\ r.fault # "none" => v \in Rejected
      /\ r.fault = "none" => r = Record(wire.seq, TRUE, "none")
  BY VerdictOfFault, AttackedFaults
<1>5. step \in {Accept, Again} => r = Record(wire.seq, TRUE, "none")
  BY AttackedFaults, StepFields
<1>6. step = Flip => r = Record(wire.seq, TRUE, "AUTH_FAILED")
  BY AttackedFaults, StepFields
<1>7. wire.seq \in Nat /\ window \in Window
  BY <1>1 DEF TypeOK
<1>8. v = "ACCEPTED" => /\ r.seq = wire.seq
                        /\ WindowTakes(window, wire.seq)
  BY <1>1, <1>4, VerdictOfGenuine DEF Rejected, Record
<1>9. /\ window' \in Window
      /\ window'.highest \in {window.highest, wire.seq}
      /\ v = "ACCEPTED" => Seen'
  BY <1>1, <1>7, <1>8, CommitSeen DEF Seen
<1>10. NeverPoisoned' /\ Sent'
  BY <1>1, <1>3, <1>9 DEF SessionInv, NeverPoisoned, Sent
<1>11. /\ step = Accept => v = "ACCEPTED"
       /\ step = Again => v = "REPLAY_DETECTED"
       /\ step = Flip => v = "AUTH_FAILED"
  BY <1>1, <1>3, <1>5, <1>6, VerdictOfGenuine
<1>12. todo' # <<>> => Reliable(Head(todo))'
  <2> SUFFICES ASSUME Tail(todo) # <<>> PROVE Reliable(Head(todo))'
    BY <1>1
  <2>1. Head(todo') \notin {Accept, Ask, Flip} /\ (Head(todo') = Again => step = Accept)
    BY <1>1, <1>2, StepsDiffer DEF Follows
  <2> QED
    BY <2>1, <1>9, <1>10, <1>11 DEF Reliable
<1>13. FailMeansUnaltered'
  <2>1. CASE step \in {Accept, Again, Flip, Poison}
    <3>1. v \in step.wanted
      BY <2>1, <1>4, <1>11, StepFields
    <3> QED
      BY <1>1, <3>1 DEF FailMeansUnaltered
  <2>2. CASE step \in Hostile
    <3>1. step.wanted = Rejected /\ step.attack # "none"
      BY <2>2, StepFields
    <3> QED
      BY <1>1, <1>4, <3>1 DEF FailMeansUnaltered
  <2> QED
    BY <1>2, <2>1, <2>2
<1>14. TypeOK'
  BY <1>1, <1>2, <1>9 DEF TypeOK
<1> QED
  BY <1>1, <1>2, <1>10, <1>12, <1>13, <1>14 DEF SessionInv

LEMMA NextSession == SessionInv /\ [Next]_vars => SessionInv'
<1> SUFFICES ASSUME SessionInv, [Next]_vars PROVE SessionInv'
  OBVIOUS
<1> USE DEF SessionInv
<1>1. /\ \A i \in DOMAIN Demos : Demos[i] \in DemoNames
      /\ Tail(Demos) \in Seq(DemoNames) /\ "TR-1" \in DemoNames
  BY DEF Demos, DemoNames
<1>2. ASSUME NEW i \in DOMAIN Demos, Choose(Demos[i]) PROVE SessionInv'
  <2>1. Demos[i] \in DemoNames /\ queued' \in Seq(DemoNames) /\ where' # "menu"
    BY <1>1, <1>2 DEF Choose, TypeOK
  <2> QED
    BY <1>2, <2>1, ScriptBegins DEF Choose
<1>3. CASE RunAll
  <2>1. queued' \in Seq(DemoNames) /\ where' # "menu"
    BY <1>1, <1>3 DEF RunAll
  <2> QED
    BY <1>1, <1>3, <2>1, ScriptBegins DEF RunAll
<1>4. CASE NewChannel
  BY <1>4 DEF NewChannel, FreshChannel, TypeOK, Window, EmptyWindow, Nothing,
              NeverPoisoned, FailMeansUnaltered
<1>5. CASE Quit
  BY <1>5 DEF Quit, TypeOK, NeverPoisoned, FailMeansUnaltered
<1>6. CASE NextDemo
  <2>1. Head(queued) \in DemoNames /\ queued' \in Seq(DemoNames) /\ where' # "menu"
    <3>1. queued \in Seq(DemoNames) /\ queued # <<>>
      BY <1>6 DEF NextDemo, TypeOK
    <3>2. Head(queued) \in DemoNames /\ Tail(queued) \in Seq(DemoNames)
      BY ONLY <3>1
    <3> QED
      BY <1>6, <3>2 DEF NextDemo
  <2> QED
    BY <1>6, <2>1, ScriptBegins DEF NextDemo
<1>7. CASE DemoEnds
  BY <1>7 DEF DemoEnds, TypeOK, NeverPoisoned, FailMeansUnaltered
<1>8. ASSUME NEW len \in Lengths, Send(len) PROVE SessionInv'
  BY <1>8, SendSession
<1>9. CASE Answer
  BY <1>9, AnswerSession
<1>10. CASE AnswerRaises
  <2>1. todo' = <<>> /\ queued' = <<>> /\ UNCHANGED <<window, next, wire, last>>
    BY <1>10 DEF AnswerRaises
  <2>2. TypeOK' /\ Orderly(todo')
    BY <2>1 DEF TypeOK, Orderly
  <2> QED
    BY <2>1, <2>2 DEF NeverPoisoned, FailMeansUnaltered
<1>11. CASE DeliverIt
  BY <1>11, DeliverSession
<1>12. CASE UNCHANGED vars
  BY <1>12 DEF vars, TypeOK, Orderly, Reliable, Sent, Unseen, Seen, NeverPoisoned,
               FailMeansUnaltered
<1> QED
  BY <1>2, <1>3, <1>4, <1>5, <1>6, <1>7, <1>8, <1>9, <1>10, <1>11, <1>12 DEF Next

\* Every state of the menu is in order: what is left of a script follows from what
\* was done of it, and the step at its head can rely on what it needs.
THEOREM SessionOrderly == Spec => []SessionInv
<1>1. Init => SessionInv
  BY InitSession
<1>2. SessionInv /\ [Next]_vars => SessionInv'
  BY NextSession
<1> QED
  BY <1>1, <1>2, PTL DEF Spec

\* A demonstration shows FAIL only of a record its attack left as it was, after any
\* choices and aborted scripts, for any window and forged numbers
\* (interactive.py:198-215).
THEOREM FailuresExplained == Spec => []FailMeansUnaltered
<1>1. SessionInv => FailMeansUnaltered
  BY DEF SessionInv
<1> QED
  BY <1>1, SessionOrderly, PTL

\* No forged number ever moves the window beyond what was sent
\* (interactive.py:244-260).
THEOREM WindowNeverPoisoned == Spec => []NeverPoisoned
<1>1. SessionInv => NeverPoisoned
  BY DEF SessionInv
<1> QED
  BY <1>1, SessionOrderly, PTL
=============================================================================

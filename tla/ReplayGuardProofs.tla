-------------------------- MODULE ReplayGuardProofs --------------------------
(***************************************************************************)
(* Proofs about ReplayGuard for every window size, every cap, every set of *)
(* streams and of sequence numbers.                                        *)
(***************************************************************************)
EXTENDS ReplayBitmap, FiniteSetTheorems, WellFoundedInduction, TLAPS

USE DEF Window

(***************************************************************************)
(* One window                                                              *)
(***************************************************************************)
\* commit takes a number exactly when check calls it fresh (replay.py:130-208).
LEMMA TakesIffFresh ==
  ASSUME NEW w \in Window, NEW s \in Int
  PROVE  WindowTakes(w, s) <=> WindowCheck(w, s) = "FRESH"
BY WindowSizeAssumption DEF WindowTakes, WindowCheck, Ahead, Behind

\* An exact window takes no number of its history a second time, and takes only
\* what is within reach of everything in the history.
LEMMA TakenNotTakenAgain ==
  ASSUME NEW w \in Window, NEW h \in SUBSET Nat, WindowExact(w, h),
         NEW s \in Int, WindowTakes(w, s)
  PROVE  /\ s \in Nat
         /\ s \notin h
         /\ \A t \in h : t - s < WindowSize
<1>1. s \in Nat
  BY DEF WindowTakes
<1>2. CASE Ahead(w, s)
  BY <1>1, <1>2, WindowSizeAssumption DEF Ahead, WindowExact
<1>3. CASE ~ Ahead(w, s)
  BY <1>1, <1>3, WindowSizeAssumption DEF Ahead, Behind, WindowTakes, WindowExact
<1> QED
  BY <1>2, <1>3, <1>1

\* What an exact window does not take is in its history, or too far behind it.
LEMMA RefusalsJustified ==
  ASSUME NEW w \in Window, NEW h \in SUBSET Nat, WindowExact(w, h), NEW s \in Int
  PROVE  /\ WindowCheck(w, s) = "DUPLICATE" => s \in h
         /\ WindowCheck(w, s) = "TOO_OLD" => \E t \in h : t - s >= WindowSize
         /\ WindowCheck(w, s) = "INVALID" => s < 0
BY WindowSizeAssumption DEF WindowCheck, Ahead, Behind, WindowExact

\* What check says of a sequence number, read off the history alone.
LEMMA VerdictOfHistory ==
  ASSUME NEW w \in Window, NEW h \in SUBSET Nat, WindowExact(w, h), NEW s \in Nat
  PROVE  WindowCheck(w, s) = IF \E t \in h : t - s >= WindowSize THEN "TOO_OLD"
                             ELSE IF s \in h THEN "DUPLICATE" ELSE "FRESH"
<1>1. CASE Ahead(w, s)
  <2>1. \A t \in h : t < s
    BY <1>1 DEF Ahead, WindowExact
  <2> QED
    BY <1>1, <2>1, WindowSizeAssumption DEF WindowCheck
<1>2. CASE ~ Ahead(w, s) /\ Behind(w, s)
  BY <1>2, WindowSizeAssumption DEF WindowCheck, WindowExact, Ahead, Behind
<1>3. CASE ~ Ahead(w, s) /\ ~ Behind(w, s)
  <2>1. \A t \in h : t - s < WindowSize
    BY <1>3, WindowSizeAssumption DEF WindowExact, Behind
  <2>2. w.highest - s \in w.bitmap <=> s \in h
    BY <1>3, WindowSizeAssumption DEF WindowExact, Ahead, Behind
  <2> QED
    BY <1>3, <2>1, <2>2, WindowSizeAssumption DEF WindowCheck
<1> QED
  BY <1>1, <1>2, <1>3

\* commit keeps a window exact about its history.
LEMMA CommitKeepsExact ==
  ASSUME NEW w \in Window, NEW h \in SUBSET Nat, WindowExact(w, h), NEW s \in Int
  PROVE  LET g == IF WindowTakes(w, s) THEN h \cup {s} ELSE h
         IN  /\ WindowCommit(w, s) \in Window
             /\ WindowExact(WindowCommit(w, s), g)
             /\ WindowCommit(w, s).highest >= w.highest
<1>1. CASE ~ WindowTakes(w, s)
  BY <1>1 DEF WindowCommit
<1>2. CASE WindowTakes(w, s)
  <2> DEFINE v == WindowCommit(w, s)
             g == h \cup {s}
  <2>1. s \in Nat /\ s \notin h
    BY <1>2, TakenNotTakenAgain
  <2>2. IsFiniteSet(g) /\ Cardinality(g) = Cardinality(h) + 1
    BY <2>1, FS_AddElement DEF WindowExact
  <2>3. CASE Ahead(w, s)
    <3>1. v = [highest |-> s, bitmap |-> Shifted(w, s), accepted |-> w.accepted + 1]
      BY <1>2, <2>3 DEF WindowCommit
    <3>2. Shifted(w, s) = {i \in 0 .. s : s - i \in g /\ (i < WindowSize \/ i = 0)}
      <4>1. CASE w.highest < 0 \/ s - w.highest >= WindowSize
        BY <4>1, <2>1, <2>3, WindowSizeAssumption DEF Shifted, WindowExact, Ahead
      <4>2. CASE ~ (w.highest < 0 \/ s - w.highest >= WindowSize)
        <5>1. \A i \in Nat : i \in Shifted(w, s) <=>
                /\ i < WindowSize
                /\ i = 0 \/ \E j \in w.bitmap : i = j + (s - w.highest)
          BY <4>2, <2>1 DEF Shifted
        <5>2. Shifted(w, s) \subseteq Nat
          BY <4>2, <2>1, <2>3 DEF Shifted, Ahead
        <5>3. ASSUME NEW i \in Nat
              PROVE  i \in Shifted(w, s) <=> 
                       i \in {n \in 0 .. s : s - n \in g /\ (n < WindowSize \/ n = 0)}
          <6>1. CASE i = 0
            BY <6>1, <5>1, <4>2, <2>1, <2>3, WindowSizeAssumption DEF Ahead
          <6>2. CASE i > 0 /\ i < s - w.highest
            BY <6>2, <5>1, <4>2, <2>1, <2>3, WindowSizeAssumption DEF Ahead, WindowExact
          <6>3. CASE i >= s - w.highest
            <7> DEFINE j == i - (s - w.highest)
            <7>1. j \in Nat /\ i > 0 /\ w.highest - j = s - i
              BY <6>3, <2>1, <2>3, <4>2 DEF Ahead
            <7>2. i \in Shifted(w, s) <=> i < WindowSize /\ j \in w.bitmap
              BY <5>1, <7>1, <2>1, <4>2
            <7>3. i < WindowSize /\ j \in w.bitmap
                    <=> i < WindowSize /\ j \in 0 .. w.highest /\ s - i \in h
              BY <7>1, <2>1, <4>2, <2>3, WindowSizeAssumption DEF WindowExact, Ahead
            <7> QED
              BY <7>1, <7>2, <7>3, <2>1, <4>2, <2>3, WindowSizeAssumption DEF Ahead
          <6> QED
            BY <6>1, <6>2, <6>3, <2>1
        <5> QED
          BY <5>2, <5>3
      <4> QED
        BY <4>1, <4>2
    <3> QED
      BY <3>1, <3>2, <2>1, <2>2, <2>3, <1>2 DEF WindowExact, Ahead
  <2>4. CASE ~ Ahead(w, s)
    <3>1. v = [highest |-> w.highest, bitmap |-> w.bitmap \cup {w.highest - s},
               accepted |-> w.accepted + 1]
      BY <1>2, <2>4 DEF WindowCommit
    <3>2. w.highest - s \in 0 .. w.highest /\ w.highest - s < WindowSize
      BY <1>2, <2>1, <2>4, WindowSizeAssumption DEF WindowTakes, Ahead, Behind
    <3>3. h # {} /\ w.highest \in h
      BY <2>1, <2>4 DEF WindowExact, Ahead
    <3>4. v.bitmap = {i \in 0 .. w.highest : w.highest - i \in g
                                             /\ (i < WindowSize \/ i = 0)}
      BY <3>1, <3>2, <2>1 DEF WindowExact
    <3> QED
      BY <3>1, <3>2, <3>3, <3>4, <2>1, <2>2, <2>4, <1>2 DEF WindowExact, Ahead
  <2> QED
    BY <2>3, <2>4
<1> QED
  BY <1>1, <1>2

(***************************************************************************)
(* The guard                                                               *)
(***************************************************************************)
LEMMA InitExact == Init => HistoryExact
<1> SUFFICES ASSUME Init PROVE HistoryExact
  OBVIOUS
<1>1. IsFiniteSet({}) /\ Cardinality({}) = 0
  BY FS_EmptySet
<1>2. Tracked = {} /\ TypeOK
  BY DEF Init, Tracked, TypeOK
<1>3. \A k \in StreamKeys : WindowExact(WindowOf(k), accepted[k])
  BY <1>1, <1>2, WindowSizeAssumption
  DEF Init, WindowOf, WindowExact, EmptyWindow
<1> QED
  BY <1>1, <1>2, <1>3, MaxStreamsAssumption DEF HistoryExact

LEMMA WindowTyped ==
  ASSUME TypeOK, NEW k \in StreamKeys
  PROVE  WindowOf(k) \in Window /\ accepted[k] \in SUBSET Nat
BY DEF TypeOK, WindowOf, EmptyWindow, Tracked

\* Each action keeps the guard exact; a commit on one stream leaves the others.
LEMMA CommitExact ==
  ASSUME HistoryExact, NEW k \in StreamKeys, NEW s \in Seqs, Commit(k, s)
  PROVE  HistoryExact'
<1> DEFINE w == WindowOf(k)
           h == accepted[k]
           v == WindowCommit(w, s)
<1>0. s \in Int /\ TypeOK
  BY SeqsAssumption DEF HistoryExact
<1>1. w \in Window /\ h \in SUBSET Nat /\ WindowExact(w, h)
  BY <1>0, WindowTyped DEF HistoryExact
<1>2. /\ v \in Window
      /\ WindowExact(v, IF WindowTakes(w, s) THEN h \cup {s} ELSE h)
  BY <1>0, <1>1, CommitKeepsExact
<1>3. GuardTakes(k, s) <=> WindowTakes(w, s)
  BY DEF Commit, GuardTakes
<1>4. /\ Tracked' = Tracked \cup {k}
      /\ streams'[k] = v
      /\ accepted'[k] = IF WindowTakes(w, s) THEN h \cup {s} ELSE h
      /\ \A j \in StreamKeys \ {k} : /\ accepted'[j] = accepted[j]
                                     /\ j \in Tracked => streams'[j] = streams[j]
  BY <1>0, <1>3 DEF Commit, TypeOK, Tracked
<1>5. WindowTakes(w, s) => s \in Nat
  BY <1>0, <1>1, TakenNotTakenAgain
<1>6. TypeOK'
  <2>1. streams' \in [Tracked' -> Window]
    BY <1>0, <1>2, <1>4 DEF Commit, TypeOK, Tracked
  <2>2. accepted' \in [StreamKeys -> SUBSET Nat]
    BY <1>0, <1>1, <1>3, <1>5 DEF Commit, TypeOK
  <2> QED
    BY <1>0, <1>4, <2>1, <2>2 DEF TypeOK
<1>7. IsFiniteSet(Tracked') /\ Cardinality(Tracked') <= MaxStreams
  <2>1. CASE k \in Tracked
    <3>1. Tracked' = Tracked
      BY <2>1, <1>4
    <3> QED
      BY <3>1 DEF HistoryExact
  <2>2. CASE k \notin Tracked
    <3>1. ~ AtCap
      BY <2>2 DEF Commit
    <3>2. IsFiniteSet(Tracked) /\ Cardinality(Tracked) \in Nat
      BY FS_CardinalityType DEF HistoryExact
    <3>3. IsFiniteSet(Tracked \cup {k})
            /\ Cardinality(Tracked \cup {k}) = Cardinality(Tracked) + 1
      BY <2>2, <3>2, FS_AddElement
    <3> QED
      BY <1>4, <3>1, <3>2, <3>3, MaxStreamsAssumption DEF AtCap
  <2> QED
    BY <2>1, <2>2
<1>8. ASSUME NEW j \in StreamKeys PROVE WindowExact(WindowOf(j)', accepted'[j])
  <2>1. CASE j = k
    BY <1>2, <1>4, <2>1 DEF WindowOf
  <2>2. CASE j # k
    <3>1. WindowOf(j)' = WindowOf(j) /\ accepted'[j] = accepted[j]
      BY <1>4, <2>2 DEF WindowOf
    <3> QED
      BY <3>1 DEF HistoryExact
  <2> QED
    BY <2>1, <2>2
<1> QED
  BY <1>6, <1>7, <1>8 DEF HistoryExact

LEMMA ResetExact == Reset => HistoryExact'
<1> SUFFICES ASSUME Reset PROVE HistoryExact'
  OBVIOUS
<1>1. IsFiniteSet({}) /\ Cardinality({}) = 0
  BY FS_EmptySet
<1>2. Tracked' = {} /\ TypeOK'
  BY DEF Reset, Tracked, TypeOK
<1>3. ASSUME NEW k \in StreamKeys PROVE WindowExact(WindowOf(k)', accepted'[k])
  <2>1. WindowOf(k)' = EmptyWindow /\ accepted'[k] = {}
    BY <1>2 DEF Reset, WindowOf
  <2> QED
    BY <2>1, <1>1, WindowSizeAssumption DEF WindowExact, EmptyWindow
<1> QED
  BY <1>1, <1>2, <1>3, MaxStreamsAssumption DEF HistoryExact

LEMMA UnchangedExact == HistoryExact /\ UNCHANGED vars => HistoryExact'
BY DEF vars, HistoryExact, TypeOK, Tracked, WindowOf

\* The inductive invariant: windows are exact about the whole history.
THEOREM GuardExact == Spec => []HistoryExact
<1>1. HistoryExact /\ [Next]_vars => HistoryExact'
  <2> SUFFICES ASSUME HistoryExact, [Next]_vars PROVE HistoryExact'
    OBVIOUS
  <2>1. ASSUME NEW k \in StreamKeys, NEW s \in Seqs, Commit(k, s) PROVE HistoryExact'
    BY <2>1, CommitExact
  <2>2. ASSUME NEW k \in StreamKeys, CommitRefused(k) PROVE HistoryExact'
    BY <2>2, UnchangedExact DEF CommitRefused
  <2>3. CASE Reset
    BY <2>3, ResetExact
  <2>4. CASE UNCHANGED vars
    BY <2>4, UnchangedExact
  <2> QED
    BY <2>1, <2>2, <2>3, <2>4 DEF Next
<1> QED
  BY <1>1, InitExact, PTL DEF Spec

(***************************************************************************)
(* The checked properties                                                  *)
(***************************************************************************)
\* Type correctness.
THEOREM TypeCorrect == Spec => []TypeOK
<1>1. HistoryExact => TypeOK
  BY DEF HistoryExact
<1> QED
  BY <1>1, GuardExact, PTL

\* What the guard answers for a tracked and for an untracked stream.
LEMMA CheckOfWindow ==
  ASSUME HistoryExact, NEW k \in StreamKeys, NEW s \in Int
  PROVE  /\ k \in Tracked => GuardCheck(k, s) = WindowCheck(WindowOf(k), s)
         /\ k \notin Tracked => accepted[k] = {}
<1>1. TypeOK /\ WindowExact(WindowOf(k), accepted[k]) /\ accepted[k] \in SUBSET Nat
  BY WindowTyped DEF HistoryExact
<1>2. k \notin Tracked => WindowOf(k).highest = -1
  BY DEF WindowOf, EmptyWindow
<1> QED
  BY <1>1, <1>2 DEF GuardCheck, WindowOf, WindowExact

\* commit takes what check called fresh.
LEMMA TakesWhatIsFresh ==
  ASSUME HistoryExact, NEW k \in StreamKeys, NEW s \in Seqs
  PROVE  GuardTakes(k, s) <=> GuardCheck(k, s) = "FRESH"
<1>1. s \in Int /\ WindowOf(k) \in Window
  BY SeqsAssumption, WindowTyped DEF HistoryExact
<1>2. WindowTakes(WindowOf(k), s) <=> WindowCheck(WindowOf(k), s) = "FRESH"
  BY <1>1, TakesIffFresh
<1>3. CASE k \in Tracked
  BY <1>2, <1>3 DEF GuardTakes, GuardCheck, WindowOf
<1>4. CASE k \notin Tracked
  BY <1>1, <1>4 DEF GuardTakes, GuardCheck, WindowOf, WindowTakes, Ahead, EmptyWindow
<1> QED
  BY <1>3, <1>4

\* What check says, read off the history and the number of tracked streams.
LEMMA CheckOfHistory ==
  ASSUME HistoryExact, NEW k \in StreamKeys, NEW s \in Nat
  PROVE  GuardCheck(k, s) = IF \E t \in accepted[k] : t - s >= WindowSize THEN "TOO_OLD"
                            ELSE IF s \in accepted[k] THEN "DUPLICATE"
                            ELSE IF k \notin Tracked /\ AtCap THEN "INVALID" ELSE "FRESH"
<1>1. CASE k \in Tracked
  <2>1. /\ WindowOf(k) \in Window
        /\ accepted[k] \in SUBSET Nat
        /\ WindowExact(WindowOf(k), accepted[k])
    BY WindowTyped DEF HistoryExact
  <2>2. GuardCheck(k, s) = WindowCheck(WindowOf(k), s)
    BY <1>1, CheckOfWindow
  <2> QED
    BY <1>1, <2>1, <2>2, VerdictOfHistory
<1>2. CASE k \notin Tracked
  BY <1>2, CheckOfWindow DEF GuardCheck
<1> QED
  BY <1>1, <1>2

\* The receiver ignores commit's result, and may.
THEOREM CommitMatchesCheck == Spec => []CommitAgreesWithCheck
<1>1. HistoryExact => CommitAgreesWithCheck
  BY TakesWhatIsFresh DEF CommitAgreesWithCheck
<1> QED
  BY <1>1, GuardExact, PTL

\* Replay protection: what was taken is never fresh again.
THEOREM ReplayProtection == Spec => []AtMostOnce
<1>1. HistoryExact => AtMostOnce
  <2> SUFFICES ASSUME HistoryExact, NEW k \in StreamKeys, NEW s \in accepted[k]
               PROVE  GuardCheck(k, s) \in {"DUPLICATE", "TOO_OLD"}
    BY DEF AtMostOnce
  <2>1. /\ WindowOf(k) \in Window
        /\ accepted[k] \in SUBSET Nat
        /\ WindowExact(WindowOf(k), accepted[k])
        /\ s \in Nat
    BY WindowTyped DEF HistoryExact
  <2>2. ~ WindowTakes(WindowOf(k), s)
    BY <2>1, TakenNotTakenAgain
  <2>3. GuardCheck(k, s) = WindowCheck(WindowOf(k), s)
    BY <2>1, CheckOfWindow
  <2> QED
    BY <2>1, <2>2, <2>3, TakesIffFresh DEF WindowCheck
<1> QED
  BY <1>1, GuardExact, PTL

\* No false alarm.
THEOREM NoFalseAlarm == Spec => []VerdictsJustified
<1>1. HistoryExact => VerdictsJustified
  <2> SUFFICES ASSUME HistoryExact, NEW k \in StreamKeys, NEW s \in Seqs
               PROVE  /\ GuardCheck(k, s) = "DUPLICATE" => s \in accepted[k]
                      /\ GuardCheck(k, s) = "TOO_OLD" =>
                            \E t \in accepted[k] : t - s >= WindowSize
                      /\ GuardCheck(k, s) = "INVALID" =>
                            s < 0 \/ (accepted[k] = {} /\ AtCap)
    BY DEF VerdictsJustified
  <2>1. /\ s \in Int
        /\ WindowOf(k) \in Window
        /\ accepted[k] \in SUBSET Nat
        /\ WindowExact(WindowOf(k), accepted[k])
    BY SeqsAssumption, WindowTyped DEF HistoryExact
  <2>2. CASE k \in Tracked
    BY <2>1, <2>2, CheckOfWindow, RefusalsJustified
  <2>3. CASE k \notin Tracked
    BY <2>1, <2>3, CheckOfWindow DEF GuardCheck
  <2> QED
    BY <2>2, <2>3
<1> QED
  BY <1>1, GuardExact, PTL

\* Memory is bounded whatever is committed.
THEOREM MemoryBounded == Spec => []BoundedMemory
<1>1. HistoryExact => BoundedMemory
  BY DEF HistoryExact, BoundedMemory, TypeOK, WindowExact, WindowOf, Tracked
<1> QED
  BY <1>1, GuardExact, PTL

\* Commits never forget.
THEOREM OnlyResetForgets == Spec => NeverForgets
<1> DEFINE Keeps ==
      \/ accepted' = [k \in StreamKeys |-> {}]
      \/ \A k \in Tracked : /\ k \in DOMAIN streams'
                            /\ streams'[k].highest >= streams[k].highest
                            /\ accepted[k] \subseteq accepted'[k]
<1>1. HistoryExact /\ [Next]_vars => [Keeps]_vars
  <2> SUFFICES ASSUME HistoryExact, Next PROVE Keeps \/ UNCHANGED vars
    OBVIOUS
  <2>1. ASSUME NEW k \in StreamKeys, NEW s \in Seqs, Commit(k, s) PROVE Keeps
    <3> SUFFICES ASSUME NEW j \in Tracked
                 PROVE  /\ j \in DOMAIN streams'
                        /\ streams'[j].highest >= streams[j].highest
                        /\ accepted[j] \subseteq accepted'[j]
      OBVIOUS
    <3>1. TypeOK /\ j \in StreamKeys /\ s \in Int /\ streams[j] \in Window
      BY SeqsAssumption DEF HistoryExact, TypeOK
    <3>2. /\ WindowOf(j) \in Window
          /\ WindowExact(WindowOf(j), accepted[j])
          /\ accepted[j] \in SUBSET Nat
          /\ WindowOf(j) = streams[j]
      BY <3>1, WindowTyped DEF HistoryExact, WindowOf
    <3>3. WindowCommit(WindowOf(j), s).highest >= WindowOf(j).highest
      BY <3>1, <3>2, CommitKeepsExact
    <3>4. streams'[j] = IF j = k THEN WindowCommit(WindowOf(k), s) ELSE streams[j]
      BY <2>1 DEF Commit
    <3>5. streams'[j].highest >= streams[j].highest
      BY <3>1, <3>2, <3>3, <3>4
    <3> QED
      BY <2>1, <3>1, <3>5 DEF Commit, TypeOK
  <2>2. ASSUME NEW k \in StreamKeys, CommitRefused(k) PROVE UNCHANGED vars
    BY <2>2 DEF CommitRefused
  <2>3. CASE Reset
    BY <2>3 DEF Reset
  <2> QED
    BY <2>1, <2>2, <2>3 DEF Next
<1> QED
  BY <1>1, GuardExact, PTL DEF Spec, NeverForgets

\* The guard implements the promise of AntiReplay: every commit is a Take of a
\* number never taken before and within reach, a Forget, or invisible.
THEOREM GuardKeepsPromise == Spec => ImplementsAntiReplay
<1>1. Init => Promise!Init
  BY DEF Init, Promise!Init
<1>2. HistoryExact /\ [Next]_vars => [Promise!Next]_accepted
  <2> SUFFICES ASSUME HistoryExact, Next PROVE Promise!Next \/ UNCHANGED accepted
    BY DEF vars
  <2>1. ASSUME NEW k \in StreamKeys, NEW s \in Seqs, Commit(k, s)
        PROVE  Promise!Next \/ UNCHANGED accepted
    <3>1. /\ s \in Int
          /\ TypeOK
          /\ WindowOf(k) \in Window
          /\ accepted[k] \in SUBSET Nat
          /\ WindowExact(WindowOf(k), accepted[k])
      BY SeqsAssumption, WindowTyped DEF HistoryExact
    <3>2. CASE ~ GuardTakes(k, s)
      BY <2>1, <3>1, <3>2 DEF Commit, TypeOK
    <3>3. CASE GuardTakes(k, s)
      <4>1. /\ s \in Nat
            /\ s \notin accepted[k]
            /\ \A t \in accepted[k] : t - s < WindowSize
        BY <3>1, <3>3, TakenNotTakenAgain DEF GuardTakes
      <4>2. Promise!Take(k, s)
        BY <2>1, <3>3, <4>1 DEF Commit, Promise!Take
      <4> QED
        BY <4>1, <4>2 DEF Promise!Next
    <3> QED
      BY <3>2, <3>3
  <2>2. ASSUME NEW k \in StreamKeys, CommitRefused(k) PROVE UNCHANGED accepted
    BY <2>2 DEF CommitRefused, vars
  <2>3. CASE Reset
    BY <2>3 DEF Reset, Promise!Next, Promise!Forget
  <2> QED
    BY <2>1, <2>2, <2>3 DEF Next
<1> QED
  BY <1>1, <1>2, GuardExact, PTL DEF Spec, ImplementsAntiReplay, Promise!Spec

(***************************************************************************)
(* Induction                                                               *)
(***************************************************************************)
\* A set of numbers that is not empty has a least one.
LEMMA LeastNumber ==
  ASSUME NEW T, T \subseteq Nat, T # {}
  PROVE  \E x \in T : \A y \in T : x <= y
<1> DEFINE Less == {ss \in Nat \X Nat : ss[1] < ss[2]}
<1>1. IsWellFoundedOn(Less, Nat)
  BY NatLessThanWellFounded DEF OpToRel
<1>2. \E x \in T : \A y \in T : <<y, x>> \notin Less
  <2> HIDE DEF Less
  <2> QED
    BY <1>1, WFMin
<1>3. \A x, y \in Nat : <<y, x>> \in Less <=> y < x
  OBVIOUS
<1> HIDE DEF Less
<1>4. \A x, y \in T : <<y, x>> \notin Less => x <= y
  BY <1>3
<1> QED
  BY <1>2, <1>4

\* A set that has 0, and with every number the next one, has them all.
LEMMA InductionOnNat ==
  ASSUME NEW S, 0 \in S, \A n \in Nat : n \in S => n + 1 \in S
  PROVE  Nat \subseteq S
<1> SUFFICES ASSUME NEW m \in Nat \ S PROVE FALSE
  OBVIOUS
<1>1. PICK x \in Nat \ S : \A y \in Nat \ S : x <= y
  BY LeastNumber
<1>2. x - 1 \in Nat
  BY <1>1
<1>3. x - 1 \in S
  BY <1>1, <1>2
<1>4. (x - 1) + 1 = x
  BY <1>1
<1> QED
  BY <1>1, <1>2, <1>3, <1>4

\* A set of subsets of S that has {}, and a set whenever it has one of the sets
\* that lack one element of it, has every subset: for every finite S.
LEMMA InductionOnSubsets ==
  ASSUME NEW S, IsFiniteSet(S), NEW Good, {} \in Good,
         \A s \in SUBSET S : (s # {} /\ \A y \in s : s \ {y} \in Good) => s \in Good
  PROVE  SUBSET S \subseteq Good
<1> DEFINE Small(n) == {s \in SUBSET S : Cardinality(s) = n}
           P == {n \in Nat : Small(n) \subseteq Good}
<1>1. \A s \in SUBSET S : IsFiniteSet(s) /\ Cardinality(s) \in Nat
  BY FS_Subset, FS_CardinalityType
<1>2. 0 \in P
  <2>1. \A s \in Small(0) : s = {}
    BY <1>1, FS_EmptySet
  <2> QED
    BY <2>1
<1>3. ASSUME NEW n \in Nat, n \in P PROVE n + 1 \in P
  <2> SUFFICES ASSUME NEW s \in Small(n + 1) PROVE s \in Good
    OBVIOUS
  <2>1. s # {}
    BY FS_EmptySet
  <2>2. ASSUME NEW y \in s PROVE s \ {y} \in Good
    <3>1. Cardinality(s \ {y}) = Cardinality(s) - 1
      BY <1>1, FS_RemoveElement
    <3>2. Cardinality(s \ {y}) = n
      BY <3>1
    <3> QED
      BY <1>3, <3>2
  <2> QED
    BY <2>1, <2>2
<1>4. Nat \subseteq P
  <2> HIDE DEF P
  <2> QED
    BY <1>2, <1>3, InductionOnNat
<1> QED
  BY <1>1, <1>4

(***************************************************************************)
(* Sums                                                                    *)
(***************************************************************************)
Pick(s) == CHOOSE x \in s : TRUE

\* What the fold makes of a function on the subsets of S, for a summand g.
Unrolled(g, f, S) ==
  [s \in SUBSET S |-> IF s = {} THEN 0 ELSE g[Pick(s)] + f[s \ {Pick(s)}]]

SumOf(g, S) == (CHOOSE f : f = Unrolled(g, f, S))[S]

\* The recursion has a solution on a finite set.
LEMMA SumExists ==
  ASSUME NEW S, IsFiniteSet(S), NEW g \in [S -> Nat]
  PROVE  \E f : f = Unrolled(g, f, S)
<1> DEFINE Upto(n) == {s \in SUBSET S : Cardinality(s) <= n}
           Value(f, s) == IF s = {} THEN 0 ELSE g[Pick(s)] + f[s \ {Pick(s)}]
           Solves(f, n) == /\ f \in [Upto(n) -> Nat]
                           /\ \A s \in Upto(n) : f[s] = Value(f, s)
           P == {n \in Nat : \E f : Solves(f, n)}
<1>1. \A s \in SUBSET S : IsFiniteSet(s) /\ Cardinality(s) \in Nat
  BY FS_Subset, FS_CardinalityType
<1>2. \A s : s # {} => Pick(s) \in s
  BY DEF Pick
<1>3. 0 \in P
  <2> DEFINE f == [s \in Upto(0) |-> 0]
  <2>1. \A s \in Upto(0) : s = {}
    BY <1>1, FS_EmptySet
  <2>2. Solves(f, 0)
    BY <2>1
  <2> HIDE DEF f
  <2> QED
    BY <2>2
<1>4. ASSUME NEW n \in Nat, n \in P PROVE n + 1 \in P
  <2>1. PICK f : Solves(f, n)
    BY <1>4
  <2> DEFINE e == [s \in Upto(n + 1) |-> Value(f, s)]
  <2>2. ASSUME NEW s \in Upto(n + 1), s # {}
        PROVE  /\ s \ {Pick(s)} \in Upto(n) /\ s \ {Pick(s)} \in Upto(n + 1)
               /\ g[Pick(s)] \in Nat
    <3>1. Pick(s) \in s /\ s \in SUBSET S
      BY <1>2, <2>2
    <3>2. Cardinality(s \ {Pick(s)}) = Cardinality(s) - 1
      BY <1>1, <3>1, FS_RemoveElement
    <3>3. Cardinality(s \ {Pick(s)}) \in Nat /\ Cardinality(s) \in Nat
      BY <1>1, <3>1
    <3>4. Cardinality(s \ {Pick(s)}) <= n /\ Cardinality(s \ {Pick(s)}) <= n + 1
      BY <3>2, <3>3
    <3> QED
      BY <3>1, <3>4
  <2>3. ASSUME NEW s \in Upto(n) PROVE s \in Upto(n + 1) /\ e[s] = f[s]
    <3>1. Cardinality(s) \in Nat /\ Cardinality(s) <= n + 1
      BY <1>1
    <3>2. s \in Upto(n + 1)
      BY <3>1
    <3> QED
      BY <2>1, <3>2
  <2>4. ASSUME NEW s \in Upto(n + 1) PROVE e[s] \in Nat /\ e[s] = Value(e, s)
    <3>1. CASE s = {}
      BY <3>1
    <3>2. CASE s # {}
      <4>1. /\ s \ {Pick(s)} \in Upto(n) /\ g[Pick(s)] \in Nat
        BY <2>2, <3>2
      <4>2. f[s \ {Pick(s)}] \in Nat /\ e[s \ {Pick(s)}] = f[s \ {Pick(s)}]
        BY <2>1, <2>3, <4>1
      <4>3. e[s] = g[Pick(s)] + f[s \ {Pick(s)}]
        BY <3>2
      <4> QED
        BY <3>2, <4>1, <4>2, <4>3
    <3> QED
      BY <3>1, <3>2
  <2>5. Solves(e, n + 1)
    <3>1. e \in [Upto(n + 1) -> Nat]
      BY <2>4
    <3> QED
      BY <2>4, <3>1
  <2> HIDE DEF e, Solves
  <2> QED
    BY <2>5
<1>5. Cardinality(S) \in P
  <2> HIDE DEF P
  <2> QED
    BY <1>1, <1>3, <1>4, InductionOnNat
<1>6. PICK f : Solves(f, Cardinality(S))
  BY <1>5
<1>7. Upto(Cardinality(S)) = SUBSET S
  BY FS_Subset
<1>8. f = [s \in SUBSET S |-> Value(f, s)]
  BY <1>6, <1>7
<1> QED
  BY <1>8 DEF Unrolled

\* Two solutions agree on the sets both are about, if their summands do.
LEMMA SumUnique ==
  ASSUME NEW U, IsFiniteSet(U), NEW S, NEW T, U \subseteq S, U \subseteq T,
         NEW g, NEW h, \A x \in U : g[x] = h[x],
         NEW f, f = Unrolled(g, f, S), NEW e, e = Unrolled(h, e, T)
  PROVE  f[U] = e[U]
<1> DEFINE Good == {s \in SUBSET U : f[s] = e[s]}
<1>1. \A s : s # {} => Pick(s) \in s
  BY DEF Pick
<1>2. {} \in Good
  BY DEF Unrolled
<1>3. ASSUME NEW s \in SUBSET U, s # {}, \A y \in s : s \ {y} \in Good
      PROVE  s \in Good
  <2>1. Pick(s) \in s
    BY <1>1, <1>3
  <2>2. /\ f[s] = g[Pick(s)] + f[s \ {Pick(s)}]
        /\ e[s] = h[Pick(s)] + e[s \ {Pick(s)}]
    BY <1>3 DEF Unrolled
  <2>3. f[s \ {Pick(s)}] = e[s \ {Pick(s)}] /\ g[Pick(s)] = h[Pick(s)]
    BY <1>3, <2>1
  <2> QED
    BY <2>2, <2>3
<1>4. SUBSET U \subseteq Good
  <2> HIDE DEF Good
  <2> QED
    BY <1>2, <1>3, InductionOnSubsets
<1> QED
  BY <1>4

\* Whichever element is taken first, the rest has the rest of the sum.
LEMMA SumStep ==
  ASSUME NEW S, IsFiniteSet(S), NEW g \in [S -> Nat], NEW f, f = Unrolled(g, f, S)
  PROVE  /\ f[{}] = 0
         /\ \A s \in SUBSET S : /\ f[s] \in Nat
                                /\ \A y \in s : f[s] = g[y] + f[s \ {y}]
<1> DEFINE Typed == {s \in SUBSET S : f[s] \in Nat}
           Good == {s \in SUBSET S : \A y \in s : f[s] = g[y] + f[s \ {y}]}
<1>1. \A s : s # {} => Pick(s) \in s
  BY DEF Pick
<1>2. f[{}] = 0
  BY DEF Unrolled
<1>3. SUBSET S \subseteq Typed
  <2>1. {} \in Typed
    BY <1>2
  <2>2. ASSUME NEW s \in SUBSET S, s # {}, \A y \in s : s \ {y} \in Typed
        PROVE  s \in Typed
    <3>1. Pick(s) \in s /\ g[Pick(s)] \in Nat
      BY <1>1, <2>2
    <3>2. f[s] = g[Pick(s)] + f[s \ {Pick(s)}]
      BY <2>2 DEF Unrolled
    <3>3. f[s \ {Pick(s)}] \in Nat
      BY <2>2, <3>1
    <3> QED
      BY <3>1, <3>2, <3>3
  <2> HIDE DEF Typed
  <2> QED
    BY <2>1, <2>2, InductionOnSubsets
<1>4. ASSUME NEW s \in SUBSET S, s # {}, \A y \in s : s \ {y} \in Good
      PROVE  s \in Good
  <2> DEFINE x == Pick(s)
  <2>1. x \in s /\ g[x] \in Nat
    BY <1>1, <1>4
  <2>2. f[s] = g[x] + f[s \ {x}]
    BY <1>4 DEF Unrolled
  <2>3. f[s \ {x}] \in Nat
    BY <1>3
  <2>5. ASSUME NEW y \in s PROVE f[s] = g[y] + f[s \ {y}]
    <3>1. CASE y = x
      BY <2>2, <3>1
    <3>2. CASE y # x
      <4>1. f[s \ {x}] = g[y] + f[(s \ {x}) \ {y}]
        BY <1>4, <2>1, <3>2
      <4>2. f[s \ {y}] = g[x] + f[(s \ {y}) \ {x}]
        BY <1>4, <2>1, <3>2
      <4>3. (s \ {x}) \ {y} = (s \ {y}) \ {x}
        OBVIOUS
      <4>4. f[(s \ {y}) \ {x}] \in Nat
        BY <1>3
      <4>5. g[y] \in Nat
        BY <2>5
      <4> QED
        BY <2>1, <2>2, <4>1, <4>2, <4>3, <4>4, <4>5
    <3> QED
      BY <3>1, <3>2
  <2> QED
    BY <2>5
<1>5. SUBSET S \subseteq Good
  <2>1. {} \in Good
    BY <1>2
  <2> HIDE DEF Good
  <2> QED
    BY <1>4, <2>1, InductionOnSubsets
<1> QED
  BY <1>2, <1>3, <1>5

\* The chosen function is a solution, so a sum is what any solution says.
LEMMA SumIs ==
  ASSUME NEW S, IsFiniteSet(S), NEW g \in [S -> Nat],
         NEW U \in SUBSET S, NEW h, \A x \in U : h[x] = g[x],
         NEW f, f = Unrolled(g, f, S)
  PROVE  SumOf(h, U) = f[U]
<1> DEFINE e == CHOOSE c : c = Unrolled(h, c, U)
           r == [x \in U |-> g[x]]
<1>1. IsFiniteSet(U) /\ r \in [U -> Nat]
  BY FS_Subset
<1>2. PICK c : c = Unrolled(r, c, U)
  BY <1>1, SumExists
<1>3. Unrolled(h, c, U) = Unrolled(r, c, U)
  <2>1. \A s \in SUBSET U : s # {} => Pick(s) \in U
    BY DEF Pick
  <2>2. \A s \in SUBSET U : s # {} => h[Pick(s)] = r[Pick(s)]
    BY <2>1
  <2> QED
    BY <2>2 DEF Unrolled
<1>4. e = Unrolled(h, e, U)
  BY <1>2, <1>3
<1>5. e[U] = f[U]
  <2> HIDE DEF e
  <2> QED
    BY <1>1, <1>4, SumUnique
<1> QED
  BY <1>5 DEF SumOf

\* The sum over no elements, and over one element more.
LEMMA SumEmpty == ASSUME NEW g PROVE SumOf(g, {}) = 0
<1> DEFINE None == {}
           z == [x \in None |-> 0]
<1>1. IsFiniteSet(None) /\ z \in [None -> Nat]
  BY FS_EmptySet
<1>2. None \in SUBSET None /\ \A x \in None : g[x] = z[x]
  OBVIOUS
<1>3. \A f : f = Unrolled(z, f, None) => f[None] = 0
  BY <1>1, SumStep
<1> HIDE DEF z, None
<1>4. PICK f : f = Unrolled(z, f, None)
  BY <1>1, SumExists
<1>5. SumOf(g, None) = f[None]
  BY <1>1, <1>2, <1>4, SumIs
<1>6. SumOf(g, None) = 0
  BY <1>3, <1>4, <1>5
<1> QED
  BY <1>6 DEF None

LEMMA SumAdd ==
  ASSUME NEW S, IsFiniteSet(S), NEW y, y \notin S,
         NEW g, \A x \in S \cup {y} : g[x] \in Nat
  PROVE  /\ SumOf(g, S) \in Nat
         /\ SumOf(g, S \cup {y}) = SumOf(g, S) + g[y]
<1> DEFINE T == S \cup {y}
           r == [x \in T |-> g[x]]
<1>1. IsFiniteSet(T) /\ r \in [T -> Nat]
  BY FS_AddElement
<1>2. PICK f : f = Unrolled(r, f, T)
  BY <1>1, SumExists
<1>3. /\ T \in SUBSET T /\ S \in SUBSET T /\ y \in T
      /\ T \ {y} = S /\ r[y] = g[y] /\ g[y] \in Nat
      /\ \A x \in T : g[x] = r[x]
  OBVIOUS
<1> HIDE DEF T, r
<1>4. SumOf(g, T) = f[T] /\ SumOf(g, S) = f[S]
  <2>1. \A x \in S : g[x] = r[x]
    BY <1>3
  <2> QED
    BY <1>1, <1>2, <1>3, <2>1, SumIs
<1>5. f[T] = r[y] + f[T \ {y}] /\ f[S] \in Nat
  BY <1>1, <1>2, <1>3, SumStep
<1>6. SumOf(g, T) = SumOf(g, S) + g[y] /\ SumOf(g, S) \in Nat
  <2> DEFINE m == f[S]
  <2>1. /\ SumOf(g, T) = g[y] + m /\ SumOf(g, S) = m
        /\ m \in Nat /\ g[y] \in Nat
    BY <1>3, <1>4, <1>5
  <2> HIDE DEF m
  <2> QED
    BY <2>1
<1> QED
  BY <1>6 DEF T

(***************************************************************************)
(* Powers of two                                                           *)
(***************************************************************************)
\* The recursion has a solution, so Pow2 is one.
LEMMA PowersExist ==
  \E f : f = [n \in Nat |-> IF n = 0 THEN 1 ELSE 2 * f[n - 1]]
<1> DEFINE Value(f, m) == IF m = 0 THEN 1 ELSE 2 * f[m - 1]
           Upto(f, n) == \A m \in 0 .. n : f[m] = Value(f, m)
           P == {n \in Nat : \E f : Upto(f, n)}
           Chosen(n) == CHOOSE f : Upto(f, n)
           F == [n \in Nat |-> Chosen(n)[n]]
<1>1. 0 \in P
  <2> DEFINE f == [m \in Nat |-> 1]
  <2>1. Upto(f, 0)
    OBVIOUS
  <2> HIDE DEF f
  <2> QED
    BY <2>1
<1>2. ASSUME NEW n \in Nat, n \in P PROVE n + 1 \in P
  <2>1. PICK f : Upto(f, n)
    BY <1>2
  <2> DEFINE e == [m \in Nat |-> IF m = n + 1 THEN 2 * f[n] ELSE f[m]]
  <2>2. ASSUME NEW m \in 0 .. n + 1 PROVE e[m] = Value(e, m)
    <3>1. CASE m = n + 1
      <4>1. e[m] = 2 * f[n] /\ m # 0 /\ m - 1 = n /\ e[n] = f[n]
        BY <3>1
      <4> QED
        BY <4>1
    <3>2. CASE m \in 0 .. n
      <4>1. f[m] = Value(f, m) /\ e[m] = f[m]
        BY <2>1, <3>2
      <4>2. m # 0 => e[m - 1] = f[m - 1]
        BY <3>2
      <4> QED
        BY <4>1, <4>2
    <3> QED
      BY <3>1, <3>2
  <2> HIDE DEF e
  <2>3. Upto(e, n + 1)
    BY <2>2
  <2> QED
    BY <2>3
<1>3. \A n \in Nat : Upto(Chosen(n), n)
  <2>1. Nat \subseteq P
    <3> HIDE DEF P
    <3> QED
      BY <1>1, <1>2, InductionOnNat
  <2> HIDE DEF Upto
  <2> QED
    BY <2>1
\* Solutions up to different bounds agree below the smaller one.
<1>4. ASSUME NEW f, NEW e, NEW n \in Nat, Upto(f, n), Upto(e, n) PROVE f[n] = e[n]
  <2> DEFINE Q == {m \in Nat : m <= n => f[m] = e[m]}
  <2>1. 0 \in Q
    BY <1>4
  <2>2. ASSUME NEW m \in Nat, m \in Q PROVE m + 1 \in Q
    <3> SUFFICES ASSUME m + 1 <= n PROVE f[m + 1] = e[m + 1]
      OBVIOUS
    <3>1. m + 1 \in 0 .. n /\ m + 1 # 0 /\ (m + 1) - 1 = m
      OBVIOUS
    <3>2. f[m + 1] = 2 * f[m] /\ e[m + 1] = 2 * e[m]
      BY <1>4, <3>1
    <3>3. f[m] = e[m]
      BY <2>2, <3>1
    <3> QED
      BY <3>2, <3>3
  <2>3. Nat \subseteq Q
    <3> HIDE DEF Q
    <3> QED
      BY <2>1, <2>2, InductionOnNat
  <2> QED
    BY <2>3
<1>5. ASSUME NEW n \in Nat PROVE F[n] = Value(F, n)
  <2>1. CASE n = 0
    BY <1>3, <2>1
  <2>2. CASE n # 0
    <3>1. n - 1 \in Nat
      BY <2>2
    <3>2. Upto(Chosen(n), n - 1) /\ Upto(Chosen(n - 1), n - 1)
      BY <1>3, <3>1
    <3>3. Chosen(n)[n - 1] = Chosen(n - 1)[n - 1]
      <4> HIDE DEF Chosen, Upto
      <4> QED
        BY <1>4, <3>1, <3>2
    <3>4. Chosen(n)[n] = 2 * Chosen(n)[n - 1]
      BY <1>3, <2>2
    <3> QED
      BY <2>2, <3>1, <3>3, <3>4
  <2> QED
    BY <2>1, <2>2
<1>6. F = [n \in Nat |-> Value(F, n)]
  <2> HIDE DEF Chosen
  <2> QED
    BY <1>5
<1> HIDE DEF F
<1> QED
  BY <1>6

LEMMA Powers == Pow2[0] = 1 /\ \A n \in Nat : Pow2[n + 1] = 2 * Pow2[n]
<1>1. Pow2 = [n \in Nat |-> IF n = 0 THEN 1 ELSE 2 * Pow2[n - 1]]
  BY PowersExist DEF Pow2
<1>2. \A n \in Nat : n + 1 \in Nat /\ n + 1 # 0 /\ (n + 1) - 1 = n
  OBVIOUS
<1> HIDE DEF Pow2
<1> QED
  BY <1>1, <1>2

LEMMA PowerTyped == \A n \in Nat : Pow2[n] \in Nat \ {0}
<1> DEFINE S == {n \in Nat : Pow2[n] \in Nat \ {0}}
<1>1. 0 \in S /\ \A n \in Nat : n \in S => n + 1 \in S
  BY Powers
<1>2. Nat \subseteq S
  <2> HIDE DEF S
  <2> QED
    BY <1>1, InductionOnNat
<1> QED
  BY <1>2

\* 1 << (m + n) is 1 << m shifted by n.
LEMMA PowerSum == \A m, n \in Nat : Pow2[m + n] = Pow2[m] * Pow2[n]
<1> SUFFICES ASSUME NEW m \in Nat PROVE \A n \in Nat : Pow2[m + n] = Pow2[m] * Pow2[n]
  OBVIOUS
<1> DEFINE S == {n \in Nat : Pow2[m + n] = Pow2[m] * Pow2[n]}
<1>1. 0 \in S
  BY Powers, PowerTyped
<1>2. ASSUME NEW n \in Nat, n \in S PROVE n + 1 \in S
  <2>1. m + (n + 1) = (m + n) + 1 /\ m + n \in Nat
    OBVIOUS
  <2>2. Pow2[m + (n + 1)] = 2 * Pow2[m + n] /\ Pow2[n + 1] = 2 * Pow2[n]
    BY <2>1, Powers
  <2>3. Pow2[m + n] = Pow2[m] * Pow2[n]
    BY <1>2
  <2>4. \A a, b \in Nat : 2 * (a * b) = a * (2 * b)
    OBVIOUS
  <2> QED
    BY <2>2, <2>3, <2>4, PowerTyped
<1>3. Nat \subseteq S
  <2> HIDE DEF S
  <2> QED
    BY <1>1, <1>2, InductionOnNat
<1> QED
  BY <1>3

(***************************************************************************)
(* The integer whose bits are the elements of a set                        *)
(***************************************************************************)
Val(S) == SumOf(Pow2, S)

Below(S, n) == {i \in S : i < n}

LEMMA ValAdd ==
  ASSUME NEW S, IsFiniteSet(S), S \subseteq Nat, NEW j \in Nat \ S
  PROVE  Val(S) \in Nat /\ Val(S \cup {j}) = Val(S) + Pow2[j]
<1>1. \A x \in S \cup {j} : Pow2[x] \in Nat
  BY PowerTyped
<1> QED
  BY <1>1, SumAdd DEF Val

LEMMA ValEmpty == Val({}) = 0
BY SumEmpty DEF Val

\* Induction over a finite set of offsets, one bit at a time.
LEMMA BitByBit ==
  ASSUME NEW S, IsFiniteSet(S), NEW Good, {} \in Good,
         \A s \in SUBSET S : \A j \in S \ s : s \in Good => s \cup {j} \in Good
  PROVE  S \in Good
<1>1. ASSUME NEW s \in SUBSET S, s # {}, \A y \in s : s \ {y} \in Good
      PROVE  s \in Good
  <2>1. PICK y \in s : TRUE
    BY <1>1
  <2>2. s \ {y} \in Good /\ s \ {y} \in SUBSET S /\ y \in S \ (s \ {y})
    BY <1>1
  <2>3. (s \ {y}) \cup {y} = s
    OBVIOUS
  <2> QED
    BY <2>2, <2>3
<1>2. SUBSET S \subseteq Good
  BY <1>1, InductionOnSubsets
<1> QED
  BY <1>2

LEMMA ValTyped == ASSUME NEW S, IsFiniteSet(S), S \subseteq Nat PROVE Val(S) \in Nat
<1> DEFINE Good == {s \in SUBSET S : Val(s) \in Nat}
<1>1. {} \in Good
  BY ValEmpty
<1>2. ASSUME NEW s \in SUBSET S, NEW j \in S \ s, s \in Good PROVE s \cup {j} \in Good
  <2>1. IsFiniteSet(s) /\ s \subseteq Nat /\ j \in Nat \ s
    BY FS_Subset
  <2>2. Val(s \cup {j}) = Val(s) + Pow2[j] /\ Val(s) \in Nat /\ Pow2[j] \in Nat
    BY <2>1, ValAdd, PowerTyped
  <2>3. Val(s \cup {j}) \in Nat
    BY <2>2
  <2> QED
    BY <2>3
<1>3. S \in Good
  <2> HIDE DEF Good
  <2> QED
    BY <1>1, <1>2, BitByBit
<1> QED
  BY <1>3

\* Bits at and above n make a multiple of 2^n.
LEMMA ValSplit ==
  ASSUME NEW S, IsFiniteSet(S), S \subseteq Nat, NEW n \in Nat
  PROVE  \E q \in Nat : Val(S) = Val(Below(S, n)) + Pow2[n] * q
<1> DEFINE Good == {s \in SUBSET S : \E q \in Nat : Val(s) = Val(Below(s, n)) + Pow2[n] * q}
<1>1. {} \in Good
  <2>1. Below({}, n) = {}
    BY DEF Below
  <2>2. 0 = 0 + Pow2[n] * 0
    BY PowerTyped
  <2> QED
    BY <2>1, <2>2, ValEmpty
<1>2. ASSUME NEW s \in SUBSET S, NEW j \in S \ s, s \in Good PROVE s \cup {j} \in Good
  <2> DEFINE low == Below(s, n)
  <2>1. PICK q \in Nat : Val(s) = Val(low) + Pow2[n] * q
    BY <1>2
  <2>2. /\ IsFiniteSet(s) /\ IsFiniteSet(low)
        /\ s \subseteq Nat /\ low \subseteq Nat /\ j \in Nat /\ j \notin s /\ j \notin low
    <3>1. low \subseteq s
      BY DEF Below
    <3> QED
      BY <3>1, FS_Subset
  <2>3. /\ Val(s) \in Nat /\ Val(s \cup {j}) = Val(s) + Pow2[j]
        /\ Val(low) \in Nat /\ Val(low \cup {j}) = Val(low) + Pow2[j]
    BY <2>2, ValAdd
  <2>4. Pow2[n] \in Nat /\ Pow2[j] \in Nat /\ Pow2[n] * q \in Nat
    BY <2>2, PowerTyped
  <2>5. CASE j < n
    <3>1. Below(s \cup {j}, n) = low \cup {j}
      BY <2>5 DEF Below
    <3>2. Val(s \cup {j}) = Val(Below(s \cup {j}, n)) + Pow2[n] * q
      <4> DEFINE a == Pow2[n] * q
      <4>1. Val(s \cup {j}) = (Val(low) + a) + Pow2[j] /\ a \in Nat
        BY <2>1, <2>3, <2>4
      <4>2. Val(Below(s \cup {j}, n)) = Val(low) + Pow2[j]
        BY <2>3, <3>1
      <4> HIDE DEF low, a
      <4>3. Val(s \cup {j}) = Val(Below(s \cup {j}, n)) + a
        BY <2>3, <2>4, <4>1, <4>2
      <4> QED
        BY <4>3 DEF a
    <3> QED
      BY <3>2
  <2>6. CASE j >= n
    <3> DEFINE p == Pow2[j - n]
    <3>1. Below(s \cup {j}, n) = low
      BY <2>2, <2>6 DEF Below
    <3>2. p \in Nat /\ Pow2[j] = Pow2[n] * p
      <4>1. j - n \in Nat /\ n + (j - n) = j
        BY <2>2, <2>6
      <4> QED
        BY <4>1, PowerTyped, PowerSum, SMTT(30)
    <3>3. Pow2[n] * q + Pow2[n] * p = Pow2[n] * (q + p) /\ q + p \in Nat
      BY <2>4, <3>2
    <3>4. Val(s \cup {j}) = Val(low) + Pow2[n] * (q + p)
      <4> DEFINE a == Pow2[n] * q
                 b == Pow2[n] * p
      <4>1. a \in Nat /\ b \in Nat
        BY <2>4, <3>2
      <4>2. Val(s \cup {j}) = (Val(low) + a) + b
        BY <2>1, <2>3, <3>2
      <4> HIDE DEF a, b, p, low
      <4>3. Val(s \cup {j}) = Val(low) + (a + b)
        BY <2>3, <4>1, <4>2
      <4> QED
        BY <3>3, <4>3 DEF a, b
    <3> QED
      BY <3>1, <3>3, <3>4
  <2> QED
    BY <2>2, <2>5, <2>6, SMTT(30)
<1>3. S \in Good
  <2> HIDE DEF Good
  <2> QED
    BY <1>1, <1>2, BitByBit
<1> QED
  BY <1>3

\* n bits make less than 2^n.
LEMMA ValBound ==
  ASSUME NEW n \in Nat, NEW S, IsFiniteSet(S), S \subseteq Nat
  PROVE  Val(Below(S, n)) \in Nat /\ Val(Below(S, n)) < Pow2[n]
<1> DEFINE P == {m \in Nat : Val(Below(S, m)) < Pow2[m]}
<1>1. ASSUME NEW m \in Nat
      PROVE  /\ IsFiniteSet(Below(S, m)) /\ Below(S, m) \subseteq Nat
             /\ Val(Below(S, m)) \in Nat
  <2>1. Below(S, m) \subseteq S
    BY DEF Below
  <2> QED
    BY <2>1, FS_Subset, ValTyped
<1>2. 0 \in P
  <2>1. \A i \in S : ~ (i < 0)
    OBVIOUS
  <2>2. Below(S, 0) = {}
    BY <2>1 DEF Below
  <2>3. Val(Below(S, 0)) < Pow2[0]
    BY <2>2, ValEmpty, Powers, SMTT(30)
  <2> QED
    BY <2>3
<1>3. ASSUME NEW m \in Nat, m \in P PROVE m + 1 \in P
  <2> DEFINE v == Val(Below(S, m))
  <2>1. v \in Nat /\ v < Pow2[m] /\ Pow2[m] \in Nat /\ Pow2[m + 1] = 2 * Pow2[m]
    BY <1>1, <1>3, Powers, PowerTyped
  <2>2. \A i \in S : i < m + 1 <=> i < m \/ i = m
    OBVIOUS
  <2>3. Val(Below(S, m + 1)) \in {v, v + Pow2[m]}
    <3>1. CASE m \in S
      <4>1. Below(S, m + 1) = Below(S, m) \cup {m}
        BY <2>2, <3>1 DEF Below
      <4>2. m \notin Below(S, m)
        BY DEF Below
      <4> QED
        BY <1>1, <4>1, <4>2, ValAdd
    <3>2. CASE m \notin S
      <4>1. Below(S, m + 1) = Below(S, m)
        BY <2>2, <3>2 DEF Below
      <4> QED
        BY <4>1
    <3> QED
      BY <3>1, <3>2
  <2> HIDE DEF v
  <2>4. Val(Below(S, m + 1)) < Pow2[m + 1]
    BY <2>1, <2>3
  <2> QED
    BY <2>4
<1>4. Nat \subseteq P
  <2> HIDE DEF P
  <2> QED
    BY <1>2, <1>3, InductionOnNat
<1> QED
  BY <1>1, <1>4

\* What \div and % make of a multiple and a rest.
LEMMA Quotient ==
  ASSUME NEW m \in Nat \ {0}, NEW q \in Nat, NEW r \in Nat, r < m
  PROVE  (r + m * q) \div m = q /\ (r + m * q) % m = r
<1> DEFINE a == r + m * q
           d == a \div m
           e == a % m
<1>1. a \in Nat
  OBVIOUS
<1>2. d \in Int /\ e \in 0 .. m - 1 /\ a = m * d + e
  <2> HIDE DEF a
  <2> QED
    BY <1>1
<1>3. \A x \in Int : x >= 1 => m * x >= m
  OBVIOUS
<1>4. m * (q - d) = e - r
  <2>1. m * (q - d) = m * q - m * d
    BY <1>2
  <2> DEFINE u == m * q
             v == m * d
  <2>2. u \in Int /\ v \in Int /\ r + u = v + e
    BY <1>2
  <2> HIDE DEF u, v
  <2>3. u - v = e - r
    BY <1>2, <2>2
  <2> QED
    BY <2>1, <2>3 DEF u, v
<1>5. q = d
  <2>1. CASE q - d >= 1
    BY <1>2, <1>3, <1>4, <2>1
  <2>2. CASE d - q >= 1
    <3>1. m * (d - q) = r - e
      BY <1>2, <1>4
    <3> QED
      BY <1>2, <1>3, <2>2, <3>1
  <2> QED
    BY <1>2, <2>1, <2>2
<1>6. e = r
  BY <1>2, <1>5
<1> QED
  BY <1>5, <1>6

\* Masking drops the bits at and above n.
LEMMA ValMask ==
  ASSUME NEW S, IsFiniteSet(S), S \subseteq Nat, NEW n \in Nat
  PROVE  Val(S) % Pow2[n] = Val(Below(S, n))
<1>1. PICK q \in Nat : Val(S) = Val(Below(S, n)) + Pow2[n] * q
  BY ValSplit
<1>2. /\ Val(Below(S, n)) \in Nat /\ Val(Below(S, n)) < Pow2[n]
      /\ Pow2[n] \in Nat \ {0}
  BY ValBound, PowerTyped
<1> QED
  BY <1>1, <1>2, Quotient

\* The bits that are set are the elements.
LEMMA ValBit ==
  ASSUME NEW S, IsFiniteSet(S), S \subseteq Nat, NEW i \in Nat
  PROVE  Bit(Val(S), i) <=> i \in S
<1> DEFINE v == Val(Below(S, i))
           b == IF i \in S THEN 1 ELSE 0
           p == Pow2[i]
<1>1. PICK q \in Nat : Val(S) = Val(Below(S, i + 1)) + Pow2[i + 1] * q
  <2>1. i + 1 \in Nat
    OBVIOUS
  <2> QED
    BY <2>1, ValSplit
<1>2. Pow2[i + 1] = 2 * p /\ p \in Nat \ {0} /\ v \in Nat /\ v < p
  BY Powers, PowerTyped, ValBound
<1>3. Val(Below(S, i + 1)) = v + p * b
  <2>1. IsFiniteSet(Below(S, i)) /\ Below(S, i) \subseteq Nat
    <3>1. Below(S, i) \subseteq S
      BY DEF Below
    <3> QED
      BY <3>1, FS_Subset
  <2>2. \A x \in S : x < i + 1 <=> x < i \/ x = i
    OBVIOUS
  <2>3. i \notin Below(S, i)
    BY DEF Below
  <2>4. CASE i \in S
    <3>1. Below(S, i + 1) = Below(S, i) \cup {i}
      BY <2>2, <2>4 DEF Below
    <3>2. Val(Below(S, i + 1)) = v + p
      BY <2>1, <2>3, <3>1, ValAdd
    <3> QED
      BY <1>2, <2>4, <3>2
  <2>5. CASE i \notin S
    <3>1. Below(S, i + 1) = Below(S, i)
      BY <2>2, <2>5 DEF Below
    <3>2. v = v + p * 0
      BY <1>2
    <3> QED
      BY <2>5, <3>1, <3>2
  <2> QED
    BY <2>4, <2>5
<1>4. Val(S) = v + p * (b + 2 * q)
  <2>1. b \in Nat
    OBVIOUS
  <2> HIDE DEF v, b, p
  <2>2. Val(S) = (v + p * b) + (2 * p) * q
    BY <1>1, <1>2, <1>3
  <2>3. p * (b + 2 * q) = p * b + (2 * p) * q
    BY <1>2, <2>1
  <2> DEFINE x == p * b
             y == (2 * p) * q
  <2>4. x \in Nat /\ y \in Nat
    BY <1>2, <2>1
  <2> HIDE DEF x, y
  <2>5. (v + x) + y = v + (x + y)
    BY <1>2, <2>4
  <2> QED
    BY <2>2, <2>3, <2>5 DEF x, y
<1>5. Val(S) \div p = b + 2 * q
  <2>1. b + 2 * q \in Nat
    OBVIOUS
  <2> HIDE DEF v, b, p
  <2> QED
    BY <1>2, <1>4, <2>1, Quotient
<1>6. (b + 2 * q) % 2 = b
  OBVIOUS
<1> QED
  BY <1>5, <1>6 DEF Bit

\* Shifting moves every bit up.
LEMMA ValShift ==
  ASSUME NEW S, IsFiniteSet(S), S \subseteq Nat, NEW k \in Nat
  PROVE  /\ IsFiniteSet({i + k : i \in S}) /\ {i + k : i \in S} \subseteq Nat
         /\ Val({i + k : i \in S}) = Val(S) * Pow2[k]
<1> DEFINE Up(s) == {i + k : i \in s}
           Good == {s \in SUBSET S : /\ IsFiniteSet(Up(s)) /\ Up(s) \subseteq Nat
                                     /\ Val(Up(s)) = Val(s) * Pow2[k]}
<1>1. {} \in Good
  <2>1. Up({}) = {}
    OBVIOUS
  <2>2. 0 = 0 * Pow2[k]
    BY PowerTyped
  <2> HIDE DEF Up
  <2> QED
    BY <2>1, <2>2, ValEmpty, FS_EmptySet
<1>2. ASSUME NEW s \in SUBSET S, NEW j \in S \ s, s \in Good PROVE s \cup {j} \in Good
  <2>1. IsFiniteSet(s) /\ s \subseteq Nat /\ j \in Nat \ s
    BY FS_Subset
  <2>2. Up(s \cup {j}) = Up(s) \cup {j + k}
    OBVIOUS
  <2>3. j + k \in Nat \ Up(s)
    BY <2>1
  <2>4. IsFiniteSet(Up(s)) /\ Up(s) \subseteq Nat /\ Val(Up(s)) = Val(s) * Pow2[k]
    BY <1>2
  <2> HIDE DEF Up
  <2>5. Val(Up(s \cup {j})) = Val(s) * Pow2[k] + Pow2[j + k]
    BY <2>2, <2>3, <2>4, ValAdd
  <2>6. Val(s \cup {j}) = Val(s) + Pow2[j] /\ Val(s) \in Nat
    BY <2>1, ValAdd
  <2>7. Pow2[j + k] = Pow2[j] * Pow2[k] /\ Pow2[j] \in Nat /\ Pow2[k] \in Nat
    BY <2>1, PowerSum, PowerTyped
  <2>8. \A x, y, z \in Nat : x * z + y * z = (x + y) * z
    OBVIOUS
  <2>9. Val(Up(s \cup {j})) = Val(s \cup {j}) * Pow2[k]
    BY <2>5, <2>6, <2>7, <2>8
  <2>10. IsFiniteSet(Up(s) \cup {j + k}) /\ Up(s) \cup {j + k} \subseteq Nat
    BY <2>3, <2>4, FS_AddElement
  <2> QED
    BY <2>2, <2>9, <2>10
<1>3. S \in Good
  <2> HIDE DEF Good
  <2> QED
    BY <1>1, <1>2, BitByBit
<1> QED
  BY <1>3

(***************************************************************************)
(* The windows of a guard                                                  *)
(***************************************************************************)
LEMMA IntegerOf ==
  ASSUME NEW w \in Window
  PROVE  AsInteger(w) = [highest |-> w.highest, bitmap |-> Val(w.bitmap),
                         accepted |-> w.accepted]
<1>1. Sets!MapThenSumSet(LAMBDA i : Pow2[i], w.bitmap) = Val(w.bitmap)
  BY Zenon DEF Sets!MapThenSumSet, Sets!MapThenFoldSet, Val, SumOf, Unrolled, Pick
<1> QED
  BY <1>1 DEF AsInteger, Window

\* The bitmap of an exact window is a finite set of offsets within the window.
LEMMA BitmapInWindow ==
  ASSUME NEW w \in Window, NEW h \in SUBSET Nat, WindowExact(w, h)
  PROVE  /\ IsFiniteSet(w.bitmap) /\ w.bitmap \subseteq Nat
         /\ w.highest \in Int
         /\ \A i \in w.bitmap : i < WindowSize \/ i = 0
<1>1. w.highest \in Int
  BY DEF Window
<1>2. w.bitmap \subseteq 0 .. w.highest
  BY DEF WindowExact
<1>3. IsFiniteSet(w.bitmap)
  <2>1. IsFiniteSet(0 .. w.highest)
    BY <1>1, FS_Interval
  <2> QED
    BY <1>2, <2>1, FS_Subset
<1> QED
  BY <1>1, <1>2, <1>3 DEF WindowExact

\* One bit of the integer decides what membership in the set does.
LEMMA ChecksAgree ==
  ASSUME NEW w \in Window, NEW h \in SUBSET Nat, WindowExact(w, h), NEW s \in Int
  PROVE  IntCheck(AsInteger(w), s) = WindowCheck(w, s)
<1>1. /\ AsInteger(w).highest = w.highest /\ AsInteger(w).bitmap = Val(w.bitmap)
      /\ w.highest \in Int
  BY IntegerOf DEF Window
<1>2. CASE s < 0 \/ w.highest < 0 \/ s > w.highest \/ w.highest - s >= WindowSize
  BY <1>1, <1>2, WindowSizeAssumption DEF IntCheck, WindowCheck, Ahead, Behind
<1>3. CASE ~ (s < 0 \/ w.highest < 0 \/ s > w.highest \/ w.highest - s >= WindowSize)
  <2>1. w.highest - s \in Nat
    BY <1>1, <1>3
  <2>2. Bit(Val(w.bitmap), w.highest - s) <=> w.highest - s \in w.bitmap
    BY <2>1, BitmapInWindow, ValBit
  <2> QED
    BY <1>1, <1>3, <2>2, WindowSizeAssumption DEF IntCheck, WindowCheck, Ahead, Behind
<1> QED
  BY <1>2, <1>3

\* Shift, bit 0 and mask compute the moved set of offsets.
LEMMA SlidesAgree ==
  ASSUME NEW S, IsFiniteSet(S), S \subseteq Nat, NEW k \in Nat \ {0}
  PROVE  Slid(Val(S), k) =
           Val(IF k >= WindowSize THEN {0}
               ELSE {i \in {j + k : j \in S} \cup {0} : i < WindowSize})
<1> DEFINE Up == {j + k : j \in S}
<1>1. Val({0}) = 1
  <2>1. Val({} \cup {0}) = Val({}) + Pow2[0]
    BY FS_EmptySet, ValAdd
  <2> QED
    BY <2>1, ValEmpty, Powers
<1>2. CASE k >= WindowSize
  BY <1>1, <1>2 DEF Slid
<1>3. CASE ~ (k >= WindowSize)
  <2>1. IsFiniteSet(Up) /\ Up \subseteq Nat /\ Val(Up) = Val(S) * Pow2[k]
    BY ValShift
  <2>2. 0 \notin Up
    OBVIOUS
  <2> HIDE DEF Up
  <2>3. Val(Up \cup {0}) = Val(S) * Pow2[k] + 1
    <3>1. Val(Up \cup {0}) = Val(Up) + Pow2[0]
      BY <2>1, <2>2, ValAdd
    <3> QED
      BY <2>1, <3>1, Powers
  <2>4. IsFiniteSet(Up \cup {0}) /\ Up \cup {0} \subseteq Nat
    BY <2>1, <2>2, FS_AddElement
  <2>5. Val(Up \cup {0}) % Mask = Val(Below(Up \cup {0}, WindowSize))
    BY <2>4, ValMask, WindowSizeAssumption DEF Mask
  <2> QED
    BY <1>3, <2>3, <2>5 DEF Slid, Up, Below
<1> QED
  BY <1>2, <1>3

\* The commit of the integer leaves the integer of the committed window.
LEMMA CommitsAgree ==
  ASSUME NEW w \in Window, NEW h \in SUBSET Nat, WindowExact(w, h), NEW s \in Int
  PROVE  IntCommit(AsInteger(w), s) = AsInteger(WindowCommit(w, s))
<1> DEFINE a == AsInteger(w)
           v == WindowCommit(w, s)
<1>1. /\ a = [highest |-> w.highest, bitmap |-> Val(w.bitmap), accepted |-> w.accepted]
      /\ w.highest \in Int /\ w.bitmap \subseteq Nat /\ IsFiniteSet(w.bitmap)
  BY IntegerOf, BitmapInWindow
<1>2. AsInteger(v) = [highest |-> v.highest, bitmap |-> Val(v.bitmap),
                      accepted |-> v.accepted]
  BY CommitKeepsExact, IntegerOf
<1>3. IntCheck(a, s) = WindowCheck(w, s)
  BY ChecksAgree
<1>4. WindowTakes(w, s) <=> WindowCheck(w, s) = "FRESH"
  BY TakesIffFresh
<1> HIDE DEF a
<1>5. CASE ~ WindowTakes(w, s)
  <2>1. v = w /\ AsInteger(v) = a
    BY <1>5 DEF WindowCommit, a
  <2>2. ~ (s >= 0 /\ (w.highest < 0 \/ s > w.highest))
    BY <1>5 DEF WindowTakes, Ahead
  <2>3. IntCommit(a, s) = a
    BY <1>1, <1>3, <1>4, <1>5, <2>2 DEF IntCommit
  <2> QED
    BY <2>1, <2>3 DEF a
<1>6. CASE WindowTakes(w, s) /\ Ahead(w, s)
  <2>1. s \in Nat
    BY <1>6 DEF WindowTakes
  <2>2. v = [highest |-> s, bitmap |-> Shifted(w, s), accepted |-> w.accepted + 1]
    BY <1>6 DEF WindowCommit
  <2>3. CASE w.highest < 0
    <3>1. Shifted(w, s) = {0}
      BY <2>3 DEF Shifted
    <3>2. Val({0}) = 1
      <4>1. Val({} \cup {0}) = Val({}) + Pow2[0]
        BY FS_EmptySet, ValAdd
      <4> QED
        BY <4>1, ValEmpty, Powers
    <3>3. IntCommit(a, s) = [highest |-> s, bitmap |-> 1, accepted |-> w.accepted + 1]
      BY <1>1, <2>1, <2>3 DEF IntCommit
    <3> QED
      BY <1>2, <2>2, <3>1, <3>2, <3>3 DEF a
  <2>4. CASE ~ (w.highest < 0)
    <3> DEFINE k == s - w.highest
    <3>1. s > w.highest /\ k \in Nat \ {0}
      BY <1>1, <1>6, <2>1, <2>4 DEF Ahead
    <3>2. Shifted(w, s) = IF k >= WindowSize THEN {0}
                          ELSE {i \in {j + k : j \in w.bitmap} \cup {0} : i < WindowSize}
      BY <2>4 DEF Shifted
    <3>3. Slid(Val(w.bitmap), k) = Val(Shifted(w, s))
      <4> HIDE DEF k
      <4> QED
        BY <1>1, <3>1, <3>2, SlidesAgree
    <3>4. IntCommit(a, s) = [highest |-> s, bitmap |-> Slid(Val(w.bitmap), k),
                             accepted |-> w.accepted + 1]
      BY <1>1, <2>1, <2>4, <3>1 DEF IntCommit
    <3> QED
      BY <1>2, <2>2, <3>3, <3>4 DEF a
  <2> QED
    BY <2>3, <2>4
<1>7. CASE WindowTakes(w, s) /\ ~ Ahead(w, s)
  <2> DEFINE j == w.highest - s
  <2>1. v = [highest |-> w.highest, bitmap |-> w.bitmap \cup {j},
             accepted |-> w.accepted + 1]
    BY <1>7 DEF WindowCommit
  <2>2. j \in Nat \ w.bitmap
    BY <1>1, <1>7 DEF WindowTakes, Ahead
  <2>3. Val(w.bitmap \cup {j}) = Val(w.bitmap) + Pow2[j]
    BY <1>1, <2>2, ValAdd
  <2>4. IntCommit(a, s) = [highest |-> w.highest, bitmap |-> Val(w.bitmap) + Pow2[j],
                           accepted |-> w.accepted + 1]
    BY <1>1, <1>3, <1>4, <1>7 DEF IntCommit, Ahead
  <2> QED
    BY <1>2, <2>1, <2>3, <2>4 DEF a
<1> QED
  BY <1>5, <1>6, <1>7

\* The shifts, masks and bits of the code compute what the sets of offsets say,
\* in every window a guard can reach, whatever its size (replay.py:130-208).
THEOREM BitmapExact == Spec => []IntegersAgree
<1>1. HistoryExact => IntegersAgree
  <2> SUFFICES ASSUME HistoryExact, NEW k \in StreamKeys, NEW s \in Seqs
               PROVE  /\ IntCheck(AsInteger(WindowOf(k)), s) = WindowCheck(WindowOf(k), s)
                      /\ IntCommit(AsInteger(WindowOf(k)), s)
                           = AsInteger(WindowCommit(WindowOf(k), s))
    BY DEF IntegersAgree
  <2>1. /\ WindowOf(k) \in Window /\ accepted[k] \in SUBSET Nat
        /\ WindowExact(WindowOf(k), accepted[k])
        /\ s \in Int
    BY WindowTyped, SeqsAssumption DEF HistoryExact
  <2> QED
    BY <2>1, ChecksAgree, CommitsAgree
<1> QED
  BY <1>1, GuardExact, PTL

\* A snapshot masks the bitmap and loses nothing by it, in any reachable window
\* and after any further commit (replay.py:225-231).
THEOREM SnapshotExact == Spec => []SnapshotLossless
<1>1. HistoryExact => SnapshotLossless
  <2> SUFFICES ASSUME HistoryExact, WindowSize > 0, NEW k \in StreamKeys, NEW s \in Seqs
               PROVE  Snapshot(IntCommit(AsInteger(WindowOf(k)), s))
                        = IntCommit(AsInteger(WindowOf(k)), s).bitmap
    BY DEF SnapshotLossless
  <2> DEFINE w == WindowOf(k)
             v == WindowCommit(w, s)
             g == IF WindowTakes(w, s) THEN accepted[k] \cup {s} ELSE accepted[k]
  <2>1. /\ w \in Window /\ accepted[k] \in SUBSET Nat /\ WindowExact(w, accepted[k])
        /\ s \in Int
    BY WindowTyped, SeqsAssumption DEF HistoryExact
  <2>2. v \in Window /\ WindowExact(v, g)
    BY <2>1, CommitKeepsExact
  <2>3. g \in SUBSET Nat
    BY <2>1, TakenNotTakenAgain
  <2>4. IntCommit(AsInteger(w), s) = AsInteger(v)
    BY <2>1, CommitsAgree
  <2> HIDE DEF w, v, g
  <2>5. AsInteger(v).bitmap = Val(v.bitmap)
    BY <2>2, IntegerOf
  <2>6. /\ IsFiniteSet(v.bitmap) /\ v.bitmap \subseteq Nat
        /\ Below(v.bitmap, WindowSize) = v.bitmap
    BY <2>2, <2>3, BitmapInWindow, WindowSizeAssumption DEF Below
  <2>7. Val(v.bitmap) % Mask = Val(v.bitmap)
    BY <2>6, ValMask, WindowSizeAssumption DEF Mask
  <2> QED
    BY <2>4, <2>5, <2>7 DEF Snapshot, w
<1> QED
  BY <1>1, GuardExact, PTL
=============================================================================

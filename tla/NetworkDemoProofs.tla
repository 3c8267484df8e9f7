-------------------------- MODULE NetworkDemoProofs --------------------------
(***************************************************************************)
(* Proofs about NetworkDemo for any record count, plan, frame length and   *)
(* capacity of the connections.  The streams of pieces on both connections *)
(* are runs of whole frames; what the actor puts on the wire and what the  *)
(* receiver says to it are compared with the verdicts the plan calls for.  *)
(***************************************************************************)
EXTENDS NetworkDemo, FiniteSetTheorems, WellFoundedInduction, TLAPS

USE WindowSizeAssumption, DemoAssumption

-----------------------------------------------------------------------------
(***************************************************************************)
(* Induction over the numbers, in a form that takes a set                  *)
(***************************************************************************)
\* A set of numbers that is not empty has a least one.
LEMMA LeastNumber ==
  ASSUME NEW T, T \subseteq Nat, T # {}
  PROVE  \E x \in T : \A y \in T : x <= y
<1> DEFINE Less == {ss \in Nat \X Nat : ss[1] < ss[2]}
<1>1. IsWellFoundedOn(Less, Nat)
  BY NatLessThanWellFounded DEF OpToRel
<1>2. \E x \in T : \A y \in T : <<y, x>> \notin Less
  <2> HIDE DEF Less
  <2> QED
    BY <1>1, WFMin
<1>3. \A x, y \in Nat : <<y, x>> \in Less <=> y < x
  OBVIOUS
<1> HIDE DEF Less
<1>4. \A x, y \in T : <<y, x>> \notin Less => x <= y
  BY <1>3
<1> QED
  BY <1>2, <1>4

\* A set that has 0, and with every number the next one, has them all.
LEMMA InductionOnNat ==
  ASSUME NEW S, 0 \in S, \A n \in Nat : n \in S => n + 1 \in S
  PROVE  Nat \subseteq S
<1> SUFFICES ASSUME NEW m \in Nat \ S PROVE FALSE
  OBVIOUS
<1>1. PICK x \in Nat \ S : \A y \in Nat \ S : x <= y
  BY LeastNumber
<1>2. x - 1 \in Nat
  BY <1>1
<1>3. x - 1 \in S
  BY <1>1, <1>2
<1>4. (x - 1) + 1 = x
  BY <1>1
<1> QED
  BY <1>1, <1>2, <1>3, <1>4

(***************************************************************************)
(* Numbers: how many of the first ones are in a set                        *)
(***************************************************************************)
\* How many of 1 .. n are in the set.
Among(n, S) == Cardinality({x \in 1 .. n : x \in S})

LEMMA AmongNext ==
  ASSUME NEW n \in Nat, NEW S
  PROVE  /\ Among(n, S) \in Nat /\ Among(0, S) = 0
         /\ Among(n + 1, S) = Among(n, S) + (IF n + 1 \in S THEN 1 ELSE 0)
<1> DEFINE A == {x \in 1 .. n : x \in S}
<1>1. IsFiniteSet(A)
  <2>1. IsFiniteSet(1 .. n)
    BY FS_Interval
  <2> QED
    BY <2>1, FS_Subset
<1>2. Cardinality(A) \in Nat
  BY <1>1, FS_CardinalityType
<1>3. Among(0, S) = 0
  <2>1. {x \in 1 .. 0 : x \in S} = {}
    OBVIOUS
  <2> QED
    BY <2>1, FS_EmptySet DEF Among
<1>4. CASE n + 1 \in S
  <2>1. {x \in 1 .. n + 1 : x \in S} = A \cup {n + 1} /\ n + 1 \notin A
    BY <1>4
  <2>2. Cardinality(A \cup {n + 1}) = Cardinality(A) + 1
    BY <1>1, <2>1, FS_AddElement
  <2> QED
    BY <1>2, <1>3, <1>4, <2>1, <2>2 DEF Among
<1>5. CASE n + 1 \notin S
  <2>1. {x \in 1 .. n + 1 : x \in S} = A
    BY <1>5
  <2> QED
    BY <1>2, <1>3, <1>5, <2>1 DEF Among
<1> QED
  BY <1>4, <1>5

\* The further, the more; strictly so past a member.
LEMMA AmongGrows ==
  ASSUME NEW n \in Nat, NEW m \in Nat, m <= n, NEW S
  PROVE  /\ Among(m, S) <= Among(n, S)
         /\ \A k \in m + 1 .. n : k \in S => Among(m, S) < Among(n, S)
<1> DEFINE Q(d) == /\ Among(m, S) <= Among(m + d, S)
                   /\ \A k \in m + 1 .. m + d : k \in S => Among(m, S) < Among(m + d, S)
           Z == {d \in Nat : Q(d)}
<1>1. 0 \in Z
  <2>1. Among(m, S) \in Nat /\ m + 0 = m
    BY AmongNext
  <2> QED
    BY <2>1
<1>2. ASSUME NEW d \in Nat, d \in Z PROVE d + 1 \in Z
  <2>1. /\ Among(m, S) \in Nat /\ Among(m + d, S) \in Nat
        /\ Among((m + d) + 1, S) = Among(m + d, S) + (IF (m + d) + 1 \in S THEN 1 ELSE 0)
    BY AmongNext
  <2>2. m + (d + 1) = (m + d) + 1
    OBVIOUS
  <2>3. Q(d)
    BY <1>2
  <2>4. \A k \in m + 1 .. m + (d + 1) : k \in m + 1 .. m + d \/ k = (m + d) + 1
    OBVIOUS
  <2>5. Q(d + 1)
    BY <2>1, <2>2, <2>3, <2>4
  <2> QED
    BY <2>5
<1>3. n - m \in Z
  <2> HIDE DEF Z
  <2>1. Nat \subseteq Z
    BY <1>1, <1>2, InductionOnNat
  <2> QED
    BY <2>1
<1>4. m + (n - m) = n
  OBVIOUS
<1> QED
  BY <1>3, <1>4

-----------------------------------------------------------------------------
(***************************************************************************)
(* The verdicts the plan calls for                                         *)
(***************************************************************************)
Called(n) == Promised!PlannedVerdicts(n)

VerdictNames == {"accepted", "AUTH_FAILED", "REPLAY_DETECTED"}

LEMMA LengthOf == ASSUME NEW S, NEW s \in Seq(S) PROVE Len(s) \in Nat
OBVIOUS

LEMMA Joined ==
  ASSUME NEW S, NEW s \in Seq(S), NEW t \in Seq(S)
  PROVE  /\ s \o t \in Seq(S)
         /\ Len(s \o t) = Len(s) + Len(t)
         /\ \A i \in 1 .. Len(s) : (s \o t)[i] = s[i]
         /\ \A i \in 1 .. Len(t) : (s \o t)[Len(s) + i] = t[i]
OBVIOUS

Lists(s, verdict) == s \in Seq(VerdictNames) /\ Len(s) = 1 /\ s[1] = verdict

\* What becomes of a record, and what is said to it.
LEMMA RecordVerdicts ==
  ASSUME NEW i \in Nat, NEW v, v = Promised!VerdictsFor(i)
  PROVE  /\ v \in Seq(VerdictNames)
         /\ \/ Planned(i) = "forward" /\ Lists(v, "accepted")
            \/ Planned(i) \in Tampering /\ Lists(v, "AUTH_FAILED")
            \/ Planned(i) = "drop" /\ Len(v) = 0
            \/ /\ Planned(i) = "replay" /\ Len(v) = 2
               /\ v[1] = "accepted" /\ v[2] = "REPLAY_DETECTED"
               /\ i < WindowSize /\ \E j \in 0 .. i - 1 : Planned(j) = "forward"
<1>0. /\ Lists(<<"accepted">>, "accepted") /\ Lists(<<"AUTH_FAILED">>, "AUTH_FAILED")
      /\ Lists(<<"REPLAY_DETECTED">>, "REPLAY_DETECTED")
      /\ <<>> \in Seq(VerdictNames) /\ Len(<<>>) = 0
  BY DEF Lists, VerdictNames
<1>1. CASE i \notin DOMAIN Plan
  BY <1>0, <1>1 DEF Promised!VerdictsFor, Planned, Lists
<1>2. CASE i \in DOMAIN Plan /\ Plan[i] \in Tampering
  BY <1>0, <1>2 DEF Promised!VerdictsFor, Planned, Tampering, Lists
<1>3. CASE i \in DOMAIN Plan /\ Plan[i] = "drop"
  BY <1>0, <1>3 DEF Promised!VerdictsFor, Planned
<1>4. CASE i \in DOMAIN Plan /\ Plan[i] = "replay"
  <2>1. Promised!Kept(i) /\ i < WindowSize /\ \E j \in 0 .. i - 1 : Planned(j) = "forward"
    BY <1>4, PlanAssumption DEF Promised!Kept, Planned
  <2> DEFINE a == <<"accepted">>
             b == <<"REPLAY_DETECTED">>
  <2>2. v = a \o b
    BY <1>4, <2>1 DEF Promised!VerdictsFor
  <2>3. Lists(a, "accepted") /\ Lists(b, "REPLAY_DETECTED")
    BY <1>0
  <2> HIDE DEF a, b
  <2>4. /\ v \in Seq(VerdictNames) /\ Len(v) = 1 + 1
        /\ \A x \in 1 .. 1 : v[x] = a[x] /\ v[1 + x] = b[x]
    BY <2>2, <2>3, Joined DEF Lists
  <2>5. Len(v) = 2 /\ v[1] = "accepted" /\ v[2] = "REPLAY_DETECTED"
    <3>1. 1 \in 1 .. 1 /\ 1 + 1 = 2
      OBVIOUS
    <3> QED
      BY <2>3, <2>4, <3>1 DEF Lists
  <2> QED
    BY <1>4, <2>1, <2>4, <2>5 DEF Planned
<1> QED
  BY <1>1, <1>2, <1>3, <1>4, PlanAssumption

\* The recursion the verdicts of the first n records are defined by has a solution,
\* and solutions for different n agree.
Unfolds(f, n) ==
  f = [i \in 1 .. n |-> IF i = 1 THEN Promised!VerdictsFor(0)
                        ELSE f[i - 1] \o Promised!VerdictsFor(i - 1)]

LEMMA UnfoldsExists == ASSUME NEW n \in Nat PROVE \E f : Unfolds(f, n)
<1> DEFINE S == {m \in Nat : \E f : Unfolds(f, m)}
<1>1. 0 \in S
  <2>1. Unfolds(<<>>, 0)
    BY DEF Unfolds
  <2> QED
    BY <2>1
<1>2. ASSUME NEW m \in Nat, m \in S PROVE m + 1 \in S
  <2>1. PICK f : Unfolds(f, m)
    BY <1>2
  <2> DEFINE last == IF m + 1 = 1 THEN Promised!VerdictsFor(0)
                     ELSE f[m] \o Promised!VerdictsFor(m)
             g == [i \in 1 .. m + 1 |-> IF i = m + 1 THEN last ELSE f[i]]
  <2>2. ASSUME NEW i \in 1 .. m + 1
        PROVE  g[i] = IF i = 1 THEN Promised!VerdictsFor(0)
                      ELSE g[i - 1] \o Promised!VerdictsFor(i - 1)
    <3>1. CASE i = m + 1
      <4>1. i - 1 = m /\ (i # 1 => i - 1 \in 1 .. m + 1 /\ i - 1 # m + 1)
        BY <3>1
      <4>2. i # 1 => g[i - 1] = f[m]
        BY <4>1
      <4> QED
        BY <3>1, <4>1, <4>2
    <3>2. CASE i # m + 1
      <4>1. i \in 1 .. m /\ (i # 1 => i - 1 \in 1 .. m + 1 /\ i - 1 # m + 1)
        BY <3>2
      <4>2. g[i] = f[i] /\ (i # 1 => g[i - 1] = f[i - 1])
        BY <3>2, <4>1
      <4>3. f[i] = IF i = 1 THEN Promised!VerdictsFor(0)
                   ELSE f[i - 1] \o Promised!VerdictsFor(i - 1)
        BY <2>1, <4>1 DEF Unfolds
      <4> QED
        BY <4>2, <4>3
    <3> QED
      BY <3>1, <3>2
  <2>3. DOMAIN g = 1 .. m + 1 /\ g = [i \in 1 .. m + 1 |-> g[i]]
    OBVIOUS
  <2> HIDE DEF g
  <2>4. Unfolds(g, m + 1)
    BY <2>2, <2>3 DEF Unfolds
  <2> QED
    BY <2>4
<1> HIDE DEF S
<1>3. n \in S
  BY <1>1, <1>2, InductionOnNat
<1> QED
  BY <1>3 DEF S

LEMMA UnfoldsAgree ==
  ASSUME NEW m \in Nat, NEW n \in Nat, m <= n, NEW f, NEW g, Unfolds(f, m), Unfolds(g, n)
  PROVE  \A i \in 1 .. m : f[i] = g[i]
<1> DEFINE S == {i \in Nat : i \in 1 .. m => f[i] = g[i]}
<1>1. 0 \in S
  OBVIOUS
<1>2. ASSUME NEW i \in Nat, i \in S PROVE i + 1 \in S
  <2> SUFFICES ASSUME i + 1 \in 1 .. m PROVE f[i + 1] = g[i + 1]
    OBVIOUS
  <2>1. i + 1 \in 1 .. n /\ (i + 1) - 1 = i
    OBVIOUS
  <2>2. f[i + 1] = IF i + 1 = 1 THEN Promised!VerdictsFor(0)
                   ELSE f[i] \o Promised!VerdictsFor(i)
    BY <2>1 DEF Unfolds
  <2>3. g[i + 1] = IF i + 1 = 1 THEN Promised!VerdictsFor(0)
                   ELSE g[i] \o Promised!VerdictsFor(i)
    BY <2>1 DEF Unfolds
  <2>4. i + 1 # 1 => f[i] = g[i]
    BY <1>2
  <2> QED
    BY <2>2, <2>3, <2>4
<1> HIDE DEF S
<1>3. Nat \subseteq S
  BY <1>1, <1>2, InductionOnNat
<1> QED
  BY <1>3 DEF S

\* The verdicts called for up to a record are those before it and its own.
LEMMA CalledNext ==
  /\ Len(Called(0)) = 0 /\ Called(0) \in Seq(VerdictNames)
  /\ \A n \in Nat : Called(n + 1) = Called(n) \o Promised!VerdictsFor(n)
  /\ \A n \in Nat : Called(n) \in Seq(VerdictNames)
<1> DEFINE Solved(n) == CHOOSE f : Unfolds(f, n)
<1>1. Len(Called(0)) = 0 /\ Called(0) \in Seq(VerdictNames) /\ Called(0) = <<>>
  BY DEF Called, Promised!PlannedVerdicts, Promised!FlattenSeq
<1>2. ASSUME NEW n \in Nat \ {0} PROVE Unfolds(Solved(n), n)
  BY <1>2, UnfoldsExists
<1>3. ASSUME NEW n \in Nat \ {0} PROVE Called(n) = Solved(n)[n]
  <2> DEFINE s == [i \in 1 .. n |-> Promised!VerdictsFor(i - 1)]
  <2>1. Len(s) = n
    OBVIOUS
  <2>2. Called(n) = (CHOOSE f : f = [i \in 1 .. Len(s) |-> IF i = 1 THEN s[i]
                                                           ELSE f[i - 1] \o s[i]])[Len(s)]
    BY <2>1 DEF Called, Promised!PlannedVerdicts, Promised!FlattenSeq
  <2>3. ASSUME NEW f
        PROVE  [i \in 1 .. Len(s) |-> IF i = 1 THEN s[i] ELSE f[i - 1] \o s[i]]
               = [i \in 1 .. n |-> IF i = 1 THEN Promised!VerdictsFor(0)
                                   ELSE f[i - 1] \o Promised!VerdictsFor(i - 1)]
    <3>1. \A i \in 1 .. n : s[i] = Promised!VerdictsFor(i - 1)
      OBVIOUS
    <3>2. 1 - 1 = 0
      OBVIOUS
    <3> QED
      BY <2>1, <3>1, <3>2
  <2> HIDE DEF s
  <2> DEFINE Body(f) == [i \in 1 .. Len(s) |-> IF i = 1 THEN s[i] ELSE f[i - 1] \o s[i]]
  <2>4. \A f : f = Body(f) <=> Unfolds(f, n)
    BY <2>3 DEF Unfolds
  <2>5. Called(n) = (CHOOSE f : f = Body(f))[n]
    BY <2>1, <2>2
  <2> HIDE DEF Body
  <2>6. (CHOOSE f : f = Body(f)) = (CHOOSE f : Unfolds(f, n))
    BY ONLY <2>4, Zenon
  <2>7. Called(n) = (CHOOSE f : Unfolds(f, n))[n]
    BY ONLY <2>5, <2>6
  <2> QED
    BY <2>7
<1> HIDE DEF Solved
<1>4. ASSUME NEW n \in Nat PROVE Called(n + 1) = IF n = 0 THEN Promised!VerdictsFor(0)
                                                 ELSE Called(n) \o Promised!VerdictsFor(n)
  <2>1. Unfolds(Solved(n + 1), n + 1) /\ Called(n + 1) = Solved(n + 1)[n + 1]
    BY <1>2, <1>3
  <2>2. n + 1 \in 1 .. n + 1 /\ (n + 1) - 1 = n /\ (n + 1 = 1 <=> n = 0)
    OBVIOUS
  <2>3. Solved(n + 1)[n + 1] = IF n = 0 THEN Promised!VerdictsFor(0)
                               ELSE Solved(n + 1)[n] \o Promised!VerdictsFor(n)
    BY <2>1, <2>2 DEF Unfolds
  <2>4. n # 0 => Solved(n + 1)[n] = Called(n)
    <3> SUFFICES ASSUME n # 0 PROVE Solved(n + 1)[n] = Called(n)
      OBVIOUS
    <3>1. Unfolds(Solved(n), n) /\ Called(n) = Solved(n)[n]
      BY <1>2, <1>3
    <3>2. n <= n + 1 /\ n \in 1 .. n /\ n + 1 \in Nat
      OBVIOUS
    <3>3. \A i \in 1 .. n : Solved(n)[i] = Solved(n + 1)[i]
      BY <2>1, <3>1, <3>2, UnfoldsAgree
    <3> QED
      BY <3>1, <3>2, <3>3
  <2> QED
    BY <2>1, <2>3, <2>4
<1>5. ASSUME NEW n \in Nat, Called(n) \in Seq(VerdictNames)
      PROVE  Called(n + 1) \in Seq(VerdictNames)
  <2>1. Promised!VerdictsFor(n) \in Seq(VerdictNames)
    BY RecordVerdicts
  <2>2. Called(n) \o Promised!VerdictsFor(n) \in Seq(VerdictNames)
    BY <1>5, <2>1, Joined
  <2> QED
    BY <1>4, <2>1, <2>2
<1>6. \A n \in Nat : Called(n) \in Seq(VerdictNames)
  <2> DEFINE S == {n \in Nat : Called(n) \in Seq(VerdictNames)}
  <2>1. 0 \in S
    BY <1>1
  <2>2. \A n \in Nat : n \in S => n + 1 \in S
    BY <1>5
  <2> HIDE DEF S
  <2>3. Nat \subseteq S
    BY <2>1, <2>2, InductionOnNat
  <2> QED
    BY <2>3 DEF S
<1>7. ASSUME NEW n \in Nat PROVE Called(n + 1) = Called(n) \o Promised!VerdictsFor(n)
  <2>1. CASE n # 0
    BY <1>4, <2>1
  <2>2. CASE n = 0
    <3>1. Promised!VerdictsFor(0) \in Seq(VerdictNames)
      BY RecordVerdicts
    <3> HIDE DEF Called
    <3>2. <<>> \o Promised!VerdictsFor(0) = Promised!VerdictsFor(0)
      BY <3>1
    <3> QED
      BY <1>1, <1>4, <2>2, <3>2
  <2> QED
    BY <2>1, <2>2
<1> QED
  BY <1>1, <1>6, <1>7

\* What is called for earlier stays at its place.
LEMMA CalledPrefix ==
  ASSUME NEW m \in Nat, NEW n \in Nat, m <= n
  PROVE  /\ Len(Called(m)) \in Nat /\ Len(Called(m)) <= Len(Called(n))
         /\ \A k \in 1 .. Len(Called(m)) : Called(n)[k] = Called(m)[k]
<1> DEFINE Q(d) == /\ Len(Called(m)) <= Len(Called(m + d))
                   /\ \A k \in 1 .. Len(Called(m)) : Called(m + d)[k] = Called(m)[k]
           S == {d \in Nat : Q(d)}
<1>0. ASSUME NEW d \in Nat PROVE Called(d) \in Seq(VerdictNames) /\ Len(Called(d)) \in Nat
  <2>1. Called(d) \in Seq(VerdictNames)
    BY CalledNext
  <2> QED
    BY <2>1, LengthOf
<1>1. 0 \in S
  <2>1. m + 0 = m /\ Len(Called(m)) \in Nat
    BY <1>0
  <2> QED
    BY <2>1
<1>2. ASSUME NEW d \in Nat, d \in S PROVE d + 1 \in S
  <2> DEFINE a == Called(m + d)
             b == Promised!VerdictsFor(m + d)
             c == Called(m + (d + 1))
  <2>1. c = a \o b
    <3>1. m + (d + 1) = (m + d) + 1 /\ m + d \in Nat
      OBVIOUS
    <3> QED
      BY <3>1, CalledNext
  <2>2. a \in Seq(VerdictNames) /\ b \in Seq(VerdictNames)
    BY <1>0, RecordVerdicts
  <2>3. Q(d)
    BY <1>2
  <2> HIDE DEF a, b, c
  <2>4. Len(c) = Len(a) + Len(b) /\ \A k \in 1 .. Len(a) : c[k] = a[k]
    BY <2>1, <2>2, Joined
  <2>5. Len(a) \in Nat /\ Len(b) \in Nat /\ Len(Called(m)) \in Nat
    BY <1>0, <2>2, LengthOf
  <2>6. Len(Called(m)) <= Len(a) /\ \A k \in 1 .. Len(Called(m)) : a[k] = Called(m)[k]
    BY <2>3 DEF a
  <2>7. Len(Called(m)) <= Len(c) /\ \A k \in 1 .. Len(Called(m)) : c[k] = Called(m)[k]
    BY <2>4, <2>5, <2>6
  <2>8. Q(d + 1)
    BY <2>7 DEF c
  <2> QED
    BY <2>8
<1>3. n - m \in S
  <2> HIDE DEF S
  <2>1. Nat \subseteq S
    BY <1>1, <1>2, InductionOnNat
  <2> QED
    BY <2>1
<1>4. m + (n - m) = n
  OBVIOUS
<1> QED
  BY <1>0, <1>3, <1>4

-----------------------------------------------------------------------------
(***************************************************************************)
(* How often each verdict is called for, and what the demonstration        *)
(* expects its counters to be                                              *)
(***************************************************************************)
Due(v) ==
  IF v = "accepted" THEN {"forward", "replay"}
  ELSE IF v = "AUTH_FAILED" THEN Tampering ELSE {"replay"}

\* Where a sequence has the verdict; the first records that lead to it.
Places(s, v) == {k \in Nat : s[k] = v}
Leading(v) == {i \in Nat : Planned(i - 1) \in Due(v)}

LEMMA AmongSame ==
  ASSUME NEW n, NEW S, NEW T, \A x \in 1 .. n : x \in S <=> x \in T
  PROVE  Among(n, S) = Among(n, T)
<1>1. {x \in 1 .. n : x \in S} = {x \in 1 .. n : x \in T}
  OBVIOUS
<1> QED
  BY <1>1 DEF Among

LEMMA CalledCounts ==
  ASSUME NEW n \in Nat, NEW v \in VerdictNames
  PROVE  Among(Len(Called(n)), Places(Called(n), v)) = Among(n, Leading(v))
<1> DEFINE Q(m) == Among(Len(Called(m)), Places(Called(m), v)) = Among(m, Leading(v))
           S == {m \in Nat : Q(m)}
<1>1. 0 \in S
  <2>1. Len(Called(0)) = 0
    BY CalledNext
  <2>2. Among(0, Places(Called(0), v)) = 0 /\ Among(0, Leading(v)) = 0
    BY AmongNext
  <2> QED
    BY <2>1, <2>2
<1>2. ASSUME NEW m \in Nat, m \in S PROVE m + 1 \in S
  <2> DEFINE a == Called(m)
             b == Promised!VerdictsFor(m)
             c == Called(m + 1)
             P == Places(c, v)
             l == Len(a)
  <2>1. c = a \o b /\ a \in Seq(VerdictNames) /\ b \in Seq(VerdictNames)
    BY CalledNext, RecordVerdicts
  <2>2. Among(l, Places(a, v)) = Among(m, Leading(v))
    BY <1>2
  <2>3. Among(m + 1, Leading(v)) =
          Among(m, Leading(v)) + (IF Planned(m) \in Due(v) THEN 1 ELSE 0)
    <3>1. m + 1 \in Leading(v) <=> Planned(m) \in Due(v)
      <4>1. (m + 1) - 1 = m /\ m + 1 \in Nat
        OBVIOUS
      <4> QED
        BY <4>1 DEF Leading
    <3> QED
      BY <3>1, AmongNext
  <2>4. Among(m, Leading(v)) \in Nat
    BY AmongNext
  <2>5. \/ Planned(m) = "forward" /\ Lists(b, "accepted")
        \/ Planned(m) \in Tampering /\ Lists(b, "AUTH_FAILED")
        \/ Planned(m) = "drop" /\ Len(b) = 0
        \/ /\ Planned(m) = "replay" /\ Len(b) = 2
           /\ b[1] = "accepted" /\ b[2] = "REPLAY_DETECTED"
    BY RecordVerdicts
  <2> HIDE DEF a, b, c
  <2>6. /\ Len(c) = l + Len(b) /\ l \in Nat
        /\ \A k \in 1 .. l : c[k] = a[k]
        /\ \A k \in 1 .. Len(b) : c[l + k] = b[k]
    BY <2>1, Joined, LengthOf
  <2> HIDE DEF l
  <2>7. Among(l, P) = Among(m, Leading(v))
    <3>1. \A k \in 1 .. l : k \in P <=> k \in Places(a, v)
      BY <2>6 DEF Places
    <3> QED
      BY <2>2, <3>1, AmongSame
  <2>8. Among(Len(c), P) = Among(m + 1, Leading(v))
    <3> HIDE DEF P
    <3>1. CASE Len(b) = 0
      <4>1. Len(c) = l /\ Planned(m) = "drop"
        BY <2>5, <2>6, <3>1 DEF Lists
      <4>2. "drop" \notin Due(v)
        BY DEF Due, Tampering
      <4> QED
        BY <2>3, <2>4, <2>7, <4>1, <4>2
    <3>2. CASE Len(b) = 1
      <4>1. Len(c) = l + 1 /\ c[l + 1] = b[1] /\ l + 1 \in Nat
        BY <2>6, <3>2
      <4>2. b[1] = v <=> Planned(m) \in Due(v)
        BY <2>5, <3>2 DEF Lists, Due, VerdictNames, Tampering
      <4>3. l + 1 \in P <=> Planned(m) \in Due(v)
        BY <4>1, <4>2 DEF P, Places
      <4>4. Among(l + 1, P) = Among(l, P) + (IF l + 1 \in P THEN 1 ELSE 0)
        BY <2>6, AmongNext
      <4> QED
        BY <2>3, <2>7, <4>1, <4>3, <4>4
    <3>3. CASE Len(b) = 2
      <4>1. /\ Len(c) = (l + 1) + 1 /\ c[l + 1] = b[1] /\ c[(l + 1) + 1] = b[2]
            /\ l + 1 \in Nat /\ (l + 1) + 1 \in Nat
        <5>1. 1 \in 1 .. 2 /\ 2 \in 1 .. 2 /\ l + 2 = (l + 1) + 1
          BY <2>6
        <5> QED
          BY <2>6, <3>3, <5>1
      <4>2. Planned(m) = "replay" /\ b[1] = "accepted" /\ b[2] = "REPLAY_DETECTED"
        BY <2>5, <3>3 DEF Lists
      <4>3. /\ l + 1 \in P <=> v = "accepted"
            /\ (l + 1) + 1 \in P <=> v = "REPLAY_DETECTED"
        BY <4>1, <4>2 DEF P, Places
      <4>4. Planned(m) \in Due(v) <=> v = "accepted" \/ v = "REPLAY_DETECTED"
        BY <4>2 DEF Due, VerdictNames, Tampering
      <4>5. /\ Among(l + 1, P) = Among(l, P) + (IF l + 1 \in P THEN 1 ELSE 0)
            /\ Among((l + 1) + 1, P) =
                 Among(l + 1, P) + (IF (l + 1) + 1 \in P THEN 1 ELSE 0)
        BY <2>6, <4>1, AmongNext
      <4> QED
        BY <2>3, <2>4, <2>7, <4>1, <4>3, <4>4, <4>5
    <3> QED
      BY <2>5, <3>1, <3>2, <3>3 DEF Lists
  <2>9. Q(m + 1)
    BY <2>8 DEF P, c
  <2> QED
    BY <2>9
<1> HIDE DEF S
<1>3. n \in S
  BY <1>1, <1>2, InductionOnNat
<1> QED
  BY <1>3 DEF S

\* The counts of the program, which start at record 0, are the same.
Treated(n, ways) == Cardinality({i \in 0 .. n - 1 : Planned(i) \in ways})

LEMMA TreatedNext ==
  ASSUME NEW n \in Nat, NEW ways
  PROVE  /\ Treated(n, ways) \in Nat /\ Treated(0, ways) = 0
         /\ Treated(n + 1, ways) = Treated(n, ways) + (IF Planned(n) \in ways THEN 1 ELSE 0)
<1> DEFINE A == {i \in 0 .. n - 1 : Planned(i) \in ways}
<1>1. IsFiniteSet(A)
  <2>1. IsFiniteSet(0 .. n - 1)
    BY FS_Interval
  <2> QED
    BY <2>1, FS_Subset
<1>2. Cardinality(A) \in Nat
  BY <1>1, FS_CardinalityType
<1>3. Treated(0, ways) = 0
  <2>1. {i \in 0 .. 0 - 1 : Planned(i) \in ways} = {}
    OBVIOUS
  <2> QED
    BY <2>1, FS_EmptySet DEF Treated
<1>4. 0 .. (n + 1) - 1 = (0 .. n - 1) \cup {n} /\ n \notin 0 .. n - 1
  OBVIOUS
<1>5. CASE Planned(n) \in ways
  <2>1. {i \in 0 .. (n + 1) - 1 : Planned(i) \in ways} = A \cup {n} /\ n \notin A
    BY <1>4, <1>5
  <2>2. Cardinality(A \cup {n}) = Cardinality(A) + 1
    BY <1>1, <2>1, FS_AddElement
  <2> QED
    BY <1>2, <1>3, <1>5, <2>1, <2>2 DEF Treated
<1>6. CASE Planned(n) \notin ways
  <2>1. {i \in 0 .. (n + 1) - 1 : Planned(i) \in ways} = A
    BY <1>4, <1>6
  <2> QED
    BY ONLY n \in Nat, <1>2, <1>3, <1>6, <2>1 DEF Treated
<1> QED
  BY <1>5, <1>6

LEMMA TreatedCounts ==
  ASSUME NEW n \in Nat
  PROVE  /\ n - Treated(n, Tampering \cup {"drop"}) = Among(n, Leading("accepted"))
         /\ Treated(n, Tampering) = Among(n, Leading("AUTH_FAILED"))
         /\ Treated(n, {"replay"}) = Among(n, Leading("REPLAY_DETECTED"))
<1> DEFINE Q(m) ==
             /\ m - Treated(m, Tampering \cup {"drop"}) = Among(m, Leading("accepted"))
             /\ Treated(m, Tampering) = Among(m, Leading("AUTH_FAILED"))
             /\ Treated(m, {"replay"}) = Among(m, Leading("REPLAY_DETECTED"))
           S == {m \in Nat : Q(m)}
<1>1. 0 \in S
  <2>1. \A v : Among(0, Leading(v)) = 0
    BY AmongNext
  <2>2. \A ways : Treated(0, ways) = 0
    BY TreatedNext
  <2> QED
    BY <2>1, <2>2
<1>2. ASSUME NEW m \in Nat, m \in S PROVE m + 1 \in S
  <2>1. ASSUME NEW v
        PROVE  /\ Among(m, Leading(v)) \in Nat
               /\ Among(m + 1, Leading(v)) =
                    Among(m, Leading(v)) + (IF Planned(m) \in Due(v) THEN 1 ELSE 0)
    <3>1. m + 1 \in Leading(v) <=> Planned(m) \in Due(v)
      <4>1. (m + 1) - 1 = m /\ m + 1 \in Nat
        OBVIOUS
      <4> QED
        BY <4>1 DEF Leading
    <3> QED
      BY <3>1, AmongNext
  <2>2. ASSUME NEW ways
        PROVE  /\ Treated(m, ways) \in Nat
               /\ Treated(m + 1, ways) =
                    Treated(m, ways) + (IF Planned(m) \in ways THEN 1 ELSE 0)
    BY TreatedNext
  <2>3. Planned(m) \in {"forward", "drop", "replay"} \cup Tampering
    BY RecordVerdicts
  <2>4. Planned(m) \in Due("accepted") <=> Planned(m) \notin Tampering \cup {"drop"}
    BY <2>3 DEF Due, Tampering
  <2>5. Due("AUTH_FAILED") = Tampering /\ Due("REPLAY_DETECTED") = {"replay"}
    BY DEF Due
  <2>6. Q(m)
    BY <1>2
  <2> DEFINE x == Treated(m, Tampering \cup {"drop"})
             y == Treated(m + 1, Tampering \cup {"drop"})
             d == IF Planned(m) \in Tampering \cup {"drop"} THEN 1 ELSE 0
  <2>7. (m + 1) - y = Among(m + 1, Leading("accepted"))
    <3>1. x \in Nat /\ y = x + d
      BY <2>2
    <3>2. Among(m + 1, Leading("accepted")) = Among(m, Leading("accepted")) + (1 - d)
      BY <2>1, <2>4
    <3>3. m - x = Among(m, Leading("accepted")) /\ d \in {0, 1}
      BY <2>6
    <3> HIDE DEF x, y, d
    <3> QED
      BY <3>1, <3>2, <3>3
  <2>8. Treated(m + 1, Tampering) = Among(m + 1, Leading("AUTH_FAILED"))
    BY <2>1, <2>2, <2>5, <2>6
  <2>9. Treated(m + 1, {"replay"}) = Among(m + 1, Leading("REPLAY_DETECTED"))
    BY <2>1, <2>2, <2>5, <2>6
  <2> QED
    BY <2>7, <2>8, <2>9
<1> HIDE DEF S
<1>3. n \in S
  BY <1>1, <1>2, InductionOnNat
<1> QED
  BY <1>3 DEF S

-----------------------------------------------------------------------------
(***************************************************************************)
(* A connection and the pieces collected behind it: the pieces of frames   *)
(* first, first + 1, ... in order, up to part pieces of frame last         *)
(***************************************************************************)
Begin(s) == s * FrameUnits

AnyPiece == [frame : [seq : Int, intact : BOOLEAN], n : Nat]

Flows(got, line, frames, first, last, part) ==
  /\ Len(got) < FrameUnits
  /\ Len(got) > 0 => first \in DOMAIN frames
  /\ \A j \in 1 .. Len(got) : got[j] = Piece(frames[first], j)
  /\ \A j \in 1 .. Len(line) : \E s \in DOMAIN frames, n \in 1 .. FrameUnits :
       line[j] = Piece(frames[s], n) /\ Begin(s) + n = Begin(first) + Len(got) + j
  /\ Begin(last) + part = Begin(first) + Len(got) + Len(line)

LEMMA Units == FrameUnits \in Nat /\ FrameUnits > 1
OBVIOUS

LEMMA BeginFacts ==
  ASSUME NEW s \in Nat, NEW t \in Nat
  PROVE  /\ Begin(s) \in Nat /\ Begin(s + 1) = Begin(s) + FrameUnits
         /\ s < t => Begin(s) + FrameUnits <= Begin(t)
<1>1. Begin(s) \in Nat /\ Begin(t) \in Nat /\ Begin(s + 1) = Begin(s) + FrameUnits
  BY Units DEF Begin
<1>2. ASSUME s < t PROVE Begin(s) + FrameUnits <= Begin(t)
  <2>1. t = s + (t - s) /\ t - s \in Nat /\ t - s >= 1
    BY <1>2
  <2>2. \A d \in Nat : d >= 1 => FrameUnits <= d * FrameUnits
    BY Units
  <2>3. t * FrameUnits = s * FrameUnits + (t - s) * FrameUnits
    BY ONLY <2>1, Units, s \in Nat, t \in Nat
  <2>4. FrameUnits <= (t - s) * FrameUnits /\ (t - s) * FrameUnits \in Nat
    BY <2>1, <2>2, Units
  <2>5. s * FrameUnits \in Nat
    BY Units
  <2> QED
    BY <2>3, <2>4, <2>5, Units DEF Begin
<1> QED
  BY <1>1, <1>2

\* A position belongs to one piece of one frame.
LEMMA OnePiece ==
  ASSUME NEW s \in Nat, NEW t \in Nat, NEW n \in 1 .. FrameUnits, NEW m \in 1 .. FrameUnits,
         Begin(s) + n = Begin(t) + m
  PROVE  s = t /\ n = m
<1>1. Begin(s) \in Nat /\ Begin(t) \in Nat
  BY BeginFacts
<1>2. ~ (s < t)
  <2>1. s < t => Begin(s) + FrameUnits <= Begin(t)
    BY BeginFacts
  <2> QED
    BY <1>1, <2>1, Units
<1>3. ~ (t < s)
  <2>1. t < s => Begin(t) + FrameUnits <= Begin(s)
    BY BeginFacts
  <2> QED
    BY <1>1, <2>1, Units
<1>4. s = t
  BY <1>2, <1>3
<1> QED
  BY <1>1, <1>4, Units

\* Nothing has flowed beyond what was written.
LEMMA FlowsForward ==
  ASSUME NEW got \in Seq(AnyPiece), NEW line \in Seq(AnyPiece), NEW frames,
         NEW first \in Nat, NEW last \in Nat, NEW part \in 0 .. FrameUnits - 1,
         Flows(got, line, frames, first, last, part)
  PROVE  /\ first <= last
         /\ first = last => Len(got) + Len(line) = part
         /\ part = 0 /\ Len(line) = 0 => Len(got) = 0 /\ first = last
<1>1. /\ Begin(first) \in Nat /\ Begin(last) \in Nat /\ Len(got) \in Nat /\ Len(line) \in Nat
      /\ Begin(last) + part = Begin(first) + Len(got) + Len(line) /\ Len(got) < FrameUnits
  BY BeginFacts, LengthOf DEF Flows
<1>2. first <= last
  <2>1. last < first => Begin(last) + FrameUnits <= Begin(first)
    BY BeginFacts
  <2> QED
    BY <1>1, <2>1, Units
<1>3. first < last => Begin(first) + FrameUnits <= Begin(last)
  BY BeginFacts
<1>4. part = 0 /\ Len(line) = 0 => first = last
  BY <1>1, <1>2, <1>3, Units
<1>5. first = last => Begin(first) = Begin(last)
  OBVIOUS
<1> DEFINE b == Begin(first)
           e == Begin(last)
           g == Len(got)
           l == Len(line)
<1>6. /\ b \in Nat /\ e \in Nat /\ g \in Nat /\ l \in Nat
      /\ e + part = b + g + l /\ g < FrameUnits /\ (first = last => b = e)
      /\ part = 0 /\ l = 0 => first = last
  BY <1>1, <1>4, <1>5
<1> HIDE DEF b, e, g, l
<1>7. (first = last => g + l = part) /\ (part = 0 /\ l = 0 => g = 0)
  <2>1. part \in Nat
    BY Units
  <2> QED
    BY ONLY <1>6, <2>1
<1> QED
  BY <1>2, <1>4, <1>7 DEF g, l

\* sendall writes the next piece.
LEMMA PieceWritten ==
  ASSUME NEW got \in Seq(AnyPiece), NEW line \in Seq(AnyPiece), NEW frames,
         DOMAIN frames \subseteq Nat,
         NEW first \in Nat, NEW last \in DOMAIN frames, NEW part \in 0 .. FrameUnits - 1,
         Flows(got, line, frames, first, last, part),
         NEW p \in AnyPiece, p = Piece(frames[last], part + 1)
  PROVE  Flows(got, Append(line, p), frames, first,
               IF part + 1 = FrameUnits THEN last + 1 ELSE last, (part + 1) % FrameUnits)
<1> DEFINE b == Begin(first)
           l == Len(line)
           g == Len(got)
<1>1. b \in Nat /\ Begin(last) \in Nat /\ l \in Nat /\ g \in Nat /\ last \in Nat
  BY BeginFacts, LengthOf
<1>2. Begin(last) + part = b + g + l
  BY DEF Flows
<1> HIDE DEF b, l, g
<1>3. /\ Len(Append(line, p)) = l + 1
      /\ \A j \in 1 .. l : Append(line, p)[j] = line[j]
      /\ Append(line, p)[l + 1] = p
  BY DEF l
<1>4. ASSUME NEW j \in 1 .. l + 1
      PROVE  \E s \in DOMAIN frames, n \in 1 .. FrameUnits :
               Append(line, p)[j] = Piece(frames[s], n) /\ Begin(s) + n = b + g + j
  <2>1. CASE j = l + 1
    <3>1. part + 1 \in 1 .. FrameUnits /\ Begin(last) + (part + 1) = b + g + j
      BY <1>1, <1>2, <2>1, Units
    <3> QED
      BY <1>3, <2>1, <3>1
  <2>2. CASE j # l + 1
    <3>1. j \in 1 .. l
      BY <1>1, <2>2
    <3> QED
      BY <1>3, <3>1 DEF Flows, l, b, g
  <2> QED
    BY <2>1, <2>2
<1>5. CASE part + 1 = FrameUnits
  <2>1. (part + 1) % FrameUnits = 0
    BY <1>5, Units
  <2>2. Begin(last + 1) = Begin(last) + FrameUnits
    BY <1>1, BeginFacts
  <2>3. Begin(last + 1) + 0 = b + g + (l + 1)
    <3>1. part \in Int
      BY Units
    <3> QED
      BY ONLY <1>1, <1>2, <1>5, <2>2, <3>1, Units
  <2>4. Len(got) < FrameUnits /\ (Len(got) > 0 => first \in DOMAIN frames)
        /\ \A j \in 1 .. Len(got) : got[j] = Piece(frames[first], j)
    BY DEF Flows
  <2>5. \A j \in 1 .. Len(Append(line, p)) : \E s \in DOMAIN frames, n \in 1 .. FrameUnits :
          Append(line, p)[j] = Piece(frames[s], n) /\ Begin(s) + n = b + g + j
    BY <1>3, <1>4
  <2>6. Flows(got, Append(line, p), frames, first, last + 1, 0)
    BY <1>3, <2>3, <2>4, <2>5 DEF Flows, b, g
  <2> QED
    BY <1>5, <2>1, <2>6
<1>6. CASE part + 1 # FrameUnits
  <2>1. (part + 1) % FrameUnits = part + 1
    BY <1>6, Units, SMTT(30)
  <2>2. Begin(last) + (part + 1) = b + g + (l + 1)
    BY <1>1, <1>2
  <2> QED
    BY <1>3, <1>4, <1>6, <2>1, <2>2 DEF Flows, b, g
<1> QED
  BY <1>5, <1>6

\* recv_exact takes the next piece, and it is the next of the frame it collects.
LEMMA PieceTaken ==
  ASSUME NEW got \in Seq(AnyPiece), NEW line \in Seq(AnyPiece), line # <<>>, NEW frames,
         DOMAIN frames \subseteq Nat,
         NEW first \in Nat, NEW last \in Nat, NEW part \in Nat,
         Flows(got, line, frames, first, last, part)
  PROVE  /\ first \in DOMAIN frames
         /\ Head(line) = Piece(frames[first], Len(got) + 1)
         /\ Append(got, Head(line)) \in Seq(AnyPiece) /\ Tail(line) \in Seq(AnyPiece)
         /\ Len(got) + 1 < FrameUnits =>
              Flows(Append(got, Head(line)), Tail(line), frames, first, last, part)
         /\ Len(got) + 1 = FrameUnits =>
              /\ Flows(<<>>, Tail(line), frames, first + 1, last, part)
              /\ Assembled(Append(got, Head(line))) = frames[first]
<1> DEFINE b == Begin(first)
           l == Len(line)
           g == Len(got)
           h == Head(line)
           ng == Append(got, h)
           nl == Tail(line)
<1>1. b \in Nat /\ Begin(last) \in Nat /\ l \in Nat \ {0} /\ g \in Nat /\ g < FrameUnits
  BY BeginFacts, LengthOf DEF Flows
<1>2. /\ h = line[1] /\ h \in AnyPiece /\ nl \in Seq(AnyPiece) /\ ng \in Seq(AnyPiece)
      /\ Len(nl) = l - 1 /\ \A j \in 1 .. l - 1 : nl[j] = line[j + 1]
      /\ Len(ng) = g + 1 /\ ng[g + 1] = h /\ \A j \in 1 .. g : ng[j] = got[j]
      /\ DOMAIN ng = 1 .. g + 1
  OBVIOUS
<1>3. Begin(last) + part = b + g + l
  BY DEF Flows
<1>4. \A j \in 1 .. l : \E s \in DOMAIN frames, n \in 1 .. FrameUnits :
        line[j] = Piece(frames[s], n) /\ Begin(s) + n = b + g + j
  BY DEF Flows
<1>5. \A j \in 1 .. g : got[j] = Piece(frames[first], j)
  BY DEF Flows
<1> HIDE DEF b, l, g, h, ng, nl
<1>6. first \in DOMAIN frames /\ h = Piece(frames[first], g + 1)
  <2>1. PICK s \in DOMAIN frames, n \in 1 .. FrameUnits :
          line[1] = Piece(frames[s], n) /\ Begin(s) + n = b + g + 1
    BY <1>1, <1>4
  <2>2. g + 1 \in 1 .. FrameUnits /\ s \in Nat /\ Begin(s) + n = Begin(first) + (g + 1)
    BY <1>1, <2>1, Units DEF b
  <2>3. s = first /\ n = g + 1
    BY <2>2, OnePiece
  <2> QED
    BY <1>2, <2>1, <2>3
<1>7. \A j \in 1 .. g + 1 : ng[j] = Piece(frames[first], j)
  BY <1>1, <1>2, <1>5, <1>6, SMTT(30)
<1>8. ASSUME NEW j \in 1 .. l - 1
      PROVE  \E s \in DOMAIN frames, n \in 1 .. FrameUnits :
               nl[j] = Piece(frames[s], n) /\ Begin(s) + n = b + (g + 1) + j
  <2>1. j + 1 \in 1 .. l /\ nl[j] = line[j + 1] /\ b + g + (j + 1) = b + (g + 1) + j
    BY <1>1, <1>2
  <2> QED
    BY <1>4, <2>1
<1>9. ASSUME g + 1 < FrameUnits PROVE Flows(ng, nl, frames, first, last, part)
  <2>1. Begin(last) + part = b + (g + 1) + (l - 1)
    BY <1>1, <1>3
  <2> QED
    BY <1>2, <1>6, <1>7, <1>8, <1>9, <2>1 DEF Flows, b
<1>10. ASSUME g + 1 = FrameUnits
       PROVE  Flows(<<>>, nl, frames, first + 1, last, part) /\ Assembled(ng) = frames[first]
  <2>1. Begin(first + 1) = b + (g + 1)
    BY <1>10, BeginFacts DEF b
  <2>2. Len(<<>>) = 0 /\ 0 < FrameUnits
    BY Units
  <2>3. ASSUME NEW j \in 1 .. l - 1
        PROVE  \E s \in DOMAIN frames, n \in 1 .. FrameUnits :
                 nl[j] = Piece(frames[s], n) /\ Begin(s) + n = Begin(first + 1) + 0 + j
    <3>1. Begin(first + 1) + 0 + j = b + (g + 1) + j
      BY <1>1, <2>1
    <3> QED
      BY <1>8, <3>1
  <2>4. Begin(last) + part = Begin(first + 1) + 0 + (l - 1)
    BY <1>1, <1>3, <2>1
  <2>5. Flows(<<>>, nl, frames, first + 1, last, part)
    BY <1>2, <2>2, <2>3, <2>4 DEF Flows
  <2>6. ng[1] = Piece(frames[first], 1) /\ ng[1].frame = frames[first]
    BY <1>1, <1>7 DEF Piece
  <2>7. ng = [n \in 1 .. FrameUnits |-> Piece(ng[1].frame, n)]
    <3>1. ng = [n \in 1 .. g + 1 |-> ng[n]]
      BY <1>2
    <3>2. \A n \in 1 .. FrameUnits : ng[n] = Piece(ng[1].frame, n)
      BY <1>7, <1>10, <2>6
    <3> QED
      BY <1>10, <3>1, <3>2
  <2> QED
    BY <2>5, <2>6, <2>7 DEF Assembled
<1> QED
  BY <1>2, <1>6, <1>9, <1>10 DEF g, h, ng, nl

\* Frames that are added behind leave what has flowed alone.
LEMMA FlowsExtended ==
  ASSUME NEW got, NEW line, NEW frames, NEW more, NEW first, NEW last, NEW part,
         DOMAIN frames \subseteq DOMAIN more, \A s \in DOMAIN frames : more[s] = frames[s],
         Flows(got, line, frames, first, last, part)
  PROVE  Flows(got, line, more, first, last, part)
<1>1. Len(got) > 0 => first \in DOMAIN more /\ more[first] = frames[first]
  BY DEF Flows
<1>2. \A j \in 1 .. Len(line) : \E s \in DOMAIN more, n \in 1 .. FrameUnits :
        line[j] = Piece(more[s], n) /\ Begin(s) + n = Begin(first) + Len(got) + j
  BY DEF Flows
<1> QED
  BY <1>1, <1>2 DEF Flows

-----------------------------------------------------------------------------
(***************************************************************************)
(* The inductive invariant                                                 *)
(***************************************************************************)
\* The actor's log, continued by what it has still to send for the record at hand.
Count == Len(actions) + Len(out)
Entry(k) == IF k <= Len(actions) THEN actions[k] ELSE out[k - Len(actions)].entry

\* What an entry put on the wire.
FrameOf(entry) == Frame(entry[1], entry[2] \notin Tampering)

\* What the receiver has said, the verdict about to be logged included.
Said == IF pending = "none" THEN verdicts ELSE Append(verdicts, pending)

UpFrames == [s \in Nat |-> Frame(s, TRUE)]
DownFrames == [s \in 0 .. Count - 1 |-> FrameOf(Entry(s + 1))]

\* Frames the actor has written whole.
Sent == Len(actions) + (IF actor = "logging" THEN 1 ELSE 0)

\* The records there are to send.
Total == IF records < 0 THEN 0 ELSE records

Past == {"joining receiver", "joining actor", "judging", "judging rejections", "done", "exited"}
Over == {"done", "exited"}
Broken == {"raising", "raised"}

AnyFrame == [seq : Int, intact : BOOLEAN]
AnyEntry == Nat \X ({"forward", "replay"} \cup Tampering)
Counters == {"accepted", "MALFORMED", "AUTH_FAILED", "REPLAY_DETECTED", "STALE_RECORD"}

TypeOK ==
  /\ records \in Int /\ slow \in BOOLEAN
  /\ main \in Past \cup {"connecting", "sending"} \cup Broken
  /\ next \in Nat /\ written \in 0 .. FrameUnits - 1 /\ up \in Seq(AnyPiece)
  /\ result \in {"none", "PASS", "FAIL"}
  /\ actor \in Gone \cup {"accepting", "relaying", "logging"}
  /\ upGot \in Seq(AnyPiece) /\ index \in Nat
  /\ out \in Seq([frame : AnyFrame, entry : AnyEntry])
  /\ relayed \in 0 .. FrameUnits - 1 /\ captured \in Int
  /\ actions \in Seq(AnyEntry) /\ down \in Seq(AnyPiece)
  /\ downState \in {"unopened", "open", "closed"}
  /\ receiver \in Gone \cup {"accepting", "reading", "logging"}
  /\ downGot \in Seq(AnyPiece) /\ window \in Window
  /\ stats \in [Counters -> Nat]
  /\ pending \in VerdictNames \cup {"none"} /\ verdicts \in Seq(VerdictNames)

\* The connection from the sender carries the records from the actor's next one on.
UpStream ==
  /\ Flows(upGot, up, UpFrames, index, next, written)
  /\ next <= Total
  /\ next = Total => written = 0
  /\ next <= RecordLimit

\* The one to the receiver carries the frames of the log it has not yet judged.
DownStream ==
  /\ Flows(downGot, down, DownFrames, Len(Said), Sent, relayed)
  /\ actor = "logging" => out # <<>> /\ relayed = 0
  /\ relayed > 0 => out # <<>>

\* The log is the plan's: new records come in order, replays repeat a record still in
\* the window, and the answers due are those called for so far.
LogPlanned ==
  /\ \A k \in 1 .. Count :
       /\ Entry(k)[1] < index
       /\ Entry(k)[2] # "replay" => \A j \in 1 .. k - 1 : Entry(j)[1] < Entry(k)[1]
       /\ Entry(k)[2] = "replay" =>
            /\ \E j \in 1 .. k - 1 : Entry(j) = <<Entry(k)[1], "forward">>
            /\ \A j \in 1 .. k - 1 : Entry(j)[1] - Entry(k)[1] < WindowSize
  /\ captured >= 0 => \E k \in 1 .. Count : Entry(k) = <<captured, "forward">>
  /\ captured < 0 => \A i \in 0 .. index - 1 : Planned(i) # "forward"
  /\ \A j \in 1 .. Len(out) : out[j].frame = FrameOf(out[j].entry)
  /\ Count = Len(Called(index))
  /\ \A k \in 1 .. Count : AnswerTo(Entry(k)[2]) = Called(index)[k]

\* The receiver has given the answers due, its window knows the records it accepted,
\* its counters count what it said.
Heard ==
  /\ Len(Said) <= Count
  /\ \A k \in 1 .. Len(Said) : Said[k] = AnswerTo(Entry(k)[2])
  /\ \A k \in 1 .. Len(Said) : Entry(k)[2] = "forward" =>
       /\ Entry(k)[1] <= window.highest
       /\ window.highest - Entry(k)[1] < WindowSize =>
            window.highest - Entry(k)[1] \in window.bitmap
  /\ \/ window.highest = -1
     \/ \E k \in 1 .. Len(Said) : Entry(k) = <<window.highest, "forward">>
  /\ \A v \in VerdictNames : stats[v] = Among(Len(Said), Places(Said, v))
  /\ stats["MALFORMED"] = 0 /\ stats["STALE_RECORD"] = 0

\* How far the threads are, relative to each other.
Control ==
  /\ upOpen <=> main = "sending"
  /\ main = "connecting" => actor \in {"accepting", "died"}
  /\ actor = "accepting" => downState = "unopened"
  /\ downState = "open" <=> actor \in {"relaying", "logging"}
  /\ main \in Past => next = Total
  /\ actor = "returned" =>
       /\ out = <<>>
       /\ main \in Broken \/ (main \in Past /\ index = Total /\ upGot = <<>>)
  /\ receiver = "returned" =>
       /\ actor \in Gone
       /\ actor = "returned" => Len(Said) = Count /\ downGot = <<>>
  /\ pending = "none" <=> receiver # "logging"
  /\ result = "none" <=> main \notin Over

\* The judgement, and a run without long waits.
Judgement ==
  /\ main = "judging rejections" =>
       records >= 0 /\ stats["accepted"] >= Among(Total, Leading("accepted"))
  /\ result = "PASS" =>
       records >= 0 /\ \A v \in VerdictNames : stats[v] = Among(Total, Leading(v))
  /\ ~ slow =>
       /\ actor # "died" /\ receiver # "died"
       /\ main \in Broken => records > RecordLimit
       /\ main \in Past \ {"joining receiver"} => receiver = "returned"
       /\ main \in Over /\ records >= 0 => result = "PASS"

DemoInv ==
  /\ TypeOK
  /\ UpStream
  /\ DownStream
  /\ LogPlanned
  /\ Heard
  /\ Control
  /\ Judgement

-----------------------------------------------------------------------------
(***************************************************************************)
(* The initial states, and what a step leaves alone                        *)
(***************************************************************************)
LEMMA TotalFacts ==
  /\ records \in Int => Total \in Nat
  /\ records \in Nat => Total = records
BY DEF Total

LEMMA TotalKept == ASSUME UNCHANGED records PROVE Total' = Total
BY DEF Total

LEMMA EmptyFlows ==
  ASSUME NEW frames
  PROVE  Flows(<<>>, <<>>, frames, 0, 0, 0)
BY Units DEF Flows, Begin

LEMMA InitDemo == Init => DemoInv
<1> SUFFICES ASSUME Init PROVE DemoInv
  OBVIOUS
<1>1. /\ records \in RecordCounts /\ slow \in BOOLEAN
      /\ main = "connecting" /\ next = 0 /\ written = 0 /\ up = <<>> /\ upOpen = FALSE
      /\ result = "none" /\ actor = "accepting" /\ upGot = <<>> /\ index = 0 /\ out = <<>>
      /\ relayed = 0 /\ captured = -1 /\ actions = <<>> /\ down = <<>>
      /\ downState = "unopened" /\ receiver = "accepting" /\ downGot = <<>>
      /\ window = EmptyWindow /\ pending = "none" /\ verdicts = <<>>
      /\ stats = [accepted |-> 0, MALFORMED |-> 0, AUTH_FAILED |-> 0, REPLAY_DETECTED |-> 0,
                  STALE_RECORD |-> 0]
  BY DEF Init
<1>2. stats \in [Counters -> Nat] /\ \A c \in Counters : stats[c] = 0
  BY <1>1 DEF Counters
<1>3. TypeOK
  <2>1. window \in Window
    BY <1>1 DEF EmptyWindow, Window
  <2>2. 0 \in 0 .. FrameUnits - 1 /\ records \in Int
    BY <1>1, Units
  <2>3. /\ main \in Past \cup {"connecting", "sending"} \cup Broken
        /\ actor \in Gone \cup {"accepting", "relaying", "logging"}
        /\ receiver \in Gone \cup {"accepting", "reading", "logging"}
        /\ pending \in VerdictNames \cup {"none"}
    BY <1>1
  <2>4. \A S : <<>> \in Seq(S)
    OBVIOUS
  <2> QED
    BY <1>1, <1>2, <2>1, <2>2, <2>3, <2>4 DEF TypeOK
<1>4. Count = 0 /\ Said = <<>> /\ Len(Said) = 0 /\ Sent = 0
  BY <1>1 DEF Count, Said, Sent
<1>5. UpStream /\ DownStream
  <2>1. 0 <= Total /\ 0 <= RecordLimit
    BY <1>3, TotalFacts DEF TypeOK
  <2> QED
    BY <1>1, <1>2, <1>4, <2>1, EmptyFlows DEF UpStream, DownStream
<1>6. LogPlanned
  BY <1>1, <1>4, CalledNext DEF LogPlanned
<1>7. Heard
  <2>1. \A v \in VerdictNames : stats[v] = 0 /\ Among(0, Places(Said, v)) = 0
    BY <1>2, AmongNext DEF VerdictNames, Counters
  <2> QED
    BY <1>1, <1>2, <1>4, <2>1 DEF Heard, EmptyWindow, Counters
<1>8. Control /\ Judgement
  BY <1>1, <1>4 DEF Control, Judgement, Past, Over, Broken, Gone
<1> QED
  BY <1>3, <1>5, <1>6, <1>7, <1>8 DEF DemoInv

LEMMA EntriesKept ==
  ASSUME UNCHANGED <<actions, out>>
  PROVE  Count' = Count /\ DownFrames' = DownFrames /\ \A k : Entry(k)' = Entry(k)
<1>1. Count' = Count /\ \A k : Entry(k)' = Entry(k)
  BY DEF Count, Entry
<1> QED
  BY <1>1 DEF DownFrames

LEMMA UpKept ==
  ASSUME UpStream, UNCHANGED <<upGot, up, index, next, written, records>>
  PROVE  UpStream'
BY TotalKept DEF UpStream, UpFrames

LEMMA DownKept ==
  ASSUME DownStream, UNCHANGED <<downGot, down, actions, out, verdicts, pending, relayed>>,
         actor' = "logging" <=> actor = "logging"
  PROVE  DownStream'
<1>1. DownFrames' = DownFrames /\ Said' = Said /\ Sent' = Sent
  BY EntriesKept DEF Said, Sent
<1> QED
  BY <1>1 DEF DownStream

LEMMA LogKept ==
  ASSUME LogPlanned, UNCHANGED <<actions, out, index, captured>>
  PROVE  LogPlanned'
<1>1. Count' = Count /\ \A k : Entry(k)' = Entry(k)
  BY EntriesKept
<1>2. Called(index)' = Called(index)
  BY DEF Called
<1> HIDE DEF Called
<1> QED
  BY <1>1, <1>2 DEF LogPlanned

LEMMA HeardKept ==
  ASSUME Heard, UNCHANGED <<actions, out, verdicts, pending, window, stats>>
  PROVE  Heard'
<1>1. Count' = Count /\ Said' = Said /\ \A k : Entry(k)' = Entry(k)
  BY EntriesKept DEF Said
<1> QED
  BY <1>1 DEF Heard

\* The steps of the main thread leave the log and the second connection alone.
LEMMA MainLeaves ==
  ASSUME DemoInv, UNCHANGED <<actorVars, receiverVars>>
  PROVE  /\ DownStream' /\ LogPlanned' /\ Heard'
         /\ Count' = Count /\ Said' = Said
         /\ UNCHANGED <<actor, upGot, index, out, relayed, captured, actions, down, downState,
                        receiver, downGot, window, stats, pending, verdicts>>
<1>1. UNCHANGED <<actor, upGot, index, out, relayed, captured, actions, down, downState,
                  receiver, downGot, window, stats, pending, verdicts>>
  BY DEF actorVars, receiverVars
<1>2. Count' = Count /\ Said' = Said
  BY <1>1 DEF Count, Said
<1> QED
  BY <1>1, <1>2, DownKept, LogKept, HeardKept DEF DemoInv

-----------------------------------------------------------------------------
(***************************************************************************)
(* What the counters say                                                   *)
(***************************************************************************)
\* The records the actor is at are among those sent, and those are among all.
LEMMA InOrder ==
  ASSUME DemoInv
  PROVE  index <= next /\ next <= Total /\ index \in Nat /\ Total \in Nat /\ next \in Nat
<1>1. /\ upGot \in Seq(AnyPiece) /\ up \in Seq(AnyPiece) /\ index \in Nat /\ next \in Nat
      /\ written \in 0 .. FrameUnits - 1 /\ Total \in Nat
      /\ Flows(upGot, up, UpFrames, index, next, written) /\ next <= Total
  BY TotalFacts DEF DemoInv, TypeOK, UpStream
<1> QED
  BY <1>1, FlowsForward

\* What the receiver says is what is called for, as far as it has come.
LEMMA SaidIsCalled ==
  ASSUME DemoInv
  PROVE  /\ Len(Said) \in Nat /\ Said \in Seq(VerdictNames)
         /\ Len(Said) <= Count /\ Count = Len(Called(index))
         /\ Count <= Len(Called(Total)) /\ Len(Called(Total)) \in Nat /\ Count \in Nat
         /\ \A k \in 1 .. Len(Said) : Said[k] = Called(Total)[k]
<1>1. index \in Nat /\ Total \in Nat /\ index <= Total
  BY InOrder
<1>2. Said \in Seq(VerdictNames)
  BY DEF DemoInv, TypeOK, Said
<1>3. /\ Len(Called(index)) \in Nat /\ Len(Called(index)) <= Len(Called(Total))
      /\ \A k \in 1 .. Len(Called(index)) : Called(Total)[k] = Called(index)[k]
  BY <1>1, CalledPrefix
<1>4. Len(Called(Total)) \in Nat
  BY <1>1, CalledPrefix
<1>5. Count = Len(Called(index)) /\ Len(Said) <= Count
  BY DEF DemoInv, LogPlanned, Heard
<1>6. ASSUME NEW k \in 1 .. Len(Said) PROVE Said[k] = Called(Total)[k]
  <2>1. k \in 1 .. Count /\ Len(Said) \in Nat
    BY <1>2, <1>3, <1>5
  <2>2. Said[k] = AnswerTo(Entry(k)[2])
    BY DEF DemoInv, Heard
  <2>3. AnswerTo(Entry(k)[2]) = Called(index)[k]
    BY <2>1 DEF DemoInv, LogPlanned
  <2> QED
    BY <1>3, <1>5, <2>1, <2>2, <2>3
<1>7. Len(Said) \in Nat
  BY <1>2
<1> QED
  BY <1>2, <1>3, <1>4, <1>5, <1>6, <1>7

\* No counter exceeds what is expected of it, and they reach it together exactly
\* when everything called for has been said.
LEMMA CountersBound ==
  ASSUME DemoInv
  PROVE  /\ \A v \in VerdictNames :
              /\ stats[v] \in Nat /\ Among(Total, Leading(v)) \in Nat
              /\ stats[v] <= Among(Total, Leading(v))
         /\ (\A v \in VerdictNames : stats[v] = Among(Total, Leading(v)))
              <=> Len(Said) = Len(Called(Total))
<1> DEFINE C == Called(Total)
           m == Len(Said)
           n == Len(C)
<1>1. /\ m \in Nat /\ n \in Nat /\ m <= n /\ \A k \in 1 .. m : Said[k] = C[k]
      /\ Total \in Nat
  BY SaidIsCalled, InOrder
<1>2. C \in Seq(VerdictNames)
  BY <1>1, CalledNext
<1>3. ASSUME NEW v \in VerdictNames
      PROVE  /\ stats[v] = Among(m, Places(C, v))
             /\ Among(Total, Leading(v)) = Among(n, Places(C, v))
  <2>1. stats[v] = Among(m, Places(Said, v))
    BY DEF DemoInv, Heard
  <2>2. \A k \in 1 .. m : k \in Places(Said, v) <=> k \in Places(C, v)
    <3> HIDE DEF C, m
    <3> QED
      BY <1>1 DEF Places
  <2>3. Among(m, Places(Said, v)) = Among(m, Places(C, v))
    <3> HIDE DEF C, m
    <3> QED
      BY <2>2, AmongSame
  <2>4. Among(n, Places(C, v)) = Among(Total, Leading(v))
    BY <1>1, CalledCounts
  <2> QED
    BY <2>1, <2>3, <2>4
<1> HIDE DEF C, m, n
<1>4. ASSUME NEW v \in VerdictNames
      PROVE  /\ Among(m, Places(C, v)) \in Nat /\ Among(n, Places(C, v)) \in Nat
             /\ Among(m, Places(C, v)) <= Among(n, Places(C, v))
             /\ \A k \in m + 1 .. n : k \in Places(C, v) =>
                  Among(m, Places(C, v)) < Among(n, Places(C, v))
  <2>1. Among(m, Places(C, v)) \in Nat /\ Among(n, Places(C, v)) \in Nat
    BY <1>1, AmongNext
  <2> QED
    BY <1>1, <2>1, AmongGrows
<1>5. ASSUME \A v \in VerdictNames : stats[v] = Among(Total, Leading(v)), m # n
      PROVE  FALSE
  <2>1. m + 1 \in 1 .. n /\ m + 1 \in m + 1 .. n /\ m + 1 \in Nat
    BY <1>1, <1>5
  <2>2. C[m + 1] \in VerdictNames
    BY <1>2, <2>1 DEF n
  <2> DEFINE v == C[m + 1]
  <2>3. m + 1 \in Places(C, v)
    BY <2>1 DEF Places
  <2>4. v \in VerdictNames
    BY <2>2
  <2> HIDE DEF v
  <2>5. Among(m, Places(C, v)) < Among(n, Places(C, v))
    BY <1>4, <2>1, <2>3, <2>4
  <2>6. Among(m, Places(C, v)) = Among(n, Places(C, v))
    BY <1>3, <1>5, <2>4
  <2>7. Among(m, Places(C, v)) \in Nat
    BY <1>4, <2>4
  <2> QED
    BY <2>5, <2>6, <2>7
<1>6. m = n => \A v \in VerdictNames : stats[v] = Among(Total, Leading(v))
  BY <1>3
<1>7. \A v \in VerdictNames :
        /\ stats[v] \in Nat /\ Among(Total, Leading(v)) \in Nat
        /\ stats[v] <= Among(Total, Leading(v))
  BY <1>3, <1>4
<1> QED
  BY <1>5, <1>6, <1>7 DEF m, n, C

LEMMA ExpectedCounts ==
  ASSUME records \in Nat
  PROVE  /\ DOMAIN Expected = Counters
         /\ \A v \in VerdictNames : Expected[v] = Among(Total, Leading(v))
         /\ Expected["MALFORMED"] = 0 /\ Expected["STALE_RECORD"] = 0
<1>1. /\ Expected["accepted"] = records - Treated(records, Tampering \cup {"drop"})
      /\ Expected["AUTH_FAILED"] = Treated(records, Tampering)
      /\ Expected["REPLAY_DETECTED"] = Treated(records, {"replay"})
      /\ Expected["MALFORMED"] = 0 /\ Expected["STALE_RECORD"] = 0
      /\ DOMAIN Expected = Counters
  BY DEF Expected, PlannedAs, Treated, Counters
<1> QED
  BY <1>1, TreatedCounts, TotalFacts DEF VerdictNames

\* With a negative count fewer than none are expected.
LEMMA NoneExpected ==
  ASSUME records \in Int, records < 0
  PROVE  Expected["accepted"] = records
<1>1. \A ways : PlannedAs(ways) = {}
  BY DEF PlannedAs
<1>2. Cardinality({}) = 0
  BY FS_EmptySet
<1> QED
  BY <1>1, <1>2 DEF Expected

-----------------------------------------------------------------------------
(***************************************************************************)
(* The steps of the main thread                                            *)
(***************************************************************************)
\* A step that is about main alone.
LEMMA MainOnly ==
  ASSUME DemoInv,
         UNCHANGED <<records, slow, next, written, up, actorVars, receiverVars>>,
         main' \in Past \cup {"sending"} \cup Broken, result' \in {"none", "PASS", "FAIL"},
         upOpen' <=> main' = "sending", main' \in Past => next = Total,
         main \in Past => main' \in Past, main \in Broken => main' \in Broken,
         result' = "none" <=> main' \notin Over,
         Judgement'
  PROVE  DemoInv'
<1>1. /\ DownStream' /\ LogPlanned' /\ Heard' /\ Count' = Count /\ Said' = Said
      /\ UNCHANGED <<actor, upGot, index, out, relayed, captured, actions, down, downState,
                     receiver, downGot, window, stats, pending, verdicts>>
  BY MainLeaves
<1>2. UpStream'
  BY <1>1, UpKept DEF DemoInv
<1>3. TypeOK'
  BY <1>1 DEF DemoInv, TypeOK
<1>4. Control'
  BY <1>1, TotalKept DEF DemoInv, Control, Past, Broken
<1> QED
  BY <1>1, <1>2, <1>3, <1>4 DEF DemoInv

LEMMA ConnectDemo == ASSUME DemoInv, Connect PROVE DemoInv'
<1>1. /\ main = "connecting" /\ main' = "sending" /\ upOpen' = TRUE
      /\ UNCHANGED <<records, slow, next, written, up, result, actorVars, receiverVars>>
  BY DEF Connect
<1>2. result \in {"none", "PASS", "FAIL"} /\ result = "none"
  BY <1>1 DEF DemoInv, TypeOK, Control, Over
<1>3. Judgement'
  BY <1>1, <1>2, TotalKept DEF DemoInv, Judgement, Past, Over, Broken, actorVars, receiverVars
<1> QED
  BY <1>1, <1>2, <1>3, MainOnly DEF Past, Over, Broken

LEMMA SendRecordDemo == ASSUME DemoInv, SendRecord PROVE DemoInv'
<1>1. /\ main = "sending" /\ next < records /\ next < RecordLimit
      /\ up' = Append(up, Piece(Frame(next, TRUE), written + 1))
      /\ written' = (written + 1) % FrameUnits
      /\ next' = IF written + 1 = FrameUnits THEN next + 1 ELSE next
      /\ UNCHANGED <<records, slow, main, upOpen, result, actorVars, receiverVars>>
  BY DEF SendRecord
<1>2. /\ DownStream' /\ LogPlanned' /\ Heard' /\ Count' = Count /\ Said' = Said
      /\ UNCHANGED <<actor, upGot, index, out, relayed, captured, actions, down, downState,
                     receiver, downGot, window, stats, pending, verdicts>>
  BY <1>1, MainLeaves
<1>3. /\ upGot \in Seq(AnyPiece) /\ up \in Seq(AnyPiece) /\ index \in Nat /\ next \in Nat
      /\ written \in 0 .. FrameUnits - 1 /\ Total \in Nat /\ TypeOK
      /\ Flows(upGot, up, UpFrames, index, next, written)
      /\ Total = records /\ Total' = Total
  BY <1>1, TotalKept, TotalFacts DEF DemoInv, TypeOK, UpStream
<1> DEFINE p == Piece(Frame(next, TRUE), written + 1)
<1>4. p \in AnyPiece /\ p = Piece(UpFrames[next], written + 1)
  <2>1. next \in Int /\ written + 1 \in Nat /\ UpFrames[next] = Frame(next, TRUE)
    BY <1>3, Units DEF UpFrames
  <2> QED
    BY <2>1 DEF AnyPiece, Piece, Frame
<1> HIDE DEF p
<1>5. DOMAIN UpFrames = Nat /\ UpFrames' = UpFrames
  BY DEF UpFrames
<1>6. /\ next' \in Nat /\ next' <= Total /\ written' \in 0 .. FrameUnits - 1
      /\ next' = Total => written' = 0
      /\ next' <= RecordLimit
  <2>1. written + 1 = FrameUnits => (written + 1) % FrameUnits = 0
    BY Units
  <2>2. written + 1 # FrameUnits => (written + 1) % FrameUnits = written + 1
    BY <1>3, Units
  <2> QED
    BY <1>1, <1>3, <2>1, <2>2, Units
<1>7. up' \in Seq(AnyPiece)
  <2>1. up' = Append(up, p)
    BY <1>1 DEF p
  <2>2. Append(up, p) \in Seq(AnyPiece)
    <3>1. up \in Seq(AnyPiece)
      BY <1>3
    <3> QED
      BY ONLY <1>4, <3>1
  <2> QED
    BY <2>1, <2>2
<1>8. UpStream'
  <2>1. Flows(upGot, Append(up, p), UpFrames, index,
              IF written + 1 = FrameUnits THEN next + 1 ELSE next, (written + 1) % FrameUnits)
    BY <1>3, <1>4, <1>5, PieceWritten
  <2>2. Flows(upGot', up', UpFrames', index', next', written')
    BY <1>1, <1>2, <1>5, <2>1 DEF p
  <2> QED
    BY <1>1, <1>3, <1>6, <2>2 DEF UpStream
<1>9. TypeOK'
  BY <1>1, <1>2, <1>3, <1>6, <1>7 DEF TypeOK
<1>10. Control' /\ Judgement'
  BY <1>1, <1>2, <1>3 DEF DemoInv, Control, Judgement, Past, Over, Broken
<1> QED
  BY <1>2, <1>8, <1>9, <1>10 DEF DemoInv

LEMMA CloseUpDemo == ASSUME DemoInv, CloseUp PROVE DemoInv'
<1>1. /\ main = "sending" /\ next = Total /\ main' = "joining receiver" /\ upOpen' = FALSE
      /\ UNCHANGED <<records, slow, next, written, up, result, actorVars, receiverVars>>
  <2>1. /\ main = "sending" /\ next >= records /\ main' = "joining receiver" /\ upOpen' = FALSE
        /\ UNCHANGED <<records, slow, next, written, up, result, actorVars, receiverVars>>
    BY DEF CloseUp
  <2>2. records \in Int
    BY DEF DemoInv, TypeOK
  <2>3. next <= Total /\ next \in Nat /\ Total \in Nat
    BY InOrder
  <2>4. Total <= next
    <3>1. next >= records
      BY <2>1
    <3>2. CASE records < 0
      BY <2>3, <3>2 DEF Total
    <3>3. CASE ~ (records < 0)
      BY <3>1, <3>3 DEF Total
    <3> QED
      BY <3>2, <3>3
  <2>5. next = Total
    BY ONLY <2>3, <2>4
  <2> QED
    BY <2>1, <2>5
<1>2. result \in {"none", "PASS", "FAIL"} /\ result = "none"
  BY <1>1 DEF DemoInv, TypeOK, Control, Over
<1>3. Judgement'
  BY <1>1, <1>2, TotalKept DEF DemoInv, Judgement, Past, Over, Broken, actorVars, receiverVars
<1> QED
  BY <1>1, <1>2, <1>3, MainOnly DEF Past, Over, Broken

\* An exception in main is the actor's death or a long wait, or the budget is spent.
LEMMA LeaveSendingDemo ==
  ASSUME DemoInv, main = "sending", LeaveSending, slow \/ records > RecordLimit
  PROVE  DemoInv'
<1>1. /\ main' = "raising" /\ upOpen' = FALSE
      /\ UNCHANGED <<records, slow, next, written, up, result, actorVars, receiverVars>>
  BY DEF LeaveSending
<1>2. result \in {"none", "PASS", "FAIL"} /\ result = "none"
  BY DEF DemoInv, TypeOK, Control, Over
<1>3. Judgement'
  BY <1>1, <1>2, TotalKept DEF DemoInv, Judgement, Past, Over, Broken, actorVars, receiverVars
<1> QED
  BY <1>1, <1>2, <1>3, MainOnly DEF Past, Over, Broken

LEMMA RaisesDemo == ASSUME DemoInv, SendRaises \/ ProtectRaises PROVE DemoInv'
<1>1. main = "sending" /\ LeaveSending
  BY DEF SendRaises, ProtectRaises
<1>2. CASE SendRaises
  <2>1. actor # "returned"
    BY <1>1 DEF DemoInv, Control, Past, Broken
  <2>2. ~ slow => actor # "died"
    BY DEF DemoInv, Judgement
  <2>3. slow
    BY <1>2, <2>1, <2>2 DEF SendRaises, SendFails, Gone
  <2> QED
    BY <1>1, <2>3, LeaveSendingDemo
<1>3. CASE ProtectRaises
  <2>1. records > RecordLimit
    BY <1>3 DEF ProtectRaises, DemoInv, TypeOK
  <2> QED
    BY <1>1, <2>1, LeaveSendingDemo
<1> QED
  BY <1>2, <1>3

LEMMA ProgramEndsDemo == ASSUME DemoInv, ProgramEnds PROVE DemoInv'
<1>1. /\ \/ main = "raising" /\ main' = "raised"
         \/ main = "done" /\ main' = "exited"
      /\ UNCHANGED <<records, slow, next, written, up, upOpen, result, actorVars, receiverVars>>
  BY DEF ProgramEnds
<1>2. result \in {"none", "PASS", "FAIL"} /\ ~ upOpen /\ (main = "done" => next = Total)
  BY <1>1 DEF DemoInv, TypeOK, Control, Past
<1>3. result = "none" <=> main \notin Over
  BY DEF DemoInv, Control
<1>4. Judgement'
  BY <1>1, TotalKept DEF DemoInv, Judgement, Past, Over, Broken, actorVars, receiverVars
<1> QED
  BY <1>1, <1>2, <1>3, <1>4, MainOnly DEF Past, Over, Broken

LEMMA JoinsDemo == ASSUME DemoInv, JoinReceiver \/ JoinActor PROVE DemoInv'
<1>1. /\ \/ main = "joining receiver" /\ main' = "joining actor" /\ (receiver \in Gone \/ slow)
         \/ main = "joining actor" /\ main' = "judging"
      /\ UNCHANGED <<records, slow, next, written, up, upOpen, result, actorVars, receiverVars>>
  BY DEF JoinReceiver, JoinActor
<1>2. /\ result \in {"none", "PASS", "FAIL"} /\ result = "none" /\ ~ upOpen
      /\ next = Total
  BY <1>1 DEF DemoInv, TypeOK, Control, Past, Over
<1>3. ~ slow => receiver = "returned"
  BY <1>1 DEF DemoInv, Judgement, Past, Gone
<1>4. Judgement'
  BY <1>1, <1>2, <1>3, TotalKept
     DEF DemoInv, Judgement, Past, Over, Broken, actorVars, receiverVars
<1> QED
  BY <1>1, <1>2, <1>4, MainOnly DEF Past, Over, Broken

\* A run without long waits is complete when main judges it.
LEMMA CompleteIfPrompt ==
  ASSUME DemoInv, ~ slow, main \in Past \ {"joining receiver"}
  PROVE  \A v \in VerdictNames : stats[v] = Among(Total, Leading(v))
<1>1. receiver = "returned" /\ actor # "died"
  BY DEF DemoInv, Judgement
<1>2. actor = "returned"
  BY <1>1 DEF DemoInv, Control, Gone
<1>3. Len(Said) = Count /\ index = Total
  BY <1>1, <1>2 DEF DemoInv, Control, Past, Broken
<1>4. Count = Len(Called(index))
  BY SaidIsCalled
<1> QED
  BY <1>3, <1>4, CountersBound

LEMMA JudgeAcceptedDemo == ASSUME DemoInv, JudgeAccepted PROVE DemoInv'
<1>1. /\ main = "judging"
      /\ UNCHANGED <<records, slow, next, written, up, upOpen, actorVars, receiverVars>>
  BY DEF JudgeAccepted
<1>2. /\ records \in Int /\ result = "none" /\ ~ upOpen /\ next = Total
  BY <1>1 DEF DemoInv, TypeOK, Control, Past, Over
<1>3. records >= 0 => Expected["accepted"] = Among(Total, Leading("accepted"))
  BY <1>2, ExpectedCounts DEF VerdictNames
<1>4. stats["accepted"] \in Nat
  BY DEF DemoInv, TypeOK, Counters
<1>5. UNCHANGED <<stats, receiver, actor>>
  BY <1>1 DEF actorVars, receiverVars
<1>6. CASE stats["accepted"] = Expected["accepted"]
  <2>0. records >= 0
    BY <1>2, <1>4, <1>6, NoneExpected
  <2>1. main' = "judging rejections" /\ result' = "none"
    BY <1>2, <1>6 DEF JudgeAccepted
  <2>2. ~ slow => receiver = "returned" /\ actor # "died"
    BY <1>1 DEF DemoInv, Judgement, Past
  <2>3. /\ Expected["accepted"]' = Expected["accepted"]
        /\ Among(Total, Leading("accepted"))' = Among(Total, Leading("accepted"))
    BY <1>1, TotalKept DEF Expected, PlannedAs
  <2> DEFINE a == Among(Total, Leading("accepted"))
  <2>4. stats["accepted"]' = a' /\ a' \in Nat
    BY <1>3, <1>4, <1>5, <1>6, <2>0, <2>3
  <2>5. stats["accepted"]' >= a'
    <3> HIDE DEF a
    <3> QED
      BY <2>4
  <2> HIDE DEF a
  <2>6. Judgement'
    BY <1>1, <1>5, <2>0, <2>1, <2>2, <2>5 DEF Judgement, Past, Over, Broken, a
  <2> QED
    BY <1>1, <1>2, <2>1, <2>6, MainOnly DEF Past, Over, Broken
<1>7. CASE stats["accepted"] # Expected["accepted"]
  <2>1. main' = "done" /\ result' = "FAIL"
    BY <1>7 DEF JudgeAccepted
  <2>2. slow \/ ~ records >= 0
    <3> SUFFICES ASSUME ~ slow, records >= 0 PROVE FALSE
      OBVIOUS
    <3>1. stats["accepted"] = Among(Total, Leading("accepted"))
      BY <1>1, CompleteIfPrompt DEF Past, VerdictNames
    <3> QED
      BY <1>3, <1>7, <3>1
  <2>3. ~ slow => receiver = "returned" /\ actor # "died"
    BY <1>1 DEF DemoInv, Judgement, Past
  <2>4. Judgement'
    BY <1>1, <1>5, <2>1, <2>2, <2>3 DEF Judgement, Past, Over, Broken
  <2> QED
    BY <1>1, <1>2, <2>1, <2>4, MainOnly DEF Past, Over, Broken
<1> QED
  BY <1>6, <1>7

\* PASS is printed when, and only when, everything called for has been said.
LEMMA PassIffComplete ==
  ASSUME DemoInv, main = "judging rejections"
  PROVE  Rejections(stats) = Rejections(Expected)
           <=> \A v \in VerdictNames : stats[v] = Among(Total, Leading(v))
<1>1. /\ DOMAIN Expected = Counters /\ Expected["MALFORMED"] = 0
      /\ Expected["STALE_RECORD"] = 0
      /\ \A v \in VerdictNames : Expected[v] = Among(Total, Leading(v))
  <2>1. records \in Nat
    <3>1. records \in Int
      BY DEF DemoInv, TypeOK
    <3>2. records >= 0
      BY DEF DemoInv, Judgement
    <3> QED
      BY ONLY <3>1, <3>2
  <2> QED
    BY <2>1, ExpectedCounts
<1>2. DOMAIN stats = Counters /\ stats["MALFORMED"] = 0 /\ stats["STALE_RECORD"] = 0
  BY DEF DemoInv, TypeOK, Heard
<1>3. stats["accepted"] = Among(Total, Leading("accepted"))
  <2> DEFINE a == Among(Total, Leading("accepted"))
             c == stats["accepted"]
  <2>1. c >= a
    BY DEF DemoInv, Judgement
  <2>2. c \in Nat /\ a \in Nat /\ c <= a
    BY CountersBound DEF VerdictNames
  <2> HIDE DEF a, c
  <2>3. c = a
    BY ONLY <2>1, <2>2
  <2> QED
    BY <2>3 DEF a, c
<1>4. ASSUME Rejections(stats) = Rejections(Expected), NEW v \in VerdictNames
      PROVE  stats[v] = Among(Total, Leading(v))
  <2>1. CASE v = "accepted"
    BY <1>3, <2>1
  <2>2. CASE v # "accepted"
    <3>1. v \in Counters \ {"accepted"}
      BY <2>2 DEF VerdictNames, Counters
    <3>2. Rejections(stats)[v] = stats[v] /\ Rejections(Expected)[v] = Expected[v]
      BY <1>1, <1>2, <3>1 DEF Rejections
    <3> QED
      BY <1>1, <1>4, <3>2
  <2> QED
    BY <2>1, <2>2
<1>5. ASSUME \A v \in VerdictNames : stats[v] = Among(Total, Leading(v))
      PROVE  Rejections(stats) = Rejections(Expected)
  <2>1. \A r \in Counters \ {"accepted"} : stats[r] = Expected[r]
    BY <1>1, <1>2, <1>5 DEF Counters, VerdictNames
  <2> QED
    BY <1>1, <1>2, <2>1 DEF Rejections
<1> QED
  BY <1>4, <1>5

LEMMA JudgeRejectionsDemo == ASSUME DemoInv, JudgeRejections PROVE DemoInv'
<1>1. /\ main = "judging rejections" /\ main' = "done"
      /\ result' = IF Rejections(stats) = Rejections(Expected) THEN "PASS" ELSE "FAIL"
      /\ UNCHANGED <<records, slow, next, written, up, upOpen, actorVars, receiverVars>>
  BY DEF JudgeRejections
<1>2. /\ ~ upOpen /\ next = Total /\ result' \in {"none", "PASS", "FAIL"} /\ result' # "none"
      /\ records >= 0 /\ Total' = Total
  BY <1>1, TotalKept DEF DemoInv, Control, Judgement, Past
<1>3. UNCHANGED <<stats, receiver, actor>>
  BY <1>1 DEF actorVars, receiverVars
<1>4. result' = "PASS" <=> \A v \in VerdictNames : stats[v] = Among(Total, Leading(v))
  BY <1>1, PassIffComplete
<1>5. ~ slow => result' = "PASS"
  BY <1>1, <1>4, CompleteIfPrompt DEF Past
<1>6. ~ slow => receiver = "returned" /\ actor # "died"
  BY <1>1 DEF DemoInv, Judgement, Past
<1>7. Judgement'
  BY <1>1, <1>2, <1>3, <1>4, <1>5, <1>6 DEF Judgement, Past, Over, Broken
<1> QED
  BY <1>1, <1>2, <1>7, MainOnly DEF Past, Over, Broken

-----------------------------------------------------------------------------
(***************************************************************************)
(* The steps of the actor                                                  *)
(***************************************************************************)
LEMMA ActorAcceptDemo == ASSUME DemoInv, ActorAccept PROVE DemoInv'
<1>1. /\ actor = "accepting" /\ main # "connecting" /\ actor' = "relaying"
      /\ downState' = "open"
      /\ UNCHANGED <<upGot, index, out, relayed, captured, actions, down,
                     records, slow, main, next, written, up, upOpen, result,
                     receiver, downGot, window, stats, pending, verdicts>>
  BY DEF ActorAccept, mainVars, receiverVars
<1>2. UpStream' /\ DownStream' /\ LogPlanned' /\ Heard'
  BY <1>1, UpKept, DownKept, LogKept, HeardKept DEF DemoInv
<1>3. TypeOK'
  BY <1>1 DEF DemoInv, TypeOK
<1>4. Control'
  BY <1>1, TotalKept DEF DemoInv, Control, Past, Broken, Gone
<1>5. Judgement'
  BY <1>1, TotalKept DEF DemoInv, Judgement
<1> QED
  BY <1>2, <1>3, <1>4, <1>5 DEF DemoInv

\* The actor dies only in a run with long waits: its peer does not return before it.
LEMMA ActorDiesDemo == ASSUME DemoInv, ActorDies PROVE DemoInv'
<1>1. /\ actor' = "died"
      /\ downState' = IF downState = "open" THEN "closed" ELSE downState
      /\ UNCHANGED <<upGot, index, out, relayed, captured, actions, down,
                     records, slow, main, next, written, up, upOpen, result,
                     receiver, downGot, window, stats, pending, verdicts>>
  BY DEF ActorDies, mainVars, receiverVars
<1>2. \/ actor = "accepting" /\ (slow \/ ~ ListenersOpen)
      \/ actor = "relaying" /\ (SendFails(receiver, down, relayed) \/ slow)
  BY DEF ActorDies
<1>3. slow
  <2>1. actor = "relaying" => receiver # "returned"
    BY DEF DemoInv, Control, Gone
  <2>2. ~ slow => receiver # "died"
    BY DEF DemoInv, Judgement
  <2>3. actor = "accepting" /\ ~ slow => ListenersOpen
    BY DEF DemoInv, Judgement, Control, ListenersOpen, Past, Gone
  <2> QED
    BY <1>2, <2>1, <2>2, <2>3 DEF SendFails, Gone
<1>4. UpStream' /\ DownStream' /\ LogPlanned' /\ Heard'
  BY <1>1, <1>2, UpKept, DownKept, LogKept, HeardKept DEF DemoInv
<1>5. TypeOK'
  BY <1>1 DEF DemoInv, TypeOK, Gone
<1>6. Control'
  BY <1>1, <1>2, TotalKept DEF DemoInv, Control, Past, Broken, Gone
<1>7. Judgement'
  BY <1>1, <1>3, TotalKept DEF DemoInv, Judgement
<1> QED
  BY <1>4, <1>5, <1>6, <1>7 DEF DemoInv

\* The stream ends where main has closed it: behind the last record, or where an exception
\* has stopped it.
LEMMA ActorReturnDemo == ASSUME DemoInv, ActorReturn PROVE DemoInv'
<1>1. /\ actor = "relaying" /\ out = <<>> /\ up = <<>> /\ ~ upOpen
      /\ actor' = "returned" /\ downState' = "closed"
      /\ UNCHANGED <<upGot, index, out, relayed, captured, actions, down,
                     records, slow, main, next, written, up, upOpen, result,
                     receiver, downGot, window, stats, pending, verdicts>>
  BY DEF ActorReturn, mainVars, receiverVars
<1>2. main \in Broken \/ (main \in Past /\ next = Total /\ written = 0)
  BY <1>1 DEF DemoInv, TypeOK, Control, UpStream
<1>3. main \in Past => upGot = <<>> /\ index = Total
  <2> SUFFICES ASSUME main \in Past PROVE upGot = <<>> /\ index = Total
    OBVIOUS
  <2>1. /\ upGot \in Seq(AnyPiece) /\ up \in Seq(AnyPiece) /\ index \in Nat /\ next \in Nat
        /\ written \in 0 .. FrameUnits - 1
        /\ Flows(upGot, up, UpFrames, index, next, written)
    BY DEF DemoInv, TypeOK, UpStream
  <2>2. Len(up) = 0 /\ next = Total /\ written = 0
    BY <1>1, <1>2 DEF Past, Broken
  <2>3. /\ index <= next
        /\ index = next => Len(upGot) + Len(up) = written
        /\ written = 0 /\ Len(up) = 0 => Len(upGot) = 0 /\ index = next
    BY <2>1, FlowsForward
  <2>4. Len(upGot) = 0 /\ index = next
    BY <2>2, <2>3
  <2> QED
    BY <2>1, <2>2, <2>4
<1>4. UpStream' /\ DownStream' /\ LogPlanned' /\ Heard'
  BY <1>1, UpKept, DownKept, LogKept, HeardKept DEF DemoInv
<1>5. TypeOK'
  BY <1>1 DEF DemoInv, TypeOK, Gone
<1>6. Control'
  BY <1>1, <1>2, <1>3, TotalKept DEF DemoInv, Control, Past, Broken, Gone
<1>7. Judgement'
  BY <1>1, TotalKept DEF DemoInv, Judgement
<1> QED
  BY <1>4, <1>5, <1>6, <1>7 DEF DemoInv

LEMMA ActorRecvPieceDemo == ASSUME DemoInv, ActorRecvPiece PROVE DemoInv'
<1>1. /\ actor = "relaying" /\ up # <<>> /\ Len(upGot) + 1 < FrameUnits
      /\ upGot' = Append(upGot, Head(up)) /\ up' = Tail(up)
      /\ UNCHANGED <<actor, index, out, relayed, captured, actions, down, downState,
                     records, slow, main, next, written, upOpen, result,
                     receiver, downGot, window, stats, pending, verdicts>>
  BY DEF ActorRecvPiece, receiverVars
<1>2. /\ upGot \in Seq(AnyPiece) /\ up \in Seq(AnyPiece) /\ index \in Nat /\ next \in Nat
      /\ written \in Nat /\ Flows(upGot, up, UpFrames, index, next, written)
  BY Units DEF DemoInv, TypeOK, UpStream
<1>3. DOMAIN UpFrames \subseteq Nat /\ UpFrames' = UpFrames
  BY DEF UpFrames
<1>4. /\ upGot' \in Seq(AnyPiece) /\ up' \in Seq(AnyPiece)
      /\ Flows(upGot', up', UpFrames, index, next, written)
  BY <1>1, <1>2, <1>3, PieceTaken
<1>5. UpStream'
  BY <1>1, <1>3, <1>4, TotalKept DEF DemoInv, UpStream
<1>6. DownStream' /\ LogPlanned' /\ Heard'
  BY <1>1, DownKept, LogKept, HeardKept DEF DemoInv
<1>7. TypeOK'
  BY <1>1, <1>4 DEF DemoInv, TypeOK
<1>8. Control'
  BY <1>1, TotalKept DEF DemoInv, Control, Past, Broken, Gone
<1>9. Judgement'
  BY <1>1, TotalKept DEF DemoInv, Judgement
<1> QED
  BY <1>5, <1>6, <1>7, <1>8, <1>9 DEF DemoInv

LEMMA ActorSendDemo == ASSUME DemoInv, ActorSend PROVE DemoInv'
<1> DEFINE p == Piece(Head(out).frame, relayed + 1)
<1>1. /\ actor = "relaying" /\ out # <<>>
      /\ down' = Append(down, p)
      /\ relayed' = (relayed + 1) % FrameUnits
      /\ actor' = IF relayed + 1 = FrameUnits THEN "logging" ELSE actor
      /\ UNCHANGED <<upGot, index, out, captured, actions, downState,
                     records, slow, main, next, written, up, upOpen, result,
                     receiver, downGot, window, stats, pending, verdicts>>
  BY DEF ActorSend, mainVars, receiverVars
<1>2. /\ downGot \in Seq(AnyPiece) /\ down \in Seq(AnyPiece) /\ actions \in Seq(AnyEntry)
      /\ out \in Seq([frame : AnyFrame, entry : AnyEntry]) /\ relayed \in 0 .. FrameUnits - 1
      /\ Flows(downGot, down, DownFrames, Len(Said), Sent, relayed)
  BY DEF DemoInv, TypeOK, DownStream
<1>3. Len(actions) \in Nat /\ Len(out) \in Nat \ {0} /\ Count \in Nat /\ Len(Said) \in Nat
  <2>1. Len(actions) \in Nat
    BY <1>2, LengthOf
  <2>2. Len(out) \in Nat \ {0}
    BY <1>1, <1>2
  <2> QED
    BY <2>1, <2>2, SaidIsCalled
<1>4. Sent = Len(actions) /\ Sent \in DOMAIN DownFrames /\ DOMAIN DownFrames \subseteq Nat
  BY <1>1, <1>3 DEF Sent, DownFrames, Count
<1>5. DownFrames[Sent] = Head(out).frame
  <2>1. DownFrames[Sent] = FrameOf(Entry(Sent + 1))
    BY <1>4 DEF DownFrames
  <2>2. Entry(Sent + 1) = out[1].entry
    <3>1. ~ (Sent + 1 <= Len(actions)) /\ (Sent + 1) - Len(actions) = 1
      BY <1>3, <1>4
    <3> QED
      BY <3>1 DEF Entry
  <2>3. out[1].frame = FrameOf(out[1].entry) /\ Head(out) = out[1]
    <3>1. 1 \in 1 .. Len(out)
      BY <1>3
    <3> QED
      BY <1>1, <3>1 DEF DemoInv, LogPlanned
  <2> QED
    BY <2>1, <2>2, <2>3
<1>6. p \in AnyPiece /\ p = Piece(DownFrames[Sent], relayed + 1)
  <2>1. Head(out).frame \in AnyFrame
    <3> DEFINE R == [frame : AnyFrame, entry : AnyEntry]
    <3>1. out \in Seq(R) /\ (\A r \in R : r.frame \in AnyFrame)
      BY <1>2
    <3> HIDE DEF R
    <3>2. Head(out) \in R
      BY <1>1, <3>1
    <3> QED
      BY <3>1, <3>2
  <2>2. relayed + 1 \in Nat
    BY <1>2, Units
  <2> QED
    BY <1>5, <2>1, <2>2 DEF AnyPiece, AnyFrame, Piece
<1> HIDE DEF p
<1>7. down' \in Seq(AnyPiece)
  <2>1. Append(down, p) \in Seq(AnyPiece)
    BY <1>2, <1>6
  <2> QED
    BY <1>1, <2>1
<1>8. /\ relayed' \in 0 .. FrameUnits - 1
      /\ Sent' = IF relayed + 1 = FrameUnits THEN Sent + 1 ELSE Sent
      /\ actor' \in {"relaying", "logging"} /\ (actor' = "logging" => relayed' = 0)
  <2>1. relayed + 1 = FrameUnits => (relayed + 1) % FrameUnits = 0
    BY Units
  <2>2. relayed + 1 # FrameUnits => (relayed + 1) % FrameUnits = relayed + 1
    <3>1. relayed \in 0 .. FrameUnits - 1
      BY <1>2
    <3> QED
      BY ONLY <3>1, Units
  <2> QED
    BY <1>1, <1>2, <1>3, <1>4, <2>1, <2>2, Units DEF Sent
<1>9. DownStream'
  <2>1. Flows(downGot, Append(down, p), DownFrames, Len(Said),
              IF relayed + 1 = FrameUnits THEN Sent + 1 ELSE Sent, (relayed + 1) % FrameUnits)
    BY <1>2, <1>3, <1>4, <1>6, PieceWritten
  <2>2. DownFrames' = DownFrames /\ Said' = Said
    BY <1>1, EntriesKept DEF Said
  <2>3. Flows(downGot', down', DownFrames', Len(Said)', Sent', relayed')
    BY <1>1, <1>8, <2>1, <2>2
  <2> QED
    BY <1>1, <1>8, <2>3 DEF DownStream
<1>10. UpStream' /\ LogPlanned' /\ Heard'
  BY <1>1, UpKept, LogKept, HeardKept DEF DemoInv
<1>11. TypeOK'
  BY <1>1, <1>7, <1>8 DEF DemoInv, TypeOK
<1>12. Control'
  BY <1>1, <1>8, TotalKept DEF DemoInv, Control, Past, Broken, Gone
<1>13. Judgement'
  BY <1>1, <1>8, TotalKept DEF DemoInv, Judgement
<1> QED
  BY <1>9, <1>10, <1>11, <1>12, <1>13 DEF DemoInv

LEMMA ActorLogDemo == ASSUME DemoInv, ActorLog PROVE DemoInv'
<1>1. /\ actor = "logging" /\ actor' = "relaying"
      /\ actions' = Append(actions, Head(out).entry) /\ out' = Tail(out)
      /\ UNCHANGED <<upGot, index, relayed, captured, down, downState,
                     records, slow, main, next, written, up, upOpen, result,
                     receiver, downGot, window, stats, pending, verdicts>>
  BY DEF ActorLog, mainVars, receiverVars
<1> DEFINE R == [frame : AnyFrame, entry : AnyEntry]
           n == Len(actions)
           o == Len(out)
<1>2. actions \in Seq(AnyEntry) /\ out \in Seq(R) /\ out # <<>> /\ relayed = 0
  BY <1>1 DEF DemoInv, TypeOK, DownStream
<1>3. \A r \in R : r.entry \in AnyEntry
  OBVIOUS
<1> HIDE DEF R
<1>4. /\ n \in Nat /\ o \in Nat \ {0} /\ Head(out) = out[1] /\ Head(out) \in R
      /\ out' \in Seq(R) /\ Len(out') = o - 1 /\ \A j \in 1 .. o - 1 : out'[j] = out[j + 1]
  BY <1>1, <1>2
<1> DEFINE e == Head(out).entry
<1>5. e \in AnyEntry
  BY <1>3, <1>4
<1>6. /\ actions' \in Seq(AnyEntry) /\ Len(actions') = n + 1 /\ actions'[n + 1] = e
      /\ \A k \in 1 .. n : actions'[k] = actions[k]
  <2>1. actions' = Append(actions, e)
    BY <1>1
  <2> HIDE DEF e
  <2> QED
    BY <1>2, <1>5, <2>1
<1> HIDE DEF n, o, e
<1>7. Count = n + o /\ Count' = Count /\ Count \in Nat
  BY <1>4, <1>6 DEF Count, n, o
<1>8. ASSUME NEW k \in 1 .. Count PROVE Entry(k)' = Entry(k)
  <2>1. CASE k \in 1 .. n
    <3>1. k <= Len(actions) /\ k <= Len(actions')
      BY <1>4, <1>6, <2>1 DEF n
    <3> QED
      BY <1>6, <2>1, <3>1 DEF Entry
  <2>2. CASE k = n + 1
    <3>1. ~ (k <= Len(actions)) /\ k <= Len(actions') /\ k - Len(actions) = 1
      BY <1>4, <1>6, <2>2 DEF n
    <3> QED
      BY <1>4, <1>6, <2>2, <3>1 DEF Entry, e
  <2>3. CASE k \in n + 2 .. n + o
    <3> DEFINE j == k - Len(actions')
    <3>1. /\ ~ (k <= Len(actions)) /\ ~ (k <= Len(actions'))
          /\ j \in 1 .. o - 1 /\ j + 1 = k - Len(actions)
      BY <1>4, <1>6, <2>3 DEF n
    <3>2. out'[j] = out[j + 1]
      BY <1>4, <3>1
    <3>3. Entry(k) = out[j + 1].entry /\ Entry(k)' = out'[j].entry
      <4> HIDE DEF j
      <4>1. Entry(k) = out[j + 1].entry
        BY <3>1 DEF Entry
      <4>2. Entry(k)' = out'[j].entry
        BY <3>1 DEF Entry, j
      <4> QED
        BY <4>1, <4>2
    <3> QED
      BY <3>2, <3>3
  <2>4. k \in 1 .. n \/ k = n + 1 \/ k \in n + 2 .. n + o
    BY <1>4, <1>7
  <2> QED
    BY <2>1, <2>2, <2>3, <2>4
<1>9. /\ Said' = Said /\ Sent' = Sent /\ Len(Said) \in Nat /\ Len(Said) <= Count
      /\ Called(index)' = Called(index)
  BY <1>1, <1>4, <1>6, SaidIsCalled DEF Said, Sent, n, Called
<1>10. DownStream'
  <2>1. DownFrames' = DownFrames
    <3>1. \A s \in 0 .. Count - 1 : s + 1 \in 1 .. Count
      BY <1>7
    <3>2. \A s \in 0 .. Count - 1 : FrameOf(Entry(s + 1))' = FrameOf(Entry(s + 1))
      BY <1>8, <3>1 DEF FrameOf
    <3> QED
      BY <1>7, <3>2 DEF DownFrames
  <2>2. relayed' = 0
    BY <1>1, <1>2
  <2> QED
    BY <1>1, <1>2, <1>9, <2>1, <2>2 DEF DemoInv, DownStream
<1>11. LogPlanned'
  <2> HIDE DEF Called
  <2>1. \A k \in 1 .. Count : \A j \in 1 .. k - 1 : j \in 1 .. Count
    BY <1>7
  <2>2. /\ \A k \in 1 .. Count :
             /\ Entry(k)'[1] < index
             /\ Entry(k)'[2] # "replay" => \A j \in 1 .. k - 1 : Entry(j)'[1] < Entry(k)'[1]
             /\ Entry(k)'[2] = "replay" =>
                  /\ \E j \in 1 .. k - 1 : Entry(j)' = <<Entry(k)'[1], "forward">>
                  /\ \A j \in 1 .. k - 1 : Entry(j)'[1] - Entry(k)'[1] < WindowSize
        /\ captured >= 0 => \E k \in 1 .. Count : Entry(k)' = <<captured, "forward">>
        /\ Count = Len(Called(index))
        /\ \A k \in 1 .. Count : AnswerTo(Entry(k)'[2]) = Called(index)[k]
    BY <1>8, <2>1 DEF DemoInv, LogPlanned
  <2>3. captured < 0 => \A i \in 0 .. index - 1 : Planned(i) # "forward"
    BY DEF DemoInv, LogPlanned
  <2>4. ASSUME NEW j \in 1 .. Len(out') PROVE out'[j].frame = FrameOf(out'[j].entry)
    <3>1. j \in 1 .. o - 1 /\ j + 1 \in 1 .. o
      BY <1>4
    <3>2. out'[j] = out[j + 1]
      BY <1>4, <3>1
    <3>3. out[j + 1].frame = FrameOf(out[j + 1].entry)
      BY <3>1 DEF DemoInv, LogPlanned, o
    <3> QED
      BY <3>2, <3>3
  <2> QED
    BY <1>1, <1>7, <1>9, <2>2, <2>3, <2>4 DEF LogPlanned, FrameOf
<1>12. Heard'
  <2>1. \A k \in 1 .. Len(Said) : k \in 1 .. Count
    BY <1>7, <1>9
  <2> QED
    BY <1>1, <1>7, <1>8, <1>9, <2>1 DEF DemoInv, Heard
<1>13. UpStream'
  BY <1>1, UpKept DEF DemoInv
<1>14. TypeOK'
  <2>1. out' \in Seq([frame : AnyFrame, entry : AnyEntry])
    BY <1>4 DEF R
  <2> QED
    BY <1>1, <1>6, <2>1 DEF DemoInv, TypeOK
<1>15. Control'
  BY <1>1, TotalKept DEF DemoInv, Control, Past, Broken, Gone
<1>16. Judgement'
  BY <1>1, TotalKept DEF DemoInv, Judgement
<1> QED
  BY <1>10, <1>11, <1>12, <1>13, <1>14, <1>15, <1>16 DEF DemoInv

LEMMA OneElement ==
  ASSUME NEW S, NEW x \in S, NEW s, s = <<x>>
  PROVE  s \in Seq(S) /\ Len(s) = 1 /\ s[1] = x /\ \A j \in 1 .. Len(s) : j = 1
OBVIOUS

LEMMA TwoElements ==
  ASSUME NEW S, NEW x \in S, NEW y \in S, NEW s, s = <<x>> \o <<y>>
  PROVE  /\ s \in Seq(S) /\ Len(s) = 2 /\ s[1] = x /\ s[2] = y
         /\ \A j \in 1 .. Len(s) : j = 1 \/ j = 2
OBVIOUS

\* What the actor makes of a record is what is called for.
LEMMA OutputsAre ==
  ASSUME NEW i \in Nat, captured \in Int, Planned(i) = "replay" => captured >= 0,
         NEW o, o = Outputs(i, Frame(i, TRUE)), NEW v, v = Promised!VerdictsFor(i)
  PROVE  /\ o \in Seq([frame : AnyFrame, entry : AnyEntry])
         /\ Len(o) = Len(v) /\ Len(o) \in {0, 1, 2}
         /\ \A j \in 1 .. Len(o) : /\ o[j].frame = FrameOf(o[j].entry)
                                   /\ AnswerTo(o[j].entry[2]) = v[j]
         /\ Len(o) > 0 => o[1].entry[1] = i /\ o[1].entry[2] # "replay"
         /\ Len(o) = 2 => Planned(i) = "replay" /\ o[2].entry = <<captured, "replay">>
         /\ Planned(i) = "forward" => Len(o) = 1 /\ o[1].entry = <<i, "forward">>
<1> DEFINE R == [frame : AnyFrame, entry : AnyEntry]
           Put(m, way) == [frame |-> Frame(m, way \notin Tampering), entry |-> <<m, way>>]
<1>1. /\ AnswerTo("forward") = "accepted" /\ AnswerTo("replay") = "REPLAY_DETECTED"
      /\ \A way \in Tampering : AnswerTo(way) = "AUTH_FAILED"
      /\ "forward" \notin Tampering /\ "replay" \notin Tampering /\ "drop" \notin Tampering
  BY DEF AnswerTo, Answers, Tampering
<1>2. ASSUME NEW m \in Nat, NEW way \in {"forward", "replay"} \cup Tampering
      PROVE  /\ Put(m, way) \in R
             /\ Put(m, way).entry = <<m, way>>
             /\ Put(m, way).frame = FrameOf(Put(m, way).entry)
  BY DEF AnyFrame, AnyEntry, Frame, FrameOf
<1>3. /\ Planned(i) \in {"forward", "drop", "replay"} \cup Tampering
      /\ Planned(i) \in {"forward"} \cup Tampering =>
           Len(v) = 1 /\ v[1] = AnswerTo(Planned(i))
      /\ Planned(i) = "drop" => Len(v) = 0
      /\ Planned(i) = "replay" =>
           Len(v) = 2 /\ v[1] = AnswerTo("forward") /\ v[2] = AnswerTo("replay")
  BY <1>1, RecordVerdicts DEF Lists
<1>4. CASE Planned(i) \in {"forward"} \cup Tampering
  <2> DEFINE x == Put(i, Planned(i))
  <2>1. o = <<x>>
    <3>1. CASE Planned(i) = "forward"
      <4>1. o = <<[frame |-> Frame(i, TRUE), entry |-> <<i, "forward">>]>>
        BY <1>1, <3>1 DEF Outputs
      <4>2. x = [frame |-> Frame(i, TRUE), entry |-> <<i, "forward">>]
        BY <1>1, <3>1
      <4> QED
        BY <4>1, <4>2
    <3>2. CASE Planned(i) \in Tampering
      <4>1. Frame(i, TRUE).seq = i
        BY DEF Frame
      <4>2. o = <<[frame |-> Frame(i, FALSE), entry |-> <<i, Planned(i)>>]>>
        BY <1>1, <3>2, <4>1 DEF Outputs
      <4>3. x = [frame |-> Frame(i, FALSE), entry |-> <<i, Planned(i)>>]
        BY <3>2
      <4> QED
        BY <4>2, <4>3
    <3> QED
      BY <1>4, <3>1, <3>2
  <2>2. x \in R /\ x.entry = <<i, Planned(i)>> /\ x.frame = FrameOf(x.entry)
    BY <1>2, <1>4
  <2> HIDE DEF R, x
  <2>3. o \in Seq(R) /\ Len(o) = 1 /\ o[1] = x /\ \A j \in 1 .. Len(o) : j = 1
    BY <2>1, <2>2, OneElement
  <2>5. x.entry[1] = i /\ x.entry[2] = Planned(i) /\ Planned(i) # "replay"
    BY <1>1, <1>4, <2>2
  <2>6. o \in Seq([frame : AnyFrame, entry : AnyEntry])
    BY <2>3 DEF R
  <2>7. \A j \in 1 .. Len(o) : o[j].frame = FrameOf(o[j].entry)
                               /\ AnswerTo(o[j].entry[2]) = v[j]
    BY ONLY <1>3, <1>4, <2>2, <2>3, <2>5
  <2>8. Len(o) = Len(v) /\ Len(o) # 2 /\ Len(o) \in {0, 1, 2}
    BY ONLY <1>3, <1>4, <2>3
  <2>9. o[1].entry = <<i, Planned(i)>> /\ o[1].entry[1] = i /\ o[1].entry[2] # "replay"
    BY ONLY <2>2, <2>3, <2>5
  <2> QED
    BY ONLY <2>3, <2>6, <2>7, <2>8, <2>9
<1>5. CASE Planned(i) = "drop"
  <2>1. o = <<>>
    BY <1>1, <1>5 DEF Outputs
  <2>2. Len(v) = 0 /\ Planned(i) # "forward"
    BY <1>3, <1>5
  <2> HIDE DEF R
  <2>3. o \in Seq(R) /\ Len(o) = 0 /\ 1 .. Len(o) = {}
    BY ONLY <2>1
  <2>4. ~ (Len(o) > 0) /\ Len(o) # 2 /\ Len(o) = Len(v)
    BY ONLY <2>2, <2>3
  <2>5. \A j \in 1 .. Len(o) : FALSE
    BY ONLY <2>3
  <2>6. o \in Seq([frame : AnyFrame, entry : AnyEntry])
    BY <2>3 DEF R
  <2> QED
    BY ONLY <2>2, <2>3, <2>4, <2>5, <2>6
<1>6. CASE Planned(i) = "replay"
  <2> DEFINE x == Put(i, "forward")
             y == Put(captured, "replay")
  <2>1. o = <<x>> \o <<y>>
    <3>1. o = <<[frame |-> Frame(i, TRUE), entry |-> <<i, "forward">>]>>
              \o <<[frame |-> Frame(captured, TRUE), entry |-> <<captured, "replay">>]>>
      BY <1>1, <1>6 DEF Outputs
    <3>2. /\ x = [frame |-> Frame(i, TRUE), entry |-> <<i, "forward">>]
          /\ y = [frame |-> Frame(captured, TRUE), entry |-> <<captured, "replay">>]
      BY <1>1
    <3> QED
      BY <3>1, <3>2
  <2>2. /\ x \in R /\ x.entry = <<i, "forward">> /\ x.frame = FrameOf(x.entry)
        /\ y \in R /\ y.entry = <<captured, "replay">> /\ y.frame = FrameOf(y.entry)
    <3>1. i \in Nat /\ captured \in Nat
      BY <1>6
    <3> HIDE DEF Put, R
    <3> QED
      BY <1>2, <3>1
  <2> HIDE DEF R, x, y
  <2>3. /\ o \in Seq(R) /\ Len(o) = 2 /\ o[1] = x /\ o[2] = y
        /\ \A j \in 1 .. Len(o) : j = 1 \/ j = 2
    <3>1. x \in R /\ y \in R
      BY <2>2
    <3> QED
      BY ONLY <2>1, <3>1, TwoElements
  <2>5. /\ x.entry[1] = i /\ x.entry[2] = "forward" /\ y.entry[2] = "replay"
        /\ Planned(i) # "forward"
    BY <1>6, <2>2
  <2>6. o \in Seq([frame : AnyFrame, entry : AnyEntry])
    BY <2>3 DEF R
  <2>7. \A j \in 1 .. Len(o) : o[j].frame = FrameOf(o[j].entry)
                               /\ AnswerTo(o[j].entry[2]) = v[j]
    BY ONLY <1>3, <1>6, <2>2, <2>3, <2>5
  <2>8. Len(o) = Len(v) /\ Len(o) \in {0, 1, 2}
    BY ONLY <1>3, <1>6, <2>3
  <2>9. /\ o[1].entry[1] = i /\ o[1].entry[2] # "replay"
        /\ o[2].entry = <<captured, "replay">>
    BY ONLY <2>2, <2>3, <2>5
  <2> QED
    BY ONLY <1>6, <2>5, <2>6, <2>7, <2>8, <2>9
<1> QED
  BY <1>3, <1>4, <1>5, <1>6

LEMMA ActorRecvDemo == ASSUME DemoInv, ActorRecv PROVE DemoInv'
<1> DEFINE v == Promised!VerdictsFor(index)
           n == Len(actions)
           m == Len(out')
           New(k) == IF k <= n THEN Entry(k) ELSE out'[k - n].entry
<1>1. /\ actor = "relaying" /\ out = <<>> /\ up # <<>> /\ Len(upGot) + 1 = FrameUnits
      /\ up' = Tail(up) /\ upGot' = <<>>
      /\ out' = Outputs(index, Assembled(Append(upGot, Head(up))))
      /\ captured' = IF captured < 0 /\ Planned(index) = "forward" THEN index ELSE captured
      /\ index' = index + 1
      /\ UNCHANGED <<actor, relayed, actions, down, downState,
                     records, slow, main, next, written, upOpen, result,
                     receiver, downGot, window, stats, pending, verdicts>>
  BY DEF ActorRecv, receiverVars
<1>2. /\ upGot \in Seq(AnyPiece) /\ up \in Seq(AnyPiece) /\ index \in Nat /\ next \in Nat
      /\ written \in Nat /\ Flows(upGot, up, UpFrames, index, next, written)
      /\ captured \in Int /\ actions \in Seq(AnyEntry) /\ relayed \in 0 .. FrameUnits - 1
  BY Units DEF DemoInv, TypeOK, UpStream
<1>3. DOMAIN UpFrames \subseteq Nat /\ UpFrames' = UpFrames
  BY DEF UpFrames
<1>4. /\ up' \in Seq(AnyPiece) /\ Flows(<<>>, up', UpFrames, index + 1, next, written)
      /\ Assembled(Append(upGot, Head(up))) = Frame(index, TRUE)
  <2>1. /\ Tail(up) \in Seq(AnyPiece)
        /\ Len(upGot) + 1 = FrameUnits =>
             /\ Flows(<<>>, Tail(up), UpFrames, index + 1, next, written)
             /\ Assembled(Append(upGot, Head(up))) = UpFrames[index]
    <3>1. up # <<>>
      BY <1>1
    <3> QED
      BY ONLY <1>2, <1>3, <3>1, PieceTaken, ZenonT(60)
  <2>2. UpFrames[index] = Frame(index, TRUE)
    BY <1>2 DEF UpFrames
  <2> QED
    BY <1>1, <2>1, <2>2
<1>5. UpStream'
  <2>1. UpStream
    BY DEF DemoInv
  <2>2. upGot' = <<>> /\ index' = index + 1 /\ Total' = Total /\ UNCHANGED <<next, written>>
    BY <1>1, TotalKept
  <2> QED
    BY <1>3, <1>4, <2>1, <2>2 DEF UpStream
<1>6. Planned(index) = "replay" => captured >= 0
  <2>1. Planned(index) = "replay" => \E j \in 0 .. index - 1 : Planned(j) = "forward"
    BY <1>2, RecordVerdicts DEF Tampering
  <2>2. captured < 0 => \A i \in 0 .. index - 1 : Planned(i) # "forward"
    BY DEF DemoInv, LogPlanned
  <2> QED
    BY <1>2, <2>1, <2>2
<1>7. /\ out' \in Seq([frame : AnyFrame, entry : AnyEntry])
      /\ m = Len(v) /\ m \in {0, 1, 2}
      /\ \A j \in 1 .. m : /\ out'[j].frame = FrameOf(out'[j].entry)
                           /\ AnswerTo(out'[j].entry[2]) = v[j]
      /\ m > 0 => out'[1].entry[1] = index /\ out'[1].entry[2] # "replay"
      /\ m = 2 => Planned(index) = "replay" /\ out'[2].entry = <<captured, "replay">>
      /\ Planned(index) = "forward" => m = 1 /\ out'[1].entry = <<index, "forward">>
  <2> DEFINE o == Outputs(index, Frame(index, TRUE))
  <2>1. /\ o \in Seq([frame : AnyFrame, entry : AnyEntry])
        /\ Len(o) = Len(v) /\ Len(o) \in {0, 1, 2}
        /\ \A j \in 1 .. Len(o) : /\ o[j].frame = FrameOf(o[j].entry)
                                  /\ AnswerTo(o[j].entry[2]) = v[j]
        /\ Len(o) > 0 => o[1].entry[1] = index /\ o[1].entry[2] # "replay"
        /\ Len(o) = 2 => Planned(index) = "replay" /\ o[2].entry = <<captured, "replay">>
        /\ Planned(index) = "forward" => Len(o) = 1 /\ o[1].entry = <<index, "forward">>
    <3>1. index \in Nat /\ captured \in Int
      BY <1>2
    <3> QED
      BY ONLY <1>6, <3>1, OutputsAre
  <2>2. out' = o
    BY <1>1, <1>4
  <2> HIDE DEF o, v
  <2> QED
    BY <2>1, <2>2
<1>8. Count = n /\ Count' = n + m /\ n \in Nat /\ Len(Said) \in Nat /\ Len(Said) <= n
  <2>1. Len(out) = 0 /\ n \in Nat
    BY <1>1, <1>2
  <2> QED
    BY <1>1, <2>1, SaidIsCalled DEF Count
<1> HIDE DEF v, n, m
<1>9. /\ \A k \in 1 .. n : New(k) = Entry(k)
      /\ \A j \in 1 .. m : New(n + j) = out'[j].entry
  <2>1. \A k \in 1 .. n : k <= n
    BY <1>8
  <2>2. \A j \in 1 .. m : ~ (n + j <= n) /\ (n + j) - n = j
    BY <1>7, <1>8
  <2> QED
    BY <2>1, <2>2
<1>10. \A k \in 1 .. n + m : Entry(k)' = New(k)
  <2> SUFFICES ASSUME NEW k \in 1 .. n + m PROVE Entry(k)' = New(k)
    OBVIOUS
  <2>1. n = Len(actions) /\ n = Len(actions')
    BY <1>1 DEF n
  <2>2. CASE k <= n
    BY <1>1, <2>1, <2>2 DEF Entry
  <2>3. CASE ~ (k <= n)
    BY <2>1, <2>3 DEF Entry
  <2> QED
    BY <2>2, <2>3
<1> HIDE DEF New
<1>11. DownStream'
  <2>1. /\ DOMAIN DownFrames \subseteq DOMAIN DownFrames'
        /\ \A s \in DOMAIN DownFrames : DownFrames'[s] = DownFrames[s]
    <3>1. DOMAIN DownFrames = 0 .. n - 1 /\ DOMAIN DownFrames' = 0 .. n + m - 1
      <4>1. DOMAIN DownFrames = 0 .. Count - 1 /\ DOMAIN DownFrames' = 0 .. Count' - 1
        BY DEF DownFrames
      <4>2. Count = n /\ Count' = n + m /\ n \in Nat /\ m \in Nat
        BY <1>7, <1>8
      <4>3. 0 .. Count - 1 = 0 .. n - 1 /\ 0 .. Count' - 1 = 0 .. n + m - 1
        BY <4>2
      <4> QED
        BY ONLY <4>1, <4>3
    <3>2. 0 .. n - 1 \subseteq 0 .. n + m - 1 /\ \A s \in 0 .. n - 1 : s + 1 \in 1 .. n
      BY <1>7, <1>8
    <3>3. \A s \in 0 .. n - 1 : DownFrames[s] = FrameOf(Entry(s + 1))
      BY <1>8 DEF DownFrames
    <3>4. \A s \in 0 .. n - 1 : s \in DOMAIN DownFrames' /\ s + 1 \in 1 .. n + m
      BY <1>7, <1>8, <3>1
    <3>5. ASSUME NEW s \in 0 .. n - 1 PROVE DownFrames'[s] = FrameOf(Entry(s + 1))
      <4> DEFINE k == s + 1
      <4>1. DownFrames'[s] = FrameOf(Entry(k))'
        BY <3>1, <3>4 DEF DownFrames
      <4>2. k \in 1 .. n + m /\ k \in 1 .. n
        BY <3>2, <3>4
      <4>3. Entry(k)' = Entry(k)
        BY <1>9, <1>10, <4>2
      <4> QED
        BY <4>1, <4>3 DEF FrameOf
    <3> QED
      BY <3>1, <3>2, <3>3, <3>4, <3>5
  <2>2. Flows(downGot, down, DownFrames, Len(Said), Sent, relayed)
    BY DEF DemoInv, DownStream
  <2>3. Flows(downGot, down, DownFrames', Len(Said), Sent, relayed)
    BY <2>1, <2>2, FlowsExtended
  <2>4. Said' = Said /\ Sent' = Sent
    BY <1>1 DEF Said, Sent
  <2>5. relayed = 0
    BY <1>1, <1>2 DEF DemoInv, DownStream
  <2> QED
    BY <1>1, <2>3, <2>4, <2>5 DEF DownStream
<1>12. Called(index)' = Called(index) \o v /\ Called(index) \in Seq(VerdictNames)
       /\ v \in Seq(VerdictNames) /\ Len(Called(index)) = n
  <2>1. Called(index)' = Called(index + 1)
    BY <1>1 DEF Called
  <2>2. Called(index + 1) = Called(index) \o v /\ Called(index) \in Seq(VerdictNames)
    BY <1>2, CalledNext DEF v
  <2>3. v \in Seq(VerdictNames)
    BY <1>2, RecordVerdicts DEF v
  <2>4. Len(Called(index)) = n
    BY <1>8, SaidIsCalled
  <2> QED
    BY <2>1, <2>2, <2>3, <2>4
<1>13. /\ Len(Called(index)') = n + m
       /\ \A k \in 1 .. n : Called(index)'[k] = Called(index)[k]
       /\ \A j \in 1 .. m : Called(index)'[n + j] = v[j]
  <2> DEFINE a == Called(index)
             c == Called(index)'
  <2>1. c = a \o v /\ a \in Seq(VerdictNames) /\ v \in Seq(VerdictNames)
        /\ Len(a) = n /\ Len(v) = m
    BY <1>7, <1>12
  <2> HIDE DEF a, c
  <2>2. Len(c) = n + m /\ (\A k \in 1 .. n : c[k] = a[k])
        /\ \A j \in 1 .. m : c[n + j] = v[j]
    BY ONLY <2>1, Joined
  <2> QED
    BY <2>2 DEF a, c
<1>14. /\ \A k \in 1 .. n : Entry(k) \in AnyEntry /\ Entry(k)[1] \in Nat /\ Entry(k)[1] < index
       /\ \A k \in 1 .. n : AnswerTo(Entry(k)[2]) = Called(index)[k]
       /\ captured >= 0 => \E k \in 1 .. n : Entry(k) = <<captured, "forward">>
  <2>1. \A k \in 1 .. n : Entry(k) = actions[k] /\ actions[k] \in AnyEntry
    BY <1>2, <1>8 DEF Entry, n
  <2>2. \A e \in AnyEntry : e[1] \in Nat
    BY DEF AnyEntry
  <2> QED
    BY <1>8, <2>1, <2>2 DEF DemoInv, LogPlanned
<1>15. \A k \in 1 .. n + m : k \in 1 .. n \/ (\E j \in 1 .. m : k = n + j)
  <2>1. \A k \in 1 .. n + m : k \in 1 .. n \/ (k - n \in 1 .. m /\ k = n + (k - n))
    BY <1>7, <1>8
  <2> QED
    BY <2>1
<1> DEFINE Fits(k) ==
      /\ New(k)[1] < index + 1
      /\ New(k)[2] # "replay" => \A j \in 1 .. k - 1 : New(j)[1] < New(k)[1]
      /\ New(k)[2] = "replay" =>
           /\ \E j \in 1 .. k - 1 : New(j) = <<New(k)[1], "forward">>
           /\ \A j \in 1 .. k - 1 : New(j)[1] - New(k)[1] < WindowSize
<1>16. ASSUME NEW k \in 1 .. n PROVE Fits(k)
  <2>1. \A j \in 1 .. k - 1 : j \in 1 .. n
    BY <1>8
  <2>2. \A j \in 1 .. k - 1 : New(j) = Entry(j)
    BY <1>9, <2>1
  <2>3. New(k) = Entry(k)
    BY <1>9
  <2>4. /\ Entry(k)[1] < index
        /\ Entry(k)[2] # "replay" => \A j \in 1 .. k - 1 : Entry(j)[1] < Entry(k)[1]
        /\ Entry(k)[2] = "replay" =>
             /\ \E j \in 1 .. k - 1 : Entry(j) = <<Entry(k)[1], "forward">>
             /\ \A j \in 1 .. k - 1 : Entry(j)[1] - Entry(k)[1] < WindowSize
    BY <1>8 DEF DemoInv, LogPlanned
  <2>5. Entry(k)[1] < index + 1
    BY <1>2, <1>14, <2>4, SMTT(30)
  <2> QED
    BY <2>2, <2>3, <2>4, <2>5
<1>17. ASSUME m > 0 PROVE Fits(n + 1)
  <2>1. New(n + 1)[1] = index /\ New(n + 1)[2] # "replay"
    <3>1. 1 \in 1 .. m
      BY <1>7, <1>17
    <3> QED
      BY <1>7, <1>9, <1>17, <3>1
  <2>2. \A j \in 1 .. (n + 1) - 1 : New(j)[1] < index
    BY <1>8, <1>9, <1>14
  <2>3. index < index + 1
    BY <1>2
  <2> QED
    BY <2>1, <2>2, <2>3
<1>18. ASSUME m = 2 PROVE Fits(n + 2)
  <2>1. New(n + 2) = <<captured, "replay">> /\ New(n + 1)[1] = index
    <3>1. 1 \in 1 .. m /\ 2 \in 1 .. m /\ m > 0
      BY <1>18
    <3> QED
      BY <1>7, <1>9, <1>18, <3>1
  <2>2. Planned(index) = "replay" /\ captured >= 0
    BY <1>6, <1>7, <1>18
  <2>3. PICK k \in 1 .. n : Entry(k) = <<captured, "forward">>
    BY <1>14, <2>2
  <2>4. captured < index
    <3>1. Entry(k)[1] < index /\ Entry(k)[1] = captured
      BY <1>14, <2>3
    <3> QED
      BY <3>1
  <2>5. k \in 1 .. (n + 2) - 1 /\ New(k) = <<captured, "forward">>
    BY <1>8, <1>9, <2>3
  <2>6. index < WindowSize
    BY <1>2, <2>2, RecordVerdicts DEF Tampering
  <2>7. ASSUME NEW j \in 1 .. (n + 2) - 1 PROVE New(j)[1] - captured < WindowSize
    <3>1. CASE j = n + 1
      <4>1. index - captured < WindowSize
        BY <1>2, <2>2, <2>6
      <4> QED
        BY <2>1, <3>1, <4>1
    <3>2. CASE j \in 1 .. n
      <4> DEFINE e == Entry(j)[1]
      <4>1. New(j)[1] = e /\ e \in Nat /\ e < index
        BY <1>9, <1>14, <3>2
      <4> HIDE DEF e
      <4>2. e - captured < WindowSize
        BY <1>2, <2>2, <2>6, <4>1
      <4> QED
        BY <4>1, <4>2
    <3>3. j = n + 1 \/ j \in 1 .. n
      BY <1>8
    <3> QED
      BY <3>1, <3>2, <3>3
  <2>8. New(n + 2)[1] = captured /\ New(n + 2)[2] = "replay" /\ captured < index + 1
    BY <1>2, <2>1, <2>4
  <2>9. \E j \in 1 .. (n + 2) - 1 : New(j) = <<New(n + 2)[1], "forward">>
    BY <2>5, <2>8
  <2>10. \A j \in 1 .. (n + 2) - 1 : New(j)[1] - New(n + 2)[1] < WindowSize
    BY <2>7, <2>8
  <2> QED
    BY <2>8, <2>9, <2>10
<1>19. \A k \in 1 .. n + m : Fits(k)
  <2>1. \A k \in 1 .. n + m : k \in 1 .. n \/ (m > 0 /\ k = n + 1) \/ (m = 2 /\ k = n + 2)
    <3>1. m \in {0, 1, 2} /\ n \in Nat
      BY <1>7, <1>8
    <3> QED
      BY ONLY <3>1
  <2> HIDE DEF Fits
  <2> QED
    BY <1>16, <1>17, <1>18, <2>1
<1>20. captured' >= 0 => \E k \in 1 .. n + m : New(k) = <<captured', "forward">>
  <2>1. CASE captured < 0 /\ Planned(index) = "forward"
    <3>1. captured' = index /\ m = 1 /\ 1 \in 1 .. m /\ n + 1 \in 1 .. n + m
      BY <1>1, <1>7, <1>8, <2>1
    <3>2. New(n + 1) = <<captured', "forward">>
      BY <1>7, <1>9, <2>1, <3>1
    <3> QED
      BY <3>1, <3>2
  <2>2. CASE ~ (captured < 0 /\ Planned(index) = "forward")
    <3>1. captured' = captured
      BY <1>1, <2>2
    <3> SUFFICES ASSUME captured >= 0
                 PROVE  \E k \in 1 .. n + m : New(k) = <<captured, "forward">>
      BY <3>1
    <3>2. PICK k \in 1 .. n : Entry(k) = <<captured, "forward">>
      BY <1>14
    <3>3. k \in 1 .. n + m
      BY <1>7, <1>8
    <3>4. New(k) = <<captured, "forward">>
      BY <1>9, <3>2
    <3> QED
      BY <3>3, <3>4
  <2> QED
    BY <2>1, <2>2
<1>21. captured' < 0 => \A i \in 0 .. index : Planned(i) # "forward"
  <2>1. captured' < 0 => captured < 0 /\ Planned(index) # "forward"
    BY <1>1, <1>2
  <2>2. captured < 0 => \A i \in 0 .. index - 1 : Planned(i) # "forward"
    BY DEF DemoInv, LogPlanned
  <2>3. \A i \in 0 .. index : i = index \/ i \in 0 .. index - 1
    BY <1>2
  <2> QED
    BY <2>1, <2>2, <2>3
<1>22. \A k \in 1 .. n + m : AnswerTo(New(k)[2]) = Called(index)'[k]
  <2>1. \A k \in 1 .. n : AnswerTo(New(k)[2]) = Called(index)'[k]
    BY <1>9, <1>13, <1>14
  <2>2. \A j \in 1 .. m : AnswerTo(New(n + j)[2]) = Called(index)'[n + j]
    BY <1>7, <1>9, <1>13
  <2> HIDE DEF Called
  <2> SUFFICES ASSUME NEW k \in 1 .. n + m
               PROVE  AnswerTo(New(k)[2]) = Called(index)'[k]
    OBVIOUS
  <2>3. CASE k \in 1 .. n
    BY <2>1, <2>3
  <2>4. CASE \E j \in 1 .. m : k = n + j
    BY <2>2, <2>4
  <2> QED
    BY <1>15, <2>3, <2>4
<1>23. LogPlanned'
  <2>1. (index + 1) - 1 = index /\ m = Len(out')
    BY <1>2 DEF m
  <2>2. \A j \in 1 .. Len(out') : out'[j].frame = FrameOf(out'[j].entry)
    BY <1>7, <2>1
  <2> HIDE DEF Called
  <2>3. \A k \in 1 .. n + m : \A j \in 1 .. k - 1 : j \in 1 .. n + m
    BY <1>7, <1>8
  <2>4. \A k \in 1 .. n + m :
          /\ Entry(k)'[1] < index + 1
          /\ Entry(k)'[2] # "replay" => \A j \in 1 .. k - 1 : Entry(j)'[1] < Entry(k)'[1]
          /\ Entry(k)'[2] = "replay" =>
               /\ \E j \in 1 .. k - 1 : Entry(j)' = <<Entry(k)'[1], "forward">>
               /\ \A j \in 1 .. k - 1 : Entry(j)'[1] - Entry(k)'[1] < WindowSize
    BY <1>10, <1>19, <2>3
  <2>5. /\ captured' >= 0 => \E k \in 1 .. n + m : Entry(k)' = <<captured', "forward">>
        /\ \A k \in 1 .. n + m : AnswerTo(Entry(k)'[2]) = Called(index)'[k]
    BY <1>10, <1>20, <1>22
  <2> QED
    BY <1>1, <1>8, <1>13, <1>21, <2>1, <2>2, <2>4, <2>5 DEF LogPlanned, FrameOf
<1>24. Heard'
  <2>1. Said' = Said /\ Len(Said) <= Count'
    BY <1>1, <1>7, <1>8 DEF Said
  <2>2. \A k \in 1 .. Len(Said) : Entry(k)' = Entry(k)
    <3>1. \A k \in 1 .. Len(Said) : k \in 1 .. n /\ k \in 1 .. n + m
      BY <1>7, <1>8
    <3> QED
      BY <1>9, <1>10, <3>1
  <2> QED
    BY <1>1, <2>1, <2>2 DEF DemoInv, Heard
<1>25. TypeOK'
  <2>1. captured' \in Int /\ index' \in Nat /\ <<>> \in Seq(AnyPiece)
    BY <1>1, <1>2
  <2> QED
    BY <1>1, <1>4, <1>7, <2>1 DEF DemoInv, TypeOK
<1>26. Control'
  BY <1>1, TotalKept DEF DemoInv, Control, Past, Broken, Gone
<1>27. Judgement'
  BY <1>1, TotalKept DEF DemoInv, Judgement
<1> QED
  BY <1>5, <1>11, <1>23, <1>24, <1>25, <1>26, <1>27 DEF DemoInv

-----------------------------------------------------------------------------
(***************************************************************************)
(* The steps of the receiver                                               *)
(***************************************************************************)
LEMMA ReceiverAcceptDemo == ASSUME DemoInv, ReceiverAccept PROVE DemoInv'
<1>1. /\ receiver = "accepting" /\ receiver' = "reading"
      /\ UNCHANGED <<downGot, window, stats, pending, verdicts,
                     records, slow, main, next, written, up, upOpen, result,
                     actor, upGot, index, out, relayed, captured, actions, down, downState>>
  BY DEF ReceiverAccept, mainVars, actorVars
<1>2. UpStream' /\ DownStream' /\ LogPlanned' /\ Heard'
  BY <1>1, UpKept, DownKept, LogKept, HeardKept DEF DemoInv
<1>3. TypeOK'
  BY <1>1 DEF DemoInv, TypeOK
<1>4. Said' = Said /\ Count' = Count
  BY <1>1 DEF Said, Count
<1>5. Control'
  BY <1>1, <1>4, TotalKept DEF DemoInv, Control, Past, Broken, Gone
<1>6. Judgement'
  BY <1>1, TotalKept DEF DemoInv, Judgement
<1> QED
  BY <1>2, <1>3, <1>5, <1>6 DEF DemoInv

LEMMA ReceiverDiesDemo == ASSUME DemoInv, ReceiverDies PROVE DemoInv'
<1>1. /\ receiver \in {"accepting", "reading"} /\ receiver' = "died"
      /\ UNCHANGED <<downGot, window, stats, pending, verdicts,
                     records, slow, main, next, written, up, upOpen, result,
                     actor, upGot, index, out, relayed, captured, actions, down, downState>>
  BY DEF ReceiverDies, mainVars, actorVars
<1>2. UpStream' /\ DownStream' /\ LogPlanned' /\ Heard'
  BY <1>1, UpKept, DownKept, LogKept, HeardKept DEF DemoInv
<1>3. TypeOK'
  BY <1>1 DEF DemoInv, TypeOK, Gone
<1>4. Said' = Said /\ Count' = Count
  BY <1>1 DEF Said, Count
<1>5. Control'
  BY <1>1, <1>4, TotalKept DEF DemoInv, Control, Past, Broken, Gone
<1>6. slow
  <2>1. slow \/ ~ ListenersOpen
    BY DEF ReceiverDies
  <2>2. ~ slow => ListenersOpen
    BY <1>1 DEF DemoInv, Judgement, ListenersOpen, Past
  <2> QED
    BY <2>1, <2>2
<1>7. Judgement'
  BY <1>1, <1>6, TotalKept DEF DemoInv, Judgement
<1> QED
  BY <1>2, <1>3, <1>5, <1>7 DEF DemoInv

\* Where the actor returned, the receiver has heard everything, and no part of a frame.
LEMMA ReceiverReturnDemo == ASSUME DemoInv, ReceiverReturn PROVE DemoInv'
<1>1. /\ receiver = "reading" /\ down = <<>> /\ downState = "closed" /\ receiver' = "returned"
      /\ UNCHANGED <<downGot, window, stats, pending, verdicts,
                     records, slow, main, next, written, up, upOpen, result,
                     actor, upGot, index, out, relayed, captured, actions, down, downState>>
  BY DEF ReceiverReturn, mainVars, actorVars
<1>2. UpStream' /\ DownStream' /\ LogPlanned' /\ Heard'
  BY <1>1, UpKept, DownKept, LogKept, HeardKept DEF DemoInv
<1>3. TypeOK'
  BY <1>1 DEF DemoInv, TypeOK, Gone
<1>4. Said' = Said /\ Count' = Count
  BY <1>1 DEF Said, Count
<1>5. actor \in Gone
  BY <1>1 DEF DemoInv, TypeOK, Control
<1>6. ASSUME actor = "returned" PROVE Len(Said) = Count /\ downGot = <<>>
  <2>1. out = <<>> /\ Len(out) = 0 /\ Len(actions) \in Nat
    BY <1>6, LengthOf DEF DemoInv, TypeOK, Control
  <2>2. relayed = 0 /\ Sent = Len(actions) /\ Count = Len(actions)
    BY <1>6, <2>1 DEF DemoInv, TypeOK, DownStream, Sent, Count
  <2>3. /\ downGot \in Seq(AnyPiece) /\ down \in Seq(AnyPiece) /\ Len(Said) \in Nat
        /\ Sent \in Nat /\ relayed \in 0 .. FrameUnits - 1
        /\ Flows(downGot, down, DownFrames, Len(Said), Sent, relayed)
    BY <2>1, <2>2, SaidIsCalled DEF DemoInv, TypeOK, DownStream
  <2>4. /\ Len(Said) <= Sent
        /\ Len(Said) = Sent => Len(downGot) + Len(down) = relayed
        /\ relayed = 0 /\ Len(down) = 0 => Len(downGot) = 0 /\ Len(Said) = Sent
    BY <2>3, FlowsForward
  <2>5. Len(down) = 0
    BY <1>1
  <2> QED
    BY <2>2, <2>3, <2>4, <2>5
<1>7. Control'
  BY <1>1, <1>4, <1>5, <1>6, TotalKept DEF DemoInv, Control, Past, Broken, Gone
<1>8. Judgement'
  BY <1>1, TotalKept DEF DemoInv, Judgement
<1> QED
  BY <1>2, <1>3, <1>7, <1>8 DEF DemoInv

LEMMA ReceiverPieceDemo == ASSUME DemoInv, ReceiverPiece PROVE DemoInv'
<1>1. /\ receiver = "reading" /\ down # <<>> /\ Len(downGot) + 1 < FrameUnits
      /\ downGot' = Append(downGot, Head(down)) /\ down' = Tail(down)
      /\ UNCHANGED <<receiver, window, stats, pending, verdicts,
                     records, slow, main, next, written, up, upOpen, result,
                     actor, upGot, index, out, relayed, captured, actions, downState>>
  BY DEF ReceiverPiece, mainVars
<1>2. /\ downGot \in Seq(AnyPiece) /\ down \in Seq(AnyPiece) /\ Len(Said) \in Nat
      /\ Sent \in Nat /\ relayed \in Nat
      /\ Flows(downGot, down, DownFrames, Len(Said), Sent, relayed)
  <2>1. Len(actions) \in Nat
    BY LengthOf DEF DemoInv, TypeOK
  <2> QED
    BY <2>1, SaidIsCalled, Units DEF DemoInv, TypeOK, DownStream, Sent
<1>3. DOMAIN DownFrames \subseteq Nat
  BY SaidIsCalled DEF DownFrames
<1>4. /\ downGot' \in Seq(AnyPiece) /\ down' \in Seq(AnyPiece)
      /\ Flows(downGot', down', DownFrames, Len(Said), Sent, relayed)
  BY <1>1, <1>2, <1>3, PieceTaken
<1>5. DownFrames' = DownFrames /\ Said' = Said /\ Sent' = Sent /\ Count' = Count
  BY <1>1, EntriesKept DEF Said, Sent
<1>6. DownStream'
  BY <1>1, <1>4, <1>5 DEF DemoInv, DownStream
<1>7. UpStream' /\ LogPlanned' /\ Heard'
  BY <1>1, UpKept, LogKept, HeardKept DEF DemoInv
<1>8. TypeOK'
  BY <1>1, <1>4 DEF DemoInv, TypeOK
<1>9. Control'
  BY <1>1, <1>5, TotalKept DEF DemoInv, Control, Past, Broken, Gone
<1>10. Judgement'
  BY <1>1, TotalKept DEF DemoInv, Judgement
<1> QED
  BY <1>6, <1>7, <1>8, <1>9, <1>10 DEF DemoInv

\* Logging a verdict says nothing new.
LEMMA ReceiverLogDemo == ASSUME DemoInv, ReceiverLog PROVE DemoInv'
<1>1. /\ receiver = "logging" /\ receiver' = "reading" /\ pending' = "none"
      /\ verdicts' = Append(verdicts, pending)
      /\ UNCHANGED <<downGot, window, stats,
                     records, slow, main, next, written, up, upOpen, result,
                     actor, upGot, index, out, relayed, captured, actions, down, downState>>
  BY DEF ReceiverLog, mainVars, actorVars
<1>2. pending \in VerdictNames /\ pending # "none" /\ verdicts \in Seq(VerdictNames)
  BY <1>1 DEF DemoInv, TypeOK, Control
<1>3. Said' = Said
  BY <1>1, <1>2 DEF Said
<1>4. /\ DownFrames' = DownFrames /\ Sent' = Sent /\ Count' = Count
      /\ \A k : Entry(k)' = Entry(k)
  BY <1>1, EntriesKept DEF Sent
<1>5. UpStream' /\ LogPlanned'
  BY <1>1, UpKept, LogKept DEF DemoInv
<1>6. DownStream'
  BY <1>1, <1>3, <1>4 DEF DemoInv, DownStream
<1>7. Heard'
  BY <1>1, <1>3, <1>4 DEF DemoInv, Heard
<1>8. TypeOK'
  <2>1. verdicts' \in Seq(VerdictNames)
    <3>1. Append(verdicts, pending) \in Seq(VerdictNames)
      BY ONLY <1>2
    <3> QED
      BY <1>1, <3>1
  <2> QED
    BY <1>1, <2>1 DEF DemoInv, TypeOK
<1>9. Control'
  BY <1>1, <1>3, <1>4, TotalKept DEF DemoInv, Control, Past, Broken, Gone
<1>10. Judgement'
  BY <1>1, TotalKept DEF DemoInv, Judgement
<1> QED
  BY <1>5, <1>6, <1>7, <1>8, <1>9, <1>10 DEF DemoInv

LEMMA EntriesTyped == ASSUME DemoInv PROVE \A k \in 1 .. Count : Entry(k) \in AnyEntry
<1>1. /\ actions \in Seq(AnyEntry) /\ out \in Seq([frame : AnyFrame, entry : AnyEntry])
  BY DEF DemoInv, TypeOK
<1>2. Len(actions) \in Nat /\ Len(out) \in Nat
  BY <1>1, LengthOf
<1>3. \A j \in 1 .. Len(out) : out[j].entry \in AnyEntry
  <2> DEFINE R == [frame : AnyFrame, entry : AnyEntry]
  <2>1. out \in Seq(R) /\ \A r \in R : r.entry \in AnyEntry
    BY <1>1
  <2> HIDE DEF R
  <2> QED
    BY <2>1
<1> SUFFICES ASSUME NEW k \in 1 .. Count PROVE Entry(k) \in AnyEntry
  OBVIOUS
<1>4. CASE k <= Len(actions)
  <2>1. k \in 1 .. Len(actions)
    BY <1>2, <1>4
  <2> QED
    BY <1>1, <1>4, <2>1 DEF Entry
<1>5. CASE ~ (k <= Len(actions))
  <2>1. k - Len(actions) \in 1 .. Len(out)
    BY <1>2, <1>5 DEF Count
  <2> QED
    BY <1>3, <1>5, <2>1 DEF Entry
<1> QED
  BY <1>4, <1>5

\* The window answers every frame as the log says: a new record is ahead of it, a
\* replayed one is in it.
LEMMA VerdictDue ==
  ASSUME DemoInv, Len(Said) < Count
  PROVE  LET e == Entry(Len(Said) + 1)
         IN  /\ e \in AnyEntry /\ VerdictOn(FrameOf(e)) = AnswerTo(e[2])
             /\ e[2] = "forward" => window.highest < e[1]
<1> DEFINE m == Len(Said)
           e == Entry(m + 1)
<1>1. /\ m \in Nat /\ Count \in Nat /\ Len(Said) < Count
      /\ window \in Window /\ window.highest \in Int
  BY SaidIsCalled DEF DemoInv, TypeOK, Window
<1>2. \A k \in 1 .. Count : Entry(k) \in AnyEntry
  BY EntriesTyped
<1>3. m + 1 \in 1 .. Count /\ (m + 1) - 1 = m /\ \A k \in 1 .. m : k \in 1 .. Count
  BY <1>1
<1>4. e \in AnyEntry
  BY <1>2, <1>3
<1>5. /\ e[2] # "replay" => \A j \in 1 .. m : Entry(j)[1] < e[1]
      /\ e[2] = "replay" => /\ \E j \in 1 .. m : Entry(j) = <<e[1], "forward">>
                            /\ \A j \in 1 .. m : Entry(j)[1] - e[1] < WindowSize
  BY <1>3 DEF DemoInv, LogPlanned
<1>6. /\ \A k \in 1 .. m : Entry(k)[2] = "forward" =>
           /\ Entry(k)[1] <= window.highest
           /\ window.highest - Entry(k)[1] < WindowSize =>
                window.highest - Entry(k)[1] \in window.bitmap
      /\ \/ window.highest = -1
         \/ \E k \in 1 .. m : Entry(k) = <<window.highest, "forward">>
  BY DEF DemoInv, Heard
<1> HIDE DEF m, e
<1>7. e[1] \in Nat /\ e[2] \in {"forward", "replay"} \cup Tampering
  BY <1>4 DEF AnyEntry
<1> DEFINE h == window.highest
<1>8. /\ AnswerTo("forward") = "accepted" /\ AnswerTo("replay") = "REPLAY_DETECTED"
      /\ \A way \in Tampering : AnswerTo(way) = "AUTH_FAILED" /\ way # "replay"
      /\ "forward" \notin Tampering /\ "replay" \notin Tampering
  BY DEF AnswerTo, Answers, Tampering
<1>9. /\ FrameOf(e) # Garbled /\ FrameOf(e).seq = e[1]
      /\ FrameOf(e).intact = (e[2] \notin Tampering)
  BY <1>7 DEF FrameOf, Frame, Garbled
<1>10. CASE e[2] # "replay"
  <2>1. h < e[1]
    <3>1. CASE h = -1
      BY <1>7, <3>1
    <3>2. CASE \E k \in 1 .. m : Entry(k) = <<h, "forward">>
      <4>1. PICK k \in 1 .. m : Entry(k) = <<h, "forward">>
        BY <3>2
      <4>2. Entry(k)[1] < e[1] /\ Entry(k)[1] = h
        BY <1>5, <1>10, <4>1
      <4> QED
        BY <4>2
    <3> QED
      BY <1>6, <3>1, <3>2
  <2>2. WindowCheck(window, e[1]) = "FRESH"
    BY <1>1, <1>7, <2>1 DEF WindowCheck, Ahead
  <2>3. VerdictOn(FrameOf(e)) = IF e[2] \notin Tampering THEN "accepted" ELSE "AUTH_FAILED"
    BY <1>9, <2>2 DEF VerdictOn
  <2>4. VerdictOn(FrameOf(e)) = AnswerTo(e[2])
    BY <1>7, <1>8, <1>10, <2>3
  <2> QED
    BY <1>4, <2>1, <2>4 DEF e, m
<1>11. CASE e[2] = "replay"
  <2>1. PICK j \in 1 .. m : Entry(j) = <<e[1], "forward">>
    BY <1>5, <1>11
  <2>2. e[1] <= h /\ (h - e[1] < WindowSize => h - e[1] \in window.bitmap)
    <3>1. Entry(j)[2] = "forward" /\ Entry(j)[1] = e[1]
      BY <2>1
    <3> QED
      BY <1>6, <3>1
  <2>3. h - e[1] < WindowSize
    <3>1. h # -1
      BY <1>1, <1>7, <2>2
    <3>2. PICK k \in 1 .. m : Entry(k) = <<h, "forward">>
      BY <1>6, <3>1
    <3>3. Entry(k)[1] - e[1] < WindowSize /\ Entry(k)[1] = h
      BY <1>5, <1>11, <3>2
    <3> QED
      BY <3>3
  <2>4. WindowCheck(window, e[1]) = "DUPLICATE"
    <3>1. ~ (e[1] < 0) /\ ~ Ahead(window, e[1]) /\ ~ Behind(window, e[1])
      BY <1>1, <1>7, <2>2, <2>3 DEF Ahead, Behind
    <3> QED
      BY <2>2, <2>3, <3>1 DEF WindowCheck
  <2>5. VerdictOn(FrameOf(e)) = "REPLAY_DETECTED"
    BY <1>9, <2>4 DEF VerdictOn
  <2>6. VerdictOn(FrameOf(e)) = AnswerTo(e[2]) /\ e[2] # "forward"
    BY <1>8, <1>11, <2>5
  <2> QED
    BY <1>4, <2>6 DEF e, m
<1> QED
  BY <1>10, <1>11

\* The window knows what it knew, as far as it reaches, and the record it has taken.
LEMMA WindowTakesNew ==
  ASSUME NEW w \in Window, NEW s \in Nat, w.highest < s
  PROVE  /\ WindowCommit(w, s) \in Window /\ WindowCommit(w, s).highest = s
         /\ 0 < WindowSize => 0 \in WindowCommit(w, s).bitmap
         /\ \A r \in Nat :
              /\ r <= w.highest
              /\ w.highest - r < WindowSize => w.highest - r \in w.bitmap
              /\ s - r < WindowSize
              => s - r \in WindowCommit(w, s).bitmap
<1> DEFINE h == w.highest
           B == Shifted(w, s)
<1>1. h \in Int /\ w.bitmap \in SUBSET Nat /\ w.accepted \in Nat /\ h < s
  BY DEF Window
<1>2. WindowCommit(w, s) = [highest |-> s, bitmap |-> B, accepted |-> w.accepted + 1]
  BY <1>1 DEF WindowCommit, WindowTakes, Ahead
<1>3. CASE h < 0 \/ s - h >= WindowSize
  <2>1. B = {0}
    BY <1>3 DEF Shifted
  <2>2. \A r \in Nat : r <= h => ~ (s - r < WindowSize)
    BY <1>1, <1>3
  <2> HIDE DEF B, h
  <2> QED
    BY <1>1, <1>2, <2>1, <2>2 DEF Window, h
<1>4. CASE ~ (h < 0 \/ s - h >= WindowSize)
  <2>1. B = {i \in {j + (s - h) : j \in w.bitmap} \cup {0} : i < WindowSize}
    BY <1>4 DEF Shifted
  <2>2. B \subseteq Nat
    BY <1>1, <1>4, <2>1
  <2>3. 0 < WindowSize => 0 \in B
    BY <2>1
  <2>4. ASSUME NEW r \in Nat, r <= h, h - r < WindowSize => h - r \in w.bitmap,
               s - r < WindowSize
        PROVE  s - r \in B
    <3>1. h - r \in w.bitmap
      BY <1>1, <1>4, <2>4
    <3>2. (h - r) + (s - h) = s - r
      BY <1>1
    <3> HIDE DEF B, h
    <3> QED
      BY <2>1, <2>4, <3>1, <3>2
  <2> HIDE DEF B, h
  <2> QED
    BY <1>1, <1>2, <2>2, <2>3, <2>4 DEF Window, h
<1> QED
  BY <1>3, <1>4

LEMMA AtLeast ==
  ASSUME NEW a \in Nat, NEW b \in Nat, NEW c \in Nat, c >= b, b >= a
  PROVE  c >= a
OBVIOUS

\* The receiver judges the next frame of the log, as is due to its entry.
LEMMA FrameJudged ==
  ASSUME DemoInv, ReceiverReceive
  PROVE  LET m == Len(Said)
             e == Entry(m + 1)
             v == AnswerTo(e[2])
         IN  /\ m \in Nat /\ m < Count /\ Count \in Nat /\ Said \in Seq(VerdictNames)
             /\ e \in AnyEntry /\ v \in VerdictNames /\ v # "none"
             /\ v = "accepted" <=> e[2] = "forward"
             /\ e[2] = "forward" => window.highest < e[1]
             /\ down' \in Seq(AnyPiece)
             /\ Flows(<<>>, down', DownFrames, m + 1, Sent, relayed)
             /\ Said' = Append(Said, v) /\ pending' = v
             /\ stats' = [stats EXCEPT ![v] = @ + 1]
             /\ window' = IF v = "accepted" THEN WindowCommit(window, e[1]) ELSE window
<1> DEFINE m == Len(Said)
           e == Entry(m + 1)
           f == Assembled(Append(downGot, Head(down)))
           v == AnswerTo(e[2])
<1>1. /\ receiver = "reading" /\ down # <<>> /\ Len(downGot) + 1 = FrameUnits
      /\ down' = Tail(down) /\ downGot' = <<>> /\ receiver' = "logging"
      /\ pending' = VerdictOn(f)
      /\ stats' = [stats EXCEPT ![VerdictOn(f)] = @ + 1]
      /\ window' = IF VerdictOn(f) = "accepted" THEN WindowCommit(window, f.seq) ELSE window
      /\ UNCHANGED <<verdicts, records, slow, main, next, written, up, upOpen, result,
                     actor, upGot, index, out, relayed, captured, actions, downState>>
  BY DEF ReceiverReceive, Judge, mainVars
<1>2. /\ downGot \in Seq(AnyPiece) /\ down \in Seq(AnyPiece) /\ m \in Nat
      /\ Sent \in Nat /\ relayed \in Nat /\ Count \in Nat
      /\ Flows(downGot, down, DownFrames, m, Sent, relayed)
  <2>1. Len(actions) \in Nat
    BY LengthOf DEF DemoInv, TypeOK
  <2> QED
    BY <2>1, SaidIsCalled, Units DEF DemoInv, TypeOK, DownStream, Sent
<1>3. DOMAIN DownFrames = 0 .. Count - 1 /\ DOMAIN DownFrames \subseteq Nat
  BY <1>2 DEF DownFrames
<1>4. /\ m \in DOMAIN DownFrames /\ down' \in Seq(AnyPiece)
      /\ Flows(<<>>, down', DownFrames, m + 1, Sent, relayed)
      /\ f = DownFrames[m]
  <2> HIDE DEF m
  <2>1. down # <<>>
    BY <1>1
  <2>2. /\ m \in DOMAIN DownFrames /\ Tail(down) \in Seq(AnyPiece)
        /\ Len(downGot) + 1 = FrameUnits =>
             /\ Flows(<<>>, Tail(down), DownFrames, m + 1, Sent, relayed)
             /\ Assembled(Append(downGot, Head(down))) = DownFrames[m]
    BY ONLY <1>2, <1>3, <2>1, PieceTaken
  <2> QED
    BY <1>1, <2>2
<1>5. m < Count /\ f = FrameOf(e)
  <2>1. m < Count
    BY <1>2, <1>3, <1>4
  <2>2. DownFrames[m] = FrameOf(Entry(m + 1))
    BY <1>3, <1>4 DEF DownFrames
  <2> QED
    BY <1>4, <2>1, <2>2
<1> HIDE DEF f
<1>6. /\ e \in AnyEntry /\ VerdictOn(f) = v /\ f.seq = e[1]
      /\ v \in VerdictNames /\ v # "none"
      /\ v = "accepted" <=> e[2] = "forward"
      /\ e[2] = "forward" => window.highest < e[1]
  <2>1. /\ e \in AnyEntry /\ VerdictOn(f) = v /\ (e[2] = "forward" => window.highest < e[1])
    BY <1>5, VerdictDue
  <2>2. f.seq = e[1]
    BY <1>5 DEF FrameOf, Frame
  <2>3. e[2] \in {"forward", "replay"} \cup Tampering
    BY <2>1 DEF AnyEntry
  <2> HIDE DEF e
  <2>4. v \in VerdictNames /\ v # "none" /\ (v = "accepted" <=> e[2] = "forward")
    BY <2>3 DEF AnswerTo, Answers, Tampering, VerdictNames
  <2> QED
    BY <2>1, <2>2, <2>4
<1>7. Said \in Seq(VerdictNames) /\ pending = "none" /\ Said = verdicts
  BY <1>1, SaidIsCalled DEF DemoInv, Control, Said
<1>8. Said' = Append(Said, v)
  <2> HIDE DEF v
  <2> QED
    BY <1>1, <1>6, <1>7 DEF Said
<1> QED
  BY <1>1, <1>2, <1>4, <1>5, <1>6, <1>7, <1>8

LEMMA ReceiverReceiveDemo == ASSUME DemoInv, ReceiverReceive PROVE DemoInv'
<1> DEFINE m == Len(Said)
           e == Entry(m + 1)
           v == AnswerTo(e[2])
<1>1. /\ receiver = "reading" /\ receiver' = "logging" /\ downGot' = <<>>
      /\ UNCHANGED <<verdicts, records, slow, main, next, written, up, upOpen, result,
                     actor, upGot, index, out, relayed, captured, actions, downState>>
  BY DEF ReceiverReceive, Judge, mainVars
<1>2. /\ m \in Nat /\ m < Count /\ Count \in Nat /\ Said \in Seq(VerdictNames)
      /\ e \in AnyEntry /\ v \in VerdictNames /\ v # "none"
      /\ v = "accepted" <=> e[2] = "forward"
      /\ e[2] = "forward" => window.highest < e[1]
  BY FrameJudged
<1>3. /\ down' \in Seq(AnyPiece)
      /\ Flows(<<>>, down', DownFrames, m + 1, Sent, relayed)
  BY FrameJudged
<1>4. /\ Said' = Append(Said, v) /\ pending' = v
      /\ stats' = [stats EXCEPT ![v] = @ + 1]
      /\ window' = IF v = "accepted" THEN WindowCommit(window, e[1]) ELSE window
  BY FrameJudged
<1> HIDE DEF v
<1>9. /\ Len(Said') = m + 1 /\ Said'[m + 1] = v /\ \A k \in 1 .. m : Said'[k] = Said[k]
  BY <1>2, <1>4
<1>10. /\ DownFrames' = DownFrames /\ Sent' = Sent /\ Count' = Count
       /\ \A k : Entry(k)' = Entry(k)
  BY <1>1, EntriesKept DEF Sent
<1>11. UpStream' /\ LogPlanned'
  BY <1>1, UpKept, LogKept DEF DemoInv
<1>12. DownStream'
  <2>1. Flows(downGot', down', DownFrames', Len(Said'), Sent', relayed')
    BY <1>1, <1>3, <1>9, <1>10
  <2> QED
    BY <1>1, <2>1 DEF DemoInv, DownStream
<1> HIDE DEF m, e
<1>13. m + 1 <= Count /\ \A k \in 1 .. m + 1 : k \in 1 .. m \/ k = m + 1
  BY <1>2
<1>14. \A k \in 1 .. m + 1 : Said'[k] = AnswerTo(Entry(k)[2])
  <2>1. \A k \in 1 .. m : Said[k] = AnswerTo(Entry(k)[2])
    BY DEF DemoInv, Heard, m
  <2>2. Said'[m + 1] = AnswerTo(Entry(m + 1)[2])
    BY <1>9 DEF v, e
  <2> QED
    BY <1>9, <1>13, <2>1, <2>2
<1> DEFINE Known(k, w) ==
      Entry(k)[2] = "forward" =>
        /\ Entry(k)[1] <= w.highest
        /\ w.highest - Entry(k)[1] < WindowSize => w.highest - Entry(k)[1] \in w.bitmap
<1>15. /\ \A k \in 1 .. m : Known(k, window)
       /\ \/ window.highest = -1
          \/ \E k \in 1 .. m : Entry(k) = <<window.highest, "forward">>
  BY DEF DemoInv, Heard, m
<1>16. /\ window' \in Window
       /\ \A k \in 1 .. m + 1 : Known(k, window')
       /\ \/ window'.highest = -1
          \/ \E k \in 1 .. m + 1 : Entry(k) = <<window'.highest, "forward">>
  <2>1. window \in Window /\ window.highest \in Int
    BY DEF DemoInv, TypeOK, Window
  <2>2. Entry(m + 1) = e
    BY DEF e
  <2>3. CASE v = "accepted"
    <3>1. window' = WindowCommit(window, e[1]) /\ e[1] \in Nat /\ window.highest < e[1]
          /\ e = <<e[1], "forward">>
      BY <1>2, <1>4, <2>3 DEF AnyEntry
    <3> DEFINE w == window'
    <3>2. /\ w \in Window /\ w.highest = e[1] /\ (0 < WindowSize => 0 \in w.bitmap)
          /\ \A r \in Nat :
               /\ r <= window.highest
               /\ window.highest - r < WindowSize => window.highest - r \in window.bitmap
               /\ e[1] - r < WindowSize
               => e[1] - r \in w.bitmap
      BY <2>1, <3>1, WindowTakesNew
    <3> HIDE DEF w
    <3>3. Known(m + 1, w)
      <4>1. e[1] - e[1] = 0 /\ e[1] <= e[1]
        BY <3>1
      <4> QED
        BY <2>2, <3>2, <4>1
    <3>4. ASSUME NEW k \in 1 .. m PROVE Known(k, w)
      <4> SUFFICES ASSUME Entry(k)[2] = "forward"
                   PROVE  /\ Entry(k)[1] <= w.highest
                          /\ w.highest - Entry(k)[1] < WindowSize =>
                               w.highest - Entry(k)[1] \in w.bitmap
        OBVIOUS
      <4> DEFINE r == Entry(k)[1]
      <4>1. r \in Nat
        <5>1. k \in 1 .. Count
          BY <1>2, <1>13
        <5> QED
          BY <5>1, EntriesTyped DEF AnyEntry
      <4>2. /\ r <= window.highest
            /\ window.highest - r < WindowSize => window.highest - r \in window.bitmap
        BY <1>15
      <4> HIDE DEF r
      <4>3. r <= e[1]
        BY <2>1, <3>1, <4>1, <4>2
      <4>4. e[1] - r < WindowSize => e[1] - r \in w.bitmap
        BY <3>2, <4>1, <4>2
      <4> QED
        BY <3>2, <4>3, <4>4 DEF r
    <3>5. Entry(m + 1) = <<w.highest, "forward">> /\ m + 1 \in 1 .. m + 1
      BY <1>2, <2>2, <3>1, <3>2
    <3> HIDE DEF Known
    <3>6. \A k \in 1 .. m + 1 : Known(k, w)
      BY <1>13, <3>3, <3>4
    <3> QED
      BY <3>2, <3>5, <3>6 DEF w
  <2>4. CASE v # "accepted"
    <3>1. window' = window /\ e[2] # "forward"
      BY <1>2, <1>4, <2>4
    <3>2. Known(m + 1, window)
      BY <2>2, <3>1
    <3>3. \A k \in 1 .. m : k \in 1 .. m + 1
      BY <1>2
    <3> HIDE DEF Known
    <3> QED
      BY <1>13, <1>15, <2>1, <3>1, <3>2, <3>3
  <2> QED
    BY <2>3, <2>4
<1>17. /\ stats \in [Counters -> Nat] /\ VerdictNames \subseteq Counters
       /\ \A c \in VerdictNames : stats[c] = Among(m, Places(Said, c))
       /\ stats["MALFORMED"] = 0 /\ stats["STALE_RECORD"] = 0
  BY DEF DemoInv, TypeOK, Heard, m, VerdictNames, Counters
<1>18. /\ stats' \in [Counters -> Nat]
       /\ \A c \in Counters : stats'[c] = IF c = v THEN stats[c] + 1 ELSE stats[c]
  BY <1>2, <1>4, <1>17
<1>19. ASSUME NEW c \in VerdictNames PROVE stats'[c] = Among(m + 1, Places(Said', c))
  <2>1. Among(m + 1, Places(Said', c)) =
          Among(m, Places(Said', c)) + (IF m + 1 \in Places(Said', c) THEN 1 ELSE 0)
    BY <1>2, AmongNext
  <2>2. \A x \in 1 .. m : x \in Places(Said', c) <=> x \in Places(Said, c)
    BY <1>9 DEF Places
  <2>3. Among(m, Places(Said', c)) = Among(m, Places(Said, c))
    BY <2>2, AmongSame
  <2>4. m + 1 \in Places(Said', c) <=> c = v
    BY <1>2, <1>9 DEF Places
  <2>5. stats[c] \in Nat /\ c \in Counters
    BY <1>17
  <2> QED
    BY <1>17, <1>18, <2>1, <2>3, <2>4, <2>5
<1>20. stats'["MALFORMED"] = 0 /\ stats'["STALE_RECORD"] = 0
  BY <1>2, <1>17, <1>18 DEF Counters, VerdictNames
<1>21. Heard'
  <2>1. /\ m + 1 <= Count'
        /\ \A k \in 1 .. m + 1 : Said'[k] = AnswerTo(Entry(k)'[2])
        /\ \A k \in 1 .. m + 1 : Entry(k)'[2] = "forward" =>
             /\ Entry(k)'[1] <= window'.highest
             /\ window'.highest - Entry(k)'[1] < WindowSize =>
                  window'.highest - Entry(k)'[1] \in window'.bitmap
        /\ \/ window'.highest = -1
           \/ \E k \in 1 .. m + 1 : Entry(k)' = <<window'.highest, "forward">>
    BY <1>10, <1>13, <1>14, <1>16
  <2>2. Len(Said') = m + 1
    BY <1>9
  <2> QED
    BY <1>19, <1>20, <2>1, <2>2 DEF Heard, Places, Among
<1>22. TypeOK'
  <2>1. pending' \in VerdictNames /\ <<>> \in Seq(AnyPiece)
    BY <1>2, <1>4
  <2> QED
    BY <1>1, <1>3, <1>16, <1>18, <2>1 DEF DemoInv, TypeOK
<1>23. Control'
  <2>1. pending' # "none"
    BY <1>2, <1>4
  <2> QED
    BY <1>1, <2>1, TotalKept DEF DemoInv, Control, Past, Over, Broken, Gone
<1>24. Judgement'
  <2>1. result # "PASS"
    <3> SUFFICES ASSUME result = "PASS" PROVE FALSE
      OBVIOUS
    <3>1. \A c \in VerdictNames : stats[c] = Among(Total, Leading(c))
      BY DEF DemoInv, Judgement
    <3>2. m = Len(Called(Total))
      BY <3>1, CountersBound DEF m
    <3> QED
      BY <1>2, <3>2, SaidIsCalled
  <2>2. stats["accepted"] \in Nat /\ stats'["accepted"] >= stats["accepted"]
    <3>1. "accepted" \in Counters
      BY DEF Counters
    <3>2. stats["accepted"] \in Nat
      BY <1>17, <3>1
    <3>3. stats'["accepted"] \in {stats["accepted"], stats["accepted"] + 1}
      BY <1>18, <3>1
    <3> QED
      BY <3>2, <3>3
  <2>3. main = "judging rejections" => stats'["accepted"] >= Among(Total, Leading("accepted"))
    <3>1. Among(Total, Leading("accepted")) \in Nat
      BY CountersBound DEF VerdictNames
    <3>2. main = "judging rejections" => stats["accepted"] >= Among(Total, Leading("accepted"))
      BY DEF DemoInv, Judgement
    <3>3. stats'["accepted"] \in Nat
      BY <1>18 DEF Counters
    <3> QED
      BY <2>2, <3>1, <3>2, <3>3, AtLeast
  <2>4. ~ slow => /\ main \notin Past \ {"joining receiver"} /\ actor # "died"
                  /\ main \in Broken => records > RecordLimit
    BY <1>1 DEF DemoInv, Judgement
  <2>5. main = "judging rejections" => records >= 0
    BY DEF DemoInv, Judgement
  <2> QED
    BY <1>1, <2>1, <2>3, <2>4, <2>5, TotalKept DEF Judgement, Past, Over
<1> QED
  BY <1>11, <1>12, <1>21, <1>22, <1>23, <1>24 DEF DemoInv

-----------------------------------------------------------------------------
(***************************************************************************)
(* The theorems                                                            *)
(***************************************************************************)
LEMMA NextDemo == DemoInv /\ [Next]_vars => DemoInv'
<1> SUFFICES ASSUME DemoInv, [Next]_vars PROVE DemoInv'
  OBVIOUS
<1>1. CASE MainStep
  BY <1>1, ConnectDemo, SendRecordDemo, CloseUpDemo, RaisesDemo, JoinsDemo,
     JudgeAcceptedDemo, JudgeRejectionsDemo, ProgramEndsDemo DEF MainStep
<1>2. CASE ActorStep
  BY <1>2, ActorAcceptDemo, ActorRecvPieceDemo, ActorRecvDemo, ActorSendDemo, ActorLogDemo,
     ActorReturnDemo, ActorDiesDemo DEF ActorStep
<1>3. CASE ReceiverStep
  BY <1>3, ReceiverAcceptDemo, ReceiverPieceDemo, ReceiverReceiveDemo, ReceiverLogDemo,
     ReceiverReturnDemo, ReceiverDiesDemo DEF ReceiverStep
<1>4. CASE UNCHANGED vars
  <2>1. UNCHANGED <<records, slow, main, next, written, up, upOpen, result,
                    actorVars, receiverVars>>
    BY <1>4 DEF vars, mainVars
  <2>2. /\ DownStream' /\ LogPlanned' /\ Heard' /\ Count' = Count /\ Said' = Said
        /\ UNCHANGED <<actor, upGot, index, out, relayed, captured, actions, down, downState,
                       receiver, downGot, window, stats, pending, verdicts>>
    BY <2>1, MainLeaves
  <2>3. UpStream'
    BY <2>1, <2>2, UpKept DEF DemoInv
  <2>4. TypeOK'
    BY <2>1, <2>2 DEF DemoInv, TypeOK
  <2>5. Control'
    BY <2>1, <2>2, TotalKept DEF DemoInv, Control
  <2>6. Judgement'
    BY <2>1, <2>2, TotalKept DEF DemoInv, Judgement
  <2> QED
    BY <2>2, <2>3, <2>4, <2>5, <2>6 DEF DemoInv
<1> QED
  BY <1>1, <1>2, <1>3, <1>4 DEF Next

\* However the three threads interleave and wherever one stops, the streams carry whole
\* frames in order, the log is the plan's and the receiver's answers are those due.
THEOREM DemoAccounted == Spec => []DemoInv
<1>1. Spec => Init /\ [][Next]_vars
  BY PTL DEF Spec
<1> QED
  BY <1>1, InitDemo, NextDemo, PTL

\* The n-th verdict answers the n-th action, and is never more than one ahead
\* (run_network_demo.py:115-118, 215).
THEOREM PrintedSideBySide == Spec => []LogsLineUp
<1>1. ASSUME DemoInv PROVE LogsLineUp
  <2>1. /\ actions \in Seq(AnyEntry) /\ verdicts \in Seq(VerdictNames)
        /\ out \in Seq([frame : AnyFrame, entry : AnyEntry])
        /\ downGot \in Seq(AnyPiece) /\ down \in Seq(AnyPiece)
        /\ relayed \in 0 .. FrameUnits - 1
        /\ Flows(downGot, down, DownFrames, Len(Said), Sent, relayed)
    BY <1>1 DEF DemoInv, TypeOK, DownStream
  <2>2. Len(actions) \in Nat /\ Len(verdicts) \in Nat /\ Len(Said) \in Nat
    BY <1>1, <2>1, LengthOf, SaidIsCalled
  <2>3. Len(verdicts) <= Len(Said) /\ \A k \in 1 .. Len(verdicts) : Said[k] = verdicts[k]
    <3>1. CASE pending = "none"
      BY <2>2, <3>1 DEF Said
    <3>2. CASE pending # "none"
      <4>1. pending \in VerdictNames
        BY <1>1, <3>2 DEF DemoInv, TypeOK
      <4> QED
        BY <2>1, <2>2, <3>2, <4>1 DEF Said
    <3> QED
      BY <3>1, <3>2
  <2>4. Sent \in Nat /\ Sent <= Len(actions) + 1
    BY <2>2 DEF Sent
  <2>5. Len(Said) <= Sent
    BY <2>1, <2>2, <2>4, FlowsForward
  <2>6. Len(verdicts) <= Len(actions) + 1
    BY <2>2, <2>3, <2>4, <2>5
  <2>7. ASSUME NEW k \in DOMAIN actions \cap DOMAIN verdicts
        PROVE  verdicts[k] = AnswerTo(actions[k][2])
    <3>1. k \in 1 .. Len(actions) /\ k \in 1 .. Len(verdicts)
      BY <2>1, <2>7
    <3>2. k \in 1 .. Len(Said) /\ k <= Len(actions)
      BY <2>2, <2>3, <3>1
    <3>3. Said[k] = AnswerTo(Entry(k)[2])
      BY <1>1, <3>2 DEF DemoInv, Heard
    <3>4. Entry(k) = actions[k]
      BY <3>2 DEF Entry
    <3> QED
      BY <2>3, <3>1, <3>3, <3>4
  <2> QED
    BY <2>6, <2>7 DEF LogsLineUp
<1> QED
  BY <1>1, DemoAccounted, PTL

\* No frame that was cut short is judged.  The actor takes one for the end of the stream
\* only in a run that an exception in main ends, the receiver only where the actor died
\* and PASS is not printed (run_network_demo.py:62-69).
THEOREM NoFrameTorn == Spec => []FramesStayWhole
<1>1. ASSUME DemoInv PROVE FramesStayWhole
  <2>1. stats.MALFORMED = 0 /\ (actor = "returned" /\ upGot # <<>> => main \in Broken)
    BY <1>1 DEF DemoInv, Heard, Control
  <2>2. ASSUME receiver = "returned", downGot # <<>> PROVE actor = "died" /\ result # "PASS"
    <3>1. actor = "died"
      BY <1>1, <2>2 DEF DemoInv, Control, Gone
    <3>2. ASSUME result = "PASS" PROVE FALSE
      <4>1. \A v \in VerdictNames : stats[v] = Among(Total, Leading(v))
        BY <1>1, <3>2 DEF DemoInv, Judgement
      <4>2. Len(Said) = Len(Called(Total))
        BY <1>1, <4>1, CountersBound
      <4>3. Len(Said) = Count /\ Len(Said) \in Nat
        BY <1>1, <4>2, SaidIsCalled
      <4>4. /\ downGot \in Seq(AnyPiece) /\ down \in Seq(AnyPiece)
            /\ Flows(downGot, down, DownFrames, Len(Said), Sent, relayed)
        BY <1>1 DEF DemoInv, TypeOK, DownStream
      <4>5. Len(downGot) > 0
        BY <2>2, <4>4
      <4>6. Len(Said) \in DOMAIN DownFrames
        BY <4>4, <4>5 DEF Flows
      <4>7. Len(Said) <= Count - 1
        BY <4>6 DEF DownFrames
      <4> QED
        BY <4>3, <4>7
    <3> QED
      BY <3>1, <3>2
  <2> QED
    BY <2>1, <2>2 DEF FramesStayWhole, Broken
<1> QED
  BY <1>1, DemoAccounted, PTL

\* Without long waits main raises only where --records is beyond the budget of the key,
\* and what is printed is PASS exactly for the counts from 0 to the budget, whatever the
\* plan (run_network_demo.py:147-152, 178-242).
THEOREM PromptRunsPass == Spec => []AlwaysPasses
<1>1. ASSUME DemoInv PROVE AlwaysPasses
  <2> SUFFICES ASSUME ~ slow
               PROVE  /\ main \in {"raising", "raised"} => records > RecordLimit
                      /\ result # "none" => (result = "PASS" <=> records \in 0 .. RecordLimit)
    BY DEF AlwaysPasses
  <2>1. main \in {"raising", "raised"} => records > RecordLimit
    BY <1>1 DEF DemoInv, Judgement, Broken
  <2>2. ASSUME result # "none" PROVE result = "PASS" <=> records \in 0 .. RecordLimit
    <3>1. main \in Over /\ next = Total
      BY <1>1, <2>2 DEF DemoInv, Control, Over, Past
    <3>2. Total <= RecordLimit /\ records \in Int
      BY <1>1, <3>1 DEF DemoInv, UpStream, TypeOK
    <3>3. result = "PASS" <=> records >= 0
      BY <1>1, <3>1 DEF DemoInv, Judgement
    <3> QED
      BY <3>2, <3>3 DEF Total
  <2> QED
    BY <2>1, <2>2
<1> QED
  BY <1>1, DemoAccounted, PTL

\* A negative count calls for what the count 0 calls for: nothing.
LEMMA CalledTotal == ASSUME records \in Int PROVE Called(records) = Called(Total)
<1>1. 1 .. records = 1 .. Total
  BY DEF Total
<1> QED
  BY <1>1 DEF Called, Promised!PlannedVerdicts

LEMMA SaidAll ==
  ASSUME DemoInv
  PROVE  /\ Said = Called(Total) <=> Len(Said) = Len(Called(Total))
         /\ Said = Called(Total)
              <=> \A v \in VerdictNames : stats[v] = Among(Total, Leading(v))
<1> DEFINE C == Called(Total)
<1>1. /\ Said \in Seq(VerdictNames) /\ Len(Said) \in Nat
      /\ \A k \in 1 .. Len(Said) : Said[k] = C[k]
  BY SaidIsCalled
<1>2. C \in Seq(VerdictNames)
  BY InOrder, CalledNext
<1>3. Len(Said) = Len(C) <=> \A v \in VerdictNames : stats[v] = Among(Total, Leading(v))
  BY CountersBound
<1> HIDE DEF C
<1>4. Said = C <=> Len(Said) = Len(C)
  BY ONLY <1>1, <1>2
<1> QED
  BY <1>3, <1>4 DEF C

\* The receiver's verdicts are the planned ones, one after the other, and PASS is printed
\* exactly over all of them: every step of the program is one of the plan's, or none.
THEOREM PlanCarriedOut == Spec => ImplementsPlan
<1>1. Init => Promised!Init
  BY DEF Init, Promised!Init
<1>2. DemoInv /\ [Next]_vars =>
        [Promised!JudgeNext \/ Promised!Announce]_(Promised!planVars)
  <2> SUFFICES ASSUME DemoInv, [Next]_vars
               PROVE  [Promised!JudgeNext \/ Promised!Announce]_(Promised!planVars)
    OBVIOUS
  <2>1. (result = "none" <=> main \notin Over) /\ records \in Int
    BY DEF DemoInv, Control, TypeOK
  <2>2. ASSUME UNCHANGED <<records, result>>, Said' = Said
        PROVE  UNCHANGED Promised!planVars
    BY <2>2 DEF Promised!planVars, Said
  <2>3. ASSUME result = "none", UNCHANGED <<records, Said>>,
               result' = IF records >= 0 /\ Said = Called(Total) THEN "PASS" ELSE "FAIL"
        PROVE  Promised!Announce
    <3>1. result' = IF records >= 0 /\ Said = Called(records) THEN "PASS" ELSE "FAIL"
      BY <2>1, <2>3, CalledTotal
    <3> QED
      BY <2>3, <3>1 DEF Promised!Announce, Said, Called
  <2>4. CASE JudgeAccepted
    <3>1. main = "judging" /\ UNCHANGED <<records, actorVars, receiverVars>>
      BY <2>4 DEF JudgeAccepted
    <3>2. Said' = Said
      BY <3>1, MainLeaves
    <3>3. CASE stats["accepted"] = Expected["accepted"]
      BY <2>2, <2>4, <3>1, <3>2, <3>3 DEF JudgeAccepted
    <3>4. CASE stats["accepted"] # Expected["accepted"]
      <4>1. records >= 0 => Expected["accepted"] = Among(Total, Leading("accepted"))
        BY <2>1, ExpectedCounts DEF VerdictNames
      <4>2. ~ (records >= 0 /\ Said = Called(Total))
        BY <3>4, <4>1, SaidAll DEF VerdictNames
      <4>3. result' = "FAIL"
        BY <2>4, <3>4 DEF JudgeAccepted
      <4> QED
        BY <2>1, <2>3, <3>1, <3>2, <4>2, <4>3 DEF Over
    <3> QED
      BY <3>3, <3>4
  <2>5. CASE JudgeRejections
    <3>1. /\ main = "judging rejections" /\ UNCHANGED <<records, actorVars, receiverVars>>
          /\ result' = IF Rejections(stats) = Rejections(Expected) THEN "PASS" ELSE "FAIL"
      BY <2>5 DEF JudgeRejections
    <3>2. Said' = Said
      BY <3>1, MainLeaves
    <3>3. Rejections(stats) = Rejections(Expected) <=> Said = Called(Total)
      BY <3>1, PassIffComplete, SaidAll
    <3>4. records >= 0
      BY <3>1 DEF DemoInv, Judgement
    <3> QED
      BY <2>1, <2>3, <3>1, <3>2, <3>3, <3>4 DEF Over
  <2>6. CASE \/ Connect \/ SendRecord \/ CloseUp \/ ProtectRaises \/ SendRaises
             \/ JoinReceiver \/ JoinActor \/ ProgramEnds
    <3>1. UNCHANGED <<records, result, actorVars, receiverVars>>
      BY <2>6 DEF Connect, SendRecord, CloseUp, ProtectRaises, SendRaises, LeaveSending,
                  JoinReceiver, JoinActor, ProgramEnds
    <3> QED
      BY <2>2, <3>1, MainLeaves
  <2>7. CASE ActorStep
    <3>1. UNCHANGED <<records, result, pending, verdicts>>
      BY <2>7 DEF ActorStep, ActorAccept, ActorRecvPiece, ActorRecv, ActorSend, ActorLog,
                  ActorReturn, ActorDies, mainVars, receiverVars
    <3> QED
      BY <2>2, <3>1 DEF Said
  <2>8. CASE ReceiverAccept \/ ReceiverPiece \/ ReceiverReturn \/ ReceiverDies
    <3>1. UNCHANGED <<records, result, pending, verdicts>>
      BY <2>8 DEF ReceiverAccept, ReceiverPiece, ReceiverReturn, ReceiverDies, mainVars
    <3> QED
      BY <2>2, <3>1 DEF Said
  <2>9. CASE ReceiverLog
    <3>1. /\ receiver = "logging" /\ pending' = "none" /\ verdicts' = Append(verdicts, pending)
          /\ UNCHANGED <<records, result>>
      BY <2>9 DEF ReceiverLog, mainVars
    <3>2. pending # "none"
      BY <3>1 DEF DemoInv, Control
    <3> QED
      BY <2>2, <3>1, <3>2 DEF Said
  <2>10. CASE ReceiverReceive
    <3> DEFINE m == Len(Said)
               v == AnswerTo(Entry(m + 1)[2])
    <3>1. /\ m \in Nat /\ m < Count /\ Said' = Append(Said, v)
          /\ UNCHANGED <<records, result>>
      BY <2>10, FrameJudged DEF ReceiverReceive, mainVars
    <3>2. /\ Count = Len(Called(index)) /\ Count <= Len(Called(Total))
          /\ Len(Called(Total)) \in Nat /\ Count \in Nat
      BY SaidIsCalled
    <3>3. m + 1 \in 1 .. Count
      BY <3>1, <3>2
    <3>4. v = Called(index)[m + 1]
      BY <3>3 DEF DemoInv, LogPlanned
    <3>5. Called(Total)[m + 1] = Called(index)[m + 1]
      <4>1. index \in Nat /\ Total \in Nat /\ index <= Total
        BY InOrder
      <4>2. \A k \in 1 .. Len(Called(index)) : Called(Total)[k] = Called(index)[k]
        BY <4>1, CalledPrefix
      <4> HIDE DEF Called, m
      <4> QED
        BY <3>2, <3>3, <4>2
    <3>6. m < Len(Called(records))
      BY <2>1, <3>1, <3>2, CalledTotal
    <3>7. Said' = Append(Said, Called(records)[m + 1])
      BY <2>1, <3>1, <3>4, <3>5, CalledTotal
    <3> QED
      BY <3>1, <3>6, <3>7 DEF Promised!JudgeNext, Said, Called
  <2>11. CASE UNCHANGED vars
    BY <2>2, <2>11 DEF vars, mainVars, receiverVars, Said
  <2> QED
    BY <2>4, <2>5, <2>6, <2>7, <2>8, <2>9, <2>10, <2>11 DEF Next, MainStep, ReceiverStep
<1>3. Spec => Init /\ [][Next]_vars
  BY PTL DEF Spec
<1> QED
  BY <1>1, <1>2, <1>3, DemoAccounted, PTL DEF ImplementsPlan, Promised!Spec
=============================================================================

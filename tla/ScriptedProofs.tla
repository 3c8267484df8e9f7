--------------------------- MODULE ScriptedProofs ---------------------------
(***************************************************************************)
(* Proofs about ScriptedDemos for every set of prefixes the channels draw  *)
(* from, every record count, every budget that covers the scripts, every   *)
(* replay window of the policy and every number of restarts.  What a       *)
(* script does at each step comes first, then what one delivery does to a  *)
(* window, then what holds between two steps of each script, and last one  *)
(* lemma for every phase of it.                                            *)
(***************************************************************************)
EXTENDS ScriptedDemos, SequenceTheorems, FiniteSetTheorems, TLAPS

(***************************************************************************)
(* Scripts, step by step                                                   *)
(***************************************************************************)
\* A part of a script, and two parts one after the other.
Part(q, S, n) == q \in Seq(S) /\ Len(q) = n

Joins(q, s, t, S, m, n) ==
  /\ Part(q, S, m + n)
  /\ \A i \in 1 .. m : q[i] = s[i]
  /\ \A i \in m + 1 .. m + n : q[i] = t[i - m]

LEMMA Joined ==
  ASSUME NEW S, NEW s, NEW t, NEW m \in Nat, NEW n \in Nat, Part(s, S, m), Part(t, S, n)
  PROVE  Joins(s \o t, s, t, S, m, n)
<1>1. s \in Seq(S) /\ t \in Seq(S) /\ Len(s) = m /\ Len(t) = n
  BY DEF Part
<1>2. /\ s \o t \in Seq(S)
      /\ Len(s \o t) = Len(s) + Len(t)
      /\ \A i \in 1 .. Len(s) + Len(t) :
           (s \o t)[i] = IF i <= Len(s) THEN s[i] ELSE t[i - Len(s)]
  BY <1>1, ConcatProperties
<1>3. Part(s \o t, S, m + n)
  BY <1>1, <1>2 DEF Part
<1>4. \A i \in 1 .. m : (s \o t)[i] = s[i]
  BY <1>1, <1>2
<1>5. \A i \in m + 1 .. m + n : (s \o t)[i] = t[i - m]
  BY <1>1, <1>2
<1> QED
  BY <1>3, <1>4, <1>5 DEF Joins

LEMMA Repeated ==
  ASSUME NEW S, NEW step \in S, NEW n \in Nat
  PROVE  /\ Part(Times(n, step), S, n)
         /\ \A i \in 1 .. n : Times(n, step)[i] = step
  BY DEF Times, Part

\* A part that stands on another channel.
Onto(step, c) == [step EXCEPT !.on = c]

Moves(q, s, S, c, n) ==
  /\ Part(q, {Onto(step, c) : step \in S}, n)
  /\ \A i \in 1 .. n : q[i] = Onto(s[i], c)

LEMMA Moved ==
  ASSUME NEW S, NEW n \in Nat, NEW s, Part(s, S, n), NEW c
  PROVE  Moves(On(c, s), s, S, c, n)
<1> DEFINE T == {Onto(step, c) : step \in S}
<1>1. DOMAIN s = 1 .. n /\ \A i \in 1 .. n : s[i] \in S
  BY LenProperties, ElementOfSeq DEF Part
<1>2. On(c, s) = [i \in 1 .. n |-> Onto(s[i], c)]
  BY <1>1 DEF On, Onto
<1>3. \A i \in 1 .. n : Onto(s[i], c) \in T
  BY <1>1
<1> HIDE DEF T
<1>4. On(c, s) \in Seq(T)
  BY <1>2, <1>3
<1>5. DOMAIN On(c, s) = 1 .. n
  BY <1>2
<1>6. Len(On(c, s)) = n
  BY <1>4, <1>5, LenProperties
<1>7. \A i \in 1 .. n : On(c, s)[i] = Onto(s[i], c)
  BY <1>2
<1> QED
  BY <1>4, <1>6, <1>7 DEF T, Part, Moves

\* TR-1: one empty record and six others.
LEMMA TR1Steps ==
  /\ Len(TR1) = 8
  /\ TR1[1] = NewChannel
  /\ TR1[2] = [Accepted EXCEPT !.payload = "empty"]
  /\ \A i \in {3, 4, 5, 6, 8} : TR1[i] = Accepted
  /\ TR1[7] = NeedsPlaintext(Accepted)
<1> DEFINE o == NewChannel  e == [Accepted EXCEPT !.payload = "empty"]  a == Accepted
           p == NeedsPlaintext(Accepted)
           S == {o, e, a, p}  s == <<o, e>>  t == Times(4, a)  u == <<p, a>>
           st == s \o t
<1>1. TR1 = st \o u
  BY DEF TR1
<1> HIDE DEF o, e, a, p
<1>2. Part(t, S, 4) /\ \A i \in 1 .. 4 : t[i] = a
  BY Repeated
<1>3. Part(s, S, 2) /\ Part(u, S, 2)
  BY DEF Part
<1>4. s[1] = o /\ s[2] = e /\ u[1] = p /\ u[2] = a
  OBVIOUS
<1> HIDE DEF S, s, t, u
<1>5. Joins(st, s, t, S, 2, 4)
  BY <1>2, <1>3, Joined
<1> HIDE DEF st
<1>6. Part(st, S, 6)
  BY <1>5 DEF Joins
<1>7. Joins(st \o u, st, u, S, 6, 2)
  BY <1>3, <1>6, Joined
<1> DEFINE w == st \o u
<1>8. Joins(w, st, u, S, 6, 2)
  BY <1>7
<1> HIDE DEF w
<1>9. Len(w) = 8
  BY <1>8 DEF Joins, Part
<1>10. w[1] = o /\ w[2] = e /\ \A i \in 3 .. 6 : w[i] = a
  BY <1>2, <1>4, <1>5, <1>8 DEF Joins
<1>11. w[7] = p /\ w[8] = a
  BY <1>4, <1>8 DEF Joins
<1> QED
  BY <1>1, <1>9, <1>10, <1>11, SMTT(30) DEF o, e, a, p, w

LEMMA Widened ==
  ASSUME NEW S, NEW T, NEW n, NEW q, Part(q, S, n), S \subseteq T
  PROVE  Part(q, T, n)
  BY SeqMonotonic DEF Part

DamagedProbe == Probe(Damaged, {"AUTH_FAILED"})
CutProbe == NeedsReason(Probe(Shortened(4), {"MALFORMED"}))

LEMMA TR2Steps ==
  /\ Len(TR2) = 67
  /\ TR2[1] = NewChannel
  /\ TR2[2] = NeedsReason(DamagedProbe)
  /\ \A i \in 3 .. 66 : TR2[i] = DamagedProbe
  /\ TR2[67] = CutProbe
<1> DEFINE o == NewChannel  d == NeedsReason(DamagedProbe)  p == DamagedProbe  c == CutProbe
           S == {o, d, p, c}  s == <<o, d>>  t == Times(64, p)  u == <<c>>
           st == s \o t
<1>1. TR2 = st \o u
  BY DEF TR2, DamagedProbe, CutProbe
<1> HIDE DEF o, d, p, c
<1>2. Part(t, S, 64) /\ \A i \in 1 .. 64 : t[i] = p
  BY Repeated
<1>3. Part(s, S, 2) /\ Part(u, S, 1)
  BY DEF Part
<1>4. s[1] = o /\ s[2] = d /\ u[1] = c
  OBVIOUS
<1> HIDE DEF S, s, t, u
<1>5. Joins(st, s, t, S, 2, 64)
  BY <1>2, <1>3, Joined
<1> HIDE DEF st
<1>6. Part(st, S, 66)
  BY <1>5 DEF Joins
<1>7. Joins(st \o u, st, u, S, 66, 1)
  BY <1>3, <1>6, Joined
<1> DEFINE w == st \o u
<1>8. Joins(w, st, u, S, 66, 1)
  BY <1>7
<1> HIDE DEF w
<1>9. Len(w) = 67
  BY <1>8 DEF Joins, Part
<1>10. w[1] = o /\ w[2] = d /\ \A i \in 3 .. 66 : w[i] = p
  BY <1>2, <1>4, <1>5, <1>8 DEF Joins
<1>11. w[67] = c
  BY <1>4, <1>8 DEF Joins
<1> QED
  BY <1>1, <1>9, <1>10, <1>11 DEF o, d, p, c, w

\* TR-3: 128 flipped tags, 256 random ones, a zeroed one and a short one.
LEMMA TR3Steps ==
  /\ Len(TR3) = 388
  /\ TR3[1] = NewChannel
  /\ TR3[2] = NeedsReason(DamagedProbe)
  /\ \A i \in 3 .. 387 : TR3[i] \in {DamagedProbe, Probe(Damaged, Rejected)}
  /\ TR3[388] = CutProbe
<1> DEFINE o == NewChannel  d == NeedsReason(DamagedProbe)  p == DamagedProbe  c == CutProbe
           r == Probe(Damaged, Rejected)
           S == {o, d, p, c, r}  s == <<o, d>>  t == Times(128, p)  v == Times(256, r)
           u == <<p, c>>  st == s \o t  sv == st \o v
<1>1. TR3 = sv \o u
  BY DEF TR3, DamagedProbe, CutProbe
<1> HIDE DEF o, d, p, c, r
<1>2. Part(t, S, 128) /\ \A i \in 1 .. 128 : t[i] = p
  BY Repeated, ZenonT(30)
<1>3. Part(v, S, 256) /\ \A i \in 1 .. 256 : v[i] = r
  <2>1. r \in S /\ 256 \in Nat
    OBVIOUS
  <2> HIDE DEF S
  <2> QED
    BY <2>1, Repeated, ZenonT(30)
<1>4. Part(s, S, 2) /\ Part(u, S, 2)
  BY DEF Part
<1>5. s[1] = o /\ s[2] = d /\ u[1] = p /\ u[2] = c
  OBVIOUS
<1> HIDE DEF S, s, t, u, v
<1>6. Joins(st, s, t, S, 2, 128)
  BY <1>2, <1>4, Joined
<1> HIDE DEF st
<1>7. Part(st, S, 130)
  BY <1>6 DEF Joins
<1>8. Joins(sv, st, v, S, 130, 256)
  BY <1>3, <1>7, Joined
<1> HIDE DEF sv
<1>9. Part(sv, S, 386)
  BY <1>8 DEF Joins
<1>10. Joins(sv \o u, sv, u, S, 386, 2)
  BY <1>4, <1>9, Joined
<1> DEFINE w == sv \o u
<1>11. Joins(w, sv, u, S, 386, 2)
  BY <1>10
<1> HIDE DEF w
<1>12. Len(w) = 388
  BY <1>11 DEF Joins, Part
<1>13. w[1] = o /\ w[2] = d /\ \A i \in 3 .. 130 : w[i] = p
  <2>1. \A i \in 1 .. 386 : w[i] = sv[i]
    BY <1>11 DEF Joins
  <2>2. \A i \in 1 .. 130 : w[i] = st[i]
    <3>1. \A i \in 1 .. 130 : sv[i] = st[i]
      BY <1>8 DEF Joins
    <3> QED
      BY <2>1, <3>1
  <2>3. \A i \in 3 .. 130 : st[i] = t[i - 2]
    BY <1>6 DEF Joins
  <2>4. st[1] = s[1] /\ st[2] = s[2]
    BY <1>6 DEF Joins
  <2>5. \A i \in 3 .. 130 : w[i] = p
    BY <2>2, <2>3, <1>2
  <2> QED
    BY <2>2, <2>4, <2>5, <1>5
<1>14. \A i \in 131 .. 386 : w[i] = r
  <2>1. \A i \in 131 .. 386 : w[i] = sv[i]
    BY <1>11 DEF Joins
  <2>2. \A i \in 131 .. 386 : sv[i] = v[i - 130]
    BY <1>8 DEF Joins
  <2> QED
    BY <2>1, <2>2, <1>3
<1>15. w[387] = p /\ w[388] = c
  BY <1>5, <1>11 DEF Joins
<1>16. \A i \in 3 .. 387 : i \in 3 .. 130 \/ i \in 131 .. 386 \/ i = 387
  OBVIOUS
<1>17. \A i \in 3 .. 387 : w[i] \in {p, r}
  BY <1>13, <1>14, <1>15, <1>16
<1> QED
  BY <1>1, <1>12, <1>13, <1>15, <1>17, ZenonT(30) DEF o, d, p, c, r, w

\* TR-4: the sweep's steps flip one bit of one field each.
SweepSteps ==
  {Probe(FlipBit(field, mask), Attribution(field)) : field \in Fields, mask \in Nat \ {0}}

Bits(field) == Len(FieldMasks[field])

SweepLength ==
  Bits("version") + Bits("suite") + Bits("type") + Bits("session") + Bits("stream")
    + Bits("prefix") + Bits("seq") + Bits("len")

LEMMA BitsTyped == \A field \in Fields : Bits(field) \in Nat
  BY DemosAssumption, LenProperties DEF Bits

LEMMA SweepOfSteps ==
  ASSUME NEW field \in Fields
  PROVE  Part(SweepOf(field), SweepSteps, Bits(field))
<1>1. FieldMasks[field] \in Seq(Nat \ {0}) /\ Bits(field) \in Nat
  BY DemosAssumption, BitsTyped
<1>2. \A b \in 1 .. Bits(field) : FieldMasks[field][b] \in Nat \ {0}
  BY <1>1, ElementOfSeq DEF Bits
<1> DEFINE e(b) == Probe(FlipBit(field, FieldMasks[field][b]), Attribution(field))
<1>3. \A b \in 1 .. Bits(field) : e(b) \in SweepSteps
  BY <1>2 DEF SweepSteps
<1> HIDE DEF e
<1>4. [b \in 1 .. Bits(field) |-> e(b)] \in Seq(SweepSteps)
  BY <1>1, <1>3
<1>5. SweepOf(field) = [b \in 1 .. Bits(field) |-> e(b)]
  BY DEF SweepOf, Bits, e
<1>6. Len([b \in 1 .. Bits(field) |-> e(b)]) = Bits(field)
  BY <1>1
<1> QED
  BY <1>4, <1>5, <1>6 DEF Part

LEMMA SweepInSteps == Part(Sweep, SweepSteps, SweepLength)
<1> DEFINE a == SweepOf("version")  b == a \o SweepOf("suite")  c == b \o SweepOf("type")
           d == c \o SweepOf("session")  e == d \o SweepOf("stream")
           f == e \o SweepOf("prefix")  g == f \o SweepOf("seq")  h == g \o SweepOf("len")
           m == Bits("version")  n == m + Bits("suite")  o == n + Bits("type")
           p == o + Bits("session")  q == p + Bits("stream")  r == q + Bits("prefix")
           s == r + Bits("seq")
<1>1. Sweep = h
  BY DEF Sweep
<1>2. /\ m \in Nat /\ Bits("suite") \in Nat /\ Bits("type") \in Nat
      /\ Bits("session") \in Nat /\ Bits("stream") \in Nat /\ Bits("prefix") \in Nat
      /\ Bits("seq") \in Nat /\ Bits("len") \in Nat
  BY BitsTyped DEF Fields
<1>3. n \in Nat /\ o \in Nat /\ p \in Nat /\ q \in Nat /\ r \in Nat /\ s \in Nat
  BY <1>2
<1>4. ASSUME NEW x, NEW k \in Nat, Part(x, SweepSteps, k), NEW field \in Fields
      PROVE  Part(x \o SweepOf(field), SweepSteps, k + Bits(field))
  BY <1>4, SweepOfSteps, BitsTyped, Joined DEF Joins
<1>5. Part(a, SweepSteps, m)
  BY SweepOfSteps DEF Fields
<1> HIDE DEF a, m
<1>6. Part(b, SweepSteps, n)
  BY <1>2, <1>4, <1>5 DEF Fields
<1> HIDE DEF b, n
<1>7. Part(c, SweepSteps, o)
  BY <1>3, <1>4, <1>6 DEF Fields
<1> HIDE DEF c, o
<1>8. Part(d, SweepSteps, p)
  BY <1>3, <1>4, <1>7 DEF Fields
<1> HIDE DEF d, p
<1>9. Part(e, SweepSteps, q)
  BY <1>3, <1>4, <1>8 DEF Fields
<1> HIDE DEF e, q
<1>10. Part(f, SweepSteps, r)
  BY <1>3, <1>4, <1>9 DEF Fields
<1> HIDE DEF f, r
<1>11. Part(g, SweepSteps, s)
  BY <1>3, <1>4, <1>10 DEF Fields
<1> HIDE DEF g, s
<1>12. Part(h, SweepSteps, s + Bits("len"))
  BY <1>3, <1>4, <1>11 DEF Fields
<1> HIDE DEF h
<1>13. s + Bits("len") = SweepLength
  BY DEF SweepLength, m, n, o, p, q, r, s
<1> QED
  BY <1>1, <1>12, <1>13

LEMMA TR4Steps ==
  ASSUME NEW own
  PROVE  /\ SweepLength \in Nat
         /\ Len(TR4(own)) = 10 + SweepLength
         /\ TR4(own)[1] = NewChannel
         /\ TR4(own)[2] = Step("send")
         /\ \A i \in 3 .. 10 : TR4(own)[i] = Probe(TR4Cases(own)[i - 2], Rejected)
         /\ \A i \in 11 .. 10 + SweepLength : TR4(own)[i] \in SweepSteps
<1> DEFINE e(i) == Probe(TR4Cases(own)[i], Rejected)
           S == {NewChannel, Step("send")} \cup {e(i) : i \in 1 .. 8} \cup SweepSteps
           s == <<NewChannel, Step("send")>>  t == [i \in 1 .. 8 |-> e(i)]
           st == s \o t  u == Sweep  l == SweepLength
<1>1. TR4(own) = st \o u
  BY DEF TR4
<1>2. l \in Nat
  <2>1. /\ Bits("version") \in Nat /\ Bits("suite") \in Nat /\ Bits("type") \in Nat
        /\ Bits("session") \in Nat /\ Bits("stream") \in Nat /\ Bits("prefix") \in Nat
        /\ Bits("seq") \in Nat /\ Bits("len") \in Nat
    BY BitsTyped DEF Fields
  <2> QED
    BY <2>1 DEF SweepLength
<1>3. Part(u, SweepSteps, l)
  BY SweepInSteps
<1> HIDE DEF l, u
<1>4. Part(u, S, l)
  BY <1>3, Widened
<1>5. \A i \in 1 .. l : u[i] \in SweepSteps
  BY <1>3, ElementOfSeq DEF Part
<1>6. Part(s, S, 2)
  BY DEF Part
<1>7. Part(t, S, 8)
  <2> HIDE DEF e
  <2> QED
    BY DEF Part
<1>8. s[1] = NewChannel /\ s[2] = Step("send") /\ \A i \in 1 .. 8 : t[i] = e(i)
  <2> HIDE DEF e
  <2> QED
    OBVIOUS
<1> HIDE DEF S, s, t, e
<1>9. Joins(st, s, t, S, 2, 8)
  BY <1>6, <1>7, Joined
<1> HIDE DEF st
<1>10. Part(st, S, 10)
  BY <1>9 DEF Joins
<1>11. Joins(st \o u, st, u, S, 10, l)
  BY <1>2, <1>4, <1>10, Joined
<1> DEFINE w == st \o u
<1>12. Joins(w, st, u, S, 10, l)
  BY <1>11
<1> HIDE DEF w
<1>13. Len(w) = 10 + l
  BY <1>12 DEF Joins, Part
<1>14. \A i \in 1 .. 10 : w[i] = st[i]
  BY <1>12 DEF Joins
<1>15. w[1] = NewChannel /\ w[2] = Step("send")
  BY <1>8, <1>9, <1>14 DEF Joins
<1>16. \A i \in 3 .. 10 : w[i] = e(i - 2)
  BY <1>8, <1>9, <1>14 DEF Joins
<1>17. \A i \in 11 .. 10 + l : w[i] = u[i - 10] /\ i - 10 \in 1 .. l
  BY <1>2, <1>12 DEF Joins
<1>18. \A i \in 11 .. 10 + l : w[i] \in SweepSteps
  BY <1>5, <1>17
<1> QED
  BY <1>1, <1>2, <1>13, <1>15, <1>16, <1>18 DEF e, w, l

StrangerAgain == NeedsReason([Again(0, Unaltered, {"AUTH_FAILED"}) EXCEPT !.to = "stranger"])
ProbeTo(who) == [Probe(Unaltered, Rejected) EXCEPT !.to = who]
ForgedAgain == NeedsReason(Again(-1, Forged, {"AUTH_FAILED"}))

LEMMA TR6Steps ==
  /\ Len(TR6) = 362
  /\ TR6[1] = NewChannel
  /\ TR6[2] = Step("send")
  /\ TR6[3] = Again(0, Unaltered, {"ACCEPTED"})
  /\ TR6[4] = StrangerAgain
  /\ \A i \in 5 .. 104 : TR6[i] = ProbeTo("stranger")
  /\ \A i \in 105 .. 360 : TR6[i] = ProbeTo("near_miss")
  /\ TR6[361] = Probe(Unaltered, AllVerdicts)
  /\ TR6[362] = ForgedAgain
<1> DEFINE o == NewChannel  d == Step("send")  a == Again(0, Unaltered, {"ACCEPTED"})
           b == StrangerAgain  p == ProbeTo("stranger")  r == ProbeTo("near_miss")
           c == Probe(Unaltered, AllVerdicts)  f == ForgedAgain
           S == {o, d, a, b, p, r, c, f}  s == <<o, d, a, b>>  t == Times(100, p)
           v == Times(256, r)  u == <<c, f>>  st == s \o t  sv == st \o v
<1>1. TR6 = sv \o u
  BY DEF TR6, StrangerAgain, ProbeTo, ForgedAgain
<1> HIDE DEF o, d, a, b, p, r, c, f
<1>2. Part(t, S, 100) /\ \A i \in 1 .. 100 : t[i] = p
  <2>1. p \in S /\ 100 \in Nat
    OBVIOUS
  <2> HIDE DEF S
  <2> QED
    BY <2>1, Repeated
<1>3. Part(v, S, 256) /\ \A i \in 1 .. 256 : v[i] = r
  <2>1. r \in S /\ 256 \in Nat
    OBVIOUS
  <2> HIDE DEF S
  <2> QED
    BY <2>1, Repeated, ZenonT(30)
<1>4. Part(s, S, 4) /\ Part(u, S, 2)
  BY DEF Part
<1>5. s[1] = o /\ s[2] = d /\ s[3] = a /\ s[4] = b /\ u[1] = c /\ u[2] = f
  OBVIOUS
<1> HIDE DEF S, s, t, u, v
<1>6. Joins(st, s, t, S, 4, 100)
  BY <1>2, <1>4, Joined
<1> HIDE DEF st
<1>7. Part(st, S, 104)
  BY <1>6 DEF Joins
<1>8. Joins(sv, st, v, S, 104, 256)
  BY <1>3, <1>7, Joined
<1> HIDE DEF sv
<1>9. Part(sv, S, 360)
  BY <1>8 DEF Joins
<1>10. Joins(sv \o u, sv, u, S, 360, 2)
  BY <1>4, <1>9, Joined
<1> DEFINE w == sv \o u
<1>11. Joins(w, sv, u, S, 360, 2)
  BY <1>10
<1> HIDE DEF w
<1>12. Len(w) = 362
  BY <1>11 DEF Joins, Part
<1>13. \A i \in 1 .. 104 : w[i] = st[i]
  <2>1. \A i \in 1 .. 360 : w[i] = sv[i]
    BY <1>11 DEF Joins
  <2> QED
    BY <2>1, <1>8 DEF Joins
<1>14. w[1] = o /\ w[2] = d /\ w[3] = a /\ w[4] = b
  <2>1. \A i \in 1 .. 4 : st[i] = s[i]
    BY <1>6 DEF Joins
  <2> QED
    BY <2>1, <1>5, <1>13
<1>15. (\A i \in 5 .. 104 : w[i] = p) /\ \A i \in 105 .. 360 : w[i] = r
  <2>1. \A i \in 5 .. 104 : st[i] = t[i - 4]
    BY <1>6 DEF Joins
  <2>2. \A i \in 5 .. 104 : w[i] = p
    BY <2>1, <1>2, <1>13
  <2>3. \A i \in 105 .. 360 : w[i] = sv[i]
    BY <1>11 DEF Joins
  <2>4. \A i \in 105 .. 360 : sv[i] = v[i - 104]
    BY <1>8 DEF Joins
  <2>5. \A i \in 105 .. 360 : w[i] = r
    BY <2>3, <2>4, <1>3
  <2> QED
    BY <2>2, <2>5
<1>16. w[361] = c /\ w[362] = f
  BY <1>5, <1>11 DEF Joins
<1> QED
  BY <1>1, <1>12, <1>13, <1>14, <1>15, <1>16 DEF o, d, a, b, p, r, c, f, w

\* TR-7: how many records it sends on its first channel, and where each part of
\* the script begins.
Records7(records) == IF records < 0 THEN 0 ELSE records
RangeAt(records) == Records7(records) + 2
OpenAt(records) == RangeAt(records) + Restarts + 1
OverrunAt(records) == OpenAt(records) + SmallLimit + 1

LEMMA TR7Steps ==
  ASSUME NEW records \in Int
  PROVE  LET w == TR7(records)
             m == RangeAt(records)
             n == OpenAt(records)
             o == OverrunAt(records)
         IN  /\ Len(w) = o + 5
             /\ w[1] = NewChannel
             /\ \A i \in 2 .. m - 1 : w[i] = [Accepted EXCEPT !.n = i - 2]
             /\ w[m] = Step("range")
             /\ \A i \in m + 1 .. n - 1 : w[i] = Step("restart")
             /\ w[n] = Onto(Open(DefaultWindow, SmallLimit), 2)
             /\ \A i \in n + 1 .. o - 1 : w[i] = Onto(Step("send"), 2)
             /\ \A i \in o .. o + 5 : w[i] = Onto(Step("overrun"), 2)
<1> DEFINE R == Records7(records)  L == SmallLimit  K == Restarts
           e(i) == [Accepted EXCEPT !.n = i - 1]
           c == NewChannel  g == Step("range")  h == Step("restart")
           p == Open(DefaultWindow, SmallLimit)  d == Step("send")  v == Step("overrun")
           S == {c, g, h} \cup {e(i) : i \in 1 .. R} \cup {Onto(x, 2) : x \in {p, d, v}}
           T == {p, d, v}
           a == <<c>>  b == [i \in 1 .. R |-> e(i)]  ab == a \o b
           abg == ab \o <<g>>  k == Times(K, h)  abgk == abg \o k
           q == <<p>> \o Sends(L)  z == q \o Times(6, v)  y == On(2, z)
           w == abgk \o y
<1>1. TR7(records) = w
  <2>1. 1 .. records = 1 .. R
    BY DEF Records7
  <2>2. [i \in 1 .. records |-> e(i)] = b
    BY <2>1
  <2> QED
    BY <2>2 DEF TR7
<1>2. R \in Nat /\ L \in Nat /\ K \in Nat
  BY DemosAssumption DEF Records7
<1> HIDE DEF R, L, K, c, g, h, p, d, v, e
<1>3. Sends(L) = Times(L, d)
  BY DEF Sends, Times, d
<1>4. Part(Sends(L), T, L) /\ \A i \in 1 .. L : Sends(L)[i] = d
  <2>1. d \in T
    OBVIOUS
  <2> HIDE DEF T
  <2> QED
    BY <1>2, <1>3, <2>1, Repeated
<1>5. Part(Times(6, v), T, 6) /\ \A i \in 1 .. 6 : Times(6, v)[i] = v
  BY Repeated
<1>6. Part(<<p>>, T, 1) /\ <<p>>[1] = p
  BY DEF Part
<1>7. Joins(q, <<p>>, Sends(L), T, 1, L)
  <2> HIDE DEF T
  <2> QED
    BY <1>2, <1>4, <1>6, Joined
<1>8. q[1] = p /\ \A i \in 1 + 1 .. 1 + L : q[i] = d
  <2>1. \A i \in 1 + 1 .. 1 + L : q[i] = d
    <3>1. \A i \in 1 + 1 .. 1 + L : q[i] = Sends(L)[i - 1]
      BY <1>7 DEF Joins
    <3>2. \A i \in 1 + 1 .. 1 + L : i - 1 \in 1 .. L
      BY <1>2
    <3> QED
      BY <1>4, <3>1, <3>2
  <2>2. q[1] = p
    BY <1>6, <1>7 DEF Joins
  <2> QED
    BY <2>1, <2>2
<1>9. Part(q, T, L + 1)
  BY <1>2, <1>7 DEF Joins
<1> HIDE DEF q
<1>10. Joins(z, q, Times(6, v), T, L + 1, 6)
  <2> HIDE DEF T
  <2>1. L + 1 \in Nat
    BY <1>2
  <2> QED
    BY <1>5, <1>9, <2>1, Joined
<1>11. /\ z[1] = p
       /\ \A i \in 2 .. L + 1 : z[i] = d
       /\ \A i \in L + 2 .. L + 7 : z[i] = v
  <2>1. \A i \in L + 1 + 1 .. L + 1 + 6 : z[i] = v
    <3>1. \A i \in L + 1 + 1 .. L + 1 + 6 : z[i] = Times(6, v)[i - (L + 1)]
      BY <1>10 DEF Joins
    <3>2. \A i \in L + 1 + 1 .. L + 1 + 6 : i - (L + 1) \in 1 .. 6
      BY <1>2
    <3> QED
      BY <1>5, <3>1, <3>2
  <2>2. L + 2 = L + 1 + 1 /\ L + 7 = L + 1 + 6
    BY <1>2
  <2>3. \A i \in 1 .. L + 1 : z[i] = q[i]
    BY <1>10 DEF Joins
  <2>4. 1 \in 1 .. L + 1 /\ \A i \in 2 .. L + 1 : i \in 1 .. L + 1 /\ i \in 1 + 1 .. 1 + L
    BY <1>2
  <2>5. z[1] = p
    BY <1>8, <2>3, <2>4
  <2>6. \A i \in 2 .. L + 1 : z[i] = d
    BY <1>8, <2>3, <2>4
  <2> QED
    BY <2>1, <2>2, <2>5, <2>6
<1>12. Part(z, T, L + 7)
  BY <1>2, <1>10 DEF Joins
<1> HIDE DEF z
<1>13. Part(y, {Onto(x, 2) : x \in T}, L + 7) /\ \A i \in 1 .. L + 7 : y[i] = Onto(z[i], 2)
  <2> HIDE DEF T
  <2>1. L + 7 \in Nat
    BY <1>2
  <2>2. Moves(y, z, T, 2, L + 7)
    BY <1>12, <2>1, Moved
  <2> QED
    BY <2>2 DEF Moves
<1> HIDE DEF y
<1>14. Part(y, S, L + 7)
  BY <1>13, Widened
<1>15. /\ y[1] = Onto(p, 2)
       /\ \A i \in 2 .. L + 1 : y[i] = Onto(d, 2)
       /\ \A i \in L + 2 .. L + 7 : y[i] = Onto(v, 2)
  BY <1>2, <1>11, <1>13
<1>16. Part(a, S, 1) /\ a[1] = c /\ Part(<<g>>, S, 1) /\ <<g>>[1] = g
  BY DEF Part
<1>17. Part(b, S, R) /\ \A i \in 1 .. R : b[i] = e(i)
  BY <1>2 DEF Part
<1>18. Part(k, S, K) /\ \A i \in 1 .. K : k[i] = h
  <2>1. h \in S
    OBVIOUS
  <2> HIDE DEF S
  <2> QED
    BY <1>2, <2>1, Repeated
<1> HIDE DEF S, a, b, k
<1>19. Joins(ab, a, b, S, 1, R)
  BY <1>2, <1>16, <1>17, Joined
<1> HIDE DEF ab
<1>20. Part(ab, S, R + 1) /\ ab[1] = c /\ \A i \in 2 .. R + 1 : ab[i] = e(i - 1)
  <2>1. Part(ab, S, 1 + R) /\ \A i \in 1 + 1 .. 1 + R : ab[i] = b[i - 1]
    BY <1>19 DEF Joins
  <2>2. ab[1] = c
    <3>1. \A i \in 1 .. 1 : ab[i] = a[i]
      BY <1>19 DEF Joins
    <3>2. ab[1] = a[1]
      BY <3>1
    <3>3. a[1] = c
      BY <1>16
    <3> QED
      BY <3>2, <3>3
  <2>3. 1 + R = R + 1 /\ \A i \in 2 .. R + 1 : i - 1 \in 1 .. R /\ i \in 1 + 1 .. 1 + R
    BY <1>2
  <2>4. \A i \in 2 .. R + 1 : ab[i] = e(i - 1)
    BY <1>17, <2>1, <2>3
  <2> QED
    BY <2>1, <2>2, <2>3, <2>4
<1>21. Joins(abg, ab, <<g>>, S, R + 1, 1)
  <2>1. R + 1 \in Nat
    BY <1>2
  <2> QED
    BY <2>1, <1>16, <1>20, Joined
<1>22. /\ Part(abg, S, R + 2) /\ abg[1] = c /\ abg[R + 2] = g
       /\ \A i \in 2 .. R + 1 : abg[i] = e(i - 1)
  <2>1. R + 2 = R + 1 + 1 /\ (R + 2) - (R + 1) = 1 /\ 1 \in 1 .. R + 1
    BY <1>2
  <2>2. Part(abg, S, R + 2) /\ \A i \in 1 .. R + 1 : abg[i] = ab[i]
    BY <1>21, <2>1 DEF Joins
  <2>3. R + 2 \in R + 1 + 1 .. R + 1 + 1
    BY <1>2
  <2>4. abg[R + 2] = <<g>>[(R + 2) - (R + 1)]
    BY <1>21, <2>3 DEF Joins
  <2>5. abg[R + 2] = g
    BY <1>16, <2>1, <2>4
  <2>6. \A i \in 2 .. R + 1 : i \in 1 .. R + 1
    BY <1>2
  <2> QED
    BY <1>20, <2>1, <2>2, <2>5, <2>6
<1> HIDE DEF abg
<1>23. Joins(abgk, abg, k, S, R + 2, K)
  <2>1. R + 2 \in Nat
    BY <1>2
  <2> QED
    BY <2>1, <1>2, <1>18, <1>22, Joined
<1>24. /\ Part(abgk, S, R + 2 + K) /\ abgk[1] = c /\ abgk[R + 2] = g
       /\ \A i \in 2 .. R + 1 : abgk[i] = e(i - 1)
       /\ \A i \in R + 3 .. R + 2 + K : abgk[i] = h
  <2>1. R + 2 \in Nat /\ R + 3 = R + 2 + 1
    BY <1>2
  <2>2. \A i \in R + 2 + 1 .. R + 2 + K : abgk[i] = h
    <3>1. \A i \in R + 2 + 1 .. R + 2 + K : abgk[i] = k[i - (R + 2)]
      BY <1>23 DEF Joins
    <3>2. \A i \in R + 2 + 1 .. R + 2 + K : i - (R + 2) \in 1 .. K
      BY <1>2
    <3> QED
      BY <1>18, <3>1, <3>2
  <2>3. Part(abgk, S, R + 2 + K) /\ \A i \in 1 .. R + 2 : abgk[i] = abg[i]
    BY <1>23 DEF Joins
  <2>4. 1 \in 1 .. R + 2 /\ R + 2 \in 1 .. R + 2 /\ \A i \in 2 .. R + 1 : i \in 1 .. R + 2
    BY <1>2
  <2> QED
    BY <1>22, <2>1, <2>2, <2>3, <2>4
<1> HIDE DEF abgk
<1>25. Joins(w, abgk, y, S, R + 2 + K, L + 7)
  <2>1. R + 2 + K \in Nat /\ L + 7 \in Nat
    BY <1>2
  <2> QED
    BY <2>1, <1>14, <1>24, Joined
<1> HIDE DEF w
<1>26. Len(w) = R + 2 + K + (L + 7)
  BY <1>25 DEF Joins, Part
<1>27. /\ w[1] = c /\ w[R + 2] = g
       /\ \A i \in 2 .. R + 1 : w[i] = e(i - 1)
       /\ \A i \in R + 3 .. R + 2 + K : w[i] = h
  BY <1>2, <1>24, <1>25 DEF Joins
<1>28. \A i \in R + 2 + K + 1 .. R + 2 + K + (L + 7) : w[i] = y[i - (R + 2 + K)]
  BY <1>25 DEF Joins
<1> DEFINE n == R + 3 + K  m == n + L + 1
<1>29. w[n] = Onto(p, 2)
  BY <1>2, <1>15, <1>28
<1>30. \A i \in n + 1 .. m - 1 : w[i] = Onto(d, 2)
  BY <1>2, <1>15, <1>28
<1>31. \A i \in m .. m + 5 : w[i] = Onto(v, 2)
  BY <1>2, <1>15, <1>28
<1>32. \A i \in 2 .. R + 1 : e(i - 1) = [Accepted EXCEPT !.n = i - 2]
  <2> SUFFICES ASSUME NEW i \in 2 .. R + 1 PROVE e(i - 1) = [Accepted EXCEPT !.n = i - 2]
    OBVIOUS
  <2>1. (i - 1) - 1 = i - 2
    BY <1>2
  <2> QED
    BY <2>1 DEF e
<1>33. /\ RangeAt(records) = R + 2 /\ OpenAt(records) = n /\ OverrunAt(records) = m
       /\ RangeAt(records) - 1 = R + 1 /\ RangeAt(records) + 1 = R + 3 /\ n - 1 = R + 2 + K
       /\ m + 5 = R + 2 + K + (L + 7)
  BY <1>2 DEF RangeAt, OpenAt, OverrunAt, R, K, L
<1> HIDE DEF n, m
<1>34. \A i \in 2 .. R + 1 : w[i] = [Accepted EXCEPT !.n = i - 2]
  BY <1>27, <1>32
<1> QED
  BY <1>1, <1>26, <1>27, <1>29, <1>30, <1>31, <1>33, <1>34 DEF c, g, h, p, d, v

InOrder(i) == [Again(Order[i], Unaltered, {"ACCEPTED"}) EXCEPT !.skip = Len(Order) - i]
Poison == [Probe(Rewrite("seq", SeqSpace \div 2), AllVerdicts) EXCEPT !.still = TRUE]
Renumbered == NeedsReason(Again(0, Rewrite("seq", 999999), {"AUTH_FAILED"}))

\* The second channel of TR-5.
Second5 ==
  <<Open(SmallWindow, DefaultLimit)>> \o Sends(32)
    \o [i \in DOMAIN Order |-> InOrder(i)]
    \o <<Again(3, Unaltered, {"REPLAY_DETECTED"}), Again(19, Unaltered, AllVerdicts),
         Step("look"), Again(12, Unaltered, {"ACCEPTED"}),
         NeedsReason(Again(11, Unaltered, {"STALE_RECORD"}))>>

Steps5 ==
  {Open(SmallWindow, DefaultLimit), Step("send"), Step("look"),
   Again(3, Unaltered, {"REPLAY_DETECTED"}), Again(19, Unaltered, AllVerdicts),
   Again(12, Unaltered, {"ACCEPTED"}), NeedsReason(Again(11, Unaltered, {"STALE_RECORD"}))}
  \cup {InOrder(i) : i \in 1 .. 8}

LEMMA TR5Second ==
  /\ Part(Second5, Steps5, 46)
  /\ Second5[1] = Open(SmallWindow, DefaultLimit)
  /\ \A i \in 2 .. 33 : Second5[i] = Step("send")
  /\ \A i \in 34 .. 41 : Second5[i] = InOrder(i - 33)
  /\ Second5[42] = Again(3, Unaltered, {"REPLAY_DETECTED"})
  /\ Second5[43] = Again(19, Unaltered, AllVerdicts)
  /\ Second5[44] = Step("look")
  /\ Second5[45] = Again(12, Unaltered, {"ACCEPTED"})
  /\ Second5[46] = NeedsReason(Again(11, Unaltered, {"STALE_RECORD"}))
<1> DEFINE o == Open(SmallWindow, DefaultLimit)  d == Step("send")  l == Step("look")
           a == Again(3, Unaltered, {"REPLAY_DETECTED"})  b == Again(19, Unaltered, AllVerdicts)
           c == Again(12, Unaltered, {"ACCEPTED"})
           e == NeedsReason(Again(11, Unaltered, {"STALE_RECORD"}))
           q == <<o>>  r == Times(32, d)  s == [i \in 1 .. 8 |-> InOrder(i)]
           t == <<a, b, l, c, e>>  qr == q \o r  qrs == qr \o s  w == qrs \o t
           T == Steps5
<1>1. Second5 = w
  <2>1. DOMAIN Order = 1 .. 8
    BY DEF Order
  <2>2. Sends(32) = r
    BY DEF Sends, Times
  <2> QED
    BY <2>1, <2>2 DEF Second5
<1>2. /\ o \in T /\ d \in T /\ l \in T /\ a \in T /\ b \in T /\ c \in T /\ e \in T
      /\ \A i \in 1 .. 8 : InOrder(i) \in T
  BY DEF Steps5
<1> HIDE DEF o, d, l, a, b, c, e, T
<1>3. Part(q, T, 1) /\ q[1] = o
  BY <1>2 DEF Part
<1>4. Part(r, T, 32) /\ \A i \in 1 .. 32 : r[i] = d
  <2>1. 32 \in Nat
    OBVIOUS
  <2> QED
    BY <1>2, <2>1, Repeated
<1>5. Part(s, T, 8) /\ \A i \in 1 .. 8 : s[i] = InOrder(i)
  BY <1>2 DEF Part
<1>6. Part(t, T, 5)
  BY <1>2 DEF Part
<1>7. t[1] = a /\ t[2] = b /\ t[3] = l /\ t[4] = c /\ t[5] = e
  OBVIOUS
<1> HIDE DEF q, r, s, t
<1>8. Joins(qr, q, r, T, 1, 32)
  BY <1>3, <1>4, Joined
<1> HIDE DEF qr
<1>9. Part(qr, T, 33)
  BY <1>8 DEF Joins
<1>10. Joins(qrs, qr, s, T, 33, 8)
  BY <1>5, <1>9, Joined
<1> HIDE DEF qrs
<1>11. Part(qrs, T, 41)
  BY <1>10 DEF Joins
<1>12. Joins(w, qrs, t, T, 41, 5)
  BY <1>6, <1>11, Joined
<1> HIDE DEF w
<1>13. Part(w, T, 46)
  BY <1>12 DEF Joins
<1>14. (\A i \in 1 .. 41 : w[i] = qrs[i]) /\ \A i \in 42 .. 46 : w[i] = t[i - 41]
  BY <1>12 DEF Joins
<1>15. (\A i \in 1 .. 33 : qrs[i] = qr[i]) /\ \A i \in 34 .. 41 : qrs[i] = s[i - 33]
  BY <1>10 DEF Joins
<1>16. (\A i \in 1 .. 1 : qr[i] = q[i]) /\ \A i \in 2 .. 33 : qr[i] = r[i - 1]
  BY <1>8 DEF Joins
<1>17. w[1] = o
  <2>1. w[1] = qrs[1] /\ qrs[1] = qr[1] /\ qr[1] = q[1]
    BY <1>14, <1>15, <1>16
  <2> QED
    BY <1>3, <2>1
<1>18. \A i \in 2 .. 33 : w[i] = d
  <2>1. \A i \in 2 .. 33 : w[i] = r[i - 1] /\ i - 1 \in 1 .. 32
    BY <1>14, <1>15, <1>16
  <2> QED
    BY <1>4, <2>1
<1>19. \A i \in 34 .. 41 : w[i] = InOrder(i - 33)
  <2>1. \A i \in 34 .. 41 : w[i] = s[i - 33] /\ i - 33 \in 1 .. 8
    BY <1>14, <1>15
  <2> QED
    BY <1>5, <2>1
<1>20. w[42] = a /\ w[43] = b /\ w[44] = l /\ w[45] = c /\ w[46] = e
  <2>1. w[42] = t[1] /\ w[43] = t[2] /\ w[44] = t[3] /\ w[45] = t[4] /\ w[46] = t[5]
    BY <1>14
  <2> QED
    BY <1>7, <2>1
<1> QED
  BY <1>1, <1>13, <1>17, <1>18, <1>19, <1>20 DEF o, d, l, a, b, c, e, T

LEMMA TR5Moved ==
  /\ Part(On(2, Second5), {Onto(step, 2) : step \in Steps5}, 46)
  /\ \A i \in 1 .. 46 : On(2, Second5)[i] = Onto(Second5[i], 2)
<1>1. Moves(On(2, Second5), Second5, Steps5, 2, 46)
  BY TR5Second, Moved
<1> QED
  BY <1>1 DEF Moves

\* TR-5: a replay, a small window, and an attempt to poison one.
LEMMA TR5Steps ==
  /\ Len(TR5) = 156
  /\ TR5[1] = NewChannel
  /\ TR5[2] = Step("send")
  /\ TR5[3] = Again(0, Unaltered, {"ACCEPTED"})
  /\ TR5[4] = NeedsReason(Again(0, Unaltered, {"REPLAY_DETECTED"}))
  /\ \A i \in 5 .. 104 : TR5[i] = Again(0, Unaltered, Rejected)
  /\ TR5[105] = Onto(Open(SmallWindow, DefaultLimit), 2)
  /\ \A i \in 106 .. 137 : TR5[i] = Onto(Step("send"), 2)
  /\ \A i \in 138 .. 145 : TR5[i] = Onto(InOrder(i - 137), 2)
  /\ TR5[146] = Onto(Again(3, Unaltered, {"REPLAY_DETECTED"}), 2)
  /\ TR5[147] = Onto(Again(19, Unaltered, AllVerdicts), 2)
  /\ TR5[148] = Onto(Step("look"), 2)
  /\ TR5[149] = Onto(Again(12, Unaltered, {"ACCEPTED"}), 2)
  /\ TR5[150] = Onto(NeedsReason(Again(11, Unaltered, {"STALE_RECORD"})), 2)
  /\ TR5[151] = Onto(NewChannel, 3)
  /\ TR5[152] = Onto(Probe(Unaltered, AllVerdicts), 3)
  /\ TR5[153] = Onto(Step("look"), 3)
  /\ TR5[154] = Onto(Poison, 3)
  /\ TR5[155] = Onto(Accepted, 3)
  /\ TR5[156] = Renumbered
<1> DEFINE x == Second5
           a == NewChannel  b == Step("send")  c == Again(0, Unaltered, {"ACCEPTED"})
           d == NeedsReason(Again(0, Unaltered, {"REPLAY_DETECTED"}))
           e == Again(0, Unaltered, Rejected)  f == Probe(Unaltered, AllVerdicts)
           g == Step("look")  h == Poison  j == Accepted  k == Renumbered
           T == Steps5
           U == {a, f, g, h, j}
           S == {a, b, c, d, e, k} \cup {Onto(step, 2) : step \in T}
                                   \cup {Onto(step, 3) : step \in U}
           p == <<a, b, c, d>>  q == Times(100, e)  y == On(2, x)  v == <<a, f, g, h, j>>
           z == On(3, v)  l == <<k>>
           pq == p \o q  pqy == pq \o y  pqyz == pqy \o z  w == pqyz \o l
<1>1. TR5 = w
  BY DEF TR5, Second5, InOrder, Poison, Renumbered
<1>2. /\ Part(x, T, 46)
      /\ x[1] = Open(SmallWindow, DefaultLimit)
      /\ \A i \in 2 .. 33 : x[i] = Step("send")
      /\ \A i \in 34 .. 41 : x[i] = InOrder(i - 33)
      /\ x[42] = Again(3, Unaltered, {"REPLAY_DETECTED"})
      /\ x[43] = Again(19, Unaltered, AllVerdicts)
      /\ x[44] = Step("look")
      /\ x[45] = Again(12, Unaltered, {"ACCEPTED"})
      /\ x[46] = NeedsReason(Again(11, Unaltered, {"STALE_RECORD"}))
  BY TR5Second
<1> HIDE DEF x, a, b, c, d, e, f, g, h, j, k, T
<1>3. Part(y, {Onto(step, 2) : step \in T}, 46) /\ \A i \in 1 .. 46 : y[i] = Onto(x[i], 2)
  BY TR5Moved DEF x, T
<1>4. Part(v, U, 5)
  BY DEF Part
<1>5. v[1] = a /\ v[2] = f /\ v[3] = g /\ v[4] = h /\ v[5] = j
  OBVIOUS
<1> HIDE DEF U, v
<1>6. Part(z, {Onto(step, 3) : step \in U}, 5) /\ \A i \in 1 .. 5 : z[i] = Onto(v[i], 3)
  <2>1. Moves(z, v, U, 3, 5)
    BY <1>4, Moved
  <2> QED
    BY <2>1 DEF Moves
<1> HIDE DEF y, z
<1>7. Part(y, S, 46) /\ Part(z, S, 5)
  BY <1>3, <1>6, Widened
<1>8. Part(p, S, 4) /\ Part(l, S, 1) /\ e \in S
  BY DEF Part
<1>9. p[1] = a /\ p[2] = b /\ p[3] = c /\ p[4] = d /\ l[1] = k
  OBVIOUS
<1> HIDE DEF S, p, l
<1>10. Part(q, S, 100) /\ \A i \in 1 .. 100 : q[i] = e
  <2>1. 100 \in Nat
    OBVIOUS
  <2> QED
    BY <1>8, <2>1, Repeated
<1> HIDE DEF q
<1>11. Joins(pq, p, q, S, 4, 100)
  BY <1>8, <1>10, Joined
<1> HIDE DEF pq
<1>12. Part(pq, S, 104)
  BY <1>11 DEF Joins
<1>13. Joins(pqy, pq, y, S, 104, 46)
  BY <1>7, <1>12, Joined
<1> HIDE DEF pqy
<1>14. Part(pqy, S, 150)
  BY <1>13 DEF Joins
<1>15. Joins(pqyz, pqy, z, S, 150, 5)
  BY <1>7, <1>14, Joined
<1> HIDE DEF pqyz
<1>16. Part(pqyz, S, 155)
  BY <1>15 DEF Joins
<1>17. Joins(w, pqyz, l, S, 155, 1)
  BY <1>8, <1>16, Joined
<1> HIDE DEF w
<1>18. Len(w) = 156
  BY <1>17 DEF Joins, Part
<1>19. \A i \in 1 .. 150 : w[i] = pqy[i]
  BY <1>15, <1>17 DEF Joins
<1>20. \A i \in 1 .. 104 : w[i] = pq[i]
  BY <1>13, <1>19 DEF Joins
<1>21. w[1] = a /\ w[2] = b /\ w[3] = c /\ w[4] = d
  BY <1>9, <1>11, <1>20 DEF Joins
<1>22. \A i \in 5 .. 104 : w[i] = e
  BY <1>10, <1>11, <1>20 DEF Joins
<1>23. \A i \in 105 .. 150 : w[i] = Onto(x[i - 104], 2)
  BY <1>3, <1>13, <1>19 DEF Joins
<1>24. \A i \in 151 .. 155 : w[i] = Onto(v[i - 150], 3)
  BY <1>6, <1>15, <1>17 DEF Joins
<1>25. w[156] = k
  BY <1>9, <1>17 DEF Joins
<1>26. w[105] = Onto(Open(SmallWindow, DefaultLimit), 2)
  BY <1>2, <1>23
<1>27. \A i \in 106 .. 137 : w[i] = Onto(Step("send"), 2)
  BY <1>2, <1>23
<1>28. \A i \in 138 .. 145 : w[i] = Onto(InOrder(i - 137), 2)
  <2> SUFFICES ASSUME NEW i \in 138 .. 145 PROVE w[i] = Onto(InOrder(i - 137), 2)
    OBVIOUS
  <2>1. i - 104 \in 34 .. 41 /\ (i - 104) - 33 = i - 137 /\ i \in 105 .. 150
    OBVIOUS
  <2> QED
    BY <1>2, <1>23, <2>1
<1>29. /\ w[146] = Onto(Again(3, Unaltered, {"REPLAY_DETECTED"}), 2)
       /\ w[147] = Onto(Again(19, Unaltered, AllVerdicts), 2)
       /\ w[148] = Onto(Step("look"), 2)
       /\ w[149] = Onto(Again(12, Unaltered, {"ACCEPTED"}), 2)
       /\ w[150] = Onto(NeedsReason(Again(11, Unaltered, {"STALE_RECORD"})), 2)
  BY <1>2, <1>23
<1>30. /\ w[151] = Onto(a, 3) /\ w[152] = Onto(f, 3) /\ w[153] = Onto(g, 3)
       /\ w[154] = Onto(h, 3) /\ w[155] = Onto(j, 3)
  BY <1>5, <1>24
<1>31. TR5 = w /\ TR5[3] = c /\ TR5[4] = d
  BY <1>1, <1>21
<1> QED
  BY <1>18, <1>21, <1>22, <1>25, <1>26, <1>27, <1>28, <1>29, <1>30, <1>31
     DEF a, b, c, d, e, f, g, h, j, k

(***************************************************************************)
(* Windows                                                                 *)
(***************************************************************************)
LEMMA EmptyIsFresh ==
  ASSUME NEW z \in Nat, NEW s \in Nat
  PROVE  Windows(z)!WindowCheck(Windows(z)!EmptyWindow, s) = "FRESH"
  BY DEF Windows!WindowCheck, Windows!EmptyWindow, Windows!Ahead

LEMMA AheadIsFresh ==
  ASSUME NEW z \in Nat, NEW s \in Nat, NEW w, w.highest \in Int, w.highest < s
  PROVE  Windows(z)!WindowCheck(w, s) = "FRESH"
  BY DEF Windows!WindowCheck, Windows!Ahead

LEMMA AheadCommits ==
  ASSUME NEW z \in Nat, NEW s \in Nat, NEW w, w.highest \in Int, w.highest < s
  PROVE  /\ Windows(z)!WindowCommit(w, s).highest = s
         /\ Windows(z)!WindowCommit(w, s).bitmap = Windows(z)!Shifted(w, s)
  BY DEF Windows!WindowCommit, Windows!WindowTakes, Windows!Ahead

LEMMA InsideIsFresh ==
  ASSUME NEW z \in Nat, NEW s \in Nat, NEW w, w.highest \in Int, s <= w.highest,
         w.highest - s < z, w.highest - s \notin w.bitmap
  PROVE  /\ Windows(z)!WindowCheck(w, s) = "FRESH"
         /\ Windows(z)!WindowCommit(w, s).highest = w.highest
         /\ Windows(z)!WindowCommit(w, s).bitmap = w.bitmap \cup {w.highest - s}
<1>1. ~ Windows(z)!Ahead(w, s) /\ ~ Windows(z)!Behind(w, s)
  BY DEF Windows!Ahead, Windows!Behind
<1>2. Windows(z)!WindowTakes(w, s)
  BY <1>1 DEF Windows!WindowTakes
<1> QED
  BY <1>1, <1>2 DEF Windows!WindowCheck, Windows!WindowCommit

LEMMA TakenIsDuplicate ==
  ASSUME NEW z \in Nat, NEW s \in Nat, NEW w, w.highest \in Int, s <= w.highest,
         w.highest - s < z, w.highest - s \in w.bitmap
  PROVE  Windows(z)!WindowCheck(w, s) = "DUPLICATE"
  BY DEF Windows!WindowCheck, Windows!Ahead, Windows!Behind

LEMMA BehindIsOld ==
  ASSUME NEW z \in Nat, NEW s \in Nat, NEW w, w.highest \in Int, s <= w.highest,
         w.highest - s >= z
  PROVE  Windows(z)!WindowCheck(w, s) = "TOO_OLD"
  BY DEF Windows!WindowCheck, Windows!Ahead, Windows!Behind

(***************************************************************************)
(* Verdicts                                                                *)
(***************************************************************************)
Own == <<OwnSession, OwnStream>>

\* What the window of the own stream says of a number.
Replay(r, seq) == Windows(r.size)!WindowCheck(WindowFor(r, Own), seq)

LEMMA ProtectedIs ==
  ASSUME NEW c, NEW seq, NEW payload
  PROVE  LET w == Protected(c, seq, payload)
             h == w.header
             b == w.body
         IN  /\ w = [header |-> h, body |-> b]
             /\ h = [version |-> 1, suite |-> suite, type |-> 1, session |-> 1, stream |-> 1,
                     prefix |-> c.sender.prefix, seq |-> seq, len |-> PayloadLen[payload]]
             /\ b = [key |-> "K", suite |-> suite, nonce |-> <<c.sender.prefix, seq>>, aad |-> h,
                     payload |-> payload, len |-> PayloadLen[payload], intact |-> TRUE]
  BY DEF Protected, Header, Seal, HeaderNonce, DeriveNonce, OwnSession, OwnStream, Data,
         ProtocolVersion

\* A record as its sender made it is judged by its number alone, and by the key.
LEMMA GenuineJudged ==
  ASSUME NEW r, NEW c, NEW seq, NEW payload
  PROVE  LET w == Protected(c, seq, payload)
         IN  /\ StreamKey(w.header) = Own /\ w.header.seq = seq
             /\ Replay(r, seq) = "FRESH" =>
                  Verdict(r, w) = IF r.key = "K" THEN "ACCEPTED" ELSE "AUTH_FAILED"
             /\ Replay(r, seq) = "DUPLICATE" => Verdict(r, w) = "REPLAY_DETECTED"
             /\ Replay(r, seq) = "TOO_OLD" => Verdict(r, w) = "STALE_RECORD"
<1> DEFINE w == Protected(c, seq, payload)  h == w.header  b == w.body
<1>1. /\ w = [header |-> h, body |-> b]
      /\ h = [version |-> 1, suite |-> suite, type |-> 1, session |-> 1, stream |-> 1,
              prefix |-> c.sender.prefix, seq |-> seq, len |-> PayloadLen[payload]]
      /\ b = [key |-> "K", suite |-> suite, nonce |-> <<c.sender.prefix, seq>>, aad |-> h,
              payload |-> payload, len |-> PayloadLen[payload], intact |-> TRUE]
  BY ProtectedIs
<1> HIDE DEF w
<1>2. StreamKey(h) = Own /\ h.seq = seq
  BY <1>1 DEF StreamKey, Own, OwnSession, OwnStream
<1>3. Parses(w)
  <2>1. "body" \in DOMAIN w /\ "body" \notin DOMAIN Noise
    BY <1>1 DEF Noise
  <2> QED
    BY <1>1, <2>1 DEF Parses, ProtocolVersion
<1>4. h.suite = suite /\ h.session = OwnSession
  BY <1>1 DEF OwnSession
<1>5. Opens(r.key, suite, HeaderNonce(h), b, h) <=> r.key = "K"
  BY <1>1 DEF Opens, HeaderNonce, DeriveNonce
<1>6. Verdict(r, w) = IF Replay(r, seq) = "DUPLICATE" THEN "REPLAY_DETECTED"
                      ELSE IF Replay(r, seq) = "TOO_OLD" THEN "STALE_RECORD"
                      ELSE IF ~ Opens(r.key, suite, HeaderNonce(h), b, h) THEN "AUTH_FAILED"
                      ELSE "ACCEPTED"
  BY <1>2, <1>3, <1>4 DEF Verdict, Replay
<1> QED
  BY <1>2, <1>5, <1>6 DEF w

LEMMA DamagedJudged ==
  ASSUME NEW r, NEW c, NEW seq, NEW payload, Replay(r, seq) = "FRESH"
  PROVE  Verdict(r, Attacked(Protected(c, seq, payload), Damaged)) = "AUTH_FAILED"
<1> DEFINE p == Protected(c, seq, payload)  h == p.header  b == p.body
           w == Attacked(p, Damaged)
<1>1. /\ p = [header |-> h, body |-> b]
      /\ h = [version |-> 1, suite |-> suite, type |-> 1, session |-> 1, stream |-> 1,
              prefix |-> c.sender.prefix, seq |-> seq, len |-> PayloadLen[payload]]
      /\ b = [key |-> "K", suite |-> suite, nonce |-> <<c.sender.prefix, seq>>, aad |-> h,
              payload |-> payload, len |-> PayloadLen[payload], intact |-> TRUE]
  BY ProtectedIs
<1> HIDE DEF p
<1>2. w = [p EXCEPT !.body.intact = FALSE]
  BY DEF Attacked, Damaged, Attack
<1> HIDE DEF w
<1>3. w.header = h /\ w.body.intact = FALSE /\ w.body.len = b.len /\ "body" \in DOMAIN w
  BY <1>1, <1>2
<1>4. StreamKey(w.header) = Own /\ w.header.seq = seq
  BY <1>1, <1>3 DEF StreamKey, Own, OwnSession, OwnStream
<1>5. Parses(w)
  <2>1. "body" \notin DOMAIN Noise
    BY DEF Noise
  <2> QED
    BY <1>1, <1>3, <2>1 DEF Parses, ProtocolVersion
<1>6. ~ Opens(r.key, suite, HeaderNonce(w.header), w.body, w.header)
  BY <1>3 DEF Opens
<1>7. w.header.suite = suite /\ w.header.session = OwnSession
  BY <1>1, <1>3 DEF OwnSession
<1> QED
  BY <1>4, <1>5, <1>6, <1>7 DEF Verdict, Replay, w, p

LEMMA CutJudged ==
  ASSUME NEW r, NEW c, NEW seq, NEW payload \in Payloads, NEW n \in Nat \ {0}
  PROVE  Verdict(r, Attacked(Protected(c, seq, payload), Shortened(n))) = "MALFORMED"
<1> DEFINE p == Protected(c, seq, payload)  h == p.header  b == p.body
           w == Attacked(p, Shortened(n))
<1>1. /\ p = [header |-> h, body |-> b]
      /\ h = [version |-> 1, suite |-> suite, type |-> 1, session |-> 1, stream |-> 1,
              prefix |-> c.sender.prefix, seq |-> seq, len |-> PayloadLen[payload]]
      /\ b = [key |-> "K", suite |-> suite, nonce |-> <<c.sender.prefix, seq>>, aad |-> h,
              payload |-> payload, len |-> PayloadLen[payload], intact |-> TRUE]
  BY ProtectedIs
<1> HIDE DEF p
<1>2. w = [p EXCEPT !.body.intact = FALSE, !.body.len = @ - n]
  BY DEF Attacked, Shortened, Attack
<1> HIDE DEF w
<1>3. w.header = h /\ w.body.len = b.len - n
  BY <1>1, <1>2
<1>4. PayloadLen[payload] \in Nat
  BY PayloadAssumption
<1>5. w.body.len # w.header.len
  BY <1>1, <1>3, <1>4
<1> QED
  BY <1>5 DEF Verdict, Parses, w, p

\* A record under the attacker's key, one number ahead.
LEMMA ForgedJudged ==
  ASSUME NEW r, r.key = "K", NEW c, NEW seq, Replay(r, seq + 1) = "FRESH"
  PROVE  Verdict(r, Attacked(Protected(c, seq, "text"), Forged)) = "AUTH_FAILED"
<1> DEFINE p == Protected(c, seq, "text")  h == p.header  b == p.body
           w == Attacked(p, Forged)
<1>1. /\ p = [header |-> h, body |-> b]
      /\ h = [version |-> 1, suite |-> suite, type |-> 1, session |-> 1, stream |-> 1,
              prefix |-> c.sender.prefix, seq |-> seq, len |-> PayloadLen["text"]]
      /\ b = [key |-> "K", suite |-> suite, nonce |-> <<c.sender.prefix, seq>>, aad |-> h,
              payload |-> "text", len |-> PayloadLen["text"], intact |-> TRUE]
  BY ProtectedIs
<1> HIDE DEF p
<1> DEFINE g == [h EXCEPT !.seq = @ + 1]
<1>2. w = [header |-> g, body |-> Seal("rogue", suite, HeaderNonce(g), "text", g)]
  BY DEF Attacked, Forged, Attack
<1> HIDE DEF w
<1>3. /\ g.suite = suite /\ g.session = 1 /\ g.stream = 1 /\ g.seq = seq + 1
      /\ g.version = 1 /\ g.len = PayloadLen["text"]
  BY <1>1
<1> HIDE DEF g
<1>4. w.header = g /\ w.body.key = "rogue"
  BY <1>2 DEF Seal
<1>5. StreamKey(w.header) = Own /\ w.header.seq = seq + 1
  BY <1>3, <1>4 DEF StreamKey, Own, OwnSession, OwnStream
<1>6. ~ Opens(r.key, suite, HeaderNonce(w.header), w.body, w.header)
  BY <1>4 DEF Opens
<1>7. w.header.suite = suite /\ w.header.session = OwnSession
  BY <1>3, <1>4 DEF OwnSession
<1>8. Parses(w)
  <2>1. "body" \in DOMAIN w /\ "body" \notin DOMAIN Noise
    BY <1>2 DEF Noise
  <2>2. w.body.len = PayloadLen["text"] /\ w.header.len = PayloadLen["text"]
    BY <1>2, <1>3, <1>4 DEF Seal
  <2>3. w.header.version = 1
    BY <1>3, <1>4
  <2> QED
    BY <2>1, <2>2, <2>3 DEF Parses, ProtocolVersion
<1> QED
  BY <1>5, <1>6, <1>7, <1>8 DEF Verdict, Replay, w, p

Changed(p, field, x) == [p EXCEPT !.header[field] = x]

\* A record with one field of its header changed: no change is accepted, and each
\* field has its own refusal.
AlteredVerdict(r, w, seq, field, x) ==
  LET said == Windows(r.size)!WindowCheck(WindowFor(r, StreamKey(w.header)), w.header.seq)
  IN  /\ Verdict(r, w) \in Rejected
      /\ field \in {"version", "len"} => Verdict(r, w) = "MALFORMED"
      /\ field = "suite" => Verdict(r, w) = "SUITE_MISMATCH"
      /\ field = "session" => Verdict(r, w) = "SESSION_MISMATCH"
      /\ field \in {"type", "stream", "prefix", "seq"} /\ said \notin {"DUPLICATE", "TOO_OLD"} =>
           Verdict(r, w) = "AUTH_FAILED"
      /\ StreamKey(w.header) = IF field = "session" THEN <<x, 1>>
                               ELSE IF field = "stream" THEN <<1, x>> ELSE Own
      /\ w.header.seq = IF field = "seq" THEN x ELSE seq

LEMMA AlteredJudged ==
  ASSUME NEW r, NEW c, NEW seq, NEW payload, NEW field \in Fields, NEW x,
         NEW w, w = Changed(Protected(c, seq, payload), field, x),
         x # Protected(c, seq, payload).header[field]
  PROVE  AlteredVerdict(r, w, seq, field, x)
<1> DEFINE p == Protected(c, seq, payload)  h == p.header  b == p.body  g == w.header
           said == Windows(r.size)!WindowCheck(WindowFor(r, StreamKey(g)), g.seq)
<1>1. /\ p = [header |-> h, body |-> b]
      /\ h = [version |-> 1, suite |-> suite, type |-> 1, session |-> 1, stream |-> 1,
              prefix |-> c.sender.prefix, seq |-> seq, len |-> PayloadLen[payload]]
      /\ b = [key |-> "K", suite |-> suite, nonce |-> <<c.sender.prefix, seq>>, aad |-> h,
              payload |-> payload, len |-> PayloadLen[payload], intact |-> TRUE]
  BY ProtectedIs
<1> HIDE DEF p
<1>2. w = [p EXCEPT !.header[field] = x] /\ x # h[field]
  BY DEF p, Changed
<1>3. w = [header |-> [h EXCEPT ![field] = x], body |-> b]
  BY <1>1, <1>2
<1>4. g = [h EXCEPT ![field] = x] /\ w.body = b
  BY <1>3
<1> HIDE DEF g
<1>5. DOMAIN h = Fields
  BY <1>1 DEF Fields
<1>6. g[field] = x /\ \A f \in Fields \ {field} : g[f] = h[f]
  BY <1>4, <1>5
<1>7. g # h
  BY <1>2, <1>6
<1>8. ~ Opens(r.key, suite, HeaderNonce(g), w.body, g)
  <2>1. w.body.aad = h
    BY <1>1, <1>4
  <2> QED
    BY <1>7, <2>1 DEF Opens
<1>9. /\ h.version = 1 /\ h.suite = suite /\ h.session = 1 /\ h.stream = 1 /\ h.seq = seq
      /\ h.len = PayloadLen[payload] /\ b.len = PayloadLen[payload]
  BY <1>1
<1>10. /\ "version" \in Fields /\ "suite" \in Fields /\ "session" \in Fields
       /\ "stream" \in Fields /\ "seq" \in Fields /\ "len" \in Fields
  BY DEF Fields
<1>11. /\ field # "version" => g.version = 1
       /\ field # "suite" => g.suite = suite
       /\ field # "session" => g.session = 1
       /\ field # "stream" => g.stream = 1
       /\ field # "seq" => g.seq = seq
       /\ field # "len" => g.len = b.len
  BY <1>6, <1>9, <1>10
<1>12. /\ field = "version" => g.version # 1
       /\ field = "suite" => g.suite # suite
       /\ field = "session" => g.session # 1 /\ g.session = x
       /\ field = "stream" => g.stream = x
       /\ field = "seq" => g.seq = x
       /\ field = "len" => g.len # b.len
  BY <1>2, <1>6, <1>9
<1>13. w # Noise
  <2>1. "body" \in DOMAIN w /\ "body" \notin DOMAIN Noise
    BY <1>3 DEF Noise
  <2> QED
    BY <2>1
<1>14. Verdict(r, w) = IF ~ Parses(w) THEN "MALFORMED"
                       ELSE IF g.suite # suite THEN "SUITE_MISMATCH"
                       ELSE IF g.session # OwnSession THEN "SESSION_MISMATCH"
                       ELSE IF said = "DUPLICATE" THEN "REPLAY_DETECTED"
                       ELSE IF said = "TOO_OLD" THEN "STALE_RECORD"
                       ELSE "AUTH_FAILED"
  BY <1>8 DEF Verdict, g
<1> HIDE DEF said
<1>15. Parses(w) <=> g.version = 1 /\ b.len = g.len
  BY <1>4, <1>13 DEF Parses, ProtocolVersion, g
<1>16. Verdict(r, w) \in Rejected
  BY <1>14 DEF Rejected, AllVerdicts
<1>17. field \in {"version", "len"} => Verdict(r, w) = "MALFORMED"
  BY <1>12, <1>14, <1>15
<1>18. field = "suite" => Verdict(r, w) = "SUITE_MISMATCH"
  BY <1>11, <1>12, <1>14, <1>15
<1>19. field = "session" => Verdict(r, w) = "SESSION_MISMATCH"
  BY <1>11, <1>12, <1>14, <1>15 DEF OwnSession
<1>20. field \in {"type", "stream", "prefix", "seq"} /\ said \notin {"DUPLICATE", "TOO_OLD"}
         => Verdict(r, w) = "AUTH_FAILED"
  BY <1>11, <1>14, <1>15 DEF OwnSession
<1>21. StreamKey(g) = IF field = "session" THEN <<x, 1>>
                      ELSE IF field = "stream" THEN <<1, x>> ELSE Own
  BY <1>11, <1>12 DEF StreamKey, Own, OwnSession, OwnStream
<1>22. g.seq = IF field = "seq" THEN x ELSE seq
  BY <1>11, <1>12
<1> QED
  BY <1>16, <1>17, <1>18, <1>19, <1>20, <1>21, <1>22 DEF said, g, AlteredVerdict

(***************************************************************************)
(* Channels                                                                *)
(***************************************************************************)
Who == {"peer", "stranger"}
Readers == {"peer", "stranger", "near_miss"}

Holds(r, key, size) == r = [key |-> key, size |-> size, windows |-> r.windows]

\* A channel whose sender has sent n records.
SenderAt(s, n, limit) ==
  s = [prefix |-> s.prefix, start |-> 0, next |-> n, limit |-> limit, issued |-> n]

ReceiversAt(c, size) ==
  /\ c = [sender |-> c.sender, receivers |-> c.receivers]
  /\ c.receivers = [x \in Who |-> c.receivers[x]]
  /\ Holds(c.receivers["peer"], "K", size)
  /\ Holds(c.receivers["stranger"], "K2", size)

ChannelAt(c, n, limit, size) == SenderAt(c.sender, n, limit) /\ ReceiversAt(c, size)

\* The receiver has accepted nothing; nothing of the number n or a later one on the
\* own stream; nothing but what the window of the own stream shows.
Untouched(r) == DOMAIN r.windows = {}
Below(r, n) ==
  Own \in DOMAIN r.windows => r.windows[Own].highest \in Int /\ r.windows[Own].highest < n
Shows(r, highest, bitmap) ==
  Own \in DOMAIN r.windows /\ r.windows[Own].highest = highest /\ r.windows[Own].bitmap = bitmap

\* The demonstration has opened k channels.
Opened(k) == channels = [i \in 1 .. k |-> channels[i]]

\* A channel after a delivery.
After(c, who, r, mgr) ==
  [sender |-> mgr,
   receivers |-> [x \in DOMAIN c.receivers |-> IF x = who THEN r ELSE c.receivers[x]]]

Reader(c, who) == IF who = "near_miss" THEN NearMiss ELSE c.receivers[who]

LEMMA UntouchedBelow ==
  ASSUME NEW r, Untouched(r), NEW n
  PROVE  Below(r, n)
  BY DEF Untouched, Below

LEMMA BelowIsFresh ==
  ASSUME NEW r, r.size \in Nat, NEW n \in Nat, Below(r, n)
  PROVE  Replay(r, n) = "FRESH"
<1>1. CASE Own \in DOMAIN r.windows
  <2>1. WindowFor(r, Own) = r.windows[Own] /\ r.windows[Own].highest \in Int
        /\ r.windows[Own].highest < n
    BY <1>1 DEF WindowFor, Below
  <2> QED
    BY <2>1, AheadIsFresh DEF Replay
<1>2. CASE Own \notin DOMAIN r.windows
  <2>1. WindowFor(r, Own) = Windows(r.size)!EmptyWindow
    BY <1>2 DEF WindowFor
  <2> QED
    BY <2>1, EmptyIsFresh DEF Replay
<1> QED
  BY <1>1, <1>2

\* A receiver keeps its key, and its windows unless it accepts the record.
LEMMA ReceivedHolds ==
  ASSUME NEW r, NEW w, NEW key, NEW size, Holds(r, key, size)
  PROVE  /\ Holds(Received(r, w), key, size)
         /\ Verdict(r, w) # "ACCEPTED" => Received(r, w) = r
<1>1. Holds(Committed(r, w), key, size)
  BY DEF Holds, Committed
<1> QED
  BY <1>1 DEF Received

\* What an accepted record leaves in the window of the own stream.
LEMMA AcceptedShows ==
  ASSUME NEW r, NEW w, NEW key, NEW size, Holds(r, key, size),
         StreamKey(w.header) = Own, Verdict(r, w) = "ACCEPTED"
  PROVE  /\ Own \in DOMAIN Received(r, w).windows
         /\ Received(r, w).windows[Own]
              = Windows(size)!WindowCommit(WindowFor(r, Own), w.header.seq)
<1> DEFINE o == Own  f == Windows(size)!WindowCommit(WindowFor(r, o), w.header.seq)
           g == r.windows
<1>1. /\ Received(r, w) = Committed(r, w) /\ r.size = size
      /\ r = [key |-> key, size |-> size, windows |-> g]
  BY DEF Received, Holds
<1>2. Committed(r, w) =
        [r EXCEPT !.windows = [j \in DOMAIN g \cup {o} |-> IF j = o THEN f ELSE g[j]]]
  BY <1>1 DEF Committed
<1> HIDE DEF o, f, g
<1>3. Received(r, w).windows = [j \in DOMAIN g \cup {o} |-> IF j = o THEN f ELSE g[j]]
  BY <1>1, <1>2
<1> QED
  BY <1>3 DEF o, f

\* A record ahead of everything the receiver has accepted is accepted.
LEMMA GenuineAccepted ==
  ASSUME NEW r, NEW size \in Nat, Holds(r, "K", size), NEW n \in Nat, Below(r, n),
         NEW c, NEW payload
  PROVE  LET w == Protected(c, n, payload)
         IN  /\ Verdict(r, w) = "ACCEPTED"
             /\ w.header.seq = n
             /\ Own \in DOMAIN Received(r, w).windows
             /\ Received(r, w).windows[Own].highest = n
             /\ Untouched(r) => Shows(Received(r, w), n, {0})
<1> DEFINE w == Protected(c, n, payload)  u == WindowFor(r, Own)
<1>1. r.size = size /\ r.key = "K"
  BY DEF Holds
<1>2. Replay(r, n) = "FRESH"
  BY <1>1, BelowIsFresh
<1>3. Verdict(r, w) = "ACCEPTED" /\ StreamKey(w.header) = Own /\ w.header.seq = n
  BY <1>1, <1>2, GenuineJudged
<1> HIDE DEF w
<1>4. /\ Own \in DOMAIN Received(r, w).windows
      /\ Received(r, w).windows[Own] = Windows(size)!WindowCommit(u, n)
  BY <1>3, AcceptedShows
<1>5. u.highest \in Int /\ u.highest < n
  BY <1>1 DEF WindowFor, Below, Windows!EmptyWindow
<1>6. Untouched(r) => u.highest = -1
  BY <1>1 DEF WindowFor, Untouched, Windows!EmptyWindow
<1> HIDE DEF u
<1>7. /\ Windows(size)!WindowCommit(u, n).highest = n
      /\ Windows(size)!WindowCommit(u, n).bitmap = Windows(size)!Shifted(u, n)
  BY <1>5, AheadCommits
<1>8. Untouched(r) => Windows(size)!Shifted(u, n) = {0}
  BY <1>6 DEF Windows!Shifted
<1> QED
  BY <1>3, <1>4, <1>7, <1>8 DEF Shows, w

LEMMA ReaderHolds ==
  ASSUME NEW c, NEW size, ReceiversAt(c, size)
  PROVE  /\ Holds(Reader(c, "peer"), "K", size) /\ Reader(c, "peer") = c.receivers["peer"]
         /\ Holds(Reader(c, "stranger"), "K2", size)
         /\ Reader(c, "stranger") = c.receivers["stranger"]
         /\ Holds(Reader(c, "near_miss"), "near_K", DefaultWindow)
         /\ Untouched(Reader(c, "near_miss"))
<1>1. Holds(NearMiss, "near_K", DefaultWindow) /\ Untouched(NearMiss)
  BY DEF NearMiss, Holds, Untouched
<1> QED
  BY <1>1 DEF ReceiversAt, Reader

\* A delivery leaves a channel a channel.
LEMMA AfterAt ==
  ASSUME NEW c, NEW size, ReceiversAt(c, size), NEW who \in Readers, NEW w, NEW mgr,
         NEW d, d = After(c, who, Received(Reader(c, who), w), mgr)
  PROVE  /\ ReceiversAt(d, size)
         /\ d.sender = mgr
         /\ \A x \in Who : d.receivers[x] = IF x = who THEN Received(c.receivers[x], w)
                                            ELSE c.receivers[x]
<1>1. /\ Holds(c.receivers["peer"], "K", size) /\ Holds(c.receivers["stranger"], "K2", size)
      /\ DOMAIN c.receivers = Who
  BY DEF ReceiversAt
<1>2. /\ Holds(Received(c.receivers["peer"], w), "K", size)
      /\ Holds(Received(c.receivers["stranger"], w), "K2", size)
  BY <1>1, ReceivedHolds
<1>3. \A x \in Who : x = who => Reader(c, who) = c.receivers[x]
  BY DEF Who, Reader, Readers
<1>4. /\ d = [sender |-> mgr, receivers |-> d.receivers]
      /\ d.sender = mgr
      /\ d.receivers = [x \in Who |-> d.receivers[x]]
      /\ \A x \in Who : d.receivers[x] = IF x = who THEN Received(Reader(c, who), w)
                                         ELSE c.receivers[x]
  BY <1>1 DEF After
<1>5. \A x \in Who : d.receivers[x] = IF x = who THEN Received(c.receivers[x], w)
                                      ELSE c.receivers[x]
  BY <1>3, <1>4
<1>6. Holds(d.receivers["peer"], "K", size) /\ Holds(d.receivers["stranger"], "K2", size)
  <2>1. "peer" \in Who /\ "stranger" \in Who
    BY DEF Who
  <2> QED
    BY <1>1, <1>2, <1>5, <2>1
<1>7. ReceiversAt(d, size)
  BY <1>4, <1>6 DEF ReceiversAt
<1> QED
  BY <1>4, <1>5, <1>7

LEMMA AllocateAt ==
  ASSUME NEW s, NEW n, NEW limit, SenderAt(s, n, limit)
  PROVE  /\ SenderAt(Allocate(s), n + 1, limit)
         /\ Allocate(s).prefix = s.prefix
         /\ s.next = n
  BY DEF SenderAt, Allocate

LEMMA ExhaustedAt ==
  ASSUME NEW s, NEW n \in Nat, NEW limit \in Nat, SenderAt(s, n, limit)
  PROVE  Exhausted(s) <=> n >= limit
  BY DEF SenderAt, Exhausted

\* What a window of the own stream says of a record sent before, and what becomes
\* of it.
Slid(bitmap, by, size) ==
  IF by >= size THEN {0} ELSE {i \in {j + by : j \in bitmap} \cup {0} : i < size}

LEMMA ShownJudged ==
  ASSUME NEW r, NEW size \in Nat, Holds(r, "K", size), NEW highest \in Nat, NEW bitmap,
         Shows(r, highest, bitmap), NEW s \in Nat, NEW c, NEW payload
  PROVE  LET w == Protected(c, s, payload)
             behind == highest - s
         IN  /\ s > highest =>
                  /\ Verdict(r, w) = "ACCEPTED"
                  /\ Shows(Received(r, w), s, Slid(bitmap, s - highest, size))
             /\ s <= highest /\ behind >= size => Verdict(r, w) = "STALE_RECORD"
             /\ s <= highest /\ behind < size /\ behind \in bitmap =>
                  Verdict(r, w) = "REPLAY_DETECTED"
             /\ s <= highest /\ behind < size /\ behind \notin bitmap =>
                  /\ Verdict(r, w) = "ACCEPTED"
                  /\ Shows(Received(r, w), highest, bitmap \cup {behind})
<1> DEFINE w == Protected(c, s, payload)  u == r.windows[Own]  behind == highest - s
           slid == Slid(bitmap, s - highest, size)
<1>1. r.size = size /\ r.key = "K"
  BY DEF Holds
<1>2. WindowFor(r, Own) = u /\ u.highest = highest /\ u.bitmap = bitmap
  BY DEF Shows, WindowFor
<1>3. /\ StreamKey(w.header) = Own /\ w.header.seq = s
      /\ Replay(r, s) = "FRESH" => Verdict(r, w) = "ACCEPTED"
      /\ Replay(r, s) = "DUPLICATE" => Verdict(r, w) = "REPLAY_DETECTED"
      /\ Replay(r, s) = "TOO_OLD" => Verdict(r, w) = "STALE_RECORD"
  BY <1>1, GenuineJudged
<1> HIDE DEF w, u
<1>4. Replay(r, s) = Windows(size)!WindowCheck(u, s)
  BY <1>1, <1>2 DEF Replay
<1>5. Verdict(r, w) = "ACCEPTED" =>
        /\ Own \in DOMAIN Received(r, w).windows
        /\ Received(r, w).windows[Own] = Windows(size)!WindowCommit(u, s)
  BY <1>2, <1>3, AcceptedShows
<1>6. ASSUME s > highest
      PROVE  Verdict(r, w) = "ACCEPTED" /\ Shows(Received(r, w), s, slid)
  <2>1. Windows(size)!WindowCheck(u, s) = "FRESH"
    BY <1>2, <1>6, AheadIsFresh
  <2>2. /\ Windows(size)!WindowCommit(u, s).highest = s
        /\ Windows(size)!WindowCommit(u, s).bitmap = Windows(size)!Shifted(u, s)
    BY <1>2, <1>6, AheadCommits
  <2>3. Windows(size)!Shifted(u, s) = slid
    BY <1>2 DEF Windows!Shifted, Slid
  <2> QED
    BY <1>3, <1>4, <1>5, <2>1, <2>2, <2>3 DEF Shows
<1>7. ASSUME s <= highest, behind >= size
      PROVE  Verdict(r, w) = "STALE_RECORD"
  BY <1>2, <1>3, <1>4, <1>7, BehindIsOld
<1>8. ASSUME s <= highest, behind < size, behind \in bitmap
      PROVE  Verdict(r, w) = "REPLAY_DETECTED"
  BY <1>2, <1>3, <1>4, <1>8, TakenIsDuplicate
<1>9. ASSUME s <= highest, behind < size, behind \notin bitmap
      PROVE  Verdict(r, w) = "ACCEPTED" /\ Shows(Received(r, w), highest, bitmap \cup {behind})
  <2>1. /\ Windows(size)!WindowCheck(u, s) = "FRESH"
        /\ Windows(size)!WindowCommit(u, s).highest = u.highest
        /\ Windows(size)!WindowCommit(u, s).bitmap = u.bitmap \cup {u.highest - s}
    BY <1>2, <1>9, InsideIsFresh
  <2> QED
    BY <1>2, <1>3, <1>4, <1>5, <2>1 DEF Shows
<1> QED
  BY <1>6, <1>7, <1>8, <1>9 DEF w, slid

\* A rewritten field and a flipped bit are other values of the field.
LEMMA FlippedDiffers ==
  ASSUME NEW x \in Int, NEW mask \in Nat \ {0}
  PROVE  Flipped(x, mask) # x
<1>1. x + mask # x /\ x - mask # x
  OBVIOUS
<1> QED
  BY <1>1 DEF Flipped

LEMMA RewriteIs ==
  ASSUME NEW w, NEW field, NEW x
  PROVE  Attacked(w, Rewrite(field, x)) = Changed(w, field, x)
  BY DEF Changed, Attacked, Rewrite, Attack

LEMMA FlipIs ==
  ASSUME NEW w, NEW field, NEW mask, "header" \in DOMAIN w, field \in DOMAIN w.header
  PROVE  Attacked(w, FlipBit(field, mask))
           = Changed(w, field, Flipped(w.header[field], mask))
  BY DEF Changed, Attacked, FlipBit, Attack

(***************************************************************************)
(* Steps                                                                   *)
(***************************************************************************)
Passed ==
  /\ pc' = pc + 1 /\ missed' = missed
  /\ UNCHANGED <<suite, count, demo, where, outcomes>>

\* The same, but a check may have failed.
Through ==
  /\ pc' = pc + 1 /\ missed' \in BOOLEAN
  /\ UNCHANGED <<suite, count, demo, where, outcomes>>

\* The step leaves the channels but one as they are.
Turns(j, c) == channels' = [channels EXCEPT ![j] = c]

LEMMA OpDecides ==
  ASSUME Next, Len(Script) \in Nat, pc <= Len(Script)
  PROVE  /\ where = "running"
         /\ Now.op = "open" => OpenChannel
         /\ Now.op = "send" => SendOnly
         /\ Now.op = "probe" => SendAndDeliver
         /\ Now.op = "again" => DeliverAgain
         /\ Now.op = "look" => LookAtWindow
         /\ Now.op = "range" => ShowRange
         /\ Now.op = "restart" => RestartSender
         /\ Now.op = "overrun" => Overrun
<1>1. ~ EndDemo
  BY DEF EndDemo
<1>2. /\ OpenChannel => where = "running" /\ Now.op = "open"
      /\ SendOnly => where = "running" /\ Now.op = "send"
      /\ SendAndDeliver => where = "running" /\ Now.op = "probe"
      /\ DeliverAgain => where = "running" /\ Now.op = "again"
  BY DEF OpenChannel, SendOnly, SendAndDeliver, DeliverAgain, Doing, Now
<1>3. /\ LookAtWindow => where = "running" /\ Now.op = "look"
      /\ ShowRange => where = "running" /\ Now.op = "range"
      /\ RestartSender => where = "running" /\ Now.op = "restart"
      /\ Overrun => where = "running" /\ Now.op = "overrun"
  BY DEF LookAtWindow, ShowRange, RestartSender, Overrun, Doing, Now
<1> QED
  BY <1>1, <1>2, <1>3 DEF Next

Keeps(k, j) ==
  /\ channels' = [i \in 1 .. k |-> channels'[i]]
  /\ \A i \in 1 .. k : i # j => channels'[i] = channels[i]

LEMMA TurnsKeeps ==
  ASSUME NEW k \in Nat, Opened(k), NEW j \in 1 .. k, NEW d, Turns(j, d)
  PROVE  Keeps(k, j) /\ channels'[j] = d
<1>1. DOMAIN channels = 1 .. k
  BY DEF Opened
<1>2. DOMAIN channels' = 1 .. k
  BY <1>1 DEF Turns
<1>3. channels'[j] = d /\ \A i \in 1 .. k : i # j => channels'[i] = channels[i]
  BY <1>1 DEF Turns
<1>4. channels' = [i \in 1 .. k |-> channels'[i]]
  BY <1>1, <1>2 DEF Turns
<1> QED
  BY <1>3, <1>4 DEF Keeps

\* What a check and a narration ask of a verdict.
Asked(v, seq) ==
  /\ v \notin Now.fatal /\ v \in Now.wanted
  /\ Now.still => v # "ACCEPTED"
  /\ Now.op = "probe" => Now.n \in {-1, seq}

LEMMA Delivered ==
  ASSUME NEW w, NEW mgr, Deliver(w, mgr), missed \in BOOLEAN, pc \in Nat,
         Verdict(Reader(Channel, Now.to), w) \notin Now.fatal
  PROVE  /\ Asked(Verdict(Reader(Channel, Now.to), w), w.header.seq) => Passed
         /\ Now.skip = 0 => Through
         /\ drawn' = drawn
         /\ Turns(Now.on, After(Channel, Now.to, Received(Reader(Channel, Now.to), w), mgr))
<1> DEFINE r == Reader(Channel, Now.to)  v == Verdict(r, w)
           k == <<OwnSession, OwnStream>>
           stays == WindowFor(Received(r, w), k).highest = WindowFor(r, k).highest
           holds == v \in Now.wanted /\ (Now.still => stays)
                    /\ (Now.op = "probe" => Now.n \in {-1, w.header.seq})
<1>1. v \notin Now.fatal
  OBVIOUS
<1>2. Now.still /\ v # "ACCEPTED" => stays
  BY DEF Received
<1>3. Asked(v, w.header.seq) => holds
  BY <1>2 DEF Asked
<1>4. /\ channels' = [channels EXCEPT
                ![Now.on] = [sender |-> mgr,
                             receivers |-> [x \in DOMAIN @.receivers |->
                               IF x = Now.to THEN Received(r, w) ELSE @.receivers[x]]]]
      /\ Goes(holds)
      /\ UNCHANGED drawn
  <2>1. r = IF Now.to = "near_miss" THEN NearMiss ELSE Channel.receivers[Now.to]
    BY DEF Reader
  <2> HIDE DEF r, k
  <2> QED
    BY <1>1, <2>1 DEF Deliver, k
<1>5. Turns(Now.on, After(Channel, Now.to, Received(r, w), mgr))
  <2> HIDE DEF r
  <2> QED
    BY <1>4 DEF Turns, After, Channel
<1> HIDE DEF holds
<1>6. Asked(v, w.header.seq) => Passed
  BY <1>3, <1>4 DEF Goes, Passed
<1>7. Now.skip = 0 => Through
  BY <1>4 DEF Goes, Through
<1> QED
  BY <1>4, <1>5, <1>6, <1>7

\* What the delivery of w on channel j changes there.
Given(j, w) ==
  /\ channels'[j].sender.prefix = channels[j].sender.prefix
  /\ \A x \in Who : channels'[j].receivers[x] =
       IF x = Now.to THEN Received(channels[j].receivers[x], w) ELSE channels[j].receivers[x]

LEMMA ProbeMoves ==
  ASSUME SendAndDeliver, missed \in BOOLEAN, pc \in Nat,
         NEW k \in Nat, Opened(k), NEW j \in 1 .. k, Now.on = j, Now.to \in Readers,
         NEW n \in Nat, NEW limit \in Nat, NEW size, ChannelAt(channels[j], n, limit, size),
         ~ Exhausted(channels[j].sender),
         NEW w, w = Attacked(Protected(channels[j], n, Now.payload), Now.attack),
         Verdict(Reader(channels[j], Now.to), w) \notin Now.fatal
  PROVE  /\ Asked(Verdict(Reader(channels[j], Now.to), w), w.header.seq) => Passed
         /\ Now.skip = 0 => Through
         /\ drawn' = drawn /\ Keeps(k, j)
         /\ ChannelAt(channels'[j], n + 1, limit, size) /\ Given(j, w)
<1> DEFINE c == channels[j]  mgr == Allocate(c.sender)
           d == After(c, Now.to, Received(Reader(c, Now.to), w), mgr)
<1>1. Channel = c
  BY DEF Channel
<1>2. SenderAt(c.sender, n, limit)
  BY DEF ChannelAt
<1>3. c.sender.next = n /\ SenderAt(mgr, n + 1, limit) /\ mgr.prefix = c.sender.prefix
  <2>1. /\ SenderAt(Allocate(c.sender), n + 1, limit)
        /\ Allocate(c.sender).prefix = c.sender.prefix
        /\ c.sender.next = n
    <3> HIDE DEF c
    <3> QED
      BY <1>2, AllocateAt
  <2> QED
    BY <2>1
<1>4. Deliver(w, mgr)
  BY <1>1, <1>3 DEF SendAndDeliver
<1>5. /\ Asked(Verdict(Reader(c, Now.to), w), w.header.seq) => Passed
      /\ Now.skip = 0 => Through
      /\ drawn' = drawn /\ Turns(j, d)
  BY <1>1, <1>4, Delivered
<1>6. Keeps(k, j) /\ channels'[j] = d
  BY <1>5, TurnsKeeps
<1>7. /\ ChannelAt(d, n + 1, limit, size)
      /\ d.sender = mgr
      /\ \A x \in Who : d.receivers[x] = IF x = Now.to THEN Received(c.receivers[x], w)
                                         ELSE c.receivers[x]
  <2> DEFINE to == Now.to
  <2>1. to \in Readers /\ d = After(c, to, Received(Reader(c, to), w), mgr)
        /\ to = Now.to /\ ReceiversAt(c, size)
    BY DEF ChannelAt
  <2> HIDE DEF c, mgr, to, d
  <2>2. /\ ReceiversAt(d, size)
        /\ d.sender = mgr
        /\ \A x \in Who : d.receivers[x] = IF x = Now.to THEN Received(c.receivers[x], w)
                                           ELSE c.receivers[x]
    BY <2>1, AfterAt
  <2> QED
    BY <1>3, <2>2 DEF ChannelAt
<1> QED
  BY <1>3, <1>5, <1>6, <1>7 DEF Given

LEMMA AgainMoves ==
  ASSUME DeliverAgain, missed \in BOOLEAN, pc \in Nat,
         NEW k \in Nat, Opened(k), NEW j \in 1 .. k, Now.on = j, Now.to \in Readers,
         NEW n \in Nat, NEW limit \in Nat, NEW size, ChannelAt(channels[j], n, limit, size),
         NEW w, w = Attacked(Protected(channels[j], IF Now.n < 0 THEN n - 1 ELSE Now.n, "text"),
                             Now.attack),
         Verdict(Reader(channels[j], Now.to), w) \notin Now.fatal
  PROVE  /\ Asked(Verdict(Reader(channels[j], Now.to), w), w.header.seq) => Passed
         /\ drawn' = drawn /\ Keeps(k, j)
         /\ ChannelAt(channels'[j], n, limit, size) /\ Given(j, w)
<1> DEFINE c == channels[j]  mgr == c.sender
           d == After(c, Now.to, Received(Reader(c, Now.to), w), mgr)
<1>1. Channel = c
  BY DEF Channel
<1>2. SenderAt(c.sender, n, limit)
  BY DEF ChannelAt
<1>3. c.sender.next = n
  BY <1>2, AllocateAt
<1>4. Deliver(w, mgr)
  BY <1>1, <1>3 DEF DeliverAgain
<1>5. /\ Asked(Verdict(Reader(c, Now.to), w), w.header.seq) => Passed
      /\ drawn' = drawn /\ Turns(j, d)
  BY <1>1, <1>4, Delivered
<1>6. Keeps(k, j) /\ channels'[j] = d
  BY <1>5, TurnsKeeps
<1>7. /\ ChannelAt(d, n, limit, size)
      /\ d.sender = mgr
      /\ \A x \in Who : d.receivers[x] = IF x = Now.to THEN Received(c.receivers[x], w)
                                         ELSE c.receivers[x]
  <2> DEFINE to == Now.to
  <2>1. to \in Readers /\ d = After(c, to, Received(Reader(c, to), w), mgr)
        /\ to = Now.to /\ ReceiversAt(c, size) /\ SenderAt(mgr, n, limit)
    BY <1>2 DEF ChannelAt
  <2> HIDE DEF c, mgr, to, d
  <2>2. /\ ReceiversAt(d, size)
        /\ d.sender = mgr
        /\ \A x \in Who : d.receivers[x] = IF x = Now.to THEN Received(c.receivers[x], w)
                                           ELSE c.receivers[x]
    BY <2>1, AfterAt
  <2> QED
    BY <2>1, <2>2 DEF ChannelAt
<1> QED
  BY <1>5, <1>6, <1>7 DEF Given

LEMMA OpenMoves ==
  ASSUME OpenChannel, missed \in BOOLEAN, NEW k \in Nat, Opened(k)
  PROVE  /\ Passed /\ drawn' = drawn
         /\ channels' = [i \in 1 .. k + 1 |-> channels'[i]]
         /\ \A i \in 1 .. k : channels'[i] = channels[i]
         /\ ChannelAt(channels'[k + 1], 0, Now.n, Now.size)
         /\ \A x \in Who : Untouched(channels'[k + 1].receivers[x])
         /\ channels'[k + 1].sender.prefix \in Prefixes
<1>1. PICK prefix \in Prefixes :
        channels' = Append(channels, [sender |-> NewManager(prefix, 0, Now.n),
                                      receivers |-> FreshReceivers(Now.size)])
  BY DEF OpenChannel
<1> DEFINE s == NewManager(prefix, 0, Now.n)  f == FreshReceivers(Now.size)
           c == [sender |-> s, receivers |-> f]  S == {channels[i] : i \in 1 .. k} \cup {c}
<1>2. Passed /\ drawn' = drawn
  BY DEF OpenChannel, Goes, Passed
<1>3. SenderAt(s, 0, Now.n) /\ s.prefix \in Prefixes
  BY DEF NewManager, SenderAt
<1>4. /\ f = [x \in Who |-> f[x]]
      /\ Holds(f["peer"], "K", Now.size) /\ Holds(f["stranger"], "K2", Now.size)
      /\ \A x \in Who : Untouched(f[x])
  BY DEF FreshReceivers, Who, Holds, Untouched
<1> HIDE DEF s, f
<1>5. c.sender = s /\ c.receivers = f /\ c = [sender |-> c.sender, receivers |-> c.receivers]
  OBVIOUS
<1> HIDE DEF c
<1>6. ChannelAt(c, 0, Now.n, Now.size)
  BY <1>3, <1>4, <1>5 DEF ChannelAt, ReceiversAt
<1>7. c \in S /\ \A i \in 1 .. k : channels[i] \in S
  OBVIOUS
<1> HIDE DEF S
<1>8. channels \in Seq(S) /\ Len(channels) = k
  <2>1. [i \in 1 .. k |-> channels[i]] \in Seq(S)
    BY <1>7
  <2>2. channels \in Seq(S) /\ DOMAIN channels = 1 .. k
    BY <2>1 DEF Opened
  <2> QED
    BY <2>2, LenProperties
<1>9. channels' = Append(channels, c)
  BY <1>1 DEF c, s, f
<1>10. /\ channels' \in Seq(S) /\ Len(channels') = k + 1
       /\ \A i \in 1 .. k : channels'[i] = channels[i]
       /\ channels'[k + 1] = c
  BY <1>7, <1>8, <1>9, AppendProperties
<1>11. channels' = [i \in 1 .. k + 1 |-> channels'[i]]
  BY <1>10, LenProperties
<1> QED
  BY <1>2, <1>3, <1>4, <1>5, <1>6, <1>10, <1>11

LEMMA SendMoves ==
  ASSUME SendOnly, missed \in BOOLEAN, NEW k \in Nat, Opened(k), NEW j \in 1 .. k, Now.on = j,
         NEW n \in Nat, NEW limit \in Nat, NEW size, ChannelAt(channels[j], n, limit, size),
         ~ Exhausted(channels[j].sender)
  PROVE  /\ Passed /\ drawn' = drawn /\ Keeps(k, j)
         /\ ChannelAt(channels'[j], n + 1, limit, size)
         /\ channels'[j].sender.prefix = channels[j].sender.prefix
         /\ channels'[j].receivers = channels[j].receivers
<1> DEFINE c == channels[j]  mgr == Allocate(c.sender)
           d == [sender |-> mgr, receivers |-> c.receivers]
<1>1. Channel = c /\ DOMAIN channels = 1 .. k
  BY DEF Channel, Opened
<1>2. c = [sender |-> c.sender, receivers |-> c.receivers]
  BY DEF ChannelAt, ReceiversAt
<1>3. /\ channels' = [channels EXCEPT ![j].sender = mgr]
      /\ Passed /\ drawn' = drawn
  BY <1>1 DEF SendOnly, Goes, Passed
<1>4. Turns(j, d)
  <2> HIDE DEF mgr
  <2>1. [c EXCEPT !.sender = mgr] = d
    BY <1>2
  <2> QED
    BY <1>1, <1>3, <2>1 DEF Turns
<1>5. Keeps(k, j) /\ channels'[j] = d
  <2> HIDE DEF d
  <2> QED
    BY <1>4, TurnsKeeps
<1>6. SenderAt(c.sender, n, limit)
  BY DEF ChannelAt
<1>7. SenderAt(mgr, n + 1, limit) /\ mgr.prefix = c.sender.prefix
  <2> HIDE DEF c
  <2> QED
    BY <1>6, AllocateAt
<1>8. ReceiversAt(c, size)
  BY DEF ChannelAt
<1> HIDE DEF mgr
<1>9. d.sender = mgr /\ d.receivers = c.receivers
      /\ d = [sender |-> d.sender, receivers |-> d.receivers]
  OBVIOUS
<1> HIDE DEF d
<1>10. ReceiversAt(d, size)
  BY <1>8, <1>9 DEF ReceiversAt
<1>11. ChannelAt(d, n + 1, limit, size)
  BY <1>7, <1>9, <1>10 DEF ChannelAt
<1> QED
  BY <1>3, <1>5, <1>7, <1>9, <1>11

LEMMA OverrunMoves ==
  ASSUME Overrun, missed \in BOOLEAN, NEW k \in Nat, Opened(k), NEW j \in 1 .. k, Now.on = j,
         NEW size, ReceiversAt(channels[j], size), Exhausted(channels[j].sender)
  PROVE  Passed /\ UNCHANGED <<channels, drawn>>
<1>1. Channel = channels[j] /\ DOMAIN channels = 1 .. k
  BY DEF Channel, Opened
<1>2. channels' = [channels EXCEPT ![j].sender = channels[j].sender]
  BY <1>1 DEF Overrun
<1>3. [channels[j] EXCEPT !.sender = channels[j].sender] = channels[j]
  BY DEF ReceiversAt
<1>4. channels' = channels
  <2>1. Turns(j, channels[j])
    BY <1>2, <1>3 DEF Turns
  <2>2. Keeps(k, j) /\ channels'[j] = channels[j]
    BY <2>1, TurnsKeeps
  <2>3. \A i \in 1 .. k : channels'[i] = channels[i]
    BY <2>2 DEF Keeps
  <2>4. [i \in 1 .. k |-> channels'[i]] = [i \in 1 .. k |-> channels[i]]
    BY <2>3
  <2> QED
    BY <2>2, <2>4 DEF Keeps, Opened
<1>5. Passed /\ drawn' = drawn
  BY <1>1 DEF Overrun, Goes, Passed
<1> QED
  BY <1>4, <1>5

LEMMA LookMoves ==
  ASSUME LookAtWindow, missed \in BOOLEAN, DOMAIN channels[Now.on].receivers["peer"].windows # {}
  PROVE  Passed /\ UNCHANGED <<channels, drawn>>
  BY DEF LookAtWindow, Channel, Goes, Passed

(***************************************************************************)
(* What holds between two steps of a script                                *)
(***************************************************************************)
Peer(j) == channels[j].receivers["peer"]
Stranger(j) == channels[j].receivers["stranger"]

First(n) == ChannelAt(channels[1], n, DefaultLimit, DefaultWindow)

\* TR-1 to TR-3: every step sends a record.
Steady ==
  /\ ~ missed
  /\ Opened(IF pc = 1 THEN 0 ELSE 1)
  /\ pc > 1 => First(pc - 2) /\ Below(Peer(1), pc - 2)

\* TR-4: nothing is accepted, unless the sender's own prefix is the one written.
Swept ==
  /\ Opened(IF pc = 1 THEN 0 ELSE 1)
  /\ pc > 1 => First(pc - 2) /\ channels[1].sender.prefix \in Prefixes
  /\ missed => pc > 1 /\ channels[1].sender.prefix = DeadBeef
  /\ pc > 1 /\ channels[1].sender.prefix # DeadBeef => Untouched(Peer(1))

\* The window of TR-5's second channel, before the step given.
Scattered(step, r) ==
  /\ step <= 138 => Untouched(r)
  /\ step = 139 => Shows(r, 3, {0})
  /\ step = 140 => Shows(r, 3, {0, 3})
  /\ step = 141 => Shows(r, 7, {0, 4, 7})
  /\ step = 142 => Shows(r, 7, {0, 4, 6, 7})
  /\ step = 143 => Shows(r, 7, {0, 2, 4, 6, 7})
  /\ step = 144 => Shows(r, 7, {0, 2, 4, 5, 6, 7})
  /\ step = 145 => Shows(r, 7, {0, 1, 2, 4, 5, 6, 7})
  /\ step \in {146, 147} => Shows(r, 7, 0 .. 7)
  /\ step \in {148, 149} => Shows(r, 19, {0})
  /\ step >= 150 => Shows(r, 19, {0, 7})

Second5At == ChannelAt(channels[2], IF pc <= 138 THEN pc - 106 ELSE 32, DefaultLimit, SmallWindow)

Sent3 == IF pc <= 153 THEN pc - 152 ELSE IF pc = 154 THEN 1 ELSE IF pc = 155 THEN 2 ELSE 3

\* TR-5: three channels.
Replayed ==
  /\ ~ missed
  /\ Opened(IF pc = 1 THEN 0 ELSE IF pc <= 105 THEN 1 ELSE IF pc <= 151 THEN 2 ELSE 3)
  /\ pc > 1 => First(IF pc = 2 THEN 0 ELSE 1)
  /\ pc \in {2, 3} => Untouched(Peer(1))
  /\ pc > 3 => Shows(Peer(1), 0, {0})
  /\ pc > 105 => Second5At /\ Scattered(pc, Peer(2))
  /\ pc > 151 => /\ ChannelAt(channels[3], Sent3, DefaultLimit, DefaultWindow)
                 /\ Below(Peer(3), Sent3)
  /\ pc > 152 => Own \in DOMAIN Peer(3).windows

Sent6 == IF pc <= 5 THEN (IF pc = 2 THEN 0 ELSE 1) ELSE IF pc <= 362 THEN pc - 4 ELSE 358

\* TR-6: the peer has accepted what the stranger, with a key of its own, has not.
Keyed ==
  /\ ~ missed
  /\ Opened(IF pc = 1 THEN 0 ELSE 1)
  /\ pc > 1 => First(Sent6) /\ Below(Peer(1), Sent6) /\ Untouched(Stranger(1))
  /\ pc \in {2, 3} => Untouched(Peer(1))

Repeats == Cardinality({drawn[i] : i \in DOMAIN drawn}) < Len(drawn)

\* TR-7: a channel of the policy's budget, restarts, and a channel of a small one.
Budgeted ==
  LET m == RangeAt(count)
      o == OpenAt(count)
      v == OverrunAt(count)
  IN  /\ missed => Repeats
      /\ drawn \in Seq(Prefixes \X {0})
      /\ Opened(IF pc = 1 THEN 0 ELSE IF pc <= o THEN 1 ELSE 2)
      /\ pc > 1 /\ pc <= m => First(pc - 2) /\ Below(Peer(1), pc - 2)
      /\ pc > o => ChannelAt(channels[2], IF pc <= v THEN pc - (o + 1) ELSE SmallLimit,
                             SmallLimit, DefaultWindow)

ScriptsInv ==
  /\ suite \in Suites /\ count \in RecordCounts /\ demo \in 1 .. 7
  /\ pc \in Nat \ {0} /\ missed \in BOOLEAN
  /\ where = "raised" => demo = 7 /\ count \notin 1 .. DefaultLimit
  /\ demo \in 1 .. 3 => Steady
  /\ demo = 4 => Swept
  /\ demo = 5 => Replayed
  /\ demo = 6 => Keyed
  /\ demo = 7 => Budgeted

(***************************************************************************)
(* Steps that every script shares                                          *)
(***************************************************************************)
LEMMA ScriptIs ==
  ASSUME suite \in Suites, count \in RecordCounts
  PROVE  /\ demo = 1 => Script = TR1
         /\ demo = 2 => Script = TR2
         /\ demo = 3 => Script = TR3
         /\ demo = 4 => Script = TR4(suite)
         /\ demo = 5 => Script = TR5
         /\ demo = 6 => Script = TR6
         /\ demo = 7 => Script = TR7(count)
<1> DEFINE a == TR1  b == TR2  c == TR3  d == TR4(suite)  e == TR5  f == TR6  g == TR7(count)
<1>1. Script = <<a, b, c, d, e, f, g>>[demo]
  BY DEF Script, Scripts
<1> HIDE DEF a, b, c, d, e, f, g
<1>2. /\ demo = 1 => Script = a
      /\ demo = 2 => Script = b
      /\ demo = 3 => Script = c
      /\ demo = 4 => Script = d
      /\ demo = 5 => Script = e
      /\ demo = 6 => Script = f
      /\ demo = 7 => Script = g
  BY <1>1
<1> QED
  BY <1>2 DEF a, b, c, d, e, f, g

\* A number nobody has sent yet: what the peer says of the record under it.
LEMMA FreshJudged ==
  ASSUME NEW r, NEW size \in Nat, Holds(r, "K", size), NEW n \in Nat, Below(r, n), NEW c,
         NEW payload \in Payloads, NEW attack, NEW w,
         w = Attacked(Protected(c, n, payload), attack)
  PROVE  /\ attack = Unaltered =>
              /\ Verdict(r, w) = "ACCEPTED" /\ w.header.seq = n
              /\ Own \in DOMAIN Received(r, w).windows
              /\ Below(Received(r, w), n + 1)
              /\ Untouched(r) => Shows(Received(r, w), n, {0})
         /\ attack = Damaged =>
              Verdict(r, w) = "AUTH_FAILED" /\ Below(Received(r, w), n + 1)
         /\ attack = Shortened(4) =>
              Verdict(r, w) = "MALFORMED" /\ Below(Received(r, w), n + 1)
<1>1. Below(r, n + 1)
  BY DEF Below
<1>2. r.size = size
  BY DEF Holds
<1>3. Replay(r, n) = "FRESH"
  BY <1>2, BelowIsFresh
<1>4. CASE attack = Unaltered
  <2>1. w = Protected(c, n, payload)
    BY <1>4 DEF Attacked, Unaltered, Attack
  <2>2. /\ Verdict(r, w) = "ACCEPTED"
        /\ w.header.seq = n
        /\ Own \in DOMAIN Received(r, w).windows
        /\ Received(r, w).windows[Own].highest = n
        /\ Untouched(r) => Shows(Received(r, w), n, {0})
    BY <2>1, GenuineAccepted
  <2>3. Below(Received(r, w), n + 1)
    BY <2>2 DEF Below
  <2>4. attack # Damaged /\ attack # Shortened(4)
    BY <1>4 DEF Unaltered, Damaged, Shortened, Attack
  <2> QED
    BY <2>2, <2>3, <2>4
<1>5. CASE attack = Damaged
  <2>1. Verdict(r, w) = "AUTH_FAILED"
    BY <1>3, <1>5, DamagedJudged
  <2>2. Received(r, w) = r
    BY <2>1 DEF Received
  <2>3. attack # Unaltered /\ attack # Shortened(4)
    BY <1>5 DEF Unaltered, Damaged, Shortened, Attack
  <2> QED
    BY <1>1, <2>1, <2>2, <2>3
<1>6. CASE attack = Shortened(4)
  <2>1. Verdict(r, w) = "MALFORMED"
    BY <1>6, CutJudged
  <2>2. Received(r, w) = r
    BY <2>1 DEF Received
  <2>3. attack # Unaltered /\ attack # Damaged
    BY <1>6 DEF Unaltered, Damaged, Shortened, Attack
  <2> QED
    BY <1>1, <2>1, <2>2, <2>3
<1> QED
  BY <1>4, <1>5, <1>6

\* A record sent to the peer, whole, damaged or cut.
LEMMA PeerProbe ==
  ASSUME SendAndDeliver, missed \in BOOLEAN, pc \in Nat,
         NEW k \in Nat, Opened(k), NEW j \in 1 .. k,
         NEW n \in Nat, n < DefaultLimit, ChannelAt(channels[j], n, DefaultLimit, DefaultWindow),
         Below(Peer(j), n),
         Now.on = j, Now.to = "peer", Now.payload \in Payloads, Now.n \in {-1, n}, ~ Now.still,
         \/ Now.attack = Unaltered /\ "ACCEPTED" \in Now.wanted \ Now.fatal
         \/ Now.n = -1 /\ Now.attack = Damaged /\ "AUTH_FAILED" \in Now.wanted \ Now.fatal
         \/ Now.n = -1 /\ Now.attack = Shortened(4) /\ "MALFORMED" \in Now.wanted \ Now.fatal
  PROVE  /\ Passed /\ drawn' = drawn /\ Keeps(k, j)
         /\ ChannelAt(channels'[j], n + 1, DefaultLimit, DefaultWindow)
         /\ Below(channels'[j].receivers["peer"], n + 1)
         /\ channels'[j].receivers["stranger"] = channels[j].receivers["stranger"]
         /\ Now.attack = Unaltered => Own \in DOMAIN channels'[j].receivers["peer"].windows
<1> DEFINE c == channels[j]  r == c.receivers["peer"]
           w == Attacked(Protected(c, n, Now.payload), Now.attack)
<1>1. SenderAt(c.sender, n, DefaultLimit) /\ ReceiversAt(c, DefaultWindow)
  BY DEF ChannelAt
<1>2. ~ Exhausted(c.sender)
  <2> HIDE DEF c
  <2> QED
    BY <1>1, ExhaustedAt, DemosAssumption
<1>3. Holds(r, "K", DefaultWindow) /\ Reader(c, "peer") = r
  <2> HIDE DEF c
  <2> QED
    BY <1>1, ReaderHolds
<1>4. Below(r, n)
  BY DEF Peer
<1> DEFINE p == Now.payload  a == Now.attack
<1>5. p \in Payloads /\ DefaultWindow \in Nat /\ w = Attacked(Protected(c, n, p), a)
  BY DemosAssumption
<1> HIDE DEF r, c, w, p, a
<1>6. /\ a = Unaltered =>
           /\ Verdict(r, w) = "ACCEPTED" /\ w.header.seq = n
           /\ Own \in DOMAIN Received(r, w).windows
           /\ Below(Received(r, w), n + 1)
           /\ Untouched(r) => Shows(Received(r, w), n, {0})
      /\ a = Damaged =>
           Verdict(r, w) = "AUTH_FAILED" /\ Below(Received(r, w), n + 1)
      /\ a = Shortened(4) =>
           Verdict(r, w) = "MALFORMED" /\ Below(Received(r, w), n + 1)
  BY <1>3, <1>4, <1>5, FreshJudged
<1>7. Asked(Verdict(r, w), w.header.seq) /\ Below(Received(r, w), n + 1)
  BY <1>6 DEF Asked, a
<1>8. Verdict(Reader(c, Now.to), w) \notin Now.fatal /\ Now.to \in Readers
  BY <1>3, <1>7 DEF Asked, Readers
<1>9. /\ Asked(Verdict(Reader(c, Now.to), w), w.header.seq) => Passed
      /\ drawn' = drawn /\ Keeps(k, j)
      /\ ChannelAt(channels'[j], n + 1, DefaultLimit, DefaultWindow) /\ Given(j, w)
  BY <1>2, <1>8, ProbeMoves, DemosAssumption DEF c, w
<1>10. Passed
  BY <1>3, <1>7, <1>9
<1>11. /\ channels'[j].receivers["peer"] = Received(r, w)
       /\ channels'[j].receivers["stranger"] = channels[j].receivers["stranger"]
  BY <1>9 DEF Given, Who, r, c
<1> QED
  BY <1>6, <1>7, <1>9, <1>10, <1>11 DEF a

\* The demonstration goes on, and its own part of the invariant is kept.
LEMMA GoesOn ==
  ASSUME ScriptsInv, where = "running", Through,
         demo \in 1 .. 3 => Steady', demo = 4 => Swept', demo = 5 => Replayed',
         demo = 6 => Keyed', demo = 7 => Budgeted'
  PROVE  ScriptsInv'
  BY DEF ScriptsInv, Through

LEMMA PassedThrough == ASSUME Passed, missed \in BOOLEAN PROVE Through
  BY DEF Passed, Through

\* The first step of each script.
LEMMA NewChannelMoves ==
  ASSUME OpenChannel, missed \in BOOLEAN, NEW k \in Nat, Opened(k),
         NEW limit, NEW size, Now.n = limit, Now.size = size
  PROVE  /\ Passed /\ drawn' = drawn
         /\ channels' = [i \in 1 .. k + 1 |-> channels'[i]]
         /\ \A i \in 1 .. k : channels'[i] = channels[i]
         /\ ChannelAt(channels'[k + 1], 0, limit, size)
         /\ channels'[k + 1].sender.prefix \in Prefixes
         /\ Untouched(channels'[k + 1].receivers["peer"])
         /\ Untouched(channels'[k + 1].receivers["stranger"])
<1>1. "peer" \in Who /\ "stranger" \in Who
  BY DEF Who
<1> QED
  BY <1>1, OpenMoves

LEMMA Limits ==
  /\ DefaultLimit \in Nat /\ DefaultLimit >= 387 /\ DefaultWindow \in Nat \ {0}
  /\ SmallLimit \in Nat \ {0} /\ Restarts \in Nat
  BY DemosAssumption

LEMMA NewChannelIs ==
  NewChannel.op = "open" /\ NewChannel.n = DefaultLimit /\ NewChannel.size = DefaultWindow
  BY DEF NewChannel, Open, Step

LEMMA FirstOpens ==
  ASSUME Next, missed \in BOOLEAN, pc = 1, Len(Script) \in Nat \ {0}, Script[1] = NewChannel,
         Opened(0)
  PROVE  /\ where = "running" /\ Passed /\ drawn' = drawn
         /\ channels' = [i \in 1 .. 1 |-> channels'[i]]
         /\ ChannelAt(channels'[1], 0, DefaultLimit, DefaultWindow)
         /\ channels'[1].sender.prefix \in Prefixes
         /\ Untouched(channels'[1].receivers["peer"])
         /\ Untouched(channels'[1].receivers["stranger"])
<1>1. Now = NewChannel
  BY DEF Now
<1>2. Now.n = DefaultLimit /\ Now.size = DefaultWindow /\ Now.op = "open"
  BY <1>1, NewChannelIs
<1>3. where = "running" /\ OpenChannel
  BY <1>2, OpDecides
<1> DEFINE k == 0
<1>4. k \in Nat /\ Opened(k) /\ k + 1 = 1
  OBVIOUS
<1> HIDE DEF k
<1>5. /\ Passed /\ drawn' = drawn
      /\ channels' = [i \in 1 .. k + 1 |-> channels'[i]]
      /\ \A i \in 1 .. k : channels'[i] = channels[i]
      /\ ChannelAt(channels'[k + 1], 0, DefaultLimit, DefaultWindow)
      /\ channels'[k + 1].sender.prefix \in Prefixes
      /\ Untouched(channels'[k + 1].receivers["peer"])
      /\ Untouched(channels'[k + 1].receivers["stranger"])
  BY <1>2, <1>3, <1>4, NewChannelMoves
<1> QED
  BY <1>3, <1>4, <1>5

\* TR-1 to TR-3: the records are whole, damaged or cut, and each is judged as its
\* check asks.
SteadySteps ==
  {[Accepted EXCEPT !.payload = "empty"], Accepted, NeedsPlaintext(Accepted),
   NeedsReason(DamagedProbe), DamagedProbe, Probe(Damaged, Rejected), CutProbe}

LEMMA SteadyScript ==
  ASSUME ScriptsInv, demo \in 1 .. 3
  PROVE  /\ Len(Script) \in 1 .. 388
         /\ Script[1] = NewChannel
         /\ \A i \in 2 .. Len(Script) : Script[i] \in SteadySteps
<1>1. suite \in Suites /\ count \in RecordCounts
  BY DEF ScriptsInv
<1>2. ASSUME demo = 1
      PROVE  /\ Len(Script) = 8 /\ 8 \in 1 .. 388 /\ Script[1] = NewChannel
             /\ \A i \in 2 .. Len(Script) : Script[i] \in SteadySteps
  <2>1. Script = TR1
    BY <1>1, <1>2, ScriptIs
  <2>2. Len(Script) = 8 /\ Script[1] = NewChannel
    BY <2>1, TR1Steps
  <2>3. \A i \in 2 .. 8 : i = 2 \/ i = 7 \/ i \in {3, 4, 5, 6, 8}
    OBVIOUS
  <2>4. \A i \in 2 .. 8 : Script[i] \in SteadySteps
    BY <2>1, <2>3, TR1Steps DEF SteadySteps
  <2> QED
    BY <2>2, <2>4
<1>3. ASSUME demo = 2
      PROVE  /\ Len(Script) = 67 /\ 67 \in 1 .. 388 /\ Script[1] = NewChannel
             /\ \A i \in 2 .. Len(Script) : Script[i] \in SteadySteps
  <2>1. Script = TR2
    BY <1>1, <1>3, ScriptIs
  <2>2. Len(Script) = 67 /\ Script[1] = NewChannel
    BY <2>1, TR2Steps
  <2>3. \A i \in 2 .. 67 : i = 2 \/ i = 67 \/ i \in 3 .. 66
    OBVIOUS
  <2>4. \A i \in 2 .. 67 : Script[i] \in SteadySteps
    BY <2>1, <2>3, TR2Steps DEF SteadySteps
  <2> QED
    BY <2>2, <2>4
<1>4. ASSUME demo = 3
      PROVE  /\ Len(Script) = 388 /\ 388 \in 1 .. 388 /\ Script[1] = NewChannel
             /\ \A i \in 2 .. Len(Script) : Script[i] \in SteadySteps
  <2>1. Script = TR3
    BY <1>1, <1>4, ScriptIs
  <2>2. Len(Script) = 388 /\ Script[1] = NewChannel
    BY <2>1, TR3Steps
  <2>3. \A i \in 2 .. 388 : i = 2 \/ i = 388 \/ i \in 3 .. 387
    OBVIOUS
  <2>4. \A i \in 2 .. 388 : Script[i] \in SteadySteps
    BY <2>1, <2>3, TR3Steps DEF SteadySteps
  <2> QED
    BY <2>2, <2>4
<1>5. demo = 1 \/ demo = 2 \/ demo = 3
  OBVIOUS
<1>6. CASE demo = 1
  BY <1>2, <1>6
<1>7. CASE demo = 2
  BY <1>3, <1>7
<1>8. CASE demo = 3
  BY <1>4, <1>8
<1> QED
  BY <1>5, <1>6, <1>7, <1>8

LEMMA SteadyNow ==
  ASSUME Now \in SteadySteps
  PROVE  /\ Now.op = "probe" /\ Now.on = 1 /\ Now.to = "peer" /\ Now.n = -1 /\ ~ Now.still
         /\ Now.payload \in Payloads
         /\ \/ Now.attack = Unaltered /\ "ACCEPTED" \in Now.wanted \ Now.fatal
            \/ Now.attack = Damaged /\ "AUTH_FAILED" \in Now.wanted \ Now.fatal
            \/ Now.attack = Shortened(4) /\ "MALFORMED" \in Now.wanted \ Now.fatal
<1>1. "empty" \in Payloads /\ "text" \in Payloads
  BY ValuesAssumption
<1>2. CASE Now \in {[Accepted EXCEPT !.payload = "empty"], Accepted, NeedsPlaintext(Accepted)}
  BY <1>1, <1>2, ZenonT(30) DEF Accepted, NeedsPlaintext, Probe, Step, Rejected
<1>3. CASE Now \in {NeedsReason(DamagedProbe), DamagedProbe, Probe(Damaged, Rejected)}
  BY <1>1, <1>3, ZenonT(30) DEF DamagedProbe, NeedsReason, Probe, Step, Rejected, AllVerdicts
<1>4. CASE Now = CutProbe
  BY <1>1, <1>4 DEF CutProbe, NeedsReason, Probe, Step
<1> QED
  BY <1>2, <1>3, <1>4 DEF SteadySteps

LEMMA SteadyStep ==
  ASSUME ScriptsInv, Next, demo \in 1 .. 3, pc <= Len(Script)
  PROVE  ScriptsInv'
<1> DEFINE l == Len(Script)
<1>1. l \in 1 .. 388 /\ l \in Nat \ {0} /\ pc <= l
  <2>1. l \in 1 .. 388 /\ pc <= l
    BY SteadyScript
  <2> HIDE DEF l
  <2> QED
    BY <2>1
<1>2. /\ l \in 1 .. 388 /\ Script[1] = NewChannel
      /\ \A i \in 2 .. l : Script[i] \in SteadySteps
  BY SteadyScript
<1> HIDE DEF l
<1>3. /\ pc \in Nat \ {0} /\ missed \in BOOLEAN
      /\ ~ missed /\ Opened(IF pc = 1 THEN 0 ELSE 1)
      /\ pc > 1 => First(pc - 2) /\ Below(Peer(1), pc - 2)
  BY DEF ScriptsInv, Steady
<1>4. CASE pc = 1
  <2>1. /\ where = "running" /\ Passed /\ drawn' = drawn
        /\ channels' = [i \in 1 .. 1 |-> channels'[i]]
        /\ ChannelAt(channels'[1], 0, DefaultLimit, DefaultWindow)
        /\ Untouched(channels'[1].receivers["peer"])
    <3>1. Len(Script) \in Nat \ {0} /\ Script[1] = NewChannel
      BY <1>2, <1>1 DEF l
    <3>2. missed \in BOOLEAN /\ pc = 1 /\ Opened(0)
      BY <1>3, <1>4
    <3> QED
      BY <3>1, <3>2, FirstOpens
  <2>2. pc' = 2 /\ ~ missed' /\ Below(channels'[1].receivers["peer"], 0)
    BY <1>3, <1>4, <2>1, UntouchedBelow DEF Passed
  <2>3. Steady'
    BY <2>1, <2>2 DEF Steady, Opened, First, Peer
  <2>4. Through
    BY <1>3, <2>1, PassedThrough
  <2>5. demo \notin {4, 5, 6, 7}
    OBVIOUS
  <2> QED
    BY <2>1, <2>3, <2>4, <2>5, GoesOn
<1>5. CASE pc > 1
  <2> DEFINE n == pc - 2  k == 1
  <2>1. Now \in SteadySteps
    BY <1>2, <1>3, <1>5, <1>1 DEF Now
  <2>2. /\ Now.op = "probe" /\ Now.on = k /\ Now.to = "peer" /\ Now.n = -1 /\ ~ Now.still
        /\ Now.payload \in Payloads
        /\ \/ Now.attack = Unaltered /\ "ACCEPTED" \in Now.wanted \ Now.fatal
           \/ Now.attack = Damaged /\ "AUTH_FAILED" \in Now.wanted \ Now.fatal
           \/ Now.attack = Shortened(4) /\ "MALFORMED" \in Now.wanted \ Now.fatal
    BY <2>1, SteadyNow
  <2>3. where = "running" /\ SendAndDeliver
    <3>1. Len(Script) \in Nat
      BY <1>1 DEF l
    <3>2. where = "running" /\ (Now.op = "probe" => SendAndDeliver)
      BY <3>1, OpDecides
    <3> QED
      BY <2>2, <3>2
  <2>4. n \in Nat /\ n < DefaultLimit
    <3>1. pc <= 388
      BY <1>3, <1>1
    <3> QED
      BY <1>3, <1>5, <3>1, Limits
  <2>5. /\ k \in Nat /\ Opened(k) /\ k \in 1 .. k /\ Below(Peer(k), n)
        /\ ChannelAt(channels[k], n, DefaultLimit, DefaultWindow)
    BY <1>3, <1>5 DEF First
  <2>6. k = 1 /\ pc \in Nat
    BY <1>3
  <2> HIDE DEF n, k
  <2>7. /\ Passed /\ Keeps(k, k)
        /\ ChannelAt(channels'[k], n + 1, DefaultLimit, DefaultWindow)
        /\ Below(channels'[k].receivers["peer"], n + 1)
    BY <1>3, <2>2, <2>3, <2>4, <2>5, <2>6, PeerProbe
  <2>8. pc' = pc + 1 /\ ~ missed' /\ pc' > 1 /\ pc' - 2 = n + 1
    BY <1>3, <1>5, <2>7 DEF Passed, n
  <2>9. Steady'
    BY <2>6, <2>7, <2>8 DEF Steady, Opened, First, Peer, Keeps
  <2>10. Through
    BY <1>3, <2>7, PassedThrough
  <2>11. demo \notin {4, 5, 6, 7}
    OBVIOUS
  <2> QED
    BY <2>3, <2>9, <2>10, <2>11, GoesOn
<1> QED
  BY <1>3, <1>4, <1>5

(***************************************************************************)
(* TR-4                                                                    *)
(***************************************************************************)
\* A change of the header, and a receiver that has accepted nothing.
LEMMA AlteredRefused ==
  ASSUME NEW r, Untouched(r), NEW c, NEW seq, NEW payload, NEW field \in Fields, NEW x,
         NEW w, w = Changed(Protected(c, seq, payload), field, x),
         x # Protected(c, seq, payload).header[field]
  PROVE  Verdict(r, w) \in Rejected /\ Verdict(r, w) \in Attribution(field)
<1> DEFINE said == Windows(r.size)!WindowCheck(WindowFor(r, StreamKey(w.header)), w.header.seq)
<1>1. WindowFor(r, StreamKey(w.header)) = Windows(r.size)!EmptyWindow
  BY DEF WindowFor, Untouched
<1>2. said \in {"INVALID", "FRESH"}
  BY <1>1 DEF Windows!WindowCheck, Windows!Ahead, Windows!EmptyWindow
<1>3. AlteredVerdict(r, w, seq, field, x)
  BY AlteredJudged
<1> HIDE DEF said
<1>4. said \notin {"DUPLICATE", "TOO_OLD"}
  BY <1>2
<1>5. /\ Verdict(r, w) \in Rejected
      /\ field \in {"version", "len"} => Verdict(r, w) = "MALFORMED"
      /\ field = "suite" => Verdict(r, w) = "SUITE_MISMATCH"
      /\ field = "session" => Verdict(r, w) = "SESSION_MISMATCH"
      /\ field \in {"type", "stream", "prefix", "seq"} /\ said \notin {"DUPLICATE", "TOO_OLD"} =>
           Verdict(r, w) = "AUTH_FAILED"
  BY <1>3 DEF said, AlteredVerdict
<1>6. Verdict(r, w) \in Attribution(field)
  <2>1. CASE field \in {"version", "len"}
    BY <1>5, <2>1 DEF Attribution
  <2>2. CASE field = "suite"
    BY <1>5, <2>2 DEF Attribution
  <2>3. CASE field = "session"
    BY <1>5, <2>3 DEF Attribution
  <2>4. CASE field \in {"type", "stream", "prefix", "seq"}
    BY <1>4, <1>5, <2>4 DEF Attribution
  <2> QED
    BY <2>1, <2>2, <2>3, <2>4 DEF Fields
<1> QED
  BY <1>5, <1>6

\* What TR-4 writes into the field, beside its own value.
Other(own, field, x) ==
  /\ field \in {"type", "stream", "session"} => x # 1
  /\ field = "prefix" => x = DeadBeef
  /\ field = "seq" => x = 5000
  /\ field = "suite" => x # own
  /\ field = "len" => x = 1
  /\ field # "version"

LEMMA TR4CaseIs ==
  ASSUME NEW own \in Suites, NEW i \in 1 .. 8
  PROVE  \E field \in Fields : \E x :
           TR4Cases(own)[i] = Rewrite(field, x) /\ Other(own, field, x)
<1> DEFINE other(set, x) == CHOOSE y \in set : y # x
           t == other(RecordTypes, 1)  s == other(StreamIds, 1)  n == other(Sessions, 1)
           u == other(Suites, own)
<1>1. t # 1 /\ s # 1 /\ n # 1
  <2>1. \A set \in {RecordTypes, StreamIds, Sessions} : \E x \in set : x # 1
    BY ValuesAssumption
  <2>2. \A set \in {RecordTypes, StreamIds, Sessions} : other(set, 1) # 1
    BY <2>1
  <2> QED
    BY <2>2
<1>2. u # own
  <2>1. \E x \in Suites : x # own
    BY ValuesAssumption
  <2> QED
    BY <2>1
<1>3. TR4Cases(own) =
        <<Rewrite("type", t), Rewrite("type", t), Rewrite("stream", s), Rewrite("prefix", DeadBeef),
          Rewrite("seq", 5000), Rewrite("session", n), Rewrite("suite", u), Rewrite("len", 1)>>
  BY DEF TR4Cases
<1> HIDE DEF t, s, n, u
<1>4. i = 1 \/ i = 2 \/ i = 3 \/ i = 4 \/ i = 5 \/ i = 6 \/ i = 7 \/ i = 8
  OBVIOUS
<1>5. /\ Other(own, "type", t) /\ Other(own, "stream", s) /\ Other(own, "prefix", DeadBeef)
      /\ Other(own, "seq", 5000) /\ Other(own, "session", n) /\ Other(own, "suite", u)
      /\ Other(own, "len", 1)
  BY <1>1, <1>2 DEF Other
<1>6. /\ "type" \in Fields /\ "stream" \in Fields /\ "prefix" \in Fields /\ "seq" \in Fields
      /\ "session" \in Fields /\ "suite" \in Fields /\ "len" \in Fields
  BY DEF Fields
<1>7. CASE i = 1 \/ i = 2
  <2>1. TR4Cases(own)[i] = Rewrite("type", t)
    BY <1>3, <1>7
  <2> QED
    BY <1>5, <1>6, <2>1
<1>8. CASE i = 3
  <2>1. TR4Cases(own)[i] = Rewrite("stream", s)
    BY <1>3, <1>8
  <2> QED
    BY <1>5, <1>6, <2>1
<1>9. CASE i = 4
  <2>1. TR4Cases(own)[i] = Rewrite("prefix", DeadBeef)
    BY <1>3, <1>9
  <2> QED
    BY <1>5, <1>6, <2>1
<1>10. CASE i = 5
  <2>1. TR4Cases(own)[i] = Rewrite("seq", 5000)
    BY <1>3, <1>10
  <2> QED
    BY <1>5, <1>6, <2>1
<1>11. CASE i = 6
  <2>1. TR4Cases(own)[i] = Rewrite("session", n)
    BY <1>3, <1>11
  <2> QED
    BY <1>5, <1>6, <2>1
<1>12. CASE i = 7
  <2>1. TR4Cases(own)[i] = Rewrite("suite", u)
    BY <1>3, <1>12
  <2> QED
    BY <1>5, <1>6, <2>1
<1>13. CASE i = 8
  <2>1. TR4Cases(own)[i] = Rewrite("len", 1)
    BY <1>3, <1>13
  <2> QED
    BY <1>5, <1>6, <2>1
<1> QED
  BY <1>4, <1>7, <1>8, <1>9, <1>10, <1>11, <1>12, <1>13

\* The values of a header's fields.
LEMMA FieldsAre ==
  ASSUME NEW c, NEW seq
  PROVE  LET h == Protected(c, seq, "text").header
         IN  /\ h.version = 1 /\ h.suite = suite /\ h.type = 1 /\ h.session = 1 /\ h.stream = 1
             /\ h.prefix = c.sender.prefix /\ h.seq = seq /\ h.len = PayloadLen["text"]
             /\ DOMAIN h = Fields
             /\ "header" \in DOMAIN Protected(c, seq, "text")
<1> DEFINE t == "text"  p == Protected(c, seq, t)  h == p.header  b == p.body
<1> HIDE DEF t
<1>1. /\ p = [header |-> h, body |-> b]
      /\ h = [version |-> 1, suite |-> suite, type |-> 1, session |-> 1, stream |-> 1,
              prefix |-> c.sender.prefix, seq |-> seq, len |-> PayloadLen[t]]
      /\ b = [key |-> "K", suite |-> suite, nonce |-> <<c.sender.prefix, seq>>, aad |-> h,
              payload |-> t, len |-> PayloadLen[t], intact |-> TRUE]
  BY ProtectedIs
<1> HIDE DEF p
<1>2. /\ h.version = 1 /\ h.suite = suite /\ h.type = 1 /\ h.session = 1 /\ h.stream = 1
      /\ h.prefix = c.sender.prefix /\ h.seq = seq /\ h.len = PayloadLen[t]
      /\ DOMAIN h = Fields /\ "header" \in DOMAIN p
  BY <1>1 DEF Fields
<1> QED
  BY <1>2 DEF p, t

\* A step of TR-4 that changes the header of the record with the number n.
Altering(step, c, n) ==
  /\ step.op = "probe" /\ step.on = 1 /\ step.to = "peer" /\ step.n = -1 /\ ~ step.still
  /\ step.payload = "text" /\ step.fatal = {} /\ step.skip = 0
  /\ \E field \in Fields : \E x :
       /\ Attacked(Protected(c, n, "text"), step.attack)
            = Changed(Protected(c, n, "text"), field, x)
       /\ c.sender.prefix # DeadBeef => x # Protected(c, n, "text").header[field]
       /\ step.wanted \in {Rejected, Attribution(field)}

LEMMA CaseAlters ==
  ASSUME NEW i \in 1 .. 8, suite \in Suites, NEW c, NEW n \in Nat, n < 5000
  PROVE  Altering(Probe(TR4Cases(suite)[i], Rejected), c, n)
<1>1. PICK field \in Fields : \E x :
        TR4Cases(suite)[i] = Rewrite(field, x) /\ Other(suite, field, x)
  BY TR4CaseIs
<1>2. PICK x : TR4Cases(suite)[i] = Rewrite(field, x) /\ Other(suite, field, x)
  BY <1>1
<1> DEFINE p == Protected(c, n, "text")  h == p.header  step == Probe(Rewrite(field, x), Rejected)
<1>3. /\ h.version = 1 /\ h.suite = suite /\ h.type = 1 /\ h.session = 1 /\ h.stream = 1
      /\ h.prefix = c.sender.prefix /\ h.seq = n /\ h.len = PayloadLen["text"]
  BY FieldsAre
<1> HIDE DEF p
<1>4. PayloadLen["text"] # 1
  BY ValuesAssumption
<1>5. c.sender.prefix # DeadBeef => x # h[field]
  <2> HAVE c.sender.prefix # DeadBeef
  <2>1. CASE field \in {"type", "stream", "session"}
    BY <1>2, <1>3, <2>1 DEF Other
  <2>2. CASE field = "prefix"
    BY <1>2, <1>3, <2>2 DEF Other
  <2>3. CASE field = "seq"
    BY <1>2, <1>3, <2>3 DEF Other
  <2>4. CASE field = "suite"
    BY <1>2, <1>3, <2>4 DEF Other
  <2>5. CASE field = "len"
    BY <1>2, <1>3, <1>4, <2>5 DEF Other
  <2> QED
    BY <1>2, <2>1, <2>2, <2>3, <2>4, <2>5 DEF Fields, Other
<1>6. Attacked(p, Rewrite(field, x)) = Changed(p, field, x)
  BY RewriteIs
<1>7. /\ step.op = "probe" /\ step.on = 1 /\ step.to = "peer" /\ step.n = -1 /\ ~ step.still
      /\ step.payload = "text" /\ step.fatal = {} /\ step.skip = 0
      /\ step.attack = Rewrite(field, x) /\ step.wanted = Rejected
  <2> HIDE DEF h
  <2> QED
    BY DEF Probe, Step
<1> HIDE DEF step
<1>8. Altering(step, c, n)
  BY <1>5, <1>6, <1>7 DEF Altering, p
<1> QED
  BY <1>2, <1>8 DEF step

LEMMA FlipAlters ==
  ASSUME NEW step \in SweepSteps, suite \in Suites, NEW c, c.sender.prefix \in Prefixes,
         NEW n \in Nat
  PROVE  Altering(step, c, n)
<1>1. PICK field \in Fields, mask \in Nat \ {0} :
        step = Probe(FlipBit(field, mask), Attribution(field))
  BY DEF SweepSteps
<1> DEFINE p == Protected(c, n, "text")  h == p.header
<1>2. /\ h.version = 1 /\ h.suite = suite /\ h.type = 1 /\ h.session = 1 /\ h.stream = 1
      /\ h.prefix = c.sender.prefix /\ h.seq = n /\ h.len = PayloadLen["text"]
      /\ DOMAIN h = Fields
      /\ "header" \in DOMAIN p
  BY FieldsAre
<1>3. suite \in Int /\ c.sender.prefix \in Int /\ PayloadLen["text"] \in Int
  <2>1. "text" \in Payloads /\ Suites \subseteq Int /\ Prefixes \subseteq Int
    BY ValuesAssumption
  <2>2. PayloadLen["text"] \in Nat
    BY <2>1, PayloadAssumption
  <2>3. suite \in Int
    BY <2>1
  <2>4. c.sender.prefix \in Int
    BY <2>1
  <2> QED
    BY <2>2, <2>3, <2>4
<1> HIDE DEF p
<1>4. h[field] \in Int
  BY <1>2, <1>3 DEF Fields
<1> DEFINE x == Flipped(h[field], mask)
<1>5. x # h[field]
  BY <1>4, FlippedDiffers
<1>6. Attacked(p, FlipBit(field, mask)) = Changed(p, field, x)
  BY <1>2, FlipIs
<1>7. /\ step.op = "probe" /\ step.on = 1 /\ step.to = "peer" /\ step.n = -1 /\ ~ step.still
      /\ step.payload = "text" /\ step.fatal = {} /\ step.skip = 0
      /\ step.attack = FlipBit(field, mask) /\ step.wanted = Attribution(field)
  <2> HIDE DEF h
  <2> QED
    BY <1>1 DEF Probe, Step
<1> HIDE DEF x
<1> QED
  BY <1>5, <1>6, <1>7 DEF Altering, p

LEMMA AlteringRefused ==
  ASSUME NEW r, Untouched(r), NEW c, c.sender.prefix # DeadBeef, NEW n, NEW step,
         Altering(step, c, n)
  PROVE  LET w == Attacked(Protected(c, n, "text"), step.attack)
         IN  Verdict(r, w) \in step.wanted /\ Verdict(r, w) # "ACCEPTED"
<1> DEFINE p == Protected(c, n, "text")  w == Attacked(p, step.attack)
<1>1. PICK field \in Fields : \E x :
        /\ w = Changed(p, field, x)
        /\ x # p.header[field]
        /\ step.wanted \in {Rejected, Attribution(field)}
  BY DEF Altering
<1>2. PICK x :
        /\ w = Changed(p, field, x)
        /\ x # p.header[field]
        /\ step.wanted \in {Rejected, Attribution(field)}
  BY <1>1
<1>3. Verdict(r, w) \in Rejected /\ Verdict(r, w) \in Attribution(field)
  <2> HIDE DEF w
  <2> QED
    BY <1>2, AlteredRefused
<1> HIDE DEF w
<1>4. Verdict(r, w) \in step.wanted /\ Verdict(r, w) # "ACCEPTED"
  BY <1>2, <1>3 DEF Rejected
<1> QED
  BY <1>4 DEF w

LEMMA AlteringMoves ==
  ASSUME SendAndDeliver, missed \in BOOLEAN, pc \in Nat, Opened(1),
         NEW n \in Nat, n < DefaultLimit, First(n), Altering(Now, channels[1], n)
  PROVE  /\ Through /\ channels' = [i \in 1 .. 1 |-> channels'[i]]
         /\ ChannelAt(channels'[1], n + 1, DefaultLimit, DefaultWindow)
         /\ channels'[1].sender.prefix = channels[1].sender.prefix
         /\ channels[1].sender.prefix # DeadBeef /\ Untouched(Peer(1)) =>
              Passed /\ channels'[1].receivers["peer"] = Peer(1)
<1> DEFINE k == 1  c == channels[k]  r == c.receivers["peer"]
           p == Protected(c, n, "text")  w == Attacked(p, Now.attack)
<1>1. /\ Now.op = "probe" /\ Now.on = k /\ Now.to = "peer" /\ Now.n = -1 /\ ~ Now.still
      /\ Now.payload = "text" /\ Now.fatal = {} /\ Now.skip = 0
  BY DEF Altering
<1>2. SenderAt(c.sender, n, DefaultLimit) /\ ReceiversAt(c, DefaultWindow)
      /\ ChannelAt(c, n, DefaultLimit, DefaultWindow)
  BY DEF First, ChannelAt
<1>3. ~ Exhausted(c.sender)
  <2> HIDE DEF c
  <2> QED
    BY <1>2, ExhaustedAt, Limits
<1>4. Reader(c, "peer") = r
  <2> HIDE DEF c
  <2> QED
    BY <1>2, ReaderHolds
<1>5. Now.to \in Readers /\ Verdict(Reader(c, Now.to), w) \notin Now.fatal
  BY <1>1 DEF Readers
<1>6. k \in Nat /\ k \in 1 .. k /\ Opened(k) /\ k = 1
  OBVIOUS
<1> HIDE DEF k
<1>7. /\ Asked(Verdict(Reader(c, Now.to), w), w.header.seq) => Passed
      /\ Now.skip = 0 => Through
      /\ drawn' = drawn /\ Keeps(k, k)
      /\ ChannelAt(channels'[k], n + 1, DefaultLimit, DefaultWindow) /\ Given(k, w)
  <2>1. w = Attacked(Protected(channels[k], n, Now.payload), Now.attack)
    BY <1>1
  <2> HIDE DEF w, p
  <2> QED
    BY <1>1, <1>2, <1>3, <1>5, <1>6, <2>1, ProbeMoves, Limits
<1>8. /\ channels'[k].sender.prefix = c.sender.prefix
       /\ channels'[k].receivers["peer"] = Received(r, w)
  BY <1>1, <1>7 DEF Given, Who
<1>9. ASSUME c.sender.prefix # DeadBeef, Untouched(r)
       PROVE  Passed /\ Received(r, w) = r
  <2>1. Altering(Now, c, n)
    BY <1>6
  <2>2. Verdict(r, w) \in Now.wanted /\ Verdict(r, w) # "ACCEPTED"
    <3> HIDE DEF r, c
    <3> QED
      BY <1>9, <2>1, AlteringRefused
  <2>3. Asked(Verdict(r, w), w.header.seq)
    BY <1>1, <2>2 DEF Asked
  <2> QED
    BY <1>1, <1>4, <1>7, <2>2, <2>3 DEF Received
<1> QED
  BY <1>1, <1>6, <1>7, <1>8, <1>9 DEF Keeps, Peer

LEMMA SweepFits == SweepLength \in Nat /\ DefaultLimit >= 9 + SweepLength
<1>1. /\ Bits("version") \in Nat /\ Bits("suite") \in Nat /\ Bits("type") \in Nat
      /\ Bits("session") \in Nat /\ Bits("stream") \in Nat /\ Bits("prefix") \in Nat
      /\ Bits("seq") \in Nat /\ Bits("len") \in Nat
  BY BitsTyped DEF Fields
<1>2. DefaultLimit >= 9 + Bits("version") + Bits("suite") + Bits("type") + Bits("session")
                       + Bits("stream") + Bits("prefix") + Bits("seq") + Bits("len")
  BY DemosAssumption DEF Bits
<1> QED
  BY <1>1, <1>2, Limits DEF SweepLength

LEMMA SweptStep ==
  ASSUME ScriptsInv, Next, demo = 4, pc <= Len(Script)
  PROVE  ScriptsInv'
<1> DEFINE l == Len(Script)  q == Script
<1>1. /\ suite \in Suites /\ count \in RecordCounts
      /\ pc \in Nat \ {0} /\ missed \in BOOLEAN
  BY DEF ScriptsInv
<1>2. /\ Opened(IF pc = 1 THEN 0 ELSE 1)
      /\ pc > 1 => First(pc - 2) /\ channels[1].sender.prefix \in Prefixes
      /\ missed => pc > 1 /\ channels[1].sender.prefix = DeadBeef
      /\ pc > 1 /\ channels[1].sender.prefix # DeadBeef => Untouched(Peer(1))
  BY DEF ScriptsInv, Swept
<1>3. q = TR4(suite)
  BY <1>1, ScriptIs
<1>4. /\ SweepLength \in Nat
      /\ l = 10 + SweepLength
      /\ q[1] = NewChannel
      /\ q[2] = Step("send")
      /\ \A i \in 3 .. 10 : q[i] = Probe(TR4Cases(suite)[i - 2], Rejected)
      /\ \A i \in 11 .. 10 + SweepLength : q[i] \in SweepSteps
  BY <1>3, TR4Steps
<1>5. pc <= l /\ l \in Nat \ {0} /\ Now = q[pc]
  BY <1>4 DEF Now
<1>6. demo \notin {1, 2, 3, 5, 6, 7}
  OBVIOUS
<1>7. ASSUME where = "running", Through, Swept'
      PROVE  ScriptsInv'
  <2>1. demo \notin 1 .. 3
    OBVIOUS
  <2> QED
    BY <1>6, <1>7, <2>1, GoesOn
<1>8. CASE pc = 1
  <2>1. /\ where = "running" /\ Passed /\ drawn' = drawn
        /\ channels' = [i \in 1 .. 1 |-> channels'[i]]
        /\ ChannelAt(channels'[1], 0, DefaultLimit, DefaultWindow)
        /\ channels'[1].sender.prefix \in Prefixes
        /\ Untouched(channels'[1].receivers["peer"])
        /\ Untouched(channels'[1].receivers["stranger"])
    BY <1>1, <1>2, <1>4, <1>5, <1>8, FirstOpens
  <2>2. pc' = 2 /\ ~ missed'
    BY <1>2, <1>8, <2>1 DEF Passed
  <2>3. Swept'
    BY <2>1, <2>2 DEF Swept, Opened, First, Peer
  <2>4. Through
    BY <1>1, <2>1, PassedThrough
  <2> QED
    BY <1>7, <2>1, <2>3, <2>4
<1> HIDE DEF l, q
<1> DEFINE n == pc - 2  c == channels[1]
<1>9. ASSUME pc > 1
      PROVE  /\ n \in Nat /\ n < DefaultLimit /\ pc # 1 /\ Opened(1) /\ First(n)
             /\ c.sender.prefix \in Prefixes
             /\ SenderAt(c.sender, n, DefaultLimit)
  <2>1. n \in Nat /\ n < DefaultLimit
    BY <1>1, <1>4, <1>5, <1>9, SweepFits, Limits
  <2>2. First(n) /\ Opened(1) /\ c.sender.prefix \in Prefixes
    BY <1>1, <1>2, <1>9
  <2> QED
    BY <1>9, <2>1, <2>2 DEF First, ChannelAt
<1>10. CASE pc = 2
  <2> DEFINE k == 1
  <2>1. Now = Step("send")
    BY <1>4, <1>5, <1>10
  <2>2. Now.op = "send" /\ Now.on = k
    BY <2>1 DEF Step
  <2>3. where = "running" /\ SendOnly
    BY <1>5, <2>2, OpDecides DEF l
  <2>4. /\ n = 0 /\ Opened(k) /\ ChannelAt(channels[k], n, DefaultLimit, DefaultWindow)
        /\ ~ missed => ~ missed
        /\ c.sender.prefix \in Prefixes /\ k = 1 /\ k \in Nat /\ k \in 1 .. k
        /\ ~ Exhausted(channels[k].sender)
    <3>1. SenderAt(channels[1].sender, n, DefaultLimit) /\ n \in Nat /\ n < DefaultLimit
      BY <1>9, <1>10
    <3>2. ~ Exhausted(channels[1].sender)
      <4> HIDE DEF n
      <4> QED
        BY <3>1, ExhaustedAt, Limits
    <3> QED
      BY <1>9, <1>10, <3>2 DEF First
  <2> HIDE DEF k
  <2>5. /\ Passed /\ drawn' = drawn /\ Keeps(k, k)
        /\ ChannelAt(channels'[k], n + 1, DefaultLimit, DefaultWindow)
        /\ channels'[k].sender.prefix = channels[k].sender.prefix
        /\ channels'[k].receivers = channels[k].receivers
    <3> HIDE DEF n
    <3> QED
      BY <1>1, <1>9, <1>10, <2>2, <2>3, <2>4, SendMoves, Limits
  <2>6. pc' = 3 /\ missed' = missed /\ pc' - 2 = n + 1
    BY <1>10, <2>4, <2>5 DEF Passed
  <2>7. missed' => channels'[1].sender.prefix = DeadBeef
    BY <1>2, <1>10, <2>4, <2>5, <2>6
  <2>8. channels'[1].sender.prefix # DeadBeef => Untouched(channels'[1].receivers["peer"])
    BY <1>2, <1>10, <2>4, <2>5 DEF Peer
  <2>9. Swept'
    <3> HIDE DEF n
    <3>1. channels'[1].sender.prefix \in Prefixes
      BY <2>4, <2>5
    <3>2. /\ channels' = [i \in 1 .. 1 |-> channels'[i]]
          /\ ChannelAt(channels'[1], n + 1, DefaultLimit, DefaultWindow)
      BY <2>4, <2>5 DEF Keeps
    <3> QED
      BY <2>6, <2>7, <2>8, <3>1, <3>2 DEF Swept, Opened, First, Peer
  <2>10. Through
    BY <1>1, <2>5, PassedThrough
  <2> QED
    BY <1>7, <2>3, <2>9, <2>10
<1>11. CASE pc > 2
  <2>1. Altering(Now, c, n)
    <3>1. CASE pc <= 10
      <4> DEFINE i == pc - 2
      <4>1. i \in 1 .. 8 /\ n < 5000 /\ pc \in 3 .. 10
        BY <1>1, <1>11, <3>1
      <4>2. Now = Probe(TR4Cases(suite)[i], Rejected)
        BY <1>4, <1>5, <4>1
      <4> HIDE DEF i, n, c
      <4> QED
        BY <1>1, <1>9, <1>11, <4>1, <4>2, CaseAlters
    <3>2. CASE pc > 10
      <4>1. pc \in 11 .. 10 + SweepLength
        BY <1>1, <1>4, <1>5, <3>2
      <4>2. Now \in SweepSteps
        BY <1>4, <1>5, <4>1
      <4> HIDE DEF n, c
      <4> QED
        BY <1>1, <1>9, <1>11, <4>2, FlipAlters
    <3> QED
      BY <1>1, <3>1, <3>2
  <2>2. Now.op = "probe"
    BY <2>1 DEF Altering
  <2>3. where = "running" /\ SendAndDeliver
    BY <1>5, <2>2, OpDecides DEF l
  <2>4. /\ Through /\ channels' = [i \in 1 .. 1 |-> channels'[i]]
        /\ ChannelAt(channels'[1], n + 1, DefaultLimit, DefaultWindow)
        /\ channels'[1].sender.prefix = channels[1].sender.prefix
        /\ channels[1].sender.prefix # DeadBeef /\ Untouched(Peer(1)) =>
             Passed /\ channels'[1].receivers["peer"] = Peer(1)
    <3>1. /\ n \in Nat /\ n < DefaultLimit /\ Opened(1) /\ First(n)
          /\ Altering(Now, channels[1], n)
      BY <1>1, <1>9, <1>11, <2>1
    <3> HIDE DEF n
    <3> QED
      BY <1>1, <2>3, <3>1, AlteringMoves
  <2>5. pc' = pc + 1 /\ pc' > 1 /\ pc' # 1 /\ pc' - 2 = n + 1
    BY <1>1, <1>11, <2>4 DEF Through
  <2>6. pc > 1 /\ c.sender.prefix \in Prefixes
    BY <1>1, <1>9, <1>11
  <2>7. missed' => channels'[1].sender.prefix = DeadBeef
    <3> SUFFICES ASSUME channels[1].sender.prefix # DeadBeef
                 PROVE  ~ missed'
      BY <2>4
    <3> QED
      BY <1>2, <2>4, <2>6 DEF Passed
  <2>8. channels'[1].sender.prefix # DeadBeef => Untouched(channels'[1].receivers["peer"])
    BY <1>2, <2>4, <2>6
  <2>9. Swept'
    <3> HIDE DEF n
    <3>1. channels'[1].sender.prefix \in Prefixes
      BY <2>4, <2>6
    <3> QED
      BY <2>4, <2>5, <2>7, <2>8, <3>1 DEF Swept, Opened, First, Peer
  <2> QED
    BY <1>7, <2>3, <2>4, <2>9
<1>12. pc = 1 \/ pc = 2 \/ pc > 2
  BY <1>1
<1> QED
  BY <1>8, <1>10, <1>11, <1>12

(***************************************************************************)
(* TR-6                                                                    *)
(***************************************************************************)
LEMMA UnalteredIs == ASSUME NEW w PROVE Attacked(w, Unaltered) = w
  BY DEF Attacked, Unaltered, Attack

\* A receiver with another key refuses every record.
LEMMA OtherKeyJudged ==
  ASSUME NEW r, NEW size \in Nat, NEW key, key # "K", Holds(r, key, size), Untouched(r),
         NEW c, NEW seq \in Nat, NEW payload
  PROVE  LET w == Attacked(Protected(c, seq, payload), Unaltered)
         IN  Verdict(r, w) = "AUTH_FAILED" /\ Received(r, w) = r /\ w.header.seq = seq
<1> DEFINE w == Protected(c, seq, payload)
<1>1. r.size = size /\ r.key = key
  BY DEF Holds
<1>2. Below(r, seq)
  BY UntouchedBelow
<1>3. Replay(r, seq) = "FRESH"
  BY <1>1, <1>2, BelowIsFresh
<1>4. Verdict(r, w) = "AUTH_FAILED" /\ w.header.seq = seq
  BY <1>1, <1>3, GenuineJudged
<1>5. Received(r, w) = r
  BY <1>4 DEF Received
<1> HIDE DEF w
<1>6. Attacked(w, Unaltered) = w
  BY UnalteredIs
<1> QED
  BY <1>4, <1>5, <1>6 DEF w

\* A record sent before, delivered again.
LEMMA AgainSeen ==
  ASSUME DeliverAgain, missed \in BOOLEAN, pc \in Nat,
         NEW k \in Nat, Opened(k), NEW j \in 1 .. k, Now.on = j, Now.to \in Who,
         NEW n \in Nat, NEW limit \in Nat, NEW size, ChannelAt(channels[j], n, limit, size),
         NEW w, w = Attacked(Protected(channels[j], IF Now.n < 0 THEN n - 1 ELSE Now.n, "text"),
                             Now.attack),
         NEW r, r = channels[j].receivers[Now.to],
         Asked(Verdict(r, w), w.header.seq)
  PROVE  /\ Passed /\ drawn' = drawn /\ Keeps(k, j)
         /\ ChannelAt(channels'[j], n, limit, size)
         /\ \A x \in Who : channels'[j].receivers[x] =
              IF x = Now.to THEN Received(r, w) ELSE channels[j].receivers[x]
<1> DEFINE c == channels[j]
<1>1. Reader(c, Now.to) = r /\ Now.to \in Readers
  BY DEF Reader, Readers, Who
<1>2. Verdict(Reader(c, Now.to), w) \notin Now.fatal
  BY <1>1 DEF Asked
<1>3. /\ Asked(Verdict(Reader(channels[j], Now.to), w), w.header.seq) => Passed
      /\ drawn' = drawn /\ Keeps(k, j)
      /\ ChannelAt(channels'[j], n, limit, size) /\ Given(j, w)
  BY <1>1, <1>2, AgainMoves
<1> QED
  BY <1>1, <1>3 DEF Given

\* A record sent to a receiver that does not hold the key.
LEMMA StrangerProbe ==
  ASSUME SendAndDeliver, missed \in BOOLEAN, pc \in Nat, Opened(1),
         NEW n \in Nat, n < DefaultLimit, First(n), Untouched(Stranger(1)),
         Now.on = 1, Now.to \in {"stranger", "near_miss"}, Now.n = -1, ~ Now.still,
         Now.attack = Unaltered, "AUTH_FAILED" \in Now.wanted \ Now.fatal
  PROVE  /\ Passed /\ channels' = [i \in 1 .. 1 |-> channels'[i]]
         /\ ChannelAt(channels'[1], n + 1, DefaultLimit, DefaultWindow)
         /\ channels'[1].receivers["peer"] = Peer(1)
         /\ channels'[1].receivers["stranger"] = Stranger(1)
<1> DEFINE k == 1  c == channels[k]  r == Reader(c, Now.to)
           w == Attacked(Protected(c, n, Now.payload), Now.attack)
<1>1. SenderAt(c.sender, n, DefaultLimit) /\ ReceiversAt(c, DefaultWindow)
      /\ ChannelAt(c, n, DefaultLimit, DefaultWindow)
  BY DEF First, ChannelAt
<1>2. ~ Exhausted(c.sender)
  <2> HIDE DEF c
  <2> QED
    BY <1>1, ExhaustedAt, Limits
<1>3. /\ Holds(Reader(c, "peer"), "K", DefaultWindow) /\ Reader(c, "peer") = c.receivers["peer"]
      /\ Holds(Reader(c, "stranger"), "K2", DefaultWindow)
      /\ Reader(c, "stranger") = c.receivers["stranger"]
      /\ Holds(Reader(c, "near_miss"), "near_K", DefaultWindow)
      /\ Untouched(Reader(c, "near_miss"))
  <2> HIDE DEF c
  <2> QED
    BY <1>1, ReaderHolds
<1>4. \E key : key # "K" /\ Holds(r, key, DefaultWindow)
  <2>1. "K2" # "K" /\ "near_K" # "K"
    OBVIOUS
  <2> QED
    BY <1>3, <2>1
<1>5. Untouched(r)
  BY <1>3 DEF Stranger
<1>6. Verdict(r, w) = "AUTH_FAILED" /\ Received(r, w) = r
  <2> DEFINE p == Now.payload
  <2>1. w = Attacked(Protected(c, n, p), Unaltered)
    OBVIOUS
  <2> HIDE DEF r, w, c, p
  <2> QED
    BY <1>4, <1>5, <2>1, OtherKeyJudged, Limits
<1>7. Asked(Verdict(r, w), w.header.seq)
  BY <1>6 DEF Asked
<1>8. Now.to \in Readers /\ Verdict(r, w) \notin Now.fatal /\ k \in Nat /\ k \in 1 .. k
      /\ Opened(k) /\ k = 1 /\ Now.on = k
  BY <1>6 DEF Readers
<1> HIDE DEF k
<1>9. /\ Asked(Verdict(r, w), w.header.seq) => Passed
      /\ Now.skip = 0 => Through
      /\ drawn' = drawn /\ Keeps(k, k)
      /\ ChannelAt(channels'[k], n + 1, DefaultLimit, DefaultWindow) /\ Given(k, w)
  <2>1. w = Attacked(Protected(channels[k], n, Now.payload), Now.attack)
    OBVIOUS
  <2> HIDE DEF w
  <2> QED
    BY <1>1, <1>2, <1>8, <2>1, ProbeMoves, Limits
<1>10. /\ channels'[k].receivers["peer"] = c.receivers["peer"]
       /\ channels'[k].receivers["stranger"] = IF Now.to = "stranger" THEN Received(r, w)
                                               ELSE c.receivers["stranger"]
  <2>1. Now.to = "stranger" => r = c.receivers["stranger"]
    BY <1>3
  <2> HIDE DEF r, w
  <2> QED
    BY <1>9, <2>1 DEF Given, Who
<1>11. channels'[k].receivers["stranger"] = c.receivers["stranger"]
  BY <1>3, <1>6, <1>10
<1> QED
  BY <1>7, <1>8, <1>9, <1>10, <1>11 DEF Keeps, Peer, Stranger

\* The channel after a step of TR-6.
LEMMA KeyedAfter ==
  ASSUME ~ missed, Passed, pc \in Nat \ {0},
         NEW n, n = Sent6',
         channels' = [i \in 1 .. 1 |-> channels'[i]],
         ChannelAt(channels'[1], n, DefaultLimit, DefaultWindow),
         Below(channels'[1].receivers["peer"], n),
         Untouched(channels'[1].receivers["stranger"]),
         pc \in {1, 2} => Untouched(channels'[1].receivers["peer"])
  PROVE  Keyed'
<1>1. pc' = pc + 1 /\ ~ missed' /\ pc' # 1 /\ pc' > 1 /\ (pc' \in {2, 3} => pc \in {1, 2})
  BY DEF Passed
<1> QED
  BY <1>1 DEF Keyed, Opened, First, Peer, Stranger

LEMMA KeyedStep ==
  ASSUME ScriptsInv, Next, demo = 6, pc <= Len(Script)
  PROVE  ScriptsInv'
<1> DEFINE l == Len(Script)  q == Script  n == Sent6
<1>1. /\ suite \in Suites /\ count \in RecordCounts
      /\ pc \in Nat \ {0} /\ missed \in BOOLEAN
  BY DEF ScriptsInv
<1>2. /\ ~ missed
      /\ Opened(IF pc = 1 THEN 0 ELSE 1)
      /\ pc > 1 => First(n) /\ Below(Peer(1), n) /\ Untouched(Stranger(1))
      /\ pc \in {2, 3} => Untouched(Peer(1))
  BY DEF ScriptsInv, Keyed
<1>3. q = TR6
  BY <1>1, ScriptIs
<1>4. /\ l = 362
      /\ q[1] = NewChannel
      /\ q[2] = Step("send")
      /\ q[3] = Again(0, Unaltered, {"ACCEPTED"})
      /\ q[4] = StrangerAgain
      /\ \A i \in 5 .. 104 : q[i] = ProbeTo("stranger")
      /\ \A i \in 105 .. 360 : q[i] = ProbeTo("near_miss")
      /\ q[361] = Probe(Unaltered, AllVerdicts)
      /\ q[362] = ForgedAgain
  BY <1>3, TR6Steps
<1>5. pc <= l /\ l \in Nat \ {0} /\ Now = q[pc]
  BY <1>4 DEF Now
<1>6. pc <= 362
  BY <1>4, <1>5
<1>7. ASSUME where = "running", Passed, Keyed'
      PROVE  ScriptsInv'
  <2>1. demo \notin 1 .. 3 /\ demo \notin {4, 5, 7}
    OBVIOUS
  <2>2. Through
    BY <1>1, <1>7, PassedThrough
  <2> QED
    BY <1>7, <2>1, <2>2, GoesOn
<1>8. CASE pc = 1
  <2>1. /\ where = "running" /\ Passed /\ drawn' = drawn
        /\ channels' = [i \in 1 .. 1 |-> channels'[i]]
        /\ ChannelAt(channels'[1], 0, DefaultLimit, DefaultWindow)
        /\ channels'[1].sender.prefix \in Prefixes
        /\ Untouched(channels'[1].receivers["peer"])
        /\ Untouched(channels'[1].receivers["stranger"])
    BY <1>1, <1>2, <1>4, <1>5, <1>8, FirstOpens
  <2>2. 0 = Sent6'
    BY <1>8, <2>1 DEF Passed, Sent6
  <2>3. Below(channels'[1].receivers["peer"], 0)
    BY <2>1, UntouchedBelow
  <2>4. Keyed'
    BY <1>1, <1>2, <2>1, <2>2, <2>3, KeyedAfter
  <2> QED
    BY <1>7, <2>1, <2>4
<1> HIDE DEF l, q
<1> DEFINE k == 1  c == channels[1]  p == c.receivers["peer"]  s == c.receivers["stranger"]
<1>9. ASSUME pc > 1
      PROVE  /\ n \in Nat /\ n < DefaultLimit /\ Opened(1) /\ First(n)
             /\ ChannelAt(c, n, DefaultLimit, DefaultWindow)
             /\ ~ Exhausted(c.sender) /\ Below(p, n) /\ Untouched(s)
             /\ Holds(p, "K", DefaultWindow) /\ Holds(s, "K2", DefaultWindow)
  <2>1. n \in Nat /\ n < DefaultLimit
    BY <1>1, <1>6, <1>9, Limits DEF Sent6
  <2>2. /\ First(n) /\ Opened(1) /\ ChannelAt(c, n, DefaultLimit, DefaultWindow)
        /\ Below(p, n) /\ Untouched(s)
    BY <1>1, <1>2, <1>9 DEF First, Peer, Stranger
  <2>3. SenderAt(c.sender, n, DefaultLimit)
    BY <2>2 DEF ChannelAt
  <2>4. ~ Exhausted(c.sender)
    <3> HIDE DEF c, n
    <3> QED
      BY <2>1, <2>3, ExhaustedAt, Limits
  <2>5. Holds(p, "K", DefaultWindow) /\ Holds(s, "K2", DefaultWindow)
    BY <2>2 DEF ChannelAt, ReceiversAt
  <2> HIDE DEF n, p, s, c
  <2> QED
    BY <2>1, <2>2, <2>4, <2>5
<1>10. k \in Nat /\ k \in 1 .. k /\ k = 1
  OBVIOUS
<1> HIDE DEF k
<1>11. CASE pc = 2
  <2>1. Now.op = "send" /\ Now.on = k
    <3>1. Now = Step("send")
      BY <1>4, <1>5, <1>11
    <3> QED
      BY <1>10, <3>1 DEF Step
  <2>2. where = "running" /\ SendOnly
    BY <1>5, <2>1, OpDecides DEF l
  <2>3. /\ Passed /\ drawn' = drawn /\ Keeps(k, k)
        /\ ChannelAt(channels'[k], n + 1, DefaultLimit, DefaultWindow)
        /\ channels'[k].sender.prefix = channels[k].sender.prefix
        /\ channels'[k].receivers = channels[k].receivers
    <3> HIDE DEF n
    <3> QED
      BY <1>1, <1>9, <1>10, <1>11, <2>1, <2>2, SendMoves, Limits
  <2>4. n + 1 = Sent6'
    BY <1>11, <2>3 DEF Passed, Sent6
  <2>5. Untouched(channels'[1].receivers["peer"]) /\ Untouched(channels'[1].receivers["stranger"])
    BY <1>2, <1>10, <1>11, <2>3 DEF Peer, Stranger
  <2>6. Below(channels'[1].receivers["peer"], n + 1)
    BY <2>5, UntouchedBelow
  <2>7. Keyed'
    <3> HIDE DEF n
    <3> QED
      BY <1>1, <1>2, <1>10, <2>3, <2>4, <2>5, <2>6, KeyedAfter DEF Keeps
  <2> QED
    BY <1>7, <2>2, <2>3, <2>7
<1>12. CASE pc = 3
  <2> DEFINE w == Attacked(Protected(c, 0, "text"), Unaltered)
  <2>1. /\ Now.op = "again" /\ Now.on = k /\ Now.to = "peer" /\ Now.n = 0 /\ ~ Now.still
        /\ Now.attack = Unaltered /\ Now.wanted = {"ACCEPTED"} /\ Now.fatal = {}
    <3>1. Now = Again(0, Unaltered, {"ACCEPTED"})
      BY <1>4, <1>5, <1>12
    <3> QED
      BY <1>10, <3>1 DEF Again, Step
  <2>2. where = "running" /\ DeliverAgain
    BY <1>5, <2>1, OpDecides DEF l
  <2>3. n = 1 /\ Untouched(p)
    BY <1>2, <1>12 DEF Sent6, Peer
  <2>4. Below(p, 0)
    BY <2>3, UntouchedBelow
  <2>5. Verdict(p, w) = "ACCEPTED" /\ Below(Received(p, w), n)
    <3>1. "text" \in Payloads
      BY ValuesAssumption
    <3> DEFINE z == 0  t == "text"  a == Unaltered
    <3>2. z \in Nat /\ z + 1 = 1 /\ t \in Payloads /\ w = Attacked(Protected(c, z, t), a)
          /\ a = Unaltered /\ Below(p, z)
      BY <2>4, <3>1
    <3> HIDE DEF z, w, t, c, p, a
    <3>3. Holds(p, "K", DefaultWindow) /\ DefaultWindow \in Nat
      BY <1>9, <1>12, Limits
    <3>4. /\ a = Unaltered =>
               /\ Verdict(p, w) = "ACCEPTED" /\ w.header.seq = z
               /\ Own \in DOMAIN Received(p, w).windows
               /\ Below(Received(p, w), z + 1)
               /\ Untouched(p) => Shows(Received(p, w), z, {0})
          /\ a = Damaged =>
               Verdict(p, w) = "AUTH_FAILED" /\ Below(Received(p, w), z + 1)
          /\ a = Shortened(4) =>
               Verdict(p, w) = "MALFORMED" /\ Below(Received(p, w), z + 1)
      BY <3>2, <3>3, FreshJudged
    <3> QED
      BY <2>3, <3>2, <3>4
  <2>6. Asked(Verdict(p, w), w.header.seq)
    BY <2>1, <2>5 DEF Asked
  <2>7. /\ Passed /\ drawn' = drawn /\ Keeps(k, k)
        /\ ChannelAt(channels'[k], n, DefaultLimit, DefaultWindow)
        /\ \A x \in Who : channels'[k].receivers[x] =
             IF x = Now.to THEN Received(p, w) ELSE channels[k].receivers[x]
    <3>1. /\ w = Attacked(Protected(channels[k], IF Now.n < 0 THEN n - 1 ELSE Now.n, "text"),
                          Now.attack)
          /\ p = channels[k].receivers[Now.to] /\ Now.to \in Who
          /\ ChannelAt(channels[k], n, DefaultLimit, DefaultWindow) /\ Opened(k) /\ n \in Nat
      BY <1>9, <1>10, <1>12, <2>1 DEF Who
    <3> HIDE DEF w, p, n, c
    <3> QED
      BY <1>1, <1>10, <2>1, <2>2, <2>6, <3>1, AgainSeen, Limits
  <2>8. n = Sent6'
    BY <1>12, <2>7 DEF Passed, Sent6
  <2>9. /\ channels'[1].receivers["peer"] = Received(p, w)
        /\ channels'[1].receivers["stranger"] = s
    <3> HIDE DEF w
    <3> QED
      BY <1>10, <2>1, <2>7 DEF Who
  <2>10. Keyed'
    <3>1. Untouched(s)
      BY <1>9, <1>12
    <3> HIDE DEF n, w
    <3> QED
      BY <1>1, <1>2, <1>10, <1>12, <2>5, <2>7, <2>8, <2>9, <3>1, KeyedAfter DEF Keeps
  <2> QED
    BY <1>7, <2>2, <2>7, <2>10
<1>13. CASE pc = 4
  <2> DEFINE w == Attacked(Protected(c, 0, "text"), Unaltered)
  <2>1. /\ Now.op = "again" /\ Now.on = k /\ Now.to = "stranger" /\ Now.n = 0 /\ ~ Now.still
        /\ Now.attack = Unaltered /\ Now.wanted = {"AUTH_FAILED"} /\ Now.fatal = {"ACCEPTED"}
    <3>1. Now = StrangerAgain
      BY <1>4, <1>5, <1>13
    <3> QED
      BY <1>10, <3>1 DEF StrangerAgain, NeedsReason, Again, Step
  <2>2. where = "running" /\ DeliverAgain
    BY <1>5, <2>1, OpDecides DEF l
  <2>3. n = 1
    BY <1>13 DEF Sent6
  <2>4. Verdict(s, w) = "AUTH_FAILED" /\ Received(s, w) = s
    <3> DEFINE z == 0
    <3>1. z \in Nat /\ w = Attacked(Protected(c, z, "text"), Unaltered) /\ "K2" # "K"
      OBVIOUS
    <3>2. Untouched(s) /\ Holds(s, "K2", DefaultWindow)
      BY <1>9, <1>13
    <3> HIDE DEF z, w, c, s
    <3> QED
      BY <3>1, <3>2, OtherKeyJudged, Limits
  <2>5. Asked(Verdict(s, w), w.header.seq)
    BY <2>1, <2>4 DEF Asked
  <2>6. /\ Passed /\ drawn' = drawn /\ Keeps(k, k)
        /\ ChannelAt(channels'[k], n, DefaultLimit, DefaultWindow)
        /\ \A x \in Who : channels'[k].receivers[x] =
             IF x = Now.to THEN Received(s, w) ELSE channels[k].receivers[x]
    <3>1. /\ w = Attacked(Protected(channels[k], IF Now.n < 0 THEN n - 1 ELSE Now.n, "text"),
                          Now.attack)
          /\ s = channels[k].receivers[Now.to] /\ Now.to \in Who
          /\ ChannelAt(channels[k], n, DefaultLimit, DefaultWindow) /\ Opened(k) /\ n \in Nat
      BY <1>9, <1>10, <1>13, <2>1 DEF Who
    <3> HIDE DEF w, s, n, c
    <3> QED
      BY <1>1, <1>10, <2>1, <2>2, <2>5, <3>1, AgainSeen, Limits
  <2>7. n = Sent6'
    BY <1>13, <2>6 DEF Passed, Sent6
  <2>8. /\ channels'[1].receivers["peer"] = p
        /\ channels'[1].receivers["stranger"] = s
    <3> HIDE DEF w
    <3> QED
      BY <1>10, <2>1, <2>4, <2>6 DEF Who
  <2>9. Keyed'
    <3>1. Untouched(s) /\ Below(p, n)
      BY <1>9, <1>13
    <3> HIDE DEF n, w, s, p
    <3> QED
      BY <1>1, <1>2, <1>10, <1>13, <2>6, <2>7, <2>8, <3>1, KeyedAfter DEF Keeps
  <2> QED
    BY <1>7, <2>2, <2>6, <2>9
<1>14. CASE pc \in 5 .. 360
  <2> DEFINE who == IF pc <= 104 THEN "stranger" ELSE "near_miss"
  <2>1. Now = ProbeTo(who)
    <3>1. /\ pc <= 104 => pc \in 5 .. 104
          /\ ~ pc <= 104 => pc \in 105 .. 360
      BY <1>1, <1>14
    <3>2. /\ pc \in 5 .. 104 => q[pc] = ProbeTo("stranger")
          /\ pc \in 105 .. 360 => q[pc] = ProbeTo("near_miss")
      BY <1>4, Zenon
    <3>3. /\ pc <= 104 => who = "stranger"
          /\ ~ pc <= 104 => who = "near_miss"
      OBVIOUS
    <3> HIDE DEF who
    <3> QED
      BY <1>5, <3>1, <3>2, <3>3
  <2>2. /\ Now.op = "probe" /\ Now.on = 1 /\ Now.to \in {"stranger", "near_miss"}
        /\ Now.n = -1 /\ ~ Now.still /\ Now.attack = Unaltered
        /\ "AUTH_FAILED" \in Now.wanted \ Now.fatal
    BY <2>1 DEF ProbeTo, Probe, Step, Rejected, AllVerdicts
  <2>3. where = "running" /\ SendAndDeliver
    BY <1>5, <2>2, OpDecides DEF l
  <2>4. pc > 1 /\ pc \notin {1, 2}
    BY <1>14
  <2>5. /\ Passed /\ channels' = [i \in 1 .. 1 |-> channels'[i]]
        /\ ChannelAt(channels'[1], n + 1, DefaultLimit, DefaultWindow)
        /\ channels'[1].receivers["peer"] = Peer(1)
        /\ channels'[1].receivers["stranger"] = Stranger(1)
    <3>1. Untouched(Stranger(1)) /\ n \in Nat /\ n < DefaultLimit /\ First(n) /\ Opened(1)
      BY <1>9, <2>4 DEF Stranger
    <3> HIDE DEF n
    <3> QED
      BY <1>1, <2>2, <2>3, <3>1, StrangerProbe
  <2>6. n + 1 = Sent6'
    <3>1. pc' = pc + 1
      BY <2>5 DEF Passed
    <3>2. n = pc - 4 /\ Sent6' = pc' - 4
      BY <1>14, <3>1 DEF Sent6
    <3> HIDE DEF n
    <3> QED
      BY <1>14, <3>1, <3>2
  <2>7. Below(Peer(1), n + 1) /\ Untouched(Stranger(1))
    BY <1>9, <2>4 DEF Below, Peer, Stranger
  <2>8. Keyed'
    <3> DEFINE m == n + 1
    <3>1. /\ m = Sent6' /\ ChannelAt(channels'[1], m, DefaultLimit, DefaultWindow)
          /\ Below(channels'[1].receivers["peer"], m)
      BY <2>5, <2>6, <2>7
    <3> HIDE DEF m
    <3> QED
      BY <1>1, <1>2, <2>4, <2>5, <2>7, <3>1, KeyedAfter
  <2> QED
    BY <1>7, <2>3, <2>5, <2>8
<1>15. CASE pc = 361
  <2>1. Now = Probe(Unaltered, AllVerdicts)
    BY <1>4, <1>5, <1>15
  <2>2. /\ Now.op = "probe" /\ Now.on = k /\ Now.to = "peer" /\ Now.payload = "text"
        /\ Now.n = -1 /\ ~ Now.still /\ Now.attack = Unaltered
        /\ "ACCEPTED" \in Now.wanted \ Now.fatal
    BY <1>10, <2>1 DEF Probe, Step, AllVerdicts
  <2>3. where = "running" /\ SendAndDeliver
    BY <1>5, <2>2, OpDecides DEF l
  <2>4. Now.payload \in Payloads /\ pc > 1 /\ pc \notin {1, 2}
    BY <1>15, <2>2, ValuesAssumption
  <2>5. /\ Passed /\ drawn' = drawn /\ Keeps(k, k)
        /\ ChannelAt(channels'[k], n + 1, DefaultLimit, DefaultWindow)
        /\ Below(channels'[k].receivers["peer"], n + 1)
        /\ channels'[k].receivers["stranger"] = channels[k].receivers["stranger"]
        /\ Now.attack = Unaltered => Own \in DOMAIN channels'[k].receivers["peer"].windows
    <3>1. /\ n \in Nat /\ n < DefaultLimit /\ Opened(k)
          /\ ChannelAt(channels[k], n, DefaultLimit, DefaultWindow) /\ Below(Peer(k), n)
      BY <1>9, <1>10, <2>4 DEF Peer
    <3> HIDE DEF n
    <3> QED
      BY <1>1, <1>10, <2>2, <2>3, <2>4, <3>1, PeerProbe
  <2>6. n + 1 = Sent6'
    BY <1>15, <2>5 DEF Passed, Sent6
  <2>7. Untouched(channels'[1].receivers["stranger"])
    BY <1>9, <1>10, <2>4, <2>5
  <2>8. Keyed'
    <3> DEFINE m == n + 1
    <3>1. /\ m = Sent6' /\ ChannelAt(channels'[1], m, DefaultLimit, DefaultWindow)
          /\ Below(channels'[1].receivers["peer"], m)
      BY <1>10, <2>5, <2>6
    <3> HIDE DEF m
    <3> QED
      BY <1>1, <1>2, <1>10, <2>4, <2>5, <2>7, <3>1, KeyedAfter DEF Keeps
  <2> QED
    BY <1>7, <2>3, <2>5, <2>8
<1>16. CASE pc = 362
  <2> DEFINE y == n - 1  w == Attacked(Protected(c, y, "text"), Forged)
  <2>1. /\ Now.op = "again" /\ Now.on = k /\ Now.to = "peer" /\ Now.n = -1 /\ ~ Now.still
        /\ Now.attack = Forged /\ Now.wanted = {"AUTH_FAILED"} /\ Now.fatal = {"ACCEPTED"}
    <3>1. Now = ForgedAgain
      BY <1>4, <1>5, <1>16
    <3> QED
      BY <1>10, <3>1 DEF ForgedAgain, NeedsReason, Again, Step
  <2>2. where = "running" /\ DeliverAgain
    BY <1>5, <2>1, OpDecides DEF l
  <2>3. /\ n = 358 /\ n \in Nat /\ y + 1 = n /\ Below(p, n) /\ Untouched(s)
        /\ Holds(p, "K", DefaultWindow) /\ pc \notin {1, 2}
    BY <1>9, <1>16 DEF Sent6
  <2>4. Verdict(p, w) = "AUTH_FAILED" /\ Received(p, w) = p
    <3> HIDE DEF y, n, c, p, w
    <3>1. p.size = DefaultWindow /\ p.key = "K"
      BY <2>3 DEF Holds
    <3>2. Replay(p, n) = "FRESH"
      BY <2>3, <3>1, BelowIsFresh, Limits
    <3>3. Replay(p, y + 1) = "FRESH"
      BY <2>3, <3>2
    <3>4. Verdict(p, w) = "AUTH_FAILED"
      BY <3>1, <3>3, ForgedJudged DEF w
    <3> QED
      BY <3>4 DEF Received
  <2>5. Asked(Verdict(p, w), w.header.seq)
    BY <2>1, <2>4 DEF Asked
  <2>6. /\ Passed /\ drawn' = drawn /\ Keeps(k, k)
        /\ ChannelAt(channels'[k], n, DefaultLimit, DefaultWindow)
        /\ \A x \in Who : channels'[k].receivers[x] =
             IF x = Now.to THEN Received(p, w) ELSE channels[k].receivers[x]
    <3>1. /\ w = Attacked(Protected(channels[k], IF Now.n < 0 THEN n - 1 ELSE Now.n, "text"),
                          Now.attack)
          /\ p = channels[k].receivers[Now.to] /\ Now.to \in Who
          /\ ChannelAt(channels[k], n, DefaultLimit, DefaultWindow) /\ Opened(k) /\ n \in Nat
      BY <1>9, <1>10, <1>16, <2>1 DEF Who
    <3> HIDE DEF w, p, n, c
    <3> QED
      BY <1>1, <1>10, <2>1, <2>2, <2>5, <3>1, AgainSeen, Limits
  <2>7. n = Sent6'
    BY <1>16, <2>6 DEF Passed, Sent6
  <2>8. /\ channels'[1].receivers["peer"] = p
        /\ channels'[1].receivers["stranger"] = s
    <3> HIDE DEF w
    <3> QED
      BY <1>10, <2>1, <2>4, <2>6 DEF Who
  <2>9. Keyed'
    <3> HIDE DEF n, w, s, p
    <3> QED
      BY <1>1, <1>2, <1>10, <2>3, <2>6, <2>7, <2>8, KeyedAfter DEF Keeps
  <2> QED
    BY <1>7, <2>2, <2>6, <2>9
<1> QED
  BY <1>1, <1>6, <1>8, <1>11, <1>12, <1>13, <1>14, <1>15, <1>16

(***************************************************************************)
(* TR-5                                                                    *)
(***************************************************************************)
LEMMA ReplayedScript ==
  ASSUME ScriptsInv, demo = 5
  PROVE  /\ Len(Script) = 156
         /\ Now = Script[pc]
         /\ Script[1] = NewChannel
         /\ Script[2] = Step("send")
         /\ Script[3] = Again(0, Unaltered, {"ACCEPTED"})
         /\ Script[4] = NeedsReason(Again(0, Unaltered, {"REPLAY_DETECTED"}))
         /\ \A i \in 5 .. 104 : Script[i] = Again(0, Unaltered, Rejected)
         /\ Script[105] = Onto(Open(SmallWindow, DefaultLimit), 2)
         /\ \A i \in 106 .. 137 : Script[i] = Onto(Step("send"), 2)
         /\ \A i \in 138 .. 145 : Script[i] = Onto(InOrder(i - 137), 2)
         /\ Script[146] = Onto(Again(3, Unaltered, {"REPLAY_DETECTED"}), 2)
         /\ Script[147] = Onto(Again(19, Unaltered, AllVerdicts), 2)
         /\ Script[148] = Onto(Step("look"), 2)
         /\ Script[149] = Onto(Again(12, Unaltered, {"ACCEPTED"}), 2)
         /\ Script[150] = Onto(NeedsReason(Again(11, Unaltered, {"STALE_RECORD"})), 2)
         /\ Script[151] = Onto(NewChannel, 3)
         /\ Script[152] = Onto(Probe(Unaltered, AllVerdicts), 3)
         /\ Script[153] = Onto(Step("look"), 3)
         /\ Script[154] = Onto(Poison, 3)
         /\ Script[155] = Onto(Accepted, 3)
         /\ Script[156] = Renumbered
<1>1. suite \in Suites /\ count \in RecordCounts
  BY DEF ScriptsInv
<1>2. Script = TR5
  BY <1>1, ScriptIs
<1> QED
  BY <1>2, TR5Steps DEF Now

LEMMA ReplayedGoesOn ==
  ASSUME ScriptsInv, demo = 5, where = "running", Passed, Replayed'
  PROVE  ScriptsInv'
<1>1. demo \notin 1 .. 3 /\ demo \notin {4, 6, 7}
  OBVIOUS
<1>2. missed \in BOOLEAN
  BY DEF ScriptsInv
<1>3. Through
  BY <1>2, PassedThrough
<1> QED
  BY <1>1, <1>3, GoesOn

\* A record sent before, whole, to the peer.
LEMMA PeerAgain ==
  ASSUME ScriptsInv, Next, Len(Script) \in Nat, pc <= Len(Script),
         NEW k \in Nat, Opened(k), NEW j \in 1 .. k, Now.on = j, Now.op = "again",
         Now.to = "peer", Now.attack = Unaltered, ~ Now.still,
         NEW s \in Nat, Now.n = s,
         NEW n \in Nat, NEW limit \in Nat, NEW size, ChannelAt(channels[j], n, limit, size),
         NEW w, w = Protected(channels[j], s, "text"),
         Verdict(Peer(j), w) \in Now.wanted \ Now.fatal
  PROVE  /\ where = "running" /\ Passed /\ drawn' = drawn /\ Keeps(k, j)
         /\ ChannelAt(channels'[j], n, limit, size)
         /\ channels'[j].receivers["peer"] = Received(Peer(j), w)
<1> DEFINE r == Peer(j)
<1>1. pc \in Nat /\ missed \in BOOLEAN
  BY DEF ScriptsInv
<1>2. where = "running" /\ DeliverAgain
  BY OpDecides
<1>3. Attacked(w, Unaltered) = w
  BY UnalteredIs
<1>4. w = Attacked(Protected(channels[j], IF Now.n < 0 THEN n - 1 ELSE Now.n, "text"), Now.attack)
  BY <1>3
<1>5. Asked(Verdict(r, w), w.header.seq)
  BY DEF Asked
<1>6. r = channels[j].receivers[Now.to] /\ Now.to \in Who
  BY DEF Peer, Who
<1> HIDE DEF r
<1>7. /\ Passed /\ drawn' = drawn /\ Keeps(k, j)
      /\ ChannelAt(channels'[j], n, limit, size)
      /\ \A x \in Who : channels'[j].receivers[x] =
           IF x = Now.to THEN Received(r, w) ELSE channels[j].receivers[x]
  BY <1>1, <1>2, <1>4, <1>5, <1>6, AgainSeen
<1> QED
  BY <1>2, <1>6, <1>7 DEF r

\* What a window that shows some numbers says of one record.
LEMMA ShownTaken ==
  ASSUME NEW r, NEW size \in Nat, Holds(r, "K", size), NEW h \in Nat, NEW b, Shows(r, h, b),
         NEW s \in Nat, s <= h, h - s < size, h - s \in b, NEW c
  PROVE  LET w == Protected(c, s, "text")
         IN  Verdict(r, w) = "REPLAY_DETECTED" /\ Received(r, w) = r
<1> DEFINE w == Protected(c, s, "text")
<1>1. Verdict(r, w) = "REPLAY_DETECTED"
  BY ShownJudged
<1> QED
  BY <1>1 DEF Received

LEMMA ShownOld ==
  ASSUME NEW r, NEW size \in Nat, Holds(r, "K", size), NEW h \in Nat, NEW b, Shows(r, h, b),
         NEW s \in Nat, s <= h, h - s >= size, NEW c
  PROVE  LET w == Protected(c, s, "text")
         IN  Verdict(r, w) = "STALE_RECORD" /\ Received(r, w) = r
<1> DEFINE w == Protected(c, s, "text")  u == r.windows[Own]
<1>1. r.size = size /\ r.key = "K"
  BY DEF Holds
<1>2. WindowFor(r, Own) = u /\ u.highest = h
  BY DEF Shows, WindowFor
<1>3. Replay(r, s) = "TOO_OLD" => Verdict(r, w) = "STALE_RECORD"
  BY <1>1, GenuineJudged
<1> HIDE DEF w, u
<1>4. Windows(size)!WindowCheck(u, s) = "TOO_OLD"
  BY <1>2, BehindIsOld
<1>5. Verdict(r, w) = "STALE_RECORD"
  BY <1>1, <1>2, <1>3, <1>4 DEF Replay
<1> QED
  BY <1>5 DEF Received, w

LEMMA ShownFills ==
  ASSUME NEW r, NEW size \in Nat, Holds(r, "K", size), NEW h \in Nat, NEW b, Shows(r, h, b),
         NEW s \in Nat, s <= h, h - s < size, h - s \notin b, NEW c
  PROVE  LET w == Protected(c, s, "text")
         IN  Verdict(r, w) = "ACCEPTED" /\ Shows(Received(r, w), h, b \cup {h - s})
BY ShownJudged

LEMMA ShownSlides ==
  ASSUME NEW r, NEW size \in Nat, Holds(r, "K", size), NEW h \in Nat, NEW b, Shows(r, h, b),
         NEW s \in Nat, s > h, NEW c
  PROVE  LET w == Protected(c, s, "text")
         IN  /\ Verdict(r, w) = "ACCEPTED"
             /\ Shows(Received(r, w), s, Slid(b, s - h, size))
BY ShownJudged

\* The first channel of TR-5 after a step on it.
LEMMA ReplayedFirst ==
  ASSUME ~ missed, Passed, pc \in 1 .. 104,
         channels' = [i \in 1 .. 1 |-> channels'[i]],
         ChannelAt(channels'[1], IF pc = 1 THEN 0 ELSE 1, DefaultLimit, DefaultWindow),
         pc <= 2 => Untouched(channels'[1].receivers["peer"]),
         pc > 2 => Shows(channels'[1].receivers["peer"], 0, {0})
  PROVE  Replayed'
<1>1. pc' = pc + 1 /\ ~ missed'
  BY DEF Passed
<1>2. /\ pc' # 1 /\ pc' > 1 /\ pc' <= 105 /\ pc' <= 151 /\ ~ pc' > 105 /\ ~ pc' > 151
      /\ ~ pc' > 152 /\ (pc' = 2 <=> pc = 1) /\ (pc' \in {2, 3} => pc <= 2) /\ (pc' > 3 => pc > 2)
  BY <1>1
<1>3. Opened(1)'
  BY DEF Opened
<1> QED
  BY <1>1, <1>2, <1>3 DEF Replayed, First, Peer

LEMMA FirstReplayed ==
  ASSUME ScriptsInv, Next, demo = 5, pc <= 104
  PROVE  ScriptsInv'
<1>1. pc \in Nat \ {0} /\ missed \in BOOLEAN /\ Replayed
  BY DEF ScriptsInv
<1>2. Len(Script) = 156 /\ Len(Script) \in Nat \ {0} /\ pc <= Len(Script) /\ Now = Script[pc]
  <2>1. Len(Script) = 156
    BY ReplayedScript
  <2> QED
    BY <1>1, <2>1 DEF Now
<1>3. CASE pc = 1
  <2>1. Opened(0) /\ ~ missed /\ Script[1] = NewChannel
    BY <1>1, <1>3, ReplayedScript DEF Replayed
  <2>2. /\ where = "running" /\ Passed /\ drawn' = drawn
        /\ channels' = [i \in 1 .. 1 |-> channels'[i]]
        /\ ChannelAt(channels'[1], 0, DefaultLimit, DefaultWindow)
        /\ channels'[1].sender.prefix \in Prefixes
        /\ Untouched(channels'[1].receivers["peer"])
        /\ Untouched(channels'[1].receivers["stranger"])
    BY <1>1, <1>2, <1>3, <2>1, FirstOpens
  <2>3. Replayed'
    BY <1>3, <2>1, <2>2, ReplayedFirst
  <2> QED
    BY <2>2, <2>3, ReplayedGoesOn
<1> DEFINE k == 1  c == channels[k]  n == IF pc = 2 THEN 0 ELSE 1
<1>4. ASSUME pc > 1
      PROVE  /\ n \in Nat /\ ~ missed /\ Opened(k) /\ k \in Nat /\ k \in 1 .. k /\ k = 1
             /\ ChannelAt(c, n, DefaultLimit, DefaultWindow)
             /\ pc \in {2, 3} => Untouched(Peer(k))
             /\ pc > 3 => Shows(Peer(k), 0, {0})
  <2>1. ~ pc = 1
    BY <1>4
  <2> QED
    BY <1>1, <1>4, <2>1 DEF Replayed, First
<1> HIDE DEF k
<1>5. CASE pc = 2
  <2>1. Now = Step("send")
    BY <1>2, <1>5, ReplayedScript
  <2>2. Now.op = "send" /\ Now.on = k /\ pc > 1
    BY <1>4, <1>5, <2>1 DEF Step
  <2>3. where = "running" /\ SendOnly
    BY <1>2, <2>2, OpDecides
  <2>4. n = 0 /\ n \in Nat /\ ChannelAt(c, n, DefaultLimit, DefaultWindow)
    BY <1>4, <1>5
  <2>5. ~ Exhausted(c.sender)
    <3>1. SenderAt(c.sender, n, DefaultLimit) /\ n < DefaultLimit
      BY <2>4, Limits DEF ChannelAt
    <3> HIDE DEF c, n
    <3> QED
      BY <2>4, <3>1, ExhaustedAt, Limits
  <2>6. /\ Passed /\ drawn' = drawn /\ Keeps(k, k)
        /\ ChannelAt(channels'[k], n + 1, DefaultLimit, DefaultWindow)
        /\ channels'[k].sender.prefix = channels[k].sender.prefix
        /\ channels'[k].receivers = channels[k].receivers
    <3> HIDE DEF n
    <3> QED
      BY <1>1, <1>4, <2>2, <2>3, <2>4, <2>5, SendMoves, Limits
  <2>7. /\ channels' = [i \in 1 .. 1 |-> channels'[i]]
        /\ ChannelAt(channels'[1], IF pc = 1 THEN 0 ELSE 1, DefaultLimit, DefaultWindow)
        /\ Untouched(channels'[1].receivers["peer"])
    <3>1. n + 1 = IF pc = 1 THEN 0 ELSE 1
      BY <1>5
    <3>2. Untouched(channels[k].receivers["peer"])
      BY <1>4, <1>5 DEF Peer
    <3> HIDE DEF n
    <3> QED
      BY <1>4, <2>2, <2>6, <3>1, <3>2 DEF Keeps
  <2>8. Replayed'
    <3>1. pc \in 1 .. 104 /\ ~ pc > 2
      BY <1>5
    <3> QED
      BY <1>4, <2>2, <2>6, <2>7, <3>1, ReplayedFirst
  <2> QED
    BY <2>3, <2>6, <2>8, ReplayedGoesOn
<1>6. CASE pc > 2
  <2> DEFINE s == 0  b == {0}  w == Protected(c, s, "text")
  <2>1. /\ n = 1 /\ n \in Nat /\ ChannelAt(c, n, DefaultLimit, DefaultWindow) /\ Opened(k)
        /\ k \in Nat /\ k \in 1 .. k /\ k = 1 /\ ~ missed
        /\ pc = 3 => Untouched(Peer(k))
        /\ pc # 3 => Shows(Peer(k), s, b)
    BY <1>1, <1>4, <1>6
  <2>2. /\ Now.op = "again" /\ Now.on = 1 /\ Now.to = "peer" /\ Now.n = 0 /\ ~ Now.still
        /\ Now.attack = Unaltered
        /\ pc = 3 => "ACCEPTED" \in Now.wanted \ Now.fatal
        /\ pc # 3 => "REPLAY_DETECTED" \in Now.wanted \ Now.fatal
    <3>1. CASE pc = 3
      <4>1. Now = Again(0, Unaltered, {"ACCEPTED"})
        BY <1>2, <3>1, ReplayedScript
      <4> QED
        BY <3>1, <4>1 DEF Again, Step
    <3>2. CASE pc = 4
      <4>1. Now = NeedsReason(Again(0, Unaltered, {"REPLAY_DETECTED"}))
        BY <1>2, <3>2, ReplayedScript
      <4> QED
        BY <3>2, <4>1 DEF NeedsReason, Again, Step
    <3>3. CASE pc > 4
      <4>1. pc \in 5 .. 104 /\ pc # 3
        BY <1>1, <3>3
      <4>2. Now = Again(0, Unaltered, Rejected)
        BY <1>2, <4>1, ReplayedScript
      <4> QED
        BY <4>1, <4>2 DEF Again, Step, Rejected, AllVerdicts
    <3> QED
      BY <1>1, <1>6, <3>1, <3>2, <3>3
  <2>3. Holds(Peer(k), "K", DefaultWindow)
    BY <2>1 DEF ChannelAt, ReceiversAt, Peer
  <2>4. s \in Nat /\ s = 0 /\ b = {0} /\ Now.n = s
    BY <2>2
  <2> HIDE DEF s, w, c, n
  <2>5. pc = 3 => Verdict(Peer(k), w) = "ACCEPTED" /\ Shows(Received(Peer(k), w), s, b)
    <3>1. Untouched(Peer(k)) => Below(Peer(k), s)
      BY UntouchedBelow
    <3>2. Below(Peer(k), s) =>
            /\ Verdict(Peer(k), w) = "ACCEPTED"
            /\ w.header.seq = s
            /\ Own \in DOMAIN Received(Peer(k), w).windows
            /\ Received(Peer(k), w).windows[Own].highest = s
            /\ Untouched(Peer(k)) => Shows(Received(Peer(k), w), s, {0})
      BY <2>3, <2>4, GenuineAccepted, Limits DEF w
    <3> QED
      BY <2>1, <3>1, <3>2
  <2>6. pc # 3 => Verdict(Peer(k), w) = "REPLAY_DETECTED" /\ Received(Peer(k), w) = Peer(k)
    <3>1. s <= s /\ s - s < DefaultWindow /\ s - s \in b
      BY <2>4, Limits
    <3> HIDE DEF b
    <3> QED
      BY <2>1, <2>3, <2>4, <3>1, ShownTaken, Limits DEF w
  <2>7. Verdict(Peer(k), w) \in Now.wanted \ Now.fatal /\ Shows(Received(Peer(k), w), s, b)
    BY <2>1, <2>2, <2>5, <2>6
  <2>8. /\ where = "running" /\ Passed /\ drawn' = drawn /\ Keeps(k, k)
        /\ ChannelAt(channels'[k], n, DefaultLimit, DefaultWindow)
        /\ channels'[k].receivers["peer"] = Received(Peer(k), w)
    BY <1>1, <1>2, <2>1, <2>2, <2>4, <2>7, PeerAgain, Limits DEF w, c
  <2>9. Replayed'
    <3>1. pc \in 1 .. 104 /\ ~ pc <= 2 /\ pc # 1
      BY <1>1, <1>6
    <3>2. /\ Shows(channels'[1].receivers["peer"], 0, {0})
          /\ channels' = [i \in 1 .. 1 |-> channels'[i]]
      BY <2>1, <2>4, <2>7, <2>8 DEF Keeps
    <3>3. ChannelAt(channels'[1], IF pc = 1 THEN 0 ELSE 1, DefaultLimit, DefaultWindow)
      BY <2>1, <2>8, <3>1
    <3> QED
      BY <2>1, <2>8, <3>1, <3>2, <3>3, ReplayedFirst
  <2> QED
    BY <2>8, <2>9, ReplayedGoesOn
<1> QED
  BY <1>1, <1>3, <1>5, <1>6

\* The second channel of TR-5 after a step on it.
LEMMA ReplayedSecond ==
  ASSUME Replayed, Passed, pc \in 105 .. 150,
         channels' = [i \in 1 .. 2 |-> channels'[i]], channels'[1] = channels[1],
         NEW n, n = (IF pc <= 137 THEN pc - 105 ELSE 32),
         ChannelAt(channels'[2], n, DefaultLimit, SmallWindow),
         Scattered(pc + 1, channels'[2].receivers["peer"])
  PROVE  Replayed'
<1>1. pc' = pc + 1 /\ ~ missed'
  BY DEF Passed, Replayed
<1>2. /\ pc' # 1 /\ pc' > 1 /\ ~ pc' <= 105 /\ pc' > 105 /\ pc' <= 151 /\ ~ pc' > 151 /\ ~ pc' > 152
      /\ pc' # 2 /\ pc' \notin {2, 3} /\ pc' > 3 /\ pc > 1 /\ pc # 2 /\ pc > 3
  BY <1>1
<1>3. Opened(2)'
  BY DEF Opened
<1>4. ChannelAt(channels[1], 1, DefaultLimit, DefaultWindow) /\ Shows(Peer(1), 0, {0})
  BY <1>2 DEF Replayed, First
<1>5. First(1)' /\ Shows(Peer(1), 0, {0})'
  BY <1>4 DEF First, Peer
<1>6. n = IF pc' <= 138 THEN pc' - 106 ELSE 32
  BY <1>1
<1>7. Second5At'
  BY <1>6 DEF Second5At
<1>8. Scattered(pc, Peer(2))'
  BY <1>1 DEF Peer
<1> QED
  BY <1>1, <1>2, <1>3, <1>5, <1>7, <1>8 DEF Replayed

\* An old record on the second channel.
LEMMA SecondAgain ==
  ASSUME ScriptsInv, Next, demo = 5, pc \in 138 .. 150,
         NEW s \in Nat,
         Now.op = "again", Now.on = 2, Now.to = "peer", Now.attack = Unaltered, ~ Now.still,
         Now.n = s,
         NEW w, w = Protected(channels[2], s, "text"),
         Verdict(Peer(2), w) \in Now.wanted \ Now.fatal,
         Scattered(pc + 1, Received(Peer(2), w))
  PROVE  ScriptsInv'
<1> DEFINE k == 2  n == 32
<1>1. missed \in BOOLEAN /\ Replayed /\ pc # 1 /\ ~ pc <= 105 /\ pc <= 151 /\ pc > 105
  BY DEF ScriptsInv
<1>2. Len(Script) = 156
  BY ReplayedScript
<1>3. Len(Script) \in Nat /\ pc <= Len(Script)
  BY <1>2
<1>4. Opened(k) /\ Second5At /\ k \in Nat /\ k \in 1 .. k /\ k = 2 /\ 1 \in 1 .. k /\ 1 # k
  BY <1>1 DEF Replayed
<1>5. n \in Nat /\ ChannelAt(channels[k], n, DefaultLimit, SmallWindow)
  <2>1. n = IF pc <= 138 THEN pc - 106 ELSE 32
    OBVIOUS
  <2> QED
    BY <1>4, <2>1 DEF Second5At
<1>6. n = IF pc <= 137 THEN pc - 105 ELSE 32
  OBVIOUS
<1> HIDE DEF k, n
<1>7. /\ where = "running" /\ Passed /\ drawn' = drawn /\ Keeps(k, k)
      /\ ChannelAt(channels'[k], n, DefaultLimit, SmallWindow)
      /\ channels'[k].receivers["peer"] = Received(Peer(k), w)
  BY <1>3, <1>4, <1>5, PeerAgain, Limits
<1>8. channels' = [i \in 1 .. 2 |-> channels'[i]] /\ channels'[1] = channels[1]
  BY <1>4, <1>7 DEF Keeps
<1>9. Replayed'
  BY <1>1, <1>4, <1>6, <1>7, <1>8, ReplayedSecond
<1> QED
  BY <1>7, <1>9, ReplayedGoesOn

LEMMA SecondPeer ==
  ASSUME ScriptsInv, demo = 5, pc \in 106 .. 151
  PROVE  Holds(Peer(2), "K", SmallWindow) /\ Scattered(pc, Peer(2))
<1>1. Replayed /\ pc > 105
  BY DEF ScriptsInv
<1> QED
  BY <1>1 DEF Replayed, Second5At, ChannelAt, ReceiversAt, Peer

LEMMA SmallWindowIs == SmallWindow \in Nat /\ SmallWindow = 8
  BY DEF SmallWindow

InOrderStep(s) ==
  /\ Now.op = "again" /\ Now.on = 2 /\ Now.to = "peer" /\ Now.attack = Unaltered /\ ~ Now.still
  /\ Now.n = s /\ Now.wanted = {"ACCEPTED"} /\ Now.fatal = {}

LEMMA OrderedNow ==
  ASSUME ScriptsInv, demo = 5, pc \in 138 .. 145
  PROVE  /\ pc = 138 => InOrderStep(3)
         /\ pc = 139 => InOrderStep(0)
         /\ pc = 140 => InOrderStep(7)
         /\ pc = 141 => InOrderStep(1)
         /\ pc = 142 => InOrderStep(5)
         /\ pc = 143 => InOrderStep(2)
         /\ pc = 144 => InOrderStep(6)
         /\ pc = 145 => InOrderStep(4)
<1> DEFINE i == pc - 137
<1>1. Now = Onto(InOrder(i), 2)
  BY ReplayedScript
<1>2. /\ Now.op = "again" /\ Now.on = 2 /\ Now.to = "peer" /\ Now.attack = Unaltered
      /\ ~ Now.still /\ Now.n = Order[i] /\ Now.wanted = {"ACCEPTED"} /\ Now.fatal = {}
  BY <1>1 DEF Onto, InOrder, Again, Step
<1>3. InOrderStep(Order[i])
  BY <1>2 DEF InOrderStep
<1>4. /\ Order[1] = 3 /\ Order[2] = 0 /\ Order[3] = 7 /\ Order[4] = 1
      /\ Order[5] = 5 /\ Order[6] = 2 /\ Order[7] = 6 /\ Order[8] = 4
  BY DEF Order
<1>5. /\ pc = 138 => i = 1
      /\ pc = 139 => i = 2
      /\ pc = 140 => i = 3
      /\ pc = 141 => i = 4
      /\ pc = 142 => i = 5
      /\ pc = 143 => i = 6
      /\ pc = 144 => i = 7
      /\ pc = 145 => i = 8
  OBVIOUS
<1> HIDE DEF i
<1> QED
  BY <1>3, <1>4, <1>5

\* A number inside the window of the second channel, delivered late.
LEMMA SecondFills ==
  ASSUME ScriptsInv, Next, demo = 5, pc \in 139 .. 149,
         Now.op = "again", Now.on = 2, Now.to = "peer", Now.attack = Unaltered, ~ Now.still,
         "ACCEPTED" \in Now.wanted \ Now.fatal,
         NEW h \in Nat, NEW s \in Nat, Now.n = s, s <= h, NEW d, d = h - s, d < SmallWindow,
         NEW b, Shows(Peer(2), h, b), d \notin b,
         \A r : Shows(r, h, b \cup {d}) => Scattered(pc + 1, r)
  PROVE  ScriptsInv'
<1> DEFINE w == Protected(channels[2], s, "text")
<1>1. Holds(Peer(2), "K", SmallWindow) /\ SmallWindow \in Nat
  BY SecondPeer, SmallWindowIs
<1>2. h - s < SmallWindow /\ h - s \notin b
  OBVIOUS
<1>3. Verdict(Peer(2), w) = "ACCEPTED" /\ Shows(Received(Peer(2), w), h, b \cup {d})
  BY <1>1, <1>2, ShownFills
<1>4. pc \in 138 .. 150 /\ Verdict(Peer(2), w) \in Now.wanted \ Now.fatal
      /\ Scattered(pc + 1, Received(Peer(2), w))
  BY <1>3
<1> HIDE DEF w
<1> QED
  BY <1>4, SecondAgain DEF w

\* The steps that deliver a number inside the small window.
LEMMA OrderedFills ==
  ASSUME ScriptsInv, Next, demo = 5, pc \in 139 .. 145, pc # 140
  PROVE  ScriptsInv'
<1>1. Scattered(pc, Peer(2)) /\ SmallWindow = 8
  BY SecondPeer, SmallWindowIs
<1>2. pc \in 139 .. 149 /\ pc \in 138 .. 145
  OBVIOUS
<1>3. ASSUME NEW h \in Nat, NEW s \in Nat, s <= h, NEW d, d = h - s, d < 8, InOrderStep(s),
             NEW b, Shows(Peer(2), h, b), d \notin b,
             \A r : Shows(r, h, b \cup {d}) => Scattered(pc + 1, r)
      PROVE  ScriptsInv'
  BY <1>1, <1>2, <1>3, SecondFills DEF InOrderStep
<1>4. CASE pc = 139
  <2> DEFINE h == 3  s == 0  d == 3  b == {0}
  <2>1. /\ h \in Nat /\ s \in Nat /\ s <= h /\ d = h - s /\ d < 8 /\ d \notin b
        /\ InOrderStep(s) /\ Shows(Peer(2), h, b) /\ b \cup {d} = {0, 3} /\ h = 3
    BY <1>1, <1>2, <1>4, OrderedNow DEF Scattered
  <2>2. \A r : Shows(r, h, {0, 3}) => Scattered(pc + 1, r)
    BY <1>4 DEF Scattered
  <2> HIDE DEF h, s, d, b
  <2>3. \A r : Shows(r, h, b \cup {d}) => Scattered(pc + 1, r)
    BY <2>1, <2>2
  <2> QED
    BY <1>3, <2>1, <2>3
<1>5. CASE pc = 141
  <2> DEFINE h == 7  s == 1  d == 6  b == {0, 4, 7}
  <2>1. /\ h \in Nat /\ s \in Nat /\ s <= h /\ d = h - s /\ d < 8 /\ d \notin b
        /\ InOrderStep(s) /\ Shows(Peer(2), h, b) /\ b \cup {d} = {0, 4, 6, 7} /\ h = 7
    BY <1>1, <1>2, <1>5, OrderedNow DEF Scattered
  <2>2. \A r : Shows(r, h, {0, 4, 6, 7}) => Scattered(pc + 1, r)
    BY <1>5 DEF Scattered
  <2> HIDE DEF h, s, d, b
  <2>3. \A r : Shows(r, h, b \cup {d}) => Scattered(pc + 1, r)
    BY <2>1, <2>2
  <2> QED
    BY <1>3, <2>1, <2>3
<1>6. CASE pc = 142
  <2> DEFINE h == 7  s == 5  d == 2  b == {0, 4, 6, 7}
  <2>1. /\ h \in Nat /\ s \in Nat /\ s <= h /\ d = h - s /\ d < 8 /\ d \notin b
        /\ InOrderStep(s) /\ Shows(Peer(2), h, b) /\ b \cup {d} = {0, 2, 4, 6, 7} /\ h = 7
    BY <1>1, <1>2, <1>6, OrderedNow DEF Scattered
  <2>2. \A r : Shows(r, h, {0, 2, 4, 6, 7}) => Scattered(pc + 1, r)
    BY <1>6 DEF Scattered
  <2> HIDE DEF h, s, d, b
  <2>3. \A r : Shows(r, h, b \cup {d}) => Scattered(pc + 1, r)
    BY <2>1, <2>2
  <2> QED
    BY <1>3, <2>1, <2>3
<1>7. CASE pc = 143
  <2> DEFINE h == 7  s == 2  d == 5  b == {0, 2, 4, 6, 7}
  <2>1. /\ h \in Nat /\ s \in Nat /\ s <= h /\ d = h - s /\ d < 8 /\ d \notin b
        /\ InOrderStep(s) /\ Shows(Peer(2), h, b) /\ b \cup {d} = {0, 2, 4, 5, 6, 7} /\ h = 7
    BY <1>1, <1>2, <1>7, OrderedNow DEF Scattered
  <2>2. \A r : Shows(r, h, {0, 2, 4, 5, 6, 7}) => Scattered(pc + 1, r)
    BY <1>7 DEF Scattered
  <2> HIDE DEF h, s, d, b
  <2>3. \A r : Shows(r, h, b \cup {d}) => Scattered(pc + 1, r)
    BY <2>1, <2>2
  <2> QED
    BY <1>3, <2>1, <2>3
<1>8. CASE pc = 144
  <2> DEFINE h == 7  s == 6  d == 1  b == {0, 2, 4, 5, 6, 7}
  <2>1. /\ h \in Nat /\ s \in Nat /\ s <= h /\ d = h - s /\ d < 8 /\ d \notin b
        /\ InOrderStep(s) /\ Shows(Peer(2), h, b) /\ b \cup {d} = {0, 1, 2, 4, 5, 6, 7} /\ h = 7
    BY <1>1, <1>2, <1>8, OrderedNow DEF Scattered
  <2>2. \A r : Shows(r, h, {0, 1, 2, 4, 5, 6, 7}) => Scattered(pc + 1, r)
    BY <1>8 DEF Scattered
  <2> HIDE DEF h, s, d, b
  <2>3. \A r : Shows(r, h, b \cup {d}) => Scattered(pc + 1, r)
    BY <2>1, <2>2
  <2> QED
    BY <1>3, <2>1, <2>3
<1>9. CASE pc = 145
  <2> DEFINE h == 7  s == 4  d == 3  b == {0, 1, 2, 4, 5, 6, 7}
  <2>1. /\ h \in Nat /\ s \in Nat /\ s <= h /\ d = h - s /\ d < 8 /\ d \notin b
        /\ InOrderStep(s) /\ Shows(Peer(2), h, b) /\ b \cup {d} = 0 .. 7 /\ h = 7
    BY <1>1, <1>2, <1>9, OrderedNow DEF Scattered
  <2>2. \A r : Shows(r, h, 0 .. 7) => Scattered(pc + 1, r)
    BY <1>9 DEF Scattered
  <2> HIDE DEF h, s, d, b
  <2>3. \A r : Shows(r, h, b \cup {d}) => Scattered(pc + 1, r)
    BY <2>1, <2>2
  <2> QED
    BY <1>3, <2>1, <2>3
<1> QED
  BY <1>4, <1>5, <1>6, <1>7, <1>8, <1>9

\* A number ahead of the small window.
LEMMA SecondSlides ==
  ASSUME ScriptsInv, Next, demo = 5, pc \in {140, 147},
         Now.op = "again", Now.on = 2, Now.to = "peer", Now.attack = Unaltered, ~ Now.still,
         "ACCEPTED" \in Now.wanted \ Now.fatal,
         NEW h \in Nat, NEW s \in Nat, Now.n = s, s > h,
         NEW b, Shows(Peer(2), h, b), NEW e, e = Slid(b, s - h, SmallWindow),
         \A r : Shows(r, s, e) => Scattered(pc + 1, r)
  PROVE  ScriptsInv'
<1> DEFINE w == Protected(channels[2], s, "text")
<1>1. Holds(Peer(2), "K", SmallWindow) /\ SmallWindow \in Nat
  BY SecondPeer, SmallWindowIs
<1>2. Verdict(Peer(2), w) = "ACCEPTED" /\ Shows(Received(Peer(2), w), s, e)
  BY <1>1, ShownSlides
<1>3. pc \in 138 .. 150 /\ Verdict(Peer(2), w) \in Now.wanted \ Now.fatal
      /\ Scattered(pc + 1, Received(Peer(2), w))
  BY <1>2
<1> HIDE DEF w
<1> QED
  BY <1>3, SecondAgain DEF w

LEMMA OrderedSlides ==
  ASSUME ScriptsInv, Next, demo = 5, pc \in {140, 147}
  PROVE  ScriptsInv'
<1>1. Scattered(pc, Peer(2)) /\ SmallWindow = 8
  BY SecondPeer, SmallWindowIs
<1>2. CASE pc = 140
  <2> DEFINE h == 3  s == 7  b == {0, 3}  e == {0, 4, 7}
  <2>1. InOrderStep(s) /\ Shows(Peer(2), h, b)
    BY <1>1, <1>2, OrderedNow DEF Scattered
  <2>2. h \in Nat /\ s \in Nat /\ s > h
    OBVIOUS
  <2>3. e = Slid(b, s - h, SmallWindow)
    <3>1. s - h = 4 /\ {j + 4 : j \in b} = {4, 7}
      OBVIOUS
    <3> QED
      BY <1>1, <3>1 DEF Slid
  <2>4. \A r : Shows(r, s, e) => Scattered(pc + 1, r)
    BY <1>2 DEF Scattered
  <2> HIDE DEF h, s, b, e
  <2> QED
    BY <1>2, <2>1, <2>2, <2>3, <2>4, SecondSlides DEF InOrderStep
<1>3. CASE pc = 147
  <2> DEFINE h == 7  s == 19  b == 0 .. 7  e == {0}
  <2>1. Now = Onto(Again(19, Unaltered, AllVerdicts), 2)
    BY <1>3, ReplayedScript
  <2>2. /\ Now.op = "again" /\ Now.on = 2 /\ Now.to = "peer" /\ Now.attack = Unaltered
        /\ ~ Now.still /\ "ACCEPTED" \in Now.wanted \ Now.fatal /\ Now.n = s
    BY <2>1 DEF Onto, Again, Step, AllVerdicts
  <2>3. h \in Nat /\ s \in Nat /\ s > h /\ Shows(Peer(2), h, b)
    BY <1>1, <1>3 DEF Scattered
  <2>4. e = Slid(b, s - h, SmallWindow)
    BY <1>1 DEF Slid
  <2>5. \A r : Shows(r, s, e) => Scattered(pc + 1, r)
    BY <1>3 DEF Scattered
  <2> HIDE DEF h, s, b, e
  <2> QED
    BY <1>3, <2>2, <2>3, <2>4, <2>5, SecondSlides
<1> QED
  BY <1>2, <1>3

\* The second channel, before anything is delivered on it.
LEMMA SecondSends ==
  ASSUME ScriptsInv, Next, demo = 5, pc \in 105 .. 137
  PROVE  ScriptsInv'
<1>1. missed \in BOOLEAN /\ Replayed /\ pc # 1 /\ pc <= 151 /\ pc > 1 /\ pc <= 138
  BY DEF ScriptsInv
<1>2. Len(Script) = 156
  BY ReplayedScript
<1>3. Len(Script) \in Nat /\ pc <= Len(Script)
  BY <1>2
<1>4. CASE pc = 105
  <2> DEFINE k == 1
  <2>1. Now = Onto(Open(SmallWindow, DefaultLimit), 2)
    BY <1>4, ReplayedScript
  <2>2. Now.op = "open" /\ Now.n = DefaultLimit /\ Now.size = SmallWindow
    BY <2>1 DEF Onto, Open, Step
  <2>3. where = "running" /\ OpenChannel
    BY <1>3, <2>2, OpDecides
  <2>4. k \in Nat /\ Opened(k) /\ k + 1 = 2 /\ 1 \in 1 .. k
    BY <1>1, <1>4 DEF Replayed
  <2> HIDE DEF k
  <2>5. /\ Passed /\ drawn' = drawn
        /\ channels' = [i \in 1 .. k + 1 |-> channels'[i]]
        /\ \A i \in 1 .. k : channels'[i] = channels[i]
        /\ ChannelAt(channels'[k + 1], 0, DefaultLimit, SmallWindow)
        /\ channels'[k + 1].sender.prefix \in Prefixes
        /\ Untouched(channels'[k + 1].receivers["peer"])
        /\ Untouched(channels'[k + 1].receivers["stranger"])
    BY <1>1, <2>2, <2>3, <2>4, NewChannelMoves
  <2>6. /\ channels' = [i \in 1 .. 2 |-> channels'[i]] /\ channels'[1] = channels[1]
        /\ ChannelAt(channels'[2], 0, DefaultLimit, SmallWindow)
        /\ Untouched(channels'[2].receivers["peer"])
    BY <2>4, <2>5
  <2>7. Scattered(pc + 1, channels'[2].receivers["peer"])
    BY <1>4, <2>6 DEF Scattered
  <2>8. pc \in 105 .. 150
    BY <1>4
  <2>9. Replayed'
    <3> DEFINE n == 0
    <3>1. n = IF pc <= 137 THEN pc - 105 ELSE 32
      BY <1>4
    <3>2. ChannelAt(channels'[2], n, DefaultLimit, SmallWindow)
      BY <2>6
    <3> HIDE DEF n
    <3>3. Replayed /\ Passed
      BY <1>1, <2>5
    <3> QED
      BY <2>6, <2>7, <2>8, <3>1, <3>2, <3>3, ReplayedSecond
  <2> QED
    BY <2>3, <2>5, <2>9, ReplayedGoesOn
<1>5. CASE pc > 105
  <2> DEFINE k == 2  n == pc - 106  m == pc - 105
  <2>1. pc \in 106 .. 137
    BY <1>5
  <2>2. Now = Onto(Step("send"), 2)
    BY <2>1, ReplayedScript
  <2>3. /\ k \in Nat /\ k \in 1 .. k /\ k = 2 /\ 1 \in 1 .. k /\ 1 # k
        /\ n \in Nat /\ n + 1 = m /\ n < DefaultLimit
        /\ m = IF pc <= 137 THEN pc - 105 ELSE 32
    BY <2>1, Limits
  <2>4. Now.op = "send" /\ Now.on = k
    BY <2>2 DEF Onto, Step
  <2>5. where = "running" /\ SendOnly
    BY <1>3, <2>4, OpDecides
  <2>6. Opened(k) /\ ChannelAt(channels[k], n, DefaultLimit, SmallWindow) /\ Untouched(Peer(k))
    <3>1. ~ pc <= 105 /\ pc > 105
      BY <1>5
    <3>2. Opened(k) /\ Second5At /\ Scattered(pc, Peer(k))
      BY <1>1, <3>1 DEF Replayed
    <3> QED
      BY <1>1, <3>2 DEF Second5At, Scattered
  <2>7. SenderAt(channels[k].sender, n, DefaultLimit)
    BY <2>6 DEF ChannelAt
  <2> HIDE DEF k, n, m
  <2>8. ~ Exhausted(channels[k].sender)
    BY <2>3, <2>7, ExhaustedAt, Limits
  <2>9. /\ Passed /\ drawn' = drawn /\ Keeps(k, k)
        /\ ChannelAt(channels'[k], n + 1, DefaultLimit, SmallWindow)
        /\ channels'[k].sender.prefix = channels[k].sender.prefix
        /\ channels'[k].receivers = channels[k].receivers
    BY <1>1, <2>3, <2>4, <2>5, <2>6, <2>8, SendMoves, Limits
  <2>10. /\ channels' = [i \in 1 .. 2 |-> channels'[i]] /\ channels'[1] = channels[1]
         /\ ChannelAt(channels'[2], m, DefaultLimit, SmallWindow)
         /\ Untouched(channels'[2].receivers["peer"])
    BY <2>3, <2>6, <2>9 DEF Keeps, Peer
  <2>11. Scattered(pc + 1, channels'[2].receivers["peer"])
    BY <2>1, <2>10 DEF Scattered
  <2>12. pc \in 105 .. 150
    BY <2>1
  <2>13. Replayed'
    BY <1>1, <2>3, <2>9, <2>10, <2>11, <2>12, ReplayedSecond
  <2> QED
    BY <2>5, <2>9, <2>13, ReplayedGoesOn
<1> QED
  BY <1>1, <1>4, <1>5

LEMMA SecondReplayed ==
  ASSUME ScriptsInv, Next, demo = 5, pc \in 105 .. 150
  PROVE  ScriptsInv'
<1>1. missed \in BOOLEAN /\ Replayed
  BY DEF ScriptsInv
<1>2. CASE pc \in 105 .. 137
  BY <1>2, SecondSends
<1>3. CASE pc \in 139 .. 145 /\ pc # 140
  BY <1>3, OrderedFills
<1>4. CASE pc \in {140, 147}
  BY <1>4, OrderedSlides
<1>5. CASE pc = 138
  <2> DEFINE s == 3  w == Protected(channels[2], s, "text")
  <2>1. InOrderStep(s) /\ s \in Nat
    BY <1>5, OrderedNow
  <2>2. Holds(Peer(2), "K", SmallWindow) /\ Scattered(pc, Peer(2)) /\ SmallWindow \in Nat
    BY SecondPeer, SmallWindowIs, <1>5
  <2>3. Untouched(Peer(2))
    BY <1>5, <2>2 DEF Scattered
  <2>4. \A r : Shows(r, s, {0}) => Scattered(pc + 1, r)
    BY <1>5 DEF Scattered
  <2> HIDE DEF s
  <2>5. Below(Peer(2), s)
    BY <2>3, UntouchedBelow
  <2>6. Verdict(Peer(2), w) = "ACCEPTED" /\ Shows(Received(Peer(2), w), s, {0})
    BY <2>1, <2>2, <2>3, <2>5, GenuineAccepted
  <2>7. Scattered(pc + 1, Received(Peer(2), w)) /\ pc \in 138 .. 150
        /\ Verdict(Peer(2), w) \in Now.wanted \ Now.fatal
    BY <1>5, <2>1, <2>4, <2>6 DEF InOrderStep
  <2> HIDE DEF w
  <2> QED
    BY <2>1, <2>7, SecondAgain DEF InOrderStep, w
<1>6. CASE pc = 146
  <2> DEFINE h == 7  s == 3  b == 0 .. 7  w == Protected(channels[2], s, "text")
  <2>1. Now = Onto(Again(3, Unaltered, {"REPLAY_DETECTED"}), 2)
    BY <1>6, ReplayedScript
  <2>2. /\ Now.op = "again" /\ Now.on = 2 /\ Now.to = "peer" /\ Now.attack = Unaltered
        /\ ~ Now.still /\ "REPLAY_DETECTED" \in Now.wanted \ Now.fatal /\ Now.n = s
    BY <2>1 DEF Onto, Again, Step
  <2>3. Holds(Peer(2), "K", SmallWindow) /\ Scattered(pc, Peer(2)) /\ SmallWindow \in Nat
    BY SecondPeer, SmallWindowIs, <1>6
  <2>4. /\ h \in Nat /\ s \in Nat /\ s <= h /\ h - s < SmallWindow /\ h - s \in b
        /\ Shows(Peer(2), h, b)
    BY <1>6, <2>3, SmallWindowIs DEF Scattered
  <2>5. \A r : Shows(r, h, b) => Scattered(pc + 1, r)
    BY <1>6 DEF Scattered
  <2> HIDE DEF h, s, b
  <2>6. Verdict(Peer(2), w) = "REPLAY_DETECTED" /\ Received(Peer(2), w) = Peer(2)
    BY <2>3, <2>4, ShownTaken
  <2>7. Scattered(pc + 1, Received(Peer(2), w)) /\ pc \in 138 .. 150
        /\ Verdict(Peer(2), w) \in Now.wanted \ Now.fatal
    BY <1>6, <2>2, <2>4, <2>5, <2>6
  <2> HIDE DEF w
  <2> QED
    BY <2>2, <2>4, <2>7, SecondAgain DEF w
<1>7. CASE pc = 148
  <2> DEFINE k == 2
  <2>1. Now = Onto(Step("look"), 2) /\ Len(Script) = 156
    BY <1>7, ReplayedScript
  <2>2. Now.op = "look" /\ Now.on = k
    BY <2>1 DEF Onto, Step
  <2>3. where = "running" /\ LookAtWindow
    BY <1>7, <2>1, <2>2, OpDecides
  <2>4. Scattered(pc, Peer(2))
    BY <1>7, SecondPeer
  <2>5. Shows(Peer(2), 19, {0})
    BY <1>7, <2>4 DEF Scattered
  <2>6. DOMAIN channels[Now.on].receivers["peer"].windows # {}
    BY <2>2, <2>5 DEF Shows, Peer
  <2>7. Passed /\ UNCHANGED <<channels, drawn>>
    BY <1>1, <2>3, <2>6, LookMoves
  <2> DEFINE n == 32
  <2>8. ChannelAt(channels'[2], n, DefaultLimit, SmallWindow)
        /\ channels' = [i \in 1 .. 2 |-> channels'[i]] /\ channels'[1] = channels[1]
    <3>1. ~ pc <= 105 /\ pc # 1 /\ pc <= 151 /\ pc > 105 /\ ~ pc <= 138
      BY <1>7
    <3>2. Opened(2) /\ Second5At
      BY <1>1, <3>1 DEF Replayed
    <3> QED
      BY <2>7, <3>1, <3>2 DEF Second5At, Opened
  <2>9. Scattered(pc + 1, channels'[2].receivers["peer"])
    BY <1>7, <2>5, <2>7 DEF Scattered, Peer
  <2>10. n = (IF pc <= 137 THEN pc - 105 ELSE 32) /\ pc \in 105 .. 150
    BY <1>7
  <2> HIDE DEF n
  <2>11. Replayed'
    BY <1>1, <2>7, <2>8, <2>9, <2>10, ReplayedSecond
  <2> QED
    BY <2>3, <2>7, <2>11, ReplayedGoesOn
<1>8. CASE pc = 149
  <2> DEFINE h == 19  s == 12  d == 7  b == {0}
  <2>1. Now = Onto(Again(12, Unaltered, {"ACCEPTED"}), 2)
    BY <1>8, ReplayedScript
  <2>2. /\ Now.op = "again" /\ Now.on = 2 /\ Now.to = "peer" /\ Now.attack = Unaltered
        /\ ~ Now.still /\ "ACCEPTED" \in Now.wanted \ Now.fatal /\ Now.n = s
    BY <2>1 DEF Onto, Again, Step
  <2>3. Scattered(pc, Peer(2))
    BY <1>8, SecondPeer
  <2>4. /\ h \in Nat /\ s \in Nat /\ s <= h /\ d = h - s /\ d < SmallWindow /\ d \notin b
        /\ Shows(Peer(2), h, b) /\ b \cup {d} = {0, 7} /\ pc \in 139 .. 149
    BY <1>8, <2>3, SmallWindowIs DEF Scattered
  <2>5. \A r : Shows(r, h, {0, 7}) => Scattered(pc + 1, r)
    BY <1>8 DEF Scattered
  <2> HIDE DEF h, s, d, b
  <2>6. \A r : Shows(r, h, b \cup {d}) => Scattered(pc + 1, r)
    BY <2>4, <2>5
  <2> QED
    BY <2>2, <2>4, <2>6, SecondFills
<1>9. CASE pc = 150
  <2> DEFINE h == 19  s == 11  b == {0, 7}  w == Protected(channels[2], s, "text")
  <2>1. Now = Onto(NeedsReason(Again(11, Unaltered, {"STALE_RECORD"})), 2)
    BY <1>9, ReplayedScript
  <2>2. /\ Now.op = "again" /\ Now.on = 2 /\ Now.to = "peer" /\ Now.attack = Unaltered
        /\ ~ Now.still /\ "STALE_RECORD" \in Now.wanted \ Now.fatal /\ Now.n = s
    BY <2>1 DEF Onto, NeedsReason, Again, Step
  <2>3. Holds(Peer(2), "K", SmallWindow) /\ Scattered(pc, Peer(2)) /\ SmallWindow \in Nat
    BY SecondPeer, SmallWindowIs, <1>9
  <2>4. /\ h \in Nat /\ s \in Nat /\ s <= h /\ h - s >= SmallWindow /\ Shows(Peer(2), h, b)
    BY <1>9, <2>3, SmallWindowIs DEF Scattered
  <2>5. \A r : Shows(r, h, b) => Scattered(pc + 1, r)
    BY <1>9 DEF Scattered
  <2> HIDE DEF h, s, b
  <2>6. Verdict(Peer(2), w) = "STALE_RECORD" /\ Received(Peer(2), w) = Peer(2)
    BY <2>3, <2>4, ShownOld
  <2>7. Scattered(pc + 1, Received(Peer(2), w)) /\ pc \in 138 .. 150
        /\ Verdict(Peer(2), w) \in Now.wanted \ Now.fatal
    BY <1>9, <2>2, <2>4, <2>5, <2>6
  <2> HIDE DEF w
  <2> QED
    BY <2>2, <2>4, <2>7, SecondAgain DEF w
<1> QED
  BY <1>2, <1>3, <1>4, <1>5, <1>6, <1>7, <1>8, <1>9

\* The third channel of TR-5 after a step on it.
LEMMA ReplayedThird ==
  ASSUME Replayed, Passed, pc \in 151 .. 155,
         channels' = [i \in 1 .. 3 |-> channels'[i]],
         channels'[1] = channels[1], channels'[2] = channels[2],
         NEW n, n = Sent3',
         ChannelAt(channels'[3], n, DefaultLimit, DefaultWindow),
         Below(channels'[3].receivers["peer"], n),
         pc > 151 => Own \in DOMAIN channels'[3].receivers["peer"].windows
  PROVE  Replayed'
<1>1. pc' = pc + 1 /\ ~ missed'
  BY DEF Passed, Replayed
<1>2. /\ pc' # 1 /\ pc' > 1 /\ ~ pc' <= 105 /\ pc' > 105 /\ ~ pc' <= 151 /\ pc' > 151
      /\ (pc' > 152 => pc > 151)
      /\ pc' # 2 /\ pc' \notin {2, 3} /\ pc' > 3 /\ pc > 1 /\ pc # 2 /\ pc > 3 /\ pc > 105
      /\ ~ pc <= 138 /\ ~ pc' <= 138
  BY <1>1
<1>3. Opened(3)'
  BY DEF Opened
<1>4. /\ ChannelAt(channels[1], 1, DefaultLimit, DefaultWindow) /\ Shows(Peer(1), 0, {0})
      /\ ChannelAt(channels[2], 32, DefaultLimit, SmallWindow) /\ Scattered(pc, Peer(2))
  BY <1>2 DEF Replayed, First, Second5At
<1>5. First(1)' /\ Shows(Peer(1), 0, {0})'
  BY <1>4 DEF First, Peer
<1>6. Second5At'
  BY <1>2, <1>4 DEF Second5At
<1>7. Scattered(pc, Peer(2))'
  <2>1. Shows(Peer(2), 19, {0, 7})
    BY <1>4 DEF Scattered
  <2>2. Scattered(pc + 1, Peer(2))
    BY <2>1 DEF Scattered
  <2> QED
    BY <1>1, <2>2 DEF Peer
<1>8. ChannelAt(channels[3], Sent3, DefaultLimit, DefaultWindow)' /\ Below(Peer(3), Sent3)'
  BY DEF Peer
<1>9. (pc > 152 => Own \in DOMAIN Peer(3).windows)'
  BY <1>2 DEF Peer
<1> QED
  BY <1>1, <1>2, <1>3, <1>5, <1>6, <1>7, <1>8, <1>9 DEF Replayed

\* The second channel of TR-5 is complete; the third one opens.
LEMMA ThirdOpens ==
  ASSUME ScriptsInv, Next, demo = 5, pc = 151
  PROVE  ScriptsInv'
<1> DEFINE k == 2  n == 0
<1>1. missed \in BOOLEAN /\ Replayed /\ pc # 1 /\ ~ pc <= 105 /\ pc <= 151
  BY DEF ScriptsInv
<1>2. Len(Script) = 156 /\ Now = Onto(NewChannel, 3)
  BY ReplayedScript
<1>3. Now.op = "open" /\ Now.n = DefaultLimit /\ Now.size = DefaultWindow
  BY <1>2 DEF Onto, NewChannel, Open, Step
<1>4. where = "running" /\ OpenChannel
  BY <1>2, <1>3, OpDecides
<1>5. k \in Nat /\ Opened(k) /\ k + 1 = 3 /\ 1 \in 1 .. k /\ 2 \in 1 .. k
  BY <1>1 DEF Replayed
<1> HIDE DEF k
<1>6. /\ Passed /\ drawn' = drawn
      /\ channels' = [i \in 1 .. k + 1 |-> channels'[i]]
      /\ \A i \in 1 .. k : channels'[i] = channels[i]
      /\ ChannelAt(channels'[k + 1], 0, DefaultLimit, DefaultWindow)
      /\ channels'[k + 1].sender.prefix \in Prefixes
      /\ Untouched(channels'[k + 1].receivers["peer"])
      /\ Untouched(channels'[k + 1].receivers["stranger"])
  BY <1>1, <1>3, <1>4, <1>5, NewChannelMoves
<1>7. /\ channels' = [i \in 1 .. 3 |-> channels'[i]]
      /\ channels'[1] = channels[1] /\ channels'[2] = channels[2]
      /\ ChannelAt(channels'[3], n, DefaultLimit, DefaultWindow)
      /\ Untouched(channels'[3].receivers["peer"])
  BY <1>5, <1>6
<1>8. Below(channels'[3].receivers["peer"], n)
  BY <1>7, UntouchedBelow
<1>9. n = Sent3' /\ pc \in 151 .. 155 /\ ~ pc > 151
  BY <1>6 DEF Passed, Sent3
<1> HIDE DEF n
<1>10. Replayed'
  BY <1>1, <1>6, <1>7, <1>8, <1>9, ReplayedThird, ZenonT(30)
<1> QED
  BY <1>4, <1>6, <1>10, ReplayedGoesOn

LEMMA ThirdAt ==
  ASSUME ScriptsInv, demo = 5, pc \in 152 .. 156
  PROVE  /\ missed \in BOOLEAN /\ ~ missed /\ Replayed /\ Opened(3)
         /\ Sent3 \in Nat /\ Sent3 <= 3
         /\ ChannelAt(channels[3], Sent3, DefaultLimit, DefaultWindow)
         /\ Below(Peer(3), Sent3)
         /\ pc > 152 => Own \in DOMAIN Peer(3).windows
<1>1. missed \in BOOLEAN /\ Replayed
  BY DEF ScriptsInv
<1>2. pc # 1 /\ ~ pc <= 105 /\ ~ pc <= 151 /\ pc > 151
  OBVIOUS
<1>3. Sent3 \in Nat /\ Sent3 <= 3
  BY DEF Sent3
<1> QED
  BY <1>1, <1>2, <1>3 DEF Replayed

\* A record on the third channel; the peer takes it.
LEMMA ThirdProbes ==
  ASSUME ScriptsInv, Next, demo = 5, pc \in {152, 155}
  PROVE  ScriptsInv'
<1> DEFINE k == 3  n == Sent3  m == n + 1
<1>1. /\ missed \in BOOLEAN /\ ~ missed /\ Replayed /\ Opened(3)
      /\ Sent3 \in Nat /\ Sent3 <= 3
      /\ ChannelAt(channels[3], Sent3, DefaultLimit, DefaultWindow)
      /\ Below(Peer(3), Sent3)
  BY ThirdAt
<1>2. /\ Len(Script) = 156
      /\ pc = 152 => Now = Onto(Probe(Unaltered, AllVerdicts), 3)
      /\ pc = 155 => Now = Onto(Accepted, 3)
  BY ReplayedScript
<1>3. /\ Now.op = "probe" /\ Now.on = k /\ Now.to = "peer" /\ Now.payload = "text"
      /\ Now.n = -1 /\ ~ Now.still /\ Now.attack = Unaltered
      /\ "ACCEPTED" \in Now.wanted \ Now.fatal
  <2>1. CASE pc = 152
    <3>1. Now = Onto(Probe(Unaltered, AllVerdicts), 3) /\ "ACCEPTED" \in AllVerdicts
      BY <1>2, <2>1 DEF AllVerdicts
    <3> QED
      BY <3>1 DEF Onto, Probe, Step
  <2>2. CASE pc = 155
    <3>1. Now = Onto(Accepted, 3)
      BY <1>2, <2>2
    <3> QED
      BY <3>1 DEF Onto, Accepted, Probe, Step
  <2> QED
    BY <2>1, <2>2
<1>4. where = "running" /\ SendAndDeliver
  BY <1>2, <1>3, OpDecides
<1>5. /\ k \in Nat /\ k \in 1 .. k /\ k = 3 /\ 1 \in 1 .. k /\ 2 \in 1 .. k /\ 1 # k /\ 2 # k
      /\ n \in Nat /\ n < DefaultLimit /\ pc \in Nat /\ Now.payload \in Payloads
  BY <1>1, <1>3, Limits, ValuesAssumption
<1> HIDE DEF k
<1>6. /\ Passed /\ drawn' = drawn /\ Keeps(k, k)
      /\ ChannelAt(channels'[k], n + 1, DefaultLimit, DefaultWindow)
      /\ Below(channels'[k].receivers["peer"], n + 1)
      /\ channels'[k].receivers["stranger"] = channels[k].receivers["stranger"]
      /\ Now.attack = Unaltered => Own \in DOMAIN channels'[k].receivers["peer"].windows
  <2>1. /\ ChannelAt(channels[k], n, DefaultLimit, DefaultWindow)
        /\ Below(Peer(k), n) /\ Opened(k)
    BY <1>1, <1>5
  <2> HIDE DEF n
  <2> QED
    BY <1>1, <1>3, <1>4, <1>5, <2>1, PeerProbe
<1>7. m = Sent3'
  BY <1>6 DEF Passed, Sent3
<1>8. pc \in 151 .. 155
  OBVIOUS
<1>9. /\ channels' = [i \in 1 .. 3 |-> channels'[i]]
      /\ channels'[1] = channels[1] /\ channels'[2] = channels[2]
      /\ ChannelAt(channels'[3], m, DefaultLimit, DefaultWindow)
      /\ Below(channels'[3].receivers["peer"], m)
      /\ Own \in DOMAIN channels'[3].receivers["peer"].windows
  BY <1>3, <1>5, <1>6 DEF Keeps
<1> HIDE DEF m
<1>10. Replayed'
  BY <1>1, <1>6, <1>7, <1>8, <1>9, ReplayedThird
<1> QED
  BY <1>4, <1>6, <1>10, ReplayedGoesOn

LEMMA ThirdLooks ==
  ASSUME ScriptsInv, Next, demo = 5, pc = 153
  PROVE  ScriptsInv'
<1> DEFINE n == Sent3
<1>1. /\ missed \in BOOLEAN /\ ~ missed /\ Replayed /\ Opened(3)
      /\ ChannelAt(channels[3], n, DefaultLimit, DefaultWindow)
      /\ Below(Peer(3), n) /\ Own \in DOMAIN Peer(3).windows
  BY ThirdAt
<1>2. Len(Script) = 156 /\ Now = Onto(Step("look"), 3)
  BY ReplayedScript
<1>3. Now.op = "look" /\ Now.on = 3
  BY <1>2 DEF Onto, Step
<1>4. where = "running" /\ LookAtWindow
  BY <1>2, <1>3, OpDecides
<1>5. DOMAIN channels[Now.on].receivers["peer"].windows # {}
  BY <1>1, <1>3 DEF Peer
<1>6. Passed /\ UNCHANGED <<channels, drawn>>
  BY <1>1, <1>4, <1>5, LookMoves
<1>7. n = Sent3' /\ pc \in 151 .. 155
  BY <1>6 DEF Passed, Sent3
<1> HIDE DEF n
<1>8. /\ channels' = [i \in 1 .. 3 |-> channels'[i]]
      /\ channels'[1] = channels[1] /\ channels'[2] = channels[2]
      /\ ChannelAt(channels'[3], n, DefaultLimit, DefaultWindow)
      /\ Below(channels'[3].receivers["peer"], n)
      /\ Own \in DOMAIN channels'[3].receivers["peer"].windows
  BY <1>1, <1>6 DEF Opened, Peer
<1>9. Replayed'
  BY <1>1, <1>6, <1>7, <1>8, ReplayedThird
<1> QED
  BY <1>4, <1>6, <1>9, ReplayedGoesOn

\* A record renumbered far ahead: it is refused, and the window does not move.
LEMMA ThirdPoisoned ==
  ASSUME ScriptsInv, Next, demo = 5, pc = 154
  PROVE  ScriptsInv'
<1> DEFINE k == 3  n == Sent3  m == n + 1  f == "seq"  x == SeqSpace \div 2  t == "text"
           c == channels[k]  r == c.receivers["peer"]  p == Protected(c, n, t)
           w == Attacked(p, Now.attack)
<1>1. /\ missed \in BOOLEAN /\ ~ missed /\ Replayed /\ Opened(3)
      /\ Sent3 \in Nat /\ Sent3 <= 3
      /\ ChannelAt(channels[3], Sent3, DefaultLimit, DefaultWindow)
      /\ Below(Peer(3), Sent3) /\ Own \in DOMAIN Peer(3).windows
  BY ThirdAt
<1>2. Len(Script) = 156 /\ Now = Onto(Poison, 3)
  BY ReplayedScript
<1>3. /\ Now.op = "probe" /\ Now.on = k /\ Now.to = "peer" /\ Now.payload = t
      /\ Now.n = -1 /\ Now.attack = Rewrite(f, x) /\ Now.wanted = AllVerdicts /\ Now.fatal = {}
  BY <1>2 DEF Onto, Poison, Probe, Step
<1>4. where = "running" /\ SendAndDeliver
  BY <1>2, <1>3, OpDecides
<1>5. /\ k \in Nat /\ k \in 1 .. k /\ k = 3 /\ 1 \in 1 .. k /\ 2 \in 1 .. k /\ 1 # k /\ 2 # k
      /\ n \in Nat /\ n < DefaultLimit /\ pc \in Nat
      /\ Opened(k) /\ ChannelAt(c, n, DefaultLimit, DefaultWindow)
      /\ Below(r, n) /\ Own \in DOMAIN r.windows
  BY <1>1, Limits DEF Peer
<1>6. x # n
  <2>1. n = 1
    BY DEF Sent3
  <2>2. SeqSpace >= 387 /\ SeqSpace \in Nat
    BY DemosAssumption, SeqSpaceAssumption
  <2> QED
    BY <2>1, <2>2
<1>7. p.header[f] = n
  <2>1. LET h == p.header
            b == p.body
        IN  /\ p = [header |-> h, body |-> b]
            /\ h = [version |-> 1, suite |-> suite, type |-> 1, session |-> 1, stream |-> 1,
                    prefix |-> c.sender.prefix, seq |-> n, len |-> PayloadLen[t]]
            /\ b = [key |-> "K", suite |-> suite, nonce |-> <<c.sender.prefix, n>>, aad |-> h,
                    payload |-> t, len |-> PayloadLen[t], intact |-> TRUE]
    <3> HIDE DEF n, c, t
    <3> QED
      BY ProtectedIs
  <2> HIDE DEF n, c, t, p
  <2> QED
    BY <2>1
<1>8. f \in Fields /\ w = Changed(p, f, x)
  BY <1>3, RewriteIs DEF Fields
<1>9. AlteredVerdict(r, w, n, f, x)
  <2> HIDE DEF w, r, x, c, n, f, t
  <2> QED
    BY <1>6, <1>7, <1>8, AlteredJudged
<1>10. Verdict(r, w) \in Rejected
  BY <1>9 DEF AlteredVerdict
<1>11. Verdict(r, w) # "ACCEPTED" /\ Verdict(r, w) \in AllVerdicts
  BY <1>10 DEF Rejected
<1>12. Received(r, w) = r
  BY <1>11 DEF Received
<1>13. SenderAt(c.sender, n, DefaultLimit) /\ ReceiversAt(c, DefaultWindow)
  BY <1>5 DEF ChannelAt
<1>14. ~ Exhausted(c.sender) /\ Reader(c, Now.to) = r /\ Now.to \in Readers
  <2>1. ~ Exhausted(c.sender)
    <3> HIDE DEF c, n
    <3> QED
      BY <1>5, <1>13, ExhaustedAt, Limits
  <2>2. Reader(c, "peer") = r
    <3> HIDE DEF c
    <3> QED
      BY <1>13, ReaderHolds
  <2> QED
    BY <1>3, <2>1, <2>2 DEF Readers
<1>15. Asked(Verdict(r, w), w.header.seq)
  BY <1>3, <1>11 DEF Asked
<1>16. w = Attacked(Protected(channels[k], n, Now.payload), Now.attack)
  BY <1>3
<1>17. /\ Asked(Verdict(Reader(c, Now.to), w), w.header.seq) => Passed
       /\ Now.skip = 0 => Through
       /\ drawn' = drawn /\ Keeps(k, k)
       /\ ChannelAt(channels'[k], n + 1, DefaultLimit, DefaultWindow) /\ Given(k, w)
  <2>1. Verdict(Reader(channels[k], Now.to), w) \notin Now.fatal
    BY <1>3
  <2> HIDE DEF w, p, n, k
  <2> QED
    BY <1>1, <1>3, <1>4, <1>5, <1>14, <1>16, <2>1, ProbeMoves, Limits
<1>18. Passed
  BY <1>14, <1>15, <1>17
<1>19. channels'[k].receivers["peer"] = r
  BY <1>3, <1>12, <1>17 DEF Given, Who
<1>20. m = Sent3' /\ pc \in 151 .. 155
  BY <1>18 DEF Passed, Sent3
<1>21. Below(r, m)
  BY <1>5 DEF Below
<1>22. /\ channels' = [i \in 1 .. 3 |-> channels'[i]]
       /\ channels'[1] = channels[1] /\ channels'[2] = channels[2]
       /\ ChannelAt(channels'[3], m, DefaultLimit, DefaultWindow)
       /\ Below(channels'[3].receivers["peer"], m)
       /\ Own \in DOMAIN channels'[3].receivers["peer"].windows
  <2> HIDE DEF r, w, n
  <2>1. ChannelAt(channels'[k], m, DefaultLimit, DefaultWindow)
    BY <1>17
  <2>2. Below(channels'[k].receivers["peer"], m)
        /\ Own \in DOMAIN channels'[k].receivers["peer"].windows
    BY <1>5, <1>19, <1>21
  <2> HIDE DEF m, k
  <2> QED
    BY <1>5, <1>17, <2>1, <2>2 DEF Keeps
<1> HIDE DEF m, w, x, n
<1>23. Replayed'
  BY <1>1, <1>18, <1>20, <1>22, ReplayedThird
<1> QED
  BY <1>4, <1>18, <1>23, ReplayedGoesOn

\* The first record once more, under another number: the peer, whose window shows the
\* number 0, cannot authenticate it.
LEMMA FirstRenumbered ==
  ASSUME ScriptsInv, Next, demo = 5, pc = 156
  PROVE  ScriptsInv'
<1> DEFINE k == 3  j == 1  n == 1  z == 0  f == "seq"  x == 999999  t == "text"
           c == channels[j]  r == c.receivers["peer"]  p == Protected(c, z, t)
           w == Attacked(p, Now.attack)
<1>1. /\ missed \in BOOLEAN /\ ~ missed /\ Replayed /\ Opened(k)
      /\ ChannelAt(channels[3], Sent3, DefaultLimit, DefaultWindow)
      /\ Below(Peer(3), Sent3) /\ Own \in DOMAIN Peer(3).windows
  BY ThirdAt
<1>2. Len(Script) = 156 /\ Now = Renumbered
  BY ReplayedScript
<1>3. /\ Now.op = "again" /\ Now.on = j /\ Now.to = "peer" /\ Now.n = 0 /\ ~ Now.still
      /\ Now.attack = Rewrite(f, x) /\ Now.wanted = {"AUTH_FAILED"} /\ Now.fatal = {"ACCEPTED"}
  BY <1>2 DEF Renumbered, NeedsReason, Again, Step
<1>4. where = "running" /\ DeliverAgain
  BY <1>2, <1>3, OpDecides
<1>5. ChannelAt(c, n, DefaultLimit, DefaultWindow) /\ Shows(r, 0, {0})
      /\ Second5At /\ Scattered(pc, Peer(2))
  <2>1. pc > 1 /\ pc # 2 /\ pc > 3 /\ pc > 105
    OBVIOUS
  <2> QED
    BY <1>1, <2>1 DEF Replayed, First, Peer
<1>6. p.header[f] = z /\ x # z
  <2>1. p.header = [version |-> 1, suite |-> suite, type |-> 1, session |-> 1, stream |-> 1,
                    prefix |-> c.sender.prefix, seq |-> z, len |-> PayloadLen[t]]
    <3> HIDE DEF z, c, t
    <3> QED
      BY ProtectedIs, ZenonT(30)
  <2>2. x # z
    OBVIOUS
  <2> HIDE DEF z, c, t, p, x
  <2> QED
    BY <2>1, <2>2
<1>7. f \in Fields /\ w = Changed(p, f, x)
  BY <1>3, RewriteIs DEF Fields
<1>8. AlteredVerdict(r, w, z, f, x)
  <2> HIDE DEF w, r, x, c, z, f, t
  <2> QED
    BY <1>6, <1>7, AlteredJudged
<1>9. /\ StreamKey(w.header) = Own /\ w.header.seq = x
      /\ Windows(r.size)!WindowCheck(WindowFor(r, Own), x) \notin {"DUPLICATE", "TOO_OLD"} =>
           Verdict(r, w) = "AUTH_FAILED"
  <2> HIDE DEF w, r, x
  <2>1. /\ StreamKey(w.header) = Own /\ w.header.seq = x
    BY <1>8 DEF AlteredVerdict
  <2> QED
    BY <1>8, <2>1 DEF AlteredVerdict
<1>10. Verdict(r, w) = "AUTH_FAILED"
  <2>1. x \in Nat
    OBVIOUS
  <2>2. Below(r, x)
    BY <1>5 DEF Below, Shows
  <2>3. r.size = DefaultWindow
    BY <1>5 DEF ChannelAt, ReceiversAt, Holds
  <2> HIDE DEF r, x, w
  <2>4. Replay(r, x) = "FRESH"
    BY <2>1, <2>2, <2>3, BelowIsFresh, Limits
  <2> QED
    BY <1>9, <2>4 DEF Replay
<1>11. Received(r, w) = r /\ Asked(Verdict(r, w), w.header.seq)
  BY <1>3, <1>10 DEF Received, Asked
<1>12. /\ w = Attacked(Protected(channels[j], IF Now.n < 0 THEN n - 1 ELSE Now.n, "text"),
                       Now.attack)
       /\ r = channels[j].receivers[Now.to] /\ Now.to \in Who /\ pc \in Nat
       /\ k \in Nat /\ j \in 1 .. k /\ 2 \in 1 .. k /\ 3 \in 1 .. k /\ j # 2 /\ j # 3 /\ k = 3
       /\ j = 1 /\ n \in Nat /\ n = 1
  BY <1>3 DEF Who
<1> HIDE DEF w, r, n, c, k, j, p
<1>13. /\ Passed /\ drawn' = drawn /\ Keeps(k, j)
       /\ ChannelAt(channels'[j], n, DefaultLimit, DefaultWindow)
       /\ \A y \in Who : channels'[j].receivers[y] =
            IF y = Now.to THEN Received(r, w) ELSE channels[j].receivers[y]
  <2>1. ChannelAt(channels[j], n, DefaultLimit, DefaultWindow)
    BY <1>5 DEF c
  <2> QED
    BY <1>1, <1>3, <1>4, <1>11, <1>12, <2>1, AgainSeen, Limits
<1>14. channels'[1].receivers["peer"] = r
  BY <1>3, <1>11, <1>12, <1>13
<1>15. channels' = [i \in 1 .. 3 |-> channels'[i]]
       /\ channels'[2] = channels[2] /\ channels'[3] = channels[3]
  BY <1>12, <1>13 DEF Keeps
<1>16. pc' = 157 /\ ~ missed'
  BY <1>1, <1>13 DEF Passed
<1>17. First(1)' /\ Shows(Peer(1), 0, {0})' /\ Opened(3)'
  BY <1>5, <1>12, <1>13, <1>14, <1>15 DEF First, Peer, Opened
<1>18. Second5At' /\ Scattered(pc, Peer(2))'
  <2>1. ~ pc <= 138 /\ ~ pc' <= 138
    BY <1>16
  <2>2. Shows(Peer(2), 19, {0, 7})
    BY <1>5 DEF Scattered
  <2>3. Second5At'
    BY <1>5, <1>15, <2>1 DEF Second5At
  <2>4. Scattered(157, Peer(2))
    BY <2>2 DEF Scattered
  <2>5. Scattered(157, channels'[2].receivers["peer"])
    BY <1>15, <2>4 DEF Peer
  <2> QED
    BY <1>16, <2>3, <2>5 DEF Peer
<1>19. ChannelAt(channels[3], Sent3, DefaultLimit, DefaultWindow)' /\ Below(Peer(3), Sent3)'
       /\ (Own \in DOMAIN Peer(3).windows)'
  <2>1. Sent3 = 3 /\ Sent3' = 3
    BY <1>16 DEF Sent3
  <2> QED
    BY <1>1, <1>15, <2>1 DEF Peer
<1>20. Replayed'
  <2>1. pc' # 1 /\ pc' > 1 /\ ~ pc' <= 105 /\ ~ pc' <= 151 /\ pc' # 2 /\ pc' \notin {2, 3}
    BY <1>16
  <2> QED
    BY <1>16, <1>17, <1>18, <1>19, <2>1 DEF Replayed
<1> QED
  BY <1>4, <1>13, <1>20, ReplayedGoesOn

LEMMA ReplayedStep ==
  ASSUME ScriptsInv, Next, demo = 5, pc <= Len(Script)
  PROVE  ScriptsInv'
<1>1. pc \in Nat \ {0} /\ Len(Script) = 156
  BY ReplayedScript DEF ScriptsInv
<1>2. CASE pc <= 104
  BY <1>2, FirstReplayed
<1>3. CASE pc \in 105 .. 150
  BY <1>3, SecondReplayed
<1>4. CASE pc = 151
  BY <1>4, ThirdOpens
<1>5. CASE pc \in {152, 155}
  BY <1>5, ThirdProbes
<1>6. CASE pc = 153
  BY <1>6, ThirdLooks
<1>7. CASE pc = 154
  BY <1>7, ThirdPoisoned
<1>8. CASE pc = 156
  BY <1>8, FirstRenumbered
<1>9. \/ pc <= 104 \/ pc \in 105 .. 150 \/ pc = 151 \/ pc \in {152, 155}
      \/ pc = 153 \/ pc = 154 \/ pc = 156
  BY <1>1
<1> QED
  BY <1>2, <1>3, <1>4, <1>5, <1>6, <1>7, <1>8, <1>9

(***************************************************************************)
(* TR-7                                                                    *)
(***************************************************************************)
LEMMA BudgetedScript ==
  ASSUME ScriptsInv, demo = 7
  PROVE  LET m == RangeAt(count)
             n == OpenAt(count)
             o == OverrunAt(count)
         IN  /\ Len(Script) = o + 5 /\ Now = Script[pc]
             /\ Script[1] = NewChannel
             /\ \A i \in 2 .. m - 1 : Script[i] = [Accepted EXCEPT !.n = i - 2]
             /\ Script[m] = Step("range")
             /\ \A i \in m + 1 .. n - 1 : Script[i] = Step("restart")
             /\ Script[n] = Onto(Open(DefaultWindow, SmallLimit), 2)
             /\ \A i \in n + 1 .. o - 1 : Script[i] = Onto(Step("send"), 2)
             /\ \A i \in o .. o + 5 : Script[i] = Onto(Step("overrun"), 2)
<1> DEFINE m == RangeAt(count)  n == OpenAt(count)  o == OverrunAt(count)
<1>1. suite \in Suites /\ count \in RecordCounts /\ count \in Int
  BY DemosAssumption DEF ScriptsInv
<1>2. Script = TR7(count)
  BY <1>1, ScriptIs
<1> HIDE DEF m, n, o
<1>3. LET w == TR7(count)
      IN  /\ Len(w) = o + 5
          /\ w[1] = NewChannel
          /\ \A i \in 2 .. m - 1 : w[i] = [Accepted EXCEPT !.n = i - 2]
          /\ w[m] = Step("range")
          /\ \A i \in m + 1 .. n - 1 : w[i] = Step("restart")
          /\ w[n] = Onto(Open(DefaultWindow, SmallLimit), 2)
          /\ \A i \in n + 1 .. o - 1 : w[i] = Onto(Step("send"), 2)
          /\ \A i \in o .. o + 5 : w[i] = Onto(Step("overrun"), 2)
  BY <1>1, TR7Steps DEF m, n, o
<1> QED
  BY <1>2, <1>3 DEF m, n, o, Now

LEMMA BudgetedPlaces ==
  ASSUME ScriptsInv, demo = 7
  PROVE  /\ count \in Int /\ pc \in Nat \ {0} /\ missed \in BOOLEAN /\ Budgeted
         /\ RangeAt(count) \in Nat /\ RangeAt(count) >= 2
         /\ RangeAt(count) > 2 => RangeAt(count) = count + 2
         /\ OpenAt(count) \in Nat /\ OpenAt(count) > RangeAt(count)
         /\ OverrunAt(count) \in Nat /\ OverrunAt(count) = OpenAt(count) + SmallLimit + 1
         /\ Len(Script) = OverrunAt(count) + 5
<1>1. count \in Int /\ pc \in Nat \ {0} /\ missed \in BOOLEAN /\ Budgeted
  BY DemosAssumption DEF ScriptsInv
<1>2. /\ RangeAt(count) \in Nat /\ RangeAt(count) >= 2
      /\ RangeAt(count) > 2 => RangeAt(count) = count + 2
  BY <1>1 DEF RangeAt, Records7
<1>3. OpenAt(count) \in Nat /\ OpenAt(count) > RangeAt(count)
  BY <1>2, Limits DEF OpenAt
<1>4. OverrunAt(count) \in Nat /\ OverrunAt(count) = OpenAt(count) + SmallLimit + 1
  BY <1>3, Limits DEF OverrunAt
<1> QED
  BY <1>1, <1>2, <1>3, <1>4, BudgetedScript

LEMMA BudgetedGoesOn ==
  ASSUME ScriptsInv, demo = 7, where = "running", Through, Budgeted'
  PROVE  ScriptsInv'
<1>1. demo \notin 1 .. 3 /\ demo \notin {4, 5, 6}
  OBVIOUS
<1> QED
  BY <1>1, GoesOn

\* The one way the program ends in an exception.
LEMMA BudgetedRaises ==
  ASSUME ScriptsInv, demo = 7, Raises, count \notin 1 .. DefaultLimit
  PROVE  ScriptsInv'
<1>1. demo \notin 1 .. 3 /\ demo \notin {4, 5, 6}
  OBVIOUS
<1>2. UNCHANGED <<suite, count, demo, pc, channels, drawn, missed>>
  BY DEF Raises
<1>3. Budgeted
  BY DEF ScriptsInv
<1>4. Budgeted'
  BY <1>2, <1>3 DEF Budgeted, Repeats, Opened, First, Peer
<1> QED
  BY <1>1, <1>2, <1>4 DEF ScriptsInv

\* The state of TR-7 after a step on its first channel, between the channels and on
\* its second one.
LEMMA BudgetedFirst ==
  ASSUME ScriptsInv, demo = 7, Passed, drawn' = drawn, pc < RangeAt(count),
         channels' = [i \in 1 .. 1 |-> channels'[i]],
         NEW n, n = pc - 1, ChannelAt(channels'[1], n, DefaultLimit, DefaultWindow),
         Below(channels'[1].receivers["peer"], n)
  PROVE  Budgeted'
<1> DEFINE m == RangeAt(count)  o == OpenAt(count)
<1>1. pc' = pc + 1 /\ missed' = missed /\ count' = count
  BY DEF Passed
<1>2. m' = m /\ o' = o /\ OverrunAt(count)' = OverrunAt(count)
  BY <1>1 DEF RangeAt, OpenAt, OverrunAt, Records7
<1>3. /\ pc \in Nat \ {0} /\ m \in Nat /\ o \in Nat /\ o > m
      /\ missed => Repeats
      /\ drawn \in Seq(Prefixes \X {0})
  BY BudgetedPlaces DEF Budgeted
<1>4. pc' # 1 /\ pc' <= o /\ ~ pc' > o /\ n = pc' - 2
  BY <1>1, <1>3
<1>5. Repeats' = Repeats
  BY DEF Repeats
<1>6. Opened(1)'
  BY DEF Opened
<1> HIDE DEF m, o
<1>7. First(pc - 2)' /\ Below(Peer(1), pc - 2)'
  BY <1>4 DEF First, Peer
<1> QED
  BY <1>1, <1>2, <1>3, <1>4, <1>5, <1>6, <1>7 DEF Budgeted, m, o

LEMMA BudgetedBetween ==
  ASSUME ScriptsInv, demo = 7, Through, channels' = channels,
         pc >= RangeAt(count), pc < OpenAt(count),
         drawn' \in Seq(Prefixes \X {0}), missed' => Repeats'
  PROVE  Budgeted'
<1> DEFINE m == RangeAt(count)  o == OpenAt(count)
<1>1. pc' = pc + 1 /\ count' = count
  BY DEF Through
<1>2. m' = m /\ o' = o /\ OverrunAt(count)' = OverrunAt(count)
  BY <1>1 DEF RangeAt, OpenAt, OverrunAt, Records7
<1>3. /\ pc \in Nat \ {0} /\ m \in Nat /\ m >= 2 /\ o \in Nat /\ o > m
  BY BudgetedPlaces
<1>4. pc' # 1 /\ pc' <= o /\ ~ pc' > o /\ ~ pc' <= m /\ pc # 1 /\ pc <= o
  BY <1>1, <1>3
<1>5. Opened(1)
  BY <1>4, BudgetedPlaces DEF Budgeted
<1>6. Opened(1)'
  BY <1>5 DEF Opened
<1> HIDE DEF m, o
<1> QED
  BY <1>1, <1>2, <1>3, <1>4, <1>6 DEF Budgeted, m, o

LEMMA BudgetedLast ==
  ASSUME ScriptsInv, demo = 7, Passed, drawn' = drawn, pc >= OpenAt(count),
         channels' = [i \in 1 .. 2 |-> channels'[i]],
         NEW n, n = (IF pc < OverrunAt(count) THEN pc - OpenAt(count) ELSE SmallLimit),
         ChannelAt(channels'[2], n, SmallLimit, DefaultWindow)
  PROVE  Budgeted'
<1> DEFINE m == RangeAt(count)  o == OpenAt(count)  v == OverrunAt(count)
<1>1. pc' = pc + 1 /\ missed' = missed /\ count' = count
  BY DEF Passed
<1>2. m' = m /\ o' = o /\ v' = v
  BY <1>1 DEF RangeAt, OpenAt, OverrunAt, Records7
<1>3. /\ pc \in Nat \ {0} /\ m \in Nat /\ o \in Nat /\ o > m /\ v \in Nat
      /\ missed => Repeats
      /\ drawn \in Seq(Prefixes \X {0})
  BY BudgetedPlaces DEF Budgeted
<1> HIDE DEF m, o, v
<1>4. pc' # 1 /\ ~ pc' <= o /\ ~ pc' <= m /\ n = IF pc' <= v THEN pc' - (o + 1) ELSE SmallLimit
  BY <1>1, <1>3 DEF o, v
<1>5. Repeats' = Repeats
  BY DEF Repeats
<1>6. Opened(2)'
  BY DEF Opened
<1> QED
  BY <1>1, <1>2, <1>3, <1>4, <1>5, <1>6 DEF Budgeted, m, o, v

\* A record of the first channel.  It raises only past the policy's budget.
LEMMA BudgetedProbes ==
  ASSUME ScriptsInv, Next, demo = 7, pc \in 2 .. RangeAt(count) - 1
  PROVE  ScriptsInv'
<1> DEFINE k == 1  n == pc - 2  m == pc - 1
<1>1. /\ count \in Int /\ pc \in Nat \ {0} /\ missed \in BOOLEAN /\ Budgeted
      /\ RangeAt(count) \in Nat /\ RangeAt(count) > 2 /\ RangeAt(count) = count + 2
      /\ OpenAt(count) > RangeAt(count) /\ OpenAt(count) \in Nat
      /\ Len(Script) \in Nat /\ pc <= Len(Script)
  BY BudgetedPlaces, Limits
<1>2. Now = [Accepted EXCEPT !.n = n]
  BY BudgetedScript
<1>3. /\ Now.op = "probe" /\ Now.on = k /\ Now.to = "peer" /\ Now.payload = "text"
      /\ Now.n = n /\ ~ Now.still /\ Now.attack = Unaltered
      /\ "ACCEPTED" \in Now.wanted \ Now.fatal
  BY <1>2 DEF Accepted, Probe, Step
<1>4. where = "running" /\ SendAndDeliver
  BY <1>1, <1>3, OpDecides
<1>5. pc > 1 /\ pc # 1 /\ pc <= RangeAt(count) /\ pc <= OpenAt(count) /\ pc < RangeAt(count)
  BY <1>1
<1>6. /\ k \in Nat /\ k \in 1 .. k /\ k = 1 /\ Opened(k)
      /\ n \in Nat /\ m = n + 1 /\ Now.payload \in Payloads
      /\ ChannelAt(channels[k], n, DefaultLimit, DefaultWindow) /\ Below(Peer(k), n)
  BY <1>1, <1>3, <1>5, ValuesAssumption DEF Budgeted, First
<1>7. SenderAt(channels[k].sender, n, DefaultLimit)
  BY <1>6 DEF ChannelAt
<1>8. m <= count /\ m = n + 1 /\ n \in Nat
  BY <1>1, <1>5
<1> HIDE DEF k
<1>9. CASE n >= DefaultLimit
  <2>1. Exhausted(channels[k].sender)
    <3> HIDE DEF n
    <3> QED
      BY <1>6, <1>7, <1>9, ExhaustedAt, Limits
  <2>2. Raises
    BY <1>3, <1>4, <2>1 DEF SendAndDeliver, Channel
  <2>3. count \notin 1 .. DefaultLimit
    BY <1>1, <1>8, <1>9, Limits
  <2> QED
    BY <2>2, <2>3, BudgetedRaises
<1>10. CASE ~ n >= DefaultLimit
  <2>1. n < DefaultLimit /\ Now.n \in {-1, n}
    BY <1>3, <1>6, <1>10, Limits
  <2>2. /\ Passed /\ drawn' = drawn /\ Keeps(k, k)
        /\ ChannelAt(channels'[k], n + 1, DefaultLimit, DefaultWindow)
        /\ Below(channels'[k].receivers["peer"], n + 1)
        /\ channels'[k].receivers["stranger"] = channels[k].receivers["stranger"]
        /\ Now.attack = Unaltered => Own \in DOMAIN channels'[k].receivers["peer"].windows
    <3> HIDE DEF n
    <3> QED
      BY <1>1, <1>3, <1>4, <1>6, <2>1, PeerProbe
  <2>3. /\ channels' = [i \in 1 .. 1 |-> channels'[i]]
        /\ ChannelAt(channels'[1], m, DefaultLimit, DefaultWindow)
        /\ Below(channels'[1].receivers["peer"], m)
    <3> HIDE DEF n, m
    <3> QED
      BY <1>6, <2>2 DEF Keeps
  <2>4. m = pc - 1
    OBVIOUS
  <2> HIDE DEF m
  <2>5. Budgeted'
    BY <1>5, <2>2, <2>3, <2>4, BudgetedFirst
  <2>6. Through
    BY <1>1, <2>2, PassedThrough
  <2> QED
    BY <1>4, <2>5, <2>6, BudgetedGoesOn
<1> QED
  BY <1>9, <1>10

\* One more nonce: either it repeats an earlier one, or there is one more value.
LEMMA DrawnAgain ==
  ASSUME NEW S, NEW seq \in Seq(S), NEW x \in S, NEW t, t = Append(seq, x),
         \/ \E i \in DOMAIN seq : seq[i] = x
         \/ Cardinality({seq[i] : i \in DOMAIN seq}) < Len(seq)
  PROVE  Cardinality({t[i] : i \in DOMAIN t}) < Len(t)
<1> DEFINE n == Len(seq)  R == {seq[i] : i \in DOMAIN seq}  Q == {t[i] : i \in DOMAIN t}
<1>1. n \in Nat /\ DOMAIN seq = 1 .. n
  BY LenProperties
<1>2. t \in Seq(S) /\ Len(t) = n + 1 /\ (\A i \in 1 .. n : t[i] = seq[i]) /\ t[n + 1] = x
  BY AppendProperties
<1>3. DOMAIN t = 1 .. n + 1
  BY <1>2, LenProperties
<1>4. Q = R \cup {x}
  <2>1. \A y \in Q : y \in R \cup {x}
    <3> SUFFICES ASSUME NEW i \in 1 .. n + 1 PROVE t[i] \in R \cup {x}
      BY <1>3
    <3>1. i \in 1 .. n \/ i = n + 1
      BY <1>1
    <3> QED
      BY <1>1, <1>2, <3>1
  <2>2. \A i \in 1 .. n : seq[i] = t[i] /\ i \in DOMAIN t
    BY <1>1, <1>2, <1>3
  <2>3. x = t[n + 1] /\ n + 1 \in DOMAIN t
    BY <1>1, <1>2, <1>3
  <2>4. \A y \in R \cup {x} : y \in Q
    BY <1>1, <2>2, <2>3
  <2> QED
    BY <2>1, <2>4
<1>5. IsFiniteSet(R) /\ Cardinality(R) \in Nat /\ Cardinality(R) <= n
  <2> DEFINE f == [i \in 1 .. n |-> seq[i]]
  <2>1. IsFiniteSet(1 .. n) /\ Cardinality(1 .. n) = n
    <3> DEFINE a == 1
    <3>1. a \in Int /\ n \in Int /\ a = 1 /\ (IF a > n THEN 0 ELSE n - a + 1) = n
      BY <1>1
    <3> HIDE DEF a, n
    <3>2. IsFiniteSet(a .. n) /\ Cardinality(a .. n) = IF a > n THEN 0 ELSE n - a + 1
      BY <3>1, FS_Interval
    <3> QED
      BY <3>1, <3>2
  <2>2. f \in Surjection(1 .. n, R)
    BY <1>1 DEF Surjection
  <2>3. IsFiniteSet(R) /\ Cardinality(R) <= Cardinality(1 .. n)
    <3> HIDE DEF f, R
    <3> QED
      BY <2>1, <2>2, FS_Surjection
  <2> QED
    BY <2>1, <2>3, FS_CardinalityType
<1> HIDE DEF R, Q, n
<1>6. CASE x \in R
  <2>1. Cardinality(Q) = Cardinality(R)
    BY <1>4, <1>6
  <2>2. Cardinality(Q) < n + 1
    BY <1>1, <1>5, <2>1
  <2>3. Cardinality(Q) < Len(t)
    BY <1>2, <2>2
  <2> QED
    BY <2>3 DEF Q
<1>7. CASE x \notin R
  <2>1. Cardinality(Q) = Cardinality(R) + 1
    BY <1>4, <1>5, <1>7, FS_AddElement
  <2>2. Cardinality(R) < n
    BY <1>7 DEF R, n
  <2>3. Cardinality(Q) < n + 1
    BY <1>1, <1>5, <2>1, <2>2
  <2>4. Cardinality(Q) < Len(t)
    BY <1>2, <2>3
  <2> QED
    BY <2>4 DEF Q
<1> QED
  BY <1>6, <1>7

\* The range of the numbers seen, and the restarts.
LEMMA BudgetedRestarts ==
  ASSUME ScriptsInv, Next, demo = 7, pc \in RangeAt(count) .. OpenAt(count) - 1
  PROVE  ScriptsInv'
<1> DEFINE m == RangeAt(count)  o == OpenAt(count)
<1>1. /\ count \in Int /\ pc \in Nat \ {0} /\ missed \in BOOLEAN /\ Budgeted
      /\ m \in Nat /\ m >= 2
      /\ o > m /\ o \in Nat
      /\ Len(Script) \in Nat /\ pc <= Len(Script)
  BY BudgetedPlaces, Limits
<1>2. pc >= m /\ pc < o /\ drawn \in Seq(Prefixes \X {0}) /\ (missed => Repeats)
  BY <1>1 DEF Budgeted
<1>3. CASE pc = m
  <2>1. Now = Step("range")
    BY <1>3, BudgetedScript
  <2>2. Now.op = "range"
    BY <2>1 DEF Step
  <2>3. where = "running" /\ ShowRange
    BY <1>1, <2>2, OpDecides
  <2>4. CASE count < 1
    <3>1. Raises
      BY <2>3, <2>4 DEF ShowRange
    <3>2. count \notin 1 .. DefaultLimit
      BY <1>1, <2>4
    <3> QED
      BY <3>1, <3>2, BudgetedRaises
  <2>5. CASE ~ count < 1
    <3>1. Through /\ channels' = channels /\ drawn' = drawn /\ missed' = missed
      BY <1>1, <2>3, <2>5 DEF ShowRange, Goes, Through
    <3>2. Repeats' = Repeats
      BY <3>1 DEF Repeats
    <3>3. Budgeted'
      BY <1>2, <3>1, <3>2, BudgetedBetween
    <3> QED
      BY <2>3, <3>1, <3>3, BudgetedGoesOn
  <2> QED
    BY <2>4, <2>5
<1>4. CASE pc > m
  <2>1. Now = Step("restart")
    <3>1. pc \in m + 1 .. o - 1
      BY <1>1, <1>2, <1>4
    <3> QED
      BY <3>1, BudgetedScript
  <2>2. Now.op = "restart" /\ Now.skip = 0
    BY <2>1 DEF Step
  <2>3. where = "running" /\ RestartSender
    BY <1>1, <2>2, OpDecides
  <2>4. PICK prefix \in Prefixes :
          LET nonce == AllocatedNonce(NewManager(prefix, 0, DefaultLimit))
          IN  /\ drawn' = Append(drawn, nonce)
              /\ Goes(\A i \in DOMAIN drawn : drawn[i] # nonce)
    BY <2>3 DEF RestartSender
  <2> DEFINE nonce == AllocatedNonce(NewManager(prefix, 0, DefaultLimit))
             fresh == \A i \in DOMAIN drawn : drawn[i] # nonce
  <2>5. nonce \in Prefixes \X {0}
    BY DEF AllocatedNonce, NewManager, DeriveNonce
  <2>6. drawn' = Append(drawn, nonce) /\ Goes(fresh) /\ channels' = channels
    BY <2>3, <2>4 DEF RestartSender
  <2> HIDE DEF nonce
  <2>7. drawn' \in Seq(Prefixes \X {0})
    BY <1>2, <2>5, <2>6, AppendProperties
  <2>8. missed' => Repeats'
    <3> SUFFICES ASSUME missed' PROVE Repeats'
      OBVIOUS
    <3>1. missed \/ ~ fresh
      BY <2>6 DEF Goes
    <3>2. \/ \E i \in DOMAIN drawn : drawn[i] = nonce
          \/ Cardinality({drawn[i] : i \in DOMAIN drawn}) < Len(drawn)
      BY <1>2, <3>1 DEF Repeats
    <3>3. Cardinality({drawn'[i] : i \in DOMAIN drawn'}) < Len(drawn')
      <4> DEFINE S == Prefixes \X {0}  seq == drawn  t == drawn'
      <4>1. /\ seq \in Seq(S) /\ nonce \in S /\ t = Append(seq, nonce)
            /\ \/ \E i \in DOMAIN seq : seq[i] = nonce
               \/ Cardinality({seq[i] : i \in DOMAIN seq}) < Len(seq)
        BY <1>2, <2>5, <2>6, <3>2
      <4> HIDE DEF S, seq, t
      <4>2. Cardinality({t[i] : i \in DOMAIN t}) < Len(t)
        BY <4>1, DrawnAgain
      <4> QED
        BY <4>2 DEF t
    <3> QED
      BY <3>3 DEF Repeats
  <2> HIDE DEF fresh
  <2>9. Through
    BY <1>1, <2>2, <2>6 DEF Goes, Through
  <2>10. Budgeted'
    BY <1>2, <2>6, <2>7, <2>8, <2>9, BudgetedBetween
  <2> QED
    BY <2>3, <2>9, <2>10, BudgetedGoesOn
<1> QED
  BY <1>1, <1>2, <1>3, <1>4

\* The second channel: its small budget, and the sends past it.
LEMMA BudgetedOverruns ==
  ASSUME ScriptsInv, Next, demo = 7, pc >= OpenAt(count), pc <= Len(Script)
  PROVE  ScriptsInv'
<1> DEFINE m == RangeAt(count)  o == OpenAt(count)  v == OverrunAt(count)
<1>1. /\ count \in Int /\ pc \in Nat \ {0} /\ missed \in BOOLEAN /\ Budgeted
      /\ m \in Nat /\ m >= 2 /\ o > m /\ o \in Nat /\ v \in Nat /\ v = o + SmallLimit + 1
      /\ Len(Script) = v + 5 /\ Len(Script) \in Nat
  BY BudgetedPlaces
<1>2. /\ Script[o] = Onto(Open(DefaultWindow, SmallLimit), 2) /\ Now = Script[pc]
      /\ \A i \in o + 1 .. v - 1 : Script[i] = Onto(Step("send"), 2)
      /\ \A i \in v .. v + 5 : Script[i] = Onto(Step("overrun"), 2)
  BY BudgetedScript
<1>3. ASSUME where = "running", Passed, drawn' = drawn,
             channels' = [i \in 1 .. 2 |-> channels'[i]],
             NEW n, n = (IF pc < v THEN pc - o ELSE SmallLimit),
             ChannelAt(channels'[2], n, SmallLimit, DefaultWindow)
      PROVE  ScriptsInv'
  <2>1. Budgeted'
    BY <1>3, BudgetedLast
  <2>2. Through
    BY <1>1, <1>3, PassedThrough
  <2> QED
    BY <1>3, <2>1, <2>2, BudgetedGoesOn
<1>4. CASE pc = o
  <2> DEFINE k == 1  n == 0
  <2>1. Now.op = "open" /\ Now.n = SmallLimit /\ Now.size = DefaultWindow
    BY <1>2, <1>4, ZenonT(30) DEF Onto, Open, Step
  <2>2. where = "running" /\ OpenChannel
    BY <1>1, <2>1, OpDecides
  <2>3. k \in Nat /\ Opened(k) /\ k + 1 = 2
    BY <1>1, <1>4 DEF Budgeted
  <2>4. n = IF pc < v THEN pc - o ELSE SmallLimit
    BY <1>1, <1>4, Limits
  <2> HIDE DEF k
  <2>5. /\ Passed /\ drawn' = drawn
        /\ channels' = [i \in 1 .. k + 1 |-> channels'[i]]
        /\ \A i \in 1 .. k : channels'[i] = channels[i]
        /\ ChannelAt(channels'[k + 1], 0, SmallLimit, DefaultWindow)
        /\ channels'[k + 1].sender.prefix \in Prefixes
        /\ Untouched(channels'[k + 1].receivers["peer"])
        /\ Untouched(channels'[k + 1].receivers["stranger"])
    BY <1>1, <2>1, <2>2, <2>3, NewChannelMoves
  <2>6. channels' = [i \in 1 .. 2 |-> channels'[i]]
        /\ ChannelAt(channels'[2], n, SmallLimit, DefaultWindow)
    BY <2>3, <2>5
  <2> HIDE DEF n
  <2> QED
    BY <1>3, <2>2, <2>4, <2>5, <2>6
<1>5. ASSUME pc > o
      PROVE  /\ Opened(2)
             /\ ChannelAt(channels[2], IF pc <= v THEN pc - (o + 1) ELSE SmallLimit,
                          SmallLimit, DefaultWindow)
  <2>1. pc # 1 /\ ~ pc <= o
    BY <1>1, <1>5
  <2> QED
    BY <1>1, <1>5, <2>1 DEF Budgeted
<1>6. CASE pc > o /\ pc < v
  <2> DEFINE k == 2  n == pc - (o + 1)  j == pc - o
  <2>1. Now = Onto(Step("send"), 2)
    <3>1. pc \in o + 1 .. v - 1
      BY <1>1, <1>6
    <3> HIDE DEF o, v
    <3> QED
      BY <1>2, <3>1
  <2>2. Now.op = "send" /\ Now.on = k
    BY <2>1 DEF Onto, Step
  <2>3. where = "running" /\ SendOnly
    BY <1>1, <2>2, OpDecides
  <2>4. /\ k \in Nat /\ k \in 1 .. k /\ k = 2 /\ n \in Nat /\ j = n + 1 /\ n < SmallLimit
        /\ n = IF pc <= v THEN pc - (o + 1) ELSE SmallLimit
        /\ j = IF pc < v THEN pc - o ELSE SmallLimit
    BY <1>1, <1>6, Limits
  <2>5. Opened(k) /\ ChannelAt(channels[k], n, SmallLimit, DefaultWindow)
    <3> HIDE DEF o, v, n
    <3> QED
      BY <1>5, <1>6, <2>4
  <2>6. SenderAt(channels[k].sender, n, SmallLimit)
    BY <2>5 DEF ChannelAt
  <2> HIDE DEF k, n, j
  <2>7. ~ Exhausted(channels[k].sender)
    BY <2>4, <2>6, ExhaustedAt, Limits
  <2>8. /\ Passed /\ drawn' = drawn /\ Keeps(k, k)
        /\ ChannelAt(channels'[k], n + 1, SmallLimit, DefaultWindow)
        /\ channels'[k].sender.prefix = channels[k].sender.prefix
        /\ channels'[k].receivers = channels[k].receivers
    BY <1>1, <2>2, <2>3, <2>4, <2>5, <2>7, SendMoves, Limits, SMTT(30)
  <2>9. channels' = [i \in 1 .. 2 |-> channels'[i]]
        /\ ChannelAt(channels'[2], j, SmallLimit, DefaultWindow)
    BY <2>4, <2>8 DEF Keeps
  <2> QED
    BY <1>3, <2>3, <2>4, <2>8, <2>9
<1>7. CASE pc >= v
  <2> DEFINE k == 2  n == SmallLimit
  <2>1. Now = Onto(Step("overrun"), 2)
    <3>1. pc \in v .. v + 5
      BY <1>1, <1>7
    <3> HIDE DEF o, v
    <3> QED
      BY <1>2, <3>1
  <2>2. Now.op = "overrun" /\ Now.on = k
    BY <2>1 DEF Onto, Step
  <2>3. where = "running" /\ Overrun
    BY <1>1, <2>2, OpDecides
  <2>4. /\ k \in Nat /\ k \in 1 .. k /\ k = 2 /\ n \in Nat /\ pc > o
        /\ n = IF pc <= v THEN pc - (o + 1) ELSE SmallLimit
        /\ n = IF pc < v THEN pc - o ELSE SmallLimit
    BY <1>1, <1>7, Limits
  <2>5. Opened(k) /\ ChannelAt(channels[k], n, SmallLimit, DefaultWindow)
    <3> HIDE DEF o, v, n
    <3> QED
      BY <1>5, <2>4
  <2>6. SenderAt(channels[k].sender, n, SmallLimit) /\ ReceiversAt(channels[k], DefaultWindow)
    BY <2>5 DEF ChannelAt
  <2>7. Exhausted(channels[k].sender)
    <3> DEFINE l == SmallLimit
    <3>1. n >= l /\ l \in Nat /\ SenderAt(channels[k].sender, n, l)
      BY <2>4, <2>6
    <3> HIDE DEF n, l, k
    <3> QED
      BY <2>4, <3>1, ExhaustedAt
  <2> HIDE DEF k
  <2>8. Passed /\ UNCHANGED <<channels, drawn>>
    BY <1>1, <2>2, <2>3, <2>4, <2>5, <2>6, <2>7, OverrunMoves
  <2>9. channels' = [i \in 1 .. 2 |-> channels'[i]]
        /\ ChannelAt(channels'[2], n, SmallLimit, DefaultWindow)
    BY <2>4, <2>5, <2>8 DEF Opened
  <2> HIDE DEF n
  <2> QED
    BY <1>3, <2>3, <2>4, <2>8, <2>9
<1> QED
  BY <1>1, <1>4, <1>6, <1>7

LEMMA BudgetedStep ==
  ASSUME ScriptsInv, Next, demo = 7, pc <= Len(Script)
  PROVE  ScriptsInv'
<1>1. /\ pc \in Nat \ {0} /\ missed \in BOOLEAN /\ Budgeted
      /\ RangeAt(count) \in Nat /\ RangeAt(count) >= 2
      /\ OpenAt(count) \in Nat /\ OpenAt(count) > RangeAt(count)
      /\ OverrunAt(count) \in Nat /\ Len(Script) = OverrunAt(count) + 5
  BY BudgetedPlaces
<1>2. CASE pc = 1
  <2>1. /\ Opened(0) /\ Script[1] = NewChannel /\ Len(Script) \in Nat \ {0}
    BY <1>1, <1>2, BudgetedScript DEF Budgeted
  <2>2. /\ where = "running" /\ Passed /\ drawn' = drawn
        /\ channels' = [i \in 1 .. 1 |-> channels'[i]]
        /\ ChannelAt(channels'[1], 0, DefaultLimit, DefaultWindow)
        /\ channels'[1].sender.prefix \in Prefixes
        /\ Untouched(channels'[1].receivers["peer"])
        /\ Untouched(channels'[1].receivers["stranger"])
    BY <1>1, <1>2, <2>1, FirstOpens
  <2>3. Below(channels'[1].receivers["peer"], 0)
    BY <2>2, UntouchedBelow
  <2>4. 0 = pc - 1 /\ pc < RangeAt(count)
    BY <1>1, <1>2
  <2>5. Budgeted'
    BY <2>2, <2>3, <2>4, BudgetedFirst
  <2>6. Through
    BY <1>1, <2>2, PassedThrough
  <2> QED
    BY <2>2, <2>5, <2>6, BudgetedGoesOn
<1>3. CASE pc \in 2 .. RangeAt(count) - 1
  BY <1>3, BudgetedProbes
<1>4. CASE pc \in RangeAt(count) .. OpenAt(count) - 1
  BY <1>4, BudgetedRestarts
<1>5. CASE pc >= OpenAt(count)
  BY <1>5, BudgetedOverruns
<1> QED
  BY <1>1, <1>2, <1>3, <1>4, <1>5

(***************************************************************************)
(* The scripts together                                                    *)
(***************************************************************************)
Starts ==
  /\ suite \in Suites /\ count \in RecordCounts /\ demo \in 1 .. 7 /\ pc = 1
  /\ where # "raised" /\ channels = <<>> /\ drawn = <<>> /\ missed = FALSE

LEMMA StartsInv == Starts => ScriptsInv
<1> SUFFICES ASSUME Starts PROVE ScriptsInv
  OBVIOUS
<1> USE DEF Starts
<1>1. Opened(0)
  BY DEF Opened
<1>2. drawn \in Seq(Prefixes \X {0})
  OBVIOUS
<1>3. count \in Int
  BY DemosAssumption
<1>4. pc <= OpenAt(count) /\ ~ pc > OpenAt(count) /\ ~ pc > 1
  <2>1. RangeAt(count) \in Int /\ RangeAt(count) >= 2
    BY <1>3 DEF RangeAt, Records7
  <2> QED
    BY <2>1, Limits DEF OpenAt
<1>5. Steady /\ Swept /\ Keyed
  BY <1>1 DEF Steady, Swept, Keyed
<1>6. Replayed
  BY <1>1 DEF Replayed
<1>7. Budgeted
  BY <1>1, <1>2, <1>4 DEF Budgeted
<1>8. pc \in Nat \ {0}
  OBVIOUS
<1>9. missed \in BOOLEAN
  OBVIOUS
<1> QED
  BY <1>5, <1>6, <1>7, <1>8, <1>9 DEF ScriptsInv

LEMMA NextKeeps ==
  ASSUME ScriptsInv, Next
  PROVE  ScriptsInv'
<1>1. /\ suite \in Suites /\ count \in RecordCounts /\ demo \in 1 .. 7
      /\ (where = "raised" => demo = 7 /\ count \notin 1 .. DefaultLimit)
  BY DEF ScriptsInv
<1>2. EndDemo \/ pc <= Len(Script)
  BY DEF Next, OpenChannel, SendOnly, SendAndDeliver, DeliverAgain, LookAtWindow, ShowRange,
         RestartSender, Overrun, Doing
<1>3. CASE EndDemo
  <2>1. Starts'
    BY <1>1, <1>3 DEF EndDemo, Starts
  <2> QED
    BY <2>1, StartsInv, PTL
<1>4. CASE pc <= Len(Script)
  <2>1. CASE demo \in 1 .. 3
    BY <1>4, <2>1, SteadyStep
  <2>2. CASE demo = 4
    BY <1>4, <2>2, SweptStep
  <2>3. CASE demo = 5
    BY <1>4, <2>3, ReplayedStep
  <2>4. CASE demo = 6
    BY <1>4, <2>4, KeyedStep
  <2>5. CASE demo = 7
    BY <1>4, <2>5, BudgetedStep
  <2> QED
    BY <1>1, <2>1, <2>2, <2>3, <2>4, <2>5
<1> QED
  BY <1>2, <1>3, <1>4

\* The inductive invariant: at every step of every script the sender has sent as many
\* records as the script has asked for, the peer's windows show the numbers accepted
\* so far and nothing later, and receivers that do not hold the key have accepted
\* nothing.
THEOREM ScriptsInvariant == Spec => []ScriptsInv
<1>1. Init => ScriptsInv
  <2>1. Init => Starts
    BY DEF Init, Starts
  <2> QED
    BY <2>1, StartsInv
<1>2. ScriptsInv /\ [Next]_vars => ScriptsInv'
  <2>1. CASE Next
    BY <2>1, NextKeeps
  <2>2. ASSUME ScriptsInv, UNCHANGED vars
        PROVE  ScriptsInv'
    <3>1. UNCHANGED <<suite, count, demo, pc, where, channels, drawn, missed>>
      BY <2>2 DEF vars
    <3>2. (Steady <=> Steady') /\ (Swept <=> Swept')
      BY <3>1 DEF Steady, Swept, First, Peer, Opened
    <3>3. (Keyed <=> Keyed')
      BY <3>1 DEF Keyed, First, Peer, Stranger, Sent6, Opened
    <3>4. (Replayed <=> Replayed')
      BY <3>1 DEF Replayed, First, Peer, Second5At, Sent3, Scattered, Opened
    <3>5. (Budgeted <=> Budgeted')
      BY <3>1 DEF Budgeted, First, Peer, Opened, Repeats
    <3> QED
      BY <2>2, <3>1, <3>2, <3>3, <3>4, <3>5 DEF ScriptsInv
  <2> QED
    BY <2>1, <2>2
<1> QED
  BY <1>1, <1>2, PTL DEF Spec

\* A testing requirement is reported as failed by chance only, whatever the suite, the
\* count of records, the payloads, the prefixes and the bits flipped: TR-4 drew the
\* prefix it writes (run_demo.py:355), or two restarts of TR-7 drew the same one
\* (737-741).
THEOREM FailsOnlyByChance == Spec => []FailsByChanceOnly
<1>1. ScriptsInv => FailsByChanceOnly
  <2> SUFFICES ASSUME ScriptsInv, missed PROVE
        \/ demo = 4 /\ channels[1].sender.prefix = DeadBeef
        \/ demo = 7 /\ Cardinality({drawn[i] : i \in DOMAIN drawn}) < Len(drawn)
    BY DEF FailsByChanceOnly
  <2>1. demo \in 1 .. 7
    BY DEF ScriptsInv
  <2>2. demo \in {4, 7}
    BY <2>1 DEF ScriptsInv, Steady, Replayed, Keyed
  <2>3. CASE demo = 4
    BY <2>3 DEF ScriptsInv, Swept
  <2>4. CASE demo = 7
    BY <2>4 DEF ScriptsInv, Budgeted, Repeats
  <2> QED
    BY <2>2, <2>3, <2>4
<1> QED
  BY <1>1, ScriptsInvariant, PTL

\* The program ends in an exception for its count of records only: every verdict a
\* script meets is one its narration has words for (205, 474, 522), and every window
\* it looks at is there (495, 505).
THEOREM RaisesOnlyForRecords == Spec => []RaisesForRecordsOnly
<1>1. ScriptsInv => RaisesForRecordsOnly
  BY DEF ScriptsInv, RaisesForRecordsOnly
<1> QED
  BY <1>1, ScriptsInvariant, PTL
=============================================================================

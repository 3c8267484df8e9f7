----------------------------- MODULE WireProofs -----------------------------
(***************************************************************************)
(* Proofs about WireFormat for every number base, every width of the       *)
(* fields, every limit on the payload and any number of changes on the     *)
(* way: those of the code (256; 16, 4, 4, 8, 4 and 16 bytes) among them.   *)
(***************************************************************************)
EXTENDS WireFormat, SequenceTheorems, WellFoundedInduction, TLAPS

(***************************************************************************)
(* Induction and recursion over the numbers                                *)
(***************************************************************************)
\* A set of numbers that is not empty has a least one.
LEMMA LeastNumber ==
  ASSUME NEW T, T \subseteq Nat, T # {}
  PROVE  \E x \in T : \A y \in T : x <= y
<1> DEFINE Less == {ss \in Nat \X Nat : ss[1] < ss[2]}
<1>1. IsWellFoundedOn(Less, Nat)
  BY NatLessThanWellFounded DEF OpToRel
<1>2. \E x \in T : \A y \in T : <<y, x>> \notin Less
  <2> HIDE DEF Less
  <2> QED
    BY <1>1, WFMin
<1>3. \A x, y \in Nat : <<y, x>> \in Less <=> y < x
  OBVIOUS
<1> HIDE DEF Less
<1>4. \A x, y \in T : <<y, x>> \notin Less => x <= y
  BY <1>3
<1> QED
  BY <1>2, <1>4

\* A set that has 0, and with every number the next one, has them all.
LEMMA InductionOnNat ==
  ASSUME NEW S, 0 \in S, \A n \in Nat : n \in S => n + 1 \in S
  PROVE  Nat \subseteq S
<1> SUFFICES ASSUME NEW m \in Nat \ S PROVE FALSE
  OBVIOUS
<1>1. PICK x \in Nat \ S : \A y \in Nat \ S : x <= y
  BY LeastNumber
<1>2. x - 1 \in Nat
  BY <1>1
<1>3. x - 1 \in S
  BY <1>1, <1>2
<1>4. (x - 1) + 1 = x
  BY <1>1
<1> QED
  BY <1>1, <1>2, <1>3, <1>4

\* A value given for 0, and for each number from the one before, is given for all.
Recursion(f, a, g) ==
  /\ f = [n \in Nat |-> f[n]]
  /\ f[0] = a
  /\ \A n \in Nat : f[n + 1] = g[<<n + 1, f[n]>>]

Solution(a, g) == CHOOSE f : Recursion(f, a, g)

LEMMA RecursionSolved == ASSUME NEW a, NEW g PROVE Recursion(Solution(a, g), a, g)
<1> DEFINE Value(f, m) == IF m = 0 THEN a ELSE g[<<m, f[m - 1]>>]
           Upto(f, n) == \A m \in 0 .. n : f[m] = Value(f, m)
           P == {n \in Nat : \E f : Upto(f, n)}
           Chosen(n) == CHOOSE f : Upto(f, n)
           F == [n \in Nat |-> Chosen(n)[n]]
<1>1. 0 \in P
  <2> DEFINE f == [m \in Nat |-> a]
  <2>1. Upto(f, 0)
    OBVIOUS
  <2> HIDE DEF f
  <2> QED
    BY <2>1
<1>2. ASSUME NEW n \in Nat, n \in P PROVE n + 1 \in P
  <2>1. PICK f : Upto(f, n)
    BY <1>2
  <2> DEFINE e == [m \in Nat |-> IF m = n + 1 THEN g[<<n + 1, f[n]>>] ELSE f[m]]
  <2>2. ASSUME NEW m \in 0 .. n + 1 PROVE e[m] = Value(e, m)
    <3>1. CASE m = n + 1
      <4>1. e[m] = g[<<m, f[n]>>] /\ m # 0 /\ m - 1 = n /\ e[n] = f[n]
        BY <3>1
      <4> QED
        BY <4>1
    <3>2. CASE m \in 0 .. n
      <4>1. f[m] = Value(f, m) /\ e[m] = f[m]
        BY <2>1, <3>2
      <4>2. m # 0 => e[m - 1] = f[m - 1]
        BY <3>2
      <4> QED
        BY <4>1, <4>2
    <3> QED
      BY <3>1, <3>2
  <2> HIDE DEF e
  <2>3. Upto(e, n + 1)
    BY <2>2
  <2> QED
    BY <2>3
<1>3. \A n \in Nat : Upto(Chosen(n), n)
  <2>1. Nat \subseteq P
    <3> HIDE DEF P
    <3> QED
      BY <1>1, <1>2, InductionOnNat
  <2> HIDE DEF Upto
  <2> QED
    BY <2>1
\* Solutions up to different bounds agree below the smaller one.
<1>4. ASSUME NEW f, NEW e, NEW n \in Nat, Upto(f, n), Upto(e, n) PROVE f[n] = e[n]
  <2> DEFINE Q == {m \in Nat : m <= n => f[m] = e[m]}
  <2>1. 0 \in Q
    <3>1. 0 \in 0 .. n
      OBVIOUS
    <3>2. f[0] = a /\ e[0] = a
      BY <1>4, <3>1
    <3> QED
      BY <3>2
  <2>2. ASSUME NEW m \in Nat, m \in Q PROVE m + 1 \in Q
    <3> SUFFICES ASSUME m + 1 <= n PROVE f[m + 1] = e[m + 1]
      OBVIOUS
    <3>1. m + 1 \in 0 .. n /\ m + 1 # 0 /\ (m + 1) - 1 = m
      OBVIOUS
    <3>2. f[m + 1] = g[<<m + 1, f[m]>>] /\ e[m + 1] = g[<<m + 1, e[m]>>]
      BY <1>4, <3>1
    <3>3. f[m] = e[m]
      BY <2>2, <3>1
    <3> QED
      BY <3>2, <3>3
  <2>3. Nat \subseteq Q
    <3> HIDE DEF Q
    <3> QED
      BY <2>1, <2>2, InductionOnNat
  <2> QED
    BY <2>3
<1> HIDE DEF Chosen
<1>5. ASSUME NEW n \in Nat PROVE Chosen(n)[n] = Value(F, n)
  <2>1. 0 \in 0 .. n /\ n \in 0 .. n
    OBVIOUS
  <2>2. Chosen(n)[n] = Value(Chosen(n), n)
    BY <1>3, <2>1
  <2>3. CASE n = 0
    BY <2>2, <2>3
  <2>4. CASE n # 0
    <3>1. n - 1 \in Nat /\ \A m \in 0 .. n - 1 : m \in 0 .. n
      BY <2>4
    <3>2. Upto(Chosen(n), n)
      BY <1>3
    <3>3. Upto(Chosen(n), n - 1)
      BY <3>1, <3>2
    <3>4. Upto(Chosen(n - 1), n - 1)
      <4> HIDE DEF Upto
      <4> QED
        BY <1>3, <3>1
    <3> HIDE DEF Upto
    <3>5. Chosen(n)[n - 1] = Chosen(n - 1)[n - 1]
      BY <1>4, <3>1, <3>3, <3>4
    <3>6. F[n - 1] = Chosen(n - 1)[n - 1]
      BY <3>1
    <3> QED
      BY <2>2, <2>4, <3>5, <3>6
  <2> QED
    BY <2>3, <2>4
<1>6. F = [n \in Nat |-> F[n]] /\ F[0] = a
  BY <1>5
<1>7. ASSUME NEW n \in Nat PROVE F[n + 1] = g[<<n + 1, F[n]>>]
  <2>1. n + 1 \in Nat /\ n + 1 # 0 /\ (n + 1) - 1 = n
    OBVIOUS
  <2>2. F[n + 1] = Chosen(n + 1)[n + 1]
    BY <2>1
  <2> HIDE DEF F
  <2> QED
    BY <1>5, <2>1, <2>2
<1> HIDE DEF F
<1>8. Recursion(F, a, g)
  BY <1>6, <1>7 DEF Recursion
<1> QED
  BY <1>8 DEF Solution

(***************************************************************************)
(* The capacity of a field                                                 *)
(***************************************************************************)
LEMMA BaseTyped == Base \in Nat /\ Base > 1 /\ Base # 0
BY WireAssumption

LEMMA Capacities ==
  /\ Capacity[0] = 1
  /\ \A n \in Nat : Capacity[n] \in Nat \ {0} /\ Capacity[n + 1] = Base * Capacity[n]
<1> DEFINE g == [x \in Nat \X Int |-> Base * x[2]]
           Body(f) == [n \in Nat |-> IF n = 0 THEN 1 ELSE Base * f[n - 1]]
<1>0. \A n \in Nat : n + 1 \in Nat /\ n + 1 # 0 /\ (n + 1) - 1 = n
  OBVIOUS
<1>1. \A n \in Nat, x \in Int : g[<<n, x>>] = Base * x
  OBVIOUS
<1> HIDE DEF g
<1> DEFINE f == Solution(1, g)
<1>2. Recursion(f, 1, g)
  BY RecursionSolved
<1> HIDE DEF f
<1>3. /\ f = [n \in Nat |-> f[n]]
      /\ f[0] = 1 /\ \A n \in Nat : f[n + 1] = g[<<n + 1, f[n]>>]
  BY <1>2 DEF Recursion
<1>4. \A n \in Nat : f[n] \in Int
  <2> DEFINE P == {n \in Nat : f[n] \in Int}
  <2>1. 0 \in P
    BY <1>3
  <2>2. ASSUME NEW n \in Nat, n \in P PROVE n + 1 \in P
    <3>1. f[n + 1] = Base * f[n]
      BY <1>0, <1>1, <1>3, <2>2
    <3> QED
      BY <2>2, <3>1, BaseTyped
  <2>3. Nat \subseteq P
    <3> HIDE DEF P
    <3> QED
      BY <2>1, <2>2, InductionOnNat
  <2> QED
    BY <2>3
<1>5. f = Body(f)
  <2>1. ASSUME NEW n \in Nat PROVE f[n] = IF n = 0 THEN 1 ELSE Base * f[n - 1]
    <3>1. CASE n = 0
      BY <1>3, <3>1
    <3>2. CASE n # 0
      <4>1. n - 1 \in Nat /\ (n - 1) + 1 = n
        BY <3>2
      <4>2. f[n] = g[<<n, f[n - 1]>>] /\ f[n - 1] \in Int
        BY <1>3, <1>4, <4>1
      <4> QED
        BY <1>1, <3>2, <4>2
    <3> QED
      BY <3>1, <3>2
  <2>2. f = [n \in Nat |-> f[n]]
    BY <1>3
  <2> QED
    BY <2>1, <2>2
<1>6. Capacity = Body(Capacity)
  BY <1>5 DEF Capacity
<1>7. Capacity[0] = 1 /\ \A n \in Nat : Capacity[n + 1] = Base * Capacity[n]
  BY <1>0, <1>6
<1>8. \A n \in Nat : Capacity[n] \in Nat \ {0}
  <2> DEFINE P == {n \in Nat : Capacity[n] \in Nat \ {0}}
  <2>1. 0 \in P
    BY <1>7
  <2>2. ASSUME NEW n \in Nat, n \in P PROVE n + 1 \in P
    <3>1. Capacity[n + 1] = Base * Capacity[n]
      BY <1>7, <2>2
    <3> QED
      BY <2>2, <3>1, BaseTyped
  <2>3. Nat \subseteq P
    <3> HIDE DEF P
    <3> QED
      BY <2>1, <2>2, InductionOnNat
  <2> QED
    BY <2>3
<1> QED
  BY <1>7, <1>8

(***************************************************************************)
(* Quotients and rests                                                     *)
(***************************************************************************)
LEMMA Quotient ==
  ASSUME NEW m \in Nat \ {0}, NEW q \in Nat, NEW r \in Nat, r < m
  PROVE  (m * q + r) \div m = q /\ (m * q + r) % m = r
<1> DEFINE a == m * q + r
           d == a \div m
           e == a % m
<1>1. a \in Nat
  OBVIOUS
<1>2. d \in Int /\ e \in 0 .. m - 1 /\ a = m * d + e
  <2> HIDE DEF a
  <2> QED
    BY <1>1
<1>3. \A x \in Int : x >= 1 => m * x >= m
  OBVIOUS
<1>4. m * (q - d) = e - r
  <2>1. m * (q - d) = m * q - m * d
    BY <1>2
  <2> DEFINE u == m * q
             v == m * d
  <2>2. u \in Int /\ v \in Int /\ u + r = v + e
    BY <1>2
  <2> HIDE DEF u, v
  <2>3. u - v = e - r
    BY <1>2, <2>2
  <2> QED
    BY <2>1, <2>3 DEF u, v
<1>5. q = d
  <2>1. CASE q - d >= 1
    BY <1>2, <1>3, <1>4, <2>1
  <2>2. CASE d - q >= 1
    <3>1. m * (d - q) = r - e
      BY <1>2, <1>4
    <3> QED
      BY <1>2, <1>3, <2>2, <3>1
  <2> QED
    BY <1>2, <2>1, <2>2
<1>6. e = r
  BY <1>2, <1>5
<1> QED
  BY <1>5, <1>6

LEMMA Division ==
  ASSUME NEW n \in Nat, NEW m \in Nat \ {0}
  PROVE  n \div m \in Nat /\ n % m \in 0 .. m - 1 /\ n = m * (n \div m) + (n % m)
<1>1. n \div m \in Int /\ n % m \in 0 .. m - 1 /\ n = m * (n \div m) + (n % m)
  OBVIOUS
<1>2. \A x \in Int : x <= -1 => m * x <= -m
  OBVIOUS
<1>3. ~ (n \div m <= -1)
  BY <1>1, <1>2
<1> QED
  BY <1>1, <1>3

\* Dropping one digit more is dividing by the base once more.
LEMMA DropDigit ==
  ASSUME NEW n \in Nat, NEW k \in Nat
  PROVE  n \div Capacity[k + 1] = (n \div Capacity[k]) \div Base
<1> DEFINE c == Capacity[k]
           a == n \div c
           r == n % c
           b == a \div Base
           d == a % Base
<1>1. c \in Nat \ {0} /\ Capacity[k + 1] = Base * c /\ Base \in Nat \ {0}
  BY Capacities, BaseTyped
<1>2. a \in Nat /\ r \in 0 .. c - 1 /\ n = c * a + r
  <2> HIDE DEF c
  <2> QED
    BY <1>1, Division
<1>3. b \in Nat /\ d \in 0 .. Base - 1 /\ a = Base * b + d
  <2> HIDE DEF a
  <2> QED
    BY <1>1, <1>2, Division
<1> HIDE DEF c, a, r, b, d
<1>4. n = (Base * c) * b + (c * d + r)
  <2>1. c * a = (Base * c) * b + c * d
    BY <1>1, <1>3
  <2> DEFINE x == (Base * c) * b
             y == c * d
  <2>2. x \in Int /\ y \in Int
    BY <1>1, <1>3
  <2> HIDE DEF x, y
  <2>3. (x + y) + r = x + (y + r)
    BY <1>2, <2>2
  <2> QED
    BY <1>2, <2>1, <2>3 DEF x, y
<1>5. c * d + r \in Nat /\ c * d + r < Base * c
  <2>1. c * d <= c * (Base - 1)
    BY <1>1, <1>3
  <2>2. c * (Base - 1) = Base * c - c /\ Base * c \in Nat /\ c * d \in Nat
    BY <1>1, <1>3
  <2> DEFINE x == Base * c
             y == c * d
  <2>3. y <= x - c /\ x \in Nat /\ y \in Nat
    BY <2>1, <2>2
  <2> HIDE DEF x, y
  <2>4. y + r \in Nat /\ y + r < x
    BY <1>1, <1>2, <2>3
  <2> QED
    BY <2>4 DEF x, y
<1>6. Base * c \in Nat \ {0}
  BY <1>1
<1>7. n \div (Base * c) = b
  <2> DEFINE m == Base * c
             s == c * d + r
  <2>1. m \in Nat \ {0} /\ s \in Nat /\ s < m /\ n = m * b + s
    BY <1>4, <1>5, <1>6
  <2> HIDE DEF m, s
  <2>2. n \div m = b
    BY <1>3, <2>1, Quotient
  <2> QED
    BY <2>2 DEF m
<1> QED
  BY <1>1, <1>7 DEF a, b, c

\* A number the field can hold has no digits beyond it.
LEMMA NoMoreDigits ==
  ASSUME NEW k \in Nat, NEW n \in 0 .. Capacity[k] - 1
  PROVE  n \div Capacity[k] = 0
<1> DEFINE c == Capacity[k]
<1>1. c \in Nat \ {0} /\ n \in Nat /\ n < c
  BY Capacities
<1> HIDE DEF c
<1>2. c * 0 + n = n
  BY <1>1
<1>3. n \div c = 0
  BY <1>1, <1>2, Quotient
<1> QED
  BY <1>3 DEF c

(***************************************************************************)
(* Unpack: the value of the bytes read so far                              *)
(***************************************************************************)
\* The function Unpack defines: the number the first i bytes stand for.
ValueOf(bytes) ==
  CHOOSE value : value = [i \in 0 .. Len(bytes) |->
                            IF i = 0 THEN 0 ELSE value[i - 1] * Base + bytes[i]]

LEMMA UnpackIsValue == ASSUME NEW b PROVE Unpack(b) = ValueOf(b)[Len(b)]
BY DEF Unpack, ValueOf

LEMMA ValueUnfolds ==
  ASSUME NEW b \in Seq(Byte)
  PROVE  /\ ValueOf(b)[0] = 0
         /\ \A i \in 1 .. Len(b) : ValueOf(b)[i] = ValueOf(b)[i - 1] * Base + b[i]
<1> DEFINE Digit(i) == IF i \in 1 .. Len(b) THEN b[i] ELSE 0
           g == [x \in Nat \X Int |-> x[2] * Base + Digit(x[1])]
           Body(f) == [i \in 0 .. Len(b) |-> IF i = 0 THEN 0 ELSE f[i - 1] * Base + b[i]]
<1>1. Len(b) \in Nat /\ \A i \in 1 .. Len(b) : b[i] \in Byte
  BY LenProperties, ElementOfSeq
<1>2. \A i \in Nat : Digit(i) \in Int
  BY <1>1, BaseTyped DEF Byte
<1> HIDE DEF Digit
<1>3. \A i \in Nat, x \in Int : g[<<i, x>>] = x * Base + Digit(i)
  OBVIOUS
<1> HIDE DEF g
<1> DEFINE f == Solution(0, g)
<1>4. Recursion(f, 0, g)
  BY RecursionSolved
<1> HIDE DEF f
<1>5. f[0] = 0 /\ \A i \in Nat : f[i + 1] = g[<<i + 1, f[i]>>]
  BY <1>4 DEF Recursion
<1>6. \A i \in Nat : i + 1 \in Nat /\ i + 1 # 0 /\ (i + 1) - 1 = i
  OBVIOUS
<1>7. \A i \in Nat : f[i] \in Int
  <2> DEFINE P == {i \in Nat : f[i] \in Int}
  <2>1. 0 \in P
    BY <1>5
  <2>2. ASSUME NEW i \in Nat, i \in P PROVE i + 1 \in P
    <3>1. f[i + 1] = f[i] * Base + Digit(i + 1) /\ Digit(i + 1) \in Int
      BY <1>2, <1>3, <1>5, <1>6, <2>2
    <3> QED
      BY <2>2, <3>1, BaseTyped
  <2>3. Nat \subseteq P
    <3> HIDE DEF P
    <3> QED
      BY <2>1, <2>2, InductionOnNat
  <2> QED
    BY <2>3
<1> DEFINE v == [i \in 0 .. Len(b) |-> f[i]]
<1>8. v = Body(v)
  <2>1. ASSUME NEW i \in 0 .. Len(b)
        PROVE  v[i] = IF i = 0 THEN 0 ELSE v[i - 1] * Base + b[i]
    <3>1. CASE i = 0
      BY <1>5, <3>1
    <3>2. CASE i # 0
      <4>1. i - 1 \in Nat /\ i - 1 \in 0 .. Len(b) /\ (i - 1) + 1 = i /\ i \in 1 .. Len(b) /\ i \in Nat
        BY <1>1, <3>2
      <4>2. f[i] = f[i - 1] * Base + Digit(i)
        BY <1>3, <1>5, <1>7, <4>1
      <4>3. Digit(i) = b[i]
        BY <4>1 DEF Digit
      <4> QED
        BY <3>2, <4>1, <4>2, <4>3
    <3> QED
      BY <3>1, <3>2
  <2> QED
    BY <2>1
<1> HIDE DEF v
<1>9. ValueOf(b) = Body(ValueOf(b))
  BY <1>8 DEF ValueOf
<1> HIDE DEF v
<1>10. 0 \in 0 .. Len(b) /\ \A i \in 1 .. Len(b) : i \in 0 .. Len(b) /\ i # 0
  BY <1>1
<1> DEFINE w == ValueOf(b)
<1>11. w = Body(w)
  BY <1>9
<1> HIDE DEF w
<1>12. w[0] = 0 /\ \A i \in 1 .. Len(b) : w[i] = w[i - 1] * Base + b[i]
  BY <1>10, <1>11
<1> QED
  BY <1>12 DEF w

\* The first i bytes hold a number that fits a field of i bytes.
LEMMA ValueBound ==
  ASSUME NEW b \in Seq(Byte)
  PROVE  \A i \in 0 .. Len(b) : ValueOf(b)[i] \in 0 .. Capacity[i] - 1
<1> DEFINE v == ValueOf(b)
           P == {i \in Nat : i <= Len(b) => v[i] \in 0 .. Capacity[i] - 1}
<1>1. Len(b) \in Nat /\ \A i \in 1 .. Len(b) : b[i] \in 0 .. Base - 1
  BY LenProperties, ElementOfSeq DEF Byte
<1>2. v[0] = 0 /\ \A i \in 1 .. Len(b) : v[i] = v[i - 1] * Base + b[i]
  BY ValueUnfolds
<1> HIDE DEF v
<1>3. 0 \in P
  <2>1. v[0] = 0 /\ Capacity[0] = 1
    BY <1>2, Capacities
  <2>2. v[0] \in 0 .. Capacity[0] - 1
    BY <2>1
  <2> QED
    BY <2>2
<1>4. ASSUME NEW i \in Nat, i \in P PROVE i + 1 \in P
  <2> SUFFICES ASSUME i + 1 <= Len(b) PROVE v[i + 1] \in 0 .. Capacity[i + 1] - 1
    OBVIOUS
  <2>1. i + 1 \in 1 .. Len(b) /\ (i + 1) - 1 = i /\ i <= Len(b)
    BY <1>1
  <2>2. v[i + 1] = v[i] * Base + b[i + 1]
    BY <1>2, <2>1
  <2> DEFINE c == Capacity[i]
             x == v[i]
             d == b[i + 1]
  <2>3. c \in Nat \ {0} /\ Capacity[i + 1] = Base * c /\ x \in 0 .. c - 1 /\ d \in 0 .. Base - 1
    BY <1>1, <1>4, <2>1, Capacities
  <2> HIDE DEF c, x, d
  <2>4. x * Base <= (c - 1) * Base /\ x * Base \in Nat
    BY <2>3, BaseTyped
  <2>5. (c - 1) * Base = Base * c - Base /\ Base * c \in Nat
    BY <2>3, BaseTyped
  <2> DEFINE y == x * Base
             z == Base * c
  <2>6. y \in Nat /\ z \in Nat /\ y <= z - Base
    BY <2>4, <2>5
  <2> HIDE DEF y, z
  <2>7. y + d \in 0 .. z - 1
    BY <2>3, <2>6, BaseTyped
  <2> QED
    BY <2>2, <2>3, <2>7 DEF x, y, z, d
<1>5. Nat \subseteq P
  <2> HIDE DEF P
  <2> QED
    BY <1>3, <1>4, InductionOnNat
<1>6. \A i \in 0 .. Len(b) : i \in Nat /\ i <= Len(b)
  BY <1>1
<1> QED
  BY <1>5, <1>6 DEF v

LEMMA UnpackBound ==
  ASSUME NEW b \in Seq(Byte)
  PROVE  Unpack(b) \in 0 .. Capacity[Len(b)] - 1
<1>1. Len(b) \in 0 .. Len(b)
  BY LenProperties
<1> QED
  BY <1>1, ValueBound, UnpackIsValue

LEMMA PackTyped ==
  ASSUME NEW n \in Nat, NEW w \in Nat
  PROVE  /\ Pack(n, w) \in Seq(Byte) /\ Len(Pack(n, w)) = w
         /\ \A i \in 1 .. w : Pack(n, w)[i] = (n \div Capacity[w - i]) % Base
<1>1. ASSUME NEW i \in 1 .. w PROVE (n \div Capacity[w - i]) % Base \in Byte
  <2>1. w - i \in Nat
    OBVIOUS
  <2>2. Capacity[w - i] \in Nat \ {0}
    BY <2>1, Capacities
  <2>3. n \div Capacity[w - i] \in Nat
    BY <2>2, Division
  <2> QED
    BY <2>3, Division, BaseTyped DEF Byte
<1> DEFINE D(i) == (n \div Capacity[w - i]) % Base
           p == [i \in 1 .. w |-> D(i)]
<1>2. \A i \in 1 .. w : D(i) \in Byte
  BY <1>1
<1>3. Pack(n, w) = p
  BY DEF Pack
<1> HIDE DEF D
<1>4. p \in [1 .. w -> Byte]
  BY <1>2
<1>5. p \in Seq(Byte) /\ Len(p) = w
  BY <1>4
<1>6. \A i \in 1 .. w : p[i] = D(i)
  OBVIOUS
<1> QED
  BY <1>3, <1>5, <1>6 DEF D

(***************************************************************************)
(* Packing and unpacking are inverse to each other                         *)
(***************************************************************************)
\* What is packed into a field that can hold it is unpacked again.
LEMMA UnpackPack ==
  ASSUME NEW w \in Nat, NEW n \in 0 .. Capacity[w] - 1
  PROVE  Unpack(Pack(n, w)) = n
<1>1. n \in Nat
  BY Capacities
<1> DEFINE p == Pack(n, w)
<1>2. p \in Seq(Byte) /\ Len(p) = w /\ \A i \in 1 .. w : p[i] = (n \div Capacity[w - i]) % Base
  BY <1>1, PackTyped
<1> HIDE DEF p
<1> DEFINE v == ValueOf(p)
<1>3. v[0] = 0 /\ \A i \in 1 .. w : v[i] = v[i - 1] * Base + p[i]
  BY <1>2, ValueUnfolds
<1> HIDE DEF v
<1> DEFINE P == {i \in Nat : i <= w => v[i] = n \div Capacity[w - i]}
<1>4. 0 \in P
  <2>1. w - 0 = w
    OBVIOUS
  <2> QED
    BY <1>3, <2>1, NoMoreDigits
<1>5. ASSUME NEW i \in Nat, i \in P PROVE i + 1 \in P
  <2> SUFFICES ASSUME i + 1 <= w PROVE v[i + 1] = n \div Capacity[w - (i + 1)]
    OBVIOUS
  <2> DEFINE k == w - (i + 1)
             d == n \div Capacity[k]
  <2>1. i + 1 \in 1 .. w /\ (i + 1) - 1 = i /\ k \in Nat /\ k + 1 = w - i /\ i <= w
    OBVIOUS
  <2>2. v[i + 1] = v[i] * Base + p[i + 1] /\ p[i + 1] = d % Base
    BY <1>2, <1>3, <2>1
  <2>3. v[i] = n \div Capacity[k + 1]
    BY <1>5, <2>1
  <2>4. v[i] = d \div Base
    BY <1>1, <2>1, <2>3, DropDigit
  <2>5. Capacity[k] \in Nat \ {0}
    BY <2>1, Capacities
  <2>6. d \in Nat
    <3> HIDE DEF k
    <3> QED
      BY <1>1, <2>5, Division
  <2> HIDE DEF d
  <2>7. d = Base * (d \div Base) + (d % Base) /\ d \div Base \in Nat
    BY <2>6, BaseTyped, Division
  <2>8. (d \div Base) * Base = Base * (d \div Base)
    BY <2>7, BaseTyped
  <2>9. v[i + 1] = d
    BY <2>2, <2>4, <2>7, <2>8
  <2> QED
    BY <2>9 DEF d
<1>6. Nat \subseteq P
  <2> HIDE DEF P
  <2> QED
    BY <1>4, <1>5, InductionOnNat
<1>7. v[w] = n \div Capacity[0]
  <2>1. w - w = 0 /\ w <= w
    OBVIOUS
  <2> QED
    BY <1>6, <2>1
<1>8. n \div Capacity[0] = n
  <2>1. n \div 1 = n
    BY <1>1
  <2> QED
    BY <2>1, Capacities
<1> QED
  BY <1>2, <1>7, <1>8, UnpackIsValue DEF p, v

\* Unpacking loses nothing: the bytes of a field can be had back from its number.
LEMMA PackUnpack ==
  ASSUME NEW b \in Seq(Byte)
  PROVE  Pack(Unpack(b), Len(b)) = b
<1> DEFINE w == Len(b)
           v == ValueOf(b)
<1>1. w \in Nat /\ \A i \in 1 .. w : b[i] \in 0 .. Base - 1
  BY LenProperties, ElementOfSeq DEF Byte
<1>2. \A i \in 1 .. w : v[i] = v[i - 1] * Base + b[i]
  BY ValueUnfolds
<1>3. \A i \in 0 .. w : v[i] \in Nat
  <2>1. \A i \in 0 .. w : v[i] \in 0 .. Capacity[i] - 1
    BY ValueBound
  <2>2. \A i \in 0 .. w : Capacity[i] \in Nat
    <3>1. \A i \in 0 .. w : i \in Nat
      BY <1>1
    <3> QED
      BY <3>1, Capacities
  <2> HIDE DEF v, w
  <2> QED
    BY <2>1, <2>2
<1>4. Unpack(b) = v[w]
  BY UnpackIsValue
<1> HIDE DEF v, w
\* Reading one byte more and taking it off again.
<1>5. ASSUME NEW i \in 1 .. w PROVE v[i] \div Base = v[i - 1] /\ v[i] % Base = b[i]
  <2>1. i - 1 \in 0 .. w
    BY <1>1
  <2>2. v[i - 1] \in Nat /\ b[i] \in 0 .. Base - 1 /\ v[i] = v[i - 1] * Base + b[i]
    BY <1>1, <1>2, <1>3, <2>1
  <2>3. v[i - 1] * Base = Base * v[i - 1]
    BY <2>2, BaseTyped
  <2> DEFINE q == v[i - 1]
             r == b[i]
  <2>4. q \in Nat /\ r \in Nat /\ r < Base /\ v[i] = Base * q + r
    BY <2>2, <2>3, BaseTyped
  <2> HIDE DEF q, r
  <2>5. (Base * q + r) \div Base = q /\ (Base * q + r) % Base = r
    BY <2>4, BaseTyped, Quotient
  <2> QED
    BY <2>4, <2>5 DEF q, r
<1> DEFINE P == {k \in Nat : k <= w => v[w] \div Capacity[k] = v[w - k]}
<1>6. w \in 0 .. w
  BY <1>1
<1>7. 0 \in P
  <2>1. v[w] \div 1 = v[w]
    BY <1>3, <1>6
  <2>2. w - 0 = w
    BY <1>1
  <2>3. v[w] \div Capacity[0] = v[w - 0]
    BY <2>1, <2>2, Capacities
  <2> QED
    BY <2>3
<1>8. ASSUME NEW k \in Nat, k \in P PROVE k + 1 \in P
  <2> SUFFICES ASSUME k + 1 <= w PROVE v[w] \div Capacity[k + 1] = v[w - (k + 1)]
    OBVIOUS
  <2>1. k <= w /\ w - k \in 1 .. w /\ (w - k) - 1 = w - (k + 1)
    BY <1>1
  <2>2. v[w] \div Capacity[k] = v[w - k]
    BY <1>8, <2>1
  <2>3. v[w] \div Capacity[k + 1] = (v[w] \div Capacity[k]) \div Base
    BY <1>3, <1>6, DropDigit
  <2>4. v[w - k] \div Base = v[(w - k) - 1]
    BY <1>5, <2>1
  <2> QED
    BY <2>1, <2>2, <2>3, <2>4
<1>9. Nat \subseteq P
  <2> HIDE DEF P
  <2> QED
    BY <1>7, <1>8, InductionOnNat
<1>10. ASSUME NEW i \in 1 .. w PROVE (v[w] \div Capacity[w - i]) % Base = b[i]
  <2>1. w - i \in Nat /\ w - i <= w /\ w - (w - i) = i
    BY <1>1
  <2>2. v[w] \div Capacity[w - i] = v[i]
    BY <1>9, <2>1
  <2> QED
    BY <1>5, <2>2
<1> DEFINE p == Pack(v[w], w)
<1>11. p \in Seq(Byte) /\ Len(p) = w /\ \A i \in 1 .. w : p[i] = (v[w] \div Capacity[w - i]) % Base
  BY <1>1, <1>3, <1>6, PackTyped
<1> HIDE DEF p
<1>12. Len(p) = Len(b) /\ \A i \in 1 .. Len(p) : p[i] = b[i]
  BY <1>10, <1>11 DEF w
<1>13. p = b
  BY <1>11, <1>12, SeqEqual
<1> QED
  BY <1>4, <1>13 DEF p, w

(***************************************************************************)
(* Fields of a sequence of bytes                                           *)
(***************************************************************************)
LEMMA FieldTyped ==
  ASSUME NEW raw \in Seq(Byte), NEW skip \in Nat, NEW width \in Nat, skip + width <= Len(raw)
  PROVE  /\ Field(raw, skip, width) \in Seq(Byte)
         /\ Len(Field(raw, skip, width)) = width
         /\ \A i \in 1 .. width : Field(raw, skip, width)[i] = raw[skip + i]
<1> DEFINE m == skip + 1
           n == skip + width
<1>1. Len(raw) \in Nat /\ \A i \in 1 .. Len(raw) : raw[i] \in Byte
  BY LenProperties, ElementOfSeq
<1>2. m \in Int /\ n \in Int /\ \A i \in m .. n : i \in 1 .. Len(raw)
  BY <1>1
<1>3. \A i \in m .. n : raw[i] \in Byte
  BY <1>1, <1>2
<1>4. (IF m <= n THEN n - m + 1 ELSE 0) = width /\ n - m + 1 = width
  OBVIOUS
<1>5. \A i \in 1 .. width : m + i - 1 = skip + i
  OBVIOUS
<1> HIDE DEF m, n
<1>6. /\ SubSeq(raw, m, n) \in Seq(Byte)
      /\ Len(SubSeq(raw, m, n)) = IF m <= n THEN n - m + 1 ELSE 0
      /\ \A i \in 1 .. n - m + 1 : SubSeq(raw, m, n)[i] = raw[m + i - 1]
  BY <1>2, <1>3, SubSeqProperties
<1>7. Field(raw, skip, width) = SubSeq(raw, m, n)
  BY DEF Field, m, n
<1> QED
  BY <1>4, <1>5, <1>6, <1>7

\* What follows the field does not matter.
LEMMA FieldBefore ==
  ASSUME NEW x \in Seq(Byte), NEW z \in Seq(Byte), NEW skip \in Nat, NEW width \in Nat,
         skip + width <= Len(x)
  PROVE  Field(x \o z, skip, width) = Field(x, skip, width)
<1> DEFINE xz == x \o z
           f == Field(x, skip, width)
           g == Field(xz, skip, width)
<1>1. Len(x) \in Nat /\ Len(z) \in Nat
  BY LenProperties
<1>2. /\ xz \in Seq(Byte) /\ Len(xz) = Len(x) + Len(z)
      /\ \A i \in 1 .. Len(x) + Len(z) : xz[i] = IF i <= Len(x) THEN x[i] ELSE z[i - Len(x)]
  BY ConcatProperties
<1> HIDE DEF xz
<1>3. f \in Seq(Byte) /\ Len(f) = width /\ \A i \in 1 .. width : f[i] = x[skip + i]
  BY FieldTyped
<1>4. skip + width <= Len(xz)
  BY <1>1, <1>2
<1>5. g \in Seq(Byte) /\ Len(g) = width /\ \A i \in 1 .. width : g[i] = xz[skip + i]
  BY <1>2, <1>4, FieldTyped
<1> HIDE DEF f, g
<1>6. ASSUME NEW i \in 1 .. width PROVE xz[skip + i] = x[skip + i]
  <2>1. skip + i \in 1 .. Len(x) + Len(z) /\ skip + i <= Len(x)
    BY <1>1
  <2> QED
    BY <1>2, <2>1
<1>7. Len(g) = Len(f) /\ \A i \in 1 .. Len(g) : g[i] = f[i]
  BY <1>3, <1>5, <1>6
<1>8. g = f
  BY <1>3, <1>5, <1>7, SeqEqual
<1> QED
  BY <1>8 DEF f, g, xz

\* The field at the end is what was put there.
LEMMA FieldAtEnd ==
  ASSUME NEW x \in Seq(Byte), NEW y \in Seq(Byte)
  PROVE  Field(x \o y, Len(x), Len(y)) = y
<1> DEFINE xy == x \o y
           g == Field(xy, Len(x), Len(y))
<1>1. Len(x) \in Nat /\ Len(y) \in Nat
  BY LenProperties
<1>2. /\ xy \in Seq(Byte) /\ Len(xy) = Len(x) + Len(y)
      /\ \A i \in 1 .. Len(x) + Len(y) : xy[i] = IF i <= Len(x) THEN x[i] ELSE y[i - Len(x)]
  BY ConcatProperties
<1> HIDE DEF xy
<1>3. Len(x) + Len(y) <= Len(xy)
  BY <1>1, <1>2
<1>4. g \in Seq(Byte) /\ Len(g) = Len(y) /\ \A i \in 1 .. Len(y) : g[i] = xy[Len(x) + i]
  BY <1>1, <1>2, <1>3, FieldTyped
<1> HIDE DEF g
<1>5. ASSUME NEW i \in 1 .. Len(y) PROVE xy[Len(x) + i] = y[i]
  <2>1. Len(x) + i \in 1 .. Len(x) + Len(y) /\ ~ (Len(x) + i <= Len(x)) /\ (Len(x) + i) - Len(x) = i
    BY <1>1
  <2> QED
    BY <1>2, <2>1
<1>6. \A i \in 1 .. Len(g) : g[i] = y[i]
  BY <1>4, <1>5
<1>7. g = y
  BY <1>4, <1>6, SeqEqual
<1> QED
  BY <1>7 DEF g, xy

\* Two fields next to each other are one.
LEMMA FieldsJoin ==
  ASSUME NEW raw \in Seq(Byte), NEW m \in Nat, NEW w \in Nat, m + w <= Len(raw)
  PROVE  Field(raw, 0, m) \o Field(raw, m, w) = Field(raw, 0, m + w)
<1>1. Len(raw) \in Nat
  BY LenProperties
<1>2. 1 \in 1 .. Len(raw) + 1 /\ m \in 1 - 1 .. Len(raw) /\ m + w \in m .. Len(raw)
  BY <1>1
<1> DEFINE n == m + w
<1>3. n \in m .. Len(raw)
  BY <1>2
<1> HIDE DEF n
<1>4. SubSeq(raw, 1, m) \o SubSeq(raw, m + 1, n) = SubSeq(raw, 1, n)
  BY <1>2, <1>3, ConcatAdjacentSubSeq
<1>5. 0 + 1 = 1 /\ 0 + m = m /\ 0 + n = n
  BY <1>3
<1> QED
  BY <1>4, <1>5 DEF Field, n

LEMMA WholeField ==
  ASSUME NEW raw \in Seq(Byte)
  PROVE  Field(raw, 0, Len(raw)) = raw
<1>1. 0 + 1 = 1 /\ 0 + Len(raw) = Len(raw)
  BY LenProperties
<1> QED
  BY <1>1, SubSeqFull DEF Field

(***************************************************************************)
(* Headers                                                                 *)
(***************************************************************************)
LEMMA Widths ==
  /\ SessionLen \in Nat /\ StreamLen \in Nat /\ PrefixLen \in Nat /\ SeqLen \in Nat
  /\ LengthLen \in Nat /\ TagLen \in Nat /\ MaxPayloadLen \in Nat
  /\ HeaderLen \in Nat /\ HeaderLen >= 4
<1>1. /\ SessionLen \in Nat /\ StreamLen \in Nat /\ PrefixLen \in Nat /\ SeqLen \in Nat
      /\ LengthLen \in Nat /\ TagLen \in Nat /\ MaxPayloadLen \in Nat
  BY WireAssumption
<1> QED
  BY <1>1 DEF HeaderLen

\* The record-valued part of a header is four bytes.
LEMMA FourBytes ==
  ASSUME NEW a \in Byte, NEW b \in Byte, NEW c \in Byte, NEW d \in Byte
  PROVE  /\ <<a, b, c, d>> \in Seq(Byte) /\ Len(<<a, b, c, d>>) = 4
         /\ <<a, b, c, d>>[1] = a /\ <<a, b, c, d>>[2] = b
         /\ <<a, b, c, d>>[3] = c /\ <<a, b, c, d>>[4] = d
OBVIOUS

\* Parsing keeps every byte, known or not.
LEMMA KeepsBytes == ASSUME NEW b \in Byte PROVE KeptType(b) = b /\ KeptFlags(b) = b
<1>1. Base \in Nat /\ b \in 0 .. Base - 1
  BY BaseTyped DEF Byte
<1>2. b % Base = b
  <2>1. b \in Nat /\ b < Base /\ Base \in Nat \ {0} /\ Base * 0 + b = b
    BY <1>1
  <2>2. (Base * 0 + b) % Base = b
    BY <2>1, Quotient
  <2> QED
    BY <2>1, <2>2
<1> QED
  BY <1>2 DEF KeptType, KeptFlags

\* Reading a header and writing it again: every byte of it is there once, in its place.
LEMMA HeaderReserialised ==
  ASSUME NEW raw \in Seq(Byte), Len(raw) = HeaderLen
  PROVE  HeaderBytes(ParsedHeader(raw)) = raw
<1> DEFINE h  == ParsedHeader(raw)
           n1 == 4 + SessionLen
           n2 == n1 + StreamLen
           n3 == n2 + PrefixLen
           n4 == n3 + SeqLen
           n5 == n4 + LengthLen
<1>1. /\ n1 \in Nat /\ n2 \in Nat /\ n3 \in Nat /\ n4 \in Nat /\ n5 \in Nat /\ n5 = Len(raw)
      /\ 4 <= n1 /\ n1 <= n2 /\ n2 <= n3 /\ n3 <= n4 /\ n4 <= n5
  BY Widths DEF HeaderLen
<1>2. /\ h.version = raw[1] /\ h.suite = raw[2]
      /\ h.type = KeptType(raw[3]) /\ h.flags = KeptFlags(raw[4])
      /\ h.session = Field(raw, 4, SessionLen)
      /\ h.stream = Unpack(Field(raw, n1, StreamLen))
      /\ h.prefix = Field(raw, n2, PrefixLen)
      /\ h.seq = Unpack(Field(raw, n3, SeqLen))
      /\ h.length = Unpack(Field(raw, n4, LengthLen))
  BY DEF ParsedHeader
<1> HIDE DEF h
<1>3. <<h.version, h.suite, h.type, h.flags>> = Field(raw, 0, 4)
  <2>1. 0 + 4 <= Len(raw) /\ \A i \in 1 .. 4 : i \in 1 .. Len(raw) /\ 0 + i = i
    BY <1>1
  <2>2. \A i \in 1 .. 4 : raw[i] \in Byte
    BY <2>1, ElementOfSeq
  <2> DEFINE f == Field(raw, 0, 4)
             s == <<raw[1], raw[2], raw[3], raw[4]>>
  <2>3. f \in Seq(Byte) /\ Len(f) = 4 /\ \A i \in 1 .. 4 : f[i] = raw[i]
    <3> DEFINE z == 0
               four == 4
    <3>1. z \in Nat /\ four \in Nat /\ z + four <= Len(raw)
      BY <2>1
    <3> HIDE DEF z, four
    <3>2. /\ Field(raw, z, four) \in Seq(Byte) /\ Len(Field(raw, z, four)) = four
          /\ \A i \in 1 .. four : Field(raw, z, four)[i] = raw[z + i]
      BY <3>1, FieldTyped
    <3> QED
      BY <2>1, <3>2 DEF z, four
  <2> HIDE DEF f
  <2>4. 1 \in 1 .. 4 /\ 2 \in 1 .. 4 /\ 3 \in 1 .. 4 /\ 4 \in 1 .. 4
    OBVIOUS
  <2>5. raw[1] \in Byte /\ raw[2] \in Byte /\ raw[3] \in Byte /\ raw[4] \in Byte
    BY <2>2, <2>4
  <2>6. s \in Seq(Byte) /\ Len(s) = 4 /\ s[1] = raw[1] /\ s[2] = raw[2] /\ s[3] = raw[3] /\ s[4] = raw[4]
    BY <2>5, FourBytes
  <2> HIDE DEF s
  <2>7. \A i \in 1 .. 4 : i = 1 \/ i = 2 \/ i = 3 \/ i = 4
    OBVIOUS
  <2>8. \A i \in 1 .. 4 : s[i] = f[i]
    BY <2>3, <2>4, <2>6, <2>7
  <2>9. s = f
    BY <2>3, <2>6, <2>8, SeqEqual
  <2>10. h.type = raw[3] /\ h.flags = raw[4]
    BY <1>2, <2>5, KeepsBytes
  <2> QED
    BY <1>2, <2>9, <2>10 DEF f, s
<1>4. ASSUME NEW skip \in Nat, NEW width \in Nat, skip + width <= Len(raw)
      PROVE  Pack(Unpack(Field(raw, skip, width)), width) = Field(raw, skip, width)
  <2>1. Field(raw, skip, width) \in Seq(Byte) /\ Len(Field(raw, skip, width)) = width
    BY <1>4, FieldTyped
  <2> QED
    BY <2>1, PackUnpack
<1>5. Pack(h.stream, StreamLen) = Field(raw, n1, StreamLen)
  BY <1>1, <1>2, <1>4, Widths
<1>6. Pack(h.seq, SeqLen) = Field(raw, n3, SeqLen)
  BY <1>1, <1>2, <1>4, Widths
<1>7. Pack(h.length, LengthLen) = Field(raw, n4, LengthLen)
  BY <1>1, <1>2, <1>4, Widths
<1>8. /\ n1 = 4 + SessionLen /\ n2 = n1 + StreamLen /\ n3 = n2 + PrefixLen
       /\ n4 = n3 + SeqLen /\ n5 = n4 + LengthLen
       /\ n1 <= Len(raw) /\ n2 <= Len(raw) /\ n3 <= Len(raw) /\ n4 <= Len(raw) /\ n5 <= Len(raw)
  BY <1>1
<1>9. /\ n1 \in Nat /\ n2 \in Nat /\ n3 \in Nat /\ n4 \in Nat /\ n5 \in Nat /\ 4 \in Nat
       /\ n5 = Len(raw)
  BY <1>1
<1> HIDE DEF n1, n2, n3, n4, n5
<1>10. Field(raw, 0, 4) \o Field(raw, 4, SessionLen) = Field(raw, 0, n1)
  <2> DEFINE four == 4
  <2>1. four \in Nat /\ n1 = four + SessionLen
    BY <1>8
  <2> HIDE DEF four
  <2>2. four + SessionLen <= Len(raw)
    BY <1>8, <2>1
  <2>3. Field(raw, 0, four) \o Field(raw, four, SessionLen) = Field(raw, 0, four + SessionLen)
    BY <2>1, <2>2, Widths, FieldsJoin
  <2> QED
    BY <2>1, <2>3 DEF four
<1>11. Field(raw, 0, n1) \o Field(raw, n1, StreamLen) = Field(raw, 0, n2)
  <2>1. n1 + StreamLen <= Len(raw)
    BY <1>8
  <2>2. Field(raw, 0, n1) \o Field(raw, n1, StreamLen) = Field(raw, 0, n1 + StreamLen)
    BY <1>9, <2>1, Widths, FieldsJoin
  <2> QED
    BY <1>8, <2>2
<1>12. Field(raw, 0, n2) \o Field(raw, n2, PrefixLen) = Field(raw, 0, n3)
  <2>1. n2 + PrefixLen <= Len(raw)
    BY <1>8
  <2>2. Field(raw, 0, n2) \o Field(raw, n2, PrefixLen) = Field(raw, 0, n2 + PrefixLen)
    BY <1>9, <2>1, Widths, FieldsJoin
  <2> QED
    BY <1>8, <2>2
<1>13. Field(raw, 0, n3) \o Field(raw, n3, SeqLen) = Field(raw, 0, n4)
  <2>1. n3 + SeqLen <= Len(raw)
    BY <1>8
  <2>2. Field(raw, 0, n3) \o Field(raw, n3, SeqLen) = Field(raw, 0, n3 + SeqLen)
    BY <1>9, <2>1, Widths, FieldsJoin
  <2> QED
    BY <1>8, <2>2
<1>14. Field(raw, 0, n4) \o Field(raw, n4, LengthLen) = Field(raw, 0, n5)
  <2>1. n4 + LengthLen <= Len(raw)
    BY <1>8
  <2>2. Field(raw, 0, n4) \o Field(raw, n4, LengthLen) = Field(raw, 0, n4 + LengthLen)
    BY <1>9, <2>1, Widths, FieldsJoin
  <2> QED
    BY <1>8, <2>2
<1>15. Field(raw, 0, n5) = raw
  BY <1>9, WholeField
<1>16. HeaderBytes(h) =
         Field(raw, 0, 4) \o Field(raw, 4, SessionLen) \o Field(raw, n1, StreamLen)
           \o Field(raw, n2, PrefixLen) \o Field(raw, n3, SeqLen) \o Field(raw, n4, LengthLen)
  BY <1>2, <1>3, <1>5, <1>6, <1>7 DEF HeaderBytes
<1>17. HeaderBytes(h) = raw
  BY <1>10, <1>11, <1>12, <1>13, <1>14, <1>15, <1>16
<1> QED
  BY <1>17 DEF h

\* Reading a record and writing it again.
LEMMA RecordReserialised ==
  ASSUME NEW raw \in Seq(Byte), Len(raw) >= HeaderLen
  PROVE  RecordBytes(ParsedRecord(raw)) = raw
<1>1. Len(raw) \in Nat
  BY LenProperties
<1>2. 0 + HeaderLen <= Len(raw) /\ 0 + HeaderLen = HeaderLen /\ 0 + 1 = 1
  BY <1>1, Widths
<1> DEFINE head == SubSeq(raw, 1, HeaderLen)
           body == SubSeq(raw, HeaderLen + 1, Len(raw))
<1>3. head = Field(raw, 0, HeaderLen)
  BY <1>2 DEF Field
<1>4. head \in Seq(Byte) /\ Len(head) = HeaderLen
  BY <1>2, <1>3, FieldTyped, Widths
<1>5. head \o body = raw
  <2>1. /\ 1 \in 1 .. Len(raw) + 1 /\ HeaderLen \in 1 - 1 .. Len(raw)
        /\ Len(raw) \in HeaderLen .. Len(raw)
    BY <1>1, Widths
  <2>2. head \o body = SubSeq(raw, 1, Len(raw))
    BY <2>1, ConcatAdjacentSubSeq
  <2> QED
    BY <2>2, SubSeqFull
<1> HIDE DEF head, body
<1>6. HeaderBytes(ParsedHeader(head)) = head
  BY <1>4, HeaderReserialised
<1>7. ParsedRecord(raw).header = ParsedHeader(head) /\ ParsedRecord(raw).body = body
  BY DEF ParsedRecord, head, body
<1> QED
  BY <1>5, <1>6, <1>7 DEF RecordBytes

(***************************************************************************)
(* Records that were built                                                 *)
(***************************************************************************)
Headers == [version : Byte, suite : Byte, type : Byte, flags : Byte,
            session : Seq(Byte), stream : Int, prefix : Seq(Byte), seq : Int, length : Int]

Records == [header : {h \in Headers : Encodable(h)}, body : Seq(Byte)]

LEMMA SealedTyped == Sealed \subseteq Records
<1>1. ASSUME NEW h \in Candidates, Encodable(h), NEW b \in Bodies
      PROVE  [header |-> h, body |-> b] \in Records
  <2>1. h \in Headers /\ b \in Seq(Byte)
    BY InputAssumption DEF Headers
  <2> QED
    BY <1>1, <2>1 DEF Records
<1> QED
  BY <1>1 DEF Sealed

LEMMA Joined ==
  ASSUME NEW x \in Seq(Byte), NEW y \in Seq(Byte)
  PROVE  x \o y \in Seq(Byte) /\ Len(x \o y) = Len(x) + Len(y)
BY ConcatProperties

\* A header that was written has the length of all, and reads as itself.
LEMMA HeaderWritten ==
  ASSUME NEW h \in Headers, Encodable(h)
  PROVE  /\ HeaderBytes(h) \in Seq(Byte) /\ Len(HeaderBytes(h)) = HeaderLen
         /\ ParsedHeader(HeaderBytes(h)) = h
<1> DEFINE n1 == 4 + SessionLen
           n2 == n1 + StreamLen
           n3 == n2 + PrefixLen
           n4 == n3 + SeqLen
           n5 == n4 + LengthLen
           four == 4
           kinds == <<h.version, h.suite, h.type, h.flags>>
           stream == Pack(h.stream, StreamLen)
           seq == Pack(h.seq, SeqLen)
           length == Pack(h.length, LengthLen)
<1>1. /\ n1 = four + SessionLen /\ n2 = n1 + StreamLen /\ n3 = n2 + PrefixLen
      /\ n4 = n3 + SeqLen /\ n5 = n4 + LengthLen /\ four = 4
      /\ four \in Nat /\ n1 \in Nat /\ n2 \in Nat /\ n3 \in Nat /\ n4 \in Nat /\ n5 \in Nat
      /\ four <= n1 /\ n1 <= n2 /\ n2 <= n3 /\ n3 <= n4 /\ n4 <= n5
  BY Widths
<1>2. n5 = HeaderLen
  BY Widths DEF HeaderLen
<1>3. /\ h.version \in Byte /\ h.suite \in Byte /\ h.type \in Byte /\ h.flags \in Byte
      /\ h.session \in Seq(Byte) /\ h.prefix \in Seq(Byte)
      /\ h = [version |-> h.version, suite |-> h.suite, type |-> h.type, flags |-> h.flags,
              session |-> h.session, stream |-> h.stream, prefix |-> h.prefix,
              seq |-> h.seq, length |-> h.length]
  BY DEF Headers
<1>4. /\ Len(h.session) = SessionLen /\ Len(h.prefix) = PrefixLen
      /\ h.seq \in 0 .. Capacity[SeqLen] - 1
      /\ h.stream \in 0 .. Capacity[StreamLen] - 1
      /\ h.length \in 0 .. Capacity[LengthLen] - 1
  BY DEF Encodable
<1>5. h.seq \in Nat /\ h.stream \in Nat /\ h.length \in Nat
  BY <1>4, Widths, Capacities
<1>6. /\ kinds \in Seq(Byte) /\ Len(kinds) = four
      /\ kinds[1] = h.version /\ kinds[2] = h.suite /\ kinds[3] = h.type /\ kinds[4] = h.flags
  BY <1>3, FourBytes
<1>7. stream \in Seq(Byte) /\ Len(stream) = StreamLen /\ Unpack(stream) = h.stream
  BY <1>4, <1>5, Widths, PackTyped, UnpackPack
<1>8. seq \in Seq(Byte) /\ Len(seq) = SeqLen /\ Unpack(seq) = h.seq
  BY <1>4, <1>5, Widths, PackTyped, UnpackPack
<1>9. length \in Seq(Byte) /\ Len(length) = LengthLen /\ Unpack(length) = h.length
  BY <1>4, <1>5, Widths, PackTyped, UnpackPack
<1> HIDE DEF n1, n2, n3, n4, n5, four, kinds, stream, seq, length
\* What has been written after each field.
<1> DEFINE r1 == kinds \o h.session
           r2 == r1 \o stream
           r3 == r2 \o h.prefix
           r4 == r3 \o seq
           r5 == r4 \o length
<1>10. HeaderBytes(h) = r5
  BY DEF HeaderBytes, kinds, stream, seq, length
<1>11. r1 \in Seq(Byte) /\ Len(r1) = n1
  BY <1>1, <1>3, <1>4, <1>6, Joined
<1>12. r2 \in Seq(Byte) /\ Len(r2) = n2
  <2> HIDE DEF r1
  <2> QED
    BY <1>1, <1>7, <1>11, Joined
<1>13. r3 \in Seq(Byte) /\ Len(r3) = n3
  <2> HIDE DEF r2
  <2> QED
    BY <1>1, <1>3, <1>4, <1>12, Joined
<1>14. r4 \in Seq(Byte) /\ Len(r4) = n4
  <2> HIDE DEF r3
  <2> QED
    BY <1>1, <1>8, <1>13, Joined
<1>15. r5 \in Seq(Byte) /\ Len(r5) = n5
  <2> HIDE DEF r4
  <2> QED
    BY <1>1, <1>9, <1>14, Joined
\* Each field, where it was written.
<1>16. Field(r1, four, SessionLen) = h.session
  BY <1>3, <1>4, <1>6, FieldAtEnd
<1>17. Field(r2, n1, StreamLen) = stream
  <2> HIDE DEF r1
  <2> QED
    BY <1>7, <1>11, FieldAtEnd
<1>18. Field(r3, n2, PrefixLen) = h.prefix
  <2> HIDE DEF r2
  <2> QED
    BY <1>3, <1>4, <1>12, FieldAtEnd
<1>19. Field(r4, n3, SeqLen) = seq
  <2> HIDE DEF r3
  <2> QED
    BY <1>8, <1>13, FieldAtEnd
<1>20. Field(r5, n4, LengthLen) = length
  <2> HIDE DEF r4
  <2> QED
    BY <1>9, <1>14, FieldAtEnd
\* And it is still there when the others have followed.
<1>21. ASSUME NEW skip \in Nat, NEW width \in Nat
       PROVE  /\ skip + width <= n1 => Field(r2, skip, width) = Field(r1, skip, width)
              /\ skip + width <= n2 => Field(r3, skip, width) = Field(r2, skip, width)
              /\ skip + width <= n3 => Field(r4, skip, width) = Field(r3, skip, width)
              /\ skip + width <= n4 => Field(r5, skip, width) = Field(r4, skip, width)
  <2>1. skip + width <= n1 => Field(r2, skip, width) = Field(r1, skip, width)
    <3> HIDE DEF r1
    <3> QED
      BY <1>7, <1>11, FieldBefore
  <2>2. skip + width <= n2 => Field(r3, skip, width) = Field(r2, skip, width)
    <3> HIDE DEF r2
    <3> QED
      BY <1>3, <1>12, FieldBefore
  <2>3. skip + width <= n3 => Field(r4, skip, width) = Field(r3, skip, width)
    <3> HIDE DEF r3
    <3> QED
      BY <1>8, <1>13, FieldBefore
  <2>4. skip + width <= n4 => Field(r5, skip, width) = Field(r4, skip, width)
    <3> HIDE DEF r4
    <3> QED
      BY <1>9, <1>14, FieldBefore
  <2> QED
    BY <2>1, <2>2, <2>3, <2>4
<1> HIDE DEF r1, r2, r3, r4, r5
<1>22. /\ four + SessionLen <= n1 /\ four + SessionLen <= n2
       /\ four + SessionLen <= n3 /\ four + SessionLen <= n4
       /\ n1 + StreamLen <= n2 /\ n1 + StreamLen <= n3 /\ n1 + StreamLen <= n4
       /\ n2 + PrefixLen <= n3 /\ n2 + PrefixLen <= n4
       /\ n3 + SeqLen <= n4
  BY <1>1, Widths
<1>23. Field(r5, four, SessionLen) = h.session
  BY <1>1, <1>16, <1>21, <1>22, Widths
<1>24. Field(r5, n1, StreamLen) = stream
  BY <1>1, <1>17, <1>21, <1>22, Widths
<1>25. Field(r5, n2, PrefixLen) = h.prefix
  BY <1>1, <1>18, <1>21, <1>22, Widths
<1>26. Field(r5, n3, SeqLen) = seq
  BY <1>1, <1>19, <1>21, <1>22, Widths
\* The four bytes at the front.
<1>27. \A i \in 1 .. 4 : r5[i] = kinds[i]
  <2>1. Field(r5, 0, 4) = kinds
    <3> DEFINE z == 0
    <3>1. z \in Nat /\ z + four <= n1 /\ z + four <= n2 /\ z + four <= n3 /\ z + four <= n4
      BY <1>1
    <3> HIDE DEF z
    <3>2. Field(r5, z, four) = Field(r1, z, four)
      BY <1>1, <1>21, <3>1
    <3>3. Field(r1, z, four) = Field(kinds, z, four)
      <4>1. z + four <= Len(kinds)
        BY <1>1, <1>6 DEF z
      <4>2. four \in Nat /\ kinds \in Seq(Byte) /\ h.session \in Seq(Byte)
        BY <1>1, <1>3, <1>6
      <4>3. Field(kinds \o h.session, z, four) = Field(kinds, z, four)
        BY <3>1, <4>1, <4>2, FieldBefore
      <4> QED
        BY <4>3 DEF r1
    <3>4. Field(kinds, 0, Len(kinds)) = kinds
      BY <1>6, WholeField
    <3> QED
      BY <1>1, <1>6, <3>2, <3>3, <3>4 DEF z
  <2> DEFINE z == 0
  <2>2. z \in Nat /\ four \in Nat /\ r5 \in Seq(Byte) /\ z + four <= Len(r5)
    BY <1>1, <1>15
  <2> HIDE DEF z
  <2>3. /\ Field(r5, z, four) \in Seq(Byte) /\ Len(Field(r5, z, four)) = four
        /\ \A i \in 1 .. four : Field(r5, z, four)[i] = r5[z + i]
    BY <2>2, FieldTyped
  <2>4. \A i \in 1 .. 4 : z + i = i
    BY DEF z
  <2>5. Field(r5, z, four) = kinds
    BY <1>1, <2>1 DEF z
  <2>6. \A i \in 1 .. 4 : kinds[i] = r5[z + i]
    BY <1>1, <2>3, <2>5
  <2> QED
    BY <2>4, <2>6
<1>28. /\ r5[1] = h.version /\ r5[2] = h.suite
       /\ KeptType(r5[3]) = h.type /\ KeptFlags(r5[4]) = h.flags
  <2>1. 1 \in 1 .. 4 /\ 2 \in 1 .. 4 /\ 3 \in 1 .. 4 /\ 4 \in 1 .. 4
    OBVIOUS
  <2>2. r5[1] = h.version /\ r5[2] = h.suite /\ r5[3] = h.type /\ r5[4] = h.flags
    BY <1>6, <1>27, <2>1
  <2> QED
    BY <1>3, <2>2, KeepsBytes
<1>29. ParsedHeader(r5) =
         [version |-> r5[1], suite |-> r5[2], type |-> KeptType(r5[3]), flags |-> KeptFlags(r5[4]),
          session |-> Field(r5, four, SessionLen),
          stream  |-> Unpack(Field(r5, n1, StreamLen)),
          prefix  |-> Field(r5, n2, PrefixLen),
          seq     |-> Unpack(Field(r5, n3, SeqLen)),
          length  |-> Unpack(Field(r5, n4, LengthLen))]
  BY DEF ParsedHeader, four, n1, n2, n3, n4
<1>30. ParsedHeader(r5) = h
  BY <1>3, <1>7, <1>8, <1>9, <1>20, <1>23, <1>24, <1>25, <1>26, <1>28, <1>29
<1> QED
  BY <1>2, <1>10, <1>15, <1>30

\* A record that was written reads as itself.
LEMMA RecordWritten ==
  ASSUME NEW r \in Records
  PROVE  /\ RecordBytes(r) \in Seq(Byte) /\ Len(RecordBytes(r)) = HeaderLen + Len(r.body)
         /\ ParsedRecord(RecordBytes(r)) = r
<1> DEFINE head == HeaderBytes(r.header)
           body == r.body
           raw == head \o body
<1>1. /\ r.header \in Headers /\ Encodable(r.header) /\ body \in Seq(Byte)
      /\ r = [header |-> r.header, body |-> body]
  BY DEF Records
<1>2. head \in Seq(Byte) /\ Len(head) = HeaderLen /\ ParsedHeader(head) = r.header
  BY <1>1, HeaderWritten
<1>3. RecordBytes(r) = raw
  BY DEF RecordBytes
<1> HIDE DEF head, body
<1>4. raw \in Seq(Byte) /\ Len(raw) = HeaderLen + Len(body)
  BY <1>1, <1>2, Joined
<1>5. Len(body) \in Nat /\ HeaderLen \in Nat
  BY <1>1, LenProperties, Widths
<1>6. SubSeq(raw, 1, HeaderLen) = head
  <2> DEFINE z == 0
  <2>1. z \in Nat /\ HeaderLen \in Nat /\ z + HeaderLen <= Len(head)
    BY <1>2, <1>5
  <2>2. z + 1 = 1 /\ z + HeaderLen = HeaderLen
    BY <1>5
  <2> HIDE DEF z
  <2>3. Field(raw, z, HeaderLen) = Field(head, z, HeaderLen)
    BY <1>1, <1>2, <2>1, FieldBefore
  <2>4. Field(head, 0, Len(head)) = head
    BY <1>2, WholeField
  <2>5. Field(raw, z, HeaderLen) = head
    BY <1>2, <2>3, <2>4 DEF z
  <2> QED
    BY <2>2, <2>5 DEF Field
<1>7. SubSeq(raw, HeaderLen + 1, Len(raw)) = body
  <2>1. Field(raw, Len(head), Len(body)) = body
    BY <1>1, <1>2, FieldAtEnd
  <2> HIDE DEF raw
  <2> QED
    BY <1>2, <1>4, <2>1 DEF Field
<1> HIDE DEF raw
<1>8. ParsedRecord(raw) = [header |-> ParsedHeader(head), body |-> body]
  BY <1>6, <1>7 DEF ParsedRecord
<1> QED
  BY <1>1, <1>2, <1>3, <1>4, <1>8 DEF body

(***************************************************************************)
(* The record on its way                                                   *)
(***************************************************************************)
\* What the sender lets go: Init's choice for `original`.
Originals == {r \in Sealed : /\ r.header.version = Version
                             /\ Len(r.body) = r.header.length + TagLen
                             /\ r.header.length <= MaxPayloadLen}

\* The inductive invariant: the record is one the sender built, and whatever came
\* of its bytes, they are bytes.
TransitInv == original \in Originals /\ wire \in Seq(Byte)

LEMMA OriginalsTyped == Originals \subseteq Records
BY SealedTyped DEF Originals

LEMMA InitTransit == Init => TransitInv
<1> SUFFICES ASSUME Init PROVE TransitInv
  OBVIOUS
<1>1. original \in Originals
  BY DEF Init, Originals
<1>2. original \in Records
  BY <1>1, OriginalsTyped
<1>3. RecordBytes(original) \in Seq(Byte)
  BY <1>2, RecordWritten
<1>4. wire = RecordBytes(original)
  BY DEF Init
<1> QED
  BY <1>1, <1>3, <1>4 DEF TransitInv

LEMMA NextTransit == TransitInv /\ [Next]_vars => TransitInv'
<1> SUFFICES ASSUME TransitInv, [Next]_vars PROVE TransitInv'
  OBVIOUS
<1>1. original \in Originals /\ wire \in Seq(Byte)
  BY DEF TransitInv
<1>2. Len(wire) \in Nat /\ DOMAIN wire = 1 .. Len(wire)
  BY <1>1, LenProperties
<1>3. ASSUME NEW i \in DOMAIN wire, Cut(i) PROVE TransitInv'
  <2>1. i \in 1 .. Len(wire)
    BY <1>2
  <2>2. \A j \in 1 .. Len(wire) : wire[j] \in Byte
    BY <1>1, ElementOfSeq
  <2>3. SubSeq(wire, 1, i - 1) \in Seq(Byte)
    <3>1. i - 1 \in Int /\ 1 \in Int /\ \A j \in 1 .. i - 1 : wire[j] \in Byte
      BY <1>2, <2>1, <2>2
    <3> QED
      BY <3>1, SubSeqProperties
  <2>4. SubSeq(wire, i + 1, Len(wire)) \in Seq(Byte)
    <3>1. i + 1 \in Int /\ Len(wire) \in Int /\ \A j \in i + 1 .. Len(wire) : wire[j] \in Byte
      BY <1>2, <2>1, <2>2
    <3> QED
      BY <3>1, SubSeqProperties
  <2>5. wire' = SubSeq(wire, 1, i - 1) \o SubSeq(wire, i + 1, Len(wire)) /\ original' = original
    BY <1>3 DEF Cut, Change
  <2>6. wire' \in Seq(Byte)
    BY <2>3, <2>4, <2>5, Joined
  <2> QED
    BY <1>1, <2>5, <2>6 DEF TransitInv, Originals, Sealed
<1>4. ASSUME NEW i \in DOMAIN wire, NEW b \in Byte, Overwrite(i, b) PROVE TransitInv'
  <2>1. i \in 1 .. Len(wire)
    BY <1>2
  <2>2. wire' = [wire EXCEPT ![i] = b] /\ original' = original
    BY <1>4 DEF Overwrite, Change
  <2>3. wire' \in Seq(Byte)
    BY <1>1, <2>1, <2>2, ExceptSeq
  <2> QED
    BY <1>1, <2>2, <2>3 DEF TransitInv, Originals, Sealed
<1>5. ASSUME NEW b \in Byte, Grow(b) PROVE TransitInv'
  <2>1. wire' = Append(wire, b) /\ original' = original
    BY <1>5 DEF Grow, Change
  <2>2. wire' \in Seq(Byte)
    BY <1>1, <2>1, AppendProperties
  <2> QED
    BY <1>1, <2>1, <2>2 DEF TransitInv, Originals, Sealed
<1>6. CASE UNCHANGED vars
  <2>1. wire' = wire /\ original' = original
    BY <1>6 DEF vars
  <2> QED
    BY <1>1, <2>1 DEF TransitInv, Originals, Sealed
<1> QED
  BY <1>3, <1>4, <1>5, <1>6 DEF Next

\* Whatever happens to a record on the way, what arrives is bytes.
THEOREM BytesOnTheWire == Spec => []TransitInv
BY InitTransit, NextTransit, PTL DEF Spec

\* The header that the receiver re-serialises and authenticates (receiver.py:264-266)
\* is, on everything parse_record accepts, the header that came, byte for byte: for
\* every width of the fields and every base.
THEOREM AuthenticatesWhatCame == Spec => []ReserialisesExactly
<1>1. TransitInv => ReserialisesExactly
  <2> SUFFICES ASSUME TransitInv, Parses PROVE RecordBytes(Parsed) = wire
    BY DEF ReserialisesExactly
  <2>1. wire \in Seq(Byte) /\ Len(wire) \in Nat
    BY LenProperties DEF TransitInv
  <2>2. ~ (Len(wire) < HeaderLen + TagLen)
    BY DEF Parses, Fault
  <2>3. Len(wire) >= HeaderLen
    BY <2>1, <2>2, Widths
  <2> QED
    BY <2>1, <2>3, RecordReserialised DEF Parsed
<1> QED
  BY <1>1, BytesOnTheWire, PTL

\* A record nobody touched is accepted and parses to what the sender built: packing
\* loses nothing at any value the header's checks let through (header.py:159-174).
THEOREM RoundTrip == Spec => []UntouchedParses
<1>1. TransitInv => UntouchedParses
  <2> SUFFICES ASSUME TransitInv, wire = RecordBytes(original) PROVE Parses /\ Parsed = original
    BY DEF UntouchedParses
  <2> DEFINE h == original.header
             b == original.body
  <2>1. original \in Originals /\ original \in Records
    BY OriginalsTyped DEF TransitInv
  <2>2. Parsed = original /\ Len(wire) = HeaderLen + Len(b)
    BY <2>1, RecordWritten DEF Parsed
  <2>3. h.version = Version /\ Len(b) = h.length + TagLen /\ h.length <= MaxPayloadLen
    BY <2>1 DEF Originals
  <2>4. h.length \in Nat
    <3>1. h.length \in 0 .. Capacity[LengthLen] - 1
      BY <2>1 DEF Records, Encodable
    <3> QED
      BY <3>1, Widths, Capacities
  <2> HIDE DEF h, b
  <2>5. ~ (Len(wire) < HeaderLen + TagLen) /\ ~ (h.length > MaxPayloadLen)
    BY <2>2, <2>3, <2>4, Widths
  <2>6. ParsedRecord(wire) = original
    BY <2>2 DEF Parsed
  <2>7. Fault(wire) = "none"
    BY <2>3, <2>5, <2>6 DEF Fault, h, b
  <2> QED
    BY <2>2, <2>7 DEF Parses
<1> QED
  BY <1>1, BytesOnTheWire, PTL

\* There is no second encoding of a record: changed bytes never parse to the record
\* that was built.
THEOREM NoSecondEncoding == Spec => []ChangeIsVisible
<1>1. ReserialisesExactly => ChangeIsVisible
  BY DEF ReserialisesExactly, ChangeIsVisible
<1> QED
  BY <1>1, AuthenticatesWhatCame, PTL
=============================================================================

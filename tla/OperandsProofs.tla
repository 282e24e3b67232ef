--------------------------- MODULE OperandsProofs ----------------------------
(***************************************************************************)
(* What MCOperands checks of the instructions on a small machine holds for *)
(* bytes of any width, any number of registers, any size of memory and any *)
(* program.  MovesProofs says what each operator does; here are the        *)
(* instructions that compute as Alu does, and the steps of a program.      *)
(***************************************************************************)
EXTENDS MovesProofs

------------------------------------------------------------------------------
(* ADDX and SUBX by bytes and by words: two digits and the carry between them. *)

\* The sum or difference with X, before it is reduced.
Exact(op, v, y, x) == IF op = "addx" THEN v + y + x ELSE v - y - x

\* The flags of ADDX and SUBX.
Told(n, v, c, z) ==
  (IF n THEN {"N"} ELSE {}) \cup (IF v THEN {"V"} ELSE {}) \cup (IF c THEN {"C", "X"} ELSE {})
    \cup (IF z THEN {"Z"} ELSE {})

XOf(cc) == IF "X" \in cc THEN 1 ELSE 0

Overflown(op, a, b, r) ==
  IF op = "addx" THEN a = b /\ r # a ELSE a # b /\ r # a

\* Result and flags for operands below m, with the sign bit h.
Sum(op, v, y, cc, m) == Exact(op, v, y, XOf(cc)) % m
SumCc(op, v, y, cc, m, h) ==
  Told(Sum(op, v, y, cc, m) >= h, Overflown(op, v >= h, y >= h, Sum(op, v, y, cc, m) >= h),
       Exact(op, v, y, XOf(cc)) \notin 0 .. m - 1, Sum(op, v, y, cc, m) = 0 /\ "Z" \in cc)

Chains == {"addx", "subx"}

LEMMA ToldAre ==
  ASSUME NEW n \in BOOLEAN, NEW v \in BOOLEAN, NEW c \in BOOLEAN, NEW z \in BOOLEAN
  PROVE  /\ Told(n, v, c, z) \in SUBSET Flags
         /\ XOf(Told(n, v, c, z)) = (IF c THEN 1 ELSE 0)
         /\ "Z" \in Told(n, v, c, z) <=> z
BY DEF Told, XOf, Flags

LEMMA SumFits ==
  ASSUME NEW op, NEW v \in Int, NEW y \in Int, NEW cc, NEW m \in Nat \ {0}, NEW h
  PROVE  /\ Exact(op, v, y, XOf(cc)) \in Int /\ XOf(cc) \in {0, 1}
         /\ Sum(op, v, y, cc, m) \in 0 .. m - 1 /\ Sum(op, v, y, cc, m) \in Int
         /\ SumCc(op, v, y, cc, m, h) \in SUBSET Flags
<1>1. Exact(op, v, y, XOf(cc)) \in Int /\ XOf(cc) \in {0, 1}
  BY DEF Exact, XOf
<1>2. Sum(op, v, y, cc, m) \in 0 .. m - 1 /\ Sum(op, v, y, cc, m) \in Int
  <2> DEFINE e == Exact(op, v, y, XOf(cc))
  <2>1. e \in Int
    BY <1>1
  <2> HIDE DEF e
  <2>2. e % m \in 0 .. m - 1 /\ e % m \in Int
    BY <2>1, Parts
  <2> QED BY <2>2 DEF Sum, e
<1>3. SumCc(op, v, y, cc, m, h) \in SUBSET Flags
  BY DEF SumCc, Told, Flags
<1> QED BY <1>1, <1>2, <1>3

\* The sums of two digits and the carry between them.
Joins(op, v, y, c, r, k, m) == r = Exact(op, v, y, c) + (IF op = "addx" THEN -(k * m) ELSE k * m)

LEMMA DigitSum ==
  ASSUME NEW op \in Chains, NEW m \in Nat \ {0}, NEW v \in 0 .. m - 1, NEW y \in 0 .. m - 1,
         NEW cc, NEW k, k = IF Exact(op, v, y, XOf(cc)) \notin 0 .. m - 1 THEN 1 ELSE 0
  PROVE  /\ k \in {0, 1} /\ Sum(op, v, y, cc, m) \in 0 .. m - 1
         /\ Joins(op, v, y, XOf(cc), Sum(op, v, y, cc, m), k, m)
<1> DEFINE e == Exact(op, v, y, XOf(cc))
           c == XOf(cc)
<1>1. c \in {0, 1}
  BY DEF XOf
<1> HIDE DEF c
<1>2. CASE op = "addx"
  <2>1. e = v + y + c /\ e \in Int /\ 0 <= e /\ e < 2 * m
    BY <1>1, <1>2 DEF Exact, c
  <2> HIDE DEF e
  <2>2. e % m = IF e < m THEN e ELSE e - m
    BY <2>1, Loops!Reduced
  <2>3. Sum(op, v, y, cc, m) = e % m
    BY DEF Sum, e
  <2>4. k = IF e < m THEN 0 ELSE 1
    BY <2>1 DEF e
  <2>5. Sum(op, v, y, cc, m) = e + (-(k * m))
    BY <2>1, <2>2, <2>3, <2>4
  <2>6. Joins(op, v, y, XOf(cc), Sum(op, v, y, cc, m), k, m)
    BY <1>2, <2>5 DEF Joins, e
  <2> QED BY <2>1, <2>2, <2>3, <2>4, <2>6
<1>3. CASE op = "subx"
  <2>1. e = v - y - c /\ e \in Int /\ -m <= e /\ e < m
    BY <1>1, <1>3 DEF Exact, c
  <2> HIDE DEF e
  <2>2. e % m = IF e < 0 THEN e + m ELSE e
    BY <2>1, Loops!Reduced
  <2>3. Sum(op, v, y, cc, m) = e % m
    BY DEF Sum, e
  <2>4. k = IF e < 0 THEN 1 ELSE 0
    BY <2>1 DEF e
  <2>5. Sum(op, v, y, cc, m) = e + k * m
    BY <2>1, <2>2, <2>3, <2>4
  <2>6. Joins(op, v, y, XOf(cc), Sum(op, v, y, cc, m), k, m)
    BY <1>3, <2>5 DEF Joins, e
  <2> QED BY <2>1, <2>2, <2>3, <2>4, <2>6
<1> QED BY <1>2, <1>3 DEF Chains

\* n is the sum or difference below m, and j its carry or borrow.
Reduces(op, v, y, c, n, j, m) ==
  /\ Exact(op, v, y, c) % m = n /\ n \in 0 .. m - 1
  /\ Exact(op, v, y, c) \notin 0 .. m - 1 <=> j = 1

\* High and low digits, their sums and carries, and what the digits make up.
Carried(op, m, vh, vl, yh, yl, c, k, j, rh, rl, v, y, z, M) ==
  /\ op \in Chains /\ m \in Nat \ {0} /\ M = m * m
  /\ vh \in 0 .. m - 1 /\ vl \in 0 .. m - 1 /\ v = vh * m + vl
  /\ yh \in 0 .. m - 1 /\ yl \in 0 .. m - 1 /\ y = yh * m + yl
  /\ rh \in 0 .. m - 1 /\ rl \in 0 .. m - 1 /\ z = rh * m + rl
  /\ c \in {0, 1} /\ k \in {0, 1} /\ j \in {0, 1}
  /\ Joins(op, vl, yl, c, rl, k, m) /\ Joins(op, vh, yh, k, rh, j, m)

LEMMA DigitsJoin ==
  ASSUME NEW op, NEW m, NEW vh, NEW vl, NEW yh, NEW yl, NEW c, NEW k, NEW j, NEW rh, NEW rl,
         NEW v, NEW y, NEW z, NEW M, Carried(op, m, vh, vl, yh, yl, c, k, j, rh, rl, v, y, z, M)
  PROVE  Reduces(op, v, y, c, z, j, M)
<1> USE DEF Carried
<1> DEFINE p == vh * m
           q == yh * m
           n == rh * m
           r == n + rl
           e == Exact(op, p + vl, q + yl, c)
           i == IF op = "addx" THEN j ELSE -j
<1>1. M \in Nat \ {0} /\ p \in Int /\ q \in Int /\ n \in Int
  OBVIOUS
<1>2. r \in 0 .. M - 1
  BY Joined
<1>3. n = IF op = "addx" THEN p + q + k * m - j * M ELSE p - q - k * m + j * M
  <2>1. CASE op = "addx"
    <3>1. rh = vh + yh + k - j * m
      BY <2>1 DEF Joins, Exact
    <3>2. (vh + yh + k - j * m) * m = vh * m + yh * m + k * m - j * (m * m)
      <4>1. CASE j = 0 /\ k = 0
        BY <4>1
      <4>2. CASE j = 0 /\ k = 1
        BY <4>2
      <4>3. CASE j = 1 /\ k = 0
        BY <4>3
      <4>4. CASE j = 1 /\ k = 1
        BY <4>4
      <4> QED BY <4>1, <4>2, <4>3, <4>4
    <3> QED BY <2>1, <3>1, <3>2
  <2>2. CASE op = "subx"
    <3>1. rh = vh - yh - k + j * m
      BY <2>2 DEF Joins, Exact
    <3>2. (vh - yh - k + j * m) * m = vh * m - yh * m - k * m + j * (m * m)
      <4>1. CASE j = 0 /\ k = 0
        BY <4>1
      <4>2. CASE j = 0 /\ k = 1
        BY <4>2
      <4>3. CASE j = 1 /\ k = 0
        BY <4>3
      <4>4. CASE j = 1 /\ k = 1
        BY <4>4
      <4> QED BY <4>1, <4>2, <4>3, <4>4
    <3> QED BY <2>2, <3>1, <3>2
  <2> QED BY <2>1, <2>2 DEF Chains
<1> HIDE DEF p, q, n
<1>4. e = r + M * i /\ i \in Int
  <2>1. CASE op = "addx"
    <3>1. rl = vl + yl + c + (-(k * m))
      BY <2>1 DEF Joins, Exact
    <3>2. e = p + vl + (q + yl) + c
      BY <2>1 DEF Exact
    <3> QED BY <1>1, <1>3, <2>1, <3>1, <3>2
  <2>2. CASE op = "subx"
    <3>1. rl = vl - yl - c + k * m
      BY <2>2 DEF Joins, Exact
    <3>2. e = (p + vl) - (q + yl) - c
      BY <2>2 DEF Exact
    <3> QED BY <1>1, <1>3, <2>2, <3>1, <3>2
  <2> QED BY <2>1, <2>2 DEF Chains
<1> HIDE DEF r, e
<1>5. e % M = r
  <2>1. \A a, b \in Int : (a + M * b) % M = a % M
    BY <1>1, Multiples
  <2>2. r % M = r /\ r \in Int
    <3>1. \A a \in Int : a \in 0 .. M - 1 => a % M = a
      BY <1>1, Remainders
    <3>2. r \in Int
      BY <1>2
    <3> QED BY <1>2, <3>1, <3>2
  <2> QED BY <1>4, <2>1, <2>2
<1>6. e \notin 0 .. M - 1 <=> j = 1
  <2>1. CASE j = 0
    BY <1>1, <1>2, <1>4, <2>1
  <2>2. CASE j = 1
    BY <1>1, <1>2, <1>4, <2>2
  <2> QED BY <2>1, <2>2
<1>7. v = p + vl /\ y = q + yl /\ z = r
  BY DEF p, q, n, r
<1> QED BY <1>2, <1>5, <1>6, <1>7 DEF Reduces, e

\* Two steps on digits are one step on the numbers they make up, flags and all.
Chained(op, h, m, vh, vl, yh, yl, cc) ==
  LET c == SumCc(op, vl, yl, cc, m, h)
      v == vh * m + vl
      y == yh * m + yl
  IN  /\ Sum(op, v, y, cc, m * m) = Sum(op, vh, yh, c, m) * m + Sum(op, vl, yl, cc, m)
      /\ SumCc(op, v, y, cc, m * m, h * m) = SumCc(op, vh, yh, c, m, h)

LEMMA DigitsChain ==
  ASSUME NEW op \in Chains, NEW h \in Nat \ {0}, NEW m, m = 2 * h,
         NEW vh \in 0 .. m - 1, NEW vl \in 0 .. m - 1, NEW yh \in 0 .. m - 1, NEW yl \in 0 .. m - 1,
         NEW cc
  PROVE  Chained(op, h, m, vh, vl, yh, yl, cc)
<1> DEFINE c == SumCc(op, vl, yl, cc, m, h)
           v == vh * m + vl
           y == yh * m + yl
           rl == Sum(op, vl, yl, cc, m)
           rh == Sum(op, vh, yh, c, m)
           k == IF Exact(op, vl, yl, XOf(cc)) \notin 0 .. m - 1 THEN 1 ELSE 0
           j == IF Exact(op, vh, yh, XOf(c)) \notin 0 .. m - 1 THEN 1 ELSE 0
<1>1. m \in Nat \ {0}
  OBVIOUS
<1>2. XOf(c) = k /\ ("Z" \in c <=> rl = 0 /\ "Z" \in cc)
  <2> DEFINE n == rl >= h
             o == Overflown(op, vl >= h, yl >= h, n)
             b == Exact(op, vl, yl, XOf(cc)) \notin 0 .. m - 1
             z == rl = 0 /\ "Z" \in cc
  <2>1. c = Told(n, o, b, z)
    BY DEF SumCc
  <2>2. n \in BOOLEAN /\ o \in BOOLEAN /\ b \in BOOLEAN /\ z \in BOOLEAN
    <3>1. n \in BOOLEAN
      OBVIOUS
    <3>2. o \in BOOLEAN
      BY DEF Overflown
    <3>3. b \in BOOLEAN
      OBVIOUS
    <3>4. z \in BOOLEAN
      OBVIOUS
    <3> QED BY <3>1, <3>2, <3>3, <3>4
  <2>3. k = IF b THEN 1 ELSE 0
    OBVIOUS
  <2>4. z <=> rl = 0 /\ "Z" \in cc
    OBVIOUS
  <2> HIDE DEF n, o, b, z, c, k
  <2>5. XOf(c) = (IF b THEN 1 ELSE 0) /\ ("Z" \in c <=> z)
    BY <2>1, <2>2, ToldAre
  <2> QED BY <2>3, <2>4, <2>5
<1>3. k \in {0, 1} /\ rl \in 0 .. m - 1 /\ Joins(op, vl, yl, XOf(cc), rl, k, m)
  BY <1>1, DigitSum
<1>4. j \in {0, 1} /\ rh \in 0 .. m - 1 /\ Joins(op, vh, yh, XOf(c), rh, j, m)
  <2> HIDE DEF c
  <2> QED BY <1>1, DigitSum
<1>5. XOf(cc) \in {0, 1}
  BY DEF XOf
<1> HIDE DEF c, rl, rh, k
<1>6. /\ Exact(op, v, y, XOf(cc)) % (m * m) = rh * m + rl
      /\ Exact(op, v, y, XOf(cc)) \notin 0 .. m * m - 1 <=> j = 1
  <2> HIDE DEF j
  <2>1. Joins(op, vh, yh, k, rh, j, m)
    BY <1>2, <1>4
  <2> DEFINE x == XOf(cc)
  <2>2. x \in {0, 1} /\ Joins(op, vl, yl, x, rl, k, m)
    BY <1>3, <1>5
  <2> HIDE DEF x
  <2>3. k \in {0, 1} /\ j \in {0, 1} /\ rl \in 0 .. m - 1 /\ rh \in 0 .. m - 1
    BY <1>3, <1>4
  <2> DEFINE z == rh * m + rl
             M == m * m
  <2>4. v = vh * m + vl /\ y = yh * m + yl /\ z = rh * m + rl /\ M = m * m
    OBVIOUS
  <2> HIDE DEF v, y, z, M
  <2>5. Reduces(op, v, y, x, z, j, M)
    <3>1. Carried(op, m, vh, vl, yh, yl, x, k, j, rh, rl, v, y, z, M)
      BY <1>1, <2>1, <2>2, <2>3, <2>4 DEF Carried
    <3> QED BY <3>1, DigitsJoin
  <2> QED BY <2>4, <2>5 DEF Reduces, x
<1>7. Sum(op, v, y, cc, m * m) = rh * m + rl
  BY <1>6 DEF Sum
<1>8. \A a, b \in 0 .. m - 1 : (a * m + b >= h * m <=> a >= h) /\ (a * m + b = 0 <=> a = 0 /\ b = 0)
  <2> TAKE a, b \in 0 .. m - 1
  <2>1. CASE a >= h
    <3>1. PICK d \in Nat : a = h + d
      <4>1. a - h \in Nat /\ a = h + (a - h)
        BY <2>1
      <4> QED BY <4>1
    <3>2. a * m = h * m + d * m /\ d * m \in Nat /\ h * m \in Nat \ {0}
      BY <3>1
    <3> QED BY <2>1, <3>2
  <2>2. CASE a < h
    <3>1. PICK d \in Nat : h = a + 1 + d
      <4>1. h - a - 1 \in Nat /\ h = a + 1 + (h - a - 1)
        BY <2>2
      <4> QED BY <4>1
    <3>2. h * m = a * m + m + d * m /\ d * m \in Nat /\ a * m \in Nat
      BY <3>1
    <3>3. a * m = 0 <=> a = 0
      OBVIOUS
    <3> QED BY <2>2, <3>2, <3>3
  <2> QED BY <2>1, <2>2
<1>9. /\ (v >= h * m) = (vh >= h) /\ (y >= h * m) = (yh >= h)
      /\ (rh * m + rl >= h * m) = (rh >= h)
      /\ (rh * m + rl = 0 <=> rh = 0 /\ rl = 0)
  BY <1>3, <1>4, <1>8
<1> HIDE DEF v, y
<1>10. SumCc(op, v, y, cc, m * m, h * m)
         = Told(rh >= h, Overflown(op, vh >= h, yh >= h, rh >= h), j = 1,
                rh * m + rl = 0 /\ "Z" \in cc)
  <2>1. SumCc(op, v, y, cc, m * m, h * m)
          = Told(rh * m + rl >= h * m,
                 Overflown(op, v >= h * m, y >= h * m, rh * m + rl >= h * m),
                 Exact(op, v, y, XOf(cc)) \notin 0 .. m * m - 1, rh * m + rl = 0 /\ "Z" \in cc)
    BY <1>7 DEF SumCc
  <2>2. (Exact(op, v, y, XOf(cc)) \notin 0 .. m * m - 1) = (j = 1)
    BY <1>6
  <2> QED BY <1>9, <2>1, <2>2
<1>11. SumCc(op, vh, yh, c, m, h)
         = Told(rh >= h, Overflown(op, vh >= h, yh >= h, rh >= h), j = 1,
                rh = 0 /\ "Z" \in c)
  BY DEF SumCc, rh, j
<1>12. (rh * m + rl = 0 /\ "Z" \in cc) = (rh = 0 /\ "Z" \in c)
  BY <1>2, <1>9
<1>13. SumCc(op, v, y, cc, m * m, h * m) = SumCc(op, vh, yh, c, m, h)
  BY <1>10, <1>11, <1>12
<1> QED BY <1>7, <1>13 DEF Chained, c, v, y, rl, rh

(* What ADDX and SUBX compute: the operations of Alu on bytes and on words. *)

LEMMA ByteChain ==
  ASSUME NEW op \in Chains, NEW cc \in SUBSET Flags,
         NEW v \in 0 .. Modulus(1) - 1, NEW y \in 0 .. Modulus(1) - 1, NEW n,
         n = [hi |-> 0, lo |-> v, cc |-> cc]
  PROVE  /\ Byte!Operation(op, n, y).lo = Sum(op, v, y, cc, Modulus(1))
         /\ Byte!Operation(op, n, y).cc = SumCc(op, v, y, cc, Modulus(1), Modulus(1) \div 2)
<1> DEFINE m == Modulus(1)
           h == Modulus(1) \div 2
           x == XOf(cc)
           r == Sum(op, v, y, cc, m)
           e == Exact(op, v, y, x)
           o == Overflown(op, v >= h, y >= h, r >= h)
<1>1. m \in Nat \ {0} /\ h \in Nat \ {0} /\ Byte!Modulus = m
  BY WidthIs DEF Widths, Byte!Modulus
<1>2. \A a : Byte!Sign(a) = (a >= h)
  BY DEF Byte!Sign
<1>3. Byte!X(n) = x /\ x \in {0, 1} /\ n.lo = v /\ n.cc = cc
  BY DEF Byte!X, XOf
<1>4. r \in 0 .. m - 1 /\ e \in Int /\ r = e % m
  <2>1. e \in Int
    BY <1>3 DEF Exact
  <2>2. r = e % m
    BY DEF Sum
  <2> HIDE DEF e, r, m
  <2> QED BY <1>1, <2>1, <2>2, Parts
<1> HIDE DEF m, h, x
<1>5. \A a, b \in BOOLEAN : \A q \in Int :
        LET t == Byte!Extended(n, q, a, b)
        IN  t.lo = q /\ t.cc = Told(q >= h, a, b, q = 0 /\ "Z" \in cc)
  <2> TAKE a, b \in BOOLEAN
  <2> TAKE q \in Int
  <2> DEFINE t == Byte!Extended(n, q, a, b)
             u == Byte!NZ(q) \cup Byte!If(a, "V") \cup Byte!If(b, "C") \cup Byte!If(b, "X")
  <2>1. t.lo = q /\ t.cc = (u \ {"Z"}) \cup Byte!If(q = 0 /\ "Z" \in cc, "Z")
    BY <1>3 DEF Byte!Extended, Byte!Result
  <2>2. Byte!NZ(q) = (IF q >= h THEN {"N"} ELSE {}) \cup (IF q = 0 THEN {"Z"} ELSE {})
    BY <1>2 DEF Byte!NZ, Byte!If
  <2>3. u \ {"Z"} = (IF q >= h THEN {"N"} ELSE {}) \cup (IF a THEN {"V"} ELSE {})
                      \cup (IF b THEN {"C", "X"} ELSE {})
    BY <2>2 DEF Byte!If
  <2> HIDE DEF t, u
  <2>4. Byte!If(q = 0 /\ "Z" \in cc, "Z") = IF q = 0 /\ "Z" \in cc THEN {"Z"} ELSE {}
    BY DEF Byte!If
  <2>5. t.cc = Told(q >= h, a, b, q = 0 /\ "Z" \in cc)
    BY <2>1, <2>3, <2>4 DEF Told
  <2> QED BY <2>1, <2>5 DEF t
<1>6. Byte!Operation(op, n, y) = Byte!Extended(n, r, o, e \notin 0 .. m - 1)
  <2>1. CASE op = "addx"
    <3>1. Byte!Operation(op, n, y) = Byte!Addx(n, y)
      BY <2>1 DEF Byte!Operation
    <3>2. e = v + y + x
      BY <2>1 DEF Exact
    <3>3. (v + y + x >= m) = (e \notin 0 .. m - 1)
      BY <1>1, <1>3, <3>2 DEF m
    <3>4. Byte!SumOverflows(v, y, r) = o
      BY <1>2, <2>1 DEF Byte!SumOverflows, Overflown
    <3>5. Byte!Addx(n, y) = Byte!Extended(n, e % m, Byte!SumOverflows(v, y, e % m), v + y + x >= m)
      BY <1>1, <1>3, <3>2 DEF Byte!Addx
    <3> HIDE DEF e, r, o
    <3> QED BY <1>4, <3>1, <3>3, <3>4, <3>5
  <2>2. CASE op = "subx"
    <3>1. Byte!Operation(op, n, y) = Byte!Subx(n, y)
      BY <2>2 DEF Byte!Operation
    <3>2. e = v - y - x
      BY <2>2 DEF Exact
    <3>3. (v < y + x) = (e \notin 0 .. m - 1)
      BY <1>1, <1>3, <3>2 DEF m
    <3>4. Byte!DifferenceOverflows(v, y, r) = o
      BY <1>2, <2>2 DEF Byte!DifferenceOverflows, Overflown
    <3>5. Byte!Subx(n, y)
            = Byte!Extended(n, e % m, Byte!DifferenceOverflows(v, y, e % m), v < y + x)
      BY <1>1, <1>3, <3>2 DEF Byte!Subx
    <3> HIDE DEF e, r, o
    <3> QED BY <1>4, <3>1, <3>3, <3>4, <3>5
  <2> QED BY <2>1, <2>2 DEF Chains
<1>7. o \in BOOLEAN /\ (e \notin 0 .. m - 1) \in BOOLEAN /\ r \in Int
  <2>1. o \in BOOLEAN
    BY DEF Overflown
  <2>2. r \in Int
    BY <1>1, <1>4
  <2> QED BY <2>1, <2>2
<1> DEFINE b == e \notin 0 .. m - 1
<1>8. SumCc(op, v, y, cc, m, h) = Told(r >= h, o, b, r = 0 /\ "Z" \in cc)
  BY DEF SumCc, x
<1>9. Byte!Operation(op, n, y) = Byte!Extended(n, r, o, b) /\ b \in BOOLEAN
  BY <1>6
<1> HIDE DEF e, r, o, b
<1>10. Byte!Operation(op, n, y).lo = r
  BY <1>5, <1>7, <1>9
<1>11. Byte!Operation(op, n, y).cc = Told(r >= h, o, b, r = 0 /\ "Z" \in cc)
  BY <1>5, <1>7, <1>9
<1> QED BY <1>8, <1>10, <1>11 DEF r, m, h

LEMMA WordChain ==
  ASSUME NEW op \in Chains, NEW cc \in SUBSET Flags,
         NEW v \in 0 .. Modulus(2) - 1, NEW y \in 0 .. Modulus(2) - 1, NEW n,
         n = [hi |-> 0, lo |-> v, cc |-> cc]
  PROVE  /\ Word!Operation(op, n, y).lo = Sum(op, v, y, cc, Modulus(2))
         /\ Word!Operation(op, n, y).cc = SumCc(op, v, y, cc, Modulus(2), Modulus(2) \div 2)
<1> DEFINE m == Modulus(2)
           h == Modulus(2) \div 2
           x == XOf(cc)
           r == Sum(op, v, y, cc, m)
           e == Exact(op, v, y, x)
           o == Overflown(op, v >= h, y >= h, r >= h)
<1>1. m \in Nat \ {0} /\ h \in Nat \ {0} /\ Word!Modulus = m
  BY WidthIs DEF Widths, Word!Modulus
<1>2. \A a : Word!Sign(a) = (a >= h)
  BY DEF Word!Sign
<1>3. Word!X(n) = x /\ x \in {0, 1} /\ n.lo = v /\ n.cc = cc
  BY DEF Word!X, XOf
<1>4. r \in 0 .. m - 1 /\ e \in Int /\ r = e % m
  <2>1. e \in Int
    BY <1>3 DEF Exact
  <2>2. r = e % m
    BY DEF Sum
  <2> HIDE DEF e, r, m
  <2> QED BY <1>1, <2>1, <2>2, Parts
<1> HIDE DEF m, h, x
<1>5. \A a, b \in BOOLEAN : \A q \in Int :
        LET t == Word!Extended(n, q, a, b)
        IN  t.lo = q /\ t.cc = Told(q >= h, a, b, q = 0 /\ "Z" \in cc)
  <2> TAKE a, b \in BOOLEAN
  <2> TAKE q \in Int
  <2> DEFINE t == Word!Extended(n, q, a, b)
             u == Word!NZ(q) \cup Word!If(a, "V") \cup Word!If(b, "C") \cup Word!If(b, "X")
  <2>1. t.lo = q /\ t.cc = (u \ {"Z"}) \cup Word!If(q = 0 /\ "Z" \in cc, "Z")
    BY <1>3 DEF Word!Extended, Word!Result
  <2>2. Word!NZ(q) = (IF q >= h THEN {"N"} ELSE {}) \cup (IF q = 0 THEN {"Z"} ELSE {})
    BY <1>2 DEF Word!NZ, Word!If
  <2>3. u \ {"Z"} = (IF q >= h THEN {"N"} ELSE {}) \cup (IF a THEN {"V"} ELSE {})
                      \cup (IF b THEN {"C", "X"} ELSE {})
    BY <2>2 DEF Word!If
  <2> HIDE DEF t, u
  <2>4. Word!If(q = 0 /\ "Z" \in cc, "Z") = IF q = 0 /\ "Z" \in cc THEN {"Z"} ELSE {}
    BY DEF Word!If
  <2>5. t.cc = Told(q >= h, a, b, q = 0 /\ "Z" \in cc)
    BY <2>1, <2>3, <2>4 DEF Told
  <2> QED BY <2>1, <2>5 DEF t
<1>6. Word!Operation(op, n, y) = Word!Extended(n, r, o, e \notin 0 .. m - 1)
  <2>1. CASE op = "addx"
    <3>1. Word!Operation(op, n, y) = Word!Addx(n, y)
      BY <2>1 DEF Word!Operation
    <3>2. e = v + y + x
      BY <2>1 DEF Exact
    <3>3. (v + y + x >= m) = (e \notin 0 .. m - 1)
      BY <1>1, <1>3, <3>2 DEF m
    <3>4. Word!SumOverflows(v, y, r) = o
      BY <1>2, <2>1 DEF Word!SumOverflows, Overflown
    <3>5. Word!Addx(n, y) = Word!Extended(n, e % m, Word!SumOverflows(v, y, e % m), v + y + x >= m)
      BY <1>1, <1>3, <3>2 DEF Word!Addx
    <3> HIDE DEF e, r, o
    <3> QED BY <1>4, <3>1, <3>3, <3>4, <3>5
  <2>2. CASE op = "subx"
    <3>1. Word!Operation(op, n, y) = Word!Subx(n, y)
      BY <2>2 DEF Word!Operation
    <3>2. e = v - y - x
      BY <2>2 DEF Exact
    <3>3. (v < y + x) = (e \notin 0 .. m - 1)
      BY <1>1, <1>3, <3>2 DEF m
    <3>4. Word!DifferenceOverflows(v, y, r) = o
      BY <1>2, <2>2 DEF Word!DifferenceOverflows, Overflown
    <3>5. Word!Subx(n, y)
            = Word!Extended(n, e % m, Word!DifferenceOverflows(v, y, e % m), v < y + x)
      BY <1>1, <1>3, <3>2 DEF Word!Subx
    <3> HIDE DEF e, r, o
    <3> QED BY <1>4, <3>1, <3>3, <3>4, <3>5
  <2> QED BY <2>1, <2>2 DEF Chains
<1>7. o \in BOOLEAN /\ (e \notin 0 .. m - 1) \in BOOLEAN /\ r \in Int
  <2>1. o \in BOOLEAN
    BY DEF Overflown
  <2>2. r \in Int
    BY <1>1, <1>4
  <2> QED BY <2>1, <2>2
<1> DEFINE b == e \notin 0 .. m - 1
<1>8. SumCc(op, v, y, cc, m, h) = Told(r >= h, o, b, r = 0 /\ "Z" \in cc)
  BY DEF SumCc, x
<1>9. Word!Operation(op, n, y) = Word!Extended(n, r, o, b) /\ b \in BOOLEAN
  BY <1>6
<1> HIDE DEF e, r, o, b
<1>10. Word!Operation(op, n, y).lo = r
  BY <1>5, <1>7, <1>9
<1>11. Word!Operation(op, n, y).cc = Told(r >= h, o, b, r = 0 /\ "Z" \in cc)
  BY <1>5, <1>7, <1>9
<1> QED BY <1>8, <1>10, <1>11 DEF r, m, h

LEMMA ChainIs ==
  ASSUME NEW s, s.cc \in SUBSET Flags, NEW op \in Chains, NEW w \in {1, 2},
         NEW v \in 0 .. Modulus(w) - 1, NEW y \in 0 .. Modulus(w) - 1
  PROVE  /\ Operation(op, s, v, y, w).lo = Sum(op, v, y, s.cc, Modulus(w))
         /\ Operation(op, s, v, y, w).cc
              = SumCc(op, v, y, s.cc, Modulus(w), Modulus(w) \div 2)
<1> DEFINE cc == s.cc
           n == [hi |-> 0, lo |-> v, cc |-> cc]
<1>1. cc \in SUBSET Flags /\ n = [hi |-> 0, lo |-> v, cc |-> cc]
  OBVIOUS
<1>2. CASE w = 1
  <2>1. Operation(op, s, v, y, w) = Byte!Operation(op, n, y)
    BY <1>2 DEF Operation
  <2> HIDE DEF cc, n
  <2> QED BY <1>1, <1>2, <2>1, ByteChain DEF cc
<1>3. CASE w = 2
  <2>1. Operation(op, s, v, y, w) = Word!Operation(op, n, y)
    BY <1>3 DEF Operation
  <2> HIDE DEF cc, n
  <2> QED BY <1>1, <1>3, <2>1, WordChain DEF cc
<1> QED BY <1>2, <1>3

------------------------------------------------------------------------------
(* ADDX and SUBX -(Ay),-(Ax), by bytes and by words. *)

\* What stays in it.
SameButSums(s, t) ==
  /\ t.d = s.d /\ t.ssp = s.ssp /\ t.sup = s.sup /\ t.pc = s.pc /\ t.oldPc = s.oldPc
  /\ t.src = s.src /\ t.dst = s.dst /\ t.raised = s.raised

\* Sum or difference of the w bytes below those two addresses, into those of the first.
SumOf(s, op, x, y, w) ==
  Operation(op, s, Load(s, Plus(s.a[x], -w), w), Load(s, Plus(s.a[y], -w), w), w)
Summed(s, t, op, x, y, w) ==
  /\ t \in Machines /\ SameButSums(s, t)
  /\ t.a = [s.a EXCEPT ![y] = Plus(@, -w), ![x] = Plus(@, -w)]
  /\ t.mem = Store(s, Plus(s.a[x], -w), w, SumOf(s, op, x, y, w).lo).mem
  /\ t.cc = SumOf(s, op, x, y, w).cc

LEMMA SameSums ==
  ASSUME NEW s, NEW t \in Machines, NEW u \in Machines, SameButSums(s, t), SameButSums(s, u),
         t.a = u.a, t.mem = u.mem, t.cc = u.cc
  PROVE  t = u
BY DEF Machines, SameButSums

LEMMA DecrementedIs ==
  ASSUME NEW s \in Machines, NEW r \in RegNos \ {SP}, NEW w \in Widths
  PROVE  /\ Dec(s, r, w) = [s EXCEPT !.a = [s.a EXCEPT ![r] = Plus(@, -w)]]
         /\ Dec(s, r, w) \in Machines /\ Reg(s, r) = s.a[r] /\ s.a[r] \in Int
         /\ Plus(s.a[r], -w) \in Long
<1>1. Reg(s, r) = s.a[r] /\ Step(r, w) = w
  BY DEF Reg, Step
<1>2. s.a[r] \in Int /\ -w \in Int
  <2>1. s.a[r] \in Long
    BY FieldsAre
  <2>2. -w \in Int
    BY DEF Widths
  <2> QED BY <2>1, <2>2, LongIs
<1>3. Dec(s, r, w) \in Machines
  BY IncDecAre
<1>4. Dec(s, r, w) = [s EXCEPT !.a[r] = Plus(s.a[r], -w)]
  BY <1>1 DEF Dec, SetReg
<1>5. [s EXCEPT !.a[r] = Plus(s.a[r], -w)] = [s EXCEPT !.a = [s.a EXCEPT ![r] = Plus(@, -w)]]
  BY DEF Machines
<1> QED BY <1>1, <1>2, <1>3, <1>4, <1>5, PlusFits

LEMMA BetweenIs ==
  ASSUME NEW s \in Machines, Ok(s), NEW op \in Chains, NEW x \in RegNos \ {SP},
         NEW y \in RegNos \ {SP}, x # y, NEW w \in {1, 2},
         w = 1 \/ Ok(BetweenMemory(s, op, x, y, w))
  PROVE  /\ Summed(s, BetweenMemory(s, op, x, y, w), op, x, y, w)
         /\ w = 2 => Plus(s.a[x], -w) % 2 # 1 /\ Plus(s.a[y], -w) % 2 # 1
<1> DEFINE t == Dec(s, y, w)
           from == At("mem", Reg(t, y))
           u == Dec(t, x, w)
           to == At("mem", Reg(u, x))
           r == Operation(op, s, Load(u, to.n, w), Load(u, from.n, w), w)
           m == Store(u, to.n, w, r.lo)
           b == BetweenMemory(s, op, x, y, w)
           q == Plus(s.a[x], -w)
           p == Plus(s.a[y], -w)
<1>1. w \in Widths
  BY DEF Widths
<1>2. b = IF w > 1 /\ from.n % 2 = 1 THEN AddressError(t, from, TRUE)
          ELSE IF w > 1 /\ to.n % 2 = 1 THEN AddressError(u, to, TRUE)
          ELSE WithFlags(m, r.cc)
  BY DEF BetweenMemory
<1>3. /\ t = [s EXCEPT !.a = [s.a EXCEPT ![y] = Plus(@, -w)]] /\ t \in Machines /\ p \in Long
      /\ s.a \in [RegNos -> Long]
  BY <1>1, DecrementedIs, FieldsAre
<1>4. t.a = [s.a EXCEPT ![y] = Plus(@, -w)] /\ t.a[x] = s.a[x] /\ t.a[y] = p
  BY <1>3 DEF Machines
<1> HIDE DEF t
<1>5. /\ u = [t EXCEPT !.a = [t.a EXCEPT ![x] = Plus(@, -w)]] /\ u \in Machines
      /\ Plus(t.a[x], -w) \in Long
  <2> HIDE DEF b, p, q
  <2>1. t \in Machines
    BY <1>3
  <2>2. /\ Dec(t, x, w) = [t EXCEPT !.a = [t.a EXCEPT ![x] = Plus(@, -w)]]
        /\ Dec(t, x, w) \in Machines /\ Plus(t.a[x], -w) \in Long
    BY <1>1, <2>1, DecrementedIs
  <2> QED BY <2>2
<1>6. u.a = [s.a EXCEPT ![y] = Plus(@, -w), ![x] = Plus(@, -w)] /\ u.a[x] = q /\ q \in Long
  <2>1. u.a = [t.a EXCEPT ![x] = Plus(t.a[x], -w)]
    BY <1>3, <1>5 DEF Machines
  <2>2. q = Plus(t.a[x], -w)
    BY <1>4
  <2>3. u.a = [t.a EXCEPT ![x] = q]
    BY <2>1, <2>2
  <2>4. t.a = [s.a EXCEPT ![y] = p]
    BY <1>4
  <2> HIDE DEF p, q
  <2>5. u.a = [s.a EXCEPT ![y] = p, ![x] = q] /\ u.a[x] = q
    BY <1>3, <2>3, <2>4
  <2> QED BY <1>5, <2>2, <2>5 DEF p, q
<1>7. /\ SameButSums(s, u) /\ u.mem = s.mem /\ u.cc = s.cc
  <2>1. SameButSums(s, t) /\ t.mem = s.mem /\ t.cc = s.cc
    BY <1>3 DEF Machines, SameButSums
  <2>2. SameButSums(t, u) /\ u.mem = t.mem /\ u.cc = t.cc
    BY <1>3, <1>5 DEF Machines, SameButSums
  <2> QED BY <2>1, <2>2 DEF SameButSums
<1> HIDE DEF u
<1>8. from.n = p /\ to.n = q
  <2>1. Reg(t, y) = p /\ Reg(u, x) = q
    BY <1>4, <1>6 DEF Reg
  <2>2. \A n \in Long : n % Modulus(4) = n /\ n \in Int
    BY <1>1, WidthIs, Remainders, LongIs DEF Long
  <2> HIDE DEF p, q
  <2>3. p \in Int /\ q \in Int
    BY <1>3, <1>6, LongIs
  <2> QED BY <1>3, <1>6, <2>1, <2>2, <2>3, AtFits
<1>9. from \in Places /\ to \in Places
  BY <1>3, <1>5, RegFits, AtFits
<1> HIDE DEF from, to
<1>10. ~Ok(AddressError(t, from, TRUE)) /\ ~Ok(AddressError(u, to, TRUE))
  BY <1>3, <1>5, <1>9, RaisedAre
<1>11. b = WithFlags(m, r.cc) /\ (w = 2 => q % 2 # 1 /\ p % 2 # 1)
  <2> HIDE DEF b, m, r, p, q
  <2>1. w = 1 \/ Ok(b)
    BY DEF b
  <2>2. CASE w = 1
    BY <1>2, <2>2
  <2>3. CASE w = 2
    <3>1. Ok(b) /\ w > 1
      BY <2>1, <2>3
    <3>2. b = IF p % 2 = 1 THEN AddressError(t, from, TRUE)
              ELSE IF q % 2 = 1 THEN AddressError(u, to, TRUE) ELSE WithFlags(m, r.cc)
      BY <1>2, <1>8, <3>1
    <3>3. p % 2 # 1
      BY <1>10, <3>1, <3>2
    <3>4. q % 2 # 1
      BY <1>10, <3>1, <3>2, <3>3
    <3> QED BY <3>2, <3>3, <3>4
  <2> QED BY <2>2, <2>3
<1> HIDE DEF b
<1>12. r = SumOf(s, op, x, y, w)
  <2>1. Load(u, q, w) = Load(s, q, w) /\ Load(u, p, w) = Load(s, p, w)
    BY <1>7 DEF Load
  <2> QED BY <1>8, <2>1 DEF SumOf
<1>13. r.lo \in Int /\ r.cc \in SUBSET Flags
  <2> DEFINE k == Load(s, q, w)
             l == Load(s, p, w)
             M == Modulus(w)
             h == Modulus(w) \div 2
  <2> HIDE DEF p, q
  <2>1. k \in 0 .. M - 1 /\ l \in 0 .. M - 1
    BY <1>1, <1>3, <1>6, LoadFits, LongIs
  <2>2. s.cc \in SUBSET Flags /\ M \in Nat \ {0} /\ k \in Int /\ l \in Int
    BY <1>1, <2>1, FieldsAre, WidthIs
  <2>3. r = Operation(op, s, k, l, w)
    BY <1>12 DEF SumOf, p, q
  <2> HIDE DEF k, l, r
  <2>4. r.lo = Sum(op, k, l, s.cc, M) /\ r.cc = SumCc(op, k, l, s.cc, M, h)
    BY <2>1, <2>2, <2>3, ChainIs
  <2> HIDE DEF M, h
  <2> QED BY <2>2, <2>4, SumFits
<1> HIDE DEF r
<1>14. /\ m \in Machines /\ SameButMemory(u, m)
       /\ m.mem = Store(s, q, w, SumOf(s, op, x, y, w).lo).mem
  <2>1. q \in Int
    BY <1>6, LongIs
  <2> HIDE DEF q
  <2> DEFINE lo == r.lo
  <2>2. lo \in Int
    BY <1>13
  <2>3. m = Store(u, q, w, lo)
    BY <1>8
  <2>4. lo = SumOf(s, op, x, y, w).lo
    BY <1>12
  <2> HIDE DEF lo, m
  <2>5. Store(u, q, w, lo) \in Machines /\ SameButMemory(u, Store(u, q, w, lo))
    BY <1>1, <1>5, <2>1, <2>2, StoreIs
  <2>6. Store(u, q, w, lo).mem = Store(s, q, w, lo).mem
    BY <1>5, <1>7 DEF Store, Machines
  <2> QED BY <2>3, <2>4, <2>5, <2>6
<1> HIDE DEF m
<1>15. Ok(m)
  BY <1>7, <1>14 DEF SameButMemory, SameButSums, Ok
<1>16. b = [m EXCEPT !.cc = r.cc]
  BY <1>11, <1>15 DEF WithFlags
<1>17. b \in Machines /\ b.cc = r.cc /\ b.mem = m.mem /\ b.a = m.a /\ SameButSums(m, b)
  BY <1>13, <1>14, <1>16 DEF Machines, SameButSums
<1>18. SameButSums(s, b) /\ b.a = [s.a EXCEPT ![y] = Plus(@, -w), ![x] = Plus(@, -w)]
  BY <1>6, <1>7, <1>14, <1>17 DEF SameButSums, SameButMemory
<1>19. Summed(s, b, op, x, y, w)
  BY <1>12, <1>14, <1>17, <1>18 DEF Summed
<1> QED BY <1>11, <1>19 DEF b

\* Where an address is counted from another.
LEMMA WhereIs ==
  ASSUME NEW a \in Int, NEW q \in Addresses, NEW j \in Addresses
  PROVE  (q - a) % MemSize = j <=> q = (a + j) % MemSize
<1>1. MemSize \in Nat \ {0} /\ q \in Int /\ j \in Int /\ q - a \in Int /\ a + j \in Int
  BY MemoryAssumption DEF Addresses
<1>2. q % MemSize = q /\ j % MemSize = j
  BY <1>1, Remainders DEF Addresses
<1>3. ((q - a) % MemSize) + a \in Int /\ (((q - a) % MemSize) + a) % MemSize = q
  <2> DEFINE d == q - a
  <2>1. d \in Int /\ d + a = q /\ d % MemSize \in Int
    BY <1>1
  <2> HIDE DEF d
  <2>2. \A b \in Int : ((d % MemSize) + b) % MemSize = (d + b) % MemSize
    BY <1>1, <2>1, Remainders
  <2>3. ((d % MemSize) + a) % MemSize = (d + a) % MemSize
    BY <2>2
  <2> QED BY <1>2, <2>1, <2>3 DEF d
<1>4. (((a + j) % MemSize) - a) % MemSize = j
  <2> DEFINE d == a + j
             n == -a
  <2>1. d \in Int /\ n \in Int /\ d + n = j /\ d % MemSize \in Int
    BY <1>1
  <2>2. (d % MemSize) - a = (d % MemSize) + n
    BY <2>1
  <2> HIDE DEF d, n
  <2>3. \A b \in Int : ((d % MemSize) + b) % MemSize = (d + b) % MemSize
    BY <1>1, <2>1, Remainders
  <2>4. ((d % MemSize) + n) % MemSize = (d + n) % MemSize
    BY <2>1, <2>3
  <2> QED BY <1>2, <2>1, <2>2, <2>4 DEF d
<1>5. ASSUME (q - a) % MemSize = j PROVE q = (a + j) % MemSize
  <2>1. j + a = a + j
    BY <1>1
  <2> QED BY <1>3, <1>5, <2>1
<1>6. ASSUME q = (a + j) % MemSize PROVE (q - a) % MemSize = j
  BY <1>4, <1>6
<1> QED BY <1>5, <1>6

LEMMA WordReplaced ==
  ASSUME NEW s \in Machines, NEW a \in Int, NEW v \in Int
  PROVE  Store(s, a, 2, v).mem = [s.mem EXCEPT ![(a + 1) % MemSize] = v % Base,
                                               ![a % MemSize] = (v \div Base) % Base]
<1> DEFINE w == 2
           t == Store(s, a, w, v)
<1>1. w \in Widths /\ w = 2
  BY DEF Widths
<1> HIDE DEF w
<1>2. /\ t \in Machines
      /\ \A q \in Addresses :
           LET j == (q - a) % MemSize
           IN  /\ j \in Addresses
               /\ t.mem[q] = IF j < w THEN (v \div Modulus(w - 1 - j)) % Base ELSE s.mem[q]
  BY <1>1, StoreIs
<1>3. t.mem \in Memories /\ s.mem \in Memories
  BY <1>2, FieldsAre
<1>4. 0 \in Addresses /\ 1 \in Addresses /\ a % MemSize = (a + 0) % MemSize
  BY MemoryAssumption DEF Addresses
<1>5. ASSUME NEW q \in Addresses
      PROVE  t.mem[q] = IF q = a % MemSize THEN (v \div Base) % Base
                        ELSE IF q = (a + 1) % MemSize THEN v % Base ELSE s.mem[q]
  <2> DEFINE i == (q - a) % MemSize
  <2>1. i \in Addresses /\ t.mem[q] = IF i < w THEN (v \div Modulus(w - 1 - i)) % Base
                                      ELSE s.mem[q]
    BY <1>2
  <2>2. (i = 0 <=> q = a % MemSize) /\ (i = 1 <=> q = (a + 1) % MemSize)
    <3>1. i = 0 <=> q = (a + 0) % MemSize
      BY <1>4, WhereIs
    <3>2. i = 1 <=> q = (a + 1) % MemSize
      BY <1>4, WhereIs
    <3> QED BY <1>4, <3>1, <3>2
  <2> HIDE DEF i
  <2>3. CASE i = 0
    <3>1. w - 1 - i = 1 /\ i < w
      BY <1>1, <2>3
    <3> QED BY <2>1, <2>2, <2>3, <3>1, ModulusIs
  <2>4. CASE i = 1
    <3>1. w - 1 - i = 0 /\ i < w /\ i # 0
      BY <1>1, <2>4
    <3>2. v \div Modulus(0) = v
      BY ModulusIs
    <3> QED BY <2>1, <2>2, <2>4, <3>1, <3>2
  <2>5. CASE i # 0 /\ i # 1
    <3>1. ~(i < w)
      BY <1>1, <2>1, <2>5 DEF Addresses
    <3> QED BY <2>1, <2>2, <2>5, <3>1
  <2> QED BY <2>3, <2>4, <2>5
<1> HIDE DEF t
<1>6. t.mem = [s.mem EXCEPT ![(a + 1) % MemSize] = v % Base,
                            ![a % MemSize] = (v \div Base) % Base]
  BY <1>3, <1>5 DEF Memories, Addresses
<1> QED BY <1>1, <1>6 DEF t

\* Even addresses and those after them are different places.
LEMMA PairsApart ==
  ASSUME NEW a \in Int, NEW b \in Int, a % 2 # 1, b % 2 # 1
  PROVE  (a + 1) % MemSize # b % MemSize
<1>1. PICK k \in Nat \ {0} : MemSize = 2 * k
  <2>1. MemSize \div 2 \in Nat \ {0} /\ MemSize = 2 * (MemSize \div 2)
    BY MemoryAssumption
  <2> QED BY <2>1
<1>2. \A n \in Int : (n % MemSize) % 2 = n % 2
  <2> TAKE n \in Int
  <2>1. 2 \in Nat \ {0}
    OBVIOUS
  <2>2. (n % (2 * k)) % 2 = n % 2
    BY <2>1, Coarser
  <2> QED BY <1>1, <2>2
<1>3. a + 1 \in Int /\ (a + 1) % 2 = 1 /\ b % 2 = 0
  OBVIOUS
<1>4. ((a + 1) % MemSize) % 2 = 1 /\ (b % MemSize) % 2 = 0
  <2> DEFINE c == a + 1
  <2>1. c \in Int /\ c % 2 = 1
    BY <1>3
  <2> HIDE DEF c
  <2>2. (c % MemSize) % 2 = 1
    BY <1>2, <2>1
  <2> QED BY <1>2, <1>3, <2>2 DEF c
<1> QED BY <1>4

\* Two bytes down is one word down.
LEMMA ByteByByte ==
  ASSUME NEW v \in Int
  PROVE  /\ Plus(Plus(v, -1), -1) = Plus(v, -2)
         /\ Plus(v, -1) % MemSize = (Plus(v, -2) + 1) % MemSize
<1> DEFINE one == -1
           two == -2
<1>1. one \in Int /\ two \in Int /\ one + one = two /\ v + one = (v + two) + 1
  OBVIOUS
<1>2. Plus(v, one) \in Int /\ (v + one) + 0 = v + one
  <2>1. one \in Int /\ (v + one) + 0 = v + one
    OBVIOUS
  <2> HIDE DEF one
  <2>2. Plus(v, one) \in Long
    BY <2>1, PlusFits
  <2> QED BY <2>1, <2>2, LongIs
<1> HIDE DEF one, two
<1>3. Plus(Plus(v, one), one) = Plus(v, two)
  BY <1>1, Wrapped
<1>4. (Plus(v, one) + 0) % MemSize = ((v + one) + 0) % MemSize
  BY <1>1, Wrapped
<1>5. (Plus(v, two) + 1) % MemSize = ((v + two) + 1) % MemSize
  BY <1>1, Wrapped
<1>6. Plus(v, one) % MemSize = (Plus(v, two) + 1) % MemSize
  <2>1. Plus(v, one) + 0 = Plus(v, one)
    BY <1>2
  <2> QED BY <1>1, <1>2, <1>4, <1>5, <2>1
<1> QED BY <1>3, <1>6 DEF one, two

\* What has raised an exception before is not taken back.
LEMMA BetweenOk ==
  ASSUME NEW s \in Machines, NEW op, NEW x \in RegNos, NEW y \in RegNos, NEW w \in Widths,
         Ok(BetweenMemory(s, op, x, y, w))
  PROVE  Ok(s)
<1> DEFINE t == Dec(s, y, w)
           from == At("mem", Reg(t, y))
           u == Dec(t, x, w)
           to == At("mem", Reg(u, x))
           r == Operation(op, s, Load(u, to.n, w), Load(u, from.n, w), w)
           m == Store(u, to.n, w, r.lo)
           b == BetweenMemory(s, op, x, y, w)
<1>1. t \in Machines /\ u \in Machines /\ u.raised = s.raised
  BY TwiceAre DEF Quiet
<1>2. b = IF w > 1 /\ from.n % 2 = 1 THEN AddressError(t, from, TRUE)
          ELSE IF w > 1 /\ to.n % 2 = 1 THEN AddressError(u, to, TRUE)
          ELSE WithFlags(m, r.cc)
  BY DEF BetweenMemory
<1> HIDE DEF t, u
<1>3. from \in Places /\ to \in Places
  BY <1>1, RegFits, AtFits
<1> HIDE DEF from, to, r
<1>4. ~Ok(AddressError(t, from, TRUE)) /\ ~Ok(AddressError(u, to, TRUE))
  BY <1>1, <1>3, RaisedAre
<1>5. m.raised = u.raised
  BY <1>1 DEF Store, Machines
<1> HIDE DEF m
<1>6. Ok(b) /\ b = WithFlags(m, r.cc)
  <2>1. Ok(b)
    OBVIOUS
  <2> HIDE DEF b
  <2> QED BY <1>2, <1>4, <2>1
<1> HIDE DEF b
<1>7. CASE Ok(m)
  BY <1>1, <1>5, <1>7 DEF Ok
<1>8. CASE ~Ok(m)
  BY <1>6, <1>8 DEF WithFlags
<1> QED BY <1>7, <1>8

LEMMA BytesAreWord ==
  ASSUME NEW s \in Machines, NEW op \in Chains, NEW x \in RegNos \ {SP}, NEW y \in RegNos \ {SP},
         x # y, Ok(BetweenMemory(s, op, x, y, 2))
  PROVE  BetweenMemory(BetweenMemory(s, op, x, y, 1), op, x, y, 1) = BetweenMemory(s, op, x, y, 2)
<1> DEFINE word == BetweenMemory(s, op, x, y, 2)
           low == BetweenMemory(s, op, x, y, 1)
           bytes == BetweenMemory(low, op, x, y, 1)
           h == Base \div 2
           p == Plus(s.a[y], -2)
           q == Plus(s.a[x], -2)
           vh == s.mem[q % MemSize]
           vl == s.mem[(q + 1) % MemSize]
           yh == s.mem[p % MemSize]
           yl == s.mem[(p + 1) % MemSize]
           c == SumCc(op, vl, yl, s.cc, Base, h)
           rl == Sum(op, vl, yl, s.cc, Base)
           rh == Sum(op, vh, yh, c, Base)
<1>1. /\ Ok(s) /\ 1 \in Widths /\ 2 \in Widths /\ 1 \in {1, 2} /\ 2 \in {1, 2}
      /\ x \in RegNos /\ y \in RegNos
  <2>1. 2 \in Widths /\ 1 \in Widths
    BY DEF Widths
  <2> QED BY <2>1, BetweenOk
<1>2. /\ s.a \in [RegNos -> Long] /\ s.mem \in Memories /\ s.cc \in SUBSET Flags
      /\ s.a[x] \in Int /\ s.a[y] \in Int
  BY FieldsAre, LongIs
<1>3. p \in Int /\ q \in Int
  <2> DEFINE two == -2
  <2>1. two \in Int
    OBVIOUS
  <2> HIDE DEF two
  <2>2. Plus(s.a[y], two) \in Long /\ Plus(s.a[x], two) \in Long
    BY <1>2, <2>1, PlusFits
  <2> QED BY <2>2, LongIs DEF two
<1>4. /\ Base \in Nat \ {0} /\ h \in Nat \ {0} /\ Base = 2 * h
      /\ Modulus(1) = Base /\ Modulus(2) = Base * Base /\ Modulus(2) \div 2 = h * Base
  <2>1. Base \in Nat \ {0} /\ h \in Nat \ {0} /\ Base = 2 * h
    BY BaseIs
  <2>2. Modulus(1) = Base /\ Modulus(2) = Base * Base
    BY ModuliAre
  <2> HIDE DEF h
  <2> DEFINE n == h * Base
  <2>3. Base * Base = 2 * n /\ n \in Int
    BY <2>1
  <2> HIDE DEF n
  <2>4. (2 * n) \div 2 = n
    BY <2>3
  <2> QED BY <2>1, <2>2, <2>3, <2>4 DEF n
<1>5. vh \in 0 .. Base - 1 /\ vl \in 0 .. Base - 1 /\ yh \in 0 .. Base - 1 /\ yl \in 0 .. Base - 1
  <2> HIDE DEF p, q
  <2>1. q + 1 \in Int /\ p + 1 \in Int
    BY <1>3
  <2> QED BY <1>2, <1>3, <2>1, BytesAre DEF Bytes
<1>6. /\ Summed(s, word, op, x, y, 2) /\ q % 2 # 1 /\ p % 2 # 1
      /\ Summed(s, low, op, x, y, 1)
  <2>1. Summed(s, word, op, x, y, 2) /\ q % 2 # 1 /\ p % 2 # 1
    BY <1>1, BetweenIs
  <2>2. Summed(s, low, op, x, y, 1)
    BY <1>1, BetweenIs
  <2> QED BY <2>1, <2>2
<1> HIDE DEF word, low
<1>7. low \in Machines /\ Ok(low) /\ SameButSums(s, low)
  BY <1>1, <1>6 DEF Summed, SameButSums, Ok
<1>8. Summed(low, bytes, op, x, y, 1)
  BY <1>1, <1>7, BetweenIs
<1> HIDE DEF bytes
\* The bytes that are read.
<1>9. /\ q % MemSize \in Addresses /\ (q + 1) % MemSize \in Addresses
      /\ p % MemSize \in Addresses /\ (p + 1) % MemSize \in Addresses
      /\ (q + 1) % MemSize # q % MemSize /\ (q + 1) % MemSize # p % MemSize
  <2> HIDE DEF p, q
  <2>1. q + 1 \in Int /\ p + 1 \in Int
    BY <1>3
  <2>2. (q + 1) % MemSize # q % MemSize /\ (q + 1) % MemSize # p % MemSize
    BY <1>3, <1>6, PairsApart
  <2> QED BY <1>3, <2>1, <2>2, AddressIs
<1>10. /\ Plus(s.a[x], -1) % MemSize = (q + 1) % MemSize
       /\ Plus(s.a[y], -1) % MemSize = (p + 1) % MemSize
       /\ Plus(s.a[x], -1) \in Int /\ Plus(s.a[y], -1) \in Int
       /\ Plus(Plus(s.a[x], -1), -1) = q /\ Plus(Plus(s.a[y], -1), -1) = p
  <2>1. /\ Plus(s.a[x], -1) % MemSize = (q + 1) % MemSize
        /\ Plus(s.a[y], -1) % MemSize = (p + 1) % MemSize
        /\ Plus(Plus(s.a[x], -1), -1) = q /\ Plus(Plus(s.a[y], -1), -1) = p
    BY <1>2, ByteByByte
  <2> DEFINE one == -1
  <2>2. one \in Int
    OBVIOUS
  <2> HIDE DEF one
  <2>3. Plus(s.a[x], one) \in Long /\ Plus(s.a[y], one) \in Long
    BY <1>2, <2>2, PlusFits
  <2> QED BY <2>1, <2>3, LongIs DEF one
<1>11. /\ low.a[x] = Plus(s.a[x], -1) /\ low.a[y] = Plus(s.a[y], -1)
       /\ low.a = [s.a EXCEPT ![y] = Plus(s.a[y], -1), ![x] = Plus(s.a[x], -1)]
  <2> DEFINE f == Plus(s.a[y], -1)
             g == Plus(s.a[x], -1)
  <2>1. low.a = [s.a EXCEPT ![y] = f, ![x] = g]
    BY <1>6 DEF Summed
  <2> HIDE DEF f, g
  <2>2. low.a[x] = g /\ low.a[y] = f
    BY <1>1, <1>2, <2>1
  <2> QED BY <2>1, <2>2 DEF f, g
<1>12. bytes.a = word.a
  <2> DEFINE f == Plus(s.a[y], -1)
             g == Plus(s.a[x], -1)
  <2>1. low.a = [s.a EXCEPT ![y] = f, ![x] = g]
    BY <1>11
  <2>2. bytes.a = [low.a EXCEPT ![y] = p, ![x] = q]
    BY <1>8, <1>10, <1>11 DEF Summed
  <2>3. word.a = [s.a EXCEPT ![y] = p, ![x] = q]
    BY <1>6 DEF Summed
  <2> HIDE DEF f, g, p, q
  <2> QED BY <1>1, <1>2, <2>1, <2>2, <2>3
<1>13. /\ Load(s, q, 2) = vh * Base + vl /\ Load(s, p, 2) = yh * Base + yl
       /\ Load(s, Plus(s.a[x], -1), 1) = vl /\ Load(s, Plus(s.a[y], -1), 1) = yl
  <2> DEFINE f == Plus(s.a[y], -1)
             g == Plus(s.a[x], -1)
  <2>1. /\ f \in Int /\ g \in Int
        /\ f % MemSize = (p + 1) % MemSize /\ g % MemSize = (q + 1) % MemSize
    BY <1>10
  <2> HIDE DEF f, g, p, q
  <2>2. p + 0 = p /\ q + 0 = q /\ f + 0 = f /\ g + 0 = g
    BY <1>3, <2>1
  <2>3. /\ Load(s, q, 2) = Cell(s, q, 0) * Base + Cell(s, q, 1)
        /\ Load(s, p, 2) = Cell(s, p, 0) * Base + Cell(s, p, 1)
        /\ Load(s, g, 1) = Cell(s, g, 0) /\ Load(s, f, 1) = Cell(s, f, 0)
    BY <1>3, <2>1, LoadIs
  <2>4. /\ Cell(s, q, 0) = vh /\ Cell(s, q, 1) = vl /\ Cell(s, p, 0) = yh /\ Cell(s, p, 1) = yl
        /\ Cell(s, g, 0) = vl /\ Cell(s, f, 0) = yl
    BY <2>1, <2>2 DEF Cell
  <2> QED BY <2>3, <2>4 DEF f, g
<1> HIDE DEF vh, vl, yh, yl
\* What is computed of them.
<1>14. /\ SumOf(s, op, x, y, 1).lo = rl /\ SumOf(s, op, x, y, 1).cc = c
       /\ rl \in 0 .. Base - 1 /\ rl \in Int
  <2>1. SumOf(s, op, x, y, 1) = Operation(op, s, vl, yl, 1)
    BY <1>13 DEF SumOf
  <2> HIDE DEF h
  <2>2. vl \in 0 .. Modulus(1) - 1 /\ yl \in 0 .. Modulus(1) - 1 /\ Modulus(1) \div 2 = h
    BY <1>4, <1>5
  <2>3. /\ Operation(op, s, vl, yl, 1).lo = Sum(op, vl, yl, s.cc, Modulus(1))
        /\ Operation(op, s, vl, yl, 1).cc
             = SumCc(op, vl, yl, s.cc, Modulus(1), Modulus(1) \div 2)
    BY <1>1, <1>2, <2>2, ChainIs
  <2>4. vl \in Int /\ yl \in Int
    BY <1>4, <1>5
  <2>5. \A g, i \in Int : \A d : /\ Sum(op, g, i, d, Base) \in 0 .. Base - 1
                                 /\ Sum(op, g, i, d, Base) \in Int
    BY <1>4, SumFits
  <2> QED BY <1>4, <2>1, <2>2, <2>3, <2>4, <2>5
<1>15. low.mem = [s.mem EXCEPT ![(q + 1) % MemSize] = rl] /\ low.cc = c
  <2> DEFINE g == Plus(s.a[x], -1)
             n == SumOf(s, op, x, y, 1).lo
  <2>1. low.mem = Store(s, g, 1, n).mem /\ low.cc = SumOf(s, op, x, y, 1).cc
    BY <1>6 DEF Summed
  <2>2. n = rl /\ g \in Int /\ g % MemSize = (q + 1) % MemSize
    BY <1>10, <1>14
  <2> HIDE DEF g, n, rl, q
  <2>3. n \in Int /\ n % Base = n
    <3>1. n \in Int /\ n \in 0 .. Base - 1
      BY <1>14, <2>2
    <3> QED BY <1>4, <3>1, Remainders
  <2>4. Store(s, g, 1, n).mem = [s.mem EXCEPT ![g % MemSize] = n % Base]
    BY <2>2, <2>3, ByteReplaced
  <2> QED BY <1>14, <2>1, <2>2, <2>3, <2>4
<1>16. c \in SUBSET Flags
  BY <1>7, <1>15, FieldsAre
<1> HIDE DEF c, rl
<1>17. Load(low, q, 1) = vh /\ Load(low, p, 1) = yh
  <2> HIDE DEF p, q
  <2>1. p + 0 = p /\ q + 0 = q
    BY <1>3
  <2>2. Load(low, q, 1) = low.mem[q % MemSize] /\ Load(low, p, 1) = low.mem[p % MemSize]
    <3>1. Load(low, q, 1) = Cell(low, q, 0) /\ Load(low, p, 1) = Cell(low, p, 0)
      BY <1>3, LoadIs
    <3> QED BY <2>1, <3>1 DEF Cell
  <2>3. low.mem[q % MemSize] = s.mem[q % MemSize] /\ low.mem[p % MemSize] = s.mem[p % MemSize]
    BY <1>2, <1>9, <1>15 DEF Memories, Addresses
  <2> QED BY <2>2, <2>3 DEF vh, yh
<1>18. /\ SumOf(low, op, x, y, 1).lo = rh
       /\ SumOf(low, op, x, y, 1).cc = SumCc(op, vh, yh, c, Base, h)
       /\ rh \in 0 .. Base - 1 /\ rh \in Int
  <2>1. SumOf(low, op, x, y, 1) = Operation(op, low, vh, yh, 1)
    BY <1>10, <1>11, <1>17 DEF SumOf
  <2> HIDE DEF h
  <2>2. vh \in 0 .. Modulus(1) - 1 /\ yh \in 0 .. Modulus(1) - 1 /\ Modulus(1) \div 2 = h
    BY <1>4, <1>5
  <2>3. low.cc = c /\ low.cc \in SUBSET Flags
    BY <1>15, <1>16
  <2>4. /\ Operation(op, low, vh, yh, 1).lo = Sum(op, vh, yh, low.cc, Modulus(1))
        /\ Operation(op, low, vh, yh, 1).cc
             = SumCc(op, vh, yh, low.cc, Modulus(1), Modulus(1) \div 2)
    BY <1>1, <2>2, <2>3, ChainIs
  <2>5. vh \in Int /\ yh \in Int
    BY <1>4, <1>5
  <2>6. \A g, i \in Int : \A d : /\ Sum(op, g, i, d, Base) \in 0 .. Base - 1
                                 /\ Sum(op, g, i, d, Base) \in Int
    BY <1>4, SumFits
  <2> QED BY <1>4, <2>1, <2>2, <2>3, <2>4, <2>5, <2>6
<1>19. bytes.mem = [low.mem EXCEPT ![q % MemSize] = rh] /\ bytes.cc = SumCc(op, vh, yh, c, Base, h)
  <2> DEFINE n == SumOf(low, op, x, y, 1).lo
  <2>1. bytes.mem = Store(low, q, 1, n).mem /\ bytes.cc = SumOf(low, op, x, y, 1).cc
    BY <1>8, <1>10, <1>11 DEF Summed
  <2>2. n = rh
    BY <1>18
  <2> HIDE DEF n, rh, q
  <2>3. n \in Int /\ n % Base = n
    <3>1. n \in Int /\ n \in 0 .. Base - 1
      BY <1>18, <2>2
    <3> QED BY <1>4, <3>1, Remainders
  <2>4. Store(low, q, 1, n).mem = [low.mem EXCEPT ![q % MemSize] = n % Base]
    BY <1>3, <1>7, <2>3, ByteReplaced
  <2> QED BY <1>18, <2>1, <2>2, <2>3, <2>4
<1>20. /\ SumOf(s, op, x, y, 2).lo = rh * Base + rl
       /\ SumOf(s, op, x, y, 2).cc = SumCc(op, vh, yh, c, Base, h)
  <2> DEFINE v == vh * Base + vl
             n == yh * Base + yl
             M == Base * Base
             k == h * Base
  <2>1. SumOf(s, op, x, y, 2) = Operation(op, s, v, n, 2)
    BY <1>13 DEF SumOf
  <2>2. v \in 0 .. M - 1 /\ n \in 0 .. M - 1
    BY <1>4, <1>5, Joined
  <2>3. Sum(op, v, n, s.cc, M) = rh * Base + rl /\ SumCc(op, v, n, s.cc, M, k)
                                                     = SumCc(op, vh, yh, c, Base, h)
    <3> DEFINE m == Base
               d == s.cc
    <3>1. /\ h \in Nat \ {0} /\ m = 2 * h
          /\ vh \in 0 .. m - 1 /\ vl \in 0 .. m - 1 /\ yh \in 0 .. m - 1 /\ yl \in 0 .. m - 1
      BY <1>4, <1>5
    <3> HIDE DEF h, m, d
    <3>2. Chained(op, h, m, vh, vl, yh, yl, d)
      BY <3>1, DigitsChain
    <3> QED BY <3>2 DEF Chained, c, rl, rh, m, d
  <2>4. M = Modulus(2) /\ k = Modulus(2) \div 2
    BY <1>4
  <2> HIDE DEF v, n, M, k
  <2>5. /\ Operation(op, s, v, n, 2).lo = Sum(op, v, n, s.cc, Modulus(2))
        /\ Operation(op, s, v, n, 2).cc
             = SumCc(op, v, n, s.cc, Modulus(2), Modulus(2) \div 2)
    BY <1>1, <1>2, <2>2, <2>4, ChainIs
  <2> QED BY <2>1, <2>3, <2>4, <2>5
<1>21. word.mem = [s.mem EXCEPT ![(q + 1) % MemSize] = rl, ![q % MemSize] = rh]
  <2> DEFINE n == rh * Base + rl
  <2>1. word.mem = Store(s, q, 2, n).mem
    BY <1>6, <1>20 DEF Summed
  <2>2. n \in Int /\ n % Base = rl /\ n \div Base = rh /\ rh % Base = rh
    <3> HIDE DEF rh
    <3>1. n = Base * rh + rl
      BY <1>4, <1>14, <1>18
    <3>2. n \in Int
      BY <1>4, <1>14, <1>18
    <3>3. (Base * rh + rl) \div Base = rh /\ (Base * rh + rl) % Base = rl
      BY <1>4, <1>14, <1>18, OnlyParts
    <3>4. rh % Base = rh
      BY <1>4, <1>18, Remainders
    <3> QED BY <3>1, <3>2, <3>3, <3>4
  <2> HIDE DEF n, q, rh
  <2>3. Store(s, q, 2, n).mem = [s.mem EXCEPT ![(q + 1) % MemSize] = n % Base,
                                              ![q % MemSize] = (n \div Base) % Base]
    BY <1>3, <2>2, WordReplaced
  <2> QED BY <2>1, <2>2, <2>3
<1>22. bytes.mem = word.mem
  BY <1>15, <1>19, <1>21
<1>23. bytes.cc = word.cc
  BY <1>6, <1>19, <1>20 DEF Summed
<1>24. SameButSums(s, bytes) /\ SameButSums(s, word) /\ bytes \in Machines /\ word \in Machines
  BY <1>6, <1>7, <1>8 DEF Summed, SameButSums
<1>25. bytes = word
  BY <1>12, <1>22, <1>23, <1>24, SameSums
<1> QED BY <1>25 DEF bytes, word, low

LEMMA ChainsAreWords ==
  ASSUME cpu \in Machines
  PROVE  ChainsInMemory
BY BytesAreWord DEF ChainsInMemory, Chains

------------------------------------------------------------------------------
(* What Alu computes for operands of each width. *)

A1 == INSTANCE AluProofs WITH SignBit <- Modulus(1) \div 2, Source <- {}, Counts <- {},
        cpu <- <<>>, running <- TRUE, packed <- <<>>
A2 == INSTANCE AluProofs WITH SignBit <- Modulus(2) \div 2, Source <- {}, Counts <- {},
        cpu <- <<>>, running <- TRUE, packed <- <<>>
A4 == INSTANCE AluProofs WITH SignBit <- Modulus(4) \div 2, Source <- {}, Counts <- {},
        cpu <- <<>>, running <- TRUE, packed <- <<>>

\* An instance of AluProofs has the operations of the instance of Alu beside it.
LEMMA SameByte ==
  ASSUME NEW op \in A1!Names, NEW s, NEW y
  PROVE  Byte!Operation(op, s, y) = A1!Operation(op, s, y)
<1>1. \A v, n : Byte!Add(v, n) = A1!Add(v, n)
  BY DEF Byte!Add, A1!Add, Byte!Modulus, A1!Modulus, Byte!Result, A1!Result, Byte!SumOverflows,
    A1!SumOverflows, Byte!NZ, A1!NZ, Byte!If, A1!If, Byte!X, A1!X, Byte!Sign, A1!Sign
<1>2. \A v, n : Byte!Sub(v, n) = A1!Sub(v, n)
  BY DEF Byte!Sub, A1!Sub, Byte!Modulus, A1!Modulus, Byte!Result, A1!Result,
    Byte!DifferenceOverflows, A1!DifferenceOverflows, Byte!NZ, A1!NZ, Byte!If, A1!If, Byte!X,
    A1!X, Byte!Sign, A1!Sign
<1>3. \A v, n : Byte!Addx(v, n) = A1!Addx(v, n)
  BY DEF Byte!Addx, A1!Addx, Byte!X, A1!X, Byte!Modulus, A1!Modulus, Byte!Extended,
    A1!Extended, Byte!SumOverflows, A1!SumOverflows, Byte!Result, A1!Result, Byte!If, A1!If,
    Byte!Sign, A1!Sign, Byte!NZ, A1!NZ
<1>4. \A v, n : Byte!Subx(v, n) = A1!Subx(v, n)
  BY DEF Byte!Subx, A1!Subx, Byte!X, A1!X, Byte!Modulus, A1!Modulus, Byte!Extended,
    A1!Extended, Byte!DifferenceOverflows, A1!DifferenceOverflows, Byte!Result, A1!Result,
    Byte!If, A1!If, Byte!Sign, A1!Sign, Byte!NZ, A1!NZ
<1>5. \A v, n : Byte!Cmp(v, n) = A1!Cmp(v, n)
  BY DEF Byte!Cmp, A1!Cmp, Byte!KeepX, A1!KeepX, Byte!Sub, A1!Sub, Byte!X, A1!X, Byte!Modulus,
    A1!Modulus, Byte!Result, A1!Result, Byte!DifferenceOverflows, A1!DifferenceOverflows,
    Byte!NZ, A1!NZ, Byte!If, A1!If, Byte!Sign, A1!Sign
<1>6. \A v : Byte!Neg(v) = A1!Neg(v)
  BY DEF Byte!Neg, A1!Neg, Byte!Sub, A1!Sub, Byte!Modulus, A1!Modulus, Byte!Result, A1!Result,
    Byte!DifferenceOverflows, A1!DifferenceOverflows, Byte!NZ, A1!NZ, Byte!If, A1!If, Byte!X,
    A1!X, Byte!Sign, A1!Sign
<1>7. \A v : Byte!Negx(v) = A1!Negx(v)
  BY DEF Byte!Negx, A1!Negx, Byte!Subx, A1!Subx, Byte!X, A1!X, Byte!Modulus, A1!Modulus,
    Byte!Extended, A1!Extended, Byte!DifferenceOverflows, A1!DifferenceOverflows, Byte!Result,
    A1!Result, Byte!If, A1!If, Byte!Sign, A1!Sign, Byte!NZ, A1!NZ
<1>8. \A v, n : Byte!And(v, n) = A1!And(v, n)
  BY DEF Byte!And, A1!And, Byte!Plain, A1!Plain, Byte!Combined, A1!Combined, Byte!KeepX,
    A1!KeepX, Byte!NZ, A1!NZ, Byte!Has, A1!Has, Byte!X, A1!X, Byte!If, A1!If, Byte!Sign,
    A1!Sign
<1>9. \A v, n : Byte!Or(v, n) = A1!Or(v, n)
  BY DEF Byte!Or, A1!Or, Byte!Plain, A1!Plain, Byte!Combined, A1!Combined, Byte!KeepX,
    A1!KeepX, Byte!NZ, A1!NZ, Byte!Has, A1!Has, Byte!X, A1!X, Byte!If, A1!If, Byte!Sign,
    A1!Sign
<1>10. \A v, n : Byte!Eor(v, n) = A1!Eor(v, n)
  BY DEF Byte!Eor, A1!Eor, Byte!Plain, A1!Plain, Byte!Combined, A1!Combined, Byte!KeepX,
    A1!KeepX, Byte!NZ, A1!NZ, Byte!Has, A1!Has, Byte!X, A1!X, Byte!If, A1!If, Byte!Sign,
    A1!Sign
<1>11. \A v : Byte!Not(v) = A1!Not(v)
  BY DEF Byte!Not, A1!Not, Byte!Plain, A1!Plain, Byte!Modulus, A1!Modulus, Byte!KeepX,
    A1!KeepX, Byte!NZ, A1!NZ, Byte!X, A1!X, Byte!If, A1!If, Byte!Sign, A1!Sign
<1>12. \A v : Byte!Tst(v) = A1!Tst(v)
  BY DEF Byte!Tst, A1!Tst, Byte!Plain, A1!Plain, Byte!KeepX, A1!KeepX, Byte!NZ, A1!NZ, Byte!X,
    A1!X, Byte!If, A1!If, Byte!Sign, A1!Sign
<1>13. \A v, n : Byte!Asl(v, n) = A1!Asl(v, n)
  BY DEF Byte!Asl, A1!Asl, Byte!States, A1!States, Byte!Left, A1!Left, Byte!If, A1!If,
    Byte!Sign, A1!Sign, Byte!WithX, A1!WithX, Byte!Shifted, A1!Shifted, Byte!Operands,
    A1!Operands, Byte!Flags, A1!Flags, Byte!Out, A1!Out, Byte!Modulus, A1!Modulus, Byte!SetX,
    A1!SetX, Byte!Times, A1!Times, Byte!NZ, A1!NZ, Byte!X, A1!X
<1>14. \A v, n : Byte!Asr(v, n) = A1!Asr(v, n)
  BY DEF Byte!Asr, A1!Asr, Byte!States, A1!States, Byte!Right, A1!Right, Byte!Sign, A1!Sign,
    Byte!WithX, A1!WithX, Byte!Shifted, A1!Shifted, Byte!Operands, A1!Operands, Byte!Flags,
    A1!Flags, Byte!Out, A1!Out, Byte!SetX, A1!SetX, Byte!Times, A1!Times, Byte!NZ, A1!NZ,
    Byte!Modulus, A1!Modulus, Byte!X, A1!X, Byte!If, A1!If
<1>15. \A v, n : Byte!Lsl(v, n) = A1!Lsl(v, n)
  BY DEF Byte!Lsl, A1!Lsl, Byte!WithX, A1!WithX, Byte!Shifted, A1!Shifted, Byte!States,
    A1!States, Byte!Left, A1!Left, Byte!SetX, A1!SetX, Byte!Times, A1!Times, Byte!NZ, A1!NZ,
    Byte!Operands, A1!Operands, Byte!Flags, A1!Flags, Byte!Out, A1!Out, Byte!Modulus,
    A1!Modulus, Byte!Sign, A1!Sign, Byte!X, A1!X, Byte!If, A1!If
<1>16. \A v, n : Byte!Lsr(v, n) = A1!Lsr(v, n)
  BY DEF Byte!Lsr, A1!Lsr, Byte!WithX, A1!WithX, Byte!Shifted, A1!Shifted, Byte!States,
    A1!States, Byte!Right, A1!Right, Byte!SetX, A1!SetX, Byte!Times, A1!Times, Byte!NZ, A1!NZ,
    Byte!Operands, A1!Operands, Byte!Flags, A1!Flags, Byte!Out, A1!Out, Byte!X, A1!X, Byte!If,
    A1!If, Byte!Sign, A1!Sign, Byte!Modulus, A1!Modulus
<1>17. \A v, n : Byte!Rol(v, n) = A1!Rol(v, n)
  BY DEF Byte!Rol, A1!Rol, Byte!Shifted, A1!Shifted, Byte!States, A1!States, Byte!Left,
    A1!Left, Byte!Sign, A1!Sign, Byte!Times, A1!Times, Byte!NZ, A1!NZ, Byte!Operands,
    A1!Operands, Byte!Flags, A1!Flags, Byte!Out, A1!Out, Byte!Modulus, A1!Modulus, Byte!If,
    A1!If, Byte!X, A1!X
<1>18. \A v, n : Byte!Ror(v, n) = A1!Ror(v, n)
  BY DEF Byte!Ror, A1!Ror, Byte!Shifted, A1!Shifted, Byte!States, A1!States, Byte!Right,
    A1!Right, Byte!Times, A1!Times, Byte!NZ, A1!NZ, Byte!Operands, A1!Operands, Byte!Flags,
    A1!Flags, Byte!Out, A1!Out, Byte!If, A1!If, Byte!Sign, A1!Sign, Byte!Modulus, A1!Modulus,
    Byte!X, A1!X
<1>19. \A v, n : Byte!Roxl(v, n) = A1!Roxl(v, n)
  BY DEF Byte!Roxl, A1!Roxl, Byte!States, A1!States, Byte!SetX, A1!SetX, Byte!Left, A1!Left,
    Byte!X, A1!X, Byte!Sign, A1!Sign, Byte!XInC, A1!XInC, Byte!Shifted, A1!Shifted,
    Byte!Operands, A1!Operands, Byte!Flags, A1!Flags, Byte!If, A1!If, Byte!Out, A1!Out,
    Byte!Modulus, A1!Modulus, Byte!Times, A1!Times, Byte!NZ, A1!NZ
<1>20. \A v, n : Byte!Roxr(v, n) = A1!Roxr(v, n)
  BY DEF Byte!Roxr, A1!Roxr, Byte!States, A1!States, Byte!SetX, A1!SetX, Byte!Right, A1!Right,
    Byte!X, A1!X, Byte!XInC, A1!XInC, Byte!Shifted, A1!Shifted, Byte!Operands, A1!Operands,
    Byte!Flags, A1!Flags, Byte!If, A1!If, Byte!Out, A1!Out, Byte!Times, A1!Times, Byte!NZ,
    A1!NZ, Byte!Modulus, A1!Modulus, Byte!Sign, A1!Sign
<1>21. CASE op \in {"add", "sub", "addx", "subx", "cmp", "neg", "negx"}
  BY <1>21, <1>1, <1>2, <1>3, <1>4, <1>5, <1>6, <1>7
     DEF Byte!Operation, A1!Operation
<1>22. CASE op \in {"and", "or", "eor", "not", "tas"}
  BY <1>22, <1>8, <1>9, <1>10, <1>11, <1>12
     DEF Byte!Operation, A1!Operation
<1>23. CASE op \in {"asl", "asr", "lsl", "lsr"}
  BY <1>23, <1>13, <1>14, <1>15, <1>16
     DEF Byte!Operation, A1!Operation
<1>24. CASE op \in {"rol", "ror"}
  BY <1>24, <1>17, <1>18
     DEF Byte!Operation, A1!Operation
<1>25. CASE op \in {"roxl", "roxr"}
  BY <1>25, <1>19, <1>20
     DEF Byte!Operation, A1!Operation
<1> QED BY <1>21, <1>22, <1>23, <1>24, <1>25 DEF A1!Names

LEMMA SameWord ==
  ASSUME NEW op \in A2!Names, NEW s, NEW y
  PROVE  Word!Operation(op, s, y) = A2!Operation(op, s, y)
<1>1. \A v, n : Word!Add(v, n) = A2!Add(v, n)
  BY DEF Word!Add, A2!Add, Word!Modulus, A2!Modulus, Word!Result, A2!Result, Word!SumOverflows,
    A2!SumOverflows, Word!NZ, A2!NZ, Word!If, A2!If, Word!X, A2!X, Word!Sign, A2!Sign
<1>2. \A v, n : Word!Sub(v, n) = A2!Sub(v, n)
  BY DEF Word!Sub, A2!Sub, Word!Modulus, A2!Modulus, Word!Result, A2!Result,
    Word!DifferenceOverflows, A2!DifferenceOverflows, Word!NZ, A2!NZ, Word!If, A2!If, Word!X,
    A2!X, Word!Sign, A2!Sign
<1>3. \A v, n : Word!Addx(v, n) = A2!Addx(v, n)
  BY DEF Word!Addx, A2!Addx, Word!X, A2!X, Word!Modulus, A2!Modulus, Word!Extended,
    A2!Extended, Word!SumOverflows, A2!SumOverflows, Word!Result, A2!Result, Word!If, A2!If,
    Word!Sign, A2!Sign, Word!NZ, A2!NZ
<1>4. \A v, n : Word!Subx(v, n) = A2!Subx(v, n)
  BY DEF Word!Subx, A2!Subx, Word!X, A2!X, Word!Modulus, A2!Modulus, Word!Extended,
    A2!Extended, Word!DifferenceOverflows, A2!DifferenceOverflows, Word!Result, A2!Result,
    Word!If, A2!If, Word!Sign, A2!Sign, Word!NZ, A2!NZ
<1>5. \A v, n : Word!Cmp(v, n) = A2!Cmp(v, n)
  BY DEF Word!Cmp, A2!Cmp, Word!KeepX, A2!KeepX, Word!Sub, A2!Sub, Word!X, A2!X, Word!Modulus,
    A2!Modulus, Word!Result, A2!Result, Word!DifferenceOverflows, A2!DifferenceOverflows,
    Word!NZ, A2!NZ, Word!If, A2!If, Word!Sign, A2!Sign
<1>6. \A v : Word!Neg(v) = A2!Neg(v)
  BY DEF Word!Neg, A2!Neg, Word!Sub, A2!Sub, Word!Modulus, A2!Modulus, Word!Result, A2!Result,
    Word!DifferenceOverflows, A2!DifferenceOverflows, Word!NZ, A2!NZ, Word!If, A2!If, Word!X,
    A2!X, Word!Sign, A2!Sign
<1>7. \A v : Word!Negx(v) = A2!Negx(v)
  BY DEF Word!Negx, A2!Negx, Word!Subx, A2!Subx, Word!X, A2!X, Word!Modulus, A2!Modulus,
    Word!Extended, A2!Extended, Word!DifferenceOverflows, A2!DifferenceOverflows, Word!Result,
    A2!Result, Word!If, A2!If, Word!Sign, A2!Sign, Word!NZ, A2!NZ
<1>8. \A v, n : Word!And(v, n) = A2!And(v, n)
  BY DEF Word!And, A2!And, Word!Plain, A2!Plain, Word!Combined, A2!Combined, Word!KeepX,
    A2!KeepX, Word!NZ, A2!NZ, Word!Has, A2!Has, Word!X, A2!X, Word!If, A2!If, Word!Sign,
    A2!Sign
<1>9. \A v, n : Word!Or(v, n) = A2!Or(v, n)
  BY DEF Word!Or, A2!Or, Word!Plain, A2!Plain, Word!Combined, A2!Combined, Word!KeepX,
    A2!KeepX, Word!NZ, A2!NZ, Word!Has, A2!Has, Word!X, A2!X, Word!If, A2!If, Word!Sign,
    A2!Sign
<1>10. \A v, n : Word!Eor(v, n) = A2!Eor(v, n)
  BY DEF Word!Eor, A2!Eor, Word!Plain, A2!Plain, Word!Combined, A2!Combined, Word!KeepX,
    A2!KeepX, Word!NZ, A2!NZ, Word!Has, A2!Has, Word!X, A2!X, Word!If, A2!If, Word!Sign,
    A2!Sign
<1>11. \A v : Word!Not(v) = A2!Not(v)
  BY DEF Word!Not, A2!Not, Word!Plain, A2!Plain, Word!Modulus, A2!Modulus, Word!KeepX,
    A2!KeepX, Word!NZ, A2!NZ, Word!X, A2!X, Word!If, A2!If, Word!Sign, A2!Sign
<1>12. \A v : Word!Tst(v) = A2!Tst(v)
  BY DEF Word!Tst, A2!Tst, Word!Plain, A2!Plain, Word!KeepX, A2!KeepX, Word!NZ, A2!NZ, Word!X,
    A2!X, Word!If, A2!If, Word!Sign, A2!Sign
<1>13. \A v, n : Word!Asl(v, n) = A2!Asl(v, n)
  BY DEF Word!Asl, A2!Asl, Word!States, A2!States, Word!Left, A2!Left, Word!If, A2!If,
    Word!Sign, A2!Sign, Word!WithX, A2!WithX, Word!Shifted, A2!Shifted, Word!Operands,
    A2!Operands, Word!Flags, A2!Flags, Word!Out, A2!Out, Word!Modulus, A2!Modulus, Word!SetX,
    A2!SetX, Word!Times, A2!Times, Word!NZ, A2!NZ, Word!X, A2!X
<1>14. \A v, n : Word!Asr(v, n) = A2!Asr(v, n)
  BY DEF Word!Asr, A2!Asr, Word!States, A2!States, Word!Right, A2!Right, Word!Sign, A2!Sign,
    Word!WithX, A2!WithX, Word!Shifted, A2!Shifted, Word!Operands, A2!Operands, Word!Flags,
    A2!Flags, Word!Out, A2!Out, Word!SetX, A2!SetX, Word!Times, A2!Times, Word!NZ, A2!NZ,
    Word!Modulus, A2!Modulus, Word!X, A2!X, Word!If, A2!If
<1>15. \A v, n : Word!Lsl(v, n) = A2!Lsl(v, n)
  BY DEF Word!Lsl, A2!Lsl, Word!WithX, A2!WithX, Word!Shifted, A2!Shifted, Word!States,
    A2!States, Word!Left, A2!Left, Word!SetX, A2!SetX, Word!Times, A2!Times, Word!NZ, A2!NZ,
    Word!Operands, A2!Operands, Word!Flags, A2!Flags, Word!Out, A2!Out, Word!Modulus,
    A2!Modulus, Word!Sign, A2!Sign, Word!X, A2!X, Word!If, A2!If
<1>16. \A v, n : Word!Lsr(v, n) = A2!Lsr(v, n)
  BY DEF Word!Lsr, A2!Lsr, Word!WithX, A2!WithX, Word!Shifted, A2!Shifted, Word!States,
    A2!States, Word!Right, A2!Right, Word!SetX, A2!SetX, Word!Times, A2!Times, Word!NZ, A2!NZ,
    Word!Operands, A2!Operands, Word!Flags, A2!Flags, Word!Out, A2!Out, Word!X, A2!X, Word!If,
    A2!If, Word!Sign, A2!Sign, Word!Modulus, A2!Modulus
<1>17. \A v, n : Word!Rol(v, n) = A2!Rol(v, n)
  BY DEF Word!Rol, A2!Rol, Word!Shifted, A2!Shifted, Word!States, A2!States, Word!Left,
    A2!Left, Word!Sign, A2!Sign, Word!Times, A2!Times, Word!NZ, A2!NZ, Word!Operands,
    A2!Operands, Word!Flags, A2!Flags, Word!Out, A2!Out, Word!Modulus, A2!Modulus, Word!If,
    A2!If, Word!X, A2!X
<1>18. \A v, n : Word!Ror(v, n) = A2!Ror(v, n)
  BY DEF Word!Ror, A2!Ror, Word!Shifted, A2!Shifted, Word!States, A2!States, Word!Right,
    A2!Right, Word!Times, A2!Times, Word!NZ, A2!NZ, Word!Operands, A2!Operands, Word!Flags,
    A2!Flags, Word!Out, A2!Out, Word!If, A2!If, Word!Sign, A2!Sign, Word!Modulus, A2!Modulus,
    Word!X, A2!X
<1>19. \A v, n : Word!Roxl(v, n) = A2!Roxl(v, n)
  BY DEF Word!Roxl, A2!Roxl, Word!States, A2!States, Word!SetX, A2!SetX, Word!Left, A2!Left,
    Word!X, A2!X, Word!Sign, A2!Sign, Word!XInC, A2!XInC, Word!Shifted, A2!Shifted,
    Word!Operands, A2!Operands, Word!Flags, A2!Flags, Word!If, A2!If, Word!Out, A2!Out,
    Word!Modulus, A2!Modulus, Word!Times, A2!Times, Word!NZ, A2!NZ
<1>20. \A v, n : Word!Roxr(v, n) = A2!Roxr(v, n)
  BY DEF Word!Roxr, A2!Roxr, Word!States, A2!States, Word!SetX, A2!SetX, Word!Right, A2!Right,
    Word!X, A2!X, Word!XInC, A2!XInC, Word!Shifted, A2!Shifted, Word!Operands, A2!Operands,
    Word!Flags, A2!Flags, Word!If, A2!If, Word!Out, A2!Out, Word!Times, A2!Times, Word!NZ,
    A2!NZ, Word!Modulus, A2!Modulus, Word!Sign, A2!Sign
<1>21. CASE op \in {"add", "sub", "addx", "subx", "cmp", "neg", "negx"}
  BY <1>21, <1>1, <1>2, <1>3, <1>4, <1>5, <1>6, <1>7
     DEF Word!Operation, A2!Operation
<1>22. CASE op \in {"and", "or", "eor", "not", "tas"}
  BY <1>22, <1>8, <1>9, <1>10, <1>11, <1>12
     DEF Word!Operation, A2!Operation
<1>23. CASE op \in {"asl", "asr", "lsl", "lsr"}
  BY <1>23, <1>13, <1>14, <1>15, <1>16
     DEF Word!Operation, A2!Operation
<1>24. CASE op \in {"rol", "ror"}
  BY <1>24, <1>17, <1>18
     DEF Word!Operation, A2!Operation
<1>25. CASE op \in {"roxl", "roxr"}
  BY <1>25, <1>19, <1>20
     DEF Word!Operation, A2!Operation
<1> QED BY <1>21, <1>22, <1>23, <1>24, <1>25 DEF A2!Names

LEMMA SameLongWord ==
  ASSUME NEW op \in A4!Names, NEW s, NEW y
  PROVE  LongWord!Operation(op, s, y) = A4!Operation(op, s, y)
<1>1. \A v, n : LongWord!Add(v, n) = A4!Add(v, n)
  BY DEF LongWord!Add, A4!Add, LongWord!Modulus, A4!Modulus, LongWord!Result, A4!Result,
    LongWord!SumOverflows, A4!SumOverflows, LongWord!NZ, A4!NZ, LongWord!If, A4!If, LongWord!X,
    A4!X, LongWord!Sign, A4!Sign
<1>2. \A v, n : LongWord!Sub(v, n) = A4!Sub(v, n)
  BY DEF LongWord!Sub, A4!Sub, LongWord!Modulus, A4!Modulus, LongWord!Result, A4!Result,
    LongWord!DifferenceOverflows, A4!DifferenceOverflows, LongWord!NZ, A4!NZ, LongWord!If,
    A4!If, LongWord!X, A4!X, LongWord!Sign, A4!Sign
<1>3. \A v, n : LongWord!Addx(v, n) = A4!Addx(v, n)
  BY DEF LongWord!Addx, A4!Addx, LongWord!X, A4!X, LongWord!Modulus, A4!Modulus,
    LongWord!Extended, A4!Extended, LongWord!SumOverflows, A4!SumOverflows, LongWord!Result,
    A4!Result, LongWord!If, A4!If, LongWord!Sign, A4!Sign, LongWord!NZ, A4!NZ
<1>4. \A v, n : LongWord!Subx(v, n) = A4!Subx(v, n)
  BY DEF LongWord!Subx, A4!Subx, LongWord!X, A4!X, LongWord!Modulus, A4!Modulus,
    LongWord!Extended, A4!Extended, LongWord!DifferenceOverflows, A4!DifferenceOverflows,
    LongWord!Result, A4!Result, LongWord!If, A4!If, LongWord!Sign, A4!Sign, LongWord!NZ, A4!NZ
<1>5. \A v, n : LongWord!Cmp(v, n) = A4!Cmp(v, n)
  BY DEF LongWord!Cmp, A4!Cmp, LongWord!KeepX, A4!KeepX, LongWord!Sub, A4!Sub, LongWord!X,
    A4!X, LongWord!Modulus, A4!Modulus, LongWord!Result, A4!Result,
    LongWord!DifferenceOverflows, A4!DifferenceOverflows, LongWord!NZ, A4!NZ, LongWord!If,
    A4!If, LongWord!Sign, A4!Sign
<1>6. \A v : LongWord!Neg(v) = A4!Neg(v)
  BY DEF LongWord!Neg, A4!Neg, LongWord!Sub, A4!Sub, LongWord!Modulus, A4!Modulus,
    LongWord!Result, A4!Result, LongWord!DifferenceOverflows, A4!DifferenceOverflows,
    LongWord!NZ, A4!NZ, LongWord!If, A4!If, LongWord!X, A4!X, LongWord!Sign, A4!Sign
<1>7. \A v : LongWord!Negx(v) = A4!Negx(v)
  BY DEF LongWord!Negx, A4!Negx, LongWord!Subx, A4!Subx, LongWord!X, A4!X, LongWord!Modulus,
    A4!Modulus, LongWord!Extended, A4!Extended, LongWord!DifferenceOverflows,
    A4!DifferenceOverflows, LongWord!Result, A4!Result, LongWord!If, A4!If, LongWord!Sign,
    A4!Sign, LongWord!NZ, A4!NZ
<1>8. \A v, n : LongWord!And(v, n) = A4!And(v, n)
  BY DEF LongWord!And, A4!And, LongWord!Plain, A4!Plain, LongWord!Combined, A4!Combined,
    LongWord!KeepX, A4!KeepX, LongWord!NZ, A4!NZ, LongWord!Has, A4!Has, LongWord!X, A4!X,
    LongWord!If, A4!If, LongWord!Sign, A4!Sign
<1>9. \A v, n : LongWord!Or(v, n) = A4!Or(v, n)
  BY DEF LongWord!Or, A4!Or, LongWord!Plain, A4!Plain, LongWord!Combined, A4!Combined,
    LongWord!KeepX, A4!KeepX, LongWord!NZ, A4!NZ, LongWord!Has, A4!Has, LongWord!X, A4!X,
    LongWord!If, A4!If, LongWord!Sign, A4!Sign
<1>10. \A v, n : LongWord!Eor(v, n) = A4!Eor(v, n)
  BY DEF LongWord!Eor, A4!Eor, LongWord!Plain, A4!Plain, LongWord!Combined, A4!Combined,
    LongWord!KeepX, A4!KeepX, LongWord!NZ, A4!NZ, LongWord!Has, A4!Has, LongWord!X, A4!X,
    LongWord!If, A4!If, LongWord!Sign, A4!Sign
<1>11. \A v : LongWord!Not(v) = A4!Not(v)
  BY DEF LongWord!Not, A4!Not, LongWord!Plain, A4!Plain, LongWord!Modulus, A4!Modulus,
    LongWord!KeepX, A4!KeepX, LongWord!NZ, A4!NZ, LongWord!X, A4!X, LongWord!If, A4!If,
    LongWord!Sign, A4!Sign
<1>12. \A v : LongWord!Tst(v) = A4!Tst(v)
  BY DEF LongWord!Tst, A4!Tst, LongWord!Plain, A4!Plain, LongWord!KeepX, A4!KeepX, LongWord!NZ,
    A4!NZ, LongWord!X, A4!X, LongWord!If, A4!If, LongWord!Sign, A4!Sign
<1>13. \A v, n : LongWord!Asl(v, n) = A4!Asl(v, n)
  BY DEF LongWord!Asl, A4!Asl, LongWord!States, A4!States, LongWord!Left, A4!Left, LongWord!If,
    A4!If, LongWord!Sign, A4!Sign, LongWord!WithX, A4!WithX, LongWord!Shifted, A4!Shifted,
    LongWord!Operands, A4!Operands, LongWord!Flags, A4!Flags, LongWord!Out, A4!Out,
    LongWord!Modulus, A4!Modulus, LongWord!SetX, A4!SetX, LongWord!Times, A4!Times,
    LongWord!NZ, A4!NZ, LongWord!X, A4!X
<1>14. \A v, n : LongWord!Asr(v, n) = A4!Asr(v, n)
  BY DEF LongWord!Asr, A4!Asr, LongWord!States, A4!States, LongWord!Right, A4!Right,
    LongWord!Sign, A4!Sign, LongWord!WithX, A4!WithX, LongWord!Shifted, A4!Shifted,
    LongWord!Operands, A4!Operands, LongWord!Flags, A4!Flags, LongWord!Out, A4!Out,
    LongWord!SetX, A4!SetX, LongWord!Times, A4!Times, LongWord!NZ, A4!NZ, LongWord!Modulus,
    A4!Modulus, LongWord!X, A4!X, LongWord!If, A4!If
<1>15. \A v, n : LongWord!Lsl(v, n) = A4!Lsl(v, n)
  BY DEF LongWord!Lsl, A4!Lsl, LongWord!WithX, A4!WithX, LongWord!Shifted, A4!Shifted,
    LongWord!States, A4!States, LongWord!Left, A4!Left, LongWord!SetX, A4!SetX, LongWord!Times,
    A4!Times, LongWord!NZ, A4!NZ, LongWord!Operands, A4!Operands, LongWord!Flags, A4!Flags,
    LongWord!Out, A4!Out, LongWord!Modulus, A4!Modulus, LongWord!Sign, A4!Sign, LongWord!X,
    A4!X, LongWord!If, A4!If
<1>16. \A v, n : LongWord!Lsr(v, n) = A4!Lsr(v, n)
  BY DEF LongWord!Lsr, A4!Lsr, LongWord!WithX, A4!WithX, LongWord!Shifted, A4!Shifted,
    LongWord!States, A4!States, LongWord!Right, A4!Right, LongWord!SetX, A4!SetX,
    LongWord!Times, A4!Times, LongWord!NZ, A4!NZ, LongWord!Operands, A4!Operands,
    LongWord!Flags, A4!Flags, LongWord!Out, A4!Out, LongWord!X, A4!X, LongWord!If, A4!If,
    LongWord!Sign, A4!Sign, LongWord!Modulus, A4!Modulus
<1>17. \A v, n : LongWord!Rol(v, n) = A4!Rol(v, n)
  BY DEF LongWord!Rol, A4!Rol, LongWord!Shifted, A4!Shifted, LongWord!States, A4!States,
    LongWord!Left, A4!Left, LongWord!Sign, A4!Sign, LongWord!Times, A4!Times, LongWord!NZ,
    A4!NZ, LongWord!Operands, A4!Operands, LongWord!Flags, A4!Flags, LongWord!Out, A4!Out,
    LongWord!Modulus, A4!Modulus, LongWord!If, A4!If, LongWord!X, A4!X
<1>18. \A v, n : LongWord!Ror(v, n) = A4!Ror(v, n)
  BY DEF LongWord!Ror, A4!Ror, LongWord!Shifted, A4!Shifted, LongWord!States, A4!States,
    LongWord!Right, A4!Right, LongWord!Times, A4!Times, LongWord!NZ, A4!NZ, LongWord!Operands,
    A4!Operands, LongWord!Flags, A4!Flags, LongWord!Out, A4!Out, LongWord!If, A4!If,
    LongWord!Sign, A4!Sign, LongWord!Modulus, A4!Modulus, LongWord!X, A4!X
<1>19. \A v, n : LongWord!Roxl(v, n) = A4!Roxl(v, n)
  BY DEF LongWord!Roxl, A4!Roxl, LongWord!States, A4!States, LongWord!SetX, A4!SetX,
    LongWord!Left, A4!Left, LongWord!X, A4!X, LongWord!Sign, A4!Sign, LongWord!XInC, A4!XInC,
    LongWord!Shifted, A4!Shifted, LongWord!Operands, A4!Operands, LongWord!Flags, A4!Flags,
    LongWord!If, A4!If, LongWord!Out, A4!Out, LongWord!Modulus, A4!Modulus, LongWord!Times,
    A4!Times, LongWord!NZ, A4!NZ
<1>20. \A v, n : LongWord!Roxr(v, n) = A4!Roxr(v, n)
  BY DEF LongWord!Roxr, A4!Roxr, LongWord!States, A4!States, LongWord!SetX, A4!SetX,
    LongWord!Right, A4!Right, LongWord!X, A4!X, LongWord!XInC, A4!XInC, LongWord!Shifted,
    A4!Shifted, LongWord!Operands, A4!Operands, LongWord!Flags, A4!Flags, LongWord!If, A4!If,
    LongWord!Out, A4!Out, LongWord!Times, A4!Times, LongWord!NZ, A4!NZ, LongWord!Modulus,
    A4!Modulus, LongWord!Sign, A4!Sign
<1>21. CASE op \in {"add", "sub", "addx", "subx", "cmp", "neg", "negx"}
  BY <1>21, <1>1, <1>2, <1>3, <1>4, <1>5, <1>6, <1>7
     DEF LongWord!Operation, A4!Operation
<1>22. CASE op \in {"and", "or", "eor", "not", "tas"}
  BY <1>22, <1>8, <1>9, <1>10, <1>11, <1>12
     DEF LongWord!Operation, A4!Operation
<1>23. CASE op \in {"asl", "asr", "lsl", "lsr"}
  BY <1>23, <1>13, <1>14, <1>15, <1>16
     DEF LongWord!Operation, A4!Operation
<1>24. CASE op \in {"rol", "ror"}
  BY <1>24, <1>17, <1>18
     DEF LongWord!Operation, A4!Operation
<1>25. CASE op \in {"roxl", "roxr"}
  BY <1>25, <1>19, <1>20
     DEF LongWord!Operation, A4!Operation
<1> QED BY <1>21, <1>22, <1>23, <1>24, <1>25 DEF A4!Names

\* The operations of the instructions.
Ops == A1!Names

\* A result has the width of its operands.
Result(n, w) == n.lo \in 0 .. Modulus(w) - 1 /\ n.cc \in SUBSET Flags

LEMMA OperationIs ==
  ASSUME NEW op \in Ops, NEW s \in Machines, NEW w \in Widths,
         NEW v \in 0 .. Modulus(w) - 1, NEW y \in 0 .. Modulus(w) - 1
  PROVE  Result(Operation(op, s, v, y, w), w)
<1> DEFINE n == [hi |-> 0, lo |-> v, cc |-> s.cc]
<1>1. /\ s.cc \in SUBSET Flags /\ 0 \in 0 .. Modulus(w) - 1
      /\ Modulus(w) = 2 * (Modulus(w) \div 2) /\ Modulus(w) \div 2 \in Nat \ {0}
  BY FieldsAre, WidthIs
<1>2. CASE w = 1
  <2>1. A1!Modulus = Modulus(1)
    BY <1>1, <1>2 DEF A1!Modulus
  <2>2. n \in A1!States /\ y \in A1!Operands
    BY <1>1, <1>2, <2>1 DEF A1!States, A1!Operands, A1!Flags, Flags
  <2>3. A1!Operation(op, n, y) \in A1!States
    <3> HIDE DEF n
    <3> QED BY <1>1, <1>2, <2>2, A1!OperationFits DEF Ops
  <2>4. Operation(op, s, v, y, w) = A1!Operation(op, n, y)
    BY <1>2, SameByte DEF Operation, Ops
  <2> HIDE DEF n
  <2> QED BY <1>2, <2>1, <2>3, <2>4 DEF A1!States, A1!Operands, A1!Flags, Flags, Result
<1>3. CASE w = 2
  <2>1. A2!Modulus = Modulus(2)
    BY <1>1, <1>3 DEF A2!Modulus
  <2>2. n \in A2!States /\ y \in A2!Operands
    BY <1>1, <1>3, <2>1 DEF A2!States, A2!Operands, A2!Flags, Flags
  <2>5. op \in A2!Names
    BY DEF Ops, A1!Names, A2!Names
  <2>3. A2!Operation(op, n, y) \in A2!States
    <3> HIDE DEF n
    <3> QED BY <1>1, <1>3, <2>2, <2>5, A2!OperationFits
  <2>4. Operation(op, s, v, y, w) = A2!Operation(op, n, y)
    BY <1>3, <2>5, SameWord DEF Operation
  <2> HIDE DEF n
  <2> QED BY <1>3, <2>1, <2>3, <2>4 DEF A2!States, A2!Operands, A2!Flags, Flags, Result
<1>4. CASE w = 4
  <2>1. A4!Modulus = Modulus(4)
    BY <1>1, <1>4 DEF A4!Modulus
  <2>2. n \in A4!States /\ y \in A4!Operands
    BY <1>1, <1>4, <2>1 DEF A4!States, A4!Operands, A4!Flags, Flags
  <2>5. op \in A4!Names
    BY DEF Ops, A1!Names, A4!Names
  <2>3. A4!Operation(op, n, y) \in A4!States
    <3> HIDE DEF n
    <3> QED BY <1>1, <1>4, <2>2, <2>5, A4!OperationFits
  <2>4. Operation(op, s, v, y, w) = A4!Operation(op, n, y)
    BY <1>4, <2>5, SameLongWord DEF Operation
  <2> HIDE DEF n
  <2> QED BY <1>4, <2>1, <2>3, <2>4 DEF A4!States, A4!Operands, A4!Flags, Flags, Result
<1> QED BY <1>2, <1>3, <1>4 DEF Widths

LEMMA ModifyFits ==
  ASSUME NEW s \in Machines, NEW op \in Ops, NEW o, Sound(o), NEW y \in Int, NEW w \in Widths
  PROVE  Careful(s, Modify(s, op, o, y, w))
<1> DEFINE read == Target(s, o, w)
           v == DstValue(read, w)
           n == Operation(op, s, v, Low(y, w), w)
           t == WithFlags(read, n.cc)
<1>1. Quiet(s, read) /\ read \in Machines /\ v \in 0 .. Modulus(w) - 1
  BY TargetFits
<1>2. Modify(s, op, o, y, w) = DstWrite(t, w, n.lo)
  BY DEF Modify, Target
<1> HIDE DEF read, v
<1>3. n.lo \in Int /\ n.cc \in SUBSET Flags
  <2>1. Low(y, w) \in 0 .. Modulus(w) - 1
    BY LowFits
  <2>2. Result(n, w)
    BY <1>1, <2>1, OperationIs
  <2> HIDE DEF n
  <2> QED BY <2>2, SmallIs DEF Result
<1> HIDE DEF n
<1>4. Flagged(read, t)
  BY <1>1, <1>3, FlagsFit
<1> HIDE DEF t
<1>5. Quiet(s, t) /\ t \in Machines
  BY <1>1, <1>4 DEF Flagged, Quiet
<1>6. Careful(t, DstWrite(t, w, n.lo))
  BY <1>3, <1>5, DstWriteFits
<1> QED BY <1>2, <1>5, <1>6, QuietChain

LEMMA QuickFits ==
  ASSUME NEW s \in Machines, NEW op \in Ops, NEW o, Sound(o), NEW y \in Int, NEW w \in Widths
  PROVE  Careful(s, Quick(s, op, o, y, w))
<1> DEFINE t == Modify(s, op, o, y, w)
<1>1. Careful(s, t)
  BY ModifyFits
<1>2. Quick(s, op, o, y, w) = IF o.mode = "An" THEN WithFlags(t, s.cc) ELSE t
  BY DEF Quick
<1> HIDE DEF t
<1>3. Flagged(t, WithFlags(t, s.cc))
  BY <1>1, FieldsAre, FlagsFit DEF Careful
<1> QED BY <1>1, <1>2, <1>3, FlaggedCareful

LEMMA ExamineFits ==
  ASSUME NEW s \in Machines, NEW o, Sound(o), NEW y \in Int, NEW w \in Widths
  PROVE  Careful(s, Examine(s, o, y, w))
<1> DEFINE read == Target(s, o, w)
           v == DstValue(read, w)
           n == Operation("cmp", s, v, Low(y, w), w)
<1>1. Quiet(s, read) /\ read \in Machines /\ v \in 0 .. Modulus(w) - 1
  BY TargetFits
<1>2. Examine(s, o, y, w) = WithFlags(read, n.cc)
  BY DEF Examine, Target
<1> HIDE DEF read, v
<1>3. n.cc \in SUBSET Flags
  <2>1. Low(y, w) \in 0 .. Modulus(w) - 1 /\ "cmp" \in Ops
    BY LowFits DEF Ops, A1!Names
  <2>2. Result(n, w)
    BY <1>1, <2>1, OperationIs
  <2> HIDE DEF n
  <2> QED BY <2>2 DEF Result
<1> HIDE DEF n
<1>4. Flagged(read, WithFlags(read, n.cc))
  BY <1>1, <1>3, FlagsFit
<1> QED BY <1>1, <1>2, <1>4, QuietChain DEF Flagged

LEMMA CombineFits ==
  ASSUME NEW s \in Machines, NEW op \in Ops, NEW r \in RegNos, NEW o, Sound(o), NEW w \in Widths
  PROVE  Careful(s, Combine(s, op, r, o, w))
<1> DEFINE read == SourceRead(s, o, w)
           v == SrcValue(read, w)
           n == Operation(op, s, Low(s.d[r], w), v, w)
           x == WithLow(read.d[r], w, n.lo)
<1>1. Quiet(s, read) /\ read \in Machines /\ v \in 0 .. Modulus(w) - 1
  BY SourceReadFits
<1>2. Combine(s, op, r, o, w) =
        IF Ok(read) THEN [read EXCEPT !.d[r] = x, !.cc = n.cc] ELSE read
  BY DEF Combine, SourceRead
<1> HIDE DEF read, v
<1>3. Result(n, w)
  <2>1. s.d[r] \in Int
    BY FieldsAre, LongIs
  <2>2. Low(s.d[r], w) \in 0 .. Modulus(w) - 1
    BY <2>1, LowFits
  <2> QED BY <1>1, <2>2, OperationIs
<1> HIDE DEF n
<1>4. x \in Long
  <2>1. read.d[r] \in Long
    BY <1>1, FieldsAre
  <2> QED BY <1>3, <2>1, WithLowFits DEF Result
<1> HIDE DEF x
<1> DEFINE t == [read EXCEPT !.d[r] = x]
<1>5. t \in Machines /\ t.raised = read.raised
  BY <1>1, <1>4, SetDIs
<1>6. [read EXCEPT !.d[r] = x, !.cc = n.cc] = [t EXCEPT !.cc = n.cc]
  OBVIOUS
<1> HIDE DEF t
<1>7. [t EXCEPT !.cc = n.cc] \in Machines /\ [t EXCEPT !.cc = n.cc].raised = t.raised
  BY <1>3, <1>5, ReplacedAre DEF Result
<1> QED BY <1>1, <1>2, <1>5, <1>6, <1>7 DEF Quiet, Careful, Ok

LEMMA AddressFits ==
  ASSUME NEW s \in Machines, NEW op \in Ops, NEW r \in RegNos, NEW o, Sound(o), NEW w \in Widths
  PROVE  Careful(s, Address(s, op, r, o, w))
<1> DEFINE read == SourceRead(s, o, w)
           v == SrcValue(read, w)
           n == Operation(op, s, Reg(read, r), Extended(v, w), 4)
<1>1. Quiet(s, read) /\ read \in Machines /\ v \in Int
  BY SourceReadFits, SmallIs
<1>2. Address(s, op, r, o, w) =
        IF ~Ok(read) THEN read
        ELSE IF op = "cmp" THEN WithFlags(read, n.cc) ELSE SetReg(read, r, n.lo)
  BY DEF Address, SourceRead
<1> HIDE DEF read, v
<1>3. Result(n, 4)
  <2>1. Reg(read, r) \in Long /\ Extended(v, w) \in Long
    BY <1>1, RegFits, ExtendedFits
  <2>2. 4 \in Widths
    BY DEF Widths
  <2> QED BY <2>1, <2>2, OperationIs DEF Long
<1> HIDE DEF n
<1>4. Quiet(read, WithFlags(read, n.cc))
  BY <1>1, <1>3, FlagsFit DEF Flagged, Result
<1>5. Quiet(read, SetReg(read, r, n.lo))
  BY <1>1, <1>3, SetRegIs DEF Quiet, SameButAddresses, Result, Long
<1> QED BY <1>1, <1>2, <1>4, <1>5, QuietChain

LEMMA BetweenMemoryFits ==
  ASSUME NEW s \in Machines, NEW op \in Ops, NEW x \in RegNos, NEW y \in RegNos, NEW w \in Widths,
         Ok(s)
  PROVE  Careful(s, BetweenMemory(s, op, x, y, w))
<1> DEFINE t == Dec(s, y, w)
           from == At("mem", Reg(t, y))
           u == Dec(t, x, w)
           to == At("mem", Reg(u, x))
           r == Operation(op, s, Load(u, to.n, w), Load(u, from.n, w), w)
           m == Store(u, to.n, w, r.lo)
<1>1. Quiet(s, t) /\ Quiet(s, u) /\ t \in Machines /\ u \in Machines /\ u.raised = s.raised
  BY TwiceAre DEF Quiet
<1>2. BetweenMemory(s, op, x, y, w) =
        IF w > 1 /\ from.n % 2 = 1 THEN AddressError(t, from, TRUE)
        ELSE IF w > 1 /\ to.n % 2 = 1 THEN AddressError(u, to, TRUE)
        ELSE WithFlags(m, r.cc)
  BY DEF BetweenMemory
<1> HIDE DEF t, u
<1>3. from \in Places /\ to \in Places
  BY <1>1, RegFits, AtFits
<1> HIDE DEF from, to
<1>4. from.n \in Int /\ to.n \in Int
  BY <1>3, LongIs DEF Places
<1>5. Quiet(t, AddressError(t, from, TRUE)) /\ Quiet(u, AddressError(u, to, TRUE))
  BY <1>1, <1>3, RaisedAre
<1>6. r.lo \in Int /\ r.cc \in SUBSET Flags
  <2>1. Load(u, to.n, w) \in 0 .. Modulus(w) - 1 /\ Load(u, from.n, w) \in 0 .. Modulus(w) - 1
    BY <1>1, <1>4, LoadFits
  <2>2. Result(r, w)
    BY <2>1, OperationIs
  <2> HIDE DEF r
  <2> QED BY <2>2, SmallIs DEF Result
<1> HIDE DEF r
<1>7. m \in Machines /\ m.raised = u.raised
  <2>1. m \in Machines /\ SameButMemory(u, m)
    BY <1>1, <1>4, <1>6, StoreIs
  <2> QED BY <2>1 DEF SameButMemory
<1> HIDE DEF m
<1>8. Flagged(m, WithFlags(m, r.cc))
  BY <1>6, <1>7, FlagsFit
<1>9. Careful(s, WithFlags(m, r.cc))
  BY <1>1, <1>7, <1>8 DEF Flagged, Quiet, Careful, Ok
<1>10. Careful(s, AddressError(t, from, TRUE)) /\ Careful(s, AddressError(u, to, TRUE))
  BY <1>1, <1>5 DEF Quiet, Careful
<1> QED BY <1>2, <1>9, <1>10

LEMMA CmpmFits ==
  ASSUME NEW s \in Machines, NEW x \in RegNos, NEW y \in RegNos, NEW w \in Widths
  PROVE  Careful(s, Cmpm(s, x, y, w))
<1> DEFINE t == Inc(s, y, w)
           u == Inc(t, x, w)
           from == At("mem", Reg(s, y))
           to == At("mem", Reg(t, x))
           r == Operation("cmp", s, Load(u, to.n, w), Load(u, from.n, w), w)
<1>1. Quiet(s, t) /\ Quiet(s, u) /\ t \in Machines /\ u \in Machines
  BY TwiceAre DEF Quiet
<1>2. Cmpm(s, x, y, w) =
        IF w > 1 /\ from.n % 2 = 1 THEN AddressError(t, from, TRUE)
        ELSE IF w > 1 /\ to.n % 2 = 1 THEN AddressError(u, to, TRUE)
        ELSE WithFlags(u, r.cc)
  BY DEF Cmpm
<1> HIDE DEF t, u
<1>3. from \in Places /\ to \in Places
  BY <1>1, RegFits, AtFits
<1> HIDE DEF from, to
<1>4. from.n \in Int /\ to.n \in Int
  BY <1>3, LongIs DEF Places
<1>5. Quiet(t, AddressError(t, from, TRUE)) /\ Quiet(u, AddressError(u, to, TRUE))
  BY <1>1, <1>3, RaisedAre
<1>6. r.cc \in SUBSET Flags
  <2>1. Load(u, to.n, w) \in 0 .. Modulus(w) - 1 /\ Load(u, from.n, w) \in 0 .. Modulus(w) - 1
        /\ "cmp" \in Ops
    BY <1>1, <1>4, LoadFits DEF Ops, A1!Names
  <2>2. Result(r, w)
    BY <2>1, OperationIs
  <2> HIDE DEF r
  <2> QED BY <2>2 DEF Result
<1> HIDE DEF r
<1>8. Quiet(u, WithFlags(u, r.cc))
  BY <1>1, <1>6, FlagsFit DEF Flagged
<1>9. /\ Careful(s, AddressError(t, from, TRUE)) /\ Careful(s, AddressError(u, to, TRUE))
      /\ Careful(s, WithFlags(u, r.cc))
  BY <1>1, <1>5, <1>8 DEF Quiet, Careful
<1> QED BY <1>2, <1>9

------------------------------------------------------------------------------
(* The behaviours. *)

\* The instruction that is fetched finds data and memory as they were.
LEMMA FetchedIs ==
  ASSUME cpu \in Machines
  PROVE  /\ Fetched \in Machines /\ Ok(Fetched) /\ Fetched.mem = cpu.mem /\ Fetched.d = cpu.d
         /\ \A n \in Int : Quiet(Fetched, Fetch(Fetched, n)) /\ Ok(Fetch(Fetched, n))
<1> DEFINE s == [cpu EXCEPT !.oldPc = cpu.pc, !.raised = None]
<1>1. None \in Exceptions
  BY LongIs DEF None, Exceptions
<1>2. s \in Machines /\ s.raised = None /\ s.mem = cpu.mem /\ s.d = cpu.d
  BY <1>1 DEF Machines
<1>3. Fetched = Fetch(s, 1)
  BY DEF Fetched
<1> HIDE DEF s
<1>4. Quiet(s, Fetch(s, 1)) /\ Fetch(s, 1).raised = None
  BY <1>2, FetchIs
<1>5. Fetched \in Machines /\ Fetched.raised = None /\ Fetched.mem = cpu.mem /\ Fetched.d = cpu.d
  BY <1>2, <1>3, <1>4 DEF Quiet
<1>6. ASSUME NEW n \in Int
      PROVE  Quiet(Fetched, Fetch(Fetched, n)) /\ Fetch(Fetched, n).raised = Fetched.raised
  <2> DEFINE f == Fetched
  <2> HIDE DEF f
  <2>1. f \in Machines
    BY <1>5 DEF f
  <2>2. Quiet(f, Fetch(f, n)) /\ Fetch(f, n).raised = f.raised
    BY <2>1, FetchIs
  <2> QED BY <2>2 DEF f
<1> QED BY <1>5, <1>6 DEF Ok

\* What every action does to the machine.
Advances == \E s : Becomes(s) /\ Careful(Fetched, s)

\* The operands of a program, and the numbers it has in it.
LEMMA ProgramIs ==
  /\ \A o \in Eas : Sound(o)
  /\ \A v \in Values : v \in Int
  /\ \A list \in Lists : list \in SUBSET Numbers
  /\ \A w \in {2, 4} : w \in Widths
  /\ 1 \in Widths /\ 2 \in Widths
BY EasAreSound, ProgramAssumption, LongIs DEF Numbers, Widths

LEMMA DataIs ==
  ASSUME cpu \in Machines, NEW r \in RegNos
  PROVE  cpu.d[r] \in Int /\ cpu.d[r] % 64 \in Int
<1>1. cpu.d[r] \in Int
  BY FieldsAre, LongIs
<1> QED BY <1>1

LEMMA MovesAdvance ==
  ASSUME cpu \in Machines, Moving \/ MovingToMemory \/ MovingFromMemory \/ Addressing
  PROVE  Advances
<1> DEFINE f == Fetched
<1>1. f \in Machines /\ Ok(f)
  BY FetchedIs
<1>2. Advances <=> \E s : Becomes(s) /\ Careful(f, s)
  BY DEF Advances
<1>3. CASE Moving
  <2>1. \/ \E a, b \in Eas, w \in Widths : Becomes(Move(f, a, b, w))
        \/ \E r \in RegNos, v \in Values : Becomes(Moveq(f, r, v))
        \/ \E x, y \in AnyReg : Becomes(Exg(f, x, y))
    BY <1>3 DEF Moving
  <2> HIDE DEF f
  <2>2. \A a, b \in Eas, w \in Widths : Careful(f, Move(f, a, b, w))
    BY <1>1, ProgramIs, MoveFits
  <2>3. \A r \in RegNos, v \in Values : Careful(f, Moveq(f, r, v))
    BY <1>1, ProgramIs, MoveqFits
  <2>4. \A x, y \in AnyReg : Careful(f, Exg(f, x, y))
    BY <1>1, ExgFits
  <2> QED BY <1>2, <2>1, <2>2, <2>3, <2>4
<1>4. CASE MovingToMemory
  <2>1. \/ \E o \in InMemory, w \in {2, 4}, list \in Lists : Becomes(MovemToMem(f, list, o, w))
        \/ \E o \in Eas, w \in {2, 4}, r \in RegNos : Becomes(MovepToMem(f, r, o, w))
    BY <1>4 DEF MovingToMemory
  <2> HIDE DEF f
  <2>2. \A o \in InMemory, w \in {2, 4}, list \in Lists : Careful(f, MovemToMem(f, list, o, w))
    BY <1>1, ProgramIs, MovemToMemFits DEF InMemory
  <2>3. \A o \in Eas, w \in {2, 4}, r \in RegNos : Careful(f, MovepToMem(f, r, o, w))
    BY <1>1, ProgramIs, MovepToMemFits
  <2> QED BY <1>2, <2>1, <2>2, <2>3
<1>5. CASE MovingFromMemory
  <2>1. \/ \E o \in InMemory, w \in {2, 4}, list \in Lists : Becomes(MovemToReg(f, list, o, w))
        \/ \E o \in Eas, w \in {2, 4}, r \in RegNos : Becomes(MovepToReg(f, r, o, w))
    BY <1>5 DEF MovingFromMemory
  <2> HIDE DEF f
  <2>2. \A o \in InMemory, w \in {2, 4}, list \in Lists : Careful(f, MovemToReg(f, list, o, w))
    BY <1>1, ProgramIs, MovemToRegFits DEF InMemory
  <2>3. \A o \in Eas, w \in {2, 4}, r \in RegNos : Careful(f, MovepToReg(f, r, o, w))
    BY <1>1, ProgramIs, MovepToRegFits
  <2> QED BY <1>2, <2>1, <2>2, <2>3
<1>6. CASE Addressing
  <2>1. \E o \in Eas : (\E r \in RegNos : Becomes(Lea(f, r, o))) \/ Becomes(Pea(f, o))
    BY <1>6 DEF Addressing, InMemory
  <2> HIDE DEF f
  <2>2. \A o \in Eas : Careful(f, Pea(f, o)) /\ \A r \in RegNos : Careful(f, Lea(f, r, o))
    BY <1>1, ProgramIs, PeaFits, LeaFits
  <2> QED BY <1>2, <2>1, <2>2
<1> QED BY <1>3, <1>4, <1>5, <1>6

\* Instructions in which one operand is changed or looked at.
LEMMA OperandsAdvance ==
  ASSUME cpu \in Machines, ToOperand \/ Immediate \/ Quickly \/ Bits
  PROVE  Advances
<1> DEFINE f == Fetched
<1>1. /\ f \in Machines /\ Ok(f)
      /\ \A n \in Int : Quiet(f, Fetch(f, n)) /\ Ok(Fetch(f, n))
  BY FetchedIs
<1>2. Advances <=> \E s : Becomes(s) /\ Careful(f, s)
  BY DEF Advances
<1>3. {"not", "neg", "negx", "tas", "add", "sub", "and", "or", "eor"} \subseteq Ops
  BY DEF Ops, A1!Names
<1>4. CASE ToOperand
  <2>1. \E o \in Eas, w \in Widths :
          \/ \E op \in {"not", "neg", "negx", "tas"} : Becomes(Modify(f, op, o, 0, w))
          \/ Becomes(Clr(f, o, w)) \/ Becomes(Tst(f, o, w))
          \/ \E cond \in {"T", "F", "EQ"} : Becomes(Scc(f, cond, o))
    BY <1>4 DEF ToOperand
  <2> HIDE DEF f
  <2>2. \A o \in Eas, w \in Widths, op \in {"not", "neg", "negx", "tas"} :
          Careful(f, Modify(f, op, o, 0, w))
    BY <1>1, <1>3, ProgramIs, ModifyFits
  <2>3. \A o \in Eas, w \in Widths : Careful(f, Clr(f, o, w)) /\ Careful(f, Tst(f, o, w))
    BY <1>1, ProgramIs, ClrFits, TstFits
  <2>4. \A o \in Eas, cond \in {"T", "F", "EQ"} : Careful(f, Scc(f, cond, o))
    BY <1>1, ProgramIs, SccFits
  <2> QED BY <1>2, <2>1, <2>2, <2>3, <2>4
<1>5. CASE Immediate
  <2>1. \E o \in Eas, w \in Widths, y \in Values, n \in {1, 2} :
          \/ \E op \in {"add", "sub", "and", "or", "eor"} :
               Becomes(Modify(Fetch(f, n), op, o, y, w))
          \/ Becomes(Examine(Fetch(f, n), o, y, w))
    <3>1. PICK o \in Eas, w \in Widths, y \in Values :
            LET t == Fetch(f, IF w = 4 THEN 2 ELSE 1)
            IN  \/ \E op \in {"add", "sub", "and", "or", "eor"} : Becomes(Modify(t, op, o, y, w))
                \/ Becomes(Examine(t, o, y, w))
      BY <1>5 DEF Immediate
    <3>2. (IF w = 4 THEN 2 ELSE 1) \in {1, 2}
      OBVIOUS
    <3> HIDE DEF f
    <3> QED BY <3>1, <3>2
  <2> HIDE DEF f
  <2>2. ASSUME NEW n \in {1, 2}
        PROVE  Quiet(f, Fetch(f, n)) /\ Fetch(f, n) \in Machines
    <3>1. n \in Int
      OBVIOUS
    <3> QED BY <1>1, <3>1 DEF Quiet
  <2>3. ASSUME NEW o \in Eas, NEW w \in Widths, NEW y \in Values, NEW n \in {1, 2}
        PROVE  /\ \A op \in {"add", "sub", "and", "or", "eor"} :
                    Careful(f, Modify(Fetch(f, n), op, o, y, w))
               /\ Careful(f, Examine(Fetch(f, n), o, y, w))
    <3> DEFINE t == Fetch(f, n)
    <3>1. Quiet(f, t) /\ t \in Machines
      BY <2>2
    <3> HIDE DEF t
    <3>2. y \in Int /\ Sound(o)
      BY ProgramIs
    <3>3. /\ \A op \in {"add", "sub", "and", "or", "eor"} : Careful(t, Modify(t, op, o, y, w))
          /\ Careful(t, Examine(t, o, y, w))
      BY <1>3, <3>1, <3>2, ModifyFits, ExamineFits
    <3> QED BY <3>1, <3>3, QuietChain DEF t
  <2> QED BY <1>2, <2>1, <2>3
<1>6. CASE Quickly
  <2>1. \E o \in Eas, w \in Widths, y \in 1 .. 8, op \in {"add", "sub"} :
          Becomes(Quick(f, op, o, y, w))
    BY <1>6 DEF Quickly
  <2> HIDE DEF f
  <2>2. \A o \in Eas, w \in Widths, y \in 1 .. 8, op \in {"add", "sub"} :
          Careful(f, Quick(f, op, o, y, w))
    BY <1>1, <1>3, ProgramIs, QuickFits
  <2> QED BY <1>2, <2>1, <2>2
<1>7. CASE Bits
  <2>1. \E op \in {"btst", "bchg", "bclr", "bset"}, o \in Eas :
          \/ \E n \in Values : Becomes(Bit(Fetch(f, 1), op, o, n))
          \/ \E r \in RegNos : Becomes(Bit(f, op, o, cpu.d[r]))
    BY <1>7 DEF Bits
  <2> HIDE DEF f
  <2>2. ASSUME NEW op \in {"btst", "bchg", "bclr", "bset"}, NEW o \in Eas, NEW n \in Values
        PROVE  Careful(f, Bit(Fetch(f, 1), op, o, n))
    <3> DEFINE t == Fetch(f, 1)
    <3>1. Quiet(f, t) /\ t \in Machines
      BY <1>1 DEF Quiet
    <3> HIDE DEF t
    <3>2. Careful(t, Bit(t, op, o, n))
      BY <3>1, ProgramIs, BitFits
    <3> QED BY <3>1, <3>2, QuietChain DEF t
  <2>3. \A op \in {"btst", "bchg", "bclr", "bset"}, o \in Eas, r \in RegNos :
          Careful(f, Bit(f, op, o, cpu.d[r]))
    BY <1>1, ProgramIs, DataIs, BitFits
  <2> QED BY <1>2, <2>1, <2>2, <2>3
<1> QED BY <1>4, <1>5, <1>6, <1>7

\* Instructions that combine two operands.
LEMMA BothWaysAdvance ==
  ASSUME cpu \in Machines, NEW op \in Ops, NEW o \in Eas, NEW w \in Widths, NEW r \in RegNos,
         BothWays(op, o, w, r)
  PROVE  Advances
<1> DEFINE f == Fetched
<1>1. f \in Machines
  BY FetchedIs
<1>2. Advances <=> \E s : Becomes(s) /\ Careful(f, s)
  BY DEF Advances
<1>3. Becomes(Combine(f, op, r, o, w)) \/ Becomes(Modify(f, op, o, cpu.d[r], w))
  BY DEF BothWays
<1> HIDE DEF f
<1>4. Careful(f, Combine(f, op, r, o, w)) /\ Careful(f, Modify(f, op, o, cpu.d[r], w))
  BY <1>1, ProgramIs, DataIs, CombineFits, ModifyFits
<1> QED BY <1>2, <1>3, <1>4

LEMMA SumsAdvance ==
  ASSUME cpu \in Machines, Combining \/ Adding \/ Subtracting \/ Comparing \/ Between
  PROVE  Advances
<1> DEFINE f == Fetched
<1>1. f \in Machines /\ Ok(f)
  BY FetchedIs
<1>2. Advances <=> \E s : Becomes(s) /\ Careful(f, s)
  BY DEF Advances
<1>3. {"add", "sub", "and", "or", "eor", "cmp", "addx", "subx"} \subseteq Ops
  BY DEF Ops, A1!Names
<1>4. CASE Combining
  <2>1. \E op \in {"and", "or"}, o \in Eas, w \in Widths, r \in RegNos : BothWays(op, o, w, r)
    BY <1>4 DEF Combining
  <2> QED BY <1>3, <2>1, BothWaysAdvance
<1>5. ASSUME NEW op \in {"add", "sub"}, Summing(op)
      PROVE  Advances
  <2>1. PICK o \in Eas, w \in Widths, r \in RegNos :
          BothWays(op, o, w, r) \/ Becomes(Address(f, op, r, o, w))
    BY <1>5 DEF Summing
  <2>2. CASE BothWays(op, o, w, r)
    BY <1>3, <2>2, BothWaysAdvance
  <2> HIDE DEF f
  <2>3. Careful(f, Address(f, op, r, o, w))
    BY <1>1, <1>3, ProgramIs, AddressFits
  <2> QED BY <1>2, <2>1, <2>2, <2>3
<1>6. CASE Comparing
  <2>1. \E o \in Eas, w \in Widths, r \in RegNos :
          \/ Becomes(Combine(f, "cmp", r, o, w)) \/ Becomes(Address(f, "cmp", r, o, w))
          \/ Becomes(Modify(f, "eor", o, cpu.d[r], w))
    BY <1>6 DEF Comparing
  <2> HIDE DEF f
  <2>2. "cmp" \in Ops /\ "eor" \in Ops
    BY <1>3
  <2>3. \A o \in Eas, w \in Widths, r \in RegNos :
          /\ Careful(f, Combine(f, "cmp", r, o, w)) /\ Careful(f, Address(f, "cmp", r, o, w))
          /\ Careful(f, Modify(f, "eor", o, cpu.d[r], w))
    BY <1>1, <2>2, ProgramIs, DataIs, CombineFits, AddressFits, ModifyFits
  <2> QED BY <1>2, <2>1, <2>3
<1>7. CASE Between
  <2>1. \E x, y \in RegNos, w \in Widths :
          \/ \E op \in {"addx", "subx"} : Becomes(BetweenMemory(f, op, x, y, w))
          \/ Becomes(Cmpm(f, x, y, w))
    BY <1>7 DEF Between
  <2> HIDE DEF f
  <2>2. \A x, y \in RegNos, w \in Widths : Careful(f, Cmpm(f, x, y, w))
    BY <1>1, CmpmFits
  <2>3. \A x, y \in RegNos, w \in Widths, op \in {"addx", "subx"} :
          Careful(f, BetweenMemory(f, op, x, y, w))
    BY <1>1, <1>3, BetweenMemoryFits
  <2> QED BY <1>2, <2>1, <2>2, <2>3
<1> QED BY <1>4, <1>5, <1>6, <1>7 DEF Adding, Subtracting

LEMMA ShiftsAdvance ==
  ASSUME cpu \in Machines, Shifting \/ Rotating
  PROVE  Advances
<1> DEFINE f == Fetched
           ops == {"asl", "asr", "lsl", "lsr", "rol", "ror", "roxl", "roxr"}
           counts == (1 .. 8) \cup {cpu.d[r] % 64 : r \in RegNos}
<1>1. f \in Machines /\ Ok(f)
  BY FetchedIs
<1>2. Advances <=> \E s : Becomes(s) /\ Careful(f, s)
  BY DEF Advances
<1>3. ops \subseteq Ops /\ 1 \in counts /\ 2 \in Widths
  BY DEF Ops, A1!Names, Widths
<1>4. counts \subseteq Int
  BY DataIs
<1>5. \E op \in ops, o \in Eas, w \in Widths, n \in counts : Becomes(Modify(f, op, o, n, w))
  <2>1. CASE Shifting
    <3>1. PICK op \in {"asl", "asr", "lsl", "lsr"}, o \in Eas :
            \/ \E w \in Widths, n \in counts : Becomes(Modify(f, op, o, n, w))
            \/ Becomes(Modify(f, op, o, 1, 2))
      BY <2>1 DEF Shifting, ByCount
    <3> HIDE DEF f, counts
    <3> QED BY <1>3, <3>1
  <2>2. CASE Rotating
    <3>1. PICK op \in {"rol", "ror", "roxl", "roxr"}, o \in Eas :
            \/ \E w \in Widths, n \in counts : Becomes(Modify(f, op, o, n, w))
            \/ Becomes(Modify(f, op, o, 1, 2))
      BY <2>2 DEF Rotating, ByCount
    <3> HIDE DEF f, counts
    <3> QED BY <1>3, <3>1
  <2> QED BY <2>1, <2>2
<1> HIDE DEF f, ops, counts
<1>6. \A op \in ops, o \in Eas, w \in Widths, n \in counts : Careful(f, Modify(f, op, o, n, w))
  BY <1>1, <1>3, <1>4, ProgramIs, ModifyFits
<1> QED BY <1>2, <1>5, <1>6

\* Every step that the machine takes.
LEMMA NextAdvances ==
  ASSUME TypeOK, Next
  PROVE  Advances /\ Running
<1>1. cpu \in Machines
  BY DEF TypeOK
<1>2. Running
  BY DEF Next, Moving, MovingToMemory, MovingFromMemory, Addressing, ToOperand, Immediate,
         Quickly, Combining, Adding, Subtracting, Summing, Comparing, Between, Shifting, Rotating,
         ByCount, Bits
<1> QED BY <1>1, <1>2, MovesAdvance, OperandsAdvance, SumsAdvance, ShiftsAdvance DEF Next

LEMMA InitIsTyped == Init => TypeOK
<1> SUFFICES ASSUME Init PROVE TypeOK
  OBVIOUS
<1>1. PICK c \in Contents :
        cpu = [d |-> c.d, a |-> c.a, ssp |-> c.ssp, mem |-> c.mem, sup |-> c.sup, cc |-> c.cc,
               pc |-> 0, oldPc |-> 0, src |-> At("imm", 0), dst |-> At("imm", 0), raised |-> None]
  BY DEF Init
<1>2. c \in [d : [RegNos -> Long], a : [RegNos -> Long], ssp : Long, mem : Memories,
             sup : BOOLEAN, cc : SUBSET Flags]
  BY ProgramAssumption
<1>3. At("imm", 0) \in Places /\ None \in Exceptions /\ 0 \in Long
  BY AtFits, LongIs DEF None, Exceptions
<1>4. cpu \in Machines
  BY <1>1, <1>2, <1>3 DEF Machines
<1>5. steps \in 0 .. MaxSteps
  BY WidthAssumption DEF Init
<1> QED BY <1>4, <1>5 DEF TypeOK

\* A step keeps the type, and data when it stops at an odd address.
LEMMA StepKeeps ==
  ASSUME TypeOK, Next
  PROVE  /\ TypeOK'
         /\ cpu'.raised.vector = "address" => cpu'.mem = cpu.mem /\ cpu'.d = cpu.d
<1>1. PICK s : Becomes(s) /\ Careful(Fetched, s)
  BY NextAdvances DEF Advances
<1>2. cpu' = s /\ steps' = steps + 1
  BY <1>1 DEF Becomes
<1>3. Fetched.mem = cpu.mem /\ Fetched.d = cpu.d
  BY FetchedIs DEF TypeOK
<1>4. s \in Machines /\ (Ok(s) \/ (s.mem = cpu.mem /\ s.d = cpu.d))
  BY <1>1, <1>3 DEF Careful
<1>5. Ok(s) => s.raised.vector = "none"
  BY DEF Ok, None
<1>6. steps' \in 0 .. MaxSteps
  BY <1>2, NextAdvances, WidthAssumption DEF TypeOK, Running
<1> QED BY <1>2, <1>4, <1>5, <1>6 DEF TypeOK

\* Whatever a program does, registers, memory, places and exceptions keep their widths.
THEOREM TypeOKHolds == Spec => []TypeOK
<1>1. TypeOK /\ [Next]_vars => TypeOK'
  <2>1. ASSUME TypeOK, UNCHANGED vars PROVE TypeOK'
    BY <2>1 DEF TypeOK, vars
  <2> QED BY <2>1, StepKeeps
<1> QED BY <1>1, InitIsTyped, PTL DEF Spec

\* An instruction that stops at an odd address leaves memory and data registers as they
\* were: in MOVEM too, where only the first register can meet one.
THEOREM AddressErrorKeepsDataAlways == Spec => AddressErrorKeepsData
<1>1. TypeOK /\ [Next]_vars =>
        [cpu'.raised.vector = "address" => cpu'.mem = cpu.mem /\ cpu'.d = cpu.d]_vars
  BY StepKeeps
<1> QED BY <1>1, TypeOKHolds, PTL DEF Spec, AddressErrorKeepsData

\* What one instruction of the decoder moves, another moves back (EXG, MOVEP and its two
\* directions, the bit instructions): from any state of a program, for every width of a byte.
THEOREM InversePairsAlways == Spec => []InversePairs
<1>1. TypeOK => InversePairs
  BY PairsAreInverse DEF TypeOK
<1> QED BY <1>1, TypeOKHolds, PTL

\* What MOVE and MOVEM push on a stack, they pop from it again, from any state of a program
\* and for every list of registers.
THEOREM PushesArePoppedAlways == Spec => []PushesArePopped
<1>1. TypeOK => PushesArePopped
  BY PushesComeBack DEF TypeOK
<1> QED BY <1>1, TypeOKHolds, PTL


\* ADDX and SUBX on a word of memory do what they do on its two bytes, one after the other
\* (-(Ay),-(Ax): result, both registers and all flags), from any state of a program and for
\* every width of a byte.
THEOREM ChainsInMemoryAlways == Spec => []ChainsInMemory
<1>1. TypeOK => ChainsInMemory
  BY ChainsAreWords DEF TypeOK
<1> QED BY <1>1, TypeOKHolds, PTL
==============================================================================

---------------------------- MODULE MovesProofs ------------------------------
(***************************************************************************)
(* What each operator of Operands leaves of a machine, for bytes of any    *)
(* width, any number of registers, any size of memory and any operands.    *)
(* Quiet and Careful name the two answers there are: data and memory stay, *)
(* or they change only where nothing was raised.                           *)
(*                                                                         *)
(* Then what instructions do one after the other: data that goes out and   *)
(* comes back, and a bit that is changed and changed again.                *)
(***************************************************************************)
EXTENDS Operands, FiniteSetTheorems, TLAPS

\* What AluProofs shows of iteration and of quotients, whatever the width of operands.
Loops == INSTANCE AluProofs WITH SignBit <- 1, Source <- {}, Counts <- {},
        cpu <- <<>>, running <- TRUE, packed <- <<>>

------------------------------------------------------------------------------
(* Powers of two and the widths. *)

\* Two is the function that its recursive definition describes.
LEMMA TwoIs ==
  /\ Two[0] = 1
  /\ \A n \in Nat : Two[n] \in Nat \ {0} /\ Two[n + 1] = 2 * Two[n]
<1> DEFINE F == [v \in Nat \ {0} |-> 2 * v]
           g == [n \in Nat |-> Loops!Times(F, 1, n)]
<1>1. F \in [Nat \ {0} -> Nat \ {0}]
  OBVIOUS
<1>2. g[0] = 1 /\ \A n \in Nat : g[n] \in Nat \ {0} /\ g[n + 1] = F[g[n]]
  <2> HIDE DEF F
  <2> QED BY <1>1, Loops!Iterated
<1>3. \A n \in Nat : g[n + 1] = 2 * g[n]
  BY <1>2
<1>4. g = [n \in Nat |-> IF n = 0 THEN 1 ELSE 2 * g[n - 1]]
  <2>1. ASSUME NEW n \in Nat
        PROVE  g[n] = IF n = 0 THEN 1 ELSE 2 * g[n - 1]
    <3>1. CASE n = 0
      BY <3>1, <1>2
    <3>2. CASE n # 0
      <4>1. n - 1 \in Nat /\ (n - 1) + 1 = n
        BY <3>2
      <4> HIDE DEF g
      <4> QED BY <3>2, <4>1, <1>3
    <3> QED BY <3>1, <3>2
  <2> HIDE DEF F
  <2> QED BY <2>1
<1> HIDE DEF g
<1>5. Two = [n \in Nat |-> IF n = 0 THEN 1 ELSE 2 * Two[n - 1]]
  BY <1>4 DEF Two
<1>6. \A n \in Nat : Two[n + 1] = 2 * Two[n]
  <2> TAKE n \in Nat
  <2>1. n + 1 \in Nat /\ n + 1 # 0 /\ (n + 1) - 1 = n
    OBVIOUS
  <2> QED BY <1>5, <2>1
<1>7. Two[0] = 1
  BY <1>5
<1> DEFINE T == {n \in Nat : Two[n] \in Nat \ {0}}
<1>8. 0 \in T
  BY <1>7
<1>9. \A n \in Nat : n \in T => n + 1 \in T
  BY <1>6
<1>10. Nat \subseteq T
  <2> HIDE DEF T
  <2> QED BY <1>8, <1>9, Loops!Induct
<1> QED BY <1>6, <1>7, <1>10

LEMMA TwoSum ==
  ASSUME NEW a \in Nat, NEW b \in Nat
  PROVE  Two[a + b] = Two[a] * Two[b]
<1> DEFINE T == {n \in Nat : Two[a + n] = Two[a] * Two[n]}
<1>1. 0 \in T
  <2>1. a + 0 = a /\ Two[a] \in Int /\ Two[0] = 1
    BY TwoIs
  <2> QED BY <2>1
<1>2. ASSUME NEW n \in Nat, n \in T
      PROVE  n + 1 \in T
  <2> DEFINE p == Two[a]
             q == Two[n]
  <2>1. p \in Int /\ q \in Int
    BY TwoIs
  <2>2. a + n \in Nat /\ a + (n + 1) = (a + n) + 1
    OBVIOUS
  <2>3. Two[(a + n) + 1] = 2 * Two[a + n] /\ Two[n + 1] = 2 * q
    BY <2>2, TwoIs
  <2>4. Two[a + n] = p * q
    BY <1>2
  <2> HIDE DEF p, q
  <2>5. 2 * (p * q) = p * (2 * q)
    BY <2>1, SMT
  <2>6. Two[a + (n + 1)] = p * Two[n + 1]
    BY <2>2, <2>3, <2>4, <2>5
  <2> QED BY <2>6 DEF p
<1>3. Nat \subseteq T
  <2> HIDE DEF T
  <2> QED BY <1>1, <1>2, Loops!Induct
<1> QED BY <1>3

\* A byte has an even number of values.
LEMMA BaseIs ==
  /\ Base \in Nat /\ Base >= 2 /\ Base \div 2 \in Nat \ {0} /\ Base = 2 * (Base \div 2)
<1>1. ByteBits - 1 \in Nat /\ (ByteBits - 1) + 1 = ByteBits
  BY WidthAssumption
<1>2. PICK h \in Nat \ {0} : Base = 2 * h
  BY <1>1, TwoIs DEF Base
<1> QED BY <1>2

\* Products of positive numbers and of even ones.
LEMMA Product ==
  ASSUME NEW a \in Nat \ {0}, NEW b \in Nat \ {0}
  PROVE  a * b \in Nat \ {0} /\ a * b >= a
<1>1. a * b >= a * 1
  BY SMT
<1> QED BY <1>1

LEMMA ModuliAre ==
  /\ Modulus(0) = 1 /\ Modulus(1) = Base /\ Modulus(2) = Base * Base
  /\ Modulus(3) = Base * Base * Base /\ Modulus(4) = Base * Base * Base * Base
<1> DEFINE n == ByteBits
<1>1. n \in Nat /\ n + n \in Nat /\ n + n + n \in Nat
  BY WidthAssumption
<1>2. /\ 0 * n = 0 /\ 1 * n = n /\ 2 * n = n + n /\ 3 * n = n + n + n
      /\ 4 * n = n + n + n + n
  BY <1>1
<1>3. Two[n + n] = Two[n] * Two[n] /\ Two[n + n + n] = Two[n + n] * Two[n]
      /\ Two[n + n + n + n] = Two[n + n + n] * Two[n]
  <2> HIDE DEF n
  <2> QED BY <1>1, TwoSum
<1>4. Two[0] = 1
  BY TwoIs
<1> HIDE DEF n
<1>5. /\ Modulus(0) = Two[0] /\ Modulus(1) = Two[n] /\ Modulus(2) = Two[n + n]
      /\ Modulus(3) = Two[n + n + n] /\ Modulus(4) = Two[n + n + n + n]
  BY <1>2 DEF Modulus, n
<1> QED BY <1>3, <1>4, <1>5 DEF Base, n

\* The numbers of values are positive and, but for none, even; those of a wider
\* operand are a multiple.
LEMMA ModulusIs ==
  /\ \A w \in 0 .. 4 : Modulus(w) \in Nat \ {0}
  /\ Modulus(0) = 1 /\ Modulus(1) = Base /\ Modulus(2) = Base * Base
  /\ Modulus(3) = Base * Modulus(2) /\ Modulus(4) = Modulus(2) * Modulus(2)
  /\ \A w \in 0 .. 3 : Modulus(w + 1) = Modulus(w) * Base
  /\ \A w \in 0 .. 4 : Modulus(4) = Modulus(w) * Modulus(4 - w)
<1> DEFINE B == Base
           C == B * B
<1>1. B \in Nat \ {0}
  BY BaseIs
<1>2. C \in Nat \ {0}
  BY <1>1, Product
<1>3. /\ Modulus(0) = 1 /\ Modulus(1) = B /\ Modulus(2) = C
      /\ Modulus(3) = C * B /\ Modulus(4) = C * B * B
  BY ModuliAre
<1>4. C * B \in Nat \ {0} /\ C * B * B \in Nat \ {0}
  <2> HIDE DEF C
  <2> QED BY <1>1, <1>2, Product
<1>5. C * B = B * C /\ C * B * B = C * C /\ C * B * B = B * (C * B)
  BY <1>1, SMT
<1> HIDE DEF B, C
<1>6. \A w \in 0 .. 4 : Modulus(w) \in Nat \ {0}
  <2> TAKE w \in 0 .. 4
  <2>1. w = 0 \/ w = 1 \/ w = 2 \/ w = 3 \/ w = 4
    OBVIOUS
  <2> QED BY <1>1, <1>2, <1>3, <1>4, <2>1
<1>7. \A w \in 0 .. 3 : Modulus(w + 1) = Modulus(w) * B
  <2> TAKE w \in 0 .. 3
  <2>1. w = 0 \/ w = 1 \/ w = 2 \/ w = 3
    OBVIOUS
  <2>2. B = 1 * B /\ C = B * B
    BY <1>1 DEF C
  <2> QED BY <1>3, <2>1, <2>2
<1>8. \A w \in 0 .. 4 : Modulus(4) = Modulus(w) * Modulus(4 - w)
  <2> TAKE w \in 0 .. 4
  <2>1. w = 0 \/ w = 1 \/ w = 2 \/ w = 3 \/ w = 4
    OBVIOUS
  <2>2. C * B * B = 1 * (C * B * B) /\ C * B * B = (C * B * B) * 1 /\ C * B * B = (C * B) * B
    BY <1>4
  <2> QED BY <1>3, <1>5, <2>1, <2>2
<1> QED BY <1>3, <1>5, <1>6, <1>7, <1>8 DEF B, C

\* The quotient and the remainder, and that there are no others.
LEMMA Parts ==
  ASSUME NEW a \in Int, NEW m \in Nat \ {0}
  PROVE  /\ a \div m \in Int /\ a % m \in 0 .. m - 1 /\ a % m \in Nat
         /\ a = m * (a \div m) + (a % m)
BY Loops!DivMod

LEMMA OnlyParts ==
  ASSUME NEW m \in Nat \ {0}, NEW q \in Int, NEW r \in 0 .. m - 1
  PROVE  (m * q + r) \div m = q /\ (m * q + r) % m = r
<1> DEFINE a == m * q + r
<1>1. a \in Int /\ a = m * q + r /\ r \in Int /\ 0 <= r /\ r < m
  OBVIOUS
<1> HIDE DEF a
<1>2. a \div m = q /\ a % m = r
  BY <1>1, Loops!DivUnique
<1> QED BY <1>2 DEF a

\* What is small is its own remainder, and remainders forget multiples.
LEMMA Remainders ==
  ASSUME NEW a \in Int, NEW m \in Nat \ {0}
  PROVE  /\ a \in 0 .. m - 1 => a % m = a
         /\ \A k \in Int : (a + m * k) % m = a % m
         /\ \A b \in Int : ((a % m) + b) % m = (a + b) % m
<1>1. ASSUME a \in 0 .. m - 1
      PROVE  a % m = a
  <2>1. a = m * 0 + a
    BY SMT
  <2>2. (m * 0 + a) % m = a
    BY <1>1, OnlyParts
  <2> QED BY <2>1, <2>2
<1>2. ASSUME NEW k \in Int
      PROVE  (a + m * k) % m = a % m
  <2> DEFINE q == a \div m
             r == a % m
  <2>1. q \in Int /\ r \in 0 .. m - 1 /\ a = m * q + r
    BY Parts
  <2> HIDE DEF q
  <2>2. a + m * k = m * (q + k) + r /\ q + k \in Int /\ a + m * k \in Int
    <3> HIDE DEF r
    <3> QED BY <2>1, SMT
  <2>3. (m * (q + k) + r) % m = r
    <3> HIDE DEF r
    <3> QED BY <2>1, <2>2, OnlyParts
  <2> QED BY <2>2, <2>3
<1>3. ASSUME NEW b \in Int
      PROVE  ((a % m) + b) % m = (a + b) % m
  <2> DEFINE q == a \div m
             r == a % m
             c == (r + b) \div m
             d == (r + b) % m
  <2>1. q \in Int /\ r \in 0 .. m - 1 /\ a = m * q + r
    BY Parts
  <2>2. r + b \in Int
    BY <2>1
  <2>3. c \in Int /\ d \in 0 .. m - 1 /\ r + b = m * c + d
    <3> HIDE DEF r
    <3> QED BY <2>2, Parts
  <2> HIDE DEF q, r, c
  <2>4. a + b = m * (q + c) + d /\ q + c \in Int /\ a + b \in Int
    <3> HIDE DEF d
    <3> QED BY <2>1, <2>3, SMT
  <2>5. (m * (q + c) + d) % m = d
    <3> HIDE DEF d
    <3> QED BY <2>3, <2>4, OnlyParts
  <2> QED BY <2>4, <2>5 DEF r
<1> QED BY <1>1, <1>2, <1>3

\* Two remainders in turn, when one modulus divides the other.
LEMMA Coarser ==
  ASSUME NEW a \in Int, NEW m \in Nat \ {0}, NEW k \in Nat \ {0}
  PROVE  (a % (m * k)) % m = a % m
<1>1. m * k \in Nat \ {0}
  BY Product
<1> DEFINE M == m * k
           q == a \div M
           r == a % M
<1>2. q \in Int /\ r \in Int /\ a = (m * k) * q + r
  <2> HIDE DEF M
  <2>1. M \in Nat \ {0}
    BY <1>1 DEF M
  <2>2. a \div M \in Int /\ a % M \in 0 .. M - 1 /\ a = M * (a \div M) + (a % M)
    BY <2>1, Parts
  <2>3. a % M \in Int
    BY <2>1, <2>2
  <2> QED BY <2>2, <2>3 DEF M
<1> HIDE DEF q, r
<1>3. a = r + m * (k * q) /\ k * q \in Int
  BY <1>2, SMT
<1>4. (r + m * (k * q)) % m = r % m
  <2> DEFINE j == k * q
  <2> HIDE DEF j
  <2> QED BY <1>2, <1>3, Remainders DEF j
<1> QED BY <1>3, <1>4 DEF r

\* The widths of operands, and what their values are less than.
LEMMA WidthIs ==
  ASSUME NEW w \in Widths
  PROVE  /\ w \in 1 .. 4 /\ Modulus(w) \in Nat \ {0} /\ Modulus(4) \in Nat \ {0}
         /\ \E k \in Nat \ {0} : Modulus(4) = Modulus(w) * k
         /\ Modulus(w) <= Modulus(4) /\ Modulus(w) >= 2
         /\ Modulus(w) \div 2 \in Nat \ {0} /\ Modulus(w) = 2 * (Modulus(w) \div 2)
<1>1. /\ w \in 1 .. 4 /\ 4 - w \in 0 .. 4 /\ w - 1 \in 0 .. 3 /\ w \in 0 .. 4
      /\ 4 \in 0 .. 4 /\ (w - 1) + 1 = w
  BY DEF Widths
<1>2. Modulus(w) \in Nat \ {0} /\ Modulus(4 - w) \in Nat \ {0} /\ Modulus(w - 1) \in Nat \ {0}
      /\ Modulus(4) \in Nat \ {0}
  BY <1>1, ModulusIs
<1>3. Modulus(4) = Modulus(w) * Modulus(4 - w) /\ Modulus(w) = Modulus(w - 1) * Base
  <2>1. Modulus((w - 1) + 1) = Modulus(w - 1) * Base
    BY <1>1, ModulusIs
  <2> QED BY <1>1, <2>1, ModulusIs
<1>4. Modulus(w) <= Modulus(4)
  BY <1>2, <1>3, Product
<1>5. \A m \in Nat \ {0} : m * Base = 2 * (m * (Base \div 2)) /\ m * (Base \div 2) \in Nat \ {0}
  <2> TAKE m \in Nat \ {0}
  <2> DEFINE h == Base \div 2
  <2>1. Base = 2 * h /\ h \in Nat \ {0}
    BY BaseIs
  <2> HIDE DEF h
  <2>2. m * (2 * h) = 2 * (m * h)
    BY <2>1, SMT
  <2>3. m * h \in Nat \ {0}
    BY <2>1, Product
  <2> QED BY <2>1, <2>2, <2>3 DEF h
<1>6. PICK e \in Nat \ {0} : Modulus(w) = 2 * e
  BY <1>2, <1>3, <1>5
<1>7. Modulus(w) \div 2 = e
  BY <1>6
<1> QED BY <1>1, <1>2, <1>3, <1>4, <1>6, <1>7

\* The low bytes of a number and the sums of the CPU are in their widths.
LEMMA LowFits ==
  ASSUME NEW v \in Int, NEW w \in Widths
  PROVE  Low(v, w) \in 0 .. Modulus(w) - 1 /\ Low(v, w) \in Nat
BY WidthIs, Parts DEF Low

LEMMA PlusFits ==
  ASSUME NEW v \in Int, NEW x \in Int
  PROVE  Plus(v, x) \in Long
<1>1. v + x \in Int /\ Modulus(4) \in Nat \ {0}
  BY WidthIs DEF Widths
<1> QED BY <1>1, Parts DEF Plus, Long

LEMMA ExtendedFits ==
  ASSUME NEW v \in Int, NEW w \in Widths
  PROVE  Extended(v, w) \in Long
<1>1. /\ Low(v, w) \in Int /\ Modulus(w) \in Int
      /\ Modulus(4) \in Nat \ {0} /\ Modulus(w) \div 2 \in Int
  BY LowFits, WidthIs
<1>2. \A a \in Int : a % Modulus(4) \in Long
  BY <1>1, Parts DEF Long
<1>3. (IF Low(v, w) >= Modulus(w) \div 2 THEN Low(v, w) - Modulus(w) ELSE Low(v, w)) \in Int
  BY <1>1
<1> QED BY <1>2, <1>3 DEF Extended

\* A number of the registers is one still when its low bytes are replaced.
LEMMA WithLowFits ==
  ASSUME NEW v \in Long, NEW w \in Widths, NEW x \in 0 .. Modulus(w) - 1
  PROVE  WithLow(v, w, x) \in Long /\ Low(WithLow(v, w, x), w) = x
<1> DEFINE m == Modulus(w)
           q == v \div m
           r == v % m
<1>1. PICK k \in Nat \ {0} : Modulus(4) = m * k
  BY WidthIs
<1>2. m \in Nat \ {0} /\ v \in Int /\ 0 <= v /\ v < m * k
  BY <1>1, WidthIs DEF Long
<1>3. q \in Int /\ r \in 0 .. m - 1 /\ v = m * q + r
  <2> HIDE DEF m
  <2> QED BY <1>2, Parts
<1>4. WithLow(v, w, x) = v - r + x
  BY DEF WithLow, Low
<1>5. x \in 0 .. m - 1
  OBVIOUS
<1> HIDE DEF m, q, r
<1>6. q >= 0
  <2> SUFFICES ASSUME q <= -1 PROVE FALSE
    BY <1>3
  <2>1. m * q <= m * (-1)
    BY <1>2, <1>3, SMT
  <2> QED BY <1>2, <1>3, <2>1
<1>7. q <= k - 1
  <2> SUFFICES ASSUME q >= k PROVE FALSE
    BY <1>3
  <2>1. m * q >= m * k
    BY <1>2, <1>3, SMT
  <2> QED BY <1>2, <1>3, <2>1
<1>8. m * q >= 0 /\ m * q <= m * (k - 1) /\ m * (k - 1) = m * k - m
  BY <1>2, <1>3, <1>6, <1>7, SMT
<1>9. v - r + x = m * q + x
  BY <1>2, <1>3, <1>5
<1>10. m * q + x >= 0 /\ m * q + x < m * k /\ m * q + x \in Int
  BY <1>2, <1>3, <1>5, <1>8
<1>11. (m * q + x) % m = x
  BY <1>2, <1>3, <1>5, OnlyParts
<1>12. v - r + x \in 0 .. Modulus(4) - 1
  <2>1. m * k \in Int
    BY <1>2
  <2> QED BY <1>1, <1>9, <1>10, <2>1
<1> QED BY <1>4, <1>9, <1>11, <1>12 DEF Long, Low, m

------------------------------------------------------------------------------
(* Machines: registers, memory and exceptions. *)

\* What is in a machine, and that each field may be replaced.
LEMMA FieldsAre ==
  ASSUME NEW s \in Machines
  PROVE  /\ s.d \in [RegNos -> Long] /\ s.a \in [RegNos -> Long] /\ s.ssp \in Long
         /\ s.sup \in BOOLEAN /\ s.cc \in SUBSET Flags /\ s.pc \in Long /\ s.oldPc \in Long
         /\ s.src \in Places /\ s.dst \in Places /\ s.mem \in Memories
         /\ s.raised \in Exceptions
BY DEF Machines

LEMMA ReplacedAre ==
  ASSUME NEW s \in Machines
  PROVE  /\ \A x \in [RegNos -> Long] : [s EXCEPT !.d = x] \in Machines
         /\ \A x \in [RegNos -> Long] : [s EXCEPT !.a = x] \in Machines
         /\ \A x \in Long : [s EXCEPT !.ssp = x] \in Machines
         /\ \A x \in SUBSET Flags : [s EXCEPT !.cc = x] \in Machines
         /\ \A x \in Long : [s EXCEPT !.pc = x] \in Machines
         /\ \A x \in Places : [s EXCEPT !.src = x] \in Machines
         /\ \A x \in Places : [s EXCEPT !.dst = x] \in Machines
         /\ \A x \in Memories : [s EXCEPT !.mem = x] \in Machines
         /\ \A x \in Exceptions : [s EXCEPT !.raised = x] \in Machines
BY DEF Machines

\* Numbers of registers and of bytes.
LEMMA LongIs ==
  /\ 0 \in Long /\ RegNos \subseteq Long /\ SP \in RegNos /\ Long \subseteq Int
  /\ \A r \in RegNos : r \in Nat
<1>1. Modulus(4) \in Nat \ {0}
  BY WidthIs DEF Widths
<1> QED BY <1>1, RegsAssumption DEF Long, RegNos, SP

\* A data register replaced.
LEMMA SetDIs ==
  ASSUME NEW s \in Machines, NEW r \in RegNos, NEW v \in Long
  PROVE  [s EXCEPT !.d[r] = v] \in Machines
<1>1. [s.d EXCEPT ![r] = v] \in [RegNos -> Long]
  BY FieldsAre
<1>2. [s EXCEPT !.d[r] = v] = [s EXCEPT !.d = [s.d EXCEPT ![r] = v]]
  OBVIOUS
<1> QED BY <1>1, <1>2, ReplacedAre

\* What stays when an address register is set.
SameButAddresses(s, t) ==
  /\ t.d = s.d /\ t.sup = s.sup /\ t.cc = s.cc /\ t.pc = s.pc /\ t.oldPc = s.oldPc
  /\ t.src = s.src /\ t.dst = s.dst /\ t.mem = s.mem /\ t.raised = s.raised

\* An address register has the number it is set to, and the others keep theirs.
LEMMA RegFits ==
  ASSUME NEW s \in Machines, NEW r \in RegNos
  PROVE  Reg(s, r) \in Long /\ Reg(s, r) \in Int
BY FieldsAre, LongIs DEF Reg

LEMMA SetRegIs ==
  ASSUME NEW s \in Machines, NEW r \in RegNos, NEW v \in Long
  PROVE  /\ SetReg(s, r, v) \in Machines
         /\ SameButAddresses(s, SetReg(s, r, v))
         /\ Reg(SetReg(s, r, v), r) = v
         /\ \A q \in RegNos \ {r} : Reg(SetReg(s, r, v), q) = Reg(s, q)
<1>1. CASE r = SP /\ s.sup
  <2>1. SetReg(s, r, v) = [s EXCEPT !.ssp = v]
    BY <1>1 DEF SetReg
  <2>2. [s EXCEPT !.ssp = v] \in Machines
    BY ReplacedAre
  <2> QED BY <1>1, <2>1, <2>2 DEF Reg, SameButAddresses, Machines
<1>2. CASE ~(r = SP /\ s.sup)
  <2> DEFINE f == [s.a EXCEPT ![r] = v]
  <2>1. SetReg(s, r, v) = [s EXCEPT !.a = f]
    BY <1>2 DEF SetReg
  <2>2. f \in [RegNos -> Long] /\ f[r] = v /\ \A q \in RegNos \ {r} : f[q] = s.a[q]
    BY FieldsAre
  <2> HIDE DEF f
  <2>3. [s EXCEPT !.a = f] \in Machines
    BY <2>2, ReplacedAre
  <2> QED BY <1>2, <2>1, <2>2, <2>3 DEF Reg, SameButAddresses, Machines
<1> QED BY <1>1, <1>2

\* The size of a step is a number.
LEMMA StepFits ==
  ASSUME NEW r, NEW w \in Widths
  PROVE  Step(r, w) \in {1, 2, 4} /\ Step(r, w) \in Nat /\ (w > 1 => Step(r, w) = w)
BY DEF Step, Widths

LEMMA IncDecAre ==
  ASSUME NEW s \in Machines, NEW r \in RegNos, NEW w \in Widths
  PROVE  /\ Inc(s, r, w) \in Machines /\ SameButAddresses(s, Inc(s, r, w))
         /\ Reg(Inc(s, r, w), r) = Plus(Reg(s, r), Step(r, w))
         /\ \A q \in RegNos \ {r} : Reg(Inc(s, r, w), q) = Reg(s, q)
         /\ Dec(s, r, w) \in Machines /\ SameButAddresses(s, Dec(s, r, w))
         /\ Reg(Dec(s, r, w), r) = Plus(Reg(s, r), -Step(r, w))
         /\ \A q \in RegNos \ {r} : Reg(Dec(s, r, w), q) = Reg(s, q)
<1>1. Step(r, w) \in Int /\ -Step(r, w) \in Int /\ Reg(s, r) \in Int
  BY StepFits, RegFits
<1>2. Plus(Reg(s, r), Step(r, w)) \in Long /\ Plus(Reg(s, r), -Step(r, w)) \in Long
  BY <1>1, PlusFits
<1> QED BY <1>2, SetRegIs DEF Inc, Dec

\* Bytes and addresses.
Addresses == 0 .. MemSize - 1
Bytes == 0 .. Base - 1

LEMMA AddressIs ==
  ASSUME NEW a \in Int
  PROVE  a % MemSize \in Addresses
<1>1. MemSize \in Nat \ {0}
  BY MemoryAssumption
<1> QED BY <1>1, Parts DEF Addresses

LEMMA BytesAre ==
  ASSUME NEW m \in Memories, NEW a \in Int
  PROVE  m[a % MemSize] \in Bytes /\ m[a % MemSize] \in Int
<1>1. a % MemSize \in Addresses
  BY AddressIs
<1> QED BY <1>1, BaseIs DEF Memories, Addresses, Bytes

\* Two bytes are a word and two words a long word.
LEMMA Joined ==
  ASSUME NEW m \in Nat \ {0}, NEW k \in Nat \ {0}, NEW h \in 0 .. m - 1, NEW l \in 0 .. k - 1
  PROVE  h * k + l \in 0 .. m * k - 1
<1>1. h * k <= (m - 1) * k /\ (m - 1) * k = m * k - k /\ h * k >= 0
  BY SMT
<1> QED BY <1>1

LEMMA LoadFits ==
  ASSUME NEW s \in Machines, NEW a \in Int, NEW w \in Widths
  PROVE  Load(s, a, w) \in 0 .. Modulus(w) - 1
<1> DEFINE b(i) == s.mem[(a + i) % MemSize]
<1>1. \A i \in 0 .. 3 : b(i) \in 0 .. Base - 1
  <2> TAKE i \in 0 .. 3
  <2>1. a + i \in Int
    OBVIOUS
  <2> QED BY <2>1, BytesAre, FieldsAre DEF Bytes
<1>2. Base \in Nat \ {0} /\ Base * Base \in Nat \ {0} /\ Base * Base * Base \in Nat \ {0}
  <2>1. Base \in Nat \ {0}
    BY BaseIs
  <2> DEFINE C == Base * Base
  <2>2. C \in Nat \ {0}
    BY <2>1, Product
  <2> HIDE DEF C
  <2>3. C * Base \in Nat \ {0}
    BY <2>1, <2>2, Product
  <2> QED BY <2>1, <2>2, <2>3 DEF C
<1> HIDE DEF b
<1>3. b(0) * Base + b(1) \in 0 .. Base * Base - 1
  BY <1>1, <1>2, Joined
<1>4. (b(0) * Base + b(1)) * Base + b(2) \in 0 .. Base * Base * Base - 1
  <2> DEFINE h == b(0) * Base + b(1)
             m == Base * Base
  <2>1. h \in 0 .. m - 1 /\ m \in Nat \ {0} /\ b(2) \in 0 .. Base - 1 /\ Base \in Nat \ {0}
    BY <1>1, <1>2, <1>3
  <2> HIDE DEF h, m
  <2>2. h * Base + b(2) \in 0 .. m * Base - 1
    BY <2>1, Joined
  <2> QED BY <2>2 DEF h, m
<1>5. ((b(0) * Base + b(1)) * Base + b(2)) * Base + b(3) \in 0 .. Base * Base * Base * Base - 1
  <2> DEFINE h == (b(0) * Base + b(1)) * Base + b(2)
             m == Base * Base * Base
  <2>1. h \in 0 .. m - 1 /\ m \in Nat \ {0} /\ b(3) \in 0 .. Base - 1 /\ Base \in Nat \ {0}
    BY <1>1, <1>2, <1>4
  <2> HIDE DEF h, m
  <2>2. h * Base + b(3) \in 0 .. m * Base - 1
    BY <2>1, Joined
  <2> QED BY <2>2 DEF h, m
<1>6. CASE w = 1
  <2>1. Load(s, a, w) = b(0)
    BY <1>6 DEF Load, b
  <2> QED BY <1>1, <1>6, <2>1, ModuliAre
<1>7. CASE w = 2
  <2>1. Load(s, a, w) = b(0) * Base + b(1)
    BY <1>7 DEF Load, b
  <2> QED BY <1>3, <1>7, <2>1, ModuliAre
<1>8. CASE w = 4
  <2>1. Load(s, a, w) = ((b(0) * Base + b(1)) * Base + b(2)) * Base + b(3)
    BY <1>8 DEF Load, b
  <2> QED BY <1>5, <1>8, <2>1, ModuliAre
<1> QED BY <1>6, <1>7, <1>8 DEF Widths

\* What stays when memory is written, and what it has then.
SameButMemory(s, t) ==
  /\ t.d = s.d /\ t.a = s.a /\ t.ssp = s.ssp /\ t.sup = s.sup /\ t.cc = s.cc /\ t.pc = s.pc
  /\ t.oldPc = s.oldPc /\ t.src = s.src /\ t.dst = s.dst /\ t.raised = s.raised

LEMMA StoreIs ==
  ASSUME NEW s \in Machines, NEW a \in Int, NEW w \in Widths, NEW v \in Int
  PROVE  /\ Store(s, a, w, v) \in Machines /\ SameButMemory(s, Store(s, a, w, v))
         /\ \A x \in Addresses :
              LET i == (x - a) % MemSize
              IN  /\ i \in Addresses
                  /\ Store(s, a, w, v).mem[x] =
                       IF i < w THEN (v \div Modulus(w - 1 - i)) % Base ELSE s.mem[x]
<1> DEFINE f == [x \in Addresses |->
                   LET i == (x - a) % MemSize
                   IN  IF i < w THEN (v \div Modulus(w - 1 - i)) % Base ELSE s.mem[x]]
<1>1. Store(s, a, w, v) = [s EXCEPT !.mem = f]
  BY DEF Store, Addresses
<1>2. \A x \in Addresses : (x - a) % MemSize \in Addresses
  <2> TAKE x \in Addresses
  <2>1. x - a \in Int
    BY DEF Addresses
  <2> QED BY <2>1, AddressIs
<1>3. \A x \in Addresses : f[x] \in 0 .. Base - 1
  <2> TAKE x \in Addresses
  <2> DEFINE i == (x - a) % MemSize
  <2>1. i \in Nat
    BY <1>2, MemoryAssumption DEF Addresses
  <2>2. s.mem[x] \in 0 .. Base - 1
    BY FieldsAre DEF Memories, Addresses
  <2>3. ASSUME i < w
        PROVE  (v \div Modulus(w - 1 - i)) % Base \in 0 .. Base - 1
    <3> HIDE DEF i
    <3>1. w - 1 - i \in 0 .. 4
      BY <2>1, <2>3, WidthIs
    <3>2. Modulus(w - 1 - i) \in Nat \ {0} /\ Base \in Nat \ {0}
      BY <3>1, ModulusIs, BaseIs
    <3>3. v \div Modulus(w - 1 - i) \in Int
      BY <3>2, Parts
    <3> QED BY <3>2, <3>3, Parts
  <2>4. f[x] = IF i < w THEN (v \div Modulus(w - 1 - i)) % Base ELSE s.mem[x]
    OBVIOUS
  <2> HIDE DEF i, f
  <2> QED BY <2>2, <2>3, <2>4
<1>4. f \in Memories
  BY <1>3 DEF Memories, Addresses
<1>5. \A x \in Addresses : f[x] = LET i == (x - a) % MemSize
                                  IN  IF i < w THEN (v \div Modulus(w - 1 - i)) % Base ELSE s.mem[x]
  OBVIOUS
<1> HIDE DEF f
<1>6. [s EXCEPT !.mem = f] \in Machines
  BY <1>4, ReplacedAre
<1>7. [s EXCEPT !.mem = f].mem = f /\ SameButMemory(s, [s EXCEPT !.mem = f])
  BY DEF Machines, SameButMemory
<1> QED BY <1>1, <1>2, <1>5, <1>6, <1>7

------------------------------------------------------------------------------
(* Exceptions, effective addresses, reads and writes. *)

\* Data and memory stay, or do so unless nothing was raised.
Quiet(s, t) == t \in Machines /\ t.mem = s.mem /\ t.d = s.d
Careful(s, t) == t \in Machines /\ (Ok(t) \/ (t.mem = s.mem /\ t.d = s.d))

LEMMA QuietChain ==
  /\ \A s \in Machines : Quiet(s, s)
  /\ \A s, t, u : Quiet(s, t) /\ Quiet(t, u) => Quiet(s, u)
  /\ \A s, t, u : Quiet(s, t) /\ Careful(t, u) => Careful(s, u)
  /\ \A s, t : Quiet(s, t) => Careful(s, t)
BY DEF Quiet, Careful

LEMMA RaisedAre ==
  ASSUME NEW s \in Machines
  PROVE  /\ None \in Exceptions
         /\ Quiet(s, Illegal(s)) /\ ~Ok(Illegal(s))
         /\ \A loc \in Places, read \in BOOLEAN :
              Quiet(s, AddressError(s, loc, read)) /\ ~Ok(AddressError(s, loc, read))
<1>1. None \in Exceptions /\ [None EXCEPT !.vector = "illegal"] \in Exceptions
      /\ [None EXCEPT !.vector = "illegal"] # None
  BY LongIs DEF None, Exceptions
<1>2. Quiet(s, Illegal(s)) /\ ~Ok(Illegal(s))
  <2> DEFINE e == [None EXCEPT !.vector = "illegal"]
  <2> HIDE DEF e
  <2>1. e \in Exceptions /\ e # None
    BY <1>1 DEF e
  <2>2. Illegal(s) = [s EXCEPT !.raised = e, !.pc = s.oldPc]
    BY DEF Illegal, e
  <2> QED BY <2>1, <2>2 DEF Quiet, Ok, Machines
<1>3. ASSUME NEW loc \in Places, NEW read \in BOOLEAN
      PROVE  Quiet(s, AddressError(s, loc, read)) /\ ~Ok(AddressError(s, loc, read))
  <2> DEFINE e == [vector |-> "address", address |-> loc.n, read |-> read,
                   program |-> loc.program]
  <2>1. loc.n \in Long /\ loc.program \in BOOLEAN
    BY LongIs DEF Places
  <2>2. e \in Exceptions /\ e # None
    BY <2>1 DEF Exceptions, None
  <2>3. AddressError(s, loc, read) = [s EXCEPT !.raised = e]
    BY DEF AddressError
  <2> HIDE DEF e
  <2> QED BY <2>2, <2>3 DEF Quiet, Ok, Machines
<1> QED BY <1>1, <1>2, <1>3

LEMMA FetchIs ==
  ASSUME NEW s \in Machines, NEW n \in Int
  PROVE  /\ Quiet(s, Fetch(s, n)) /\ Fetch(s, n).raised = s.raised
         /\ Fetch(s, n).dst = s.dst /\ Fetch(s, n).src = s.src
         /\ \A r \in RegNos : Reg(Fetch(s, n), r) = Reg(s, r)
<1>1. s.pc \in Int
  <2>1. s.pc \in Long
    BY FieldsAre
  <2> QED BY <2>1, LongIs
<1>4. 2 * n \in Int
  OBVIOUS
<1>3. Plus(s.pc, 2 * n) \in Long
  BY <1>1, <1>4, PlusFits
<1>2. Fetch(s, n) = [s EXCEPT !.pc = Plus(s.pc, 2 * n)]
  BY DEF Fetch
<1> QED BY <1>3, <1>2 DEF Quiet, Machines, Reg

\* Places are in memory, or registers there are.
LEMMA AtFits ==
  /\ \A n \in Int : /\ At("mem", n) \in Places /\ At("imm", n) \in Places
                    /\ InProgram(n) \in Places
                    /\ At("mem", n).l = "mem" /\ At("imm", n).l = "imm" /\ InProgram(n).l = "mem"
                    /\ At("mem", n).n = n % Modulus(4)
  /\ \A r \in RegNos : /\ At("dr", r) \in Places /\ At("ar", r) \in Places
                       /\ At("dr", r).l = "dr" /\ At("ar", r).l = "ar"
                       /\ At("dr", r).n = r /\ At("ar", r).n = r
<1>1. \A n \in Int : n % Modulus(4) \in Long
  BY WidthIs, Parts DEF Widths, Long
<1>2. \A r \in RegNos : r % Modulus(4) = r
  <2> TAKE r \in RegNos
  <2>1. r \in 0 .. Modulus(4) - 1 /\ Modulus(4) \in Nat \ {0} /\ r \in Int
    BY LongIs, WidthIs DEF Widths, Long
  <2> QED BY <2>1, Remainders
<1> QED BY <1>1, <1>2 DEF At, InProgram, Places

\* The operands that an instruction may have.
Sound(o) ==
  /\ o.reg \in RegNos /\ o.ext \in Long
  /\ o.mode \in {"(d8,An,Xn)", "(d8,PC,Xn)"} => o.index.reg \in RegNos

LEMMA EasAreSound == \A o \in Eas : Sound(o)
BY ProgramAssumption DEF Sound

LEMMA IndexFits ==
  ASSUME NEW s \in Machines, NEW x, x.reg \in RegNos
  PROVE  Index(s, x) \in Int
<1> DEFINE v == IF x.kind = "a" THEN Reg(s, x.reg) ELSE s.d[x.reg]
<1>1. v \in Int
  BY FieldsAre, RegFits, LongIs
<1>2. Index(s, x) = IF x.long THEN v ELSE Extended(v, 2)
  BY DEF Index
<1> HIDE DEF v
<1>3. Extended(v, 2) \in Int
  BY <1>1, ExtendedFits, LongIs DEF Widths
<1> QED BY <1>1, <1>2, <1>3

\* What finding an operand does: it may change an address register and the PC, and
\* leaves places as they were.
Found(s, t) == Quiet(s, t) /\ t.src = s.src /\ t.dst = s.dst /\ t.cc = s.cc

Located(s, o, t) ==
  /\ Found(s, t[1]) /\ t[2] \in Places
  /\ Ok(t[1]) /\ o.mode \notin {"Dn", "An", "#"} => t[2].l = "mem"
  /\ o.mode = "Dn" => t[2].l = "dr" /\ t[2].n = o.reg /\ t[1] = s
  /\ o.mode = "An" => t[2].l = "ar" /\ t[2].n = o.reg /\ t[1] = s
  /\ o.mode = "#" => t[2].l = "imm"
  /\ \A r \in RegNos \ {o.reg} : Reg(t[1], r) = Reg(s, r)

LEMMA LocateFits ==
  ASSUME NEW s \in Machines, NEW o, Sound(o), NEW w \in Widths, Ok(s)
  PROVE  Located(s, o, Locate(s, o, w))
<1> DEFINE t == Locate(s, o, w)
           f(n) == Fetch(s, n)
           R == Reg(s, o.reg)
<1>20. o.reg \in RegNos /\ o.ext \in Long
  BY DEF Sound
<1>1. \A x \in Long : x \in Int
  BY LongIs
<1>2. R \in Int /\ o.ext \in Int /\ s.pc \in Int
  BY <1>1, <1>20, RegFits, FieldsAre
<1>3. Extended(o.ext, 2) \in Int /\ Extended(o.ext, 1) \in Int
  BY <1>1, <1>2, ExtendedFits DEF Widths
<1>4. \A n \in {1, 2} : /\ Found(s, f(n)) /\ \A r \in RegNos : Reg(f(n), r) = Reg(s, r)
  <2> TAKE n \in {1, 2}
  <2>1. f(n).cc = s.cc
    BY DEF Fetch, Machines
  <2> QED BY <2>1, FetchIs DEF Found
<1>5. Found(s, s)
  BY QuietChain DEF Found
<1>0. \A x, y \in Int : x + y \in Int
  OBVIOUS
<1> HIDE DEF R
<1>19. o.mode \in {"(d8,An,Xn)", "(d8,PC,Xn)"} => Index(s, o.index) \in Int
  BY IndexFits DEF Sound
<1>6. CASE o.mode = "Dn"
  <2>1. t = <<s, At("dr", o.reg)>>
    BY <1>6 DEF Locate
  <2> QED BY <1>5, <1>6, <1>20, <2>1, AtFits DEF Located
<1>7. CASE o.mode = "An"
  <2>1. t = <<s, At("ar", o.reg)>>
    BY <1>7 DEF Locate
  <2> QED BY <1>5, <1>7, <1>20, <2>1, AtFits DEF Located
<1>8. CASE o.mode = "(An)"
  <2>1. t = <<s, At("mem", R)>>
    BY <1>8 DEF Locate, R
  <2> QED BY <1>2, <1>5, <1>8, <2>1, AtFits DEF Located
<1>9. CASE o.mode = "(An)+"
  <2>1. t = <<Inc(s, o.reg, w), At("mem", R)>>
    BY <1>9 DEF Locate, R
  <2>2. Found(s, Inc(s, o.reg, w))
    BY <1>20, IncDecAre DEF Found, Quiet, SameButAddresses
  <2> QED BY <1>2, <1>9, <2>1, <2>2, <1>20, AtFits, IncDecAre DEF Located
<1>10. CASE o.mode = "-(An)"
  <2> DEFINE u == Dec(s, o.reg, w)
  <2>1. t = <<u, At("mem", Reg(u, o.reg))>>
    BY <1>10 DEF Locate
  <2>2. Found(s, u) /\ Reg(u, o.reg) \in Int
    BY <1>20, IncDecAre, RegFits DEF Found, Quiet, SameButAddresses
  <2> QED BY <1>10, <2>1, <2>2, <1>20, AtFits, IncDecAre DEF Located
<1>11. CASE o.mode = "(d16,An)"
  <2> DEFINE n == R + Extended(o.ext, 2)
  <2>1. n \in Int
    BY <1>0, <1>2, <1>3
  <2>2. t = <<f(1), At("mem", n)>>
    BY <1>11 DEF Locate, R
  <2>3. o.mode \notin {"Dn", "An", "#"}
    BY <1>11
  <2> HIDE DEF n
  <2> QED BY <1>4, <2>1, <2>2, <2>3, AtFits DEF Located
<1>12. CASE o.mode = "(d8,An,Xn)"
  <2> DEFINE n == R + Extended(o.ext, 1) + Index(s, o.index)
  <2>1. n \in Int
    BY <1>0, <1>2, <1>3, <1>19, <1>12
  <2>2. t = <<f(1), At("mem", n)>>
    BY <1>12 DEF Locate, R
  <2>3. o.mode \notin {"Dn", "An", "#"}
    BY <1>12
  <2> HIDE DEF n
  <2> QED BY <1>4, <2>1, <2>2, <2>3, AtFits DEF Located
<1>13. CASE o.mode = "(xxx).W"
  <2> DEFINE n == Extended(o.ext, 2)
  <2>1. n \in Int
    BY <1>3
  <2>2. t = <<f(1), At("mem", n)>>
    BY <1>13 DEF Locate, R
  <2>3. o.mode \notin {"Dn", "An", "#"}
    BY <1>13
  <2> HIDE DEF n
  <2> QED BY <1>4, <2>1, <2>2, <2>3, AtFits DEF Located
<1>14. CASE o.mode = "(xxx).L"
  <2> DEFINE n == o.ext
  <2>1. n \in Int
    BY <1>2
  <2>2. t = <<f(2), At("mem", n)>>
    BY <1>14 DEF Locate, R
  <2>3. o.mode \notin {"Dn", "An", "#"}
    BY <1>14
  <2> HIDE DEF n
  <2> QED BY <1>4, <2>1, <2>2, <2>3, AtFits DEF Located
<1>15. CASE o.mode = "(d16,PC)"
  <2> DEFINE n == s.pc + Extended(o.ext, 2)
  <2>1. n \in Int
    BY <1>0, <1>2, <1>3
  <2>2. t = <<f(1), InProgram(n)>>
    BY <1>15 DEF Locate, R
  <2>3. o.mode \notin {"Dn", "An", "#"}
    BY <1>15
  <2> HIDE DEF n
  <2> QED BY <1>4, <2>1, <2>2, <2>3, AtFits DEF Located
<1>16. CASE o.mode = "(d8,PC,Xn)"
  <2> DEFINE n == s.pc + Extended(o.ext, 1) + Index(s, o.index)
  <2>1. n \in Int
    BY <1>0, <1>2, <1>3, <1>19, <1>16
  <2>2. t = <<f(1), InProgram(n)>>
    BY <1>16 DEF Locate, R
  <2>3. o.mode \notin {"Dn", "An", "#"}
    BY <1>16
  <2> HIDE DEF n
  <2> QED BY <1>4, <2>1, <2>2, <2>3, AtFits DEF Located
<1>17. CASE o.mode = "#"
  <2>1. t = <<f(IF w = 4 THEN 2 ELSE 1), At("imm", o.ext)>>
    BY <1>17 DEF Locate
  <2>2. (IF w = 4 THEN 2 ELSE 1) \in {1, 2}
    OBVIOUS
  <2> DEFINE g == f(IF w = 4 THEN 2 ELSE 1)
  <2>3. Found(s, g) /\ \A r \in RegNos : Reg(g, r) = Reg(s, r)
    BY <1>4, <2>2
  <2> HIDE DEF g
  <2> QED BY <1>2, <1>17, <2>1, <2>3, AtFits DEF g, Located
<1>18. CASE o.mode \notin {"Dn", "An", "(An)", "(An)+", "-(An)", "(d16,An)", "(d8,An,Xn)",
                           "(xxx).W", "(xxx).L", "(d16,PC)", "(d8,PC,Xn)", "#"}
  <2>1. t = <<Illegal(s), At("imm", 0)>>
    BY <1>18 DEF Locate
  <2>2. Found(s, Illegal(s)) /\ ~Ok(Illegal(s)) /\ \A r \in RegNos : Reg(Illegal(s), r) = Reg(s, r)
    BY RaisedAre DEF Found, Illegal, Machines, Reg
  <2>3. At("imm", 0) \in Places
    BY AtFits
  <2>4. o.mode \notin {"Dn", "An", "#"}
    BY <1>18
  <2> QED BY <2>1, <2>2, <2>3, <2>4 DEF Located
<1> QED BY <1>6, <1>7, <1>8, <1>9, <1>10, <1>11, <1>12, <1>13, <1>14, <1>15, <1>16, <1>17, <1>18

\* Computing the address of an operand and reading it is quiet.
LEMMA SrcSetFits ==
  ASSUME NEW s \in Machines, NEW o, Sound(o), NEW w \in Widths
  PROVE  LET t == SrcSet(s, o, w)
         IN  /\ Quiet(s, t) /\ t.dst = s.dst /\ t.cc = s.cc
             /\ Ok(t) => Ok(s)
             /\ Ok(t) /\ o.mode \notin {"Dn", "An", "#"} => t.src.l = "mem"
<1>1. CASE ~Ok(s)
  <2>1. SrcSet(s, o, w) = s
    BY <1>1 DEF SrcSet
  <2> QED BY <1>1, <2>1, QuietChain
<1>2. CASE Ok(s)
  <2> DEFINE p == Locate(s, o, w)
             t == p[1]
  <2>1. Located(s, o, p)
    BY <1>2, LocateFits
  <2> HIDE DEF p
  <2>2. SrcSet(s, o, w) = IF Ok(t) THEN [t EXCEPT !.src = p[2]] ELSE t
    BY <1>2 DEF SrcSet, AsSrc, p
  <2>3. /\ Quiet(s, t) /\ t \in Machines /\ p[2] \in Places
        /\ t.dst = s.dst /\ t.cc = s.cc
        /\ Ok(t) /\ o.mode \notin {"Dn", "An", "#"} => p[2].l = "mem"
    BY <2>1 DEF Located, Found, Quiet
  <2> HIDE DEF t
  <2>4. [t EXCEPT !.src = p[2]] \in Machines
    BY <2>3, ReplacedAre
  <2>5. /\ [t EXCEPT !.src = p[2]].src = p[2] /\ [t EXCEPT !.src = p[2]].d = t.d
        /\ [t EXCEPT !.src = p[2]].mem = t.mem /\ [t EXCEPT !.src = p[2]].raised = t.raised
        /\ [t EXCEPT !.src = p[2]].dst = t.dst /\ [t EXCEPT !.src = p[2]].cc = t.cc
    BY <2>3 DEF Machines
  <2> QED BY <1>2, <2>2, <2>3, <2>4, <2>5 DEF Quiet, Ok
<1> QED BY <1>1, <1>2

LEMMA DstSetFits ==
  ASSUME NEW s \in Machines, NEW o, Sound(o), NEW w \in Widths
  PROVE  LET t == DstSet(s, o, w)
         IN  /\ Quiet(s, t) /\ t.src = s.src /\ t.cc = s.cc
             /\ Ok(t) => Ok(s)
             /\ Ok(t) /\ o.mode \notin {"Dn", "An", "#"} => t.dst.l = "mem"
<1>1. CASE ~Ok(s)
  <2>1. DstSet(s, o, w) = s
    BY <1>1 DEF DstSet
  <2> QED BY <1>1, <2>1, QuietChain
<1>2. CASE Ok(s)
  <2> DEFINE p == Locate(s, o, w)
             t == p[1]
  <2>1. Located(s, o, p)
    BY <1>2, LocateFits
  <2> HIDE DEF p
  <2>2. DstSet(s, o, w) = IF Ok(t) THEN [t EXCEPT !.dst = p[2]] ELSE t
    BY <1>2 DEF DstSet, AsDst, p
  <2>3. /\ Quiet(s, t) /\ t \in Machines /\ p[2] \in Places
        /\ t.src = s.src /\ t.cc = s.cc
        /\ Ok(t) /\ o.mode \notin {"Dn", "An", "#"} => p[2].l = "mem"
    BY <2>1 DEF Located, Found, Quiet
  <2> HIDE DEF t
  <2>4. [t EXCEPT !.dst = p[2]] \in Machines
    BY <2>3, ReplacedAre
  <2>5. /\ [t EXCEPT !.dst = p[2]].dst = p[2] /\ [t EXCEPT !.dst = p[2]].d = t.d
        /\ [t EXCEPT !.dst = p[2]].mem = t.mem /\ [t EXCEPT !.dst = p[2]].raised = t.raised
        /\ [t EXCEPT !.dst = p[2]].src = t.src /\ [t EXCEPT !.dst = p[2]].cc = t.cc
    BY <2>3 DEF Machines
  <2> QED BY <1>2, <2>2, <2>3, <2>4, <2>5 DEF Quiet, Ok
<1> QED BY <1>1, <1>2

\* A refusal raises an exception and does nothing else.
LEMMA RefusedIs ==
  ASSUME NEW s \in Machines, NEW loc \in Places, NEW w, NEW kinds, NEW read \in BOOLEAN
  PROVE  /\ Quiet(s, Refused(s, loc, w, kinds, read))
         /\ \/ ~Ok(Refused(s, loc, w, kinds, read))
            \/ /\ Refused(s, loc, w, kinds, read) = s /\ loc.l \in kinds
               /\ loc.l = "mem" /\ w > 1 => loc.n % 2 # 1
BY RaisedAre, QuietChain DEF Refused

LEMMA ReadsAre ==
  ASSUME NEW s \in Machines, NEW w \in Widths
  PROVE  /\ Quiet(s, SrcRead(s, w)) /\ (Ok(SrcRead(s, w)) => SrcRead(s, w) = s)
         /\ Quiet(s, DstRead(s, w)) /\ (Ok(DstRead(s, w)) => DstRead(s, w) = s)
<1>1. s.src \in Places /\ s.dst \in Places
  BY FieldsAre
<1>2. ASSUME NEW loc \in Places, NEW kinds
      PROVE  LET t == Refused(s, loc, w, kinds, TRUE) IN Quiet(s, t) /\ (Ok(t) => t = s)
  BY RefusedIs
<1>3. Quiet(s, s)
  BY QuietChain
<1>4. Quiet(s, SrcRead(s, w)) /\ (Ok(SrcRead(s, w)) => SrcRead(s, w) = s)
  <2>1. CASE ~Ok(s)
    BY <1>3, <2>1 DEF SrcRead
  <2>2. CASE Ok(s)
    BY <1>1, <1>2, <2>2 DEF SrcRead
  <2> QED BY <2>1, <2>2
<1>5. Quiet(s, DstRead(s, w)) /\ (Ok(DstRead(s, w)) => DstRead(s, w) = s)
  <2>1. CASE ~Ok(s)
    BY <1>3, <2>1 DEF DstRead
  <2>2. CASE Ok(s)
    BY <1>1, <1>2, <2>2 DEF DstRead
  <2> QED BY <2>1, <2>2
<1> QED BY <1>4, <1>5

\* A value read has the width it is read with.
LEMMA ValueFits ==
  ASSUME NEW s \in Machines, NEW loc \in Places, NEW w \in Widths
  PROVE  Value(s, loc, w) \in 0 .. Modulus(w) - 1
<1>1. loc.l \in {"dr", "ar", "mem", "imm"} /\ loc.n \in Int
      /\ (loc.l \in {"dr", "ar"} => loc.n \in RegNos)
  BY LongIs DEF Places
<1>2. CASE loc.l = "dr"
  <2>1. s.d[loc.n] \in Int
    BY <1>1, <1>2, FieldsAre, LongIs
  <2> QED BY <1>2, <2>1, LowFits DEF Value
<1>3. CASE loc.l = "ar"
  <2>1. Reg(s, loc.n) \in Int
    BY <1>1, <1>3, RegFits
  <2> QED BY <1>3, <2>1, LowFits DEF Value
<1>4. CASE loc.l = "mem"
  BY <1>1, <1>4, LoadFits DEF Value
<1>5. CASE loc.l = "imm"
  BY <1>1, <1>5, LowFits DEF Value
<1> QED BY <1>1, <1>2, <1>3, <1>4, <1>5

LEMMA ValuesFit ==
  ASSUME NEW s \in Machines, NEW w \in Widths
  PROVE  SrcValue(s, w) \in 0 .. Modulus(w) - 1 /\ DstValue(s, w) \in 0 .. Modulus(w) - 1
<1>1. s.src \in Places /\ s.dst \in Places /\ 0 \in 0 .. Modulus(w) - 1
  BY FieldsAre, WidthIs
<1> QED BY <1>1, ValueFits DEF SrcValue, DstValue

\* A write changes data only where it raises nothing, and the place stays.
LEMMA DstWriteFits ==
  ASSUME NEW s \in Machines, NEW w \in Widths, NEW v \in Int
  PROVE  LET t == DstWrite(s, w, v)
         IN  /\ Careful(s, t) /\ t.dst = s.dst /\ t.src = s.src /\ (Ok(t) => Ok(s))
             /\ ~Ok(s) => t = s
<1> DEFINE n == s.dst.n
           kinds == {"dr", "mem"} \cup (IF w = 1 THEN {} ELSE {"ar"})
           t == Refused(s, s.dst, w, kinds, FALSE)
<1>1. CASE ~Ok(s)
  <2>1. DstWrite(s, w, v) = s
    BY <1>1 DEF DstWrite
  <2> QED BY <1>1, <2>1, QuietChain
<1>2. s.dst \in Places
  BY FieldsAre
<1>3. /\ s.dst.l \in {"dr", "ar", "mem", "imm"} /\ n \in Int
      /\ (s.dst.l \in {"dr", "ar"} => n \in RegNos)
  BY <1>2, LongIs DEF Places
<1>4. Quiet(s, t) /\ (~Ok(t) \/ (t = s /\ s.dst.l \in kinds))
  BY <1>2, RefusedIs
<1>5. Low(v, w) \in 0 .. Modulus(w) - 1
  BY LowFits
<1> HIDE DEF n
<1>6. CASE Ok(s) /\ ~Ok(t)
  <2>1. DstWrite(s, w, v) = t
    BY <1>6 DEF DstWrite
  <2>2. t.dst = s.dst /\ t.src = s.src
    BY <1>6 DEF Refused, Illegal, AddressError, Machines
  <2>3. Careful(s, t)
    BY <1>4 DEF Quiet, Careful
  <2> HIDE DEF t
  <2> QED BY <1>6, <2>1, <2>2, <2>3
<1>7. CASE Ok(s) /\ Ok(t) /\ s.dst.l = "dr"
  <2> DEFINE x == WithLow(s.d[n], w, Low(v, w))
  <2>1. x \in Long
    BY <1>3, <1>5, <1>7, WithLowFits, FieldsAre
  <2>2. DstWrite(s, w, v) = [s EXCEPT !.d[n] = x]
    BY <1>4, <1>7 DEF DstWrite, n
  <2> HIDE DEF x
  <2>3. [s EXCEPT !.d[n] = x] \in Machines
    BY <1>3, <1>7, <2>1, SetDIs
  <2>4. /\ [s EXCEPT !.d[n] = x].raised = s.raised
        /\ [s EXCEPT !.d[n] = x].dst = s.dst /\ [s EXCEPT !.d[n] = x].src = s.src
    BY DEF Machines
  <2> QED BY <1>7, <2>2, <2>3, <2>4 DEF Careful, Ok
<1>8. CASE Ok(s) /\ Ok(t) /\ s.dst.l = "ar"
  <2> DEFINE x == WithLow(Reg(s, n), w, Low(v, w))
  <2>1. x \in Long
    BY <1>3, <1>5, <1>8, WithLowFits, RegFits
  <2>2. DstWrite(s, w, v) = SetReg(s, n, x)
    BY <1>4, <1>8 DEF DstWrite, n
  <2> HIDE DEF x
  <2>3. SetReg(s, n, x) \in Machines /\ SameButAddresses(s, SetReg(s, n, x))
    BY <1>3, <1>8, <2>1, SetRegIs
  <2> QED BY <1>8, <2>2, <2>3 DEF Careful, Ok, SameButAddresses
<1>9. CASE Ok(s) /\ Ok(t) /\ s.dst.l = "mem"
  <2>1. DstWrite(s, w, v) = Store(s, n, w, v)
    BY <1>4, <1>9 DEF DstWrite, n
  <2>2. Store(s, n, w, v) \in Machines /\ SameButMemory(s, Store(s, n, w, v))
    BY <1>3, StoreIs
  <2> QED BY <1>9, <2>1, <2>2 DEF Careful, Ok, SameButMemory
<1>10. CASE Ok(s) /\ Ok(t) /\ s.dst.l = "imm"
  <2>1. s.dst.l \notin kinds
    BY <1>10
  <2> QED BY <1>4, <1>10, <2>1
<1> QED BY <1>1, <1>3, <1>6, <1>7, <1>8, <1>9, <1>10

------------------------------------------------------------------------------
(* Instructions that read, set flags and write. *)

\* Flags alone are set.
Flagged(s, t) == Quiet(s, t) /\ t.raised = s.raised /\ t.dst = s.dst /\ t.src = s.src

LEMMA FlagsFit ==
  ASSUME NEW s \in Machines, NEW cc \in SUBSET Flags
  PROVE  /\ Flagged(s, WithFlags(s, cc))
         /\ ~Ok(s) => WithFlags(s, cc) = s
<1>1. CASE Ok(s)
  <2>1. WithFlags(s, cc) = [s EXCEPT !.cc = cc]
    BY <1>1 DEF WithFlags
  <2>2. [s EXCEPT !.cc = cc] \in Machines
    BY ReplacedAre
  <2> QED BY <1>1, <2>1, <2>2 DEF Flagged, Quiet, Machines
<1>2. CASE ~Ok(s)
  BY <1>2, QuietChain DEF Flagged, WithFlags
<1> QED BY <1>1, <1>2

LEMMA TestedFits ==
  ASSUME NEW s \in Machines, NEW v, NEW w
  PROVE  Flagged(s, Tested(s, v, w))
<1> DEFINE cc == (s.cc \cap {"X"}) \cup NZ(v, w)
<1>1. cc \in SUBSET Flags
  BY DEF NZ, Flags
<1>2. Tested(s, v, w) = WithFlags(s, cc)
  BY DEF Tested, WithFlags
<1> HIDE DEF cc
<1> QED BY <1>1, <1>2, FlagsFit

LEMMA FlaggedCareful ==
  ASSUME NEW s, NEW t, NEW u
  PROVE  Careful(s, t) /\ Flagged(t, u) => Careful(s, u)
BY DEF Careful, Flagged, Quiet, Ok

\* The first halves of instructions: an operand is found and read.
SourceRead(s, o, w) == SrcRead(SrcSet(s, o, w), w)
Target(s, o, w) == DstRead(DstSet(s, o, w), w)

LEMMA SourceReadFits ==
  ASSUME NEW s \in Machines, NEW o, Sound(o), NEW w \in Widths
  PROVE  /\ Quiet(s, SourceRead(s, o, w)) /\ SourceRead(s, o, w) \in Machines
         /\ SrcValue(SourceRead(s, o, w), w) \in 0 .. Modulus(w) - 1
<1> DEFINE t == SrcSet(s, o, w)
<1>1. Quiet(s, t)
  BY SrcSetFits
<1> HIDE DEF t
<1>2. Quiet(t, SrcRead(t, w))
  BY <1>1, ReadsAre DEF Quiet
<1>3. Quiet(s, SrcRead(t, w)) /\ SrcRead(t, w) \in Machines
  BY <1>1, <1>2 DEF Quiet
<1> QED BY <1>3, ValuesFit DEF SourceRead, t

LEMMA TargetFits ==
  ASSUME NEW s \in Machines, NEW o, Sound(o), NEW w \in Widths
  PROVE  /\ Quiet(s, Target(s, o, w)) /\ Target(s, o, w) \in Machines
         /\ DstValue(Target(s, o, w), w) \in 0 .. Modulus(w) - 1
<1> DEFINE t == DstSet(s, o, w)
<1>1. Quiet(s, t)
  BY DstSetFits
<1> HIDE DEF t
<1>2. Quiet(t, DstRead(t, w))
  BY <1>1, ReadsAre DEF Quiet
<1>3. Quiet(s, DstRead(t, w)) /\ DstRead(t, w) \in Machines
  BY <1>1, <1>2 DEF Quiet
<1> QED BY <1>3, ValuesFit DEF Target, t

\* What is less than the modulus is a number, and so is every long word.
LEMMA SmallIs ==
  ASSUME NEW w \in Widths, NEW v \in 0 .. Modulus(w) - 1
  PROVE  v \in Int
BY WidthIs

LEMMA MoveFits ==
  ASSUME NEW s \in Machines, NEW a, Sound(a), NEW b, Sound(b), NEW w \in Widths
  PROVE  Careful(s, Move(s, a, b, w))
<1> DEFINE read == SourceRead(s, a, w)
           v == SrcValue(read, w)
           t == Tested(read, v, w)
           x == Extended(v, w)
<1>1. Quiet(s, read) /\ read \in Machines /\ v \in Int
  BY SourceReadFits, SmallIs
<1>2. Move(s, a, b, w) = IF b.mode = "An" /\ w > 1
                         THEN DstWrite(DstSet(read, b, w), 4, x)
                         ELSE DstWrite(DstSet(t, b, w), w, v)
  BY DEF Move, SourceRead
<1> HIDE DEF read
<1>3. x \in Int
  BY <1>1, ExtendedFits, LongIs
<1>4. Flagged(read, t) /\ t \in Machines
  BY <1>1, TestedFits DEF Flagged, Quiet
<1>5. Quiet(s, t)
  BY <1>1, <1>4 DEF Flagged, Quiet
<1> HIDE DEF v, t, x
<1>6. \A m \in Machines : Quiet(s, m) => Quiet(s, DstSet(m, b, w)) /\ DstSet(m, b, w) \in Machines
  BY DstSetFits DEF Quiet
<1>7. \A m \in Machines, z \in Widths, y \in Int : Quiet(s, m) => Careful(s, DstWrite(m, z, y))
  BY DstWriteFits DEF Quiet, Careful
<1>8. 4 \in Widths
  BY DEF Widths
<1> QED BY <1>1, <1>2, <1>3, <1>4, <1>5, <1>6, <1>7, <1>8

LEMMA MoveqFits ==
  ASSUME NEW s \in Machines, NEW r \in RegNos, NEW v \in Int, Ok(s)
  PROVE  Careful(s, Moveq(s, r, v)) /\ Ok(Moveq(s, r, v))
<1> DEFINE x == Extended(v, 1)
           t == [s EXCEPT !.d[r] = x]
<1>1. x \in Long
  BY ExtendedFits DEF Widths
<1>2. Moveq(s, r, v) = Tested(t, t.d[r], 4)
  BY DEF Moveq
<1> HIDE DEF x
<1>3. t \in Machines /\ t.raised = s.raised
  BY <1>1, SetDIs
<1> HIDE DEF t
<1>4. Flagged(t, Tested(t, t.d[r], 4))
  BY <1>3, TestedFits
<1> QED BY <1>2, <1>3, <1>4 DEF Flagged, Quiet, Careful, Ok

LEMMA TstFits ==
  ASSUME NEW s \in Machines, NEW o, Sound(o), NEW w \in Widths
  PROVE  Careful(s, Tst(s, o, w))
<1> DEFINE read == SourceRead(s, o, w)
<1>1. Quiet(s, read) /\ read \in Machines
  BY SourceReadFits
<1>2. Tst(s, o, w) = Tested(read, SrcValue(read, w), w)
  BY DEF Tst, SourceRead
<1> HIDE DEF read
<1>3. Flagged(read, Tested(read, SrcValue(read, w), w))
  BY <1>1, TestedFits
<1> QED BY <1>1, <1>2, <1>3, QuietChain DEF Flagged

LEMMA ClrFits ==
  ASSUME NEW s \in Machines, NEW o, Sound(o), NEW w \in Widths
  PROVE  Careful(s, Clr(s, o, w))
<1> DEFINE t == IF w > 1 THEN Target(s, o, w) ELSE DstSet(s, o, w)
           u == DstWrite(t, w, 0)
           cc == (u.cc \cap {"X"}) \cup {"Z"}
<1>1. Quiet(s, t) /\ t \in Machines
  BY TargetFits, DstSetFits DEF Quiet
<1>2. Clr(s, o, w) = WithFlags(u, cc)
  BY DEF Clr, Target
<1> HIDE DEF t
<1>3. Careful(t, u)
  BY <1>1, DstWriteFits
<1>4. cc \in SUBSET Flags
  BY DEF Flags
<1> HIDE DEF u, cc
<1>5. Flagged(u, WithFlags(u, cc))
  BY <1>3, <1>4, FlagsFit DEF Careful
<1>6. Careful(s, u)
  BY <1>1, <1>3, QuietChain
<1> QED BY <1>2, <1>5, <1>6, FlaggedCareful

LEMMA SccFits ==
  ASSUME NEW s \in Machines, NEW cond, NEW o, Sound(o)
  PROVE  Careful(s, Scc(s, cond, o))
<1> DEFINE v == Byte!Scc([hi |-> 0, lo |-> 0, cc |-> s.cc], cond).lo
           t == DstSet(s, o, 1)
<1>1. v \in Int
  <2>1. Byte!Modulus - 1 \in Int
    BY WidthIs DEF Byte!Modulus, Widths
  <2> QED BY <2>1 DEF Byte!Scc
<1>2. 1 \in Widths
  BY DEF Widths
<1>3. Quiet(s, t) /\ t \in Machines
  BY <1>2, DstSetFits DEF Quiet
<1>4. Scc(s, cond, o) = DstWrite(t, 1, v)
  BY DEF Scc
<1> HIDE DEF t, v
<1>5. Careful(t, DstWrite(t, 1, v))
  BY <1>1, <1>2, <1>3, DstWriteFits
<1> QED BY <1>3, <1>4, <1>5, QuietChain

LEMMA BitFits ==
  ASSUME NEW s \in Machines, NEW op \in {"btst", "bchg", "bclr", "bset"}, NEW o,
         Sound(o), NEW n \in Int
  PROVE  Careful(s, Bit(s, op, o, n))
<1> DEFINE w == IF o.mode = "Dn" THEN 4 ELSE 1
           read == Target(s, o, w)
           v == DstValue(read, w)
           weight == Two[n % (w * ByteBits)]
           set == (v \div weight) % 2 = 1
           cc == (s.cc \ {"Z"}) \cup (IF set THEN {} ELSE {"Z"})
           t == WithFlags(read, cc)
           put == CASE op = "bset" -> TRUE [] op = "bclr" -> FALSE [] op = "bchg" -> ~set
           x == v + (IF put THEN weight ELSE 0) - (IF set THEN weight ELSE 0)
<1>1. w \in Widths
  BY DEF Widths
<1>2. Bit(s, op, o, n) = IF op = "btst" THEN t ELSE DstWrite(t, w, x)
  BY DEF Bit, Target
<1> HIDE DEF w
<1>3. Quiet(s, read) /\ read \in Machines /\ v \in Int
  BY <1>1, TargetFits, SmallIs
<1> HIDE DEF read, v
<1>4. weight \in Int
  <2>1. w * ByteBits \in Nat \ {0}
    BY <1>1, WidthAssumption, Product DEF Widths
  <2>2. n % (w * ByteBits) \in Nat
    <3> DEFINE m == w * ByteBits
    <3> HIDE DEF m
    <3>1. m \in Nat \ {0}
      BY <2>1 DEF m
    <3> QED BY <3>1, Parts DEF m
  <2> QED BY <2>2, TwoIs
<1> HIDE DEF weight
<1>5. x \in Int
  <2>1. \A a, b, c \in Int : a + b - c \in Int
    OBVIOUS
  <2>2. (IF put THEN weight ELSE 0) \in Int /\ (IF set THEN weight ELSE 0) \in Int
    <3> HIDE DEF put, set
    <3> QED BY <1>4
  <2> HIDE DEF put, set
  <2> QED BY <1>3, <2>1, <2>2
<1>6. cc \in SUBSET Flags
  BY FieldsAre DEF Flags
<1> HIDE DEF set, put, cc, x
<1>7. Flagged(read, t)
  BY <1>3, <1>6, FlagsFit
<1> HIDE DEF t
<1>8. Quiet(s, t) /\ t \in Machines
  BY <1>3, <1>7 DEF Flagged, Quiet
<1>9. Careful(t, DstWrite(t, w, x))
  BY <1>1, <1>5, <1>8, DstWriteFits
<1> QED BY <1>2, <1>8, <1>9, QuietChain

------------------------------------------------------------------------------
(* Instructions that raise nothing, or do so before they write. *)

\* An instruction goes on as it was.
Kept(s, t) == t \in Machines /\ t.raised = s.raised

LEMMA KeptCareful ==
  /\ \A s, t, u : Kept(s, t) /\ Kept(t, u) => Kept(s, u)
  /\ \A s, t, u : Quiet(s, t) /\ (Ok(t) => Kept(t, u)) /\ (~Ok(t) => u = t) => Careful(s, u)
BY DEF Kept, Quiet, Careful, Ok

\* EXG: a register of either kind.
Get(s, r) == IF r.kind = "d" THEN s.d[r.reg] ELSE Reg(s, r.reg)
Put(s, r, v) == IF r.kind = "d" THEN [s EXCEPT !.d[r.reg] = v] ELSE SetReg(s, r.reg, v)

LEMMA GetFits ==
  ASSUME NEW s \in Machines, NEW r \in AnyReg
  PROVE  Get(s, r) \in Long
BY FieldsAre, RegFits DEF Get, AnyReg

\* What neither of the registers is: the stack pointer of the other mode, and the rest.
SameButRegisters(s, t) ==
  /\ t.sup = s.sup /\ (IF s.sup THEN t.a[SP] = s.a[SP] ELSE t.ssp = s.ssp)
  /\ t.cc = s.cc /\ t.pc = s.pc /\ t.oldPc = s.oldPc /\ t.src = s.src /\ t.dst = s.dst
  /\ t.mem = s.mem /\ t.raised = s.raised

LEMMA PutIs ==
  ASSUME NEW s \in Machines, NEW r \in AnyReg, NEW v \in Long
  PROVE  /\ Put(s, r, v) \in Machines /\ SameButRegisters(s, Put(s, r, v))
         /\ Get(Put(s, r, v), r) = v
         /\ \A q \in AnyReg : q # r => Get(Put(s, r, v), q) = Get(s, q)
<1>1. r.reg \in RegNos /\ r.kind \in {"d", "a"} /\ r = [kind |-> r.kind, reg |-> r.reg]
      /\ \A q \in AnyReg : /\ q.reg \in RegNos /\ q.kind \in {"d", "a"}
                           /\ q = [kind |-> q.kind, reg |-> q.reg]
  BY DEF AnyReg
<1>2. CASE r.kind = "d"
  <2> DEFINE f == [s.d EXCEPT ![r.reg] = v]
             t == [s EXCEPT !.d = f]
  <2>1. Put(s, r, v) = t
    BY <1>2 DEF Put
  <2>2. t \in Machines
    BY <1>1, SetDIs
  <2>3. f[r.reg] = v /\ \A q \in RegNos : q # r.reg => f[q] = s.d[q]
    BY <1>1, FieldsAre
  <2> HIDE DEF f
  <2>4. t.d = f /\ SameButRegisters(s, t) /\ t.a = s.a /\ t.ssp = s.ssp /\ t.sup = s.sup
    BY DEF Machines, SameButRegisters
  <2> HIDE DEF t
  <2>5. Get(t, r) = v
    BY <1>2, <2>3, <2>4 DEF Get
  <2>6. ASSUME NEW q \in AnyReg, q # r PROVE Get(t, q) = Get(s, q)
    <3>1. CASE q.kind = "d"
      <4>1. q.reg # r.reg /\ q.reg \in RegNos
        BY <1>1, <1>2, <2>6, <3>1
      <4> QED BY <2>3, <2>4, <3>1, <4>1 DEF Get
    <3>2. CASE q.kind # "d"
      BY <2>4, <3>2 DEF Get, Reg
    <3> QED BY <3>1, <3>2
  <2> QED BY <2>1, <2>2, <2>4, <2>5, <2>6
<1>3. CASE r.kind # "d"
  <2> DEFINE t == SetReg(s, r.reg, v)
  <2>1. Put(s, r, v) = t
    BY <1>3 DEF Put
  <2>2. /\ t \in Machines /\ SameButAddresses(s, t) /\ Reg(t, r.reg) = v
        /\ \A q \in RegNos \ {r.reg} : Reg(t, q) = Reg(s, q)
    BY <1>1, SetRegIs
  <2>3. IF s.sup THEN t.a[SP] = s.a[SP] ELSE t.ssp = s.ssp
    <3>1. CASE s.sup /\ r.reg = SP
      BY <3>1 DEF SetReg, Machines
    <3>2. CASE s.sup /\ r.reg # SP
      <4>1. t = [s EXCEPT !.a = [s.a EXCEPT ![r.reg] = v]]
        BY <3>2 DEF SetReg
      <4>2. s.a \in [RegNos -> Long] /\ SP \in RegNos
        BY FieldsAre, LongIs
      <4>3. [s.a EXCEPT ![r.reg] = v][SP] = s.a[SP]
        BY <3>2, <4>2
      <4>4. t.a = [s.a EXCEPT ![r.reg] = v]
        BY <4>1 DEF Machines
      <4> QED BY <3>2, <4>3, <4>4
    <3>3. CASE ~s.sup
      BY <3>3 DEF SetReg, Machines
    <3> QED BY <3>1, <3>2, <3>3
  <2> HIDE DEF t
  <2>4. SameButRegisters(s, t)
    BY <2>2, <2>3 DEF SameButRegisters, SameButAddresses
  <2>5. Get(t, r) = v
    BY <1>3, <2>2 DEF Get
  <2>6. ASSUME NEW q \in AnyReg, q # r PROVE Get(t, q) = Get(s, q)
    <3>1. CASE q.kind = "d"
      BY <2>2, <3>1 DEF Get, SameButAddresses
    <3>2. CASE q.kind # "d"
      <4>1. q.reg # r.reg /\ q.reg \in RegNos
        BY <1>1, <1>3, <2>6, <3>2
      <4> QED BY <2>2, <3>2, <4>1 DEF Get
    <3> QED BY <3>1, <3>2
  <2> QED BY <2>1, <2>2, <2>4, <2>5, <2>6
<1> QED BY <1>2, <1>3

LEMMA ExgIs ==
  ASSUME NEW s, NEW x, NEW y
  PROVE  Exg(s, x, y) = Put(Put(s, y, Get(s, x)), x, Get(s, y))
BY DEF Exg, Put, Get

LEMMA ExgFits ==
  ASSUME NEW s \in Machines, NEW x \in AnyReg, NEW y \in AnyReg, Ok(s)
  PROVE  Careful(s, Exg(s, x, y))
<1> DEFINE t == Put(s, y, Get(s, x))
           u == Put(t, x, Get(s, y))
<1>1. Get(s, x) \in Long /\ Get(s, y) \in Long
  BY GetFits
<1>2. t \in Machines /\ t.raised = s.raised
  BY <1>1, PutIs DEF SameButRegisters
<1> HIDE DEF t
<1>3. u \in Machines /\ u.raised = t.raised
  BY <1>1, <1>2, PutIs DEF SameButRegisters
<1> HIDE DEF u
<1>4. Exg(s, x, y) = u
  BY ExgIs DEF t, u
<1> QED BY <1>2, <1>3, <1>4 DEF Careful, Ok

LEMMA LeaFits ==
  ASSUME NEW s \in Machines, NEW r \in RegNos, NEW o, Sound(o)
  PROVE  Careful(s, Lea(s, r, o))
<1> DEFINE t == SrcSet(s, o, 4)
<1>1. Quiet(s, t) /\ t \in Machines
  BY SrcSetFits DEF Quiet, Widths
<1>2. Lea(s, r, o) = IF Ok(t) THEN SetReg(t, r, t.src.n) ELSE t
  BY DEF Lea
<1> HIDE DEF t
<1>3. t.src.n \in Long
  <2>1. t.src \in Places
    BY <1>1, FieldsAre
  <2> QED BY <2>1, LongIs DEF Places
<1>4. Kept(t, SetReg(t, r, t.src.n))
  BY <1>1, <1>3, SetRegIs DEF Kept, SameButAddresses
<1> QED BY <1>1, <1>2, <1>4, KeptCareful

LEMMA PushFits ==
  ASSUME NEW s \in Machines, NEW v \in Int
  PROVE  Kept(s, Push(s, v))
<1> DEFINE t == Dec(s, SP, 2)
<1>1. t \in Machines /\ t.raised = s.raised
  BY IncDecAre, LongIs DEF SameButAddresses, Widths
<1>2. Push(s, v) = IF Reg(t, SP) % 2 = 0 THEN Store(t, Reg(t, SP), 2, v) ELSE t
  BY DEF Push
<1> HIDE DEF t
<1>3. Reg(t, SP) \in Int /\ 2 \in Widths
  BY <1>1, RegFits, LongIs DEF Widths
<1>4. Kept(t, Store(t, Reg(t, SP), 2, v))
  <2> DEFINE a == Reg(t, SP)
             u == Store(t, a, 2, v)
  <2>1. a \in Int
    BY <1>3
  <2> HIDE DEF a
  <2>2. u \in Machines /\ SameButMemory(t, u)
    BY <1>1, <1>3, <2>1, StoreIs
  <2> HIDE DEF u
  <2>3. Kept(t, u)
    BY <2>2 DEF Kept, SameButMemory
  <2> QED BY <2>3 DEF u, a
<1> QED BY <1>1, <1>2, <1>4 DEF Kept

LEMMA PeaFits ==
  ASSUME NEW s \in Machines, NEW o, Sound(o)
  PROVE  Careful(s, Pea(s, o))
<1> DEFINE t == SrcSet(s, o, 4)
           x == Low(t.src.n, 2)
           y == t.src.n \div Modulus(2)
           u == Push(t, x)
<1>1. Quiet(s, t) /\ t \in Machines
  BY SrcSetFits DEF Quiet, Widths
<1>2. Pea(s, o) = IF Ok(t) THEN Push(u, y) ELSE t
  BY DEF Pea
<1> HIDE DEF t
<1>3. x \in Int /\ y \in Int
  <2>1. t.src.n \in Int
    <3>1. t.src \in Places
      BY <1>1, FieldsAre
    <3> QED BY <3>1, LongIs DEF Places
  <2>2. 2 \in Widths /\ Modulus(2) \in Nat \ {0}
    BY WidthIs DEF Widths
  <2>3. \A n \in Int : n \div Modulus(2) \in Int
    BY <2>2, Parts
  <2>4. \A n \in Int : Low(n, 2) \in Int
    BY <2>2, LowFits
  <2> QED BY <2>1, <2>3, <2>4
<1> HIDE DEF x, y
<1>4. Kept(t, u)
  BY <1>1, <1>3, PushFits
<1> HIDE DEF u
<1>5. Kept(u, Push(u, y))
  BY <1>3, <1>4, PushFits DEF Kept
<1> QED BY <1>1, <1>2, <1>4, <1>5, KeptCareful

\* MOVEP writes one byte after the other.
LEMMA ByteStored ==
  ASSUME NEW s \in Machines, NEW a \in Int, NEW v \in Int
  PROVE  Kept(s, Store(s, a, 1, v)) /\ SameButMemory(s, Store(s, a, 1, v))
BY StoreIs DEF Kept, SameButMemory, Widths

LEMMA MovepToMemFits ==
  ASSUME NEW s \in Machines, NEW r \in RegNos, NEW o, Sound(o), NEW w \in {2, 4}, Ok(s)
  PROVE  Careful(s, MovepToMem(s, r, o, w))
<1> DEFINE t == Fetch(s, 1)
           address == Reg(s, o.reg) + Extended(o.ext, 2)
           v(i) == s.d[r] \div Modulus(w - 1 - i)
           put(m, i) == Store(m, address + 2 * i, 1, v(i))
<1>1. Kept(s, t)
  BY FetchIs DEF Kept, Quiet
<1>2. address \in Int
  <2>1. Reg(s, o.reg) \in Int /\ Extended(o.ext, 2) \in Int
    BY RegFits, ExtendedFits, LongIs DEF Sound, Widths
  <2> QED BY <2>1
<1>3. \A i \in 0 .. w - 1 : v(i) \in Int
  <2> TAKE i \in 0 .. w - 1
  <2>1. w - 1 - i \in 0 .. 4
    OBVIOUS
  <2>3. s.d[r] \in Int
    BY FieldsAre, LongIs
  <2>2. Modulus(w - 1 - i) \in Nat \ {0}
    BY <2>1, ModulusIs
  <2> QED BY <2>2, <2>3, Parts
<1>4. MovepToMem(s, r, o, w) = CASE w = 2 -> put(put(t, 1), 0)
                                 [] w = 4 -> put(put(put(put(t, 3), 2), 1), 0)
  BY DEF MovepToMem
<1> HIDE DEF t, address, v
<1>5. ASSUME NEW m, Kept(s, m), NEW i \in 0 .. w - 1
      PROVE  Kept(s, put(m, i))
  <2>1. address + 2 * i \in Int
    BY <1>2
  <2>2. m \in Machines
    BY <1>5 DEF Kept
  <2>3. v(i) \in Int
    BY <1>3
  <2>4. Kept(m, put(m, i))
    BY <2>1, <2>2, <2>3, ByteStored
  <2> HIDE DEF put
  <2> QED BY <1>5, <2>4, KeptCareful
<1> HIDE DEF put
<1>6. CASE w = 2
  <2>1. Kept(s, put(t, 1))
    BY <1>1, <1>5, <1>6
  <2>2. Kept(s, put(put(t, 1), 0))
    BY <2>1, <1>5, <1>6
  <2> QED BY <1>4, <1>6, <2>2 DEF Kept, Careful, Ok
<1>7. CASE w = 4
  <2>1. Kept(s, put(t, 3))
    BY <1>1, <1>5, <1>7
  <2>2. Kept(s, put(put(t, 3), 2))
    BY <2>1, <1>5, <1>7
  <2>3. Kept(s, put(put(put(t, 3), 2), 1))
    BY <2>2, <1>5, <1>7
  <2>4. Kept(s, put(put(put(put(t, 3), 2), 1), 0))
    BY <2>3, <1>5, <1>7
  <2> QED BY <1>4, <1>7, <2>4 DEF Kept, Careful, Ok
<1> QED BY <1>6, <1>7

\* What MOVEP finds: every second byte from an address.
Spread(s, a, w) ==
  LET get(i) == Load(s, a + 2 * i, 1)
  IN  CASE w = 2 -> get(0) * Base + get(1)
        [] w = 4 -> ((get(0) * Base + get(1)) * Base + get(2)) * Base + get(3)

LEMMA SpreadFits ==
  ASSUME NEW s \in Machines, NEW a \in Int, NEW w \in {2, 4}
  PROVE  Spread(s, a, w) \in 0 .. Modulus(w) - 1
<1> DEFINE get(i) == Load(s, a + 2 * i, 1)
<1>1. \A i \in 0 .. 3 : get(i) \in 0 .. Modulus(1) - 1
  <2> TAKE i \in 0 .. 3
  <2>1. a + 2 * i \in Int /\ 1 \in Widths
    BY DEF Widths
  <2> QED BY <2>1, LoadFits
<1>2. /\ Modulus(1) = Base /\ \A m \in 1 .. 3 : Modulus(m) \in Nat \ {0}
      /\ Modulus(2) = Modulus(1) * Base /\ Modulus(3) = Modulus(2) * Base
      /\ Modulus(4) = Modulus(3) * Base /\ Base \in Nat \ {0}
  <2>1. \A m \in 0 .. 3 : Modulus(m + 1) = Modulus(m) * Base
    BY ModulusIs
  <2>2. 1 + 1 = 2 /\ 2 + 1 = 3 /\ 3 + 1 = 4 /\ 1 \in 0 .. 3 /\ 2 \in 0 .. 3 /\ 3 \in 0 .. 3
    OBVIOUS
  <2>3. Modulus(1 + 1) = Modulus(1) * Base /\ Modulus(2 + 1) = Modulus(2) * Base
        /\ Modulus(3 + 1) = Modulus(3) * Base
    BY <2>1, <2>2
  <2>4. \A m \in 1 .. 3 : Modulus(m) \in Nat \ {0}
    BY ModulusIs
  <2> QED BY <2>2, <2>3, <2>4, ModulusIs, BaseIs
<1>3. Spread(s, a, w) = CASE w = 2 -> get(0) * Base + get(1)
                          [] w = 4 -> ((get(0) * Base + get(1)) * Base + get(2)) * Base + get(3)
  BY DEF Spread
<1> HIDE DEF get
<1> DEFINE p == get(0) * Base + get(1)
           q == p * Base + get(2)
<1>4. p \in 0 .. Modulus(2) - 1
  <2>1. get(0) \in 0 .. Base - 1 /\ get(1) \in 0 .. Base - 1 /\ Base \in Nat \ {0}
    BY <1>1, <1>2
  <2>2. get(0) * Base + get(1) \in 0 .. Base * Base - 1
    BY <2>1, Joined
  <2> QED BY <1>2, <2>2
<1> HIDE DEF p
<1>5. q \in 0 .. Modulus(3) - 1
  BY <1>1, <1>2, <1>4, Joined
<1> HIDE DEF q
<1>6. q * Base + get(3) \in 0 .. Modulus(4) - 1
  BY <1>1, <1>2, <1>5, Joined
<1> QED BY <1>3, <1>4, <1>6 DEF p, q

LEMMA MovepToRegIs ==
  ASSUME NEW s, NEW r, NEW o, NEW w
  PROVE  LET v == Spread(s, Reg(s, o.reg) + Extended(o.ext, 2), w)
         IN  MovepToReg(s, r, o, w) = [Fetch(s, 1) EXCEPT !.d[r] = WithLow(@, w, v)]
BY DEF MovepToReg, Spread

LEMMA MovepToRegFits ==
  ASSUME NEW s \in Machines, NEW r \in RegNos, NEW o, Sound(o), NEW w \in {2, 4}, Ok(s)
  PROVE  Careful(s, MovepToReg(s, r, o, w))
<1> DEFINE a == Reg(s, o.reg) + Extended(o.ext, 2)
           v == Spread(s, a, w)
           t == Fetch(s, 1)
           x == WithLow(t.d[r], w, v)
<1>1. a \in Int
  <2>1. Reg(s, o.reg) \in Int /\ Extended(o.ext, 2) \in Int
    BY RegFits, ExtendedFits, LongIs DEF Sound, Widths
  <2> QED BY <2>1
<1>2. v \in 0 .. Modulus(w) - 1
  BY <1>1, SpreadFits
<1>3. MovepToReg(s, r, o, w) = [t EXCEPT !.d[r] = x]
  BY MovepToRegIs
<1>4. Kept(s, t)
  BY FetchIs DEF Kept, Quiet
<1> HIDE DEF v, t
<1>5. x \in Long
  BY <1>2, <1>4, FieldsAre, WithLowFits DEF Kept, Widths
<1> HIDE DEF x
<1>6. [t EXCEPT !.d[r] = x] \in Machines /\ [t EXCEPT !.d[r] = x].raised = t.raised
  BY <1>4, <1>5, SetDIs DEF Kept
<1> QED BY <1>3, <1>4, <1>6 DEF Careful, Ok, Kept

\* The addresses of ADDX, SUBX and CMPM.
LEMMA TwiceAre ==
  ASSUME NEW s \in Machines, NEW x \in RegNos, NEW y \in RegNos, NEW w \in Widths
  PROVE  /\ Quiet(s, Inc(s, y, w)) /\ Quiet(s, Inc(Inc(s, y, w), x, w))
         /\ Quiet(s, Dec(s, y, w)) /\ Quiet(s, Dec(Dec(s, y, w), x, w))
         /\ Dec(Dec(s, y, w), x, w).raised = s.raised
<1> DEFINE t == Inc(s, y, w)
           u == Dec(s, y, w)
<1>1. Quiet(s, t) /\ Quiet(s, u) /\ u.raised = s.raised
  BY IncDecAre DEF Quiet, SameButAddresses
<1> HIDE DEF t, u
<1>2. Quiet(t, Inc(t, x, w)) /\ Quiet(u, Dec(u, x, w)) /\ Dec(u, x, w).raised = u.raised
  BY <1>1, IncDecAre DEF Quiet, SameButAddresses
<1> QED BY <1>1, <1>2, QuietChain DEF t, u

------------------------------------------------------------------------------
(* MOVEM. *)

\* The states that steps lead through, each from the one before, and a list of the
\* first of them.
Path(g, S, G, t) ==
  g \in [Nat -> S] /\ g[0] = t /\ \A k \in Nat : g[k + 1] = G[k][g[k]]
Track(f, S, G, t, n) ==
  f[0] = t /\ \A k \in 0 .. n - 1 : f[k] \in S => f[k + 1] = G[k][f[k]]

LEMMA Unrolled ==
  ASSUME NEW S, NEW G \in [Nat -> [S -> S]], NEW t \in S
  PROVE  \E g : Path(g, S, G, t)
<1> DEFINE P == Nat \X S
           F == [p \in P |-> <<p[1] + 1, G[p[1]][p[2]]>>]
<1>1. F \in [P -> P] /\ <<0, t>> \in P
  OBVIOUS
<1>2. \A p \in P : F[p] = <<p[1] + 1, G[p[1]][p[2]]>>
  OBVIOUS
<1> HIDE DEF F, P
<1> DEFINE x == <<0, t>>
<1>9. x \in P /\ x[1] = 0 /\ x[2] = t
  BY <1>1
<1> HIDE DEF x
<1>10. /\ Loops!Times(F, x, 0) = x
       /\ \A n \in Nat : /\ Loops!Times(F, x, n) \in P
                         /\ Loops!Times(F, x, n + 1) = F[Loops!Times(F, x, n)]
  BY <1>1, <1>9, Loops!Iterated
<1> DEFINE h == [n \in Nat |-> Loops!Times(F, x, n)]
<1>3. h[0] = x /\ \A n \in Nat : h[n] \in P /\ h[n + 1] = F[h[n]]
  BY <1>10
<1> HIDE DEF h
<1>11. ASSUME NEW n \in Nat
       PROVE  /\ h[n][2] \in S /\ h[n + 1][1] = h[n][1] + 1
              /\ h[n + 1][2] = G[h[n][1]][h[n][2]]
  <2>1. h[n] \in P /\ h[n + 1] = F[h[n]]
    BY <1>3
  <2>2. F[h[n]] = <<h[n][1] + 1, G[h[n][1]][h[n][2]]>>
    BY <1>2, <2>1
  <2> QED BY <2>1, <2>2 DEF P
<1> DEFINE T == {n \in Nat : h[n][1] = n}
<1>4. 0 \in T
  BY <1>3, <1>9
<1>5. \A n \in Nat : n \in T => n + 1 \in T
  BY <1>11
<1>6. Nat \subseteq T
  <2> HIDE DEF T
  <2> QED BY <1>4, <1>5, Loops!Induct
<1>7. \A n \in Nat : h[n][2] \in S /\ h[n + 1][2] = G[n][h[n][2]]
  BY <1>6, <1>11
<1> DEFINE g == [n \in Nat |-> h[n][2]]
<1>8. Path(g, S, G, t)
  BY <1>3, <1>7, <1>9 DEF Path
<1> HIDE DEF g
<1> QED BY <1>8

\* There are no others.
LEMMA Followed ==
  ASSUME NEW S, NEW G, NEW t, NEW g, Path(g, S, G, t), NEW n \in Nat,
         NEW f, Track(f, S, G, t, n)
  PROVE  f[n] = g[n]
<1> DEFINE T == {k \in Nat : k <= n => f[k] = g[k]}
<1>1. 0 \in T
  BY DEF Path, Track
<1>2. ASSUME NEW k \in Nat, k \in T
      PROVE  k + 1 \in T
  <2>1. SUFFICES ASSUME k + 1 <= n PROVE f[k + 1] = g[k + 1]
    OBVIOUS
  <2>2. k \in 0 .. n - 1 /\ k <= n
    BY <2>1
  <2>3. f[k] = g[k] /\ g[k] \in S
    BY <1>2, <2>2 DEF Path
  <2> QED BY <2>2, <2>3 DEF Path, Track
<1>3. Nat \subseteq T
  <2> HIDE DEF T
  <2> QED BY <1>1, <1>2, Loops!Induct
<1> QED BY <1>3

\* The numbers of the registers, and what they hold.
Numbers == 0 .. 2 * Regs - 1

LEMMA NumbersAre ==
  ASSUME NEW n \in Numbers
  PROVE  n \in Int /\ (n < Regs => n \in RegNos) /\ (~(n < Regs) => n - Regs \in RegNos)
BY RegsAssumption DEF Numbers, RegNos

LEMMA MovemRegFits ==
  ASSUME NEW s \in Machines, NEW n \in Numbers
  PROVE  MovemReg(s, n) \in Long
BY NumbersAre, FieldsAre, RegFits DEF MovemReg

LEMMA SetMovemRegFits ==
  ASSUME NEW s \in Machines, NEW n \in Numbers, NEW v \in Long
  PROVE  /\ SetMovemReg(s, n, v) \in Machines
         /\ SetMovemReg(s, n, v).src = s.src /\ SetMovemReg(s, n, v).mem = s.mem
         /\ SetMovemReg(s, n, v).raised = s.raised
<1>1. CASE n < Regs
  <2>1. SetMovemReg(s, n, v) = [s EXCEPT !.d[n] = v]
    BY <1>1 DEF SetMovemReg
  <2>2. [s EXCEPT !.d[n] = v] \in Machines
    BY <1>1, NumbersAre, SetDIs
  <2> QED BY <2>1, <2>2 DEF Machines
<1>2. CASE ~(n < Regs)
  BY <1>2, NumbersAre, SetRegIs DEF SetMovemReg, SameButAddresses
<1> QED BY <1>1, <1>2

\* A place in memory moves by a width, and stays even or odd.
LEMMA PlusEven ==
  ASSUME NEW n \in Long, NEW by \in {2, 4, -2, -4}
  PROVE  Plus(n, by) \in Long /\ Plus(n, by) % 2 = n % 2
<1>1. PICK k \in Nat \ {0} : Modulus(4) = 2 * k
  BY WidthIs DEF Widths
<1>2. PICK j \in Int : by = 2 * j
  <2>1. by = 2 * 1 \/ by = 2 * 2 \/ by = 2 * (-1) \/ by = 2 * (-2)
    OBVIOUS
  <2> QED BY <2>1
<1>3. n \in Int /\ n + by \in Int /\ by \in Int
  BY LongIs
<1>4. ((n + by) % (2 * k)) % 2 = (n + by) % 2
  <2> DEFINE a == n + by
  <2> HIDE DEF a
  <2>1. a \in Int /\ 2 \in Nat \ {0}
    BY <1>3 DEF a
  <2>2. (a % (2 * k)) % 2 = a % 2
    BY <2>1, Coarser
  <2> QED BY <2>2 DEF a
<1>5. (n + 2 * j) % 2 = n % 2
  BY <1>3, Remainders
<1>6. Plus(n, by) \in Long
  BY <1>3, PlusFits
<1> QED BY <1>1, <1>2, <1>4, <1>5, <1>6 DEF Plus

\* What MOVEM goes through: the place is in memory until an exception is raised.
Writing == {s \in Machines : Ok(s) => s.dst.l = "mem"}
Reading == {s \in Machines : Ok(s) => s.src.l = "mem"}

Moved(loc, by) == [loc EXCEPT !.n = Plus(loc.n, by)]

LEMMA MovedFits ==
  ASSUME NEW loc \in Places, loc.l = "mem", NEW by \in {2, 4, -2, -4}
  PROVE  /\ Moved(loc, by) \in Places /\ Moved(loc, by).l = "mem"
         /\ Moved(loc, by).n = Plus(loc.n, by) /\ Moved(loc, by).n % 2 = loc.n % 2
<1>1. loc \in [l : {"mem", "imm"}, n : Long, program : BOOLEAN]
  BY DEF Places
<1>2. Plus(loc.n, by) \in Long /\ Plus(loc.n, by) % 2 = loc.n % 2
  BY <1>1, PlusEven
<1>3. Moved(loc, by) \in [l : {"mem", "imm"}, n : Long, program : BOOLEAN]
      /\ Moved(loc, by).l = "mem" /\ Moved(loc, by).n = Plus(loc.n, by)
  BY <1>1, <1>2 DEF Moved
<1> QED BY <1>2, <1>3 DEF Places

\* One step of either kind.
Written(s, n, w, by, t) ==
  /\ ~Ok(s) => t = s
  /\ Ok(s) /\ s.dst.n % 2 = 1 => t = AddressError(s, s.dst, FALSE)
  /\ Ok(s) /\ s.dst.n % 2 # 1 =>
       t = [Store(s, s.dst.n, w, MovemReg(s, n)) EXCEPT !.dst = Moved(s.dst, by)]
WriteStep(s, t) ==
  /\ t \in Writing /\ t.d = s.d
  /\ Ok(t) => Ok(s) /\ t.dst.n % 2 = s.dst.n % 2 /\ s.dst.n % 2 # 1
  /\ ~Ok(t) => t.mem = s.mem /\ (Ok(s) => s.dst.n % 2 = 1)
ReadIn(s, n, w, t) ==
  /\ ~Ok(s) => t = s
  /\ Ok(s) /\ s.src.n % 2 = 1 => t = AddressError(s, s.src, TRUE)
  /\ Ok(s) /\ s.src.n % 2 # 1 =>
       t = [SetMovemReg(s, n, Extended(Load(s, s.src.n, w), w)) EXCEPT !.src = Moved(s.src, w)]
ReadStep(s, t) ==
  /\ t \in Reading /\ t.mem = s.mem
  /\ Ok(t) => Ok(s) /\ t.src.n % 2 = s.src.n % 2 /\ s.src.n % 2 # 1
  /\ ~Ok(t) => t.d = s.d /\ (Ok(s) => s.src.n % 2 = 1)

\* A register goes out at an even address, and an exception is raised at an odd one.
LEMMA MovemWriteIs ==
  ASSUME NEW s \in Writing, NEW n \in Numbers, NEW w \in {2, 4}, NEW by \in {2, 4, -2, -4}
  PROVE  Written(s, n, w, by, MovemWrite(s, n, w, by))
<1> DEFINE v == MovemReg(s, n)
           t == DstWrite(s, w, v)
           kinds == {"dr", "mem"} \cup (IF w = 1 THEN {} ELSE {"ar"})
           r == Refused(s, s.dst, w, kinds, FALSE)
<1>1. MovemWrite(s, n, w, by) = IF Ok(t) THEN [t EXCEPT !.dst.n = Plus(t.dst.n, by)] ELSE t
  BY DEF MovemWrite
<1>2. CASE ~Ok(s)
  <2>1. t = s
    BY <1>2 DEF DstWrite
  <2> HIDE DEF t
  <2> QED BY <1>1, <1>2, <2>1 DEF Written
<1>3. CASE Ok(s) /\ s.dst.n % 2 = 1
  <2>1. s.dst.l = "mem" /\ w > 1 /\ s \in Machines /\ s.dst \in Places
    BY <1>3, FieldsAre DEF Writing
  <2>2. r = AddressError(s, s.dst, FALSE)
    BY <1>3, <2>1 DEF Refused
  <2>3. ~Ok(r)
    BY <2>1, <2>2, RaisedAre
  <2>4. t = r
    BY <1>3, <2>3 DEF DstWrite
  <2> HIDE DEF t, r
  <2> QED BY <1>1, <1>3, <2>2, <2>3, <2>4 DEF Written
<1>4. CASE Ok(s) /\ s.dst.n % 2 # 1
  <2>1. s.dst.l = "mem" /\ w > 1 /\ s \in Machines /\ s.dst \in Places /\ w \in Widths
    BY <1>4, FieldsAre DEF Writing, Widths
  <2>2. r = s
    BY <1>4, <2>1 DEF Refused
  <2>3. t = Store(s, s.dst.n, w, v)
    BY <1>4, <2>1, <2>2 DEF DstWrite
  <2>4. t \in Machines /\ SameButMemory(s, t)
    <3>1. s.dst.n \in Int /\ v \in Int
      BY <2>1, MovemRegFits, LongIs DEF Places
    <3> HIDE DEF v, t
    <3> QED BY <2>1, <2>3, <3>1, StoreIs
  <2> HIDE DEF t, r, v
  <2>5. Ok(t) /\ t.dst = s.dst
    BY <1>4, <2>4 DEF SameButMemory, Ok
  <2>6. [t EXCEPT !.dst.n = Plus(t.dst.n, by)] = [t EXCEPT !.dst = Moved(s.dst, by)]
    BY <2>5 DEF Moved
  <2> QED BY <1>1, <1>4, <2>3, <2>5, <2>6 DEF v, Written
<1> QED BY <1>2, <1>3, <1>4

\* A step out leaves the data registers, and memory too where the address is odd.
LEMMA MovemWriteSteps ==
  ASSUME NEW s \in Writing, NEW n \in Numbers, NEW w \in {2, 4}, NEW by \in {2, 4, -2, -4}
  PROVE  WriteStep(s, MovemWrite(s, n, w, by))
<1> DEFINE t == MovemWrite(s, n, w, by)
<1>1. s \in Machines /\ s.dst \in Places
  BY FieldsAre DEF Writing
<1>5. Written(s, n, w, by, t)
  BY MovemWriteIs
<1>2. CASE ~Ok(s)
  <2>1. t = s
    BY <1>2, <1>5 DEF Written
  <2> HIDE DEF t
  <2> QED BY <1>2, <2>1 DEF WriteStep, t
<1>3. CASE Ok(s) /\ s.dst.n % 2 = 1
  <2>1. t = AddressError(s, s.dst, FALSE)
    BY <1>3, <1>5 DEF Written
  <2> HIDE DEF t
  <2>2. Quiet(s, t) /\ ~Ok(t)
    BY <1>1, <2>1, RaisedAre
  <2>3. t \in Writing /\ t.d = s.d /\ t.mem = s.mem
    BY <2>2 DEF Quiet, Writing
  <2> QED BY <1>3, <2>2, <2>3 DEF t, Written, WriteStep
<1>4. CASE Ok(s) /\ s.dst.n % 2 # 1
  <2> DEFINE u == Store(s, s.dst.n, w, MovemReg(s, n))
             loc == Moved(s.dst, by)
  <2>1. t = [u EXCEPT !.dst = loc]
    BY <1>4, <1>5 DEF Written
  <2> HIDE DEF t
  <2>2. u \in Machines /\ SameButMemory(s, u)
    <3>1. s.dst.n \in Int /\ MovemReg(s, n) \in Int /\ w \in Widths
      BY <1>1, MovemRegFits, LongIs DEF Places, Widths
    <3> QED BY <1>1, <3>1, StoreIs
  <2>3. loc \in Places /\ loc.l = "mem" /\ loc.n % 2 = s.dst.n % 2
    BY <1>1, <1>4, MovedFits DEF Writing
  <2> HIDE DEF u, loc
  <2>4. t \in Machines
    BY <2>1, <2>2, <2>3, ReplacedAre
  <2>5. t.dst = loc /\ t.d = u.d /\ t.raised = u.raised
    BY <2>1, <2>2 DEF Machines
  <2>6. Ok(t)
    BY <1>4, <2>2, <2>5 DEF Ok, SameButMemory
  <2> QED BY <1>4, <2>2, <2>3, <2>4, <2>5, <2>6 DEF t, Writing, SameButMemory, Written, WriteStep
<1> QED BY <1>2, <1>3, <1>4

\* A register comes in from an even address, and an exception is raised at an odd one.
LEMMA MovemReadIs ==
  ASSUME NEW s \in Reading, NEW n \in Numbers, NEW w \in {2, 4}
  PROVE  ReadIn(s, n, w, MovemRead(s, n, w))
<1> DEFINE t == SrcRead(s, w)
           kinds == {"dr", "mem", "imm"} \cup (IF w = 1 THEN {} ELSE {"ar"})
           u == SetMovemReg(t, n, Extended(SrcValue(t, w), w))
<1>1. MovemRead(s, n, w) = IF Ok(t) THEN [u EXCEPT !.src.n = Plus(u.src.n, w)] ELSE t
  BY DEF MovemRead
<1>2. CASE ~Ok(s)
  <2>1. t = s
    BY <1>2 DEF SrcRead
  <2> HIDE DEF t
  <2> QED BY <1>1, <1>2, <2>1 DEF ReadIn
<1>3. CASE Ok(s) /\ s.src.n % 2 = 1
  <2>1. s.src.l = "mem" /\ w > 1 /\ s \in Machines /\ s.src \in Places
    BY <1>3, FieldsAre DEF Reading
  <2>2. t = AddressError(s, s.src, TRUE)
    BY <1>3, <2>1 DEF SrcRead, Refused
  <2>3. ~Ok(t)
    BY <2>1, <2>2, RaisedAre
  <2> HIDE DEF t
  <2> QED BY <1>1, <1>3, <2>2, <2>3 DEF ReadIn
<1>4. CASE Ok(s) /\ s.src.n % 2 # 1
  <2>1. s.src.l = "mem" /\ w > 1 /\ s \in Machines /\ s.src \in Places /\ w \in Widths
    BY <1>4, FieldsAre DEF Reading, Widths
  <2>2. t = s
    BY <1>4, <2>1 DEF SrcRead, Refused
  <2>3. SrcValue(s, w) = Load(s, s.src.n, w)
    BY <1>4, <2>1 DEF SrcValue, Value
  <2>4. Load(s, s.src.n, w) \in Int
    <3>1. s.src.n \in Int
      BY <2>1, LongIs DEF Places
    <3> QED BY <2>1, <3>1, LoadFits, SmallIs
  <2>5. Extended(Load(s, s.src.n, w), w) \in Long
    BY <2>1, <2>4, ExtendedFits
  <2> HIDE DEF t
  <2>6. u = SetMovemReg(s, n, Extended(Load(s, s.src.n, w), w))
    BY <2>2, <2>3
  <2>7. u.src = s.src
    BY <2>1, <2>5, <2>6, SetMovemRegFits
  <2> HIDE DEF u
  <2>8. [u EXCEPT !.src.n = Plus(u.src.n, w)] = [u EXCEPT !.src = Moved(s.src, w)]
    BY <2>7 DEF Moved
  <2> QED BY <1>1, <1>4, <2>2, <2>6, <2>8 DEF ReadIn
<1> QED BY <1>2, <1>3, <1>4

\* A step in leaves memory, and the data registers too where the address is odd.
LEMMA MovemReadSteps ==
  ASSUME NEW s \in Reading, NEW n \in Numbers, NEW w \in {2, 4}
  PROVE  ReadStep(s, MovemRead(s, n, w))
<1> DEFINE t == MovemRead(s, n, w)
<1>1. s \in Machines /\ s.src \in Places
  BY FieldsAre DEF Reading
<1>5. ReadIn(s, n, w, t)
  BY MovemReadIs
<1>2. CASE ~Ok(s)
  <2>1. t = s
    BY <1>2, <1>5 DEF ReadIn
  <2> HIDE DEF t
  <2> QED BY <1>2, <2>1 DEF ReadStep, t
<1>3. CASE Ok(s) /\ s.src.n % 2 = 1
  <2>1. t = AddressError(s, s.src, TRUE)
    BY <1>3, <1>5 DEF ReadIn
  <2> HIDE DEF t
  <2>2. Quiet(s, t) /\ ~Ok(t)
    BY <1>1, <2>1, RaisedAre
  <2>3. t \in Reading /\ t.d = s.d /\ t.mem = s.mem
    BY <2>2 DEF Quiet, Reading
  <2> QED BY <1>3, <2>2, <2>3 DEF t, ReadIn, ReadStep
<1>4. CASE Ok(s) /\ s.src.n % 2 # 1
  <2> DEFINE x == Extended(Load(s, s.src.n, w), w)
             u == SetMovemReg(s, n, x)
             loc == Moved(s.src, w)
  <2>1. t = [u EXCEPT !.src = loc]
    BY <1>4, <1>5 DEF ReadIn
  <2> HIDE DEF t
  <2>2. x \in Long
    <3>1. s.src.n \in Int /\ w \in Widths
      BY <1>1, LongIs DEF Places, Widths
    <3>2. Load(s, s.src.n, w) \in Int
      BY <1>1, <3>1, LoadFits, SmallIs
    <3> QED BY <3>1, <3>2, ExtendedFits
  <2> HIDE DEF x
  <2>3. u \in Machines /\ u.mem = s.mem /\ u.raised = s.raised
    BY <1>1, <2>2, SetMovemRegFits
  <2>4. loc \in Places /\ loc.l = "mem" /\ loc.n % 2 = s.src.n % 2
    BY <1>1, <1>4, MovedFits DEF Reading
  <2> HIDE DEF u, loc
  <2>5. t \in Machines
    BY <2>1, <2>3, <2>4, ReplacedAre
  <2>6. t.src = loc /\ t.mem = u.mem /\ t.raised = u.raised
    BY <2>1, <2>3 DEF Machines
  <2>7. Ok(t)
    BY <1>4, <2>3, <2>6 DEF Ok
  <2> QED BY <1>4, <2>3, <2>4, <2>5, <2>6, <2>7 DEF t, Reading, ReadIn, ReadStep
<1> QED BY <1>2, <1>3, <1>4

LEMMA MovemWriteFits ==
  ASSUME NEW s \in Writing, NEW list \in SUBSET Numbers, NEW n \in list, NEW w \in {2, 4}
  PROVE  MovemWrite(s, n, w, w) \in Writing /\ MovemWrite(s, n, w, -w) \in Writing
<1>1. w \in {2, 4, -2, -4} /\ -w \in {2, 4, -2, -4} /\ n \in Numbers
  OBVIOUS
<1> QED BY <1>1, MovemWriteSteps DEF WriteStep

LEMMA MovemReadFits ==
  ASSUME NEW s \in Reading, NEW list \in SUBSET Numbers, NEW n \in list, NEW w \in {2, 4}
  PROVE  MovemRead(s, n, w) \in Reading
BY MovemReadSteps DEF ReadStep

\* Each of the loops goes from state to state, register by register.
GoesOut(u, v, list, w, k) ==
  /\ k \in list => v = MovemWrite(u, k, w, w)
  /\ k \notin list => v = u
GoesDown(u, v, list, w, k) ==
  LET n == 2 * Regs - 1 - k
  IN  /\ n \in list => v = MovemWrite(u, n, w, -w)
      /\ n \notin list => v = u
ComesIn(u, v, list, w, k) ==
  /\ k \in list => v = MovemRead(u, k, w)
  /\ k \notin list => v = u

LEMMA OutIs ==
  ASSUME NEW t \in Writing, NEW list \in SUBSET Numbers, NEW w \in {2, 4}
  PROVE  /\ Out(t, list, w, 0) = t
         /\ \A k \in Nat : /\ Out(t, list, w, k) \in Writing
                         /\ GoesOut(Out(t, list, w, k), Out(t, list, w, k + 1), list, w, k)
<1> DEFINE G == [k \in Nat |-> [u \in Writing |->
                   IF k \in list THEN MovemWrite(u, k, w, w) ELSE u]]
<1>1. G \in [Nat -> [Writing -> Writing]]
  <2>1. ASSUME NEW k \in Nat, NEW u \in Writing, k \in list
        PROVE  MovemWrite(u, k, w, w) \in Writing
    BY <2>1, MovemWriteFits
  <2> QED BY <2>1
<1>2. \A k \in Nat, u \in Writing :
        G[k][u] = IF k \in list THEN MovemWrite(u, k, w, w) ELSE u
  OBVIOUS
<1> HIDE DEF G
<1>6. PICK g : Path(g, Writing, G, t)
  BY <1>1, Unrolled
<1>3. g \in [Nat -> Writing] /\ g[0] = t /\ \A k \in Nat : g[k + 1] = G[k][g[k]]
  BY <1>6 DEF Path
<1>4. ASSUME NEW n \in Nat
      PROVE  Out(t, list, w, n) = g[n]
  <2> DEFINE after[k \in 0 .. n] ==
               IF k = 0 THEN t
               ELSE IF k - 1 \in list THEN MovemWrite(after[k - 1], k - 1, w, w)
               ELSE after[k - 1]
             f == [k \in 0 .. n |-> g[k]]
  <2>1. ASSUME NEW k \in 0 .. n
        PROVE  f[k] = IF k = 0 THEN t
                      ELSE IF k - 1 \in list THEN MovemWrite(f[k - 1], k - 1, w, w)
                      ELSE f[k - 1]
    <3>1. CASE k = 0
      BY <1>3, <3>1
    <3>2. CASE k # 0
      <4> DEFINE j == k - 1
      <4>1. j \in Nat /\ j \in 0 .. n /\ j + 1 = k
        BY <3>2
      <4>2. f[k] = g[k] /\ f[j] = g[j]
        BY <4>1
      <4>3. k - 1 = j
        BY RegsAssumption
      <4> HIDE DEF f, j
      <4>4. g[k] = G[j][g[j]] /\ g[j] \in Writing
        BY <1>3, <4>1
      <4>5. f[k] = IF k - 1 \in list THEN MovemWrite(f[j], k - 1, w, w) ELSE f[j]
        BY <1>2, <4>1, <4>2, <4>3, <4>4
      <4> QED BY <3>2, <4>5 DEF j
    <3> QED BY <3>1, <3>2
  <2>2. f \in [0 .. n -> Writing]
    BY <1>3
  <2> HIDE DEF f
  <2>3. f = [k \in 0 .. n |-> IF k = 0 THEN t
                             ELSE IF k - 1 \in list
                             THEN MovemWrite(f[k - 1], k - 1, w, w)
                             ELSE f[k - 1]]
    BY <2>1, <2>2
  <2>4. after = [k \in 0 .. n |-> IF k = 0 THEN t
                                 ELSE IF k - 1 \in list
                                 THEN MovemWrite(after[k - 1], k - 1, w, w)
                                 ELSE after[k - 1]]
    BY <2>3
  <2>5. Out(t, list, w, n) = after[n]
    BY DEF Out
  <2> HIDE DEF after
  <2>6. after[0] = t
    BY <2>4
  <2>7. ASSUME NEW k \in 0 .. n - 1, after[k] \in Writing
        PROVE  after[k + 1] = G[k][after[k]]
    <3> DEFINE m == k + 1
    <3>1. k \in Nat /\ m \in 0 .. n /\ m - 1 = k /\ m # 0
      OBVIOUS
    <3>2. m - 1 = k
      BY RegsAssumption
    <3> HIDE DEF m
    <3>3. after[m] = IF k \in list THEN MovemWrite(after[k], k, w, w)
                     ELSE after[k]
      BY <2>4, <3>1, <3>2
    <3> QED BY <1>2, <2>7, <3>1, <3>3 DEF m
  <2>8. Track(after, Writing, G, t, n)
    BY <2>6, <2>7 DEF Track
  <2> QED BY <1>6, <2>5, <2>8, Followed
<1>5. \A k \in Nat : k + 1 \in Nat /\ g[k] \in Writing
  BY <1>3
<1> QED BY <1>2, <1>3, <1>4, <1>5 DEF GoesOut

LEMMA DownIs ==
  ASSUME NEW t \in Writing, NEW list \in SUBSET Numbers, NEW w \in {2, 4}
  PROVE  /\ Down(t, list, w, 0) = t
         /\ \A k \in Nat : /\ Down(t, list, w, k) \in Writing
                         /\ GoesDown(Down(t, list, w, k), Down(t, list, w, k + 1), list, w, k)
<1> DEFINE G == [k \in Nat |-> [u \in Writing |->
                   IF 2 * Regs - 1 - k \in list THEN MovemWrite(u, 2 * Regs - 1 - k, w, -w) ELSE u]]
<1>1. G \in [Nat -> [Writing -> Writing]]
  <2>1. ASSUME NEW k \in Nat, NEW u \in Writing, 2 * Regs - 1 - k \in list
        PROVE  MovemWrite(u, 2 * Regs - 1 - k, w, -w) \in Writing
    BY <2>1, MovemWriteFits
  <2> QED BY <2>1
<1>2. \A k \in Nat, u \in Writing :
        G[k][u] = IF 2 * Regs - 1 - k \in list THEN MovemWrite(u, 2 * Regs - 1 - k, w, -w) ELSE u
  OBVIOUS
<1> HIDE DEF G
<1>6. PICK g : Path(g, Writing, G, t)
  BY <1>1, Unrolled
<1>3. g \in [Nat -> Writing] /\ g[0] = t /\ \A k \in Nat : g[k + 1] = G[k][g[k]]
  BY <1>6 DEF Path
<1>4. ASSUME NEW n \in Nat
      PROVE  Down(t, list, w, n) = g[n]
  <2> DEFINE after[k \in 0 .. n] ==
               IF k = 0 THEN t
               ELSE IF 2 * Regs - k \in list THEN MovemWrite(after[k - 1], 2 * Regs - k, w, -w)
               ELSE after[k - 1]
             f == [k \in 0 .. n |-> g[k]]
  <2>1. ASSUME NEW k \in 0 .. n
        PROVE  f[k] = IF k = 0 THEN t
                      ELSE IF 2 * Regs - k \in list THEN MovemWrite(f[k - 1], 2 * Regs - k, w, -w)
                      ELSE f[k - 1]
    <3>1. CASE k = 0
      BY <1>3, <3>1
    <3>2. CASE k # 0
      <4> DEFINE j == k - 1
      <4>1. j \in Nat /\ j \in 0 .. n /\ j + 1 = k
        BY <3>2
      <4>2. f[k] = g[k] /\ f[j] = g[j]
        BY <4>1
      <4>3. 2 * Regs - k = 2 * Regs - 1 - j
        BY RegsAssumption
      <4> HIDE DEF f, j
      <4>4. g[k] = G[j][g[j]] /\ g[j] \in Writing
        BY <1>3, <4>1
      <4>5. f[k] = IF 2 * Regs - k \in list THEN MovemWrite(f[j], 2 * Regs - k, w, -w) ELSE f[j]
        BY <1>2, <4>1, <4>2, <4>3, <4>4
      <4> QED BY <3>2, <4>5 DEF j
    <3> QED BY <3>1, <3>2
  <2>2. f \in [0 .. n -> Writing]
    BY <1>3
  <2> HIDE DEF f
  <2>3. f = [k \in 0 .. n |-> IF k = 0 THEN t
                             ELSE IF 2 * Regs - k \in list
                             THEN MovemWrite(f[k - 1], 2 * Regs - k, w, -w)
                             ELSE f[k - 1]]
    BY <2>1, <2>2
  <2>4. after = [k \in 0 .. n |-> IF k = 0 THEN t
                                 ELSE IF 2 * Regs - k \in list
                                 THEN MovemWrite(after[k - 1], 2 * Regs - k, w, -w)
                                 ELSE after[k - 1]]
    BY <2>3
  <2>5. Down(t, list, w, n) = after[n]
    BY DEF Down
  <2> HIDE DEF after
  <2>6. after[0] = t
    BY <2>4
  <2>7. ASSUME NEW k \in 0 .. n - 1, after[k] \in Writing
        PROVE  after[k + 1] = G[k][after[k]]
    <3> DEFINE m == k + 1
    <3>1. k \in Nat /\ m \in 0 .. n /\ m - 1 = k /\ m # 0
      OBVIOUS
    <3>2. 2 * Regs - m = 2 * Regs - 1 - k
      BY RegsAssumption
    <3> HIDE DEF m
    <3>3. after[m] = IF 2 * Regs - 1 - k \in list THEN MovemWrite(after[k], 2 * Regs - 1 - k, w, -w)
                     ELSE after[k]
      BY <2>4, <3>1, <3>2
    <3> QED BY <1>2, <2>7, <3>1, <3>3 DEF m
  <2>8. Track(after, Writing, G, t, n)
    BY <2>6, <2>7 DEF Track
  <2> QED BY <1>6, <2>5, <2>8, Followed
<1>5. \A k \in Nat : k + 1 \in Nat /\ g[k] \in Writing
  BY <1>3
<1> QED BY <1>2, <1>3, <1>4, <1>5 DEF GoesDown

LEMMA InIs ==
  ASSUME NEW t \in Reading, NEW list \in SUBSET Numbers, NEW w \in {2, 4}
  PROVE  /\ In(t, list, w, 0) = t
         /\ \A k \in Nat : /\ In(t, list, w, k) \in Reading
                         /\ ComesIn(In(t, list, w, k), In(t, list, w, k + 1), list, w, k)
<1> DEFINE G == [k \in Nat |-> [u \in Reading |->
                   IF k \in list THEN MovemRead(u, k, w) ELSE u]]
<1>1. G \in [Nat -> [Reading -> Reading]]
  <2>1. ASSUME NEW k \in Nat, NEW u \in Reading, k \in list
        PROVE  MovemRead(u, k, w) \in Reading
    BY <2>1, MovemReadFits
  <2> QED BY <2>1
<1>2. \A k \in Nat, u \in Reading :
        G[k][u] = IF k \in list THEN MovemRead(u, k, w) ELSE u
  OBVIOUS
<1> HIDE DEF G
<1>6. PICK g : Path(g, Reading, G, t)
  BY <1>1, Unrolled
<1>3. g \in [Nat -> Reading] /\ g[0] = t /\ \A k \in Nat : g[k + 1] = G[k][g[k]]
  BY <1>6 DEF Path
<1>4. ASSUME NEW n \in Nat
      PROVE  In(t, list, w, n) = g[n]
  <2> DEFINE after[k \in 0 .. n] ==
               IF k = 0 THEN t
               ELSE IF k - 1 \in list THEN MovemRead(after[k - 1], k - 1, w)
               ELSE after[k - 1]
             f == [k \in 0 .. n |-> g[k]]
  <2>1. ASSUME NEW k \in 0 .. n
        PROVE  f[k] = IF k = 0 THEN t
                      ELSE IF k - 1 \in list THEN MovemRead(f[k - 1], k - 1, w)
                      ELSE f[k - 1]
    <3>1. CASE k = 0
      BY <1>3, <3>1
    <3>2. CASE k # 0
      <4> DEFINE j == k - 1
      <4>1. j \in Nat /\ j \in 0 .. n /\ j + 1 = k
        BY <3>2
      <4>2. f[k] = g[k] /\ f[j] = g[j]
        BY <4>1
      <4>3. k - 1 = j
        BY RegsAssumption
      <4> HIDE DEF f, j
      <4>4. g[k] = G[j][g[j]] /\ g[j] \in Reading
        BY <1>3, <4>1
      <4>5. f[k] = IF k - 1 \in list THEN MovemRead(f[j], k - 1, w) ELSE f[j]
        BY <1>2, <4>1, <4>2, <4>3, <4>4
      <4> QED BY <3>2, <4>5 DEF j
    <3> QED BY <3>1, <3>2
  <2>2. f \in [0 .. n -> Reading]
    BY <1>3
  <2> HIDE DEF f
  <2>3. f = [k \in 0 .. n |-> IF k = 0 THEN t
                             ELSE IF k - 1 \in list
                             THEN MovemRead(f[k - 1], k - 1, w)
                             ELSE f[k - 1]]
    BY <2>1, <2>2
  <2>4. after = [k \in 0 .. n |-> IF k = 0 THEN t
                                 ELSE IF k - 1 \in list
                                 THEN MovemRead(after[k - 1], k - 1, w)
                                 ELSE after[k - 1]]
    BY <2>3
  <2>5. In(t, list, w, n) = after[n]
    BY DEF In
  <2> HIDE DEF after
  <2>6. after[0] = t
    BY <2>4
  <2>7. ASSUME NEW k \in 0 .. n - 1, after[k] \in Reading
        PROVE  after[k + 1] = G[k][after[k]]
    <3> DEFINE m == k + 1
    <3>1. k \in Nat /\ m \in 0 .. n /\ m - 1 = k /\ m # 0
      OBVIOUS
    <3>2. m - 1 = k
      BY RegsAssumption
    <3> HIDE DEF m
    <3>3. after[m] = IF k \in list THEN MovemRead(after[k], k, w)
                     ELSE after[k]
      BY <2>4, <3>1, <3>2
    <3> QED BY <1>2, <2>7, <3>1, <3>3 DEF m
  <2>8. Track(after, Reading, G, t, n)
    BY <2>6, <2>7 DEF Track
  <2> QED BY <1>6, <2>5, <2>8, Followed
<1>5. \A k \in Nat : k + 1 \in Nat /\ g[k] \in Reading
  BY <1>3
<1> QED BY <1>2, <1>3, <1>4, <1>5 DEF ComesIn

\* Only the first register that goes out or comes in can meet an odd address, when
\* nothing has changed yet.
Unmoved(t, u) ==
  /\ u \in Writing /\ u.d = t.d
  /\ Ok(u) => Ok(t) /\ u.dst.n % 2 = t.dst.n % 2
  /\ ~Ok(u) \/ t.dst.n % 2 = 1 => u.mem = t.mem

LEMMA UnmovedStep ==
  ASSUME NEW t \in Writing, NEW u, Unmoved(t, u), NEW n \in Numbers, NEW w \in {2, 4},
         NEW by \in {2, 4, -2, -4}
  PROVE  Unmoved(t, MovemWrite(u, n, w, by))
<1> DEFINE m == MovemWrite(u, n, w, by)
<1>1. u \in Writing
  BY DEF Unmoved
<1>2. WriteStep(u, m)
  BY <1>1, MovemWriteSteps
<1> HIDE DEF m
<1>3. CASE Ok(m)
  BY <1>2, <1>3 DEF Unmoved, WriteStep, m
<1>4. CASE ~Ok(m)
  BY <1>2, <1>4 DEF Unmoved, WriteStep, m
<1> QED BY <1>3, <1>4

LEMMA OutFits ==
  ASSUME NEW t \in Writing, NEW list \in SUBSET Numbers, NEW w \in {2, 4}, NEW n \in Nat
  PROVE  Unmoved(t, Out(t, list, w, n)) /\ Unmoved(t, Down(t, list, w, n))
<1>0. Unmoved(t, t)
  BY DEF Unmoved
<1>1. w \in {2, 4, -2, -4} /\ -w \in {2, 4, -2, -4}
  OBVIOUS
<1> DEFINE T == {k \in Nat : Unmoved(t, Out(t, list, w, k))}
           U == {k \in Nat : Unmoved(t, Down(t, list, w, k))}
<1>2. 0 \in T /\ 0 \in U
  BY <1>0, OutIs, DownIs
<1>3. ASSUME NEW k \in Nat, k \in T
      PROVE  k + 1 \in T
  <2> DEFINE u == Out(t, list, w, k)
  <2>1. Unmoved(t, u)
    BY <1>3
  <2>2. GoesOut(u, Out(t, list, w, k + 1), list, w, k)
    BY OutIs
  <2> HIDE DEF u
  <2>3. k \in list => Unmoved(t, MovemWrite(u, k, w, w))
    BY <1>1, <2>1, UnmovedStep
  <2>4. Unmoved(t, Out(t, list, w, k + 1))
    BY <2>1, <2>2, <2>3 DEF GoesOut
  <2> QED BY <2>4
<1>4. ASSUME NEW k \in Nat, k \in U
      PROVE  k + 1 \in U
  <2> DEFINE u == Down(t, list, w, k)
             r == 2 * Regs - 1 - k
  <2>1. Unmoved(t, u)
    BY <1>4
  <2>2. GoesDown(u, Down(t, list, w, k + 1), list, w, k)
    BY DownIs
  <2> HIDE DEF u, r
  <2>3. r \in list => Unmoved(t, MovemWrite(u, r, w, -w))
    BY <1>1, <2>1, UnmovedStep
  <2>4. Unmoved(t, Down(t, list, w, k + 1))
    BY <2>1, <2>2, <2>3 DEF GoesDown, r
  <2> QED BY <2>4
<1>5. Nat \subseteq T
  <2> HIDE DEF T
  <2> QED BY <1>2, <1>3, Loops!Induct
<1>6. Nat \subseteq U
  <2> HIDE DEF U
  <2> QED BY <1>2, <1>4, Loops!Induct
<1> QED BY <1>5, <1>6

Unread(t, u) ==
  /\ u \in Reading /\ u.mem = t.mem
  /\ Ok(u) => Ok(t) /\ u.src.n % 2 = t.src.n % 2
  /\ ~Ok(u) \/ t.src.n % 2 = 1 => u.d = t.d

LEMMA InFits ==
  ASSUME NEW t \in Reading, NEW list \in SUBSET Numbers, NEW w \in {2, 4}, NEW n \in Nat
  PROVE  Unread(t, In(t, list, w, n))
<1> DEFINE T == {k \in Nat : Unread(t, In(t, list, w, k))}
<1>1. 0 \in T
  BY InIs DEF Unread
<1>2. ASSUME NEW k \in Nat, k \in T
      PROVE  k + 1 \in T
  <2> DEFINE u == In(t, list, w, k)
             m == MovemRead(u, k, w)
  <2>1. Unread(t, u)
    BY <1>2
  <2>2. ComesIn(u, In(t, list, w, k + 1), list, w, k)
    BY InIs
  <2> HIDE DEF u
  <2>3. ASSUME k \in list
        PROVE  Unread(t, m)
    <3>1. ReadStep(u, m)
      BY <2>1, <2>3, MovemReadSteps DEF Unread
    <3> HIDE DEF m
    <3>2. CASE Ok(m)
      BY <2>1, <3>1, <3>2 DEF Unread, ReadStep
    <3>3. CASE ~Ok(m)
      BY <2>1, <3>1, <3>3 DEF Unread, ReadStep
    <3> QED BY <3>2, <3>3
  <2>4. Unread(t, In(t, list, w, k + 1))
    BY <2>1, <2>2, <2>3 DEF ComesIn
  <2> QED BY <2>4
<1>3. Nat \subseteq T
  <2> HIDE DEF T
  <2> QED BY <1>1, <1>2, Loops!Induct
<1> QED BY <1>3

\* How many registers there are in a list.
LEMMA CountFits ==
  ASSUME NEW list \in SUBSET Numbers
  PROVE  IsFiniteSet(list) /\ Cardinality(list) \in Nat
<1>1. 0 \in Int /\ 2 * Regs - 1 \in Int
  BY RegsAssumption
<1>2. IsFiniteSet(Numbers)
  BY <1>1, FS_Interval DEF Numbers
<1>3. IsFiniteSet(list)
  BY <1>2, FS_Subset
<1> QED BY <1>3, FS_CardinalityType

LEMMA MovemToMemFits ==
  ASSUME NEW s \in Machines, NEW list \in SUBSET Numbers, NEW o, Sound(o),
         o.mode \notin {"Dn", "An", "#"}, NEW w \in {2, 4}
  PROVE  Careful(s, MovemToMem(s, list, o, w))
<1> DEFINE f == Fetch(s, 1)
           t == DstSet(f, o, w)
           i == Inc(t, o.reg, w)
           all == 2 * Regs
           u == Down(i, list, w, all)
           v == Out(t, list, w, all)
           x == Plus(Reg(s, o.reg), -(w * Cardinality(list)))
<1>10. w \in Widths /\ o.reg \in RegNos
  BY DEF Widths, Sound
<1>11. all \in Nat
  BY RegsAssumption
<1>1. w \in Widths /\ all \in Nat /\ o.reg \in RegNos
  BY <1>10, <1>11
<1>2. Quiet(s, f) /\ f \in Machines
  BY FetchIs DEF Quiet
<1>3. MovemToMem(s, list, o, w) =
        IF o.mode = "-(An)" /\ Ok(t) THEN IF Ok(u) THEN SetReg(u, o.reg, x) ELSE u ELSE v
  BY DEF MovemToMem
<1> HIDE DEF f, all
<1>4. Quiet(s, t) /\ t \in Writing
  <2>1. Quiet(f, t) /\ (Ok(t) => t.dst.l = "mem")
    BY <1>1, <1>2, DstSetFits
  <2> HIDE DEF t
  <2> QED BY <1>2, <2>1 DEF Quiet, Writing
<1> HIDE DEF t
<1>5. Unmoved(t, v)
  BY <1>1, <1>4, OutFits
<1>6. Careful(s, v)
  <2> HIDE DEF v
  <2>1. v \in Machines /\ v.d = t.d /\ (~Ok(v) => v.mem = t.mem)
    BY <1>5 DEF Unmoved, Writing
  <2> QED BY <1>4, <2>1 DEF Quiet, Careful
<1>7. CASE o.mode = "-(An)" /\ Ok(t)
  <2>1. i \in Writing /\ i.d = t.d /\ i.mem = t.mem
    <3>1. i \in Machines /\ SameButAddresses(t, i)
      BY <1>1, <1>4, IncDecAre DEF Writing
    <3> QED BY <1>4, <3>1 DEF Writing, SameButAddresses, Ok
  <2> HIDE DEF i
  <2>2. Unmoved(i, u)
    BY <1>1, <2>1, OutFits
  <2> HIDE DEF u
  <2>3. u \in Machines /\ u.d = s.d /\ (~Ok(u) => u.mem = s.mem)
    BY <1>4, <2>1, <2>2 DEF Unmoved, Writing, Quiet
  <2>4. x \in Long
    <3>1. Reg(s, o.reg) \in Int /\ Cardinality(list) \in Int
      BY <1>1, RegFits, CountFits
    <3>2. -(w * Cardinality(list)) \in Int
      <4> DEFINE c == Cardinality(list)
      <4> HIDE DEF c
      <4>1. c \in Int
        BY <3>1 DEF c
      <4> QED BY <4>1 DEF c
    <3> QED BY <3>1, <3>2, PlusFits
  <2> HIDE DEF x
  <2>5. Kept(u, SetReg(u, o.reg, x))
    BY <1>1, <2>3, <2>4, SetRegIs DEF Kept, SameButAddresses
  <2> QED BY <1>3, <1>7, <2>3, <2>5 DEF Kept, Careful, Ok
<1> HIDE DEF u, v
<1> QED BY <1>3, <1>6, <1>7

LEMMA MovemToRegFits ==
  ASSUME NEW s \in Machines, NEW list \in SUBSET Numbers, NEW o, Sound(o),
         o.mode \notin {"Dn", "An", "#"}, NEW w \in {2, 4}
  PROVE  Careful(s, MovemToReg(s, list, o, w))
<1> DEFINE f == Fetch(s, 1)
           t == SrcSet(f, o, w)
           all == 2 * Regs
           u == In(t, list, w, all)
           x == Plus(Reg(s, o.reg), w * Cardinality(list))
<1>10. w \in Widths /\ o.reg \in RegNos
  BY DEF Widths, Sound
<1>11. all \in Nat
  BY RegsAssumption
<1>1. w \in Widths /\ all \in Nat /\ o.reg \in RegNos
  BY <1>10, <1>11
<1>2. Quiet(s, f) /\ f \in Machines
  BY FetchIs DEF Quiet
<1>3. MovemToReg(s, list, o, w) = IF o.mode = "(An)+" /\ Ok(u) THEN SetReg(u, o.reg, x) ELSE u
  BY DEF MovemToReg
<1> HIDE DEF f, all
<1>4. Quiet(s, t) /\ t \in Reading
  <2>1. Quiet(f, t) /\ (Ok(t) => t.src.l = "mem")
    BY <1>1, <1>2, SrcSetFits
  <2> HIDE DEF t
  <2> QED BY <1>2, <2>1 DEF Quiet, Reading
<1> HIDE DEF t
<1>5. Unread(t, u)
  BY <1>1, <1>4, InFits
<1> HIDE DEF u
<1>6. u \in Machines /\ (~Ok(u) => u.d = s.d /\ u.mem = s.mem)
  BY <1>4, <1>5 DEF Unread, Reading, Quiet
<1>7. x \in Long
  <2>1. Reg(s, o.reg) \in Int /\ Cardinality(list) \in Int
    BY <1>1, RegFits, CountFits
  <2>2. w * Cardinality(list) \in Int
    <3> DEFINE c == Cardinality(list)
    <3> HIDE DEF c
    <3>1. c \in Int
      BY <2>1 DEF c
    <3> QED BY <3>1 DEF c
  <2> QED BY <2>1, <2>2, PlusFits
<1> HIDE DEF x
<1>8. Kept(u, SetReg(u, o.reg, x))
  BY <1>1, <1>6, <1>7, SetRegIs DEF Kept, SameButAddresses
<1> QED BY <1>3, <1>6, <1>8 DEF Kept, Careful, Ok
------------------------------------------------------------------------------
(* What is stored is found again. *)

\* Two quotients and two remainders in turn.
LEMMA Nested ==
  ASSUME NEW v \in Int, NEW m \in Nat \ {0}, NEW k \in Nat \ {0}
  PROVE  /\ v \div (m * k) = (v \div m) \div k
         /\ v % (m * k) = m * ((v \div m) % k) + (v % m)
<1> DEFINE p == v \div m
           r == v % m
           q == p \div k
           d == p % k
<1>1. p \in Int /\ r \in 0 .. m - 1 /\ v = m * p + r
  BY Parts
<1>2. q \in Int /\ d \in 0 .. k - 1 /\ p = k * q + d
  <2> HIDE DEF p
  <2> QED BY <1>1, Parts
<1> HIDE DEF p, r, q, d
<1>3. v = (m * k) * q + (m * d + r)
  <2>1. m * (k * q + d) = (m * k) * q + m * d
    BY <1>1, <1>2, SMT
  <2> QED BY <1>1, <1>2, <2>1
<1>4. m * d + r \in 0 .. m * k - 1
  <2>1. d * m + r \in 0 .. k * m - 1
    BY <1>1, <1>2, Joined
  <2> QED BY <1>1, <1>2, <2>1
<1>5. v \div (m * k) = q /\ v % (m * k) = m * d + r
  <2> DEFINE M == m * k
             R == m * d + r
  <2>1. M \in Nat \ {0} /\ R \in 0 .. M - 1
    BY <1>4, Product
  <2> HIDE DEF M, R
  <2>2. (M * q + R) \div M = q /\ (M * q + R) % M = R
    BY <1>2, <2>1, OnlyParts
  <2> QED BY <1>3, <2>2 DEF M, R
<1> QED BY <1>5 DEF p, r, q, d

\* The bytes of a number, the lowest first.
Digit(v, k) == (v \div Modulus(k)) % Base

LEMMA DigitFits ==
  ASSUME NEW v \in Int, NEW k \in 0 .. 4
  PROVE  Digit(v, k) \in Bytes /\ Digit(v, k) \in Int
<1>1. Modulus(k) \in Nat \ {0} /\ Base \in Nat \ {0}
  BY ModulusIs, BaseIs
<1>2. v \div Modulus(k) \in Int
  BY <1>1, Parts
<1>3. Digit(v, k) \in 0 .. Base - 1
  BY <1>1, <1>2, Parts DEF Digit
<1> QED BY <1>1, <1>3 DEF Bytes

LEMMA DigitsAre ==
  ASSUME NEW v \in Int
  PROVE  /\ Low(v, 1) = Digit(v, 0)
         /\ Low(v, 2) = Digit(v, 1) * Base + Digit(v, 0)
         /\ Low(v, 4) = ((Digit(v, 3) * Base + Digit(v, 2)) * Base + Digit(v, 1)) * Base
                          + Digit(v, 0)
<1> DEFINE B == Base
           C == Modulus(2)
           D(k) == Digit(v, k)
<1>1. B \in Nat \ {0} /\ C \in Nat \ {0} /\ C * B \in Nat \ {0}
  BY BaseIs, ModulusIs, Product
<1>2. Modulus(0) = 1 /\ Modulus(1) = B /\ C = B * B /\ Modulus(3) = C * B /\ Modulus(4) = C * B * B
  BY ModuliAre
<1>3. D(0) \in Int /\ D(1) \in Int /\ D(2) \in Int /\ D(3) \in Int
  BY DigitFits
<1>4. D(0) = v % B
  <2>1. v \div 1 = v
    OBVIOUS
  <2> QED BY <1>2, <2>1 DEF Digit
<1>5. D(1) = (v \div B) % B /\ D(2) = (v \div C) % B /\ D(3) = (v \div (C * B)) % B
  BY <1>2 DEF Digit
<1> HIDE DEF B, C, D
<1>6. v % C = B * D(1) + D(0)
  <2>1. v % (B * B) = B * ((v \div B) % B) + (v % B)
    BY <1>1, Nested
  <2> QED BY <1>2, <1>4, <1>5, <2>1
<1>7. v % (C * B) = C * D(2) + (v % C)
  BY <1>1, <1>5, Nested
<1>8. v % (C * B * B) = (C * B) * D(3) + (v % (C * B))
  <2> DEFINE E == C * B
  <2>1. E \in Nat \ {0}
    BY <1>1
  <2>2. D(3) = (v \div E) % B
    BY <1>5
  <2> HIDE DEF E
  <2>3. \A m, k \in Nat \ {0} : v % (m * k) = m * ((v \div m) % k) + (v % m)
    BY Nested
  <2>4. v % (E * B) = E * ((v \div E) % B) + (v % E)
    BY <1>1, <2>1, <2>3
  <2>5. v % (E * B) = E * D(3) + (v % E)
    BY <2>2, <2>4
  <2> QED BY <2>5 DEF E
<1>9. v % (C * B * B) = (B * B * B) * D(3) + ((B * B) * D(2) + (B * D(1) + D(0)))
  BY <1>2, <1>6, <1>7, <1>8
<1>10. (B * B * B) * D(3) + ((B * B) * D(2) + (B * D(1) + D(0)))
         = ((D(3) * B + D(2)) * B + D(1)) * B + D(0)
  BY <1>1, <1>3, SMT
<1>11. B * D(1) = D(1) * B
  BY <1>1, <1>3
<1> QED BY <1>2, <1>4, <1>6, <1>9, <1>10, <1>11 DEF Low, B, C, D

\* The i-th byte from an address.
Cell(s, a, i) == s.mem[(a + i) % MemSize]

LEMMA CellsAre ==
  ASSUME NEW s \in Machines, NEW a \in Int, NEW w \in Widths, NEW v \in Int
  PROVE  /\ \A i \in 0 .. w - 1 : Cell(Store(s, a, w, v), a, i) = Digit(v, w - 1 - i)
         /\ \A i \in w .. MemSize - 1 : Cell(Store(s, a, w, v), a, i) = Cell(s, a, i)
<1>1. w <= 4 /\ w \in Nat /\ MemSize \in Nat \ {0} /\ MemSize >= 8
  BY MemoryAssumption DEF Widths
<1>2. ASSUME NEW i \in 0 .. MemSize - 1
      PROVE  /\ (a + i) % MemSize \in Addresses
             /\ (((a + i) % MemSize) - a) % MemSize = i
  <2> DEFINE x == (a + i) % MemSize
  <2>1. a + i \in Int /\ i \in Int /\ -a \in Int
    BY <1>1
  <2>2. x \in Addresses
    BY <2>1, AddressIs
  <2>3. (x + (-a)) % MemSize = ((a + i) + (-a)) % MemSize
    <3> DEFINE c == a + i
               b == -a
    <3>1. \A k, l \in Int : ((k % MemSize) + l) % MemSize = (k + l) % MemSize
      BY <1>1, Remainders
    <3>2. c \in Int /\ b \in Int
      BY <2>1
    <3> HIDE DEF c, b
    <3>3. ((c % MemSize) + b) % MemSize = (c + b) % MemSize
      BY <3>1, <3>2
    <3> QED BY <3>3 DEF c, b
  <2>4. (a + i) + (-a) = i
    BY <2>1
  <2>5. i % MemSize = i
    BY <1>1, <2>1, Remainders
  <2>6. x \in Int
    BY <1>1, <2>2 DEF Addresses
  <2> HIDE DEF x
  <2>7. x + (-a) = x - a
    BY <2>1, <2>6
  <2> QED BY <2>2, <2>3, <2>4, <2>5, <2>7 DEF x
<1>3. ASSUME NEW i \in 0 .. MemSize - 1
      PROVE  Cell(Store(s, a, w, v), a, i) =
               IF i < w THEN Digit(v, w - 1 - i) ELSE Cell(s, a, i)
  <2> DEFINE x == (a + i) % MemSize
  <2>1. x \in Addresses /\ (x - a) % MemSize = i
    BY <1>2
  <2>2. Cell(Store(s, a, w, v), a, i) = Store(s, a, w, v).mem[x] /\ Cell(s, a, i) = s.mem[x]
    BY DEF Cell
  <2> HIDE DEF x
  <2>3. LET j == (x - a) % MemSize
        IN  Store(s, a, w, v).mem[x] =
              IF j < w THEN (v \div Modulus(w - 1 - j)) % Base ELSE s.mem[x]
    <3>1. \A y \in Addresses :
            LET j == (y - a) % MemSize
            IN  /\ j \in Addresses
                /\ Store(s, a, w, v).mem[y] =
                     IF j < w THEN (v \div Modulus(w - 1 - j)) % Base ELSE s.mem[y]
      BY StoreIs
    <3> QED BY <2>1, <3>1
  <2> QED BY <2>1, <2>2, <2>3 DEF Digit
<1>4. \A i \in 0 .. w - 1 : i \in 0 .. MemSize - 1 /\ i < w
  BY <1>1
<1>5. \A i \in w .. MemSize - 1 : i \in 0 .. MemSize - 1 /\ ~(i < w)
  BY <1>1
<1> QED BY <1>3, <1>4, <1>5

\* What a load is made of.
LEMMA LoadIs ==
  ASSUME NEW s, NEW a \in Int
  PROVE  /\ Load(s, a, 1) = Cell(s, a, 0)
         /\ Load(s, a, 2) = Cell(s, a, 0) * Base + Cell(s, a, 1)
         /\ Load(s, a, 4) = ((Cell(s, a, 0) * Base + Cell(s, a, 1)) * Base + Cell(s, a, 2)) * Base
                              + Cell(s, a, 3)
BY DEF Load, Cell

LEMMA LoadsStored ==
  ASSUME NEW s \in Machines, NEW a \in Int, NEW w \in Widths, NEW v \in Int
  PROVE  Load(Store(s, a, w, v), a, w) = Low(v, w)
<1> DEFINE t == Store(s, a, w, v)
<1>1. \A i \in 0 .. w - 1 : Cell(t, a, i) = Digit(v, w - 1 - i)
  BY CellsAre
<1> HIDE DEF t
<1>2. CASE w = 1
  <2>1. Cell(t, a, 0) = Digit(v, 0)
    BY <1>1, <1>2
  <2> QED BY <1>2, <2>1, LoadIs, DigitsAre DEF t
<1>3. CASE w = 2
  <2>1. Cell(t, a, 0) = Digit(v, 1) /\ Cell(t, a, 1) = Digit(v, 0)
    BY <1>1, <1>3
  <2> QED BY <1>3, <2>1, LoadIs, DigitsAre DEF t
<1>4. CASE w = 4
  <2>1. /\ Cell(t, a, 0) = Digit(v, 3) /\ Cell(t, a, 1) = Digit(v, 2)
        /\ Cell(t, a, 2) = Digit(v, 1) /\ Cell(t, a, 3) = Digit(v, 0)
    BY <1>1, <1>4
  <2> QED BY <1>4, <2>1, LoadIs, DigitsAre DEF t
<1> QED BY <1>2, <1>3, <1>4 DEF Widths

\* Loads of the same bytes, whatever the address is called.
LEMMA SameLoads ==
  ASSUME NEW s, NEW t, NEW a \in Int, NEW b \in Int, NEW w \in Widths,
         \A i \in 0 .. w - 1 : Cell(s, a, i) = Cell(t, b, i)
  PROVE  Load(s, a, w) = Load(t, b, w)
<1>1. CASE w = 1
  <2>1. Cell(s, a, 0) = Cell(t, b, 0)
    BY <1>1
  <2> QED BY <1>1, <2>1, LoadIs
<1>2. CASE w = 2
  <2>1. Cell(s, a, 0) = Cell(t, b, 0) /\ Cell(s, a, 1) = Cell(t, b, 1)
    BY <1>2
  <2> QED BY <1>2, <2>1, LoadIs
<1>3. CASE w = 4
  <2>1. /\ Cell(s, a, 0) = Cell(t, b, 0) /\ Cell(s, a, 1) = Cell(t, b, 1)
        /\ Cell(s, a, 2) = Cell(t, b, 2) /\ Cell(s, a, 3) = Cell(t, b, 3)
    BY <1>3
  <2> QED BY <1>3, <2>1, LoadIs
<1> QED BY <1>1, <1>2, <1>3 DEF Widths

\* A store does not reach what lies before it or far enough behind it.
LEMMA LoadsOther ==
  ASSUME NEW s \in Machines, NEW a \in Int, NEW w \in Widths, NEW v \in Int,
         NEW j \in Int, w <= j, j + w <= MemSize
  PROVE  Load(Store(s, a, w, v), a + j, w) = Load(s, a + j, w)
<1> DEFINE t == Store(s, a, w, v)
<1>1. \A i \in w .. MemSize - 1 : Cell(t, a, i) = Cell(s, a, i)
  BY CellsAre
<1> HIDE DEF t
<1>2. w \in Nat /\ MemSize \in Nat
  BY MemoryAssumption DEF Widths
<1>3. ASSUME NEW i \in 0 .. w - 1
      PROVE  Cell(t, a + j, i) = Cell(s, a + j, i)
  <2>1. j + i \in w .. MemSize - 1 /\ a + (j + i) = (a + j) + i
    BY <1>2
  <2> QED BY <1>1, <2>1 DEF Cell
<1> QED BY <1>3, SameLoads DEF t

LEMMA Multiples ==
  ASSUME NEW a \in Int, NEW m \in Nat \ {0}, NEW k \in Int
  PROVE  (a + m * k) % m = a % m
<1>1. \A j \in Int : (a + m * j) % m = a % m
  BY Remainders
<1> QED BY <1>1

\* The addresses of registers wrap later than those of the memory.
LEMMA Wrapped ==
  ASSUME NEW v \in Int, NEW x \in Int
  PROVE  /\ \A y \in Int : (Plus(v, x) + y) % MemSize = ((v + x) + y) % MemSize
         /\ \A y \in Int : ((v % Modulus(4)) + y) % MemSize = (v + y) % MemSize
         /\ \A y \in Int : Plus(Plus(v, x), y) = Plus(v, x + y)
<1> DEFINE M == Modulus(4)
<1>1. M \in Nat \ {0} /\ MemSize \in Nat \ {0} /\ M % MemSize = 0
  BY WidthIs, MemoryAssumption DEF Widths
<1> HIDE DEF M
<1>2. PICK k \in Int : M = MemSize * k
  <2>1. M = MemSize * (M \div MemSize) + (M % MemSize) /\ M \div MemSize \in Int
    BY <1>1, Parts
  <2> QED BY <1>1, <2>1
<1>3. ASSUME NEW a \in Int, NEW y \in Int
      PROVE  ((a % M) + y) % MemSize = (a + y) % MemSize
  <2> DEFINE q == a \div M
             r == a % M
  <2>1. q \in Int /\ r \in Int /\ a = M * q + r
    <3>1. a % M \in 0 .. M - 1
      BY <1>1, Parts
    <3> QED BY <1>1, <3>1, Parts
  <2> HIDE DEF q, r
  <2>2. a + y = (r + y) + MemSize * (k * q) /\ k * q \in Int
    BY <1>1, <1>2, <2>1, SMT
  <2>3. ((r + y) + MemSize * (k * q)) % MemSize = (r + y) % MemSize
    <3> DEFINE j == k * q
           c == r + y
    <3>1. j \in Int /\ c \in Int
      BY <2>1, <2>2
    <3> HIDE DEF j, c
    <3>2. (c + MemSize * j) % MemSize = c % MemSize
      BY <1>1, <3>1, Multiples
    <3> QED BY <3>2 DEF j, c
  <2> QED BY <2>2, <2>3 DEF r
<1>4. ASSUME NEW y \in Int
      PROVE  Plus(Plus(v, x), y) = Plus(v, x + y)
  <2>1. (((v + x) % M) + y) % M = ((v + x) + y) % M
    <3> DEFINE a == v + x
    <3>1. a \in Int
      OBVIOUS
    <3> HIDE DEF a
    <3>2. ((a % M) + y) % M = (a + y) % M
      BY <1>1, <3>1, Remainders
    <3> QED BY <3>2 DEF a
  <2>2. (v + x) + y = v + (x + y)
    OBVIOUS
  <2> QED BY <2>1, <2>2 DEF Plus, M
<1>5. v + x \in Int
  OBVIOUS
<1> QED BY <1>3, <1>4, <1>5 DEF Plus, M

------------------------------------------------------------------------------
(* Instructions that undo themselves: EXG. *)

\* A machine is its registers and the rest.
LEMMA SameMachine ==
  ASSUME NEW s \in Machines, NEW t \in Machines, SameButRegisters(s, t),
         \A q \in AnyReg : Get(t, q) = Get(s, q)
  PROVE  t = s
<1>1. \A r \in RegNos : t.d[r] = s.d[r]
  <2> TAKE r \in RegNos
  <2> DEFINE q == [kind |-> "d", reg |-> r]
  <2>1. q \in AnyReg /\ q.kind = "d" /\ q.reg = r
    BY DEF AnyReg
  <2>2. Get(t, q) = t.d[r] /\ Get(s, q) = s.d[r]
    BY <2>1 DEF Get
  <2> HIDE DEF q
  <2> QED BY <2>1, <2>2
<1>2. \A r \in RegNos : Reg(t, r) = Reg(s, r)
  <2> TAKE r \in RegNos
  <2> DEFINE q == [kind |-> "a", reg |-> r]
  <2>1. q \in AnyReg /\ q.kind = "a" /\ q.reg = r
    BY DEF AnyReg
  <2>2. Get(t, q) = Reg(t, r) /\ Get(s, q) = Reg(s, r)
    BY <2>1 DEF Get
  <2> HIDE DEF q
  <2> QED BY <2>1, <2>2
<1>3. \A r \in RegNos : t.a[r] = s.a[r]
  BY <1>2 DEF SameButRegisters, Reg
<1>4. t.ssp = s.ssp
  BY <1>2, LongIs DEF SameButRegisters, Reg
<1>5. t.d = s.d
  <2>1. t.d \in [RegNos -> Long] /\ s.d \in [RegNos -> Long]
    BY FieldsAre
  <2> QED BY <1>1, <2>1
<1>6. t.a = s.a
  <2>1. t.a \in [RegNos -> Long] /\ s.a \in [RegNos -> Long]
    BY FieldsAre
  <2> QED BY <1>3, <2>1
<1> QED BY <1>4, <1>5, <1>6 DEF Machines, SameButRegisters

LEMMA ExgTwice ==
  ASSUME NEW s \in Machines, NEW x \in AnyReg, NEW y \in AnyReg, x # y
  PROVE  Exg(Exg(s, x, y), x, y) = s
<1> DEFINE gx == Get(s, x)
           gy == Get(s, y)
           u == Exg(s, x, y)
           v == Exg(u, x, y)
<1>1. gx \in Long /\ gy \in Long
  BY GetFits
<1>2. u = Put(Put(s, y, gx), x, gy)
  BY ExgIs
<1>3. v = Put(Put(u, y, Get(u, x)), x, Get(u, y))
  BY ExgIs
<1> HIDE DEF u, v
<1>4. ASSUME NEW t \in Machines, NEW a \in Long, NEW b \in Long
      PROVE  LET p == Put(Put(t, y, a), x, b)
             IN  /\ p \in Machines /\ SameButRegisters(t, p) /\ Get(p, x) = b /\ Get(p, y) = a
                 /\ \A q \in AnyReg \ {x, y} : Get(p, q) = Get(t, q)
  <2> DEFINE m == Put(t, y, a)
  <2>1. /\ m \in Machines /\ SameButRegisters(t, m) /\ Get(m, y) = a
        /\ \A q \in AnyReg : q # y => Get(m, q) = Get(t, q)
    BY PutIs
  <2> HIDE DEF m
  <2> DEFINE p == Put(m, x, b)
  <2>2. /\ p \in Machines /\ SameButRegisters(m, p) /\ Get(p, x) = b
        /\ \A q \in AnyReg : q # x => Get(p, q) = Get(m, q)
    BY <2>1, PutIs
  <2> HIDE DEF p
  <2>3. SameButRegisters(t, p)
    BY <2>1, <2>2 DEF SameButRegisters
  <2>4. Get(p, y) = a /\ \A q \in AnyReg \ {x, y} : Get(p, q) = Get(t, q)
    BY <2>1, <2>2
  <2> QED BY <2>2, <2>3, <2>4 DEF m, p
<1>5. /\ u \in Machines /\ SameButRegisters(s, u) /\ Get(u, x) = gy /\ Get(u, y) = gx
      /\ \A q \in AnyReg \ {x, y} : Get(u, q) = Get(s, q)
  <2> HIDE DEF gx, gy
  <2> QED BY <1>1, <1>2, <1>4
<1>6. /\ v \in Machines /\ SameButRegisters(u, v) /\ Get(v, x) = gx /\ Get(v, y) = gy
      /\ \A q \in AnyReg \ {x, y} : Get(v, q) = Get(u, q)
  <2> HIDE DEF gx, gy
  <2> QED BY <1>1, <1>3, <1>4, <1>5
<1>7. SameButRegisters(s, v)
  BY <1>5, <1>6 DEF SameButRegisters
<1>8. \A q \in AnyReg : Get(v, q) = Get(s, q)
  BY <1>5, <1>6
<1> QED BY <1>6, <1>7, <1>8, SameMachine DEF u, v

------------------------------------------------------------------------------
(* Instructions that undo themselves: MOVEP. *)

\* A byte is stored where it belongs and touches nothing near it.
LEMMA ByteApart ==
  ASSUME NEW s \in Machines, NEW a \in Int, NEW v \in Int
  PROVE  /\ Cell(Store(s, a, 1, v), a, 0) = v % Base
         /\ \A i \in (-7 .. 7) \ {0} : Cell(Store(s, a, 1, v), a, i) = Cell(s, a, i)
<1> DEFINE t == Store(s, a, 1, v)
<1>1. MemSize \in Nat \ {0} /\ MemSize >= 8 /\ 1 \in Widths
  BY MemoryAssumption DEF Widths
<1>2. Cell(t, a, 0) = Digit(v, 0)
  BY <1>1, CellsAre
<1>3. \A i \in 1 .. MemSize - 1 : Cell(t, a, i) = Cell(s, a, i)
  BY <1>1, CellsAre
<1> HIDE DEF t
<1>4. Digit(v, 0) = v % Base
  <2>1. v \div 1 = v
    OBVIOUS
  <2> QED BY <2>1, ModulusIs DEF Digit
<1>5. ASSUME NEW i \in (-7 .. 7) \ {0}
      PROVE  Cell(t, a, i) = Cell(s, a, i)
  <2>1. CASE i > 0
    <3>1. i \in 1 .. MemSize - 1
      BY <1>1, <2>1
    <3> QED BY <1>3, <3>1
  <2>2. CASE i < 0
    <3> DEFINE j == i + MemSize
               c == a + i
    <3>1. j \in 1 .. MemSize - 1
      BY <1>1, <2>2
    <3>2. c \in Int /\ a + j = c + MemSize * 1
      BY <1>1
    <3>3. (a + j) % MemSize = c % MemSize
      <4> HIDE DEF c, j
      <4>1. (c + MemSize * 1) % MemSize = c % MemSize
        <5>1. \A b, k \in Int : (b + MemSize * k) % MemSize = b % MemSize
          BY <1>1, Multiples
        <5>2. c \in Int /\ 1 \in Int
          BY <3>2
        <5> QED BY <5>1, <5>2
      <4> QED BY <3>2, <4>1
    <3>4. Cell(t, a, j) = Cell(s, a, j)
      <4> HIDE DEF j
      <4> QED BY <1>3, <3>1
    <3> QED BY <3>3, <3>4 DEF Cell
  <2> QED BY <2>1, <2>2
<1> QED BY <1>2, <1>4, <1>5 DEF t

\* The bytes that MOVEP has written, from the i-th on.
Scattered(s, m, a, v, w, i) ==
  /\ m \in Machines /\ SameButMemory(s, m)
  /\ \A j \in i .. w - 1 : Cell(m, a, 2 * j) = Digit(v, w - 1 - j)

LEMMA ScatteredMore ==
  ASSUME NEW s \in Machines, NEW a \in Int, NEW v \in Int, NEW w \in {2, 4},
         NEW i \in 0 .. w - 1, NEW m, Scattered(s, m, a, v, w, i + 1)
  PROVE  Scattered(s, Store(m, a + 2 * i, 1, v \div Modulus(w - 1 - i)), a, v, w, i)
<1> DEFINE b == a + 2 * i
           x == v \div Modulus(w - 1 - i)
           t == Store(m, b, 1, x)
<1>1. b \in Int /\ m \in Machines /\ i \in Int
  BY DEF Scattered
<1>2. x \in Int /\ x % Base = Digit(v, w - 1 - i)
  <2>1. w - 1 - i \in 0 .. 4
    OBVIOUS
  <2>2. Modulus(w - 1 - i) \in Nat \ {0}
    BY <2>1, ModulusIs
  <2> QED BY <2>2, Parts DEF Digit
<1> HIDE DEF x
<1>3. t \in Machines /\ SameButMemory(m, t)
  BY <1>1, <1>2, StoreIs DEF Widths
<1>4. /\ Cell(t, b, 0) = x % Base
      /\ \A k \in (-7 .. 7) \ {0} : Cell(t, b, k) = Cell(m, b, k)
  <2> HIDE DEF b
  <2> QED BY <1>1, <1>2, ByteApart
<1> HIDE DEF t
<1>5. SameButMemory(s, t)
  BY <1>3 DEF SameButMemory, Scattered
<1>6. ASSUME NEW j \in i .. w - 1
      PROVE  Cell(t, a, 2 * j) = Digit(v, w - 1 - j)
  <2>1. CASE j = i
    <3>1. b + 0 = a + 2 * j
      BY <2>1
    <3>2. Cell(t, a, 2 * j) = Cell(t, b, 0)
      BY <3>1 DEF Cell
    <3> QED BY <1>2, <1>4, <2>1, <3>2
  <2>2. CASE j # i
    <3> DEFINE k == 2 * j - 2 * i
    <3>1. k \in (-7 .. 7) \ {0} /\ b + k = a + 2 * j /\ j \in (i + 1) .. w - 1
      BY <2>2
    <3>2. Cell(t, b, k) = Cell(m, b, k)
      <4> HIDE DEF k, b
      <4> QED BY <1>4, <3>1
    <3>3. Cell(m, a, 2 * j) = Digit(v, w - 1 - j)
      BY <3>1 DEF Scattered
    <3> QED BY <3>1, <3>2, <3>3 DEF Cell
  <2> QED BY <2>1, <2>2
<1> QED BY <1>3, <1>5, <1>6 DEF Scattered, t, x

LEMMA MovepScatters ==
  ASSUME NEW s \in Machines, NEW r \in RegNos, NEW o, Sound(o), NEW w \in {2, 4}
  PROVE  Scattered(Fetch(s, 1), MovepToMem(s, r, o, w), Reg(s, o.reg) + Extended(o.ext, 2),
                   s.d[r], w, 0)
<1> DEFINE t == Fetch(s, 1)
           a == Reg(s, o.reg) + Extended(o.ext, 2)
           v == s.d[r]
           put(m, i) == Store(m, a + 2 * i, 1, v \div Modulus(w - 1 - i))
<1>1. t \in Machines
  BY FetchIs DEF Quiet
<1>2. a \in Int /\ v \in Int
  <2>1. Reg(s, o.reg) \in Int /\ Extended(o.ext, 2) \in Int /\ s.d[r] \in Int
    BY RegFits, ExtendedFits, FieldsAre, LongIs DEF Sound, Widths
  <2> QED BY <2>1
<1>3. MovepToMem(s, r, o, w) = CASE w = 2 -> put(put(t, 1), 0)
                                 [] w = 4 -> put(put(put(put(t, 3), 2), 1), 0)
  BY DEF MovepToMem
<1> HIDE DEF t, a, v
<1>4. Scattered(t, t, a, v, w, w)
  BY <1>1 DEF Scattered, SameButMemory
<1>5. ASSUME NEW m, NEW i \in 0 .. w - 1, Scattered(t, m, a, v, w, i + 1)
      PROVE  Scattered(t, put(m, i), a, v, w, i)
  BY <1>1, <1>2, <1>5, ScatteredMore
<1> HIDE DEF put
<1>6. CASE w = 2
  <2>0. 1 \in 0 .. w - 1 /\ 0 \in 0 .. w - 1 /\ 1 + 1 = w /\ 0 + 1 = 1
    BY <1>6
  <2>1. Scattered(t, put(t, 1), a, v, w, 1)
    BY <1>4, <1>5, <2>0
  <2>2. Scattered(t, put(put(t, 1), 0), a, v, w, 0)
    BY <1>5, <2>0, <2>1
  <2> QED BY <1>3, <1>6, <2>2 DEF t, a, v
<1>7. CASE w = 4
  <2>0. /\ 3 \in 0 .. w - 1 /\ 2 \in 0 .. w - 1 /\ 1 \in 0 .. w - 1 /\ 0 \in 0 .. w - 1
        /\ 3 + 1 = w /\ 2 + 1 = 3 /\ 1 + 1 = 2 /\ 0 + 1 = 1
    BY <1>7
  <2>1. Scattered(t, put(t, 3), a, v, w, 3)
    BY <1>4, <1>5, <2>0
  <2>2. Scattered(t, put(put(t, 3), 2), a, v, w, 2)
    BY <1>5, <2>0, <2>1
  <2>3. Scattered(t, put(put(put(t, 3), 2), 1), a, v, w, 1)
    BY <1>5, <2>0, <2>2
  <2>4. Scattered(t, put(put(put(put(t, 3), 2), 1), 0), a, v, w, 0)
    BY <1>5, <2>0, <2>3
  <2> QED BY <1>3, <1>7, <2>4 DEF t, a, v
<1> QED BY <1>6, <1>7

\* What MOVEP finds there is what it wrote.
LEMMA SpreadIs ==
  ASSUME NEW s, NEW m, NEW a \in Int, NEW v \in Int, NEW w \in {2, 4},
         Scattered(s, m, a, v, w, 0)
  PROVE  Spread(m, a, w) = Low(v, w)
<1>1. \A j \in 0 .. w - 1 : Load(m, a + 2 * j, 1) = Digit(v, w - 1 - j)
  <2> TAKE j \in 0 .. w - 1
  <2>1. a + 2 * j \in Int /\ (a + 2 * j) + 0 = a + 2 * j
    OBVIOUS
  <2>2. Load(m, a + 2 * j, 1) = Cell(m, a + 2 * j, 0)
    BY <2>1, LoadIs
  <2> QED BY <2>1, <2>2 DEF Cell, Scattered
<1>2. CASE w = 2
  <2>1. Load(m, a + 2 * 0, 1) = Digit(v, 1) /\ Load(m, a + 2 * 1, 1) = Digit(v, 0)
    BY <1>1, <1>2
  <2> QED BY <1>2, <2>1, DigitsAre DEF Spread
<1>3. CASE w = 4
  <2>1. /\ Load(m, a + 2 * 0, 1) = Digit(v, 3) /\ Load(m, a + 2 * 1, 1) = Digit(v, 2)
        /\ Load(m, a + 2 * 2, 1) = Digit(v, 1) /\ Load(m, a + 2 * 3, 1) = Digit(v, 0)
    BY <1>1, <1>3
  <2> QED BY <1>3, <2>1, DigitsAre DEF Spread
<1> QED BY <1>2, <1>3

LEMMA MovepFinds ==
  ASSUME NEW s \in Machines, NEW r \in RegNos, NEW o, Sound(o), NEW w \in {2, 4}
  PROVE  LET out == MovepToMem(s, r, o, w)
             back == MovepToReg([out EXCEPT !.d[r] = WithLow(@, w, 0)], r, o, w)
         IN  back.d = s.d
<1> DEFINE t == Fetch(s, 1)
           out == MovepToMem(s, r, o, w)
           a == Reg(s, o.reg) + Extended(o.ext, 2)
           v == s.d[r]
           e == [out EXCEPT !.d[r] = WithLow(@, w, 0)]
           back == MovepToReg(e, r, o, w)
<1>1. w \in Widths /\ w \in 0 .. 4
  BY DEF Widths
<1>2. a \in Int /\ v \in Int /\ v \in Long /\ o.reg \in RegNos
  <2>1. Reg(s, o.reg) \in Int /\ Extended(o.ext, 2) \in Int /\ s.d[r] \in Int /\ s.d[r] \in Long
    BY RegFits, ExtendedFits, FieldsAre, LongIs DEF Sound, Widths
  <2>2. o.reg \in RegNos
    BY DEF Sound
  <2> HIDE DEF out, e, back
  <2> QED BY <2>1, <2>2
<1>3. Scattered(t, out, a, v, w, 0)
  BY MovepScatters
<1>4. out \in Machines /\ out.d = s.d /\ Reg(out, o.reg) = Reg(s, o.reg)
  <2>1. t.d = s.d /\ Reg(t, o.reg) = Reg(s, o.reg)
    BY <1>2, FetchIs DEF Quiet
  <2> HIDE DEF t, out
  <2> QED BY <1>3, <2>1 DEF Scattered, SameButMemory, Reg
<1>5. Spread(out, a, w) = Low(v, w)
  <2> HIDE DEF t, out, a, v
  <2> QED BY <1>2, <1>3, SpreadIs
<1>6. 0 \in 0 .. Modulus(w) - 1 /\ Low(v, w) \in 0 .. Modulus(w) - 1 /\ Modulus(w) \in Nat \ {0}
  BY <1>1, <1>2, WidthIs, LowFits
<1>7. WithLow(v, w, 0) \in Long /\ Low(WithLow(v, w, 0), w) = 0
  BY <1>1, <1>2, <1>6, WithLowFits
<1>8. WithLow(WithLow(v, w, 0), w, Low(v, w)) = v
  <2> DEFINE l == Low(v, w)
             x == WithLow(v, w, 0)
  <2>1. l \in Int /\ x = v - l + 0
    BY <1>6 DEF WithLow
  <2>2. Low(x, w) = 0
    BY <1>7
  <2> HIDE DEF l
  <2>3. WithLow(x, w, l) = x - Low(x, w) + l
    BY DEF WithLow
  <2> HIDE DEF x
  <2> QED BY <1>2, <2>1, <2>2, <2>3 DEF l, x
<1> HIDE DEF out, v
<1>9. /\ e \in Machines /\ e.mem = out.mem /\ e.d = [s.d EXCEPT ![r] = WithLow(v, w, 0)]
      /\ Reg(e, o.reg) = Reg(s, o.reg)
  <2>1. e = [out EXCEPT !.d[r] = WithLow(v, w, 0)]
    BY <1>4 DEF v, Machines
  <2>2. [out EXCEPT !.d[r] = WithLow(v, w, 0)] \in Machines
    BY <1>4, <1>7, SetDIs
  <2> HIDE DEF e
  <2> QED BY <1>4, <2>1, <2>2 DEF Machines, Reg
<1> HIDE DEF e
<1>10. Spread(e, a, w) = Low(v, w)
  <2>1. Spread(e, a, w) = Spread(out, a, w)
    BY <1>9 DEF Spread, Load
  <2> QED BY <1>5, <2>1
<1>11. back = [Fetch(e, 1) EXCEPT !.d[r] = WithLow(@, w, Low(v, w))]
  BY <1>9, <1>10, MovepToRegIs
<1>12. Fetch(e, 1) \in Machines /\ Fetch(e, 1).d = [s.d EXCEPT ![r] = WithLow(v, w, 0)]
  BY <1>9, FetchIs DEF Quiet
<1>13. back.d = [s.d EXCEPT ![r] = WithLow(WithLow(v, w, 0), w, Low(v, w))]
  <2> DEFINE f == Fetch(e, 1)
  <2> HIDE DEF f, back
  <2>1. back = [f EXCEPT !.d[r] = WithLow(@, w, Low(v, w))]
    BY <1>11 DEF f
  <2>2. f \in Machines /\ f.d = [s.d EXCEPT ![r] = WithLow(v, w, 0)]
    BY <1>12 DEF f
  <2>3. f.d[r] = WithLow(v, w, 0)
    BY <2>2, FieldsAre
  <2>4. back.d = [f.d EXCEPT ![r] = WithLow(WithLow(v, w, 0), w, Low(v, w))]
    BY <2>1, <2>2, <2>3 DEF Machines
  <2> QED BY <2>2, <2>4, FieldsAre
<1>14. back.d = [s.d EXCEPT ![r] = v]
  BY <1>8, <1>13
<1> QED BY <1>14, FieldsAre DEF back, e, out, v

------------------------------------------------------------------------------
(* Instructions that undo themselves: bits. *)

\* A bit is zero or one, and putting the weight in or taking it out makes it the other.
LEMMA Flip ==
  ASSUME NEW n \in Nat, NEW k \in 0 .. n - 1, NEW v \in 0 .. Two[n] - 1
  PROVE  LET b(x) == (x \div Two[k]) % 2
         IN  /\ b(v) \in {0, 1}
             /\ b(v) = 1 => v - Two[k] \in 0 .. Two[n] - 1 /\ b(v - Two[k]) = 0
             /\ b(v) = 0 => v + Two[k] \in 0 .. Two[n] - 1 /\ b(v + Two[k]) = 1
<1> DEFINE m == Two[k]
           j == Two[n - 1 - k]
           q == v \div m
           r == v % m
           b(x) == (x \div m) % 2
<1>1. k \in Nat /\ n - 1 - k \in Nat /\ (n - 1 - k) + 1 \in Nat /\ k + ((n - 1 - k) + 1) = n
  OBVIOUS
<1>2. m \in Nat \ {0} /\ j \in Nat \ {0}
  BY <1>1, TwoIs
<1>3. Two[n] = m * (2 * j)
  <2>1. Two[(n - 1 - k) + 1] = 2 * j
    BY <1>1, TwoIs
  <2>2. Two[k + ((n - 1 - k) + 1)] = m * Two[(n - 1 - k) + 1]
    BY <1>1, TwoSum
  <2> QED BY <1>1, <2>1, <2>2
<1> HIDE DEF m, j
<1>4. v \in Int /\ 0 <= v /\ v < m * (2 * j)
  <2>1. Two[n] \in Int
    BY TwoIs
  <2> QED BY <1>3, <2>1
<1>5. q \in Int /\ r \in 0 .. m - 1 /\ v = m * q + r
  BY <1>2, <1>4, Parts
<1>6. b(v) = q % 2
  OBVIOUS
<1>7. \A p \in Int : (m * p + r) \div m = p
  BY <1>2, <1>5, OnlyParts
<1> HIDE DEF q, r
<1>8. q >= 0
  <2> SUFFICES ASSUME q <= -1 PROVE FALSE
    BY <1>5
  <2>1. m * q <= m * (-1)
    BY <1>2, <1>5, SMT
  <2> QED BY <1>2, <1>4, <1>5, <2>1
<1>9. q <= 2 * j - 1
  <2> SUFFICES ASSUME q >= 2 * j PROVE FALSE
    BY <1>2, <1>5
  <2>1. m * q >= m * (2 * j)
    BY <1>2, <1>5, SMT
  <2> QED BY <1>2, <1>4, <1>5, <2>1
<1>10. q % 2 \in {0, 1}
  BY <1>5
<1>11. ASSUME NEW p \in Int, 0 <= p, p <= 2 * j - 1
       PROVE  m * p + r \in 0 .. Two[n] - 1 /\ b(m * p + r) = p % 2
  <2>1. b(m * p + r) = p % 2
    BY <1>7
  <2>2. m * p >= 0 /\ m * p <= m * (2 * j - 1) /\ m * (2 * j - 1) = m * (2 * j) - m
    BY <1>2, <1>11, SMT
  <2>3. m * p \in Int /\ m * (2 * j) \in Int
    BY <1>2
  <2>4. m * p + r \in 0 .. m * (2 * j) - 1
    <3> DEFINE M == m * (2 * j)
               P == m * p
    <3> HIDE DEF M, P, b
    <3>1. P >= 0 /\ P <= M - m /\ P \in Int /\ M \in Int
      BY <2>2, <2>3 DEF M, P
    <3>2. P + r \in 0 .. M - 1
      BY <1>2, <1>5, <3>1
    <3> QED BY <3>2 DEF M, P
  <2> QED BY <1>3, <2>1, <2>4
<1> HIDE DEF b
<1>12. CASE q % 2 = 1
  <2>1. q - 1 \in Int /\ 0 <= q - 1 /\ q - 1 <= 2 * j - 1 /\ (q - 1) % 2 = 0
    BY <1>2, <1>5, <1>8, <1>9, <1>12
  <2>2. v - m = m * (q - 1) + r
    <3>1. m * (q - 1) = m * q - m
      BY <1>2, <1>5, SMT
    <3> QED BY <1>2, <1>5, <3>1
  <2>3. v - m \in 0 .. Two[n] - 1 /\ b(v - m) = 0
    BY <1>11, <2>1, <2>2
  <2> QED BY <1>6, <1>10, <1>12, <2>3 DEF b, m
<1>13. CASE q % 2 = 0
  <2>1. q + 1 \in Int /\ 0 <= q + 1 /\ q + 1 <= 2 * j - 1 /\ (q + 1) % 2 = 1
    BY <1>2, <1>5, <1>8, <1>9, <1>13
  <2>2. v + m = m * (q + 1) + r
    <3>1. m * (q + 1) = m * q + m
      BY <1>2, <1>5, SMT
    <3> QED BY <1>2, <1>5, <3>1
  <2>3. v + m \in 0 .. Two[n] - 1 /\ b(v + m) = 1
    BY <1>11, <2>1, <2>2
  <2> QED BY <1>6, <1>10, <1>13, <2>3 DEF b, m
<1> QED BY <1>10, <1>12, <1>13

\* The operands of bit instructions that leave the registers of addresses alone, the
\* byte or long word they name, and what it is to give it another value.
Simple(o) == Sound(o) /\ o.mode \in {"Dn", "(An)", "(d16,An)"}

Breadth(o) == IF o.mode = "Dn" THEN 4 ELSE 1
Spot(s, o) ==
  (IF o.mode = "(An)" THEN Reg(s, o.reg) ELSE Reg(s, o.reg) + Extended(o.ext, 2)) % Modulus(4)
Held(s, o) == IF o.mode = "Dn" THEN s.d[o.reg] ELSE s.mem[Spot(s, o) % MemSize]
SameAddresses(s, t) == t.a = s.a /\ t.ssp = s.ssp /\ t.sup = s.sup
Gives(s, t, o, x) ==
  /\ t \in Machines /\ Ok(t) /\ SameAddresses(s, t)
  /\ o.mode = "Dn" => t.d = [s.d EXCEPT ![o.reg] = x] /\ t.mem = s.mem
  /\ o.mode # "Dn" => t.d = s.d /\ t.mem = [s.mem EXCEPT ![Spot(s, o) % MemSize] = x]

LEMMA SpotFits ==
  ASSUME NEW s \in Machines, NEW o, Simple(o)
  PROVE  /\ Spot(s, o) \in Long /\ Spot(s, o) \in Int /\ Spot(s, o) % MemSize \in Addresses
         /\ \A t : SameAddresses(s, t) => Spot(t, o) = Spot(s, o)
<1>1. Reg(s, o.reg) \in Int /\ Extended(o.ext, 2) \in Int
  BY RegFits, ExtendedFits, LongIs DEF Simple, Sound, Widths
<1>2. (IF o.mode = "(An)" THEN Reg(s, o.reg) ELSE Reg(s, o.reg) + Extended(o.ext, 2)) \in Int
  BY <1>1
<1>3. Spot(s, o) \in Long
  BY <1>2, WidthIs, Parts DEF Spot, Long, Widths
<1>4. \A t : SameAddresses(s, t) => Spot(t, o) = Spot(s, o)
  BY DEF Spot, Reg, SameAddresses
<1> QED BY <1>3, <1>4, LongIs, AddressIs

LEMMA HeldFits ==
  ASSUME NEW s \in Machines, NEW o, Simple(o)
  PROVE  Held(s, o) \in 0 .. Modulus(Breadth(o)) - 1 /\ Held(s, o) \in Int
<1>1. CASE o.mode = "Dn"
  <2>1. s.d[o.reg] \in Long
    BY FieldsAre DEF Simple, Sound
  <2> QED BY <1>1, <2>1, LongIs DEF Held, Breadth, Long
<1>2. CASE o.mode # "Dn"
  <2>1. s.mem[Spot(s, o) % MemSize] \in Bytes /\ s.mem[Spot(s, o) % MemSize] \in Int
    BY SpotFits, FieldsAre, BytesAre
  <2> QED BY <1>2, <2>1, ModulusIs DEF Held, Breadth, Bytes
<1> QED BY <1>1, <1>2

\* Finding such an operand.
Aimed(s, t, o) ==
  /\ t \in Machines /\ Ok(t) /\ SameAddresses(s, t) /\ t.d = s.d /\ t.mem = s.mem /\ t.cc = s.cc
  /\ o.mode = "Dn" => t.dst = At("dr", o.reg)
  /\ o.mode # "Dn" => t.dst.l = "mem" /\ t.dst.n = Spot(s, o)

LEMMA AimedIs ==
  ASSUME NEW s \in Machines, Ok(s), NEW o, Simple(o), NEW w \in Widths
  PROVE  Aimed(s, DstSet(s, o, w), o)
<1> DEFINE p == Locate(s, o, w)
           n == IF o.mode = "(An)" THEN Reg(s, o.reg) ELSE Reg(s, o.reg) + Extended(o.ext, 2)
<1>1. p = <<s, At("dr", o.reg)>> \/ p = <<s, At("mem", n)>> \/ p = <<Fetch(s, 1), At("mem", n)>>
  <2>1. CASE o.mode = "Dn"
    BY <2>1 DEF Locate
  <2>2. CASE o.mode = "(An)"
    BY <2>2 DEF Locate
  <2>3. CASE o.mode = "(d16,An)"
    <3>1. p = <<Fetch(s, 1), At("mem", Reg(s, o.reg) + Extended(o.ext, 2))>>
      BY <2>3 DEF Locate
    <3>2. o.mode # "(An)"
      BY <2>3
    <3> QED BY <3>1, <3>2
  <2>4. o.mode \in {"Dn", "(An)", "(d16,An)"}
    BY DEF Simple
  <2> QED BY <2>1, <2>2, <2>3, <2>4
<1>2. o.mode = "Dn" <=> p[2] = At("dr", o.reg)
  <2>1. CASE o.mode = "Dn"
    BY <2>1 DEF Locate
  <2>2. CASE o.mode # "Dn"
    <3>1. p[2] = At("mem", n)
      <4>1. CASE o.mode = "(An)"
        BY <4>1 DEF Locate
      <4>2. CASE o.mode = "(d16,An)"
        <5>1. p = <<Fetch(s, 1), At("mem", Reg(s, o.reg) + Extended(o.ext, 2))>>
          BY <4>2 DEF Locate
        <5>2. o.mode # "(An)"
          BY <4>2
        <5> QED BY <5>1, <5>2
      <4>3. o.mode \in {"(An)", "(d16,An)"}
        BY <2>2 DEF Simple
      <4> QED BY <4>1, <4>2, <4>3
    <3>2. At("mem", n) # At("dr", o.reg)
      BY DEF At
    <3> HIDE DEF p, n
    <3> QED BY <2>2, <3>1, <3>2
  <2> QED BY <2>1, <2>2
<1>3. p[1] = s \/ p[1] = Fetch(s, 1)
  BY <1>1
<1>4. o.mode = "Dn" \/ p[2] = At("mem", n)
  BY <1>1, <1>2
<1>5. Fetch(s, 1) \in Machines /\ Fetch(s, 1).mem = s.mem /\ Fetch(s, 1).d = s.d
      /\ Fetch(s, 1).raised = s.raised
  BY FetchIs DEF Quiet
<1>6. Fetch(s, 1).cc = s.cc /\ SameAddresses(s, Fetch(s, 1))
  BY DEF Fetch, Machines, SameAddresses
<1> HIDE DEF p
<1>7. /\ p[1] \in Machines /\ Ok(p[1]) /\ p[1].mem = s.mem /\ p[1].d = s.d /\ p[1].cc = s.cc
      /\ SameAddresses(s, p[1])
  BY <1>3, <1>5, <1>6 DEF Ok, SameAddresses
<1>8. n \in Int /\ n % Modulus(4) = Spot(s, o) /\ o.reg \in RegNos
  <2>1. Reg(s, o.reg) \in Int /\ Extended(o.ext, 2) \in Int /\ o.reg \in RegNos
    BY RegFits, ExtendedFits, LongIs DEF Simple, Sound, Widths
  <2> QED BY <2>1 DEF Spot
<1> HIDE DEF n
<1>9. p[2] \in Places /\ (o.mode # "Dn" => p[2].l = "mem" /\ p[2].n = Spot(s, o))
  BY <1>2, <1>4, <1>8, AtFits
<1>10. DstSet(s, o, w) = [p[1] EXCEPT !.dst = p[2]]
  BY <1>7 DEF DstSet, AsDst, p
<1>11. [p[1] EXCEPT !.dst = p[2]] \in Machines
  BY <1>7, <1>9, ReplacedAre
<1> DEFINE q == p[1]
           loc == p[2]
<1>12. /\ [q EXCEPT !.dst = loc].dst = loc /\ [q EXCEPT !.dst = loc].d = q.d
       /\ [q EXCEPT !.dst = loc].mem = q.mem /\ [q EXCEPT !.dst = loc].cc = q.cc
       /\ [q EXCEPT !.dst = loc].raised = q.raised
       /\ SameAddresses(q, [q EXCEPT !.dst = loc])
  <2> HIDE DEF q, loc
  <2>1. q \in Machines
    BY <1>7 DEF q
  <2> QED BY <2>1 DEF Machines, SameAddresses
<1> QED BY <1>2, <1>7, <1>9, <1>10, <1>11, <1>12 DEF Aimed, Ok, SameAddresses

\* Storing a byte replaces one.
LEMMA ByteReplaced ==
  ASSUME NEW s \in Machines, NEW a \in Int, NEW v \in Int
  PROVE  Store(s, a, 1, v).mem = [s.mem EXCEPT ![a % MemSize] = v % Base]
<1> DEFINE w == 1
           t == Store(s, a, w, v)
<1>1. w \in Widths
  BY DEF Widths
<1>2. w = 1
  OBVIOUS
<1> HIDE DEF w
<1>3. /\ t \in Machines
      /\ \A q \in Addresses :
           LET j == (q - a) % MemSize
           IN  /\ j \in Addresses
               /\ t.mem[q] = IF j < w THEN (v \div Modulus(w - 1 - j)) % Base ELSE s.mem[q]
  BY <1>1, StoreIs
<1>4. t.mem \in Memories /\ s.mem \in Memories
  BY <1>3, FieldsAre
<1>5. MemSize \in Nat \ {0} /\ a % MemSize \in Int
  BY MemoryAssumption, Parts
<1>6. ASSUME NEW q \in Addresses
      PROVE  t.mem[q] = IF q = a % MemSize THEN v % Base ELSE s.mem[q]
  <2> DEFINE i == (q - a) % MemSize
  <2>1. i \in Addresses /\ t.mem[q] = IF i < w THEN (v \div Modulus(w - 1 - i)) % Base
                                      ELSE s.mem[q]
    BY <1>3
  <2>2. q \in Int /\ q - a \in Int /\ q % MemSize = q
    BY <1>5, Remainders DEF Addresses
  <2>3. CASE i = 0
    <3>1. q = a % MemSize
      <4> DEFINE k == (q - a) \div MemSize
      <4>1. k \in Int /\ q - a = (MemSize * k) + 0
        BY <1>5, <2>2, <2>3, Parts
      <4>2. (a + MemSize * k) % MemSize = a % MemSize
        BY <1>5, <4>1, Multiples
      <4> HIDE DEF k
      <4>3. a + MemSize * k = q
        <5> DEFINE p == MemSize * k
        <5>1. p \in Int
          BY <1>5, <4>1
        <5>2. q - a = p + 0
          BY <4>1
        <5> HIDE DEF p
        <5>3. a + p = q
          BY <2>2, <5>1, <5>2
        <5> QED BY <5>3 DEF p
      <4> QED BY <2>2, <4>2, <4>3
    <3>2. w - 1 - i = 0 /\ i < w
      BY <1>2, <2>3
    <3>3. v \div Modulus(0) = v
      BY ModulusIs
    <3> QED BY <2>1, <3>1, <3>2, <3>3
  <2>4. CASE i # 0
    <3>1. ~(i < w)
      BY <1>2, <2>1, <2>4 DEF Addresses
    <3>2. ASSUME q = a % MemSize PROVE i = 0
      <4>1. ((a % MemSize) + (-a)) % MemSize = (a + (-a)) % MemSize
        <5>1. \A j \in Int : ((a % MemSize) + j) % MemSize = (a + j) % MemSize
          BY <1>5, Remainders
        <5>2. -a \in Int
          OBVIOUS
        <5> QED BY <5>1, <5>2
      <4>2. (a % MemSize) + (-a) = q - a /\ a + (-a) = 0
        BY <1>5, <3>2
      <4>3. 0 % MemSize = 0
        BY <1>5
      <4> QED BY <4>1, <4>2, <4>3
    <3> QED BY <2>1, <2>4, <3>1, <3>2
  <2> QED BY <2>3, <2>4
<1>7. t.mem = [s.mem EXCEPT ![a % MemSize] = v % Base]
  BY <1>4, <1>6 DEF Memories, Addresses
<1> QED BY <1>2, <1>7

\* Such an operand is read and written.
LEMMA HeldIsRead ==
  ASSUME NEW s \in Machines, NEW o, Simple(o), NEW t, Aimed(s, t, o)
  PROVE  DstRead(t, Breadth(o)) = t /\ DstValue(t, Breadth(o)) = Held(s, o)
<1>1. t \in Machines /\ Ok(t) /\ t.d = s.d /\ t.mem = s.mem
  BY DEF Aimed
<1>2. CASE o.mode = "Dn"
  <2>1. t.dst.l = "dr" /\ t.dst.n = o.reg % Modulus(4) /\ Breadth(o) = 4
    BY <1>2 DEF Aimed, At, Breadth
  <2>2. o.reg \in Long /\ s.d[o.reg] \in Long /\ Modulus(4) \in Nat \ {0}
    BY FieldsAre, LongIs, WidthIs DEF Simple, Sound, Widths
  <2>3. o.reg % Modulus(4) = o.reg /\ s.d[o.reg] % Modulus(4) = s.d[o.reg]
    BY <2>2, LongIs, Remainders DEF Long
  <2>4. DstRead(t, 4) = t
    BY <1>1, <2>1 DEF DstRead, Refused
  <2>5. DstValue(t, 4) = Low(s.d[o.reg], 4)
    <3>1. t.dst.n = o.reg
      BY <2>1, <2>3
    <3> QED BY <1>1, <2>1, <3>1 DEF DstValue, Value
  <2> QED BY <1>2, <2>1, <2>3, <2>4, <2>5 DEF Held, Low
<1>3. CASE o.mode # "Dn"
  <2>1. t.dst.l = "mem" /\ t.dst.n = Spot(s, o) /\ Breadth(o) = 1
    BY <1>3 DEF Aimed, Breadth
  <2>2. Spot(s, o) \in Int /\ Spot(s, o) + 0 = Spot(s, o)
    BY SpotFits
  <2>3. DstRead(t, 1) = t
    BY <1>1, <2>1 DEF DstRead, Refused
  <2>4. DstValue(t, 1) = Load(t, Spot(s, o), 1)
    <3>1. DstValue(t, 1) = Value(t, t.dst, 1)
      BY <1>1 DEF DstValue
    <3> QED BY <2>1, <3>1 DEF Value
  <2>5. Load(t, Spot(s, o), 1) = s.mem[Spot(s, o) % MemSize]
    BY <1>1, <2>2, LoadIs DEF Cell
  <2> QED BY <1>3, <2>1, <2>3, <2>4, <2>5 DEF Held
<1> QED BY <1>2, <1>3

LEMMA HeldIsWritten ==
  ASSUME NEW s \in Machines, NEW o, Simple(o), NEW u, Aimed(s, u, o), NEW cc \in SUBSET Flags,
         NEW x \in 0 .. Modulus(Breadth(o)) - 1
  PROVE  LET t == DstWrite(WithFlags(u, cc), Breadth(o), x)
         IN  Gives(s, t, o, x) /\ t.cc = cc
<1> DEFINE f == WithFlags(u, cc)
           t == DstWrite(f, Breadth(o), x)
<1>1. u \in Machines /\ Ok(u) /\ u.d = s.d /\ u.mem = s.mem /\ SameAddresses(s, u)
  BY DEF Aimed
<1>2. f = [u EXCEPT !.cc = cc] /\ f \in Machines
  BY <1>1, ReplacedAre DEF WithFlags
<1>3. /\ Ok(f) /\ f.d = s.d /\ f.mem = s.mem /\ SameAddresses(s, f) /\ f.dst = u.dst /\ f.cc = cc
  BY <1>1, <1>2 DEF Machines, Ok, SameAddresses
<1> HIDE DEF f
<1>4. CASE o.mode = "Dn"
  <2>1. f.dst.l = "dr" /\ f.dst.n = o.reg % Modulus(4) /\ Breadth(o) = 4
    BY <1>3, <1>4 DEF Aimed, At, Breadth
  <2>2. o.reg \in RegNos /\ o.reg \in Long /\ s.d[o.reg] \in Long /\ Modulus(4) \in Nat \ {0}
        /\ x \in Int /\ x \in Long
    BY <2>1, FieldsAre, LongIs, WidthIs DEF Simple, Sound, Widths, Long
  <2>3. o.reg % Modulus(4) = o.reg /\ s.d[o.reg] % Modulus(4) = s.d[o.reg] /\ x % Modulus(4) = x
    BY <2>2, LongIs, Remainders DEF Long
  <2>4. WithLow(s.d[o.reg], 4, Low(x, 4)) = x
    <3>1. s.d[o.reg] \in Int
      BY <2>2, LongIs
    <3> QED BY <2>2, <2>3, <3>1 DEF WithLow, Low
  <2>5. f.dst.n = o.reg
    BY <2>1, <2>3
  <2>6. t = [f EXCEPT !.d[o.reg] = WithLow(@, 4, Low(x, 4))]
    <3>1. Refused(f, f.dst, 4, {"dr", "mem"} \cup (IF 4 = 1 THEN {} ELSE {"ar"}), FALSE) = f
      BY <2>1 DEF Refused
    <3> QED BY <1>3, <2>1, <2>5, <3>1 DEF DstWrite
  <2>7. t = [f EXCEPT !.d[o.reg] = x]
    BY <1>3, <2>4, <2>6
  <2> HIDE DEF t
  <2>8. t \in Machines
    BY <1>2, <2>2, <2>7, SetDIs
  <2>9. t.d = [s.d EXCEPT ![o.reg] = x] /\ t.mem = s.mem /\ t.cc = cc /\ Ok(t)
        /\ SameAddresses(s, t)
    BY <1>2, <1>3, <2>7 DEF Machines, Ok, SameAddresses
  <2> QED BY <1>4, <2>8, <2>9 DEF Gives, t, f
<1>5. CASE o.mode # "Dn"
  <2> DEFINE p == Spot(s, o)
  <2>1. f.dst.l = "mem" /\ f.dst.n = p /\ Breadth(o) = 1
    BY <1>3, <1>5 DEF Aimed, Breadth
  <2>2. p \in Int /\ p + 0 = p /\ p % MemSize \in Addresses
    BY SpotFits
  <2>3. x \in Int /\ x \in Bytes /\ x % Base = x
    <3>1. x \in Bytes /\ x \in Int
      BY <2>1, ModulusIs DEF Bytes
    <3>2. Base \in Nat \ {0} /\ x \in 0 .. Base - 1
      BY <3>1, BaseIs DEF Bytes
    <3>3. x % Base = x
      BY <3>1, <3>2, Remainders
    <3> QED BY <3>1, <3>3
  <2>4. t = Store(f, p, 1, x)
    <3>1. Refused(f, f.dst, 1, {"dr", "mem"} \cup (IF 1 = 1 THEN {} ELSE {"ar"}), FALSE) = f
      BY <2>1 DEF Refused
    <3> QED BY <1>3, <2>1, <3>1 DEF DstWrite
  <2> HIDE DEF t, p
  <2>5. t \in Machines /\ SameButMemory(f, t)
    BY <1>2, <2>2, <2>3, <2>4, StoreIs DEF Widths
  <2>6. t.mem = [s.mem EXCEPT ![p % MemSize] = x]
    <3>1. Store(f, p, 1, x).mem = [f.mem EXCEPT ![p % MemSize] = x % Base]
      <4>1. f \in Machines /\ p \in Int /\ x \in Int
        BY <1>2, <2>2, <2>3
      <4>2. \A m \in Machines : \A a, v \in Int :
              Store(m, a, 1, v).mem = [m.mem EXCEPT ![a % MemSize] = v % Base]
        BY ByteReplaced
      <4> QED BY <4>1, <4>2
    <3> QED BY <1>3, <2>3, <2>4, <3>1
  <2>7. t.d = s.d /\ t.cc = cc /\ Ok(t) /\ SameAddresses(s, t)
    BY <1>3, <2>5 DEF SameButMemory, Ok, SameAddresses
  <2> QED BY <1>5, <2>5, <2>6, <2>7 DEF Gives, t, p, f
<1> QED BY <1>4, <1>5 DEF f

\* What an instruction does with a bit.
IsSet(v, n, w) == (v \div Two[n % (w * ByteBits)]) % 2 = 1
Put1(op, v, n, w) ==
  CASE op = "bset" -> TRUE [] op = "bclr" -> FALSE [] op = "bchg" -> ~IsSet(v, n, w)
Altered(op, v, n, w) ==
  v + (IF Put1(op, v, n, w) THEN Two[n % (w * ByteBits)] ELSE 0)
    - (IF IsSet(v, n, w) THEN Two[n % (w * ByteBits)] ELSE 0)

LEMMA AlteredIs ==
  ASSUME NEW w \in Widths, NEW n \in Int, NEW v \in 0 .. Modulus(w) - 1,
         NEW op \in {"bchg", "bclr", "bset"}
  PROVE  /\ Altered(op, v, n, w) \in 0 .. Modulus(w) - 1
         /\ IsSet(Altered(op, v, n, w), n, w) <=> Put1(op, v, n, w)
         /\ IsSet(v, n, w) <=> Put1(op, v, n, w) => Altered(op, v, n, w) = v
<1> DEFINE k == n % (w * ByteBits)
           m == Two[k]
           b(x) == (x \div m) % 2
<1>1. w * ByteBits \in Nat \ {0} /\ Modulus(w) = Two[w * ByteBits]
  BY WidthAssumption DEF Widths, Modulus
<1>2. k \in 0 .. (w * ByteBits) - 1 /\ k \in Nat
  BY <1>1, Parts
<1>3. m \in Nat \ {0} /\ v \in Int
  BY <1>2, TwoIs
<1>4. /\ b(v) \in {0, 1}
      /\ b(v) = 1 => v - m \in 0 .. Modulus(w) - 1 /\ b(v - m) = 0
      /\ b(v) = 0 => v + m \in 0 .. Modulus(w) - 1 /\ b(v + m) = 1
  BY <1>1, <1>2, Flip
<1>5. \A x : IsSet(x, n, w) <=> b(x) = 1
  BY DEF IsSet
<1> DEFINE put == Put1(op, v, n, w)
<1>6. put \in BOOLEAN
  BY DEF Put1, IsSet
<1>7. Altered(op, v, n, w) = v + (IF put THEN m ELSE 0) - (IF b(v) = 1 THEN m ELSE 0)
  BY DEF Altered, IsSet
<1> HIDE DEF m, b, put
<1>8. CASE put /\ b(v) = 1
  BY <1>3, <1>4, <1>5, <1>7, <1>8 DEF put
<1>9. CASE put /\ b(v) = 0
  BY <1>3, <1>4, <1>5, <1>7, <1>9 DEF put
<1>10. CASE ~put /\ b(v) = 1
  BY <1>3, <1>4, <1>5, <1>7, <1>10 DEF put
<1>11. CASE ~put /\ b(v) = 0
  BY <1>3, <1>4, <1>5, <1>7, <1>11 DEF put
<1> QED BY <1>4, <1>6, <1>8, <1>9, <1>10, <1>11

\* Z says what the bit was.
Said(s, t, o, n) == "Z" \in t.cc <=> ~IsSet(Held(s, o), n, Breadth(o))

BitOf(s, op, n, w, read, v) ==
  LET weight == Two[n % (w * ByteBits)]
      set == (v \div weight) % 2 = 1
      t == WithFlags(read, (s.cc \ {"Z"}) \cup (IF set THEN {} ELSE {"Z"}))
      put == CASE op = "bset" -> TRUE [] op = "bclr" -> FALSE [] op = "bchg" -> ~set
  IN  IF op = "btst" THEN t
      ELSE DstWrite(t, w, v + (IF put THEN weight ELSE 0) - (IF set THEN weight ELSE 0))

LEMMA BitIs ==
  ASSUME NEW s \in Machines, Ok(s), NEW o, Simple(o), NEW n \in Int
  PROVE  /\ Said(s, Bit(s, "btst", o, n), o, n)
         /\ \A op \in {"bchg", "bclr", "bset"} :
              /\ Gives(s, Bit(s, op, o, n), o, Altered(op, Held(s, o), n, Breadth(o)))
              /\ Said(s, Bit(s, op, o, n), o, n)
<1> DEFINE w == Breadth(o)
           u == DstSet(s, o, w)
           v == Held(s, o)
           cc == (s.cc \ {"Z"}) \cup (IF IsSet(v, n, w) THEN {} ELSE {"Z"})
           t == WithFlags(u, cc)
<1>1. w \in Widths
  BY DEF Breadth, Widths
<1>2. Aimed(s, u, o)
  BY <1>1, AimedIs
<1>3. DstRead(u, w) = u /\ DstValue(u, w) = v
  BY <1>2, HeldIsRead
<1>4. v \in 0 .. Modulus(w) - 1
  BY HeldFits
<1>5. cc \in SUBSET Flags /\ ("Z" \in cc <=> ~IsSet(v, n, w))
  BY FieldsAre DEF Flags
<1>0. ASSUME NEW op
      PROVE  Bit(s, op, o, n) = BitOf(s, op, n, w, u, v)
  <2>1. Bit(s, op, o, n) = BitOf(s, op, n, w, DstRead(u, w), DstValue(DstRead(u, w), w))
    BY DEF Bit, BitOf, Breadth
  <2> QED BY <1>3, <2>1
<1> HIDE DEF w, u, v
<1>6. Bit(s, "btst", o, n) = t
  <2>1. BitOf(s, "btst", n, w, u, v) = t
    BY DEF BitOf, IsSet
  <2> QED BY <1>0, <2>1
<1>7. ASSUME NEW op \in {"bchg", "bclr", "bset"}
      PROVE  Bit(s, op, o, n) = DstWrite(t, w, Altered(op, v, n, w))
  <2>1. BitOf(s, op, n, w, u, v) = DstWrite(t, w, Altered(op, v, n, w))
    BY <1>7 DEF BitOf, IsSet, Altered, Put1
  <2> QED BY <1>0, <2>1
<1>8. t.cc = cc
  <2>1. u \in Machines /\ Ok(u)
    BY <1>2 DEF Aimed
  <2> QED BY <2>1 DEF WithFlags, Machines
<1> HIDE DEF cc
<1>9. Said(s, Bit(s, "btst", o, n), o, n)
  BY <1>5, <1>6, <1>8 DEF Said, w, v
<1>10. ASSUME NEW op \in {"bchg", "bclr", "bset"}
       PROVE  /\ Gives(s, Bit(s, op, o, n), o, Altered(op, v, n, w))
              /\ Said(s, Bit(s, op, o, n), o, n)
  <2>1. Altered(op, v, n, w) \in 0 .. Modulus(w) - 1
    BY <1>1, <1>4, AlteredIs
  <2> DEFINE x == Altered(op, v, n, w)
  <2> HIDE DEF x
  <2>2. x \in 0 .. Modulus(Breadth(o)) - 1
    BY <2>1 DEF x, w
  <2>3. Gives(s, DstWrite(t, w, x), o, x) /\ DstWrite(t, w, x).cc = cc
    BY <1>2, <1>5, <2>2, HeldIsWritten DEF w
  <2> QED BY <1>5, <1>7, <2>3 DEF x, Said, w, v
<1> QED BY <1>9, <1>10 DEF w, v

\* What the second instruction of a pair starts from.
LEMMA HeldAfter ==
  ASSUME NEW s \in Machines, NEW o, Simple(o), NEW x, NEW t, Gives(s, t, o, x), NEW pc \in Long
  PROVE  LET u == [t EXCEPT !.pc = pc]
         IN  /\ u \in Machines /\ Ok(u) /\ SameAddresses(s, u) /\ Held(u, o) = x
             /\ u.d = t.d /\ u.mem = t.mem
<1> DEFINE u == [t EXCEPT !.pc = pc]
<1>1. t \in Machines /\ Ok(t) /\ SameAddresses(s, t)
  BY DEF Gives
<1>2. u \in Machines
  BY <1>1, ReplacedAre
<1>3. Ok(u) /\ SameAddresses(s, u) /\ u.d = t.d /\ u.mem = t.mem
  BY <1>1 DEF Machines, Ok, SameAddresses
<1> HIDE DEF u
<1>4. s.d \in [RegNos -> Long] /\ s.mem \in Memories /\ o.reg \in RegNos
  BY FieldsAre DEF Simple, Sound
<1>5. Spot(u, o) = Spot(s, o) /\ Spot(s, o) % MemSize \in 0 .. MemSize - 1
  BY <1>3, SpotFits DEF Addresses
<1>6. CASE o.mode = "Dn"
  <2>1. u.d = [s.d EXCEPT ![o.reg] = x]
    BY <1>3, <1>6 DEF Gives
  <2>2. u.d[o.reg] = x
    BY <1>4, <2>1
  <2> QED BY <1>2, <1>3, <1>6, <2>2 DEF Held, u
<1>7. CASE o.mode # "Dn"
  <2>1. u.mem = [s.mem EXCEPT ![Spot(s, o) % MemSize] = x]
    BY <1>3, <1>7 DEF Gives
  <2>2. u.mem[Spot(s, o) % MemSize] = x
    BY <1>4, <1>5, <2>1 DEF Memories
  <2> QED BY <1>2, <1>3, <1>5, <1>7, <2>2 DEF Held, u
<1> QED BY <1>6, <1>7

LEMMA ChangedTwice ==
  ASSUME NEW w \in Widths, NEW n \in Int, NEW v \in 0 .. Modulus(w) - 1
  PROVE  LET x == Altered("bchg", v, n, w)
         IN  Altered("bchg", x, n, w) = v /\ (IsSet(x, n, w) <=> ~IsSet(v, n, w))
<1> DEFINE x == Altered("bchg", v, n, w)
           m == Two[n % (w * ByteBits)]
<1>1. m \in Int /\ v \in Int
  <2>1. w * ByteBits \in Nat \ {0}
    BY WidthAssumption DEF Widths
  <2>2. n % (w * ByteBits) \in Nat
    BY <2>1, Parts
  <2> QED BY <2>2, TwoIs
<1>2. IsSet(x, n, w) <=> ~IsSet(v, n, w)
  <2>1. IsSet(x, n, w) <=> Put1("bchg", v, n, w)
    BY AlteredIs
  <2> QED BY <2>1 DEF Put1
<1>3. \A z : Altered("bchg", z, n, w) =
               z + (IF ~IsSet(z, n, w) THEN m ELSE 0) - (IF IsSet(z, n, w) THEN m ELSE 0)
  BY DEF Altered, Put1
<1>4. x = v + (IF ~IsSet(v, n, w) THEN m ELSE 0) - (IF IsSet(v, n, w) THEN m ELSE 0)
  BY <1>3
<1>5. Altered("bchg", x, n, w) =
        x + (IF ~IsSet(x, n, w) THEN m ELSE 0) - (IF IsSet(x, n, w) THEN m ELSE 0)
  BY <1>3
<1> HIDE DEF x, m
<1>6. Altered("bchg", x, n, w) = v
  <2>1. CASE IsSet(v, n, w)
    BY <1>1, <1>2, <1>4, <1>5, <2>1
  <2>2. CASE ~IsSet(v, n, w)
    BY <1>1, <1>2, <1>4, <1>5, <2>2
  <2> QED BY <2>1, <2>2
<1> QED BY <1>2, <1>6 DEF x

\* What has raised an exception stays as it is.
LEMMA BitStays ==
  ASSUME NEW s, NEW op, NEW o, NEW n, ~Ok(s)
  PROVE  ~Ok(Bit(s, op, o, n))
<1> DEFINE w == IF o.mode = "Dn" THEN 4 ELSE 1
<1>1. DstSet(s, o, w) = s /\ DstRead(s, w) = s
  BY DEF DstSet, DstRead
<1>2. \A cc : WithFlags(s, cc) = s
  BY DEF WithFlags
<1>3. \A v : DstWrite(s, w, v) = s
  BY DEF DstWrite
<1>4. Bit(s, op, o, n) = BitOf(s, op, n, w, DstRead(DstSet(s, o, w), w),
                               DstValue(DstRead(DstSet(s, o, w), w), w))
  BY DEF Bit, BitOf
<1> HIDE DEF w
<1>5. \A v : BitOf(s, op, n, w, s, v) = s
  BY <1>2, <1>3 DEF BitOf
<1> QED BY <1>1, <1>4, <1>5

\* A bit changed twice is what it was, and BTST sees it set and cleared.
LEMMA BitPairs ==
  ASSUME NEW s \in Machines, Ok(s), NEW o, Simple(o), NEW n \in Int
  PROVE  LET back(t) == [t EXCEPT !.pc = s.pc]
             once == Bit(s, "bchg", o, n)
             twice == Bit(back(once), "bchg", o, n)
             seen(op) == "Z" \notin Bit(back(Bit(s, op, o, n)), "btst", o, n).cc
         IN  /\ twice.d = s.d /\ twice.mem = s.mem
             /\ "Z" \in once.cc <=> "Z" \notin twice.cc
             /\ seen("bset") /\ ~seen("bclr")
<1> DEFINE w == Breadth(o)
           v == Held(s, o)
           x(op) == Altered(op, v, n, w)
           u(op) == [Bit(s, op, o, n) EXCEPT !.pc = s.pc]
<1>1. w \in Widths /\ v \in 0 .. Modulus(w) - 1 /\ s.pc \in Long
  BY HeldFits, FieldsAre DEF Breadth, Widths
<1>2. ASSUME NEW op \in {"bchg", "bclr", "bset"}
      PROVE  /\ Gives(s, Bit(s, op, o, n), o, x(op)) /\ Said(s, Bit(s, op, o, n), o, n)
             /\ u(op) \in Machines /\ Ok(u(op)) /\ SameAddresses(s, u(op))
             /\ Held(u(op), o) = x(op)
             /\ u(op).d = Bit(s, op, o, n).d /\ u(op).mem = Bit(s, op, o, n).mem
             /\ Said(u(op), Bit(u(op), "btst", o, n), o, n)
             /\ IsSet(x(op), n, w) <=> Put1(op, v, n, w)
  <2> DEFINE t == Bit(s, op, o, n)
             y == x(op)
  <2>1. Gives(s, t, o, y) /\ Said(s, t, o, n)
    BY BitIs
  <2>2. IsSet(y, n, w) <=> Put1(op, v, n, w)
    BY <1>1, AlteredIs
  <2> HIDE DEF t, y
  <2> DEFINE q == [t EXCEPT !.pc = s.pc]
  <2>3. /\ q \in Machines /\ Ok(q) /\ SameAddresses(s, q) /\ Held(q, o) = y
        /\ q.d = t.d /\ q.mem = t.mem
    BY <1>1, <2>1, HeldAfter
  <2> HIDE DEF q
  <2>4. Said(q, Bit(q, "btst", o, n), o, n)
    BY <2>3, BitIs
  <2> QED BY <2>1, <2>2, <2>3, <2>4 DEF t, y, q
<1>3. ASSUME NEW op \in {"bclr", "bset"}
      PROVE  "Z" \notin Bit(u(op), "btst", o, n).cc <=> op = "bset"
  <2>1. Said(u(op), Bit(u(op), "btst", o, n), o, n) /\ Held(u(op), o) = x(op)
        /\ (IsSet(x(op), n, w) <=> Put1(op, v, n, w))
    BY <1>2
  <2>2. Put1(op, v, n, w) <=> op = "bset"
    BY DEF Put1
  <2> HIDE DEF u, x
  <2> QED BY <2>1, <2>2 DEF Said
<1> DEFINE once == Bit(s, "bchg", o, n)
           p == u("bchg")
           twice == Bit(p, "bchg", o, n)
           y == x("bchg")
<1>4. /\ Gives(s, once, o, y) /\ Said(s, once, o, n)
      /\ p \in Machines /\ Ok(p) /\ SameAddresses(s, p) /\ Held(p, o) = y
      /\ p.d = once.d /\ p.mem = once.mem
  BY <1>2
<1>5. Altered("bchg", y, n, w) = v /\ (IsSet(y, n, w) <=> ~IsSet(v, n, w))
  BY <1>1, ChangedTwice
<1> HIDE DEF p
<1>6. Gives(p, twice, o, v) /\ Said(p, twice, o, n)
  <2>1. Gives(p, twice, o, Altered("bchg", Held(p, o), n, w)) /\ Said(p, twice, o, n)
    BY <1>4, BitIs
  <2> QED BY <1>4, <1>5, <2>1
<1> HIDE DEF once, twice, y
<1>7. "Z" \in once.cc <=> "Z" \notin twice.cc
  BY <1>4, <1>5, <1>6 DEF Said, w, v
<1>8. twice.d = s.d /\ twice.mem = s.mem
  <2>1. s.d \in [RegNos -> Long] /\ s.mem \in Memories
    BY FieldsAre
  <2>2. CASE o.mode = "Dn"
    <3>1. once.d = [s.d EXCEPT ![o.reg] = y] /\ once.mem = s.mem
      BY <1>4, <2>2 DEF Gives
    <3>2. twice.d = [p.d EXCEPT ![o.reg] = v] /\ twice.mem = p.mem
      BY <1>6, <2>2 DEF Gives
    <3>3. v = s.d[o.reg]
      BY <2>2 DEF Held
    <3> HIDE DEF v
    <3> QED BY <1>4, <2>1, <3>1, <3>2, <3>3
  <2>3. CASE o.mode # "Dn"
    <3>1. once.mem = [s.mem EXCEPT ![Spot(s, o) % MemSize] = y] /\ once.d = s.d
      BY <1>4, <2>3 DEF Gives
    <3>2. twice.mem = [p.mem EXCEPT ![Spot(p, o) % MemSize] = v] /\ twice.d = p.d
      BY <1>6, <2>3 DEF Gives
    <3>3. v = s.mem[Spot(s, o) % MemSize]
      BY <2>3 DEF Held
    <3>4. Spot(p, o) = Spot(s, o)
      BY <1>4, SpotFits
    <3> HIDE DEF v
    <3> DEFINE k == Spot(s, o) % MemSize
    <3> HIDE DEF k
    <3> QED BY <1>4, <2>1, <3>1, <3>2, <3>3, <3>4 DEF Memories, k
  <2> QED BY <2>2, <2>3
<1>9. "Z" \notin Bit(u("bset"), "btst", o, n).cc /\ ~("Z" \notin Bit(u("bclr"), "btst", o, n).cc)
  BY <1>3
<1> QED BY <1>7, <1>8, <1>9 DEF once, twice, p

LEMMA PairsAreInverse ==
  ASSUME cpu \in Machines
  PROVE  InversePairs
<1>1. \A x, y \in AnyReg : x # y => Exg(Exg(cpu, x, y), x, y) = cpu
  BY ExgTwice
<1>2. \A o \in Eas : Sound(o)
  BY EasAreSound
<1>3. ASSUME NEW r \in RegNos, NEW w \in {2, 4}, NEW o \in {e \in Eas : e.mode = "(d16,An)"}
      PROVE  LET out == MovepToMem(cpu, r, o, w)
                 back == MovepToReg([out EXCEPT !.d[r] = WithLow(@, w, 0)], r, o, w)
             IN  back.d = cpu.d
  <2> DEFINE out == MovepToMem(cpu, r, o, w)
             back == MovepToReg([out EXCEPT !.d[r] = WithLow(@, w, 0)], r, o, w)
  <2>1. Sound(o)
    BY <1>2
  <2>2. back.d = cpu.d
    BY <2>1, MovepFinds
  <2> QED BY <2>2
<1>4. ASSUME NEW o \in {e \in Eas : e.mode \in {"Dn", "(An)", "(d16,An)"}}, NEW n \in Values
      PROVE  LET back(s) == [s EXCEPT !.pc = cpu.pc]
                 once == Bit(cpu, "bchg", o, n)
                 twice == Bit(back(once), "bchg", o, n)
                 seen(op) == "Z" \notin Bit(back(Bit(cpu, op, o, n)), "btst", o, n).cc
             IN  Ok(once) =>
                   /\ twice.d = cpu.d /\ twice.mem = cpu.mem
                   /\ "Z" \in once.cc <=> "Z" \notin twice.cc
                   /\ seen("bset") /\ ~seen("bclr")
  <2>1. Simple(o) /\ n \in Int
    BY <1>2, ProgramAssumption, LongIs DEF Simple
  <2>2. CASE Ok(cpu)
    BY <2>1, <2>2, BitPairs
  <2>3. CASE ~Ok(cpu)
    BY <2>3, BitStays
  <2> QED BY <2>2, <2>3
<1> QED BY <1>1, <1>3, <1>4 DEF InversePairs

------------------------------------------------------------------------------
(* Instructions that undo themselves: what was pushed is popped. *)

\* The stack pointer that is not A7.
OtherStack(s, t) ==
  t.sup = s.sup /\ (IF s.sup THEN t.a[SP] = s.a[SP] ELSE t.ssp = s.ssp)

LEMMA OtherStackStays ==
  /\ \A s \in Machines, r \in RegNos, v \in Long : OtherStack(s, SetReg(s, r, v))
  /\ \A s, t, u : OtherStack(s, t) /\ OtherStack(t, u) => OtherStack(s, u)
  /\ \A s, t : SameAddresses(s, t) => OtherStack(s, t)
<1>1. ASSUME NEW s \in Machines, NEW r \in RegNos, NEW v \in Long
      PROVE  OtherStack(s, SetReg(s, r, v))
  <2>1. s.a \in [RegNos -> Long]
    BY FieldsAre
  <2>2. CASE r = SP /\ s.sup
    <3>1. SetReg(s, r, v) = [s EXCEPT !.ssp = v]
      BY <2>2 DEF SetReg
    <3> QED BY <2>2, <3>1 DEF OtherStack, Machines
  <2>3. CASE ~(r = SP /\ s.sup)
    <3> DEFINE f == [s.a EXCEPT ![r] = v]
    <3>1. SetReg(s, r, v) = [s EXCEPT !.a = f]
      BY <2>3 DEF SetReg
    <3>2. r # SP => f[SP] = s.a[SP]
      BY <2>1, LongIs
    <3> HIDE DEF f
    <3> QED BY <2>3, <3>1, <3>2 DEF OtherStack, Machines
  <2> QED BY <2>2, <2>3
<1>2. \A s, t, u : OtherStack(s, t) /\ OtherStack(t, u) => OtherStack(s, u)
  BY DEF OtherStack
<1>3. \A s, t : SameAddresses(s, t) => OtherStack(s, t)
  BY DEF OtherStack, SameAddresses
<1> QED BY <1>1, <1>2, <1>3

LEMMA AllAddresses ==
  ASSUME NEW s \in Machines, NEW t \in Machines, OtherStack(s, t),
         \A q \in RegNos : Reg(t, q) = Reg(s, q)
  PROVE  SameAddresses(s, t)
<1>1. s.a \in [RegNos -> Long] /\ t.a \in [RegNos -> Long] /\ SP \in RegNos
  BY FieldsAre, LongIs
<1>2. \A q \in RegNos : t.a[q] = s.a[q]
  BY DEF Reg, OtherStack
<1>3. t.a = s.a
  BY <1>1, <1>2
<1>4. t.ssp = s.ssp
  BY <1>1 DEF Reg, OtherStack
<1> QED BY <1>3, <1>4 DEF SameAddresses, OtherStack

\* An address register that moved, and what else addresses need.
Shifts(s, t, r, v) ==
  /\ t \in Machines /\ OtherStack(s, t) /\ Reg(t, r) = v
  /\ \A q \in RegNos \ {r} : Reg(t, q) = Reg(s, q)

LEMMA ShiftsAre ==
  ASSUME NEW s \in Machines, NEW r \in RegNos
  PROVE  /\ \A v \in Long : Shifts(s, SetReg(s, r, v), r, v)
         /\ \A t, v, u : Shifts(s, t, r, v) /\ u \in Machines /\ SameAddresses(t, u)
              => Shifts(s, u, r, v)
         /\ \A t, v, u, x : Shifts(s, t, r, v) /\ Shifts(t, u, r, x) => Shifts(s, u, r, x)
         /\ \A t : Shifts(s, t, r, Reg(s, r)) => SameAddresses(s, t)
<1>1. \A v \in Long : Shifts(s, SetReg(s, r, v), r, v)
  BY SetRegIs, OtherStackStays DEF Shifts
<1>2. \A t, u : SameAddresses(t, u) => \A q \in RegNos : Reg(u, q) = Reg(t, q)
  BY DEF SameAddresses, Reg
<1>3. \A t, v, u : Shifts(s, t, r, v) /\ u \in Machines /\ SameAddresses(t, u)
        => Shifts(s, u, r, v)
  BY <1>2, OtherStackStays DEF Shifts
<1>4. \A t, v, u, x : Shifts(s, t, r, v) /\ Shifts(t, u, r, x) => Shifts(s, u, r, x)
  BY OtherStackStays DEF Shifts
<1>5. ASSUME NEW t, Shifts(s, t, r, Reg(s, r))
      PROVE  SameAddresses(s, t)
  <2>1. t \in Machines /\ OtherStack(s, t) /\ \A q \in RegNos : Reg(t, q) = Reg(s, q)
    BY <1>5 DEF Shifts
  <2> QED BY <2>1, AllAddresses
<1> QED BY <1>1, <1>3, <1>4, <1>5

\* Numbers that moved stay even or odd, and addresses that moved on name the same bytes.
LEMMA EvenPlus ==
  ASSUME NEW v \in Int, NEW x \in Int
  PROVE  Plus(v, 2 * x) % 2 = v % 2
<1>1. PICK k \in Nat \ {0} : Modulus(4) = 2 * k
  BY WidthIs DEF Widths
<1> DEFINE a == v + 2 * x
<1>2. a \in Int /\ 2 \in Nat \ {0}
  OBVIOUS
<1>3. a % 2 = v % 2
  BY Remainders
<1>4. Plus(v, 2 * x) = a % (2 * k)
  BY <1>1 DEF Plus
<1> HIDE DEF a
<1>5. (a % (2 * k)) % 2 = a % 2
  BY <1>1, <1>2, Coarser
<1> QED BY <1>3, <1>4, <1>5

LEMMA PlusBack ==
  ASSUME NEW v \in Long, NEW x \in Int
  PROVE  Plus(Plus(v, -x), x) = v
<1>1. v \in Int /\ -x \in Int /\ (-x) + x = 0 /\ v + 0 = v
  BY LongIs
<1> DEFINE y == -x
<1> HIDE DEF y
<1>2. Plus(Plus(v, y), x) = Plus(v, y + x)
  <2>1. v \in Int /\ y \in Int
    BY <1>1 DEF y
  <2> QED BY <2>1, Wrapped
<1>3. Plus(v, y + x) = v % Modulus(4)
  BY <1>1 DEF Plus, y
<1>4. v % Modulus(4) = v
  BY <1>1, WidthIs, Remainders DEF Long, Widths
<1> QED BY <1>2, <1>3, <1>4 DEF y

LEMMA LoadPlus ==
  ASSUME NEW s, NEW v \in Int, NEW x \in Int, NEW j \in Int, NEW w \in Widths
  PROVE  Load(s, Plus(v, x) + j, w) = Load(s, Plus(v, x + j), w)
<1> DEFINE a == Plus(v, x)
           b == Plus(v, x + j)
<1>1. x + j \in Int
  OBVIOUS
<1>2. a \in Int /\ b \in Int
  BY <1>1, PlusFits, LongIs
<1>3. ASSUME NEW i \in 0 .. w - 1
      PROVE  Cell(s, a + j, i) = Cell(s, b, i)
  <2>1. i \in Int /\ j + i \in Int
    BY <1>1
  <2>2. (a + (j + i)) % MemSize = ((v + x) + (j + i)) % MemSize
    BY <2>1, Wrapped
  <2>3. (b + i) % MemSize = ((v + (x + j)) + i) % MemSize
    BY <1>1, <2>1, Wrapped
  <2> HIDE DEF a, b
  <2>4. (a + j) + i = a + (j + i) /\ (v + (x + j)) + i = (v + x) + (j + i)
    BY <1>2, <2>1
  <2> QED BY <2>2, <2>3, <2>4 DEF Cell
<1> HIDE DEF a, b
<1>4. a + j \in Int
  BY <1>2
<1>5. Load(s, a + j, w) = Load(s, b, w)
  <2> DEFINE c == a + j
  <2>1. c \in Int /\ \A i \in 0 .. w - 1 : Cell(s, c, i) = Cell(s, b, i)
    BY <1>3, <1>4
  <2> HIDE DEF c
  <2>2. Load(s, c, w) = Load(s, b, w)
    BY <1>2, <2>1, SameLoads
  <2> QED BY <2>2 DEF c
<1> QED BY <1>5 DEF a, b

\* Where -(An) and (An)+ lead.
Lower(s, r, w) == Plus(Reg(s, r), -Step(r, w))
Higher(s, r, w) == Plus(Reg(s, r), Step(r, w))

LowerPlace(s, t, r, w) ==
  /\ Ok(t) /\ t.d = s.d /\ t.mem = s.mem /\ Shifts(s, t, r, Lower(s, r, w))
  /\ t.dst.l = "mem" /\ t.dst.n = Lower(s, r, w)
HigherPlace(s, t, r, w) ==
  /\ Ok(t) /\ t.d = s.d /\ t.mem = s.mem /\ Shifts(s, t, r, Higher(s, r, w))
  /\ t.src.l = "mem" /\ t.src.n = Reg(s, r)

LEMMA EasFit ==
  ASSUME NEW r \in RegNos, NEW mode \in {"Dn", "(An)+", "-(An)"}
  PROVE  Sound(Ea(mode, r)) /\ Ea(mode, r).mode = mode /\ Ea(mode, r).reg = r
BY LongIs DEF Ea, Sound

LEMMA PlacesOf ==
  ASSUME NEW s \in Machines, Ok(s), NEW r \in RegNos, NEW w \in Widths
  PROVE  /\ LowerPlace(s, DstSet(s, Ea("-(An)", r), w), r, w)
         /\ HigherPlace(s, SrcSet(s, Ea("(An)+", r), w), r, w)
<1>1. Step(r, w) \in Int /\ -Step(r, w) \in Int /\ Reg(s, r) \in Int /\ Reg(s, r) \in Long
  BY StepFits, RegFits
<1>2. Lower(s, r, w) \in Long /\ Higher(s, r, w) \in Long
  BY <1>1, PlusFits DEF Lower, Higher
<1>3. \A v \in Long : v % Modulus(4) = v
  BY WidthIs, LongIs, Remainders DEF Long, Widths
<1>4. LowerPlace(s, DstSet(s, Ea("-(An)", r), w), r, w)
  <2> DEFINE u == SetReg(s, r, Lower(s, r, w))
             loc == At("mem", Reg(u, r))
  <2>1. Locate(s, Ea("-(An)", r), w) = <<u, loc>>
    BY DEF Locate, Ea, Dec, Lower
  <2>2. /\ u \in Machines /\ SameButAddresses(s, u) /\ Shifts(s, u, r, Lower(s, r, w))
        /\ Reg(u, r) = Lower(s, r, w)
    BY <1>2, SetRegIs, ShiftsAre
  <2> HIDE DEF u
  <2>3. loc \in Places /\ loc.l = "mem" /\ loc.n = Lower(s, r, w)
    <3> DEFINE n == Reg(u, r)
    <3>1. n = Lower(s, r, w) /\ n \in Int /\ n % Modulus(4) = n
      BY <1>2, <1>3, <2>2, LongIs
    <3> HIDE DEF n
    <3>2. At("mem", n) \in Places /\ At("mem", n).l = "mem" /\ At("mem", n).n = n
      BY <3>1, AtFits
    <3> QED BY <3>1, <3>2 DEF n
  <2> HIDE DEF loc
  <2>4. Ok(u)
    BY <2>2 DEF SameButAddresses, Ok
  <2> DEFINE t == [u EXCEPT !.dst = loc]
  <2>5. DstSet(s, Ea("-(An)", r), w) = t
    BY <2>1, <2>4 DEF DstSet, AsDst
  <2>6. t \in Machines
    BY <2>2, <2>3, ReplacedAre
  <2>7. /\ Ok(t) /\ t.d = u.d /\ t.mem = u.mem /\ t.dst = loc /\ SameAddresses(u, t)
    BY <2>2, <2>4 DEF Machines, Ok, SameAddresses
  <2> HIDE DEF t
  <2>8. Shifts(s, t, r, Lower(s, r, w))
    BY <2>2, <2>6, <2>7, ShiftsAre
  <2> QED BY <2>2, <2>3, <2>5, <2>7, <2>8 DEF LowerPlace, SameButAddresses
<1>5. HigherPlace(s, SrcSet(s, Ea("(An)+", r), w), r, w)
  <2> DEFINE u == SetReg(s, r, Higher(s, r, w))
             loc == At("mem", Reg(s, r))
  <2>1. Locate(s, Ea("(An)+", r), w) = <<u, loc>>
    BY DEF Locate, Ea, Inc, Higher
  <2>2. u \in Machines /\ SameButAddresses(s, u) /\ Shifts(s, u, r, Higher(s, r, w))
    BY <1>2, SetRegIs, ShiftsAre
  <2> HIDE DEF u
  <2>3. loc \in Places /\ loc.l = "mem" /\ loc.n = Reg(s, r)
    BY <1>1, <1>3, AtFits
  <2> HIDE DEF loc
  <2>4. Ok(u)
    BY <2>2 DEF SameButAddresses, Ok
  <2> DEFINE t == [u EXCEPT !.src = loc]
  <2>5. SrcSet(s, Ea("(An)+", r), w) = t
    BY <2>1, <2>4 DEF SrcSet, AsSrc
  <2>6. t \in Machines
    BY <2>2, <2>3, ReplacedAre
  <2>7. /\ Ok(t) /\ t.d = u.d /\ t.mem = u.mem /\ t.src = loc /\ SameAddresses(u, t)
    BY <2>2, <2>4 DEF Machines, Ok, SameAddresses
  <2> HIDE DEF t
  <2>8. Shifts(s, t, r, Higher(s, r, w))
    BY <2>2, <2>6, <2>7, ShiftsAre
  <2> QED BY <2>2, <2>3, <2>5, <2>7, <2>8 DEF HigherPlace, SameButAddresses
<1> QED BY <1>4, <1>5

\* The data register as the source and as the destination of MOVE.
LEMMA TestedIs ==
  ASSUME NEW s \in Machines, Ok(s), NEW v, NEW w
  PROVE  LET t == Tested(s, v, w)
         IN  /\ t \in Machines /\ Ok(t) /\ t.d = s.d /\ t.mem = s.mem /\ t.src = s.src
             /\ t.dst = s.dst /\ SameAddresses(s, t)
<1> DEFINE cc == (s.cc \cap {"X"}) \cup NZ(v, w)
<1>1. cc \in SUBSET Flags
  BY FieldsAre DEF NZ, Flags
<1>2. Tested(s, v, w) = [s EXCEPT !.cc = cc]
  BY DEF Tested
<1> HIDE DEF cc
<1>3. [s EXCEPT !.cc = cc] \in Machines
  BY <1>1, ReplacedAre
<1> QED BY <1>2, <1>3 DEF Machines, Ok, SameAddresses

LEMMA FromData ==
  ASSUME NEW s \in Machines, Ok(s), NEW r \in RegNos, NEW w \in Widths
  PROVE  LET t == SrcRead(SrcSet(s, Ea("Dn", r), w), w)
         IN  /\ t \in Machines /\ Ok(t) /\ t.d = s.d /\ t.mem = s.mem /\ SameAddresses(s, t)
             /\ SrcValue(t, w) = Low(s.d[r], w)
<1> DEFINE loc == At("dr", r)
           t == [s EXCEPT !.src = loc]
<1>1. loc \in Places /\ loc.l = "dr" /\ loc.n = r
  BY AtFits
<1>2. SrcSet(s, Ea("Dn", r), w) = [s EXCEPT !.src = loc]
  BY DEF SrcSet, AsSrc, Locate, Ea
<1> HIDE DEF loc
<1>3. t \in Machines
  BY <1>1, ReplacedAre
<1>4. Ok(t) /\ t.d = s.d /\ t.mem = s.mem /\ SameAddresses(s, t) /\ t.src = loc
  BY DEF Machines, Ok, SameAddresses
<1> HIDE DEF t
<1>5. SrcRead(t, w) = t
  BY <1>1, <1>4 DEF SrcRead, Refused
<1>6. SrcValue(t, w) = Low(s.d[r], w)
  BY <1>1, <1>4 DEF SrcValue, Value
<1> QED BY <1>2, <1>3, <1>4, <1>5, <1>6 DEF t

LEMMA ToData ==
  ASSUME NEW s \in Machines, Ok(s), NEW r \in RegNos, NEW w \in Widths, NEW v \in Int
  PROVE  LET t == DstWrite(DstSet(s, Ea("Dn", r), w), w, v)
         IN  /\ t \in Machines /\ Ok(t) /\ t.mem = s.mem /\ SameAddresses(s, t)
             /\ t.d = [s.d EXCEPT ![r] = WithLow(s.d[r], w, Low(v, w))]
<1> DEFINE loc == At("dr", r)
           u == [s EXCEPT !.dst = loc]
           x == WithLow(s.d[r], w, Low(v, w))
           f == [s.d EXCEPT ![r] = x]
           t == DstWrite(u, w, v)
<1>1. loc \in Places /\ loc.l = "dr" /\ loc.n = r
  BY AtFits
<1>2. DstSet(s, Ea("Dn", r), w) = u
  BY DEF DstSet, AsDst, Locate, Ea
<1> HIDE DEF loc
<1>3. u \in Machines
  BY <1>1, ReplacedAre
<1>4. Ok(u) /\ u.d = s.d /\ u.mem = s.mem /\ SameAddresses(s, u) /\ u.dst = loc
  BY DEF Machines, Ok, SameAddresses
<1> HIDE DEF u
<1>5. s.d \in [RegNos -> Long] /\ x \in Long
  <2>1. s.d \in [RegNos -> Long] /\ s.d[r] \in Long
    BY FieldsAre
  <2>2. Low(v, w) \in 0 .. Modulus(w) - 1
    BY LowFits
  <2> QED BY <2>1, <2>2, WithLowFits
<1>6. t = [u EXCEPT !.d[r] = x]
  <2>1. Refused(u, u.dst, w, {"dr", "mem"} \cup (IF w = 1 THEN {} ELSE {"ar"}), FALSE) = u
    BY <1>1, <1>4 DEF Refused
  <2>2. t = [u EXCEPT !.d[r] = WithLow(u.d[r], w, Low(v, w))]
    BY <1>1, <1>4, <2>1 DEF DstWrite
  <2> QED BY <1>4, <2>2
<1> HIDE DEF x, t
<1>7. t = [u EXCEPT !.d = f]
  BY <1>4, <1>6
<1>8. f \in [RegNos -> Long]
  BY <1>5
<1> HIDE DEF f
<1>9. t \in Machines
  BY <1>3, <1>7, <1>8, ReplacedAre
<1>10. Ok(t) /\ t.mem = s.mem /\ SameAddresses(s, t) /\ t.d = f
  BY <1>3, <1>4, <1>7 DEF Machines, Ok, SameAddresses
<1> QED BY <1>2, <1>9, <1>10 DEF t, f, x

\* MOVE to the stack and back.
Pushed(s, t, r, w) ==
  /\ Ok(t) /\ t.d = s.d /\ Shifts(s, t, r, Lower(s, r, w))
  /\ Load(t, Lower(s, r, w), w) = Low(s.d[r], w)
  /\ w > 1 => Lower(s, r, w) % 2 # 1

LEMMA MoveOk ==
  ASSUME NEW s \in Machines, NEW r \in RegNos, NEW w \in Widths,
         Ok(Move(s, Ea("Dn", r), Ea("-(An)", r), w))
  PROVE  Ok(s)
<1> DEFINE a == Ea("Dn", r)
           b == Ea("-(An)", r)
           q == SrcRead(SrcSet(s, a, w), w)
           v == SrcValue(q, w)
           u == Tested(q, v, w)
           t == DstSet(u, b, w)
<1>1. Move(s, a, b, w) = DstWrite(t, w, v)
  BY DEF Move, Ea
<1>2. Sound(a) /\ Sound(b)
  BY EasFit
<1>3. q \in Machines /\ v \in Int
  <2>1. q = SourceRead(s, a, w)
    BY DEF SourceRead
  <2> HIDE DEF q
  <2>2. q \in Machines /\ v \in 0 .. Modulus(w) - 1
    BY <1>2, <2>1, SourceReadFits
  <2> QED BY <2>2, SmallIs DEF q
<1>4. SrcSet(s, a, w) \in Machines /\ (Ok(SrcSet(s, a, w)) => Ok(s))
  BY <1>2, SrcSetFits DEF Quiet
<1>5. Ok(q) => Ok(s)
  <2> DEFINE p == SrcSet(s, a, w)
  <2> HIDE DEF p
  <2>1. Ok(SrcRead(p, w)) => SrcRead(p, w) = p
    BY <1>4, ReadsAre DEF p
  <2> QED BY <1>4, <2>1 DEF p
<1> HIDE DEF a, b, q, v
<1>6. u \in Machines /\ (Ok(u) => Ok(q))
  BY <1>3, TestedFits DEF Flagged, Quiet, Ok
<1> HIDE DEF u
<1>7. t \in Machines /\ (Ok(t) => Ok(u))
  BY <1>2, <1>6, DstSetFits DEF Quiet
<1> HIDE DEF t
<1>8. Ok(DstWrite(t, w, v)) => Ok(t)
  BY <1>3, <1>7, DstWriteFits
<1>9. Ok(Move(s, a, b, w))
  BY DEF a, b
<1> QED BY <1>1, <1>5, <1>6, <1>7, <1>8, <1>9

LEMMA MovePushes ==
  ASSUME NEW s \in Machines, Ok(s), NEW r \in RegNos, NEW w \in Widths
  PROVE  LET t == Move(s, Ea("Dn", r), Ea("-(An)", r), w)
         IN  Ok(t) => Pushed(s, t, r, w)
<1> DEFINE q == SrcRead(SrcSet(s, Ea("Dn", r), w), w)
           v == SrcValue(q, w)
           u == Tested(q, v, w)
           p == DstSet(u, Ea("-(An)", r), w)
           t == DstWrite(p, w, v)
           n == Lower(s, r, w)
<1>1. Move(s, Ea("Dn", r), Ea("-(An)", r), w) = t
  BY DEF Move, Ea
<1>2. q \in Machines /\ Ok(q) /\ q.d = s.d /\ q.mem = s.mem /\ SameAddresses(s, q)
      /\ v = Low(s.d[r], w)
  BY FromData
<1>3. v \in Int /\ s.d[r] \in Int
  <2>1. s.d[r] \in Int
    BY FieldsAre, LongIs
  <2> QED BY <1>2, <2>1, LowFits
<1> HIDE DEF q, v
<1>4. u \in Machines /\ Ok(u) /\ u.d = s.d /\ u.mem = s.mem /\ SameAddresses(s, u)
  BY <1>2, TestedIs DEF SameAddresses
<1>5. Lower(u, r, w) = n /\ n \in Int
  <2>1. Reg(u, r) = Reg(s, r)
    BY <1>4 DEF SameAddresses, Reg
  <2>2. Reg(s, r) \in Int /\ -Step(r, w) \in Int
    BY StepFits, RegFits
  <2>3. n \in Long
    BY <2>2, PlusFits DEF Lower
  <2> QED BY <2>1, <2>3, LongIs DEF Lower
<1> HIDE DEF u
<1>6. LowerPlace(u, p, r, w)
  BY <1>4, PlacesOf
<1> HIDE DEF p
<1>7. /\ p \in Machines /\ Ok(p) /\ p.d = s.d /\ p.mem = s.mem /\ p.dst.l = "mem" /\ p.dst.n = n
      /\ Shifts(s, p, r, n)
  <2>1. \A x \in RegNos : Reg(u, x) = Reg(s, x)
    BY <1>4 DEF SameAddresses, Reg
  <2>2. OtherStack(s, u)
    BY <1>4, OtherStackStays
  <2>3. Shifts(s, p, r, n)
    BY <1>5, <1>6, <2>1, <2>2, OtherStackStays DEF LowerPlace, Shifts
  <2> QED BY <1>4, <1>5, <1>6, <2>3 DEF LowerPlace, Shifts
<1> HIDE DEF n
<1>8. SUFFICES ASSUME Ok(t) PROVE Pushed(s, t, r, w)
  BY <1>1
<1>9. t = Store(p, n, w, v) /\ (w > 1 => n % 2 # 1)
  <2> DEFINE k == {"dr", "mem"} \cup (IF w = 1 THEN {} ELSE {"ar"})
             f == Refused(p, p.dst, w, k, FALSE)
  <2>1. t = IF Ok(f) THEN Store(f, n, w, v) ELSE f
    BY <1>7 DEF DstWrite
  <2>2. p.dst \in Places
    BY <1>7, FieldsAre
  <2>3. ~Ok(f) \/ (f = p /\ (w > 1 => n % 2 # 1))
    <3> HIDE DEF k
    <3> QED BY <1>7, <2>2, RefusedIs
  <2> HIDE DEF f
  <2> QED BY <1>8, <2>1, <2>3
<1> HIDE DEF t
<1>10. t \in Machines /\ SameButMemory(p, t) /\ Load(t, n, w) = Low(v, w)
  BY <1>3, <1>5, <1>7, <1>9, StoreIs, LoadsStored
<1>11. Low(v, w) = v
  <2>1. v \in 0 .. Modulus(w) - 1 /\ Modulus(w) \in Nat \ {0}
    BY <1>2, <1>3, LowFits, WidthIs
  <2> QED BY <1>3, <2>1, Remainders DEF Low
<1>12. SameAddresses(p, t)
  BY <1>10 DEF SameButMemory, SameAddresses
<1>13. Shifts(s, t, r, n)
  BY <1>7, <1>10, <1>12, ShiftsAre
<1> QED BY <1>2, <1>7, <1>8, <1>9, <1>10, <1>11, <1>13 DEF Pushed, SameButMemory, n

LEMMA MovePops ==
  ASSUME NEW s \in Machines, Ok(s), NEW r \in RegNos, NEW w \in Widths,
         w > 1 => Reg(s, r) % 2 # 1
  PROVE  LET t == Move(s, Ea("(An)+", r), Ea("Dn", r), w)
             v == Load(s, Reg(s, r), w)
         IN  /\ Ok(t) /\ Shifts(s, t, r, Higher(s, r, w))
             /\ t.d = [s.d EXCEPT ![r] = WithLow(s.d[r], w, Low(v, w))]
<1> DEFINE p == SrcSet(s, Ea("(An)+", r), w)
           v == SrcValue(p, w)
           u == Tested(p, v, w)
           t == DstWrite(DstSet(u, Ea("Dn", r), w), w, v)
<1>1. HigherPlace(s, p, r, w)
  BY PlacesOf
<1>2. SrcRead(p, w) = p
  BY <1>1 DEF HigherPlace, SrcRead, Refused
<1>3. Move(s, Ea("(An)+", r), Ea("Dn", r), w) = t
  BY <1>2 DEF Move, Ea
<1>4. v = Load(s, Reg(s, r), w) /\ v \in Int
  <2>1. v = Load(p, Reg(s, r), w)
    BY <1>1 DEF HigherPlace, SrcValue, Value
  <2>2. Reg(s, r) \in Int
    BY RegFits
  <2>3. \A i : Cell(p, Reg(s, r), i) = Cell(s, Reg(s, r), i)
    BY <1>1 DEF HigherPlace, Cell
  <2>4. Load(p, Reg(s, r), w) = Load(s, Reg(s, r), w)
    BY <2>2, <2>3, SameLoads
  <2>5. Load(s, Reg(s, r), w) \in Int
    BY <2>2, LoadFits, SmallIs
  <2> QED BY <2>1, <2>4, <2>5
<1>5. p \in Machines /\ Ok(p) /\ p.d = s.d /\ Shifts(s, p, r, Higher(s, r, w))
  BY <1>1 DEF HigherPlace, Shifts
<1> HIDE DEF p, v
<1>6. u \in Machines /\ Ok(u) /\ u.d = p.d /\ SameAddresses(p, u)
  BY <1>5, TestedIs
<1> HIDE DEF u
<1>7. t \in Machines /\ Ok(t) /\ SameAddresses(u, t)
      /\ t.d = [u.d EXCEPT ![r] = WithLow(u.d[r], w, Low(v, w))]
  BY <1>4, <1>6, ToData
<1> HIDE DEF t
<1>8. SameAddresses(p, t)
  BY <1>6, <1>7 DEF SameAddresses
<1>9. Shifts(s, t, r, Higher(s, r, w))
  BY <1>5, <1>7, <1>8, ShiftsAre
<1> QED BY <1>3, <1>4, <1>5, <1>6, <1>7, <1>9

LEMMA MoveComesBack ==
  ASSUME NEW s \in Machines, NEW r \in RegNos, NEW w \in Widths
  PROVE  LET pushed == Move(s, Ea("Dn", r), Ea("-(An)", r), w)
             popped == Move(pushed, Ea("(An)+", r), Ea("Dn", r), w)
         IN  Ok(pushed) => /\ Ok(popped) /\ (Reg(pushed, SP) - Reg(s, SP)) % 2 = 0
                           /\ popped.d = s.d /\ popped.a = s.a /\ popped.ssp = s.ssp
<1> DEFINE p == Move(s, Ea("Dn", r), Ea("-(An)", r), w)
           t == Move(p, Ea("(An)+", r), Ea("Dn", r), w)
           k == Step(r, w)
           R == Reg(s, r)
<1>1. SUFFICES ASSUME Ok(p)
               PROVE  /\ Ok(t) /\ (Reg(p, SP) - Reg(s, SP)) % 2 = 0
                      /\ t.d = s.d /\ t.a = s.a /\ t.ssp = s.ssp
  OBVIOUS
<1>2. Ok(s)
  BY <1>1, MoveOk
<1>3. Pushed(s, p, r, w)
  BY <1>1, <1>2, MovePushes
<1> HIDE DEF p
<1>4. p \in Machines /\ p.d = s.d /\ Shifts(s, p, r, Plus(R, -k)) /\ Reg(p, r) = Plus(R, -k)
      /\ Load(p, Reg(p, r), w) = Low(s.d[r], w) /\ (w > 1 => Reg(p, r) % 2 # 1)
  BY <1>3 DEF Pushed, Shifts, Lower
<1>5. /\ Ok(t) /\ Shifts(p, t, r, Plus(Reg(p, r), k))
      /\ t.d = [s.d EXCEPT ![r] = WithLow(s.d[r], w, Low(Low(s.d[r], w), w))]
  BY <1>1, <1>4, MovePops DEF Higher
<1> HIDE DEF t
<1>6. k \in Int /\ -k \in Int /\ R \in Long /\ R \in Int
  BY StepFits, RegFits
<1>7. Plus(Plus(R, -k), k) = R
  <2> HIDE DEF R, k
  <2> QED BY <1>6, PlusBack
<1>8. SameAddresses(s, t)
  BY <1>4, <1>5, <1>7, ShiftsAre
<1>9. t.d = s.d
  <2>1. s.d \in [RegNos -> Long] /\ s.d[r] \in Int
    BY FieldsAre, LongIs
  <2>2. Low(s.d[r], w) \in 0 .. Modulus(w) - 1 /\ Low(s.d[r], w) \in Int
        /\ Modulus(w) \in Nat \ {0}
    BY <2>1, LowFits, WidthIs
  <2> DEFINE x == Low(s.d[r], w)
             y == s.d[r]
  <2>3. Low(x, w) = x
    <3> HIDE DEF x
    <3>1. x \in Int /\ x \in 0 .. Modulus(w) - 1
      BY <2>2 DEF x
    <3> QED BY <2>2, <3>1, Remainders DEF Low
  <2>4. WithLow(y, w, x) = y
    <3>1. WithLow(y, w, x) = y - x + x
      BY DEF WithLow
    <3> HIDE DEF x, y
    <3> QED BY <2>1, <2>2, <3>1 DEF x, y
  <2> HIDE DEF x, y
  <2> QED BY <1>5, <2>1, <2>3, <2>4 DEF x, y
<1>10. (Reg(p, SP) - Reg(s, SP)) % 2 = 0
  <2>1. Reg(p, SP) \in Int /\ Reg(s, SP) \in Int
    BY <1>4, RegFits, LongIs
  <2>2. CASE r = SP
    <3>1. PICK j \in Int : -k = 2 * j
      <4>1. k = 2 \/ k = 4
        BY <2>2 DEF Step, Widths
      <4>2. -k = 2 * (-1) \/ -k = 2 * (-2)
        BY <4>1
      <4> QED BY <4>2
    <3>2. Reg(p, SP) = Plus(R, 2 * j)
      BY <1>4, <2>2, <3>1
    <3>3. Reg(p, SP) % 2 = R % 2
      BY <1>6, <3>2, EvenPlus
    <3>4. R = Reg(s, SP)
      BY <2>2
    <3> HIDE DEF R
    <3> DEFINE x == Reg(p, SP)
               y == Reg(s, SP)
    <3>5. x \in Int /\ y \in Int /\ x % 2 = y % 2
      BY <2>1, <3>3, <3>4
    <3> HIDE DEF x, y
    <3>6. (x - y) % 2 = 0
      BY <3>5
    <3> QED BY <3>6 DEF x, y
  <2>3. CASE r # SP
    <3>1. Reg(p, SP) = Reg(s, SP)
      BY <1>4, <2>3, LongIs DEF Shifts
    <3> QED BY <2>1, <3>1
  <2> QED BY <2>2, <2>3
<1> QED BY <1>5, <1>8, <1>9, <1>10 DEF SameAddresses

\* How many registers of a list are not below a number.
Rank(list, n) == Cardinality({m \in list : m >= n})

LEMMA RankIs ==
  ASSUME NEW list \in SUBSET Numbers
  PROVE  /\ \A n \in Int : Rank(list, n) \in Nat /\ Rank(list, n) <= Cardinality(list)
         /\ Rank(list, 2 * Regs) = 0 /\ Rank(list, 0) = Cardinality(list)
         /\ \A n \in Int : n \in list => Rank(list, n) = Rank(list, n + 1) + 1
         /\ \A n \in Int : n \notin list => Rank(list, n) = Rank(list, n + 1)
         /\ \A n, m \in Int : n <= m => Rank(list, m) <= Rank(list, n)
<1> DEFINE S(n) == {m \in list : m >= n}
<1>1. IsFiniteSet(list) /\ \A m \in list : m \in Int /\ 0 <= m /\ m < 2 * Regs
  <2>1. 2 * Regs \in Int
    BY RegsAssumption
  <2> QED BY <2>1, CountFits DEF Numbers
<1>2. \A n \in Int : /\ IsFiniteSet(S(n)) /\ Cardinality(S(n)) \in Nat
                     /\ Cardinality(S(n)) <= Cardinality(list)
  <2> TAKE n \in Int
  <2>1. S(n) \in SUBSET list
    OBVIOUS
  <2> HIDE DEF S
  <2>2. IsFiniteSet(S(n)) /\ Cardinality(S(n)) <= Cardinality(list)
    BY <1>1, <2>1, FS_Subset
  <2> QED BY <2>2, FS_CardinalityType
<1>3. S(2 * Regs) = {} /\ S(0) = list
  <2>1. 2 * Regs \in Int
    BY RegsAssumption
  <2> DEFINE top == 2 * Regs
  <2> HIDE DEF top
  <2>2. \A m \in list : m \in Int /\ 0 <= m /\ m < top
    BY <1>1 DEF top
  <2>3. top \in Int
    BY <2>1 DEF top
  <2>4. S(top) = {}
    BY <2>2, <2>3
  <2>5. S(0) = list
    BY <1>1
  <2> QED BY <2>4, <2>5 DEF top
<1>4. ASSUME NEW n \in Int, n \in list
      PROVE  S(n) = S(n + 1) \cup {n} /\ n \notin S(n + 1)
  <2>1. \A m \in list : m >= n <=> (m >= n + 1 \/ m = n)
    BY <1>1
  <2>2. n \notin S(n + 1) /\ n >= n
    OBVIOUS
  <2>3. \A m : m \in S(n) <=> (m \in S(n + 1) \/ m = n)
    BY <1>4, <2>1, <2>2
  <2> HIDE DEF S
  <2> QED BY <2>2, <2>3
<1>5. ASSUME NEW n \in Int, n \notin list
      PROVE  S(n) = S(n + 1)
  BY <1>1, <1>5
<1>6. ASSUME NEW n \in Int, NEW m \in Int, n <= m
      PROVE  S(m) \in SUBSET S(n)
  BY <1>1, <1>6
<1>7. \A n : Rank(list, n) = Cardinality(S(n))
  BY DEF Rank
<1>8. \A n \in Int : n + 1 \in Int
  OBVIOUS
<1> HIDE DEF S
<1>9. Cardinality(S(2 * Regs)) = 0
  BY <1>3, FS_EmptySet
<1>10. ASSUME NEW n \in Int, n \in list
       PROVE  Cardinality(S(n)) = Cardinality(S(n + 1)) + 1
  <2> DEFINE T == S(n + 1)
  <2>1. IsFiniteSet(T) /\ n \notin T /\ S(n) = T \cup {n}
    BY <1>2, <1>4, <1>8, <1>10
  <2> HIDE DEF T
  <2>2. Cardinality(T \cup {n}) = Cardinality(T) + 1
    BY <2>1, FS_AddElement
  <2> QED BY <2>1, <2>2 DEF T
<1>11. ASSUME NEW n \in Int, NEW m \in Int, n <= m
       PROVE  Cardinality(S(m)) <= Cardinality(S(n))
  BY <1>2, <1>6, <1>11, FS_Subset
<1> QED BY <1>2, <1>3, <1>5, <1>7, <1>9, <1>10, <1>11

\* The register that SetMovemReg sets, and the others.
LEMMA SetMovemRegIs ==
  ASSUME NEW s \in Machines, NEW n \in Numbers, NEW v \in Long
  PROVE  /\ MovemReg(SetMovemReg(s, n, v), n) = v
         /\ \A m \in Numbers \ {n} : MovemReg(SetMovemReg(s, n, v), m) = MovemReg(s, m)
<1>1. \A m \in Numbers : /\ m \in Int /\ Regs \in Int
                         /\ (m < Regs => m \in RegNos) /\ (~(m < Regs) => m - Regs \in RegNos)
  BY NumbersAre, RegsAssumption
<1>2. CASE n < Regs
  <2> DEFINE t == [s EXCEPT !.d[n] = v]
             f == [s.d EXCEPT ![n] = v]
  <2>1. SetMovemReg(s, n, v) = t
    BY <1>2 DEF SetMovemReg
  <2>2. s.d \in [RegNos -> Long]
    BY FieldsAre
  <2>3. t.d = f /\ SameAddresses(s, t)
    BY DEF Machines, SameAddresses
  <2>4. f[n] = v /\ \A m \in RegNos \ {n} : f[m] = s.d[m]
    BY <1>1, <1>2, <2>2
  <2> HIDE DEF t, f
  <2>5. \A r : Reg(t, r) = Reg(s, r)
    BY <2>3 DEF SameAddresses, Reg
  <2>6. MovemReg(t, n) = v
    BY <1>2, <2>3, <2>4 DEF MovemReg
  <2>7. ASSUME NEW m \in Numbers \ {n}
        PROVE  MovemReg(t, m) = MovemReg(s, m)
    BY <1>1, <2>3, <2>4, <2>5 DEF MovemReg
  <2> QED BY <2>1, <2>6, <2>7
<1>3. CASE ~(n < Regs)
  <2> DEFINE r == n - Regs
             t == SetReg(s, r, v)
  <2>1. SetMovemReg(s, n, v) = t
    BY <1>3 DEF SetMovemReg
  <2>2. r \in RegNos
    BY <1>1, <1>3
  <2>3. \A m \in Numbers \ {n} : ~(m < Regs) => m - Regs \in RegNos \ {r}
    BY <1>1
  <2> HIDE DEF r
  <2>4. t.d = s.d /\ Reg(t, r) = v /\ \A q \in RegNos \ {r} : Reg(t, q) = Reg(s, q)
    BY <2>2, SetRegIs DEF SameButAddresses
  <2> HIDE DEF t
  <2>5. MovemReg(t, n) = v
    BY <1>3, <2>4 DEF MovemReg, r
  <2>6. ASSUME NEW m \in Numbers \ {n}
        PROVE  MovemReg(t, m) = MovemReg(s, m)
    BY <2>3, <2>4 DEF MovemReg
  <2> QED BY <2>1, <2>5, <2>6
<1> QED BY <1>2, <1>3

\* Where a register of the list is on the stack, from the address that the register of
\* the address had.
Slot(R, w, list, n) == Plus(R, -(w * Rank(list, n)))

\* The machine of MOVEM with the registers of the list that are not below n on the stack,
\* and the place of the next.
OnStack(s, t, R, w, list, n) ==
  /\ t \in Machines /\ t.d = s.d /\ SameAddresses(s, t)
  /\ t.dst.l = "mem" /\ t.dst.n = Plus(R, -(w * (Rank(list, n) + 1)))
  /\ \A m \in list : m >= n => /\ R % 2 # 1
                               /\ Load(t, Slot(R, w, list, m), w) = Low(MovemReg(s, m), w)

LEMMA SlotsFit ==
  ASSUME NEW R \in Long, NEW list \in SUBSET Numbers, NEW w \in {2, 4}, NEW n \in Int
  PROVE  /\ R \in Int /\ Slot(R, w, list, n) \in Long /\ Slot(R, w, list, n) % 2 = R % 2
         /\ Slot(R, w, list, n) \in Int
         /\ Plus(Slot(R, w, list, n), -w) = Plus(R, -(w * (Rank(list, n) + 1)))
         /\ n \in list => /\ Plus(R, -(w * (Rank(list, n + 1) + 1))) = Slot(R, w, list, n)
                          /\ Plus(Slot(R, w, list, n), w) = Slot(R, w, list, n + 1)
         /\ n \notin list => /\ Slot(R, w, list, n + 1) = Slot(R, w, list, n)
                             /\ Rank(list, n + 1) = Rank(list, n)
<1> DEFINE k == Rank(list, n)
           j == Rank(list, n + 1)
           x == -(w * k)
<1>1. k \in Nat /\ j \in Nat /\ (n \in list => k = j + 1) /\ (n \notin list => j = k)
  BY RankIs
<1>2. R \in Int
  BY LongIs
<1>3. x \in Int /\ -w \in Int /\ w \in Int /\ x = 2 * (x \div 2) /\ x \div 2 \in Int
  <2> HIDE DEF k, j
  <2>1. CASE w = 2
    <3>1. x = 2 * (-k)
      BY <1>1, <2>1
    <3> QED BY <1>1, <2>1, <3>1
  <2>2. CASE w = 4
    <3>1. x = 2 * (-(2 * k))
      BY <1>1, <2>2
    <3> QED BY <1>1, <2>2, <3>1
  <2> QED BY <2>1, <2>2
<1>4. Slot(R, w, list, n) = Plus(R, x)
  BY DEF Slot
<1>5. x + (-w) = -(w * (k + 1)) /\ (n \in list => -(w * (j + 1)) = x /\ x + w = -(w * j))
  <2> HIDE DEF k, j
  <2> QED BY <1>1
<1> DEFINE y == -(w * (k + 1))
           z == -(w * (j + 1))
           u == -(w * j)
<1>6. Slot(R, w, list, n + 1) = Plus(R, u)
  BY DEF Slot
<1>7. /\ Plus(R, x) \in Long /\ Plus(Plus(R, x), -w) = Plus(R, x + (-w))
      /\ Plus(Plus(R, x), w) = Plus(R, x + w)
  <2> DEFINE v == -w
  <2>1. v \in Int
    BY <1>3
  <2> HIDE DEF x, v
  <2>2. \A b \in Int : Plus(Plus(R, x), b) = Plus(R, x + b)
    BY <1>2, <1>3, Wrapped
  <2> QED BY <1>2, <1>3, <2>1, <2>2, PlusFits DEF v
<1>8. Plus(R, x) % 2 = R % 2
  <2> DEFINE h == x \div 2
  <2>1. h \in Int /\ x = 2 * h
    BY <1>3
  <2> HIDE DEF h, x
  <2> QED BY <1>2, <2>1, EvenPlus
<1>9. Plus(Plus(R, x), -w) = Plus(R, y)
  BY <1>5, <1>7
<1>10. n \in list => Plus(R, z) = Plus(R, x) /\ Plus(Plus(R, x), w) = Plus(R, u)
  BY <1>5, <1>7
<1>11. n \notin list => u = x
  <2> HIDE DEF k, j
  <2> QED BY <1>1
<1>12. Plus(R, x) \in Int
  BY <1>7, LongIs
<1> QED BY <1>1, <1>2, <1>4, <1>6, <1>7, <1>8, <1>9, <1>10, <1>11, <1>12

\* The bytes of a register on the stack stay when the next one goes there.
LEMMA SlotsApart ==
  ASSUME NEW s \in Machines, NEW R \in Long, NEW list \in SUBSET Numbers, NEW w \in {2, 4},
         w * Cardinality(list) <= MemSize, NEW n \in list, NEW m \in list, n < m, NEW v \in Int
  PROVE  Load(Store(s, Slot(R, w, list, n), w, v), Slot(R, w, list, m), w)
           = Load(s, Slot(R, w, list, m), w)
<1> DEFINE a == Rank(list, n)
           b == Rank(list, m)
           c == Cardinality(list)
           x == -(w * a)
           j == w * (a - b)
           t == Store(s, Slot(R, w, list, n), w, v)
<1>1. n \in Int /\ m \in Int /\ n + 1 \in Int /\ m + 1 \in Int /\ n + 1 <= m /\ w \in Widths
      /\ R \in Int
  BY LongIs DEF Numbers, Widths
<1>2. a \in Nat /\ b \in Nat /\ c \in Nat /\ a <= c /\ b + 1 <= a /\ 1 <= b
  <2>1. /\ a \in Nat /\ a <= c /\ b \in Nat /\ c \in Nat
        /\ Rank(list, n + 1) \in Nat /\ Rank(list, m + 1) \in Nat
    BY <1>1, RankIs, CountFits
  <2>2. a = Rank(list, n + 1) + 1 /\ b = Rank(list, m + 1) + 1 /\ b <= Rank(list, n + 1)
    BY <1>1, RankIs
  <2> QED BY <2>1, <2>2
<1>3. w * c <= MemSize /\ MemSize \in Nat
  BY MemoryAssumption
<1> HIDE DEF a, b, c
<1>4. x \in Int /\ j \in Int /\ w <= j /\ j + w <= MemSize /\ x + j = -(w * b)
  <2>1. CASE w = 2
    BY <1>2, <1>3, <2>1
  <2>2. CASE w = 4
    BY <1>2, <1>3, <2>2
  <2> QED BY <2>1, <2>2
<1> DEFINE p == Plus(R, x)
<1>5. Slot(R, w, list, n) = p /\ Slot(R, w, list, m) = Plus(R, x + j)
  BY <1>4 DEF Slot, a, b
<1>6. p \in Int
  BY <1>1, <1>4, PlusFits, LongIs
<1> HIDE DEF x, j
<1>7. \A y : Load(y, p + j, w) = Load(y, Plus(R, x + j), w)
  BY <1>1, <1>4, LoadPlus
<1> HIDE DEF p
<1>8. Load(Store(s, p, w, v), p + j, w) = Load(s, p + j, w)
  <2>1. j \in Int /\ w <= j /\ j + w <= MemSize
    BY <1>4
  <2>2. w \in Widths
    BY <1>1
  <2>3. \A i \in Int : w <= i /\ i + w <= MemSize =>
          Load(Store(s, p, w, v), p + i, w) = Load(s, p + i, w)
    <3>1. \A k \in Widths : \A e, y, i \in Int : k <= i /\ i + k <= MemSize =>
            Load(Store(s, e, k, y), e + i, k) = Load(s, e + i, k)
      BY LoadsOther
    <3> QED BY <1>6, <2>2, <3>1
  <2> QED BY <2>1, <2>3
<1> QED BY <1>5, <1>7, <1>8

\* One more register goes out.
LEMMA SlotFilled ==
  ASSUME NEW s \in Machines, NEW R \in Long, NEW list \in SUBSET Numbers, NEW w \in {2, 4},
         w * Cardinality(list) <= MemSize, NEW n \in list, NEW t \in Writing, Ok(t),
         OnStack(s, t, R, w, list, n + 1), Ok(MovemWrite(t, n, w, -w))
  PROVE  OnStack(s, MovemWrite(t, n, w, -w), R, w, list, n)
<1> DEFINE u == MovemWrite(t, n, w, -w)
           p == Slot(R, w, list, n)
           v == MovemReg(t, n)
           q == Store(t, p, w, v)
           loc == Moved(t.dst, -w)
<1>1. n \in Numbers /\ n \in Int /\ w \in Widths /\ -w \in {2, 4, -2, -4} /\ w \in {2, 4}
  BY DEF Numbers, Widths
<1>2. t \in Machines /\ t.d = s.d /\ SameAddresses(s, t) /\ t.dst.l = "mem" /\ t.dst \in Places
  BY FieldsAre DEF OnStack, Writing
<1>3. t.dst.n = p /\ p \in Int /\ p % 2 = R % 2
  BY <1>1, SlotsFit DEF OnStack
<1>4. v = MovemReg(s, n) /\ v \in Int
  <2>1. \A m : MovemReg(t, m) = MovemReg(s, m)
    BY <1>2 DEF MovemReg, Reg, SameAddresses
  <2>2. v \in Int
    BY <1>1, <1>2, MovemRegFits, LongIs
  <2> QED BY <2>1, <2>2
<1>5. Written(t, n, w, -w, u)
  BY <1>1, MovemWriteIs
<1>6. p % 2 # 1 /\ u = [q EXCEPT !.dst = loc]
  <2>1. ~Ok(AddressError(t, t.dst, FALSE))
    BY <1>2, RaisedAre
  <2> QED BY <1>3, <1>5, <2>1 DEF Written
<1>7. q \in Machines /\ SameButMemory(t, q) /\ Load(q, p, w) = Low(v, w)
  BY <1>1, <1>2, <1>3, <1>4, StoreIs, LoadsStored
<1>8. loc \in Places /\ loc.l = "mem" /\ loc.n = Plus(R, -(w * (Rank(list, n) + 1)))
  <2>1. loc \in Places /\ loc.l = "mem" /\ loc.n = Plus(p, -w)
    BY <1>1, <1>2, <1>3, MovedFits
  <2>2. Plus(p, -w) = Plus(R, -(w * (Rank(list, n) + 1)))
    BY <1>1, SlotsFit
  <2> QED BY <2>1, <2>2
<1>9. ASSUME NEW m \in list, m >= n
      PROVE  Load(q, Slot(R, w, list, m), w) = Low(MovemReg(s, m), w)
  <2>1. CASE m = n
    <3> HIDE DEF q
    <3> QED BY <1>4, <1>7, <2>1
  <2>2. CASE m # n
    <3>1. n < m /\ m >= n + 1 /\ m \in Int
      BY <1>1, <1>9, <2>2 DEF Numbers
    <3>2. Load(q, Slot(R, w, list, m), w) = Load(t, Slot(R, w, list, m), w)
      <4>1. Load(Store(t, Slot(R, w, list, n), w, v), Slot(R, w, list, m), w)
              = Load(t, Slot(R, w, list, m), w)
        <5> HIDE DEF v
        <5> QED BY <1>2, <1>4, <3>1, SlotsApart
      <4> QED BY <4>1
    <3>3. Load(t, Slot(R, w, list, m), w) = Low(MovemReg(s, m), w)
      BY <3>1 DEF OnStack
    <3> QED BY <3>2, <3>3
  <2> QED BY <2>1, <2>2
<1>10. R % 2 # 1
  BY <1>3, <1>6
<1> HIDE DEF q, loc, u, v
<1>11. u \in Machines
  BY <1>6, <1>7, <1>8, ReplacedAre
<1>12. u.dst = loc /\ u.d = q.d /\ u.mem = q.mem /\ SameAddresses(q, u)
  BY <1>6, <1>7 DEF Machines, SameAddresses
<1>13. u.d = s.d /\ SameAddresses(s, u)
  BY <1>2, <1>7, <1>12 DEF SameAddresses, SameButMemory
<1>14. ASSUME NEW m \in list, m >= n
       PROVE  Load(u, Slot(R, w, list, m), w) = Low(MovemReg(s, m), w)
  <2> DEFINE a == Slot(R, w, list, m)
  <2>1. m \in Int /\ a \in Int
    <3>1. m \in Int /\ w \in {2, 4}
      BY DEF Numbers
    <3> QED BY <3>1, SlotsFit
  <2>2. \A i : Cell(u, a, i) = Cell(q, a, i)
    BY <1>12 DEF Cell
  <2>3. Load(q, a, w) = Low(MovemReg(s, m), w)
    BY <1>9, <1>14
  <2> HIDE DEF a
  <2>4. Load(u, a, w) = Load(q, a, w)
    BY <1>1, <2>1, <2>2, SameLoads
  <2> QED BY <2>3, <2>4 DEF a
<1> QED BY <1>8, <1>10, <1>11, <1>12, <1>13, <1>14 DEF OnStack, u

\* All registers of the list go out.
LEMMA StackFilled ==
  ASSUME NEW s \in Writing, Ok(s), NEW R \in Long, NEW list \in SUBSET Numbers, NEW w \in {2, 4},
         w * Cardinality(list) <= MemSize, s.dst.n = Plus(R, -w),
         Ok(Down(s, list, w, 2 * Regs))
  PROVE  OnStack(s, Down(s, list, w, 2 * Regs), R, w, list, 0)
<1> DEFINE D(k) == Down(s, list, w, k)
           top == 2 * Regs
           T == {k \in Nat : k <= top /\ Ok(D(k)) => OnStack(s, D(k), R, w, list, top - k)}
<1>1. top \in Nat /\ Regs \in Nat
  BY RegsAssumption
<1>2. D(0) = s /\ \A k \in Nat : D(k) \in Writing /\ GoesDown(D(k), D(k + 1), list, w, k)
  BY DownIs
<1> HIDE DEF D
<1>3. 0 \in T
  <2>1. top - 0 = 2 * Regs
    BY <1>1
  <2>2. Rank(list, 2 * Regs) = 0 /\ \A m \in list : ~(m >= 2 * Regs)
    <3>1. \A m \in list : m \in Int /\ m <= top - 1
      BY <1>1 DEF Numbers
    <3> HIDE DEF top
    <3>2. \A m \in list : ~(m >= top)
      BY <1>1, <3>1
    <3> QED BY <3>2, RankIs DEF top
  <2>3. -(w * (0 + 1)) = -w
    OBVIOUS
  <2>4. s \in Machines /\ s.dst.l = "mem" /\ SameAddresses(s, s)
    BY DEF Writing, SameAddresses
  <2>5. OnStack(s, s, R, w, list, 2 * Regs)
    BY <2>2, <2>3, <2>4 DEF OnStack
  <2> QED BY <1>2, <2>1, <2>5
<1>4. ASSUME NEW k \in Nat, k \in T
      PROVE  k + 1 \in T
  <2>1. SUFFICES ASSUME k + 1 <= top, Ok(D(k + 1))
                 PROVE  OnStack(s, D(k + 1), R, w, list, top - (k + 1))
    BY DEF T
  <2> DEFINE n == 2 * Regs - 1 - k
             t == D(k)
             u == D(k + 1)
  <2>2. n = top - (k + 1) /\ n + 1 = top - k /\ n \in Int /\ k <= top
    BY <1>1, <2>1
  <2>3. /\ t \in Writing
        /\ n \in list => u = MovemWrite(t, n, w, -w)
        /\ n \notin list => u = t
    BY <1>2 DEF GoesDown
  <2>4. Ok(t)
    <3>1. CASE n \in list
      <4>1. WriteStep(t, MovemWrite(t, n, w, -w))
        <5>1. -w \in {2, 4, -2, -4} /\ n \in Numbers
          BY <3>1
        <5> QED BY <2>3, <5>1, MovemWriteSteps
      <4> QED BY <2>1, <2>3, <3>1, <4>1 DEF WriteStep
    <3>2. CASE n \notin list
      BY <2>1, <2>3, <3>2
    <3> QED BY <3>1, <3>2
  <2>5. OnStack(s, t, R, w, list, n + 1)
    BY <1>4, <2>2, <2>4
  <2> HIDE DEF n, t, u, T
  <2>6. CASE n \in list
    <3>1. s \in Machines /\ Ok(MovemWrite(t, n, w, -w))
      BY <2>1, <2>3, <2>6 DEF Writing, u
    <3>2. OnStack(s, MovemWrite(t, n, w, -w), R, w, list, n)
      BY <2>3, <2>4, <2>5, <2>6, <3>1, SlotFilled
    <3> QED BY <2>2, <2>3, <2>6, <3>2 DEF u
  <2>7. CASE n \notin list
    <3>1. Rank(list, n + 1) = Rank(list, n)
      BY <2>2, <2>7, RankIs
    <3>2. \A m \in list : m >= n => m >= n + 1
      BY <2>2, <2>7 DEF Numbers
    <3>3. OnStack(s, t, R, w, list, n)
      BY <2>5, <3>1, <3>2 DEF OnStack
    <3> QED BY <2>2, <2>3, <2>7, <3>3 DEF u
  <2> QED BY <2>6, <2>7
<1>5. Nat \subseteq T
  <2> HIDE DEF T
  <2> QED BY <1>3, <1>4, Loops!Induct
<1>6. top \in T /\ top <= top /\ top - top = 0
  BY <1>1, <1>5
<1> QED BY <1>6 DEF D

\* What is on the stack comes in: the machine after the registers of the list below n.
OffStack(s, t, u, R, w, list, n) ==
  /\ u \in Reading /\ Ok(u) /\ u.mem = t.mem /\ u.src.n = Slot(R, w, list, n)
  /\ \A m \in Numbers : MovemReg(u, m) = IF m \in list /\ m < n
                                         THEN Extended(MovemReg(s, m), w) ELSE MovemReg(t, m)

LEMMA ExtendedLow ==
  ASSUME NEW v \in Int, NEW w \in Widths
  PROVE  Extended(Low(v, w), w) = Extended(v, w)
<1>1. Low(v, w) \in 0 .. Modulus(w) - 1 /\ Low(v, w) \in Int /\ Modulus(w) \in Nat \ {0}
  BY LowFits, WidthIs
<1> DEFINE x == Low(v, w)
<1>2. Low(x, w) = x
  <2> HIDE DEF x
  <2>1. x \in Int /\ x \in 0 .. Modulus(w) - 1
    BY <1>1 DEF x
  <2> QED BY <1>1, <2>1, Remainders DEF Low
<1>3. \A y : Extended(y, w) =
        (IF Low(y, w) >= Modulus(w) \div 2 THEN Low(y, w) - Modulus(w) ELSE Low(y, w)) % Modulus(4)
  BY DEF Extended
<1> QED BY <1>2, <1>3

LEMMA SlotEmptied ==
  ASSUME NEW s \in Machines, NEW t, NEW R \in Long, R % 2 # 1, NEW list \in SUBSET Numbers,
         NEW w \in {2, 4}, NEW n \in list, NEW u, OffStack(s, t, u, R, w, list, n),
         Load(t, Slot(R, w, list, n), w) = Low(MovemReg(s, n), w)
  PROVE  OffStack(s, t, MovemRead(u, n, w), R, w, list, n + 1)
<1> DEFINE v == MovemRead(u, n, w)
           p == Slot(R, w, list, n)
           x == Extended(Load(u, p, w), w)
           q == SetMovemReg(u, n, x)
           loc == Moved(u.src, w)
<1>1. n \in Numbers /\ n \in Int /\ w \in Widths /\ w \in {2, 4, -2, -4}
  BY DEF Numbers, Widths
<1>2. u \in Machines /\ u.src.l = "mem" /\ u.src \in Places /\ u.src.n = p /\ u \in Reading /\ Ok(u)
  BY FieldsAre DEF OffStack, Reading
<1>3. p \in Int /\ p % 2 # 1 /\ Plus(p, w) = Slot(R, w, list, n + 1)
  BY <1>1, SlotsFit
<1>4. ReadIn(u, n, w, v)
  BY <1>1, <1>2, MovemReadIs
<1>5. v = [q EXCEPT !.src = loc]
  BY <1>2, <1>3, <1>4 DEF ReadIn
<1>6. x = Extended(MovemReg(s, n), w) /\ x \in Long
  <2>1. \A i : Cell(u, p, i) = Cell(t, p, i)
    BY DEF OffStack, Cell
  <2>2. Load(u, p, w) = Load(t, p, w)
    BY <1>1, <1>3, <2>1, SameLoads
  <2>3. MovemReg(s, n) \in Int
    BY <1>1, MovemRegFits, LongIs
  <2>4. Extended(Low(MovemReg(s, n), w), w) = Extended(MovemReg(s, n), w)
    BY <1>1, <2>3, ExtendedLow
  <2>5. Extended(MovemReg(s, n), w) \in Long
    BY <1>1, <2>3, ExtendedFits
  <2> QED BY <2>2, <2>4, <2>5
<1> HIDE DEF x, v
<1>7. /\ q \in Machines /\ q.mem = u.mem /\ q.raised = u.raised
      /\ MovemReg(q, n) = x /\ \A m \in Numbers \ {n} : MovemReg(q, m) = MovemReg(u, m)
  BY <1>1, <1>2, <1>6, SetMovemRegFits, SetMovemRegIs
<1>8. loc \in Places /\ loc.l = "mem" /\ loc.n = Slot(R, w, list, n + 1)
  BY <1>1, <1>2, <1>3, MovedFits
<1> HIDE DEF q, loc
<1>9. v \in Machines
  BY <1>5, <1>7, <1>8, ReplacedAre
<1>10. v.src = loc /\ v.d = q.d /\ v.mem = q.mem /\ v.raised = q.raised /\ SameAddresses(q, v)
  BY <1>5, <1>7 DEF Machines, SameAddresses
<1>11. Ok(v) /\ v \in Reading /\ v.mem = t.mem
  BY <1>2, <1>7, <1>8, <1>9, <1>10 DEF Ok, Reading, OffStack
<1>12. \A m : MovemReg(v, m) = MovemReg(q, m)
  BY <1>10 DEF MovemReg, Reg, SameAddresses
<1>13. ASSUME NEW m \in Numbers
       PROVE  MovemReg(v, m) = IF m \in list /\ m < n + 1
                               THEN Extended(MovemReg(s, m), w) ELSE MovemReg(t, m)
  <2>1. CASE m = n
    BY <1>1, <1>6, <1>7, <1>12, <2>1
  <2>2. CASE m # n
    <3>1. m < n + 1 <=> m < n
      BY <1>1, <2>2 DEF Numbers
    <3>2. MovemReg(v, m) = MovemReg(u, m)
      BY <1>7, <1>12, <2>2
    <3> QED BY <3>1, <3>2 DEF OffStack
  <2> QED BY <2>1, <2>2
<1> QED BY <1>8, <1>10, <1>11, <1>13 DEF OffStack, v

LEMMA StackEmptied ==
  ASSUME NEW s \in Machines, NEW t \in Reading, Ok(t), NEW R \in Long, NEW list \in SUBSET Numbers,
         NEW w \in {2, 4}, t.src.n = Slot(R, w, list, 0),
         \A m \in list : /\ R % 2 # 1
                         /\ Load(t, Slot(R, w, list, m), w) = Low(MovemReg(s, m), w)
  PROVE  OffStack(s, t, In(t, list, w, 2 * Regs), R, w, list, 2 * Regs)
<1> DEFINE E(k) == In(t, list, w, k)
           T == {k \in Nat : OffStack(s, t, E(k), R, w, list, k)}
<1>1. 2 * Regs \in Nat
  BY RegsAssumption
<1>2. E(0) = t /\ \A k \in Nat : ComesIn(E(k), E(k + 1), list, w, k)
  BY InIs
<1> HIDE DEF E
<1>3. 0 \in T
  <2>1. \A m \in Numbers : ~(m < 0)
    BY DEF Numbers
  <2>2. OffStack(s, t, t, R, w, list, 0)
    BY <2>1 DEF OffStack
  <2> QED BY <1>2, <2>2
<1>4. ASSUME NEW k \in Nat, k \in T
      PROVE  k + 1 \in T
  <2> DEFINE u == E(k)
             v == E(k + 1)
  <2>1. OffStack(s, t, u, R, w, list, k)
    BY <1>4
  <2>2. (k \in list => v = MovemRead(u, k, w)) /\ (k \notin list => v = u)
    BY <1>2 DEF ComesIn
  <2> HIDE DEF u, v
  <2>3. CASE k \in list
    <3>1. OffStack(s, t, MovemRead(u, k, w), R, w, list, k + 1)
      BY <2>1, <2>3, SlotEmptied
    <3> QED BY <2>2, <2>3, <3>1 DEF v
  <2>4. CASE k \notin list
    <3>1. Slot(R, w, list, k + 1) = Slot(R, w, list, k)
      BY <2>4, SlotsFit
    <3>2. \A m \in Numbers : m \in list => (m < k + 1 <=> m < k)
      BY <2>4 DEF Numbers
    <3>3. OffStack(s, t, u, R, w, list, k + 1)
      BY <2>1, <3>1, <3>2 DEF OffStack
    <3> QED BY <2>2, <2>4, <3>3 DEF v
  <2> QED BY <2>3, <2>4
<1>5. Nat \subseteq T
  <2> HIDE DEF T
  <2> QED BY <1>3, <1>4, Loops!Induct
<1> QED BY <1>1, <1>5 DEF E

\* MOVEM to the stack leaves the registers of the list there, and the address register
\* below them.
MovemPushed(s, t, r, w, list) ==
  /\ t \in Machines /\ Ok(t) /\ t.d = s.d
  /\ Shifts(s, t, r, Slot(Reg(s, r), w, list, 0))
  /\ \A m \in list : /\ Reg(s, r) % 2 # 1
                     /\ Load(t, Slot(Reg(s, r), w, list, m), w) = Low(MovemReg(s, m), w)

LEMMA MovemPushes ==
  ASSUME NEW s \in Machines, NEW r \in RegNos, NEW list \in SUBSET Numbers, NEW w \in {2, 4},
         w * Cardinality(list) <= MemSize,
         Ok(MovemToMem(s, list, Ea("-(An)", r), w))
  PROVE  MovemPushed(s, MovemToMem(s, list, Ea("-(An)", r), w), r, w, list)
<1> DEFINE o == Ea("-(An)", r)
           f == Fetch(s, 1)
           t == DstSet(f, o, w)
           i == Inc(t, r, w)
           all == 2 * Regs
           u == Down(i, list, w, all)
           x == Plus(Reg(s, r), -(w * Cardinality(list)))
           R == Reg(s, r)
           p == MovemToMem(s, list, o, w)
<1>1. w \in Widths /\ Sound(o) /\ o.mode = "-(An)" /\ o.reg = r /\ all \in Nat
      /\ o.mode \notin {"Dn", "An", "#"}
  <2>1. Sound(o) /\ o.mode = "-(An)" /\ o.reg = r
    BY EasFit
  <2> QED BY <2>1, RegsAssumption DEF Widths
<1>2. p = IF Ok(t) THEN IF Ok(u) THEN SetReg(u, r, x) ELSE u ELSE Out(t, list, w, all)
  BY <1>1 DEF MovemToMem
<1>3. Ok(p)
  OBVIOUS
<1>4. f \in Machines /\ f.d = s.d /\ f.mem = s.mem /\ f.raised = s.raised /\ SameAddresses(s, f)
  <2>1. SameAddresses(s, f)
    BY DEF Fetch, Machines, SameAddresses
  <2> QED BY <2>1, FetchIs DEF Quiet
<1> HIDE DEF f, p, o, all
<1>5. t \in Writing /\ (Ok(t) => Ok(f))
  <2>1. Quiet(f, t) /\ (Ok(t) => Ok(f) /\ t.dst.l = "mem")
    BY <1>1, <1>4, DstSetFits
  <2> HIDE DEF t
  <2> QED BY <2>1 DEF Quiet, Writing
<1>6. Ok(t)
  <2> HIDE DEF t, i, u, x
  <2>1. Unmoved(t, Out(t, list, w, all))
    BY <1>1, <1>5, OutFits
  <2> QED BY <1>2, <1>3, <2>1 DEF Unmoved
<1>7. LowerPlace(f, t, r, w)
  <2>1. Ok(f)
    BY <1>5, <1>6
  <2> QED BY <1>1, <1>4, <2>1, PlacesOf DEF o
<1> HIDE DEF t
<1>8. R \in Long /\ R \in Int /\ Reg(f, r) = R /\ Step(r, w) = w /\ -w \in Int
  BY <1>4, RegFits DEF SameAddresses, Reg, Step
<1>9. /\ t \in Machines /\ t.d = s.d /\ t.mem = s.mem /\ t.dst.l = "mem" /\ t.dst.n = Plus(R, -w)
      /\ Reg(t, r) = Plus(R, -w) /\ Shifts(s, t, r, Plus(R, -w))
  <2>1. Lower(f, r, w) = Plus(R, -w)
    BY <1>8 DEF Lower
  <2>2. \A q \in RegNos : Reg(f, q) = Reg(s, q)
    BY <1>4 DEF SameAddresses, Reg
  <2>3. OtherStack(s, f)
    BY <1>4, OtherStackStays
  <2>4. Shifts(f, t, r, Plus(R, -w))
    BY <1>7, <2>1 DEF LowerPlace
  <2>5. Shifts(s, t, r, Plus(R, -w))
    BY <2>2, <2>3, <2>4, OtherStackStays DEF Shifts
  <2> QED BY <1>4, <1>7, <2>1, <2>5 DEF LowerPlace, Shifts
<1> HIDE DEF R
<1>10. i = SetReg(t, r, R)
  <2>1. Plus(Plus(R, -w), w) = R
    BY <1>8, PlusBack
  <2> QED BY <1>8, <1>9, <2>1 DEF Inc
<1> HIDE DEF i
<1>11. /\ i \in Machines /\ SameButAddresses(t, i) /\ SameAddresses(s, i)
  <2>1. i \in Machines /\ SameButAddresses(t, i) /\ Shifts(t, i, r, R)
    BY <1>8, <1>9, <1>10, SetRegIs, ShiftsAre
  <2>2. Shifts(s, i, r, Reg(s, r))
    BY <1>9, <2>1, ShiftsAre DEF R
  <2> QED BY <2>1, <2>2, ShiftsAre
<1>12. i \in Writing /\ Ok(i) /\ i.d = s.d /\ i.dst.n = Plus(R, -w)
  BY <1>6, <1>9, <1>11 DEF SameButAddresses, Ok, Writing
<1>13. p = SetReg(u, r, x) /\ Ok(u)
  <2> HIDE DEF u, x
  <2> QED BY <1>2, <1>3, <1>6
<1>14. OnStack(i, u, R, w, list, 0)
  BY <1>8, <1>12, <1>13, StackFilled DEF all
<1> HIDE DEF u
<1>15. x = Slot(R, w, list, 0) /\ x \in Long
  <2>1. Rank(list, 0) = Cardinality(list)
    BY RankIs
  <2>2. x = Slot(R, w, list, 0)
    BY <2>1 DEF Slot, R
  <2>3. 0 \in Int
    OBVIOUS
  <2> HIDE DEF x
  <2> QED BY <1>8, <2>2, <2>3, SlotsFit
<1> HIDE DEF x
<1>16. u \in Machines /\ u.d = s.d /\ SameAddresses(s, u)
  BY <1>11, <1>12, <1>14 DEF OnStack, SameAddresses
<1>17. p \in Machines /\ SameButAddresses(u, p) /\ Shifts(u, p, r, x)
  BY <1>13, <1>15, <1>16, SetRegIs, ShiftsAre
<1>18. Shifts(s, p, r, x)
  <2>1. OtherStack(s, u) /\ \A q \in RegNos : Reg(u, q) = Reg(s, q)
    BY <1>16, OtherStackStays DEF SameAddresses, Reg
  <2> QED BY <1>17, <2>1, OtherStackStays DEF Shifts
<1>19. ASSUME NEW m \in list
       PROVE  /\ R % 2 # 1
              /\ Load(p, Slot(R, w, list, m), w) = Low(MovemReg(s, m), w)
  <2> DEFINE a == Slot(R, w, list, m)
  <2>1. m \in Int /\ m >= 0 /\ w \in {2, 4}
    BY DEF Numbers
  <2>2. R % 2 # 1 /\ Load(u, a, w) = Low(MovemReg(i, m), w)
    BY <1>14, <2>1 DEF OnStack
  <2>3. MovemReg(i, m) = MovemReg(s, m)
    BY <1>11, <1>12 DEF MovemReg, Reg, SameAddresses
  <2>4. a \in Int
    BY <1>8, <2>1, SlotsFit
  <2>5. \A j : Cell(p, a, j) = Cell(u, a, j)
    BY <1>17 DEF SameButAddresses, Cell
  <2> HIDE DEF a
  <2>6. Load(p, a, w) = Load(u, a, w)
    BY <1>1, <2>4, <2>5, SameLoads
  <2> QED BY <2>2, <2>3, <2>6 DEF a
<1> QED BY <1>3, <1>15, <1>16, <1>17, <1>18, <1>19 DEF MovemPushed, SameButAddresses, p, o, R

LEMMA MovemComesBack ==
  ASSUME NEW s \in Machines, NEW r \in RegNos, NEW list \in SUBSET Numbers, NEW w \in {2, 4}
  PROVE  LET pushed == MovemToMem(s, list, Ea("-(An)", r), w)
             popped == MovemToReg(pushed, list, Ea("(An)+", r), w)
         IN  (w * Cardinality(list) <= MemSize /\ Ok(pushed)) =>
               /\ Ok(popped)
               /\ \A n \in 0 .. 2 * Regs - 1 :
                    MovemReg(popped, n) = IF n \in list /\ n # Regs + r
                                          THEN Extended(MovemReg(s, n), w) ELSE MovemReg(s, n)
<1> DEFINE o == Ea("(An)+", r)
           p == MovemToMem(s, list, Ea("-(An)", r), w)
           f == Fetch(p, 1)
           t == SrcSet(f, o, w)
           all == 2 * Regs
           u == In(t, list, w, all)
           R == Reg(s, r)
           x == Plus(Reg(p, r), w * Cardinality(list))
           q == MovemToReg(p, list, o, w)
           k == Regs + r
<1>1. SUFFICES ASSUME w * Cardinality(list) <= MemSize, Ok(p)
               PROVE  /\ Ok(q)
                      /\ \A n \in Numbers :
                           MovemReg(q, n) = IF n \in list /\ n # k
                                            THEN Extended(MovemReg(s, n), w) ELSE MovemReg(s, n)
  BY DEF Numbers
<1>2. MovemPushed(s, p, r, w, list)
  BY <1>1, MovemPushes
<1>3. w \in Widths /\ Sound(o) /\ o.mode = "(An)+" /\ o.reg = r /\ all \in Nat
  <2>1. Sound(o) /\ o.mode = "(An)+" /\ o.reg = r
    BY EasFit
  <2> QED BY <2>1, RegsAssumption DEF Widths
<1>4. q = IF Ok(u) THEN SetReg(u, r, x) ELSE u
  BY <1>3 DEF MovemToReg
<1> HIDE DEF p
<1>5. p \in Machines /\ Ok(p) /\ p.d = s.d /\ Shifts(s, p, r, Slot(R, w, list, 0))
      /\ Reg(p, r) = Slot(R, w, list, 0)
  BY <1>2 DEF MovemPushed, Shifts
<1>6. R \in Long /\ R \in Int
  BY RegFits
<1>7. f \in Machines /\ Ok(f) /\ f.d = s.d /\ f.mem = p.mem
      /\ \A y \in RegNos : Reg(f, y) = Reg(p, y)
  BY <1>5, FetchIs DEF Quiet, Ok
<1> HIDE DEF f
<1>8. HigherPlace(f, t, r, w)
  BY <1>3, <1>7, PlacesOf
<1> HIDE DEF t, o
<1>9. /\ t \in Reading /\ Ok(t) /\ t.d = s.d /\ t.mem = p.mem /\ t.src.n = Slot(R, w, list, 0)
      /\ \A y \in RegNos \ {r} : Reg(t, y) = Reg(s, y)
  BY <1>5, <1>7, <1>8 DEF HigherPlace, Shifts, Reading
<1> HIDE DEF R
<1>10. OffStack(s, t, u, R, w, list, 2 * Regs)
  <2>1. ASSUME NEW m \in list
        PROVE  R % 2 # 1 /\ Load(t, Slot(R, w, list, m), w) = Low(MovemReg(s, m), w)
    <3> DEFINE a == Slot(R, w, list, m)
    <3>1. R % 2 # 1 /\ Load(p, a, w) = Low(MovemReg(s, m), w)
      BY <1>2 DEF MovemPushed, R
    <3>2. m \in Int /\ w \in {2, 4}
      BY DEF Numbers
    <3>3. a \in Int
      BY <1>6, <3>2, SlotsFit
    <3>4. \A j : Cell(t, a, j) = Cell(p, a, j)
      BY <1>9 DEF Cell
    <3> HIDE DEF a
    <3>5. Load(t, a, w) = Load(p, a, w)
      BY <1>3, <3>3, <3>4, SameLoads
    <3> QED BY <3>1, <3>5 DEF a
  <2> QED BY <1>6, <1>9, <2>1, StackEmptied
<1> HIDE DEF u
<1>11. Ok(u) /\ u \in Machines
  BY <1>10 DEF OffStack, Reading
<1>12. x = R
  <2>1. Rank(list, 0) = Cardinality(list) /\ Cardinality(list) \in Nat
    BY RankIs, CountFits
  <2> DEFINE c == Cardinality(list)
             y == w * c
  <2>2. Reg(p, r) = Plus(R, -y)
    BY <1>5, <2>1 DEF Slot
  <2>3. y \in Int
    <3> HIDE DEF c
    <3>1. c \in Int
      BY <2>1 DEF c
    <3> QED BY <3>1
  <2> HIDE DEF y
  <2>4. Plus(Plus(R, -y), y) = R
    BY <1>6, <2>3, PlusBack
  <2> QED BY <2>2, <2>4 DEF y
<1> HIDE DEF x
<1>13. q = SetReg(u, r, R)
  BY <1>4, <1>11, <1>12
<1> HIDE DEF q
<1>14. Regs \in Nat /\ r \in Int /\ 0 <= r /\ k \in Numbers /\ ~(k < Regs) /\ k - Regs = r
  <2>1. Regs \in Nat /\ r \in 0 .. Regs - 1
    BY RegsAssumption DEF RegNos
  <2> QED BY <2>1 DEF Numbers
<1> HIDE DEF k
<1>15. SetMovemReg(u, k, R) = q
  BY <1>13, <1>14 DEF SetMovemReg
<1>16. MovemReg(q, k) = R /\ \A m \in Numbers \ {k} : MovemReg(q, m) = MovemReg(u, m)
  BY <1>6, <1>11, <1>14, <1>15, SetMovemRegIs
<1>17. Ok(q)
  BY <1>6, <1>11, <1>13, SetRegIs DEF SameButAddresses, Ok
<1>18. ASSUME NEW n \in Numbers
       PROVE  MovemReg(q, n) = IF n \in list /\ n # k
                               THEN Extended(MovemReg(s, n), w) ELSE MovemReg(s, n)
  <2>1. CASE n = k
    <3>1. MovemReg(s, k) = R
      BY <1>14 DEF MovemReg, R
    <3> QED BY <1>16, <2>1, <3>1
  <2>2. CASE n # k
    <3>1. MovemReg(q, n) = IF n \in list /\ n < 2 * Regs
                           THEN Extended(MovemReg(s, n), w) ELSE MovemReg(t, n)
      BY <1>10, <1>16, <2>2 DEF OffStack
    <3>2. n < 2 * Regs
      BY RegsAssumption DEF Numbers
    <3>3. MovemReg(t, n) = MovemReg(s, n)
      <4>1. CASE n < Regs
        BY <1>9, <4>1 DEF MovemReg
      <4>2. CASE ~(n < Regs)
        <5>1. n - Regs \in RegNos /\ n - Regs # r
          <6>1. n \in Int
            BY DEF Numbers
          <6>2. n - Regs \in RegNos
            BY <4>2, NumbersAre
          <6>3. n - Regs # r
            BY <1>14, <2>2, <6>1 DEF k
          <6> QED BY <6>2, <6>3
        <5> QED BY <1>9, <4>2, <5>1 DEF MovemReg
      <4> QED BY <4>1, <4>2
    <3> QED BY <2>2, <3>1, <3>2, <3>3
  <2> QED BY <2>1, <2>2
<1> QED BY <1>17, <1>18

LEMMA PushesComeBack ==
  ASSUME cpu \in Machines
  PROVE  PushesArePopped
<1>1. ASSUME NEW r \in RegNos, NEW w \in Widths
      PROVE  LET pushed == Move(cpu, Ea("Dn", r), Ea("-(An)", r), w)
                 popped == Move(pushed, Ea("(An)+", r), Ea("Dn", r), w)
             IN  Ok(pushed) => /\ Ok(popped) /\ (Reg(pushed, SP) - Reg(cpu, SP)) % 2 = 0
                               /\ popped.d = cpu.d /\ popped.a = cpu.a /\ popped.ssp = cpu.ssp
  BY MoveComesBack
<1>2. ASSUME NEW r \in RegNos, NEW list \in Lists, NEW w \in {2, 4}
      PROVE  LET pushed == MovemToMem(cpu, list, Ea("-(An)", r), w)
                 popped == MovemToReg(pushed, list, Ea("(An)+", r), w)
             IN  (w * Cardinality(list) <= MemSize /\ Ok(pushed)) =>
                   /\ Ok(popped)
                   /\ \A n \in 0 .. 2 * Regs - 1 :
                        MovemReg(popped, n) = IF n \in list /\ n # Regs + r
                                              THEN Extended(MovemReg(cpu, n), w)
                                              ELSE MovemReg(cpu, n)
  <2>1. list \in SUBSET Numbers
    BY ProgramAssumption DEF Numbers
  <2> QED BY <2>1, MovemComesBack
<1> QED BY <1>1, <1>2 DEF PushesArePopped
==============================================================================

----------------------------- MODULE AluProofs -------------------------------
(***************************************************************************)
(* What MCAlu checks of the arithmetic of the CPU for operands of a few    *)
(* bits holds for operands of every width, the 8, 16 and 32 bits of m68k.c *)
(* among them, and for every shift count.                                  *)
(*                                                                         *)
(* The operations are functions of one register, so each property follows  *)
(* from the type invariant.  Shifts repeat a step: Iterated says what      *)
(* repeating does, by induction on a set of numbers, and Projected carries *)
(* it over to what a step does to an operand, or to an operand and X.      *)
(***************************************************************************)
EXTENDS Alu, Bcd, WellFoundedInduction, TLAPS

------------------------------------------------------------------------------
(* Iteration: what Times does, for steps of any kind. *)

\* Reduction modulo m of what is less than one modulus away.
LEMMA Reduced ==
  ASSUME NEW m \in Nat \ {0}, NEW a \in Int, -m <= a, a < 2 * m
  PROVE  a % m = IF a < 0 THEN a + m ELSE IF a < m THEN a ELSE a - m
<1>1. CASE a < 0
  BY <1>1, SMTT(20)
<1>2. CASE 0 <= a /\ a < m
  BY <1>2, SMTT(20)
<1>3. CASE m <= a
  BY <1>3, SMTT(20)
<1> QED BY <1>1, <1>2, <1>3

\* A set of numbers that is not empty has a least one.
LEMMA Least ==
  ASSUME NEW T \in SUBSET Nat, T # {}
  PROVE  \E n \in T : \A m \in T : n <= m
<1> DEFINE R == OpToRel(<, Nat)
<1>1. IsWellFoundedOn(R, Nat)
  BY NatLessThanWellFounded
<1>2. \A x, y \in Nat : y < x => <<y, x>> \in R
  BY DEF OpToRel
<1> HIDE DEF R
<1>3. \E x \in T : \A y \in T : ~(<<y, x>> \in R)
  BY <1>1, WFMin
<1>4. PICK n \in T : \A m \in T : ~(<<m, n>> \in R)
  BY <1>3
<1>5. ASSUME NEW m \in T
      PROVE  n <= m
  <2>1. m \in Nat /\ n \in Nat
    OBVIOUS
  <2>2. ~(m < n)
    BY <1>2, <1>4, <2>1
  <2> QED BY <2>1, <2>2
<1> QED BY <1>5

\* Induction, on a set instead of a predicate.
LEMMA Induct ==
  ASSUME NEW T, 0 \in T, \A n \in Nat : n \in T => n + 1 \in T
  PROVE  Nat \subseteq T
<1> DEFINE U == {n \in Nat : n \notin T}
<1>1. SUFFICES ASSUME U # {} PROVE FALSE
  OBVIOUS
<1>2. PICK n \in U : \A m \in U : n <= m
  <2> HIDE DEF U
  <2>1. U \in SUBSET Nat
    BY DEF U
  <2> QED BY <1>1, <2>1, Least
<1>3. n # 0 /\ n - 1 \in Nat
  BY <1>2
<1>4. n - 1 \in T
  BY <1>2, <1>3
<1>5. (n - 1) + 1 \in T
  BY <1>3, <1>4
<1> QED BY <1>2, <1>3, <1>5

\* g lists s and what F makes of it, n times.
Lists(g, S, F, s, n) ==
  /\ g \in [0 .. n -> S]
  /\ g[0] = s
  /\ \A k \in 0 .. n - 1 : g[k + 1] = F[g[k]]

\* Such a list exists, whatever the number of steps.
LEMMA ListExists ==
  ASSUME NEW S, NEW F \in [S -> S], NEW s \in S, NEW n \in Nat
  PROVE  \E g : Lists(g, S, F, s, n)
<1> DEFINE T == {m \in Nat : \E g : Lists(g, S, F, s, m)}
<1>1. 0 \in T
  <2>1. Lists([k \in 0 .. 0 |-> s], S, F, s, 0)
    BY DEF Lists
  <2> QED BY <2>1
<1>2. ASSUME NEW m \in Nat, m \in T
      PROVE  m + 1 \in T
  <2>1. PICK g : Lists(g, S, F, s, m)
    BY <1>2
  <2> DEFINE h == [k \in 0 .. m + 1 |-> IF k = m + 1 THEN F[g[m]] ELSE g[k]]
  <2>2. F[g[m]] \in S
    BY <2>1 DEF Lists
  <2>3. h \in [0 .. m + 1 -> S]
    BY <2>1, <2>2 DEF Lists
  <2>4. h[0] = s
    BY <2>1 DEF Lists
  <2>5. ASSUME NEW k \in 0 .. (m + 1) - 1
        PROVE  h[k + 1] = F[h[k]]
    BY <2>1 DEF Lists
  <2>6. Lists(h, S, F, s, m + 1)
    BY <2>3, <2>4, <2>5 DEF Lists
  <2> HIDE DEF h
  <2> QED BY <2>6
<1>3. Nat \subseteq T
  <2> HIDE DEF T
  <2> QED BY <1>1, <1>2, Induct
<1> QED BY <1>3

\* Times is the last of that list.
LEMMA TimesIsLast ==
  ASSUME NEW S, NEW F \in [S -> S], NEW s \in S, NEW n \in Nat, NEW g, Lists(g, S, F, s, n)
  PROVE  Times(F, s, n) = g[n]
<1> DEFINE f[k \in 0 .. n] == IF k = 0 THEN s ELSE F[f[k - 1]]
<1>1. g = [k \in 0 .. n |-> IF k = 0 THEN s ELSE F[g[k - 1]]]
  <2>1. ASSUME NEW k \in 0 .. n
        PROVE  g[k] = IF k = 0 THEN s ELSE F[g[k - 1]]
    <3>1. CASE k = 0
      BY <3>1 DEF Lists
    <3>2. CASE k # 0
      <4>1. k - 1 \in 0 .. n - 1 /\ (k - 1) + 1 = k
        BY <3>2
      <4> QED BY <3>2, <4>1 DEF Lists
    <3> QED BY <3>1, <3>2
  <2>2. g \in [0 .. n -> S]
    BY DEF Lists
  <2> QED BY <2>1, <2>2
<1>2. f = [k \in 0 .. n |-> IF k = 0 THEN s ELSE F[f[k - 1]]]
  BY <1>1
<1> HIDE DEF f
<1> DEFINE T == {k \in Nat : k <= n => f[k] = g[k]}
<1>3. 0 \in T
  BY <1>2 DEF Lists
<1>4. ASSUME NEW k \in Nat, k \in T
      PROVE  k + 1 \in T
  <2>1. SUFFICES ASSUME k + 1 <= n
                 PROVE  f[k + 1] = g[k + 1]
    OBVIOUS
  <2>2. k \in 0 .. n - 1 /\ k + 1 \in 0 .. n /\ (k + 1) - 1 = k /\ k + 1 # 0
    BY <2>1
  <2>3. f[k + 1] = F[f[k]]
    BY <1>2, <2>2
  <2> QED BY <1>4, <2>2, <2>3 DEF Lists
<1>5. Nat \subseteq T
  <2> HIDE DEF T
  <2> QED BY <1>3, <1>4, Induct
<1>6. f[n] = g[n]
  BY <1>5
<1> QED BY <1>6 DEF Times, f

\* What Times does: nothing, or one step more.
LEMMA Iterated ==
  ASSUME NEW S, NEW F \in [S -> S], NEW s \in S
  PROVE  /\ Times(F, s, 0) = s
         /\ \A n \in Nat : /\ Times(F, s, n) \in S
                           /\ Times(F, s, n + 1) = F[Times(F, s, n)]
<1>1. ASSUME NEW n \in Nat
      PROVE  /\ Times(F, s, n) \in S
             /\ Times(F, s, n + 1) = F[Times(F, s, n)]
  <2>1. n + 1 \in Nat
    OBVIOUS
  <2>2. PICK g : Lists(g, S, F, s, n + 1)
    BY <2>1, ListExists
  <2>3. Times(F, s, n + 1) = g[n + 1]
    BY <2>1, <2>2, TimesIsLast
  <2> DEFINE h == [k \in 0 .. n |-> g[k]]
  <2>4. Lists(h, S, F, s, n)
    BY <2>2 DEF Lists
  <2> HIDE DEF h
  <2>5. Times(F, s, n) = h[n]
    BY <2>4, TimesIsLast
  <2>6. h[n] = g[n] /\ g[n] \in S /\ g[n + 1] = F[g[n]]
    BY <2>2 DEF h, Lists
  <2> QED BY <2>3, <2>5, <2>6
<1>2. Times(F, s, 0) = s
  <2>1. PICK g : Lists(g, S, F, s, 0)
    BY ListExists
  <2>2. Times(F, s, 0) = g[0]
    BY <2>1, TimesIsLast
  <2> QED BY <2>1, <2>2 DEF Lists
<1> QED BY <1>1, <1>2

\* Steps that keep what p shows of a state do so any number of times.
LEMMA Projected ==
  ASSUME NEW S, NEW F \in [S -> S], NEW s \in S,
         NEW V, NEW G \in [V -> V], NEW p \in [S -> V],
         \A t \in S : p[F[t]] = G[p[t]], NEW n \in Nat
  PROVE  p[Times(F, s, n)] = Times(G, p[s], n)
<1> DEFINE T == {k \in Nat : p[Times(F, s, k)] = Times(G, p[s], k)}
<1>0. p[s] \in V
  OBVIOUS
<1>1. 0 \in T
  <2>1. Times(F, s, 0) = s
    BY Iterated
  <2>2. Times(G, p[s], 0) = p[s]
    BY <1>0, Iterated
  <2> QED BY <2>1, <2>2
<1>2. ASSUME NEW k \in Nat, k \in T
      PROVE  k + 1 \in T
  <2>1. Times(F, s, k) \in S /\ Times(F, s, k + 1) = F[Times(F, s, k)]
    BY Iterated
  <2>2. Times(G, p[s], k + 1) = G[Times(G, p[s], k)]
    BY <1>0, Iterated
  <2> QED BY <1>2, <2>1, <2>2
<1>3. Nat \subseteq T
  <2> HIDE DEF T
  <2> QED BY <1>1, <1>2, Induct
<1> QED BY <1>3

\* The first step instead of the last.
LEMMA FirstStep ==
  ASSUME NEW S, NEW F \in [S -> S], NEW s \in S, NEW n \in Nat
  PROVE  Times(F, s, n + 1) = Times(F, F[s], n)
<1>1. F[s] \in S
  OBVIOUS
<1>2. F[Times(F, s, n)] = Times(F, F[s], n)
  BY Projected
<1>3. Times(F, s, n + 1) = F[Times(F, s, n)]
  BY Iterated
<1> QED BY <1>2, <1>3

\* Steps that G undoes are undone by as many of G.
LEMMA Undone ==
  ASSUME NEW S, NEW F \in [S -> S], NEW G \in [S -> S], \A t \in S : G[F[t]] = t,
         NEW s \in S, NEW n \in Nat
  PROVE  Times(G, Times(F, s, n), n) = s
<1> DEFINE T == {k \in Nat : Times(G, Times(F, s, k), k) = s}
<1>1. 0 \in T
  BY Iterated
<1>2. ASSUME NEW k \in Nat, k \in T
      PROVE  k + 1 \in T
  <2> DEFINE t == Times(F, s, k)
  <2>1. t \in S /\ Times(F, s, k + 1) = F[t]
    BY Iterated
  <2> HIDE DEF t
  <2>2. F[t] \in S
    BY <2>1
  <2>3. Times(G, F[t], k + 1) = Times(G, G[F[t]], k)
    BY <2>2, FirstStep
  <2>4. G[F[t]] = t
    BY <2>1
  <2>5. Times(G, t, k) = s
    BY <1>2 DEF t
  <2> QED BY <2>1, <2>3, <2>4, <2>5
<1>3. Nat \subseteq T
  <2> HIDE DEF T
  <2> QED BY <1>1, <1>2, Induct
<1> QED BY <1>3

------------------------------------------------------------------------------
(* Widths: what an operation may leave in the register. *)

\* What is assumed of the width, and what follows for operands.
LEMMA WidthIs ==
  /\ SignBit \in Nat \ {0} /\ Modulus \in Nat \ {0} /\ Modulus = 2 * SignBit
  /\ Operands = 0 .. Modulus - 1
BY SignBitAssumption DEF Modulus, Operands

\* A remainder of the modulus is an operand.
LEMMA Remainder ==
  ASSUME NEW a \in Int
  PROVE  a % Modulus \in Operands
BY WidthIs, SMTT(20)

\* The flags an operation sets are flags.
LEMMA FlagsFit ==
  /\ \A r : NZ(r) \subseteq Flags
  /\ \A b : /\ If(b, "X") \subseteq Flags /\ If(b, "N") \subseteq Flags /\ If(b, "Z") \subseteq Flags
            /\ If(b, "V") \subseteq Flags /\ If(b, "C") \subseteq Flags
  /\ \A s : KeepX(s) \subseteq Flags
BY DEF NZ, If, KeepX, Flags

\* What an operation may change of a state.
LEMMA Changed ==
  ASSUME NEW s \in States
  PROVE  /\ s.hi \in Operands /\ s.lo \in Operands /\ s.cc \subseteq Flags
         /\ \A r \in Operands : [s EXCEPT !.lo = r] \in States
         /\ \A c \in SUBSET Flags : [s EXCEPT !.cc = c] \in States
         /\ \A r \in Operands, c \in SUBSET Flags : [s EXCEPT !.lo = r, !.cc = c] \in States
BY DEF States

\* X as a number.
LEMMA XIsBit ==
  ASSUME NEW s
  PROVE  X(s) \in {0, 1}
BY DEF X

\* A register whose low operand is replaced is a register.
LEMMA PlainFits ==
  ASSUME NEW s \in States, NEW r \in Operands
  PROVE  Plain(s, r) \in States
<1>1. KeepX(s) \cup NZ(r) \in SUBSET Flags
  BY FlagsFit
<1> QED BY <1>1, Changed DEF Plain

\* So is one with the result of a sum or difference.
LEMMA ResultFits ==
  ASSUME NEW s \in States, NEW r \in Operands, NEW v, NEW c
  PROVE  Result(s, r, v, c) \in States /\ Extended(s, r, v, c) \in States
<1>1. NZ(r) \cup If(v, "V") \cup If(c, "C") \cup If(c, "X") \in SUBSET Flags
  BY FlagsFit
<1>2. Result(s, r, v, c) \in States
  BY <1>1, Changed DEF Result
<1> DEFINE t == Result(s, r, v, c)
           z == If(r = 0 /\ "Z" \in s.cc, "Z")
<1>3. Extended(s, r, v, c) = [t EXCEPT !.cc = (@ \ {"Z"}) \cup z]
  BY DEF Extended
<1>4. t \in States /\ z \subseteq Flags
  BY <1>2, FlagsFit
<1> HIDE DEF t, z
<1>5. (t.cc \ {"Z"}) \cup z \in SUBSET Flags
  BY <1>4, Changed
<1>6. [t EXCEPT !.cc = (t.cc \ {"Z"}) \cup z] \in States
  BY <1>4, <1>5, Changed
<1> QED BY <1>2, <1>3, <1>6

\* Sums, differences and comparisons give registers.
LEMMA SumsFit ==
  ASSUME NEW s \in States, NEW y \in Operands
  PROVE  /\ Add(s, y) \in States /\ Addx(s, y) \in States
         /\ Sub(s, y) \in States /\ Subx(s, y) \in States
         /\ Cmp(s, y) \in States
<1>1. s.lo \in Int /\ y \in Int /\ X(s) \in Int
  <2>1. s.lo \in Operands
    BY Changed
  <2>2. X(s) \in {0, 1}
    BY XIsBit
  <2> QED BY <2>1, <2>2, WidthIs
<1>2. /\ (s.lo + y) % Modulus \in Operands /\ (s.lo + y + X(s)) % Modulus \in Operands
      /\ (s.lo - y) % Modulus \in Operands /\ (s.lo - y - X(s)) % Modulus \in Operands
  BY <1>1, Remainder
<1>3. Add(s, y) \in States
  BY <1>2, ResultFits DEF Add
<1>4. Addx(s, y) \in States
  BY <1>2, ResultFits DEF Addx
<1>5. Sub(s, y) \in States
  BY <1>2, ResultFits DEF Sub
<1>6. Subx(s, y) \in States
  BY <1>2, ResultFits DEF Subx
<1>7. KeepX(s) \cup (Sub(s, y).cc \ {"X"}) \in SUBSET Flags
  BY <1>5, FlagsFit, Changed
<1>8. Cmp(s, y) \in States
  BY <1>7, Changed DEF Cmp
<1> QED BY <1>3, <1>4, <1>5, <1>6, <1>8

\* So do the negations.
LEMMA NegFits ==
  ASSUME NEW s \in States
  PROVE  Neg(s) \in States /\ Negx(s) \in States
<1>1. 0 \in Operands
  BY WidthIs
<1>2. [s EXCEPT !.lo = 0] \in States /\ s.lo \in Operands
  BY <1>1, Changed
<1> QED BY <1>2, SumsFit DEF Neg, Negx

\* The function behind Combined, and its bound.
CombinedOn(f, pairs, x, y, m) ==
  f = [w \in 0 .. m |->
         IF w = 0 THEN 0
         ELSE f[w \div 2] + (IF <<Has(x, w), Has(y, w)>> \in pairs THEN w ELSE 0)]

\* The values of the bits below w are fewer.
LEMMA Half ==
  ASSUME NEW w \in Nat
  PROVE  /\ w \div 2 \in Nat /\ 2 * (w \div 2) <= w
         /\ w # 0 => w \div 2 < w
BY SMTT(20)

\* The sum of the first bits of a combination exists for every width.
LEMMA CombinedExists ==
  ASSUME NEW pairs, NEW x, NEW y, NEW m \in Nat
  PROVE  \E f : CombinedOn(f, pairs, x, y, m)
<1> DEFINE T == {n \in Nat : \E f : CombinedOn(f, pairs, x, y, n)}
           Bit(w) == IF <<Has(x, w), Has(y, w)>> \in pairs THEN w ELSE 0
<1>1. 0 \in T
  <2>1. CombinedOn([w \in 0 .. 0 |-> 0], pairs, x, y, 0)
    BY DEF CombinedOn
  <2> QED BY <2>1
<1>2. ASSUME NEW n \in Nat, n \in T
      PROVE  n + 1 \in T
  <2>1. PICK f : CombinedOn(f, pairs, x, y, n)
    BY <1>2
  <2> DEFINE g == [w \in 0 .. n + 1 |->
                     IF w = n + 1 THEN f[(n + 1) \div 2] + Bit(n + 1) ELSE f[w]]
  <2>2. f = [w \in 0 .. n |-> IF w = 0 THEN 0 ELSE f[w \div 2] + Bit(w)]
    BY <2>1 DEF CombinedOn
  <2> HIDE DEF Bit
  <2>3. ASSUME NEW w \in 0 .. n + 1
        PROVE  g[w] = IF w = 0 THEN 0 ELSE g[w \div 2] + Bit(w)
    <3>1. w \div 2 \in Nat /\ (w # 0 => w \div 2 < w)
      BY Half
    <3>2. CASE w = n + 1
      <4>1. w # 0 /\ w \div 2 \in 0 .. n + 1 /\ w \div 2 # n + 1
        BY <3>1, <3>2
      <4>2. g[w \div 2] = f[w \div 2]
        BY <4>1
      <4> QED BY <3>2, <4>1, <4>2
    <3>3. CASE w # n + 1
      <4>1. w \in 0 .. n /\ g[w] = f[w]
        BY <3>3
      <4>2. CASE w = 0
        BY <4>1, <4>2, <2>2
      <4>3. CASE w # 0
        <5>1. w \div 2 \in 0 .. n + 1 /\ w \div 2 # n + 1
          BY <3>1, <4>1, <4>3
        <5>2. g[w \div 2] = f[w \div 2]
          BY <5>1
        <5>3. f[w] = f[w \div 2] + Bit(w)
          BY <2>2, <4>1, <4>3
        <5> QED BY <4>1, <4>3, <5>2, <5>3
      <4> QED BY <4>2, <4>3
    <3> QED BY <3>2, <3>3
  <2>4. g = [w \in 0 .. n + 1 |-> IF w = 0 THEN 0 ELSE g[w \div 2] + Bit(w)]
    <3> DEFINE h == [w \in 0 .. n + 1 |-> IF w = 0 THEN 0 ELSE g[w \div 2] + Bit(w)]
    <3>1. \A w \in 0 .. n + 1 : g[w] = h[w]
      BY <2>3
    <3> HIDE DEF h
    <3>2. DOMAIN h = 0 .. n + 1 /\ h = [w \in DOMAIN h |-> h[w]]
      BY DEF h
    <3>3. g = h
      BY <3>1, <3>2
    <3> QED BY <3>3 DEF h
  <2> HIDE DEF g
  <2>5. CombinedOn(g, pairs, x, y, n + 1)
    BY <2>4 DEF CombinedOn, Bit
  <2> QED BY <2>5
<1>3. Nat \subseteq T
  <2> HIDE DEF T
  <2> QED BY <1>1, <1>2, Induct
<1> QED BY <1>3

\* A combination of two operands is an operand.
LEMMA CombinedFits ==
  ASSUME NEW pairs, NEW x, NEW y
  PROVE  Combined(pairs, x, y) \in Operands
<1>0. PICK g : CombinedOn(g, pairs, x, y, SignBit)
  <2>1. SignBit \in Nat
    BY WidthIs
  <2> QED BY <2>1, CombinedExists
<1> DEFINE f[w \in 0 .. SignBit] ==
             IF w = 0 THEN 0
             ELSE f[w \div 2] + (IF <<Has(x, w), Has(y, w)>> \in pairs THEN w ELSE 0)
           Bit(w) == IF <<Has(x, w), Has(y, w)>> \in pairs THEN w ELSE 0
<1>1. g = [w \in 0 .. SignBit |->
              IF w = 0 THEN 0
              ELSE g[w \div 2] + (IF <<Has(x, w), Has(y, w)>> \in pairs THEN w ELSE 0)]
  BY <1>0 DEF CombinedOn
<1>2. f = [w \in 0 .. SignBit |-> IF w = 0 THEN 0 ELSE f[w \div 2] + Bit(w)]
  BY <1>1
<1>3. Combined(pairs, x, y) = f[SignBit]
  BY DEF Combined
<1> HIDE DEF f
<1> DEFINE T == {n \in Nat : \A w \in 0 .. SignBit :
                               w <= n => f[w] \in Nat /\ (w = 0 \/ f[w] < 2 * w) /\ f[w] <= 2 * w}
<1>4. 0 \in T
  <2>1. f[0] = 0
    BY <1>2, WidthIs
  <2> QED BY <2>1
<1>5. ASSUME NEW n \in Nat, n \in T
      PROVE  n + 1 \in T
  <2>1. ASSUME NEW w \in 0 .. SignBit, w <= n + 1
        PROVE  f[w] \in Nat /\ (w = 0 \/ f[w] < 2 * w) /\ f[w] <= 2 * w
    <3>1. CASE w <= n
      BY <1>5, <3>1
    <3>2. CASE ~(w <= n)
      <4> DEFINE h == w \div 2
      <4>1. w # 0 /\ w \in Nat /\ SignBit \in Nat
        BY <2>1, <3>2, WidthIs
      <4>2. h \in Nat /\ 2 * h <= w /\ h < w
        BY <4>1, Half
      <4>3. f[w] = f[h] + Bit(w)
        BY <1>2, <4>1
      <4> HIDE DEF h
      <4>4. h \in 0 .. SignBit /\ h <= n
        BY <2>1, <3>2, <4>1, <4>2
      <4>5. f[h] \in Nat /\ (h = 0 \/ f[h] < 2 * h) /\ f[h] <= 2 * h
        BY <1>5, <4>4
      <4>6. Bit(w) \in {0, w}
        OBVIOUS
      <4> HIDE DEF Bit
      <4>7. f[w] \in Nat /\ f[w] < 2 * w
        BY <4>1, <4>2, <4>3, <4>5, <4>6
      <4> QED BY <4>1, <4>7
    <3> QED BY <3>1, <3>2
  <2> QED BY <2>1
<1>6. SignBit \in T
  <2> HIDE DEF T
  <2> QED BY <1>4, <1>5, Induct, WidthIs
<1>7. f[SignBit] \in Nat /\ f[SignBit] < 2 * SignBit
  BY <1>6, WidthIs
<1> QED BY <1>3, <1>7, WidthIs

------------------------------------------------------------------------------
(* Shifts and rotations keep the widths. *)

\* Twice a number less than m, modulo m.
LEMMA Twice ==
  ASSUME NEW v \in Operands
  PROVE  (2 * v) % Modulus = IF Sign(v) THEN 2 * v - Modulus ELSE 2 * v
<1>1. v \in Nat /\ v < Modulus /\ Modulus \in Nat \ {0} /\ Modulus = 2 * SignBit
  BY WidthIs
<1> DEFINE a == 2 * v
           m == Modulus
<1>2. m \in Nat \ {0} /\ a \in Int /\ -m <= a /\ a < 2 * m
  BY <1>1
<1> HIDE DEF a, m
<1>3. a % m = IF a < 0 THEN a + m ELSE IF a < m THEN a ELSE a - m
  BY <1>2, Reduced
<1>4. a = 2 * v /\ m = Modulus
  BY DEF a, m
<1>5. Sign(v) <=> ~(a < m)
  <2>1. Sign(v) <=> v >= SignBit
    BY DEF Sign
  <2>2. v >= SignBit <=> ~(a < m)
    BY <1>1, <1>4, WidthIs
  <2> QED BY <2>1, <2>2
<1> QED BY <1>1, <1>3, <1>4, <1>5

\* What a bit that leaves changes.
LEMMA OutIs ==
  ASSUME NEW t \in States, NEW r \in Operands, NEW b
  PROVE  /\ Out(t, r, b) \in States /\ Out(t, r, b).lo = r /\ Out(t, r, b).hi = t.hi
         /\ Out(t, r, b).cc = (t.cc \ {"C"}) \cup If(b, "C")
<1>1. (t.cc \ {"C"}) \cup If(b, "C") \in SUBSET Flags
  BY FlagsFit, Changed
<1> QED BY <1>1, Changed DEF Out, States

\* What setting X changes.
LEMMA SetXIs ==
  ASSUME NEW t \in States, NEW b
  PROVE  /\ SetX(t, b) \in States /\ SetX(t, b).lo = t.lo /\ SetX(t, b).hi = t.hi
         /\ SetX(t, b).cc = (t.cc \ {"X"}) \cup If(b, "X")
<1>1. (t.cc \ {"X"}) \cup If(b, "X") \in SUBSET Flags
  BY FlagsFit, Changed
<1> QED BY <1>1, Changed DEF SetX, States

\* One bit to the left gives a register.
LEMMA LeftIs ==
  ASSUME NEW t \in States, NEW b \in {0, 1}
  PROVE  /\ Left(t, b) \in States
         /\ Left(t, b).lo = (IF Sign(t.lo) THEN 2 * t.lo - Modulus ELSE 2 * t.lo) + b
         /\ Left(t, b).cc = (t.cc \ {"C"}) \cup If(Sign(t.lo), "C")
<1> DEFINE r == ((2 * t.lo) % Modulus) + b
<1>1. t.lo \in Operands
  BY Changed
<1>2. r = (IF Sign(t.lo) THEN 2 * t.lo - Modulus ELSE 2 * t.lo) + b
  BY <1>1, Twice
<1>3. r \in Operands
  <2>1. t.lo \in 0 .. Modulus - 1 /\ Modulus = 2 * SignBit /\ SignBit \in Nat \ {0}
    BY <1>1, WidthIs
  <2> HIDE DEF r
  <2>2. CASE Sign(t.lo)
    BY <1>2, <2>1, <2>2, WidthIs DEF Sign
  <2>3. CASE ~Sign(t.lo)
    BY <1>2, <2>1, <2>3, WidthIs DEF Sign
  <2> QED BY <2>2, <2>3
<1>4. Left(t, b) = Out(t, r, Sign(t.lo))
  BY DEF Left
<1> HIDE DEF r
<1> QED BY <1>2, <1>3, <1>4, OutIs

\* One bit to the right gives a register.
LEMMA RightIs ==
  ASSUME NEW t \in States, NEW b \in {0, SignBit}
  PROVE  /\ Right(t, b) \in States
         /\ Right(t, b).lo = t.lo \div 2 + b
         /\ Right(t, b).cc = (t.cc \ {"C"}) \cup If(t.lo % 2 = 1, "C")
<1>1. t.lo \in Operands
  BY Changed
<1>2. t.lo \div 2 \in Nat /\ 2 * (t.lo \div 2) <= t.lo
  <2>1. t.lo \in Nat
    BY <1>1, WidthIs
  <2> QED BY <2>1, Half
<1>3. t.lo \div 2 + b \in Operands
  BY <1>1, <1>2, WidthIs
<1> QED BY <1>3, OutIs DEF Right

\* The steps of the shifts and rotations, as functions.
AslStep(s) == [t \in States |-> LET u == Left(t, 0)
                                IN  [u EXCEPT !.cc = @ \cup If(Sign(u.lo) # Sign(s.lo), "V")]]

\* The steps of the shifts and rotations.
AsrStep == [t \in States |-> Right(t, IF Sign(t.lo) THEN SignBit ELSE 0)]
LslStep == [t \in States |-> Left(t, 0)]
LsrStep == [t \in States |-> Right(t, 0)]
RolStep == [t \in States |-> Left(t, IF Sign(t.lo) THEN 1 ELSE 0)]
RorStep == [t \in States |-> Right(t, SignBit * (t.lo % 2))]
RoxlStep == [t \in States |-> SetX(Left(t, X(t)), Sign(t.lo))]
RoxrStep == [t \in States |-> SetX(Right(t, SignBit * X(t)), t.lo % 2 = 1)]

\* Each shift in terms of its step.
LEMMA WithSteps ==
  ASSUME NEW s, NEW n
  PROVE  /\ Asl(s, n) = WithX(Shifted(AslStep(s), s, n), n)
         /\ Asr(s, n) = WithX(Shifted(AsrStep, s, n), n)
         /\ Lsl(s, n) = WithX(Shifted(LslStep, s, n), n)
         /\ Lsr(s, n) = WithX(Shifted(LsrStep, s, n), n)
         /\ Rol(s, n) = Shifted(RolStep, s, n)
         /\ Ror(s, n) = Shifted(RorStep, s, n)
         /\ Roxl(s, n) = XInC(Shifted(RoxlStep, s, n), n)
         /\ Roxr(s, n) = XInC(Shifted(RoxrStep, s, n), n)
BY DEF Asl, Asr, Lsl, Lsr, Rol, Ror, Roxl, Roxr,
       AslStep, AsrStep, LslStep, LsrStep, RolStep, RorStep, RoxlStep, RoxrStep

\* The bit that a rotation or ASR takes in.
LEMMA BitsIn ==
  ASSUME NEW t \in States
  PROVE  /\ SignBit * (t.lo % 2) = IF t.lo % 2 = 1 THEN SignBit ELSE 0
         /\ SignBit * X(t) = IF X(t) = 1 THEN SignBit ELSE 0
<1>1. t.lo \in Nat /\ SignBit \in Nat
  <2>1. t.lo \in Operands
    BY Changed
  <2> QED BY <2>1, WidthIs
<1>2. t.lo % 2 \in {0, 1}
  BY <1>1
<1>3. X(t) \in {0, 1}
  BY XIsBit
<1>4. SignBit * 0 = 0 /\ SignBit * 1 = SignBit
  BY <1>1
<1> QED BY <1>2, <1>3, <1>4

\* The steps keep registers registers.
LEMMA StepsFit ==
  /\ AsrStep \in [States -> States] /\ LslStep \in [States -> States]
  /\ LsrStep \in [States -> States] /\ RolStep \in [States -> States]
  /\ RorStep \in [States -> States] /\ RoxlStep \in [States -> States]
  /\ RoxrStep \in [States -> States]
  /\ \A s : AslStep(s) \in [States -> States]
<1>1. ASSUME NEW t \in States
      PROVE  /\ Right(t, IF Sign(t.lo) THEN SignBit ELSE 0) \in States
             /\ Left(t, 0) \in States /\ Right(t, 0) \in States
             /\ Left(t, IF Sign(t.lo) THEN 1 ELSE 0) \in States
  BY LeftIs, RightIs
<1>2. ASSUME NEW t \in States
      PROVE  /\ Right(t, SignBit * (t.lo % 2)) \in States
             /\ SetX(Left(t, X(t)), Sign(t.lo)) \in States
             /\ SetX(Right(t, SignBit * X(t)), t.lo % 2 = 1) \in States
  <2>1. SignBit * (t.lo % 2) \in {0, SignBit} /\ SignBit * X(t) \in {0, SignBit}
    BY BitsIn
  <2>2. X(t) \in {0, 1}
    BY XIsBit
  <2>3. /\ Right(t, SignBit * (t.lo % 2)) \in States
        /\ Left(t, X(t)) \in States
        /\ Right(t, SignBit * X(t)) \in States
    BY <2>1, <2>2, LeftIs, RightIs
  <2> QED BY <2>3, SetXIs
<1>3. ASSUME NEW s
      PROVE  AslStep(s) \in [States -> States]
  <2>1. ASSUME NEW t \in States
        PROVE  LET u == Left(t, 0)
               IN  [u EXCEPT !.cc = @ \cup If(Sign(u.lo) # Sign(s.lo), "V")] \in States
    <3> DEFINE u == Left(t, 0)
               v == If(Sign(u.lo) # Sign(s.lo), "V")
    <3>1. u \in States
      BY LeftIs
    <3>2. v \subseteq Flags
      BY FlagsFit
    <3> HIDE DEF u, v
    <3>3. u.cc \cup v \in SUBSET Flags
      BY <3>1, <3>2, Changed
    <3>4. [u EXCEPT !.cc = u.cc \cup v] \in States
      BY <3>1, <3>3, Changed
    <3> QED BY <3>4 DEF u, v
  <2> QED BY <2>1 DEF AslStep
<1> QED BY <1>1, <1>2, <1>3
     DEF AsrStep, LslStep, LsrStep, RolStep, RorStep, RoxlStep, RoxrStep

\* Where a shift starts, and what it adds at the end.
Cleared(s) == [s EXCEPT !.cc = @ \ {"C", "V"}]

\* What is shifted is a register.
LEMMA ClearedIs ==
  ASSUME NEW s \in States
  PROVE  /\ Cleared(s) \in States /\ Cleared(s).lo = s.lo /\ Cleared(s).hi = s.hi
         /\ Cleared(s).cc = s.cc \ {"C", "V"}
<1>1. s.cc \ {"C", "V"} \in SUBSET Flags
  BY Changed
<1> QED BY <1>1, Changed DEF Cleared, States

\* Shifted is the steps, and then N and Z.
LEMMA ShiftedIs ==
  ASSUME NEW F \in [States -> States], NEW s \in States, NEW n \in Nat
  PROVE  LET t == Times(F, Cleared(s), n)
             u == Shifted(F, s, n)
         IN  /\ t \in States /\ u \in States
             /\ u.lo = t.lo /\ u.hi = t.hi
             /\ u.cc = (t.cc \ {"N", "Z"}) \cup NZ(t.lo)
<1> DEFINE t == Times(F, Cleared(s), n)
<1>1. t \in States
  BY ClearedIs, Iterated
<1>2. Shifted(F, s, n) = [t EXCEPT !.cc = (t.cc \ {"N", "Z"}) \cup NZ(t.lo)]
  BY DEF Shifted, Cleared
<1> HIDE DEF t
<1>3. (t.cc \ {"N", "Z"}) \cup NZ(t.lo) \in SUBSET Flags
  BY <1>1, Changed, FlagsFit
<1>4. [t EXCEPT !.cc = (t.cc \ {"N", "Z"}) \cup NZ(t.lo)] \in States
  BY <1>1, <1>3, Changed
<1>5. Shifted(F, s, n).lo = t.lo /\ Shifted(F, s, n).hi = t.hi
      /\ Shifted(F, s, n).cc = (t.cc \ {"N", "Z"}) \cup NZ(t.lo)
  BY <1>1, <1>2 DEF States
<1> QED BY <1>1, <1>2, <1>4, <1>5 DEF t

\* What follows a shift or rotation keeps a register a register.
LEMMA EndsFit ==
  ASSUME NEW s \in States, NEW n
  PROVE  WithX(s, n) \in States /\ XInC(s, n) \in States
<1>1. WithX(s, n) \in States
  BY SetXIs DEF WithX
<1>2. s.cc \cup If("X" \in s.cc, "C") \in SUBSET Flags
  BY Changed, FlagsFit
<1>3. [s EXCEPT !.cc = s.cc \cup If("X" \in s.cc, "C")] \in States
  BY <1>2, Changed
<1> QED BY <1>1, <1>3 DEF XInC

\* Shifts and rotations by any count give registers.
LEMMA ShiftsFit ==
  ASSUME NEW s \in States, NEW n \in Nat
  PROVE  /\ Asl(s, n) \in States /\ Asr(s, n) \in States
         /\ Lsl(s, n) \in States /\ Lsr(s, n) \in States
         /\ Rol(s, n) \in States /\ Ror(s, n) \in States
         /\ Roxl(s, n) \in States /\ Roxr(s, n) \in States
<1>1. \A F \in [States -> States] : Shifted(F, s, n) \in States
  BY ShiftedIs
<1>2. /\ Shifted(AslStep(s), s, n) \in States /\ Shifted(AsrStep, s, n) \in States
      /\ Shifted(LslStep, s, n) \in States /\ Shifted(LsrStep, s, n) \in States
      /\ Shifted(RolStep, s, n) \in States /\ Shifted(RorStep, s, n) \in States
      /\ Shifted(RoxlStep, s, n) \in States /\ Shifted(RoxrStep, s, n) \in States
  BY <1>1, StepsFit
<1> QED BY <1>2, EndsFit, WithSteps

------------------------------------------------------------------------------
(* Products, quotients and logic do, so all operations do. *)

\* Quotient and remainder make up the number.
LEMMA DivMod ==
  ASSUME NEW a \in Int, NEW b \in Nat \ {0}
  PROVE  /\ a \div b \in Int /\ a % b \in 0 .. b - 1
         /\ a = b * (a \div b) + (a % b)
BY SMTT(30)

\* The number of numbers of the whole register.
LEMMA SquareIs ==
  Modulus * Modulus \in Nat \ {0}
<1> DEFINE m == Modulus
<1>1. m \in Nat \ {0}
  BY WidthIs
<1> HIDE DEF m
<1>2. m * m \in Nat \ {0}
  BY <1>1, SMTT(30)
<1> QED BY <1>2 DEF m

\* The high operand of a number that fits in two.
LEMMA HighFits ==
  ASSUME NEW w \in 0 .. Modulus * Modulus - 1
  PROVE  w \div Modulus \in Operands
<1> DEFINE m == Modulus
           h == w \div m
           l == w % m
           sq == m * m
<1>1. m \in Nat \ {0} /\ sq \in Nat /\ w \in Int /\ 0 <= w /\ w < sq
  BY WidthIs, SquareIs
<1>2. h \in Int /\ l \in 0 .. m - 1 /\ w = m * h + l
  <2>1. m \in Nat \ {0} /\ w \in Int
    BY <1>1
  <2> HIDE DEF m
  <2> QED BY <2>1, DivMod
<1>3. sq = m * m
  OBVIOUS
<1> HIDE DEF m, h, l, sq
<1>4. 0 <= h
  <2>1. SUFFICES ASSUME h <= -1 PROVE FALSE
    BY <1>2
  <2>2. m * h <= -m
    BY <1>1, <1>2, <2>1, SMTT(30)
  <2>3. m * h \in Int
    BY <1>1, <1>2
  <2> DEFINE p == m * h
  <2>4. p \in Int /\ p <= -m /\ w = p + l
    BY <1>2, <2>2, <2>3
  <2> HIDE DEF p
  <2> QED BY <1>1, <1>2, <2>4
<1>5. h < m
  <2>1. SUFFICES ASSUME m <= h PROVE FALSE
    BY <1>1, <1>2
  <2>2. m * h >= m * m
    BY <1>1, <1>2, <2>1, SMTT(30)
  <2> DEFINE p == m * h
  <2>3. p \in Int /\ p >= sq /\ w = p + l
    BY <1>1, <1>2, <1>3, <2>2
  <2> HIDE DEF p
  <2> QED BY <1>1, <1>2, <2>3
<1>6. h \in Operands
  BY <1>1, <1>2, <1>4, <1>5, WidthIs DEF m
<1> QED BY <1>6 DEF h, m

\* A number of the whole register gives a register.
LEMMA PlainWideFits ==
  ASSUME NEW s \in States, NEW v \in Int
  PROVE  PlainWide(s, v) \in States
<1> DEFINE sq == Modulus * Modulus
           w == v % sq
           h == w \div Modulus
           f == KeepX(s) \cup If(Sign(h), "N") \cup If(w = 0, "Z")
<1>1. sq \in Nat \ {0}
  BY SquareIs
<1>2. w \in 0 .. sq - 1 /\ w \in Int
  <2> HIDE DEF sq
  <2> QED BY <1>1, DivMod
<1>3. h \in Operands /\ w % Modulus \in Operands
  <2> HIDE DEF w
  <2> QED BY <1>2, HighFits, Remainder
<1>4. f \in SUBSET Flags
  BY FlagsFit
<1>5. PlainWide(s, v) = [hi |-> h, lo |-> w % Modulus, cc |-> f]
  BY DEF PlainWide
<1> HIDE DEF f, h, w
<1> QED BY <1>3, <1>4, <1>5 DEF States

\* The readings of operands and registers are numbers.
LEMMA Numbers ==
  /\ \A v \in Operands : v \in Int /\ Signed(v) \in Int
  /\ \A v \in Operands : v # 0 => Signed(v) # 0
  /\ \A s \in States : Wide(s) \in Int /\ WideSigned(s) \in Int
<1>1. ASSUME NEW v \in Operands
      PROVE  v \in Int /\ Signed(v) \in Int /\ (v # 0 => Signed(v) # 0)
  BY WidthIs DEF Signed
<1>2. ASSUME NEW s \in States
      PROVE  Wide(s) \in Int /\ WideSigned(s) \in Int
  <2>1. s.hi \in Int /\ s.lo \in Int /\ Modulus \in Int
    <3>1. s.hi \in Operands /\ s.lo \in Operands
      BY Changed
    <3> QED BY <1>1, <3>1, WidthIs
  <2>2. Modulus * s.hi \in Int /\ Modulus * Modulus \in Int
    BY <2>1
  <2>3. Wide(s) \in Int
    BY <2>1, <2>2 DEF Wide
  <2> QED BY <2>2, <2>3 DEF WideSigned
<1> QED BY <1>1, <1>2

\* Products, EXT and SWAP give registers.
LEMMA ProductsFit ==
  ASSUME NEW s \in States, NEW y \in Operands
  PROVE  /\ Mulu(s, y) \in States /\ Muls(s, y) \in States
         /\ Ext(s) \in States /\ Swap(s) \in States
<1>1. s.hi \in Int /\ s.lo \in Int /\ y \in Int /\ Signed(s.lo) \in Int /\ Signed(y) \in Int
      /\ Modulus \in Int
  <2>1. s.hi \in Operands /\ s.lo \in Operands
    BY Changed
  <2> QED BY <2>1, Numbers, WidthIs
<1>2. s.lo * y \in Int /\ Signed(s.lo) * Signed(y) \in Int /\ Modulus * s.lo + s.hi \in Int
  BY <1>1
<1> QED BY <1>1, <1>2, PlainWideFits DEF Mulu, Muls, Ext, Swap

\* A quotient and a remainder, reduced, give a register.
LEMMA DividedFits ==
  ASSUME NEW s \in States, NEW q \in Int, NEW r \in Int
  PROVE  Divided(s, q, r) \in States /\ Overflown(s) \in States
<1>1. r % Modulus \in Operands /\ q % Modulus \in Operands
  BY Remainder
<1>2. KeepX(s) \cup NZ(q % Modulus) \in SUBSET Flags
  BY FlagsFit
<1>3. Divided(s, q, r) \in States
  BY <1>1, <1>2 DEF Divided, States
<1>4. KeepX(s) \cup {"N", "V"} \in SUBSET Flags
  BY FlagsFit DEF Flags
<1>5. Overflown(s) \in States
  BY <1>4, Changed DEF Overflown
<1> QED BY <1>3, <1>5

\* DIV gives a register.
LEMMA QuotientsFit ==
  ASSUME NEW s \in States, NEW y \in Operands \ {0}
  PROVE  Divu(s, y) \in States /\ Divs(s, y) \in States
<1>1. Wide(s) \in Int /\ WideSigned(s) \in Int /\ y \in Nat \ {0}
      /\ Signed(y) \in Int /\ Signed(y) # 0
  BY Numbers, WidthIs
<1>2. Divu(s, y) \in States
  <2> DEFINE a == Wide(s)
  <2>1. a \div y \in Int /\ a % y \in Int
    <3>1. a \in Int
      BY <1>1
    <3> HIDE DEF a
    <3>2. a \div y \in Int /\ a % y \in 0 .. y - 1
      BY <1>1, <3>1, DivMod
    <3> QED BY <3>2
  <2> QED BY <2>1, DividedFits DEF Divu
<1>3. Divs(s, y) \in States
  <2> DEFINE n == WideSigned(s)
             d == Signed(y)
             size == Abs(n) \div Abs(d)
             q == IF (n < 0) = (d < 0) THEN size ELSE -size
  <2>1. Abs(n) \in Int /\ Abs(d) \in Nat \ {0}
    <3> HIDE DEF n, d
    <3>1. n \in Int /\ d \in Int /\ d # 0
      BY <1>1 DEF n, d
    <3> QED BY <3>1 DEF Abs
  <2>2. size \in Int
    BY <2>1, DivMod
  <2>3. Divs(s, y) = IF q >= SignBit \/ q < -SignBit THEN Overflown(s) ELSE Divided(s, q, n - q * d)
    BY DEF Divs
  <2>4. n \in Int /\ d \in Int
    BY <1>1
  <2>5. q \in Int
    <3> HIDE DEF size
    <3> QED BY <2>2
  <2> HIDE DEF q, n, d
  <2>6. n - q * d \in Int
    BY <2>4, <2>5
  <2> QED BY <2>3, <2>5, <2>6, DividedFits
<1> QED BY <1>2, <1>3

\* Logic and moves give registers.
LEMMA LogicFits ==
  ASSUME NEW s \in States, NEW y \in Operands
  PROVE  /\ And(s, y) \in States /\ Or(s, y) \in States /\ Eor(s, y) \in States
         /\ Not(s) \in States /\ Tst(s) \in States /\ Move(s, y) \in States
<1>1. Modulus - 1 - s.lo \in Operands /\ s.lo \in Operands
  <2>1. s.lo \in Operands
    BY Changed
  <2> QED BY <2>1, WidthIs
<1> QED BY <1>1, CombinedFits, PlainFits DEF And, Or, Eor, Not, Tst, Move

\* Scc gives a register.
LEMMA SccFits ==
  ASSUME NEW s \in States, NEW cond
  PROVE  Scc(s, cond) \in States
<1>1. Modulus - 1 \in Operands /\ 0 \in Operands
  BY WidthIs
<1> QED BY <1>1, Changed DEF Scc

\* The names of Operation.
Names ==
  {"add", "sub", "addx", "subx", "cmp", "and", "or", "eor", "not", "neg", "negx",
   "asl", "asr", "lsl", "lsr", "rol", "ror", "roxl", "roxr", "tas"}

\* So each of them gives a register.
LEMMA OperationFits ==
  ASSUME NEW op \in Names, NEW s \in States, NEW y \in Operands
  PROVE  Operation(op, s, y) \in States
<1>1. y \in Nat
  BY WidthIs
<1>2. [Tst(s) EXCEPT !.lo = Or(s, SignBit).lo] \in States
  <2>1. Or(s, SignBit) \in States
    BY CombinedFits, PlainFits DEF Or
  <2>2. Or(s, SignBit).lo \in Operands
    BY <2>1, Changed
  <2> QED BY <2>2, LogicFits, Changed
<1>3. CASE op \in {"add", "sub", "addx", "subx", "cmp", "and", "or", "eor", "not", "neg", "negx"}
  BY <1>3, SumsFit, NegFits, LogicFits DEF Operation
<1>4. CASE op \in {"asl", "asr", "lsl", "lsr", "rol", "ror", "roxl", "roxr"}
  BY <1>4, <1>1, ShiftsFit DEF Operation
<1>5. CASE op = "tas"
  BY <1>5, <1>2 DEF Operation
<1> QED BY <1>3, <1>4, <1>5 DEF Names

\* The operations keep the register and the flags within their widths, for
\* operands of every width.
THEOREM TypeOKHolds == Spec => []TypeOK
<1>1. Init => TypeOK
  <2>1. 0 \in Operands
    BY WidthIs
  <2> QED BY <2>1 DEF Init, TypeOK, States
<1>2. TypeOK /\ [Next]_vars => TypeOK'
  <2> SUFFICES ASSUME TypeOK, [Next]_vars PROVE TypeOK'
    OBVIOUS
  <2>1. cpu \in States /\ running \in BOOLEAN
    BY DEF TypeOK
  <2>2. \A s \in States : Becomes(s) => TypeOK'
    BY <2>1 DEF Becomes, TypeOK
  <2>3. Source \subseteq Operands /\ Counts \subseteq Nat
    BY SourceAssumption, CountsAssumption
  <2>4. CASE Adding
    BY <2>1, <2>2, <2>3, <2>4, SumsFit DEF Adding
  <2>5. CASE Subtracting
    BY <2>1, <2>2, <2>3, <2>5, SumsFit DEF Subtracting
  <2>6. CASE Negating
    BY <2>1, <2>2, <2>6, NegFits DEF Negating
  <2>7. CASE Deciding
    BY <2>1, <2>2, <2>7, SccFits DEF Deciding
  <2>8. CASE Combining
    BY <2>1, <2>2, <2>3, <2>8, LogicFits DEF Combining
  <2>9. CASE Moving
    <3>1. 0 \in Operands
      BY WidthIs
    <3>2. Not(cpu) \in States /\ Tst(cpu) \in States /\ Ext(cpu) \in States /\ Swap(cpu) \in States
      BY <2>1, <3>1, LogicFits, ProductsFit
    <3>3. \A y \in Source : Move(cpu, y) \in States
      BY <2>1, <2>3, LogicFits
    <3> QED BY <2>2, <2>9, <3>2, <3>3 DEF Moving
  <2>10. CASE MovingToCcr
    BY <2>1, <2>2, <2>10, Changed DEF MovingToCcr
  <2>11. CASE Shifting
    <3>1. PICK n \in Counts :
            \/ Becomes(Asl(cpu, n)) \/ Becomes(Asr(cpu, n)) \/ Becomes(Lsl(cpu, n))
            \/ Becomes(Lsr(cpu, n)) \/ Becomes(Rol(cpu, n)) \/ Becomes(Ror(cpu, n))
            \/ Becomes(Roxl(cpu, n)) \/ Becomes(Roxr(cpu, n))
      BY <2>11 DEF Shifting
    <3>2. n \in Nat
      BY <2>3
    <3> QED BY <2>1, <2>2, <3>1, <3>2, ShiftsFit
  <2>12. CASE Multiplying
    BY <2>1, <2>2, <2>3, <2>12, ProductsFit DEF Multiplying
  <2>13. CASE Dividing
    <3>1. PICK y \in Source \ {0} :
            \/ Becomes(Divu(cpu, y)) \/ Becomes(Divs(cpu, y))
            \/ running' = FALSE /\ UNCHANGED cpu
      BY <2>13 DEF Dividing
    <3>2. Divu(cpu, y) \in States /\ Divs(cpu, y) \in States
      BY <2>1, <2>3, QuotientsFit
    <3> QED BY <2>1, <2>2, <3>1, <3>2 DEF TypeOK
  <2>14. CASE UNCHANGED vars
    BY <2>14 DEF vars, TypeOK
  <2> QED BY <2>4, <2>5, <2>6, <2>7, <2>8, <2>9, <2>10, <2>11, <2>12, <2>13, <2>14 DEF Next
<1> QED BY <1>1, <1>2, PTL DEF Spec

------------------------------------------------------------------------------
(* Rotations. *)

\* The steps to the left and to the right, on numbers: b comes in.
Up(v, b) == (IF Sign(v) THEN 2 * v - Modulus ELSE 2 * v) + b
Down(v, b) == v \div 2 + (IF b = 1 THEN SignBit ELSE 0)
Bit(b) == IF b THEN 1 ELSE 0

\* Each step undoes the other, and shows the bit that left.
LEMMA UpAndDown ==
  ASSUME NEW v \in Operands, NEW b \in {0, 1}
  PROVE  /\ Up(v, b) \in Operands /\ Down(v, b) \in Operands
         /\ v % 2 \in {0, 1}
         /\ Up(v, b) % 2 = b /\ Down(Up(v, b), Bit(Sign(v))) = v
         /\ Sign(Down(v, b)) <=> b = 1
         /\ Up(Down(v, b), v % 2) = v
<1> DEFINE h == v \div 2
           l == v % 2
<1>1. v \in 0 .. Modulus - 1 /\ Modulus = 2 * SignBit /\ SignBit \in Nat \ {0}
  BY WidthIs
<1>2. h \in Int /\ l \in 0 .. 1 /\ v = 2 * h + l
  <2>1. v \in Int /\ 2 \in Nat \ {0}
    BY <1>1
  <2> QED BY <2>1, DivMod
<1>3. Down(v, b) = h + (IF b = 1 THEN SignBit ELSE 0)
  BY DEF Down
<1> HIDE DEF h, l
<1>4. Sign(v) <=> v >= SignBit
  BY DEF Sign
<1>5. Up(v, b) \in Operands
  <2>1. CASE Sign(v)
    BY <1>1, <1>4, <2>1, WidthIs DEF Up
  <2>2. CASE ~Sign(v)
    BY <1>1, <1>4, <2>2, WidthIs DEF Up
  <2> QED BY <2>1, <2>2
<1>6. Down(v, b) \in Operands
  BY <1>1, <1>2, <1>3, WidthIs
<1>7. Up(v, b) % 2 = b /\ Up(v, b) \div 2 = IF Sign(v) THEN v - SignBit ELSE v
  <2> DEFINE u == Up(v, b)
             k == IF Sign(v) THEN v - SignBit ELSE v
  <2>1. k \in Int /\ u = 2 * k + b
    BY <1>1 DEF Up
  <2> HIDE DEF u, k
  <2>2. u % 2 = b /\ u \div 2 = k
    BY <2>1
  <2> QED BY <2>2 DEF u, k
<1>8. Down(Up(v, b), Bit(Sign(v))) = v
  <2>1. CASE Sign(v)
    BY <1>1, <1>7, <2>1 DEF Down, Bit
  <2>2. CASE ~Sign(v)
    BY <1>1, <1>7, <2>2 DEF Down, Bit
  <2> QED BY <2>1, <2>2
<1>9. Sign(Down(v, b)) <=> b = 1
  <2>1. Sign(Down(v, b)) <=> Down(v, b) >= SignBit
    BY DEF Sign
  <2> QED BY <1>1, <1>2, <1>3, <2>1
<1>10. Up(Down(v, b), l) = v
  <2>1. CASE b = 1
    BY <1>1, <1>2, <1>3, <1>9, <2>1 DEF Up
  <2>2. CASE b = 0
    BY <1>1, <1>2, <1>3, <1>9, <2>2 DEF Up
  <2> QED BY <2>1, <2>2
<1>11. v % 2 \in {0, 1} /\ Up(Down(v, b), v % 2) = v
  <2>1. l \in {0, 1}
    BY <1>2
  <2> QED BY <1>10, <2>1 DEF l
<1> QED BY <1>5, <1>6, <1>7, <1>8, <1>9, <1>11

\* Rotations on numbers.
RolLo == [v \in Operands |-> Up(v, Bit(Sign(v)))]
RorLo == [v \in Operands |-> Down(v, v % 2)]

\* Each rotation by one undoes the other.
LEMMA RotationsOfNumbers ==
  /\ RolLo \in [Operands -> Operands] /\ RorLo \in [Operands -> Operands]
  /\ \A v \in Operands : RorLo[RolLo[v]] = v /\ RolLo[RorLo[v]] = v
<1>1. ASSUME NEW v \in Operands
      PROVE  /\ Up(v, Bit(Sign(v))) \in Operands /\ Down(v, v % 2) \in Operands
             /\ Down(Up(v, Bit(Sign(v))), Up(v, Bit(Sign(v))) % 2) = v
             /\ Up(Down(v, v % 2), Bit(Sign(Down(v, v % 2)))) = v
  <2>1. Bit(Sign(v)) \in {0, 1} /\ v % 2 \in {0, 1}
    BY UpAndDown DEF Bit
  <2>2. Up(v, Bit(Sign(v))) % 2 = Bit(Sign(v))
    BY <2>1, UpAndDown
  <2>3. Bit(Sign(Down(v, v % 2))) = v % 2
    <3>1. Sign(Down(v, v % 2)) <=> v % 2 = 1
      BY <2>1, UpAndDown
    <3> QED BY <2>1, <3>1 DEF Bit
  <2> QED BY <2>1, <2>2, <2>3, UpAndDown
<1>2. RolLo \in [Operands -> Operands] /\ RorLo \in [Operands -> Operands]
  BY <1>1 DEF RolLo, RorLo
<1>3. ASSUME NEW v \in Operands
      PROVE  RorLo[RolLo[v]] = v /\ RolLo[RorLo[v]] = v
  <2>1. RolLo[v] = Up(v, Bit(Sign(v))) /\ RorLo[v] = Down(v, v % 2)
    BY DEF RolLo, RorLo
  <2>2. RorLo[Up(v, Bit(Sign(v)))] = Down(Up(v, Bit(Sign(v))), Up(v, Bit(Sign(v))) % 2)
    BY <1>1 DEF RorLo
  <2>3. RolLo[Down(v, v % 2)] = Up(Down(v, v % 2), Bit(Sign(Down(v, v % 2))))
    BY <1>1 DEF RolLo
  <2> QED BY <1>1, <2>1, <2>2, <2>3
<1> QED BY <1>2, <1>3

LoPart == [t \in States |-> t.lo]

\* The low operand is one.
LEMMA LoPartIs ==
  /\ LoPart \in [States -> Operands]
  /\ \A t \in States : LoPart[t] = t.lo
BY Changed DEF LoPart

\* The low operand after steps that act on it alone.
LEMMA LoOf ==
  ASSUME NEW F \in [States -> States], NEW G \in [Operands -> Operands],
         \A t \in States : LoPart[F[t]] = G[LoPart[t]],
         NEW s \in States, NEW n \in Nat
  PROVE  Times(F, s, n).lo = Times(G, s.lo, n)
<1>1. LoPart \in [States -> Operands]
  BY LoPartIs
<1>2. LoPart[Times(F, s, n)] = Times(G, LoPart[s], n)
  BY <1>1, Projected
<1>3. Times(F, s, n) \in States
  BY Iterated
<1> QED BY <1>2, <1>3, LoPartIs

\* ROL and ROR on the low operand.
LEMMA RotatedLo ==
  ASSUME NEW s \in States, NEW n \in Nat
  PROVE  /\ Rol(s, n).lo = Times(RolLo, s.lo, n)
         /\ Ror(s, n).lo = Times(RorLo, s.lo, n)
<1>1. ASSUME NEW t \in States
      PROVE  RolStep[t].lo = RolLo[t.lo] /\ RorStep[t].lo = RorLo[t.lo]
  <2>1. t.lo \in Operands
    BY Changed
  <2>2. (IF Sign(t.lo) THEN 1 ELSE 0) = Bit(Sign(t.lo)) /\ Bit(Sign(t.lo)) \in {0, 1}
    BY DEF Bit
  <2>3. Left(t, Bit(Sign(t.lo))).lo = Up(t.lo, Bit(Sign(t.lo)))
    BY <2>2, LeftIs DEF Up
  <2>4. SignBit * (t.lo % 2) = IF t.lo % 2 = 1 THEN SignBit ELSE 0
    BY BitsIn
  <2>5. Right(t, SignBit * (t.lo % 2)).lo = Down(t.lo, t.lo % 2)
    <3> DEFINE b == SignBit * (t.lo % 2)
    <3>1. b \in {0, SignBit} /\ b = IF t.lo % 2 = 1 THEN SignBit ELSE 0
      BY <2>4
    <3> HIDE DEF b
    <3>2. Right(t, b).lo = t.lo \div 2 + b
      BY <3>1, RightIs
    <3>3. Right(t, b).lo = Down(t.lo, t.lo % 2)
      BY <3>1, <3>2 DEF Down
    <3> QED BY <3>3 DEF b
  <2>6. RolStep[t] = Left(t, Bit(Sign(t.lo))) /\ RorStep[t] = Right(t, SignBit * (t.lo % 2))
    BY <2>2 DEF RolStep, RorStep
  <2>7. RolLo[t.lo] = Up(t.lo, Bit(Sign(t.lo))) /\ RorLo[t.lo] = Down(t.lo, t.lo % 2)
    BY <2>1 DEF RolLo, RorLo
  <2> QED BY <2>3, <2>5, <2>6, <2>7
<1>2. Cleared(s) \in States /\ Cleared(s).lo = s.lo
  BY ClearedIs
<1>3. /\ Rol(s, n).lo = Times(RolStep, Cleared(s), n).lo
      /\ Ror(s, n).lo = Times(RorStep, Cleared(s), n).lo
  <2>1. /\ Shifted(RolStep, s, n).lo = Times(RolStep, Cleared(s), n).lo
        /\ Shifted(RorStep, s, n).lo = Times(RorStep, Cleared(s), n).lo
    <3>1. RolStep \in [States -> States] /\ RorStep \in [States -> States]
      BY StepsFit
    <3>2. Shifted(RolStep, s, n).lo = Times(RolStep, Cleared(s), n).lo
      BY <3>1, ShiftedIs
    <3>3. Shifted(RorStep, s, n).lo = Times(RorStep, Cleared(s), n).lo
      BY <3>1, ShiftedIs
    <3> QED BY <3>2, <3>3
  <2> QED BY <2>1, WithSteps
<1>4. \A t \in States : LoPart[RolStep[t]] = RolLo[LoPart[t]] /\ LoPart[RorStep[t]] = RorLo[LoPart[t]]
  BY <1>1, StepsFit, LoPartIs
<1>5. Times(RolStep, Cleared(s), n).lo = Times(RolLo, Cleared(s).lo, n)
  BY <1>2, <1>4, StepsFit, RotationsOfNumbers, LoOf, Zenon
<1>6. Times(RorStep, Cleared(s), n).lo = Times(RorLo, Cleared(s).lo, n)
  BY <1>2, <1>4, StepsFit, RotationsOfNumbers, LoOf, Zenon
<1> QED BY <1>2, <1>3, <1>5, <1>6

\* Rotations through X on numbers and X.
Pairs == Operands \X {0, 1}
RoxlPair == [p \in Pairs |-> <<Up(p[1], p[2]), Bit(Sign(p[1]))>>]
RoxrPair == [p \in Pairs |-> <<Down(p[1], p[2]), p[1] % 2>>]
PairOf(s) == <<s.lo, X(s)>>

\* Each rotation by one through X undoes the other.
LEMMA RotationsOfPairs ==
  /\ RoxlPair \in [Pairs -> Pairs] /\ RoxrPair \in [Pairs -> Pairs]
  /\ \A p \in Pairs : RoxrPair[RoxlPair[p]] = p /\ RoxlPair[RoxrPair[p]] = p
<1>1. ASSUME NEW v \in Operands, NEW x \in {0, 1}
      PROVE  /\ RoxlPair[<<v, x>>] = <<Up(v, x), Bit(Sign(v))>>
             /\ RoxrPair[<<v, x>>] = <<Down(v, x), v % 2>>
             /\ RoxlPair[<<v, x>>] \in Pairs /\ RoxrPair[<<v, x>>] \in Pairs
  <2>1. <<v, x>> \in Pairs
    BY DEF Pairs
  <2>2. /\ RoxlPair[<<v, x>>] = <<Up(v, x), Bit(Sign(v))>>
        /\ RoxrPair[<<v, x>>] = <<Down(v, x), v % 2>>
    BY <2>1 DEF RoxlPair, RoxrPair
  <2>3. Up(v, x) \in Operands /\ Down(v, x) \in Operands /\ v % 2 \in {0, 1}
    BY UpAndDown
  <2>4. Bit(Sign(v)) \in {0, 1}
    BY DEF Bit
  <2> QED BY <2>2, <2>3, <2>4 DEF Pairs
<1>2. ASSUME NEW p \in Pairs
      PROVE  \E v \in Operands, x \in {0, 1} : p = <<v, x>>
  BY DEF Pairs
<1>3. RoxlPair \in [Pairs -> Pairs] /\ RoxrPair \in [Pairs -> Pairs]
  <2>1. \A p \in Pairs : RoxlPair[p] \in Pairs /\ RoxrPair[p] \in Pairs
    BY <1>1, <1>2
  <2> QED BY <2>1 DEF RoxlPair, RoxrPair
<1>4. ASSUME NEW p \in Pairs
      PROVE  RoxrPair[RoxlPair[p]] = p /\ RoxlPair[RoxrPair[p]] = p
  <2>1. PICK v \in Operands, x \in {0, 1} : p = <<v, x>>
    BY <1>2
  <2>2. /\ Up(v, x) \in Operands /\ Down(v, x) \in Operands /\ v % 2 \in {0, 1}
        /\ Up(v, x) % 2 = x /\ Down(Up(v, x), Bit(Sign(v))) = v
        /\ Sign(Down(v, x)) <=> x = 1
        /\ Up(Down(v, x), v % 2) = v
    BY UpAndDown
  <2>3. Bit(Sign(v)) \in {0, 1}
    BY DEF Bit
  <2>4. RoxrPair[<<Up(v, x), Bit(Sign(v))>>] = <<v, x>>
    BY <1>1, <2>2, <2>3
  <2>5. Bit(Sign(Down(v, x))) = x
    BY <2>2 DEF Bit
  <2>6. RoxlPair[<<Down(v, x), v % 2>>] = <<v, x>>
    BY <1>1, <2>2, <2>5
  <2> QED BY <1>1, <2>1, <2>4, <2>6
<1> QED BY <1>3, <1>4

\* The low operand and X after steps that act on them alone.
LEMMA PairAfter ==
  ASSUME NEW F \in [States -> States], NEW G \in [Pairs -> Pairs],
         \A t \in States : PairOf(F[t]) = G[PairOf(t)],
         NEW s \in States, NEW n \in Nat
  PROVE  PairOf(XInC(Shifted(F, s, n), n)) = Times(G, PairOf(s), n)
<1> DEFINE p == [t \in States |-> PairOf(t)]
           u == Shifted(F, s, n)
           t == Times(F, Cleared(s), n)
<1>1. p \in [States -> Pairs]
  <2>1. \A q \in States : PairOf(q) \in Pairs
    BY XIsBit, Changed DEF PairOf, Pairs
  <2> QED BY <2>1
<1>2. \A q \in States : p[F[q]] = G[p[q]]
  OBVIOUS
<1>3. Cleared(s) \in States /\ PairOf(Cleared(s)) = PairOf(s)
  <2>1. Cleared(s) \in States /\ Cleared(s).lo = s.lo /\ Cleared(s).cc = s.cc \ {"C", "V"}
    BY ClearedIs
  <2> QED BY <2>1 DEF PairOf, X
<1>4. t \in States /\ u \in States /\ u.lo = t.lo /\ u.cc = (t.cc \ {"N", "Z"}) \cup NZ(t.lo)
  BY ShiftedIs
<1>5. PairOf(t) = Times(G, PairOf(s), n)
  <2>1. p[t] = PairOf(t) /\ p[Cleared(s)] = PairOf(s)
    BY <1>3, <1>4
  <2> HIDE DEF p
  <2>2. p[t] = Times(G, p[Cleared(s)], n)
    BY <1>1, <1>2, <1>3, Projected
  <2> QED BY <2>1, <2>2
<1> HIDE DEF t, u
<1>6. PairOf(u) = PairOf(t)
  <2>1. "X" \in u.cc <=> "X" \in t.cc
    BY <1>4 DEF NZ, If
  <2> QED BY <1>4, <2>1 DEF PairOf, X
<1>7. PairOf(XInC(u, n)) = PairOf(u)
  <2>1. [u EXCEPT !.cc = u.cc \cup If("X" \in u.cc, "C")].lo = u.lo
        /\ [u EXCEPT !.cc = u.cc \cup If("X" \in u.cc, "C")].cc = u.cc \cup If("X" \in u.cc, "C")
    BY <1>4 DEF States
  <2>2. "X" \notin If("X" \in u.cc, "C")
    BY DEF If
  <2> QED BY <2>1, <2>2 DEF XInC, PairOf, X
<1> QED BY <1>5, <1>6, <1>7 DEF u

\* ROXL and ROXR on the low operand and X.
LEMMA RotatedPair ==
  ASSUME NEW s \in States, NEW n \in Nat
  PROVE  /\ PairOf(Roxl(s, n)) = Times(RoxlPair, PairOf(s), n)
         /\ PairOf(Roxr(s, n)) = Times(RoxrPair, PairOf(s), n)
<1>1. ASSUME NEW t \in States
      PROVE  /\ PairOf(RoxlStep[t]) = RoxlPair[PairOf(t)]
             /\ PairOf(RoxrStep[t]) = RoxrPair[PairOf(t)]
  <2>1. t.lo \in Operands /\ X(t) \in {0, 1} /\ PairOf(t) \in Pairs
    BY XIsBit, Changed DEF PairOf, Pairs
  <2>2. /\ RoxlPair[PairOf(t)] = <<Up(t.lo, X(t)), Bit(Sign(t.lo))>>
        /\ RoxrPair[PairOf(t)] = <<Down(t.lo, X(t)), t.lo % 2>>
    BY <2>1 DEF RoxlPair, RoxrPair, PairOf
  <2>3. PairOf(RoxlStep[t]) = <<Up(t.lo, X(t)), Bit(Sign(t.lo))>>
    <3> DEFINE u == Left(t, X(t))
    <3>1. u \in States /\ u.lo = Up(t.lo, X(t))
      BY <2>1, LeftIs DEF Up
    <3>2. RoxlStep[t] = SetX(u, Sign(t.lo))
      BY DEF RoxlStep
    <3> HIDE DEF u
    <3>3. /\ SetX(u, Sign(t.lo)).lo = u.lo
          /\ SetX(u, Sign(t.lo)).cc = (u.cc \ {"X"}) \cup If(Sign(t.lo), "X")
      BY <3>1, SetXIs
    <3>4. X(SetX(u, Sign(t.lo))) = Bit(Sign(t.lo))
      BY <3>3 DEF X, Bit, If
    <3> QED BY <3>1, <3>2, <3>3, <3>4 DEF PairOf
  <2>4. PairOf(RoxrStep[t]) = <<Down(t.lo, X(t)), t.lo % 2>>
    <3> DEFINE b == SignBit * X(t)
               u == Right(t, b)
    <3>1. b \in {0, SignBit} /\ b = IF X(t) = 1 THEN SignBit ELSE 0
      BY BitsIn
    <3>2. RoxrStep[t] = SetX(u, t.lo % 2 = 1)
      BY DEF RoxrStep
    <3> HIDE DEF b
    <3>3. u \in States /\ u.lo = Down(t.lo, X(t))
      BY <3>1, RightIs DEF Down
    <3> HIDE DEF u
    <3>4. /\ SetX(u, t.lo % 2 = 1).lo = u.lo
          /\ SetX(u, t.lo % 2 = 1).cc = (u.cc \ {"X"}) \cup If(t.lo % 2 = 1, "X")
      BY <3>3, SetXIs
    <3>5. t.lo % 2 \in {0, 1}
      BY <2>1, UpAndDown
    <3>6. X(SetX(u, t.lo % 2 = 1)) = t.lo % 2
      BY <3>4, <3>5 DEF X, If
    <3> QED BY <3>2, <3>3, <3>4, <3>6 DEF PairOf
  <2> QED BY <2>2, <2>3, <2>4
<1>2. PairOf(XInC(Shifted(RoxlStep, s, n), n)) = Times(RoxlPair, PairOf(s), n)
  BY <1>1, StepsFit, RotationsOfPairs, PairAfter
<1>3. PairOf(XInC(Shifted(RoxrStep, s, n), n)) = Times(RoxrPair, PairOf(s), n)
  BY <1>1, StepsFit, RotationsOfPairs, PairAfter
<1> QED BY <1>2, <1>3, WithSteps

\* A rotation by any count is undone by the opposite one.
LEMMA RotationsReturn ==
  ASSUME NEW s \in States, NEW n \in Nat
  PROVE  /\ Ror(Rol(s, n), n).lo = s.lo
         /\ Rol(Ror(s, n), n).lo = s.lo
         /\ PairOf(Roxr(Roxl(s, n), n)) = PairOf(s)
         /\ PairOf(Roxl(Roxr(s, n), n)) = PairOf(s)
<1>1. /\ Rol(s, n) \in States /\ Ror(s, n) \in States
      /\ Roxl(s, n) \in States /\ Roxr(s, n) \in States
  BY ShiftsFit
<1>2. s.lo \in Operands /\ PairOf(s) \in Pairs
  BY XIsBit, Changed DEF PairOf, Pairs
<1>3. Ror(Rol(s, n), n).lo = Times(RorLo, Times(RolLo, s.lo, n), n)
  BY <1>1, RotatedLo
<1>4. Rol(Ror(s, n), n).lo = Times(RolLo, Times(RorLo, s.lo, n), n)
  BY <1>1, RotatedLo
<1>5. PairOf(Roxr(Roxl(s, n), n)) = Times(RoxrPair, Times(RoxlPair, PairOf(s), n), n)
  BY <1>1, RotatedPair
<1>6. PairOf(Roxl(Roxr(s, n), n)) = Times(RoxlPair, Times(RoxrPair, PairOf(s), n), n)
  BY <1>1, RotatedPair
<1>7. /\ Times(RorLo, Times(RolLo, s.lo, n), n) = s.lo
      /\ Times(RolLo, Times(RorLo, s.lo, n), n) = s.lo
  BY <1>2, RotationsOfNumbers, Undone
<1>8. /\ Times(RoxrPair, Times(RoxlPair, PairOf(s), n), n) = PairOf(s)
      /\ Times(RoxlPair, Times(RoxrPair, PairOf(s), n), n) = PairOf(s)
  BY <1>2, RotationsOfPairs, Undone
<1> QED BY <1>3, <1>4, <1>5, <1>6, <1>7, <1>8

\* For every width and count, a rotation is undone by the opposite one, through X
\* too.
THEOREM RotationsAreInverseAlways == Spec => []RotationsAreInverse
<1>1. TypeOK => RotationsAreInverse
  <2> SUFFICES ASSUME TypeOK, NEW n \in Counts
               PROVE  /\ Ror(Rol(cpu, n), n).lo = cpu.lo
                      /\ Rol(Ror(cpu, n), n).lo = cpu.lo
                      /\ LET s == Roxr(Roxl(cpu, n), n) IN s.lo = cpu.lo /\ X(s) = X(cpu)
                      /\ LET s == Roxl(Roxr(cpu, n), n) IN s.lo = cpu.lo /\ X(s) = X(cpu)
    BY DEF RotationsAreInverse
  <2>1. cpu \in States /\ n \in Nat
    BY CountsAssumption DEF TypeOK
  <2>2. \A s, t : PairOf(s) = PairOf(t) => s.lo = t.lo /\ X(s) = X(t)
    BY DEF PairOf
  <2> QED BY <2>1, <2>2, RotationsReturn
<1> QED BY <1>1, TypeOKHolds, PTL

------------------------------------------------------------------------------
(* Shifts and powers of two. *)

\* Quotient and remainder are the only numbers of their kind.
LEMMA DivUnique ==
  ASSUME NEW b \in Nat \ {0}, NEW q \in Int, NEW r \in Int, 0 <= r, r < b,
         NEW a \in Int, a = b * q + r
  PROVE  a \div b = q /\ a % b = r
<1> DEFINE k == a \div b
           l == a % b
<1>1. k \in Int /\ l \in 0 .. b - 1 /\ a = b * k + l
  BY DivMod
<1> HIDE DEF k, l
<1>2. b * (q - k) = l - r
  <2>1. b * (q - k) = b * q - b * k
    BY <1>1, SMTT(30)
  <2>2. b * q \in Int /\ b * k \in Int
    BY <1>1
  <2> DEFINE m == b * q
             n == b * k
  <2>3. m - n = l - r
    <3>1. m \in Int /\ n \in Int /\ a = m + r /\ a = n + l
      BY <1>1, <2>2
    <3> HIDE DEF m, n
    <3> QED BY <1>1, <3>1
  <2> QED BY <2>1, <2>3
<1>3. -b < l - r /\ l - r < b
  BY <1>1
<1>4. q - k < 1
  <2>1. SUFFICES ASSUME q - k >= 1 PROVE FALSE
    BY <1>1
  <2>2. b * (q - k) >= b
    BY <1>1, <2>1, SMTT(30)
  <2> HIDE DEF k
  <2>3. l - r >= b
    BY <1>2, <2>2
  <2> QED BY <1>1, <1>3, <2>3
<1>5. q - k > -1
  <2>1. SUFFICES ASSUME q - k <= -1 PROVE FALSE
    BY <1>1
  <2>2. b * (q - k) <= -b
    BY <1>1, <2>1, SMTT(30)
  <2>3. l - r <= -b
    BY <1>2, <2>2
  <2> QED BY <1>1, <1>3, <2>3
<1>6. q = k
  BY <1>1, <1>4, <1>5
<1>7. l = r
  <2>1. q - k = 0
    BY <1>1, <1>6
  <2>2. b * 0 = 0
    OBVIOUS
  <2> QED BY <1>1, <1>2, <2>1, <2>2
<1> QED BY <1>6, <1>7 DEF k, l

\* The powers of two.
LEMMA PowerIs ==
  /\ Power(0) = 1
  /\ \A n \in Nat : Power(n) \in Nat \ {0} /\ Power(n + 1) = 2 * Power(n)
<1> DEFINE D == [v \in Nat |-> 2 * v]
           T == {n \in Nat : Times(D, 1, n) \in Nat \ {0}}
<1>1. D \in [Nat -> Nat]
  OBVIOUS
<1>2. \A v \in Nat : D[v] = 2 * v
  OBVIOUS
<1>3. Power(0) = Times(D, 1, 0) /\ \A n : Power(n) = Times(D, 1, n)
  BY DEF Power
<1> HIDE DEF D
<1>4. /\ Times(D, 1, 0) = 1
      /\ \A n \in Nat : Times(D, 1, n) \in Nat /\ Times(D, 1, n + 1) = D[Times(D, 1, n)]
  <2> DEFINE S == Nat
  <2>1. D \in [S -> S] /\ 1 \in S
    BY <1>1
  <2> HIDE DEF S
  <2>2. /\ Times(D, 1, 0) = 1
        /\ \A n \in Nat : Times(D, 1, n) \in S /\ Times(D, 1, n + 1) = D[Times(D, 1, n)]
    BY <2>1, Iterated
  <2> QED BY <2>2 DEF S
<1>5. \A n \in Nat : Times(D, 1, n + 1) = 2 * Times(D, 1, n)
  BY <1>2, <1>4
<1>6. 0 \in T
  BY <1>4
<1>7. ASSUME NEW n \in Nat, n \in T
      PROVE  n + 1 \in T
  BY <1>5, <1>7
<1>8. Nat \subseteq T
  <2> HIDE DEF T
  <2> QED BY <1>6, <1>7, Induct
<1> QED BY <1>3, <1>4, <1>5, <1>8

\* A number, its residue and their doubles.
LEMMA Doubled ==
  ASSUME NEW a \in Int
  PROVE  /\ (2 * a) % Modulus = Up(a % Modulus, 0)
         /\ (2 * a) \div Modulus = 2 * (a \div Modulus) + Bit(Sign(a % Modulus))
         /\ ((2 * a) \div Modulus) % 2 = Bit(Sign(a % Modulus))
<1> DEFINE m == Modulus
           v == a % m
           q == a \div m
           b == Bit(Sign(v))
<1>1. m \in Nat \ {0} /\ m = 2 * SignBit /\ SignBit \in Nat \ {0}
  BY WidthIs
<1>2. v \in 0 .. m - 1 /\ q \in Int /\ a = m * q + v
  <2> HIDE DEF m
  <2> QED BY <1>1, DivMod
<1>3. b \in {0, 1} /\ Up(v, 0) = (IF b = 1 THEN 2 * v - m ELSE 2 * v)
      /\ 0 <= Up(v, 0) /\ Up(v, 0) < m /\ Up(v, 0) \in Int
  <2> HIDE DEF v
  <2>1. v \in Operands
    BY <1>2, WidthIs
  <2>2. Up(v, 0) \in Operands
    BY <2>1, UpAndDown
  <2>3. v \in Int /\ m \in Int
    BY <1>1, <1>2
  <2> QED BY <2>2, <2>3, WidthIs DEF Bit, Up
<1>4. 2 * a = m * (2 * q + b) + Up(v, 0)
  <2>1. m * (2 * q + b) = 2 * (m * q) + m * b
    <3> HIDE DEF m, q, b
    <3> QED BY <1>1, <1>2, <1>3, SMTT(30)
  <2>2. m * b = IF b = 1 THEN m ELSE 0
    <3> HIDE DEF m, b
    <3> QED BY <1>1, <1>3
  <2> DEFINE p == m * q
  <2>3. p \in Int /\ a = p + v
    BY <1>1, <1>2
  <2> HIDE DEF p, m, q, b, v
  <2>4. m * (2 * q + b) = 2 * p + (IF b = 1 THEN m ELSE 0)
    BY <2>1, <2>2 DEF p
  <2> QED BY <1>1, <1>2, <1>3, <2>3, <2>4
<1> HIDE DEF m, q, b
<1>5. (2 * a) \div m = 2 * q + b /\ (2 * a) % m = Up(v, 0)
  <2> DEFINE c == 2 * q + b
             d == 2 * a
             r == Up(v, 0)
  <2>1. c \in Int /\ d \in Int /\ r \in Int /\ 0 <= r /\ r < m /\ d = m * c + r
    BY <1>2, <1>3, <1>4
  <2> HIDE DEF c, d, r
  <2>2. d \div m = c /\ d % m = r
    BY <1>1, <2>1, DivUnique
  <2> QED BY <2>2 DEF c, d, r
<1>6. (2 * q + b) % 2 = b
  BY <1>2, <1>3
<1> QED BY <1>5, <1>6 DEF m, q, b

\* Halving a quotient.
LEMMA Halved ==
  ASSUME NEW a \in Int, NEW p \in Nat \ {0}
  PROVE  (a \div p) \div 2 = a \div (2 * p)
<1> DEFINE q == a \div p
           r == a % p
           h == q \div 2
           l == q % 2
<1>1. q \in Int /\ r \in 0 .. p - 1 /\ a = p * q + r
  BY DivMod
<1>2. h \in Int /\ l \in 0 .. 1 /\ q = 2 * h + l
  <2> HIDE DEF q
  <2>1. 2 \in Nat \ {0}
    OBVIOUS
  <2> QED BY <1>1, <2>1, DivMod
<1> HIDE DEF q, r, h, l
<1> DEFINE c == p * l + r
           d == 2 * p
<1>3. p * l = IF l = 1 THEN p ELSE 0
  BY <1>2
<1>4. c \in Int /\ 0 <= c /\ c < d /\ d \in Nat \ {0}
  BY <1>1, <1>2, <1>3
<1>5. a = d * h + c
  <2>1. p * q = (2 * p) * h + p * l
    BY <1>2, SMTT(30)
  <2>2. p * q \in Int /\ (2 * p) * h \in Int /\ p * l \in Int
    BY <1>1, <1>2
  <2> DEFINE x == p * q
             y == (2 * p) * h
             z == p * l
  <2>3. x \in Int /\ y \in Int /\ z \in Int /\ a = x + r /\ x = y + z
    BY <1>1, <2>1, <2>2
  <2>4. c = z + r /\ d * h = y
    OBVIOUS
  <2> HIDE DEF x, y, z, c, d
  <2> QED BY <1>1, <2>3, <2>4
<1> HIDE DEF c, d
<1>6. a \div d = h
  BY <1>2, <1>4, <1>5, DivUnique
<1> QED BY <1>6 DEF d, h, q

\* Twice the product.
LEMMA TwiceThe ==
  ASSUME NEW c \in Int, NEW n \in Nat
  PROVE  /\ c * Power(n) \in Int /\ c * Power(n + 1) = 2 * (c * Power(n))
         /\ c * Power(0) = c
<1> DEFINE p == Power(n)
<1>1. p \in Nat /\ Power(n + 1) = 2 * p /\ Power(0) = 1
  BY PowerIs
<1> HIDE DEF p
<1>2. c * (2 * p) = 2 * (c * p)
  BY <1>1, SMTT(30)
<1>3. c * p \in Int /\ c * 1 = c
  BY <1>1
<1> QED BY <1>1, <1>2, <1>3 DEF p

\* The low operand of a state after n steps to the left.
LEMMA LslLo ==
  ASSUME NEW s \in States, NEW c \in Int, c % Modulus = s.lo, NEW n \in Nat
  PROVE  Times(LslStep, s, n).lo = (c * Power(n)) % Modulus
<1> DEFINE T == {k \in Nat : Times(LslStep, s, k).lo = (c * Power(k)) % Modulus}
<1>0. /\ Times(LslStep, s, 0) = s
      /\ \A k \in Nat : /\ Times(LslStep, s, k) \in States
                        /\ Times(LslStep, s, k + 1) = LslStep[Times(LslStep, s, k)]
  BY StepsFit, Iterated
<1>1. 0 \in T
  BY <1>0, TwiceThe
<1>2. ASSUME NEW k \in Nat, k \in T
      PROVE  k + 1 \in T
  <2> DEFINE t == Times(LslStep, s, k)
             a == c * Power(k)
  <2>1. t \in States /\ Times(LslStep, s, k + 1) = LslStep[t]
    BY <1>0
  <2>2. a \in Int /\ c * Power(k + 1) = 2 * a
    BY TwiceThe
  <2>3. t.lo = a % Modulus
    BY <1>2
  <2> HIDE DEF t, a
  <2>4. LslStep[t] = Left(t, 0)
    BY <2>1 DEF LslStep
  <2>5. Left(t, 0).lo = Up(t.lo, 0)
    BY <2>1, LeftIs DEF Up
  <2>6. (2 * a) % Modulus = Up(a % Modulus, 0)
    BY <2>2, Doubled
  <2>7. Times(LslStep, s, k + 1).lo = (c * Power(k + 1)) % Modulus
    BY <2>1, <2>2, <2>3, <2>4, <2>5, <2>6
  <2> QED BY <2>7
<1>3. Nat \subseteq T
  <2> HIDE DEF T
  <2> QED BY <1>1, <1>2, Induct
<1> QED BY <1>3

\* The steps of a shift, from its start.
LEMMA StepsOf ==
  ASSUME NEW F \in [States -> States], NEW s \in States
  PROVE  /\ Times(F, Cleared(s), 0) = Cleared(s)
         /\ \A k \in Nat : /\ Times(F, Cleared(s), k) \in States
                           /\ Times(F, Cleared(s), k + 1) = F[Times(F, Cleared(s), k)]
<1>1. Cleared(s) \in States
  BY ClearedIs
<1> QED BY <1>1, Iterated

\* What a shift x of s by n leaves, in terms of the state t after its steps.
Tested(t) == (t.cc \ {"N", "Z"}) \cup NZ(t.lo)
Ends(x, t, s, n) ==
  /\ x.lo = t.lo
  /\ x.cc = IF n = 0 THEN Tested(t) ELSE (Tested(t) \ {"X"}) \cup If("C" \in Tested(t), "X")
  /\ "C" \in x.cc <=> "C" \in t.cc
  /\ "V" \in x.cc <=> "V" \in t.cc
  /\ "X" \in x.cc <=> IF n = 0 THEN "X" \in s.cc ELSE "C" \in x.cc

\* The last step of a shift says what it leaves in C and X.
LEMMA EndOf ==
  ASSUME NEW F \in [States -> States], NEW s \in States, NEW n \in Nat
  PROVE  Ends(WithX(Shifted(F, s, n), n), Times(F, Cleared(s), n), s, n)
<1> DEFINE x == Shifted(F, s, n)
           u == WithX(x, n)
           t == Times(F, Cleared(s), n)
           w == (t.cc \ {"N", "Z"}) \cup NZ(t.lo)
<1>1. t \in States /\ x \in States /\ x.lo = t.lo /\ x.cc = w
  BY ShiftedIs
<1>2. /\ SetX(x, "C" \in x.cc).lo = x.lo
      /\ SetX(x, "C" \in x.cc).cc = (x.cc \ {"X"}) \cup If("C" \in x.cc, "X")
  <2> HIDE DEF x
  <2> QED BY <1>1, SetXIs
<1>3. u.lo = t.lo /\ u.cc = IF n = 0 THEN w ELSE (w \ {"X"}) \cup If("C" \in w, "X")
  <2> HIDE DEF x, w, t
  <2>1. u = IF n = 0 THEN x ELSE SetX(x, "C" \in x.cc)
    BY DEF WithX
  <2> QED BY <1>1, <1>2, <2>1
<1>4. /\ "C" \in w <=> "C" \in t.cc
      /\ "V" \in w <=> "V" \in t.cc
      /\ "X" \in w <=> "X" \in t.cc
  <2> HIDE DEF t
  <2> QED BY DEF NZ, If
<1>5. n = 0 => ("X" \in t.cc <=> "X" \in s.cc)
  <2>1. Cleared(s) \in States /\ ("X" \in Cleared(s).cc <=> "X" \in s.cc)
    BY ClearedIs
  <2>2. n = 0 => t = Cleared(s)
    BY <2>1, Iterated
  <2> QED BY <2>1, <2>2
<1> HIDE DEF t, w, u
<1>6. /\ "C" \in u.cc <=> "C" \in w
      /\ "V" \in u.cc <=> "V" \in w
      /\ "X" \in u.cc <=> IF n = 0 THEN "X" \in s.cc ELSE "C" \in w
  <2>1. CASE n = 0
    BY <1>3, <1>4, <1>5, <2>1
  <2>2. CASE n # 0
    BY <1>3, <2>2 DEF If
  <2> QED BY <2>1, <2>2
<1>7. w = Tested(t)
  BY DEF w, Tested
<1>8. Ends(u, t, s, n)
  BY <1>3, <1>4, <1>6, <1>7 DEF Ends
<1> QED BY <1>8 DEF u, t, x

\* The step of ASL does what that of LSL does, and to V.
LEMMA AslStepIs ==
  ASSUME NEW s, NEW t \in States
  PROVE  /\ AslStep(s)[t] \in States
         /\ AslStep(s)[t].lo = Up(t.lo, 0)
         /\ AslStep(s)[t].cc \ {"V"} = (t.cc \ {"C", "V"}) \cup If(Sign(t.lo), "C")
         /\ "V" \in AslStep(s)[t].cc <=> "V" \in t.cc \/ ~(Sign(Up(t.lo, 0)) <=> Sign(s.lo))
<1> DEFINE u == Left(t, 0)
<1>1. /\ u \in States /\ u.lo = Up(t.lo, 0)
      /\ u.cc = (t.cc \ {"C"}) \cup If(Sign(t.lo), "C")
  BY LeftIs DEF Up
<1>2. AslStep(s)[t] = [u EXCEPT !.cc = u.cc \cup If(Sign(u.lo) # Sign(s.lo), "V")]
  BY DEF AslStep
<1> HIDE DEF u
<1> DEFINE v == If(Sign(u.lo) # Sign(s.lo), "V")
<1>3. /\ AslStep(s)[t].lo = u.lo
      /\ AslStep(s)[t].cc = u.cc \cup v
  <2> HIDE DEF v
  <2>1. AslStep(s)[t] = [u EXCEPT !.cc = u.cc \cup v]
    BY <1>2 DEF v
  <2> QED BY <1>1, <2>1 DEF States
<1>4. "V" \notin If(Sign(t.lo), "C") /\ v \subseteq {"V"}
  BY DEF If
<1>5. "V" \in v <=> ~(Sign(u.lo) <=> Sign(s.lo))
  BY DEF If, Sign
<1>6. AslStep(s)[t] \in States
  BY StepsFit
<1> HIDE DEF v
<1>7. AslStep(s)[t].cc \ {"V"} = (t.cc \ {"C", "V"}) \cup If(Sign(t.lo), "C")
  BY <1>1, <1>3, <1>4
<1>8. "V" \in AslStep(s)[t].cc <=> "V" \in t.cc \/ ~(Sign(Up(t.lo, 0)) <=> Sign(s.lo))
  BY <1>1, <1>3, <1>4, <1>5
<1> QED BY <1>1, <1>3, <1>6, <1>7, <1>8

\* One step of LSL.
LEMMA LslStepIs ==
  ASSUME NEW t \in States
  PROVE  /\ LslStep[t] \in States
         /\ LslStep[t].lo = Up(t.lo, 0)
         /\ LslStep[t].cc = (t.cc \ {"C"}) \cup If(Sign(t.lo), "C")
BY LeftIs DEF LslStep, Up

\* ASL and LSL stay side by side, and LSL knows nothing of V.
LEMMA SideBySide ==
  ASSUME NEW s \in States, NEW n \in Nat
  PROVE  LET a == Times(AslStep(s), Cleared(s), n)
             l == Times(LslStep, Cleared(s), n)
         IN  a.lo = l.lo /\ l.cc = a.cc \ {"V"}
<1> DEFINE A(k) == Times(AslStep(s), Cleared(s), k)
           L(k) == Times(LslStep, Cleared(s), k)
           T == {k \in Nat : A(k).lo = L(k).lo /\ L(k).cc = A(k).cc \ {"V"}}
<1>0. Cleared(s) \in States /\ Cleared(s).cc = s.cc \ {"C", "V"}
  BY ClearedIs
<1>1. /\ A(0) = Cleared(s)
      /\ \A k \in Nat : A(k) \in States /\ A(k + 1) = AslStep(s)[A(k)]
  <2>1. AslStep(s) \in [States -> States]
    BY StepsFit
  <2> QED BY <2>1, StepsOf
<1>2. /\ L(0) = Cleared(s)
      /\ \A k \in Nat : L(k) \in States /\ L(k + 1) = LslStep[L(k)]
  <2>1. LslStep \in [States -> States]
    BY StepsFit
  <2> QED BY <2>1, StepsOf
<1> HIDE DEF A, L
<1>3. 0 \in T
  BY <1>0, <1>1, <1>2
<1>4. ASSUME NEW k \in Nat, k \in T
      PROVE  k + 1 \in T
  <2> DEFINE a == A(k)
             l == L(k)
  <2>1. a \in States /\ l \in States /\ a.lo = l.lo /\ l.cc = a.cc \ {"V"}
        /\ A(k + 1) = AslStep(s)[a] /\ L(k + 1) = LslStep[l]
    BY <1>1, <1>2, <1>4
  <2> HIDE DEF a, l
  <2>2. /\ A(k + 1).lo = Up(a.lo, 0)
        /\ A(k + 1).cc \ {"V"} = (a.cc \ {"C", "V"}) \cup If(Sign(a.lo), "C")
    BY <2>1, AslStepIs
  <2>3. /\ L(k + 1).lo = Up(l.lo, 0)
        /\ L(k + 1).cc = (l.cc \ {"C"}) \cup If(Sign(l.lo), "C")
    BY <2>1, LslStepIs
  <2>4. L(k + 1).cc = (a.cc \ {"C", "V"}) \cup If(Sign(a.lo), "C")
    BY <2>1, <2>3
  <2>5. A(k + 1).lo = L(k + 1).lo /\ L(k + 1).cc = A(k + 1).cc \ {"V"}
    BY <2>1, <2>2, <2>3, <2>4
  <2> QED BY <2>5
<1>5. Nat \subseteq T
  <2> HIDE DEF T
  <2> QED BY <1>3, <1>4, Induct
<1> QED BY <1>5 DEF A, L

\* The signed reading of an operand.
LEMMA SignedIs ==
  ASSUME NEW u \in Operands
  PROVE  /\ Signed(u) \in -SignBit .. SignBit - 1
         /\ Signed(u) < 0 <=> Sign(u)
         /\ Signed(u) % Modulus = u /\ u % Modulus = u
         /\ u \in Int
<1>1. u \in 0 .. Modulus - 1 /\ Modulus = 2 * SignBit /\ SignBit \in Nat \ {0}
      /\ Modulus \in Nat \ {0}
  BY WidthIs
<1>2. /\ Signed(u) \in -SignBit .. SignBit - 1
      /\ Signed(u) < 0 <=> Sign(u)
      /\ Signed(u) = IF Signed(u) < 0 THEN u - Modulus ELSE u
  BY <1>1 DEF Signed, Sign
<1>3. u % Modulus = u
  BY <1>1, Reduced
<1>4. Signed(u) % Modulus = u
  <2> DEFINE z == Signed(u)
             m == Modulus
  <2>1. z \in Int /\ -m <= z /\ z < 2 * m /\ z = IF z < 0 THEN u - m ELSE u
    BY <1>1, <1>2
  <2>2. m \in Nat \ {0} /\ u < m
    BY <1>1
  <2> HIDE DEF z, m
  <2>3. z % m = IF z < 0 THEN z + m ELSE IF z < m THEN z ELSE z - m
    BY <2>1, <2>2, Reduced
  <2>4. z % m = u
    BY <1>1, <2>1, <2>2, <2>3
  <2> QED BY <2>4 DEF z, m
<1> QED BY <1>1, <1>2, <1>3, <1>4

\* V tells that the product left the signed numbers.
LEMMA AslV ==
  ASSUME NEW s \in States, NEW n \in Nat
  PROVE  "V" \in Times(AslStep(s), Cleared(s), n).cc
           <=> Signed(s.lo) * Power(n) \notin -SignBit .. SignBit - 1
<1> DEFINE A(k) == Times(AslStep(s), Cleared(s), k)
           Z(k) == Signed(s.lo) * Power(k)
           T == {k \in Nat : /\ "V" \in A(k).cc <=> Z(k) \notin -SignBit .. SignBit - 1
                             /\ Z(k) < 0 <=> Sign(s.lo)}
<1>0. Cleared(s) \in States /\ Cleared(s).cc = s.cc \ {"C", "V"} /\ Cleared(s).lo = s.lo
  BY ClearedIs
<1>1. /\ A(0) = Cleared(s)
      /\ \A k \in Nat : A(k) \in States /\ A(k + 1) = AslStep(s)[A(k)]
  <2>1. AslStep(s) \in [States -> States]
    BY StepsFit
  <2> QED BY <2>1, StepsOf
<1>2. s.lo \in Operands
  BY Changed
<1>3. /\ Signed(s.lo) \in Int /\ Signed(s.lo) \in -SignBit .. SignBit - 1
      /\ Signed(s.lo) % Modulus = s.lo
      /\ Signed(s.lo) < 0 <=> Sign(s.lo)
  BY <1>2, SignedIs, Numbers
<1>4. /\ Z(0) = Signed(s.lo)
      /\ \A k \in Nat : Z(k) \in Int /\ Z(k + 1) = 2 * Z(k)
  <2> DEFINE c == Signed(s.lo)
  <2>1. c \in Int
    BY <1>3
  <2> HIDE DEF c
  <2>2. c * Power(0) = c /\ \A k \in Nat : c * Power(k) \in Int /\ c * Power(k + 1) = 2 * (c * Power(k))
    BY <2>1, TwiceThe
  <2> QED BY <2>2 DEF c
<1>5. \A k \in Nat : A(k).lo = Z(k) % Modulus
  <2>1. \A k \in Nat : Times(LslStep, Cleared(s), k).lo = (Signed(s.lo) * Power(k)) % Modulus
    BY <1>0, <1>3, LslLo
  <2> QED BY <2>1, SideBySide
<1> HIDE DEF A, Z
<1>6. 0 \in T
  BY <1>0, <1>1, <1>3, <1>4
<1>7. ASSUME NEW k \in Nat, k \in T
      PROVE  k + 1 \in T
  <2> DEFINE a == A(k)
             z == Z(k)
             m == Modulus
  <2>1. /\ a \in States /\ A(k + 1) = AslStep(s)[a]
        /\ z \in Int /\ Z(k + 1) = 2 * z
        /\ "V" \in a.cc <=> z \notin -SignBit .. SignBit - 1
        /\ z < 0 <=> Sign(s.lo)
        /\ A(k + 1).lo = (2 * z) % m
    BY <1>1, <1>4, <1>5, <1>7
  <2>2. m \in Nat \ {0} /\ m = 2 * SignBit /\ SignBit \in Nat \ {0}
    BY WidthIs
  <2> HIDE DEF a, z, m
  <2>3. /\ A(k + 1).lo = Up(a.lo, 0)
        /\ "V" \in A(k + 1).cc <=> "V" \in a.cc \/ ~(Sign(Up(a.lo, 0)) <=> Sign(s.lo))
    BY <2>1, AslStepIs
  <2>4. Z(k + 1) < 0 <=> Sign(s.lo)
    BY <2>1
  <2>5. CASE z \notin -SignBit .. SignBit - 1
    <3>1. Z(k + 1) \notin -SignBit .. SignBit - 1
      BY <2>1, <2>2, <2>5
    <3> QED BY <2>1, <2>3, <2>4, <2>5, <3>1
  <2>6. CASE z \in -SignBit .. SignBit - 1
    <3> DEFINE d == 2 * z
    <3>1. d \in Int /\ -m <= d /\ d < m /\ d < 2 * m
      BY <2>1, <2>2, <2>6
    <3>2. d = Z(k + 1)
      BY <2>1
    <3> HIDE DEF d
    <3>3. d % m = IF d < 0 THEN d + m ELSE d
      <4>1. d % m = IF d < 0 THEN d + m ELSE IF d < m THEN d ELSE d - m
        BY <2>2, <3>1, Reduced
      <4> QED BY <3>1, <4>1
    <3>4. A(k + 1).lo = d % m
      BY <2>1 DEF d
    <3>5. Sign(A(k + 1).lo) <=> IF d < 0 THEN d >= -SignBit ELSE d >= SignBit
      <4>1. Sign(A(k + 1).lo) <=> A(k + 1).lo >= SignBit
        BY DEF Sign
      <4> QED BY <2>2, <3>1, <3>3, <3>4, <4>1
    <3>6. ~(Sign(A(k + 1).lo) <=> Sign(s.lo)) <=> Z(k + 1) \notin -SignBit .. SignBit - 1
      <4>1. CASE d < 0
        BY <2>2, <2>4, <3>1, <3>2, <3>5, <4>1
      <4>2. CASE ~(d < 0)
        BY <2>2, <2>4, <3>1, <3>2, <3>5, <4>2
      <4> QED BY <4>1, <4>2
    <3>7. "V" \in A(k + 1).cc <=> ~(Sign(A(k + 1).lo) <=> Sign(s.lo))
      BY <2>1, <2>3, <2>6
    <3> QED BY <2>4, <3>6, <3>7
  <2> QED BY <2>5, <2>6
<1>8. Nat \subseteq T
  <2> HIDE DEF T
  <2> QED BY <1>6, <1>7, Induct
<1> QED BY <1>8 DEF A, Z

\* The steps to the right, on numbers.
LEMMA RightSteps ==
  ASSUME NEW t \in States
  PROVE  /\ LsrStep[t].lo = t.lo \div 2
         /\ "C" \in LsrStep[t].cc <=> t.lo % 2 = 1
         /\ Signed(AsrStep[t].lo) = Signed(t.lo) \div 2
         /\ "C" \in AsrStep[t].cc <=> Signed(t.lo) % 2 = 1
<1> DEFINE v == t.lo
           b == IF Sign(v) THEN SignBit ELSE 0
           h == v \div 2
           l == v % 2
<1>1. v \in Operands
  BY Changed
<1>2. v \in 0 .. Modulus - 1 /\ Modulus = 2 * SignBit /\ SignBit \in Nat \ {0}
  BY <1>1, WidthIs
<1>3. h \in Int /\ l \in 0 .. 1 /\ v = 2 * h + l
  <2>1. v \in Int /\ 2 \in Nat \ {0}
    BY <1>2
  <2> HIDE DEF v
  <2> QED BY <2>1, DivMod
<1>4. /\ LsrStep[t] = Right(t, 0) /\ AsrStep[t] = Right(t, b)
      /\ b \in {0, SignBit}
  BY DEF LsrStep, AsrStep
<1>5. /\ Right(t, 0).lo = h + 0 /\ Right(t, b).lo = h + b
      /\ Right(t, 0).cc = (t.cc \ {"C"}) \cup If(l = 1, "C")
      /\ Right(t, b).cc = (t.cc \ {"C"}) \cup If(l = 1, "C")
  <2> HIDE DEF b
  <2> QED BY <1>4, RightIs
<1>6. "C" \in If(l = 1, "C") <=> l = 1
  BY DEF If
<1>7. Signed(v) = 2 * (h - b) + l /\ Signed(h + b) = h - b
  <2> HIDE DEF h, l, v
  <2>1. CASE Sign(v)
    BY <1>2, <1>3, <2>1 DEF Sign, Signed
  <2>2. CASE ~Sign(v)
    BY <1>2, <1>3, <2>2 DEF Sign, Signed
  <2> QED BY <2>1, <2>2
<1>8. (2 * (h - b) + l) \div 2 = h - b /\ (2 * (h - b) + l) % 2 = l
  <2> DEFINE k == h - b
  <2>1. k \in Int
    BY <1>2, <1>3, <1>4
  <2> HIDE DEF k, l
  <2>2. (2 * k + l) \div 2 = k /\ (2 * k + l) % 2 = l
    BY <1>3, <2>1
  <2> QED BY <2>2 DEF k
<1>9. h + 0 = h
  BY <1>3
<1> HIDE DEF h, l, b
<1>10. LsrStep[t].lo = h /\ ("C" \in LsrStep[t].cc <=> l = 1)
  BY <1>4, <1>5, <1>6, <1>9
<1>11. Signed(AsrStep[t].lo) = Signed(v) \div 2
  BY <1>4, <1>5, <1>7, <1>8
<1>12. "C" \in AsrStep[t].cc <=> Signed(v) % 2 = 1
  BY <1>4, <1>5, <1>6, <1>7, <1>8
<1> QED BY <1>10, <1>11, <1>12 DEF h, l, v

\* Steps that halve what V shows of a state divide it by a power of two.
LEMMA HalvedTimes ==
  ASSUME NEW F \in [States -> States], NEW s \in States, NEW V \in [States -> Int],
         \A t \in States : V[F[t]] = V[t] \div 2, NEW n \in Nat
  PROVE  V[Times(F, s, n)] = V[s] \div Power(n)
<1> DEFINE T == {k \in Nat : V[Times(F, s, k)] = V[s] \div Power(k)}
<1>0. /\ Times(F, s, 0) = s
      /\ \A k \in Nat : /\ Times(F, s, k) \in States
                        /\ Times(F, s, k + 1) = F[Times(F, s, k)]
  BY Iterated
<1>1. V[s] \in Int
  OBVIOUS
<1>2. 0 \in T
  <2>1. V[s] \div 1 = V[s]
    BY <1>1
  <2> QED BY <1>0, <2>1, PowerIs
<1>3. ASSUME NEW k \in Nat, k \in T
      PROVE  k + 1 \in T
  <2>1. V[Times(F, s, k + 1)] = V[Times(F, s, k)] \div 2
    BY <1>0
  <2>2. V[Times(F, s, k)] = V[s] \div Power(k)
    BY <1>3
  <2> DEFINE a == V[s]
             p == Power(k)
  <2>3. a \in Int /\ p \in Nat \ {0} /\ Power(k + 1) = 2 * p
    BY <1>1, PowerIs
  <2> HIDE DEF a, p
  <2>4. (a \div p) \div 2 = a \div (2 * p)
    BY <2>3, Halved
  <2>5. V[Times(F, s, k + 1)] = V[s] \div Power(k + 1)
    BY <2>1, <2>2, <2>3, <2>4 DEF a, p
  <2> QED BY <2>5
<1>4. Nat \subseteq T
  <2> HIDE DEF T
  <2> QED BY <1>2, <1>3, Induct
<1> QED BY <1>4

\* What ShiftsAreArithmetic says of one count.
LEMMA Shifts ==
  ASSUME NEW s \in States, NEW n \in Nat
  PROVE  LET a == Asl(s, n)
             r == Asr(s, n)
             l == Lsl(s, n)
             q == Lsr(s, n)
             u == s.lo
         IN  /\ a.lo = (Signed(u) * Power(n)) % Modulus
             /\ "V" \in a.cc <=> Signed(u) * Power(n) \notin -SignBit .. SignBit - 1
             /\ Signed(r.lo) = Signed(u) \div Power(n)
             /\ l.lo = a.lo /\ l.cc = a.cc \ {"V"}
             /\ q.lo = u \div Power(n)
             /\ n > 0 => /\ "C" \in l.cc <=> ((u * Power(n)) \div Modulus) % 2 = 1
                         /\ "C" \in q.cc <=> (u \div Power(n - 1)) % 2 = 1
                         /\ "C" \in r.cc <=> (Signed(u) \div Power(n - 1)) % 2 = 1
             /\ \A t \in {l, q, r} :
                  "X" \in t.cc <=> IF n = 0 THEN "X" \in s.cc ELSE "C" \in t.cc
<1> DEFINE u == s.lo
           A(k) == Times(AslStep(s), Cleared(s), k)
           L(k) == Times(LslStep, Cleared(s), k)
           R(k) == Times(AsrStep, Cleared(s), k)
           Q(k) == Times(LsrStep, Cleared(s), k)
<1>1. /\ AslStep(s) \in [States -> States] /\ LslStep \in [States -> States]
      /\ AsrStep \in [States -> States] /\ LsrStep \in [States -> States]
  BY StepsFit
<1>2. Cleared(s) \in States /\ Cleared(s).lo = u
  BY ClearedIs
<1>3. u \in Operands /\ Signed(u) \in Int /\ Signed(u) % Modulus = u /\ u % Modulus = u /\ u \in Int
  <2>1. u \in Operands
    BY Changed
  <2> QED BY <2>1, SignedIs, Numbers
<1>4. \A k \in Nat : /\ L(k).lo = (Signed(u) * Power(k)) % Modulus
                     /\ L(k).lo = (u * Power(k)) % Modulus
  BY <1>2, <1>3, LslLo
<1>5. \A k \in Nat : Q(k).lo = u \div Power(k)
  <2> DEFINE V == [t \in States |-> t.lo]
  <2>1. /\ V \in [States -> Int]
        /\ \A t \in States : V[t] = t.lo
    <3>1. \A t \in States : t.lo \in Operands
      BY Changed
    <3>2. \A t \in States : t.lo \in Int
      BY <3>1, Numbers
    <3> QED BY <3>2
  <2> HIDE DEF V
  <2>2. \A t \in States : V[LsrStep[t]] = V[t] \div 2
    BY <1>1, <2>1, RightSteps
  <2>3. \A k \in Nat : V[Q(k)] = V[Cleared(s)] \div Power(k)
    BY <1>1, <1>2, <2>1, <2>2, HalvedTimes
  <2>4. \A k \in Nat : Q(k) \in States
    BY <1>1, StepsOf
  <2> QED BY <1>2, <2>1, <2>3, <2>4
<1>6. \A k \in Nat : Signed(R(k).lo) = Signed(u) \div Power(k)
  <2> DEFINE V == [t \in States |-> Signed(t.lo)]
  <2>1. /\ V \in [States -> Int]
        /\ \A t \in States : V[t] = Signed(t.lo)
    <3>1. \A t \in States : t.lo \in Operands
      BY Changed
    <3>2. \A t \in States : Signed(t.lo) \in Int
      BY <3>1, Numbers
    <3> QED BY <3>2
  <2> HIDE DEF V
  <2>2. \A t \in States : V[AsrStep[t]] = V[t] \div 2
    BY <1>1, <2>1, RightSteps
  <2>3. \A k \in Nat : V[R(k)] = V[Cleared(s)] \div Power(k)
    BY <1>1, <1>2, <2>1, <2>2, HalvedTimes
  <2>4. \A k \in Nat : R(k) \in States
    BY <1>1, StepsOf
  <2> QED BY <1>2, <2>1, <2>3, <2>4
<1>7. \A k \in Nat : A(k).lo = L(k).lo /\ L(k).cc = A(k).cc \ {"V"}
  BY SideBySide
<1>8. \A k \in Nat : "V" \in A(k).cc <=> Signed(u) * Power(k) \notin -SignBit .. SignBit - 1
  BY AslV
<1>9. \A k \in Nat : /\ "C" \in L(k + 1).cc <=> Sign(L(k).lo)
                     /\ "C" \in Q(k + 1).cc <=> Q(k).lo % 2 = 1
                     /\ "C" \in R(k + 1).cc <=> Signed(R(k).lo) % 2 = 1
  <2> SUFFICES ASSUME NEW k \in Nat
               PROVE  /\ "C" \in L(k + 1).cc <=> Sign(L(k).lo)
                      /\ "C" \in Q(k + 1).cc <=> Q(k).lo % 2 = 1
                      /\ "C" \in R(k + 1).cc <=> Signed(R(k).lo) % 2 = 1
    OBVIOUS
  <2>1. L(k) \in States /\ L(k + 1) = LslStep[L(k)]
    BY <1>1, StepsOf
  <2>2. Q(k) \in States /\ Q(k + 1) = LsrStep[Q(k)]
    BY <1>1, StepsOf
  <2>3. R(k) \in States /\ R(k + 1) = AsrStep[R(k)]
    BY <1>1, StepsOf
  <2> HIDE DEF L, Q, R
  <2>4. "C" \in L(k + 1).cc <=> Sign(L(k).lo)
    <3>1. L(k + 1).cc = (L(k).cc \ {"C"}) \cup If(Sign(L(k).lo), "C")
      BY <2>1, LslStepIs
    <3> QED BY <3>1 DEF If
  <2>5. "C" \in Q(k + 1).cc <=> Q(k).lo % 2 = 1
    BY <2>2, RightSteps
  <2>6. "C" \in R(k + 1).cc <=> Signed(R(k).lo) % 2 = 1
    BY <2>3, RightSteps
  <2> QED BY <2>4, <2>5, <2>6
<1>10. n > 0 => n - 1 \in Nat /\ (n - 1) + 1 = n
  OBVIOUS
<1>11. n > 0 => ((u * Power(n)) \div Modulus) % 2 = Bit(Sign(L(n - 1).lo))
  <2>1. SUFFICES ASSUME n > 0
                 PROVE  ((u * Power(n)) \div Modulus) % 2 = Bit(Sign(L(n - 1).lo))
    OBVIOUS
  <2> DEFINE k == n - 1
             c == u * Power(k)
  <2>2. k \in Nat /\ k + 1 = n
    BY <1>10, <2>1
  <2> HIDE DEF k
  <2>3. c \in Int /\ u * Power(n) = 2 * c
    BY <1>3, <2>2, TwiceThe
  <2>4. L(k).lo = c % Modulus
    BY <1>4, <2>2
  <2> HIDE DEF c, L
  <2>5. ((2 * c) \div Modulus) % 2 = Bit(Sign(c % Modulus))
    BY <2>3, Doubled
  <2>6. ((u * Power(n)) \div Modulus) % 2 = Bit(Sign(L(k).lo))
    BY <2>3, <2>4, <2>5
  <2> QED BY <2>6 DEF k
<1>12. /\ Ends(Asl(s, n), A(n), s, n) /\ Ends(Lsl(s, n), L(n), s, n)
       /\ Ends(Asr(s, n), R(n), s, n) /\ Ends(Lsr(s, n), Q(n), s, n)
  <2>1. Ends(WithX(Shifted(AslStep(s), s, n), n), A(n), s, n)
    BY <1>1, EndOf
  <2>2. Ends(WithX(Shifted(LslStep, s, n), n), L(n), s, n)
    BY <1>1, EndOf
  <2>3. Ends(WithX(Shifted(AsrStep, s, n), n), R(n), s, n)
    BY <1>1, EndOf
  <2>4. Ends(WithX(Shifted(LsrStep, s, n), n), Q(n), s, n)
    BY <1>1, EndOf
  <2> HIDE DEF A, L, R, Q
  <2> QED BY <2>1, <2>2, <2>3, <2>4, WithSteps
<1> HIDE DEF A, L, R, Q
<1>13. Lsl(s, n).lo = Asl(s, n).lo /\ Lsl(s, n).cc = Asl(s, n).cc \ {"V"}
  <2>1. A(n).lo = L(n).lo /\ L(n).cc = A(n).cc \ {"V"}
    BY <1>7
  <2>2. "V" \notin NZ(L(n).lo)
    BY DEF NZ, If
  <2>3. Tested(L(n)) = Tested(A(n)) \ {"V"}
    BY <2>1, <2>2 DEF Tested
  <2>4. "V" \notin If("C" \in Tested(A(n)), "X") /\ ("C" \in Tested(L(n)) <=> "C" \in Tested(A(n)))
    BY <2>3 DEF If
  <2>5. If("C" \in Tested(L(n)), "X") = If("C" \in Tested(A(n)), "X")
    BY <2>4 DEF If
  <2>6. CASE n = 0
    BY <1>12, <2>1, <2>3, <2>6 DEF Ends
  <2>7. CASE n # 0
    BY <1>12, <2>1, <2>3, <2>4, <2>5, <2>7 DEF Ends
  <2> QED BY <2>6, <2>7
<1>14. Asl(s, n).lo = (Signed(u) * Power(n)) % Modulus
  BY <1>4, <1>7, <1>12 DEF Ends
<1>15. "V" \in Asl(s, n).cc <=> Signed(u) * Power(n) \notin -SignBit .. SignBit - 1
  BY <1>8, <1>12 DEF Ends
<1>16. Signed(Asr(s, n).lo) = Signed(u) \div Power(n) /\ Lsr(s, n).lo = u \div Power(n)
  BY <1>5, <1>6, <1>12 DEF Ends
<1>17. n > 0 => /\ "C" \in Lsl(s, n).cc <=> ((u * Power(n)) \div Modulus) % 2 = 1
                /\ "C" \in Lsr(s, n).cc <=> (u \div Power(n - 1)) % 2 = 1
                /\ "C" \in Asr(s, n).cc <=> (Signed(u) \div Power(n - 1)) % 2 = 1
  <2>1. SUFFICES ASSUME n > 0
                 PROVE  /\ "C" \in L(n).cc <=> ((u * Power(n)) \div Modulus) % 2 = 1
                        /\ "C" \in Q(n).cc <=> (u \div Power(n - 1)) % 2 = 1
                        /\ "C" \in R(n).cc <=> (Signed(u) \div Power(n - 1)) % 2 = 1
    BY <1>12 DEF Ends
  <2>2. /\ "C" \in L(n).cc <=> Sign(L(n - 1).lo)
        /\ "C" \in Q(n).cc <=> Q(n - 1).lo % 2 = 1
        /\ "C" \in R(n).cc <=> Signed(R(n - 1).lo) % 2 = 1
    BY <1>9, <1>10, <2>1
  <2>3. Bit(Sign(L(n - 1).lo)) = 1 <=> Sign(L(n - 1).lo)
    BY DEF Bit
  <2>4. Q(n - 1).lo = u \div Power(n - 1) /\ Signed(R(n - 1).lo) = Signed(u) \div Power(n - 1)
    BY <1>5, <1>6, <1>10, <2>1
  <2> QED BY <1>11, <2>1, <2>2, <2>3, <2>4
<1>18. \A t \in {Lsl(s, n), Lsr(s, n), Asr(s, n)} :
         "X" \in t.cc <=> IF n = 0 THEN "X" \in s.cc ELSE "C" \in t.cc
  BY <1>12 DEF Ends
<1> QED BY <1>13, <1>14, <1>15, <1>16, <1>17, <1>18 DEF u

\* For every width and count, shifts multiply and divide by powers of two, with V, C
\* and X as m68k_asl_* to m68k_lsr_* are to set them.
THEOREM ShiftsAreArithmeticAlways == Spec => []ShiftsAreArithmetic
<1>1. TypeOK => ShiftsAreArithmetic
  <2> SUFFICES ASSUME TypeOK PROVE ShiftsAreArithmetic
    OBVIOUS
  <2>1. cpu \in States /\ Counts \subseteq Nat
    BY CountsAssumption DEF TypeOK
  <2> QED BY <2>1, Shifts DEF ShiftsAreArithmetic
<1> QED BY <1>1, TypeOKHolds, PTL

------------------------------------------------------------------------------
(* Chains of sums and differences. *)

\* Half of the numbers of the whole register.
HalfWide == SignBit * Modulus

\* The whole register has twice as many numbers.
LEMMA HalfWideIs ==
  /\ HalfWide \in Nat \ {0} /\ Modulus * Modulus = 2 * HalfWide /\ Lowest = -HalfWide
<1> DEFINE b == SignBit
           m == Modulus
           p == b * m
<1>1. b \in Nat \ {0} /\ m = 2 * b /\ m \in Nat \ {0}
  BY WidthIs
<1>2. HalfWide = p /\ Lowest = -p
  BY DEF HalfWide, Lowest
<1> HIDE DEF b
<1>3. m * m = 2 * p /\ p \in Nat \ {0}
  <2>1. m * m = 2 * (b * m) /\ b * m \in Nat \ {0}
    <3> HIDE DEF m
    <3> QED BY <1>1, SMTT(30)
  <2> QED BY <2>1
<1> QED BY <1>2, <1>3 DEF m

\* The number of two operands.
LEMMA WideNumber ==
  ASSUME NEW h \in Operands, NEW l \in Operands
  PROVE  LET w == Modulus * h + l
         IN  /\ w \in 0 .. 2 * HalfWide - 1
             /\ w >= HalfWide <=> Sign(h)
             /\ w = 0 <=> h = 0 /\ l = 0
             /\ Modulus * h \in Int
<1> DEFINE m == Modulus
           b == SignBit
           p == m * h
           d == HalfWide
<1>1. m \in Nat \ {0} /\ m = 2 * b /\ b \in Nat \ {0} /\ h \in 0 .. m - 1 /\ l \in 0 .. m - 1
  BY WidthIs
<1>2. d \in Nat \ {0} /\ m * m = 2 * d /\ d = b * m
  BY HalfWideIs DEF HalfWide
<1>3. Sign(h) <=> h >= b
  BY DEF Sign
<1> HIDE DEF m, b, d
<1>4. p \in Nat /\ p <= m * (m - 1) /\ (h >= 1 => p >= m)
      /\ (h >= b => p >= m * b) /\ (h <= b - 1 => p <= m * (b - 1))
  <2>1. p \in Nat
    BY <1>1
  <2>2. m * h <= m * (m - 1)
    BY <1>1, SMTT(30)
  <2>3. h >= 1 => m * h >= m
    BY <1>1, SMTT(30)
  <2>4. h >= b => m * h >= m * b
    BY <1>1, SMTT(30)
  <2>5. h <= b - 1 => m * h <= m * (b - 1)
    BY <1>1, SMTT(30)
  <2> QED BY <2>1, <2>2, <2>3, <2>4, <2>5
<1>5. m * (m - 1) = 2 * d - m /\ m * b = d /\ m * (b - 1) = d - m
  <2>1. m * (m - 1) = m * m - m
    BY <1>1, SMTT(30)
  <2>2. m * b = b * m
    BY <1>1, SMTT(30)
  <2>3. m * (b - 1) = m * b - m
    BY <1>1, SMTT(30)
  <2> QED BY <1>2, <2>1, <2>2, <2>3
<1>6. h = 0 => p = 0
  BY <1>1
<1>7. p \in Nat /\ p <= 2 * d - m /\ (h >= 1 => p >= m) /\ (h >= b => p >= d) /\ (h <= b - 1 => p <= d - m)
  BY <1>4, <1>5
<1> HIDE DEF p
<1>8. p + l \in 0 .. 2 * d - 1
  BY <1>1, <1>2, <1>7
<1>9. p + l >= d <=> h >= b
  <2>1. CASE h >= b
    BY <1>1, <1>2, <1>7, <2>1
  <2>2. CASE ~(h >= b)
    <3>1. p <= d - m
      BY <1>1, <1>7, <2>2
    <3> QED BY <1>1, <1>2, <1>7, <2>2, <3>1
  <2> QED BY <2>1, <2>2
<1>10. p + l = 0 <=> h = 0 /\ l = 0
  BY <1>1, <1>6, <1>7
<1>11. p \in Int
  BY <1>7
<1> QED BY <1>3, <1>8, <1>9, <1>10, <1>11 DEF p, m, d

\* What a carry may be.
Carries == {0, 1}

\* Two halves hi and lo of a sum and of a difference, with a carry of c between
\* them and one of k out of them.
SumJoins(g, x, h, y, c, k, hi, lo) ==
  lo = (x + y) - c * Modulus /\ hi = (g + h + c) - k * Modulus
DiffJoins(g, x, h, y, c, k, hi, lo) ==
  lo = x - y + c * Modulus /\ hi = g - h - c + k * Modulus

\* The numbers of the halves.
SumIs(g, x, h, y, k, hi, lo) ==
  (Modulus * g + x) + (Modulus * h + y) = (Modulus * hi + lo) + k * (2 * HalfWide)
DiffIs(g, x, h, y, k, hi, lo) ==
  (Modulus * g + x) - (Modulus * h + y) = (Modulus * hi + lo) - k * (2 * HalfWide)

\* The numbers of the halves make up those of the sum and the difference.
LEMMA WideCarries ==
  ASSUME NEW g \in Operands, NEW h \in Operands, NEW x \in Operands, NEW y \in Operands,
         NEW c \in Carries, NEW k \in Carries, NEW hi \in Operands, NEW lo \in Operands
  PROVE  /\ SumJoins(g, x, h, y, c, k, hi, lo) => SumIs(g, x, h, y, k, hi, lo)
         /\ DiffJoins(g, x, h, y, c, k, hi, lo) => DiffIs(g, x, h, y, k, hi, lo)
<1> DEFINE m == Modulus
           d == HalfWide
           p == m * g
           q == m * h
           r == m * hi
           u == c * m
           v == k * (2 * d)
<1>1. /\ m \in Nat \ {0}
      /\ g \in Int /\ h \in Int /\ hi \in Int /\ x \in Int /\ y \in Int /\ lo \in Int
      /\ c \in Int /\ k \in Int
  BY WidthIs DEF Carries
<1>2. m * m = 2 * d /\ d \in Int
  BY HalfWideIs
<1> HIDE DEF m, d
<1>3. p \in Int /\ q \in Int /\ r \in Int /\ u \in Int /\ v \in Int
  BY <1>1, <1>2
<1>4. m * (k * m) = v /\ m * c = u
  <2>1. m * (k * m) = k * (m * m) /\ m * c = c * m
    BY <1>1, SMTT(30)
  <2> QED BY <1>2, <2>1
<1>5. ASSUME lo = (x + y) - c * m, hi = (g + h + c) - k * m
      PROVE  (p + x) + (q + y) = (r + lo) + v
  <2>1. m * hi = m * g + m * h + m * c - m * (k * m)
    BY <1>1, <1>5, SMTT(30)
  <2>2. r = p + q + u - v
    BY <1>4, <2>1
  <2>3. lo = (x + y) - u
    BY <1>5
  <2> HIDE DEF p, q, r, u, v
  <2> QED BY <1>1, <1>3, <2>2, <2>3
<1>6. ASSUME lo = x - y + c * m, hi = g - h - c + k * m
      PROVE  (p + x) - (q + y) = (r + lo) - v
  <2>1. m * hi = m * g - m * h - m * c + m * (k * m)
    BY <1>1, <1>6, SMTT(30)
  <2>2. r = p - q - u + v /\ lo = x - y + u
    BY <1>4, <1>6, <2>1
  <2> HIDE DEF p, q, r, u, v
  <2> QED BY <1>1, <1>3, <2>2
<1> QED BY <1>5, <1>6 DEF m, d, SumJoins, DiffJoins, SumIs, DiffIs

\* What is left of a multiple and a little more.
LEMMA Rest ==
  ASSUME NEW b \in Nat \ {0}, NEW k \in Int, NEW w \in 0 .. b - 1
  PROVE  (b * k + w) % b = w
<1> DEFINE a == b * k + w
<1>1. w \in Int /\ 0 <= w /\ w < b
  OBVIOUS
<1>2. a \in Int /\ a = b * k + w
  BY <1>1
<1> HIDE DEF a
<1>3. a % b = w
  BY <1>1, <1>2, DivUnique
<1> QED BY <1>2, <1>3

\* The flags of a sum or difference whose exact results are a and n.
LEMMA FlagsExact ==
  ASSUME NEW t, NEW w \in 0 .. 2 * HalfWide - 1, Wide(t) = w,
         w >= HalfWide <=> WideSign(t), "N" \in t.cc <=> WideSign(t),
         "Z" \in t.cc <=> w = 0,
         "X" \in t.cc <=> "C" \in t.cc,
         NEW a \in Int, NEW n \in Int, NEW k \in Int, NEW j \in Int,
         a = w + k * (2 * HalfWide), n = w + j * (2 * HalfWide),
         "C" \in t.cc <=> k # 0,
         "V" \in t.cc <=> ~(IF w >= HalfWide THEN j = -1 ELSE j = 0)
  PROVE  Wide(t) = a % (Modulus * Modulus) /\ ExactFlags(t, a, n)
<1> DEFINE d == HalfWide
           s == 2 * d
           u == k * s
           v == j * s
<1>1. d \in Nat \ {0} /\ s \in Nat \ {0} /\ Modulus * Modulus = s /\ Lowest = -d
  BY HalfWideIs
<1>2. w \in Int /\ 0 <= w /\ w < s
  BY <1>1
<1>3. u \in Int /\ v \in Int /\ a = w + u /\ n = w + v
  BY <1>1
<1>4. /\ k = 0 => u = 0
      /\ k > 0 => u >= s
      /\ k < 0 => u <= -s
  <2> HIDE DEF d, s
  <2>1. k > 0 => k * s >= s
    BY <1>1, SMTT(30)
  <2>2. k < 0 => k * s <= -s
    BY <1>1, SMTT(30)
  <2> QED BY <1>1, <2>1, <2>2
<1>5. /\ j = 0 => v = 0
      /\ j = -1 => v = -s
      /\ j > 0 => v >= s
      /\ j < -1 => v <= -(2 * s)
  <2> HIDE DEF d, s
  <2>1. j > 0 => j * s >= s
    BY <1>1, SMTT(30)
  <2>2. j < -1 => j * s <= -(2 * s)
    BY <1>1, SMTT(30)
  <2> QED BY <1>1, <2>1, <2>2
<1>6. a % s = w
  <2>1. a = s * k + w
    <3>1. s * k = k * s
      BY <1>1
    <3> QED BY <1>3, <3>1
  <2>2. s \in Nat \ {0} /\ w \in 0 .. s - 1
    BY <1>1
  <2> HIDE DEF s
  <2>3. (s * k + w) % s = w
    BY <2>2, Rest
  <2> QED BY <2>1, <2>3
<1>7. a \notin 0 .. s - 1 <=> k # 0
  <2> HIDE DEF u, s
  <2> QED BY <1>1, <1>2, <1>3, <1>4
<1>8. n \notin -d .. d - 1 <=> ~(IF w >= d THEN j = -1 ELSE j = 0)
  <2>1. s = 2 * d
    OBVIOUS
  <2> HIDE DEF v, s, d
  <2>2. CASE w >= d
    BY <1>1, <1>2, <1>3, <1>5, <2>1, <2>2
  <2>3. CASE ~(w >= d)
    BY <1>1, <1>2, <1>3, <1>5, <2>1, <2>3
  <2> QED BY <2>2, <2>3
<1>9. /\ "C" \in t.cc <=> a \notin 0 .. Modulus * Modulus - 1
      /\ "V" \in t.cc <=> n \notin Lowest .. -Lowest - 1
  <2>1. -Lowest - 1 = d - 1
    BY <1>1
  <2> HIDE DEF s, d
  <2> QED BY <1>1, <1>7, <1>8, <2>1 DEF s, d
<1>10. "Z" \in t.cc <=> Wide(t) = 0
  OBVIOUS
<1> QED BY <1>1, <1>6, <1>9, <1>10 DEF ExactFlags

SumFlags(r, v, c) == NZ(r) \cup If(v, "V") \cup If(c, "C") \cup If(c, "X")

\* The register and the flags of a result.
LEMMA ResultFlags ==
  ASSUME NEW s \in States, NEW r \in Operands, NEW v, NEW c
  PROVE  /\ Result(s, r, v, c) \in States /\ Result(s, r, v, c).lo = r
         /\ Result(s, r, v, c).cc = SumFlags(r, v, c)
         /\ Extended(s, r, v, c).lo = r
         /\ Extended(s, r, v, c).cc =
              (SumFlags(r, v, c) \ {"Z"}) \cup If(r = 0 /\ "Z" \in s.cc, "Z")
<1> DEFINE t == Result(s, r, v, c)
           e == Extended(s, r, v, c)
           f == SumFlags(r, v, c)
           z == If(r = 0 /\ "Z" \in s.cc, "Z")
<1>1. t \in States /\ e \in States
  BY ResultFits
<1>2. t = [s EXCEPT !.lo = r, !.cc = f]
  BY DEF Result, SumFlags
<1>3. e = [t EXCEPT !.cc = (t.cc \ {"Z"}) \cup z]
  BY DEF Extended
<1>4. t.lo = r /\ t.cc = f
  <2> HIDE DEF t, f
  <2> QED BY <1>2 DEF States
<1>5. e.lo = r /\ e.cc = (f \ {"Z"}) \cup z
  <2> HIDE DEF t, e, f, z
  <2> QED BY <1>1, <1>3, <1>4 DEF States
<1> QED BY <1>1, <1>4, <1>5

\* The sum of two numbers and the one of three, with their carries.
LEMMA Carry ==
  ASSUME NEW x \in Operands, NEW y \in Operands, NEW c \in {0, 1}
  PROVE  /\ (x + y + c) % Modulus = IF x + y + c >= Modulus THEN (x + y + c) - Modulus ELSE x + y + c
         /\ (x - y - c) % Modulus = IF x < y + c THEN x - y - c + Modulus ELSE x - y - c
<1> DEFINE m == Modulus
           a == x + y + c
           b == x - y - c
<1>1. m \in Nat \ {0} /\ x \in 0 .. m - 1 /\ y \in 0 .. m - 1
  BY WidthIs
<1> HIDE DEF m
<1>2. a \in Int /\ -m <= a /\ 0 <= a /\ a < 2 * m /\ b \in Int /\ -m <= b /\ b < m /\ b < 2 * m
  BY <1>1
<1>3. b < 0 <=> x < y + c
  BY <1>1
<1>4. a % m = IF a >= m THEN a - m ELSE a
  <2> HIDE DEF a
  <2>1. a % m = IF a < 0 THEN a + m ELSE IF a < m THEN a ELSE a - m
    BY <1>1, <1>2, Reduced
  <2> QED BY <1>1, <1>2, <2>1
<1>5. b % m = IF b < 0 THEN b + m ELSE b
  <2> HIDE DEF b
  <2>1. b % m = IF b < 0 THEN b + m ELSE IF b < m THEN b ELSE b - m
    BY <1>1, <1>2, Reduced
  <2> QED BY <1>1, <1>2, <2>1
<1>6. b % m = IF x < y + c THEN b + m ELSE b
  BY <1>3, <1>5
<1>7. a % m = IF x + y + c >= m THEN a - m ELSE a
  BY <1>4
<1> QED BY <1>6, <1>7, Zenon DEF m

\* The sum and the difference of two numbers, with their carries.
LEMMA CarryOfTwo ==
  ASSUME NEW x \in Operands, NEW y \in Operands
  PROVE  /\ (x + y) % Modulus = IF x + y >= Modulus THEN (x + y) - Modulus ELSE x + y
         /\ (x - y) % Modulus = IF x < y THEN x - y + Modulus ELSE x - y
<1> DEFINE m == Modulus
           a == x + y
           b == x - y
<1>1. m \in Nat \ {0} /\ x \in 0 .. m - 1 /\ y \in 0 .. m - 1
  BY WidthIs
<1> HIDE DEF m
<1>2. a \in Int /\ -m <= a /\ 0 <= a /\ a < 2 * m /\ b \in Int /\ -m <= b /\ b < m /\ b < 2 * m
  BY <1>1
<1>3. b < 0 <=> x < y
  BY <1>1
<1>4. a % m = IF a >= m THEN a - m ELSE a
  <2> HIDE DEF a
  <2>1. a % m = IF a < 0 THEN a + m ELSE IF a < m THEN a ELSE a - m
    BY <1>1, <1>2, Reduced
  <2> QED BY <1>1, <1>2, <2>1
<1>5. b % m = IF b < 0 THEN b + m ELSE b
  <2> HIDE DEF b
  <2>1. b % m = IF b < 0 THEN b + m ELSE IF b < m THEN b ELSE b - m
    BY <1>1, <1>2, Reduced
  <2> QED BY <1>1, <1>2, <2>1
<1>6. b % m = IF x < y THEN b + m ELSE b
  BY <1>3, <1>5
<1>7. a % m = IF x + y >= m THEN a - m ELSE a
  BY <1>4
<1> QED BY <1>6, <1>7, Zenon DEF m

\* A number and its signed reading.
LEMMA WideReadings ==
  ASSUME NEW s, s.hi \in Operands, s.lo \in Operands
  PROVE  /\ Wide(s) \in Int
         /\ WideSigned(s) = Wide(s) - Bit(Sign(s.hi)) * (2 * HalfWide)
<1> DEFINE sq == 2 * HalfWide
           p == Wide(s)
<1>1. sq \in Int /\ Modulus * Modulus = sq
  BY HalfWideIs
<1>2. 0 * sq = 0 /\ 1 * sq = sq
  BY <1>1
<1>3. p \in Int
  <2>1. Modulus * s.hi \in Int /\ s.lo \in Int
    BY WideNumber, WidthIs
  <2> QED BY <2>1 DEF Wide
<1>4. WideSigned(s) = IF Sign(s.hi) THEN p - sq ELSE p
  BY <1>1 DEF WideSigned, WideSign
<1> HIDE DEF sq, p
<1>5. WideSigned(s) = p - Bit(Sign(s.hi)) * sq
  BY <1>1, <1>2, <1>3, <1>4 DEF Bit
<1> QED BY <1>3, <1>5 DEF sq, p

\* The steps of a chain: what the second operation is given of the first.
LEMMA Middle ==
  ASSUME NEW s \in States, NEW first \in States
  PROVE  LET t == [first EXCEPT !.lo = s.hi]
         IN  t \in States /\ t.lo = s.hi /\ t.cc = first.cc /\ X(t) = X(first)
<1> DEFINE t == [first EXCEPT !.lo = s.hi]
<1>1. s.hi \in Operands
  BY Changed
<1>2. t \in States
  BY <1>1, Changed
<1>3. t.lo = s.hi /\ t.cc = first.cc
  BY DEF States
<1> HIDE DEF t
<1> QED BY <1>2, <1>3 DEF t, X

\* What the flags of a chain say, in terms of its halves.
ChainFlags(cc, hi, lo, carry, overflow) ==
  /\ "X" \in cc <=> carry
  /\ "C" \in cc <=> carry
  /\ "V" \in cc <=> overflow
  /\ "N" \in cc <=> Sign(hi)
  /\ "Z" \in cc <=> hi = 0 /\ lo = 0

\* The halves of ADD and ADDX in a chain, the carries and the flags.
LEMMA SumHalves ==
  ASSUME NEW s \in States, NEW high \in Operands, NEW low \in Operands
  PROVE  \E hi, lo \in Operands, c, k \in Carries, cc \in SUBSET Flags :
           /\ Chain(Add, Addx, s, high, low) = [hi |-> hi, lo |-> lo, cc |-> cc]
           /\ SumJoins(s.hi, s.lo, high, low, c, k, hi, lo)
           /\ ChainFlags(cc, hi, lo, k = 1, SumOverflows(s.hi, high, hi))
<1> DEFINE first == Add(s, low)
           mid == [first EXCEPT !.lo = s.hi]
           second == Addx(mid, high)
           c == X(first)
           lo == (s.lo + low) % Modulus
           hi == (s.hi + high + c) % Modulus
           v == SumOverflows(s.lo, low, lo)
           o == SumOverflows(s.hi, high, hi)
           b == s.lo + low >= Modulus
           e == s.hi + high + c >= Modulus
           k == Bit(e)
<1>1. s.hi \in Operands /\ s.lo \in Operands
  BY Changed
<1>2. c \in {0, 1} /\ k \in {0, 1} /\ (k = 1 <=> e)
  BY XIsBit DEF Bit
<1>3. lo \in Operands /\ hi \in Operands
  <2>1. s.lo + low \in Int /\ s.hi + high + c \in Int
    BY <1>1, <1>2, WidthIs
  <2> HIDE DEF c
  <2> QED BY <2>1, Remainder
<1>5. first = Result(s, lo, v, b)
  BY DEF Add
<1>6. first \in States /\ first.lo = lo /\ ("X" \in first.cc <=> b) /\ ("Z" \in first.cc <=> lo = 0)
  <2>1. Result(s, lo, v, b) \in States /\ Result(s, lo, v, b).lo = lo
        /\ Result(s, lo, v, b).cc = SumFlags(lo, v, b)
    <3> HIDE DEF lo, v, b
    <3> QED BY <1>3, ResultFlags
  <2> HIDE DEF first, lo, v
  <2> QED BY <1>5, <2>1 DEF SumFlags, NZ, If
<1>7. mid \in States /\ mid.lo = s.hi /\ mid.cc = first.cc /\ X(mid) = c
  <2> HIDE DEF first
  <2> QED BY <1>6, Middle
<1>8. second = Extended(mid, hi, o, e)
  <2> HIDE DEF mid
  <2> QED BY <1>7 DEF Addx
<1>9. second.lo = hi /\ ChainFlags(second.cc, hi, lo, k = 1, o)
  <2>1. Extended(mid, hi, o, e).lo = hi
        /\ Extended(mid, hi, o, e).cc =
             (SumFlags(hi, o, e) \ {"Z"}) \cup If(hi = 0 /\ "Z" \in mid.cc, "Z")
    <3> HIDE DEF mid, hi, o, e
    <3> QED BY <1>3, <1>7, ResultFlags
  <2> HIDE DEF second, mid, first, hi, lo, e, k
  <2>2. o \in BOOLEAN
    BY DEF SumOverflows
  <2> HIDE DEF o
  <2>3. /\ "X" \in second.cc <=> e
        /\ "C" \in second.cc <=> e
        /\ "V" \in second.cc <=> o
        /\ "N" \in second.cc <=> Sign(hi)
        /\ "Z" \in second.cc <=> hi = 0 /\ "Z" \in mid.cc
    BY <1>8, <2>1, <2>2 DEF SumFlags, NZ, If
  <2> QED BY <1>2, <1>6, <1>7, <1>8, <2>1, <2>3 DEF ChainFlags
<1>10. Chain(Add, Addx, s, high, low) = [hi |-> hi, lo |-> lo, cc |-> second.cc]
  <2>1. Chain(Add, Addx, s, high, low) = [hi |-> second.lo, lo |-> first.lo, cc |-> second.cc]
    BY DEF Chain
  <2> HIDE DEF second, mid, first, hi, lo
  <2> QED BY <1>6, <1>9, <2>1
<1>11. lo = (s.lo + low) - c * Modulus
  <2>1. c = 1 <=> b
    <3> HIDE DEF first, b
    <3> QED BY <1>6 DEF X
  <2>2. lo = IF b THEN (s.lo + low) - Modulus ELSE s.lo + low
    BY <1>1, CarryOfTwo
  <2>3. s.lo + low \in Int
    BY <1>1, WidthIs
  <2> HIDE DEF c, lo, b
  <2> QED BY <1>2, <2>1, <2>2, <2>3, WidthIs
<1>12. hi = (s.hi + high + c) - k * Modulus
  <2> HIDE DEF c
  <2>1. hi = IF e THEN (s.hi + high + c) - Modulus ELSE s.hi + high + c
    BY <1>1, <1>2, Carry
  <2>2. s.hi + high + c \in Int
    BY <1>1, <1>2, WidthIs
  <2> HIDE DEF e, hi, k
  <2> QED BY <1>2, <2>1, <2>2, WidthIs
<1>16. second.cc \in SUBSET Flags
  <2>1. second \in States
    <3> HIDE DEF mid
    <3> QED BY <1>7, SumsFit
  <2> HIDE DEF second
  <2> QED BY <2>1, Changed
<1> HIDE DEF second, hi, lo, c, k, o
<1>13. ChainFlags(second.cc, hi, lo, k = 1, SumOverflows(s.hi, high, hi))
  BY <1>9 DEF o
<1>14. c \in Carries /\ k \in Carries
  BY <1>2 DEF Carries
<1>15. SumJoins(s.hi, s.lo, high, low, c, k, hi, lo)
  BY <1>11, <1>12 DEF SumJoins
<1> QED BY <1>3, <1>10, <1>13, <1>14, <1>15, <1>16

\* The halves of SUB and SUBX in a chain, the borrows and the flags.
LEMMA DiffHalves ==
  ASSUME NEW s \in States, NEW high \in Operands, NEW low \in Operands
  PROVE  \E hi, lo \in Operands, c, k \in Carries, cc \in SUBSET Flags :
           /\ Chain(Sub, Subx, s, high, low) = [hi |-> hi, lo |-> lo, cc |-> cc]
           /\ DiffJoins(s.hi, s.lo, high, low, c, k, hi, lo)
           /\ ChainFlags(cc, hi, lo, k = 1, DifferenceOverflows(s.hi, high, hi))
<1> DEFINE first == Sub(s, low)
           mid == [first EXCEPT !.lo = s.hi]
           second == Subx(mid, high)
           c == X(first)
           lo == (s.lo - low) % Modulus
           hi == (s.hi - high - c) % Modulus
           v == DifferenceOverflows(s.lo, low, lo)
           o == DifferenceOverflows(s.hi, high, hi)
           b == s.lo < low
           e == s.hi < high + c
           k == Bit(e)
<1>1. s.hi \in Operands /\ s.lo \in Operands
  BY Changed
<1>2. c \in {0, 1} /\ k \in {0, 1} /\ (k = 1 <=> e)
  BY XIsBit DEF Bit
<1>3. lo \in Operands /\ hi \in Operands
  <2>1. s.lo - low \in Int /\ s.hi - high - c \in Int
    BY <1>1, <1>2, WidthIs
  <2> HIDE DEF c
  <2> QED BY <2>1, Remainder
<1>5. first = Result(s, lo, v, b)
  BY DEF Sub
<1>6. first \in States /\ first.lo = lo /\ ("X" \in first.cc <=> b) /\ ("Z" \in first.cc <=> lo = 0)
  <2>1. Result(s, lo, v, b) \in States /\ Result(s, lo, v, b).lo = lo
        /\ Result(s, lo, v, b).cc = SumFlags(lo, v, b)
    <3> HIDE DEF lo, v, b
    <3> QED BY <1>3, ResultFlags
  <2> HIDE DEF first, lo, v
  <2> QED BY <1>5, <2>1 DEF SumFlags, NZ, If
<1>7. mid \in States /\ mid.lo = s.hi /\ mid.cc = first.cc /\ X(mid) = c
  <2> HIDE DEF first
  <2> QED BY <1>6, Middle
<1>8. second = Extended(mid, hi, o, e)
  <2> HIDE DEF mid
  <2> QED BY <1>7 DEF Subx
<1>9. second.lo = hi /\ ChainFlags(second.cc, hi, lo, k = 1, o)
  <2>1. Extended(mid, hi, o, e).lo = hi
        /\ Extended(mid, hi, o, e).cc =
             (SumFlags(hi, o, e) \ {"Z"}) \cup If(hi = 0 /\ "Z" \in mid.cc, "Z")
    <3> HIDE DEF mid, hi, o, e
    <3> QED BY <1>3, <1>7, ResultFlags
  <2> HIDE DEF second, mid, first, hi, lo, e, k
  <2>2. o \in BOOLEAN
    BY DEF DifferenceOverflows
  <2> HIDE DEF o
  <2>3. /\ "X" \in second.cc <=> e
        /\ "C" \in second.cc <=> e
        /\ "V" \in second.cc <=> o
        /\ "N" \in second.cc <=> Sign(hi)
        /\ "Z" \in second.cc <=> hi = 0 /\ "Z" \in mid.cc
    BY <1>8, <2>1, <2>2 DEF SumFlags, NZ, If
  <2> QED BY <1>2, <1>6, <1>7, <1>8, <2>1, <2>3 DEF ChainFlags
<1>10. Chain(Sub, Subx, s, high, low) = [hi |-> hi, lo |-> lo, cc |-> second.cc]
  <2>1. Chain(Sub, Subx, s, high, low) = [hi |-> second.lo, lo |-> first.lo, cc |-> second.cc]
    BY DEF Chain
  <2> HIDE DEF second, mid, first, hi, lo
  <2> QED BY <1>6, <1>9, <2>1
<1>11. lo = s.lo - low + c * Modulus
  <2>1. c = 1 <=> b
    <3> HIDE DEF first, b
    <3> QED BY <1>6 DEF X
  <2>2. lo = IF b THEN s.lo - low + Modulus ELSE s.lo - low
    BY <1>1, CarryOfTwo
  <2>3. s.lo - low \in Int
    BY <1>1, WidthIs
  <2> HIDE DEF c, lo, b
  <2> QED BY <1>2, <2>1, <2>2, <2>3, WidthIs
<1>12. hi = s.hi - high - c + k * Modulus
  <2> HIDE DEF c
  <2>1. hi = IF e THEN s.hi - high - c + Modulus ELSE s.hi - high - c
    BY <1>1, <1>2, Carry
  <2>2. s.hi - high - c \in Int
    BY <1>1, <1>2, WidthIs
  <2> HIDE DEF e, hi, k
  <2> QED BY <1>2, <2>1, <2>2, WidthIs
<1>16. second.cc \in SUBSET Flags
  <2>1. second \in States
    <3> HIDE DEF mid
    <3> QED BY <1>7, SumsFit
  <2> HIDE DEF second
  <2> QED BY <2>1, Changed
<1> HIDE DEF second, hi, lo, c, k, o
<1>13. ChainFlags(second.cc, hi, lo, k = 1, DifferenceOverflows(s.hi, high, hi))
  BY <1>9 DEF o
<1>14. c \in Carries /\ k \in Carries
  BY <1>2 DEF Carries
<1>15. DiffJoins(s.hi, s.lo, high, low, c, k, hi, lo)
  BY <1>11, <1>12 DEF DiffJoins
<1> QED BY <1>3, <1>10, <1>13, <1>14, <1>15, <1>16

\* Overflow in terms of the carry and the signs.
LEMMA SumSigns ==
  ASSUME NEW g \in Operands, NEW h \in Operands, NEW hi \in Operands,
         NEW c \in Carries, NEW k \in Carries, NEW x, NEW y, NEW lo
  PROVE  SumJoins(g, x, h, y, c, k, hi, lo) =>
           LET j == k - Bit(Sign(g)) - Bit(Sign(h))
           IN  /\ j \in Int
               /\ SumOverflows(g, h, hi) <=> ~(IF Sign(hi) THEN j = -1 ELSE j = 0)
<1> DEFINE m == Modulus
           b == SignBit
           j == k - Bit(Sign(g)) - Bit(Sign(h))
<1>0. c \in {0, 1} /\ k \in {0, 1}
  BY DEF Carries
<1>1. m \in Nat \ {0} /\ m = 2 * b /\ b \in Nat \ {0}
      /\ g \in 0 .. m - 1 /\ h \in 0 .. m - 1 /\ hi \in 0 .. m - 1
  BY WidthIs
<1>2. SUFFICES ASSUME hi = (g + h + c) - k * m
               PROVE  j \in Int /\ (SumOverflows(g, h, hi) <=> ~(IF Sign(hi) THEN j = -1 ELSE j = 0))
  BY DEF SumJoins
<1>3. (Sign(g) <=> g >= b) /\ (Sign(h) <=> h >= b) /\ (Sign(hi) <=> hi >= b)
  BY DEF Sign
<1>4. j = k - (IF g >= b THEN 1 ELSE 0) - (IF h >= b THEN 1 ELSE 0)
  BY <1>3 DEF Bit
<1>5. SumOverflows(g, h, hi) <=> (g >= b <=> h >= b) /\ ~(hi >= b <=> g >= b)
  BY <1>3 DEF SumOverflows, Sign
<1> HIDE DEF m, b, j
<1>6. CASE g >= b /\ h >= b
  <2>1. k = 1
    BY <1>0, <1>1, <1>2, <1>6
  <2>2. j = -1
    BY <1>4, <1>6, <2>1
  <2> QED BY <1>3, <1>5, <1>6, <2>2
<1>7. CASE ~(g >= b) /\ ~(h >= b)
  <2>1. k = 0
    BY <1>0, <1>1, <1>2, <1>7
  <2>2. j = k - 0 - 0
    BY <1>0, <1>4, <1>7
  <2>3. j = 0
    BY <2>1, <2>2
  <2> QED BY <1>3, <1>5, <1>7, <2>3
<1>8. CASE ~(g >= b <=> h >= b)
  <2>1. j = k - 1
    BY <1>0, <1>4, <1>8
  <2>2. k = 1 <=> ~(hi >= b)
    BY <1>0, <1>1, <1>2, <1>8
  <2> QED BY <1>0, <1>3, <1>5, <1>8, <2>1, <2>2
<1> QED BY <1>6, <1>7, <1>8

\* The same of a difference.
LEMMA DiffSigns ==
  ASSUME NEW g \in Operands, NEW h \in Operands, NEW hi \in Operands,
         NEW c \in Carries, NEW k \in Carries, NEW x, NEW y, NEW lo
  PROVE  DiffJoins(g, x, h, y, c, k, hi, lo) =>
           LET j == (-k - Bit(Sign(g))) + Bit(Sign(h))
           IN  /\ j \in Int
               /\ DifferenceOverflows(g, h, hi) <=> ~(IF Sign(hi) THEN j = -1 ELSE j = 0)
<1> DEFINE m == Modulus
           b == SignBit
           j == (-k - Bit(Sign(g))) + Bit(Sign(h))
<1>0. c \in {0, 1} /\ k \in {0, 1}
  BY DEF Carries
<1>1. m \in Nat \ {0} /\ m = 2 * b /\ b \in Nat \ {0}
      /\ g \in 0 .. m - 1 /\ h \in 0 .. m - 1 /\ hi \in 0 .. m - 1
  BY WidthIs
<1>2. SUFFICES ASSUME hi = g - h - c + k * m
               PROVE  j \in Int /\ (DifferenceOverflows(g, h, hi) <=> ~(IF Sign(hi) THEN j = -1 ELSE j = 0))
  BY DEF DiffJoins
<1>3. (Sign(g) <=> g >= b) /\ (Sign(h) <=> h >= b) /\ (Sign(hi) <=> hi >= b)
  BY DEF Sign
<1>4. j = (-k - (IF g >= b THEN 1 ELSE 0)) + (IF h >= b THEN 1 ELSE 0)
  BY <1>3 DEF Bit
<1>5. DifferenceOverflows(g, h, hi) <=> ~(g >= b <=> h >= b) /\ ~(hi >= b <=> g >= b)
  BY <1>3 DEF DifferenceOverflows, Sign
<1> HIDE DEF m, b, j
<1>6. CASE g >= b /\ ~(h >= b)
  <2>1. k = 0
    BY <1>0, <1>1, <1>2, <1>6
  <2>2. j = -1
    BY <1>4, <1>6, <2>1
  <2> QED BY <1>3, <1>5, <1>6, <2>2
<1>7. CASE ~(g >= b) /\ h >= b
  <2>1. k = 1
    BY <1>0, <1>1, <1>2, <1>7
  <2>2. j = 0
    BY <1>4, <1>7, <2>1
  <2> QED BY <1>3, <1>5, <1>7, <2>2
<1>8. CASE g >= b <=> h >= b
  <2>1. j = -k
    BY <1>0, <1>4, <1>8
  <2>2. k = 0 <=> ~(hi >= b)
    BY <1>0, <1>1, <1>2, <1>8
  <2> QED BY <1>0, <1>3, <1>5, <1>8, <2>1, <2>2
<1> QED BY <1>6, <1>7, <1>8

\* The flags of a chain whose exact results are a and n, k and j moduli of the
\* whole register away.
Reads(cc, hi, lo, k, j, a, n) ==
  /\ ChainFlags(cc, hi, lo, k # 0, ~(IF Sign(hi) THEN j = -1 ELSE j = 0))
  /\ a = (Modulus * hi + lo) + k * (2 * HalfWide)
  /\ n = (Modulus * hi + lo) + j * (2 * HalfWide)

\* The flags of a chain are those of the exact results.
LEMMA ChainFlagsExact ==
  ASSUME NEW hi \in Operands, NEW lo \in Operands, NEW cc,
         NEW a \in Int, NEW n \in Int, NEW k \in Int, NEW j \in Int,
         Reads(cc, hi, lo, k, j, a, n)
  PROVE  LET t == [hi |-> hi, lo |-> lo, cc |-> cc]
         IN  Wide(t) = a % (Modulus * Modulus) /\ ExactFlags(t, a, n)
<1> DEFINE t == [hi |-> hi, lo |-> lo, cc |-> cc]
           w == Modulus * hi + lo
<1>1. w \in 0 .. 2 * HalfWide - 1 /\ (w >= HalfWide <=> Sign(hi)) /\ (w = 0 <=> hi = 0 /\ lo = 0)
  BY WideNumber
<1>2. t.hi = hi /\ t.lo = lo /\ t.cc = cc
  OBVIOUS
<1> HIDE DEF t
<1>3. Wide(t) = w /\ (WideSign(t) <=> Sign(hi))
  BY <1>2 DEF Wide, WideSign
<1> HIDE DEF w
<1>4. /\ "N" \in t.cc <=> WideSign(t)
      /\ "Z" \in t.cc <=> w = 0
      /\ "X" \in t.cc <=> "C" \in t.cc
      /\ "C" \in t.cc <=> k # 0
      /\ "V" \in t.cc <=> ~(IF Sign(hi) THEN j = -1 ELSE j = 0)
  BY <1>1, <1>2, <1>3, Zenon DEF ChainFlags, Reads
<1>5. "V" \in t.cc <=> ~(IF w >= HalfWide THEN j = -1 ELSE j = 0)
  BY <1>1, <1>4, Zenon
<1>6. a = w + k * (2 * HalfWide) /\ n = w + j * (2 * HalfWide) /\ (w >= HalfWide <=> WideSign(t))
  BY <1>1, <1>3, Zenon DEF w, Reads
<1>7. Wide(t) = a % (Modulus * Modulus) /\ ExactFlags(t, a, n)
  BY <1>1, <1>3, <1>4, <1>5, <1>6, FlagsExact
<1> QED BY <1>7 DEF t

\* ADD and ADDX add numbers of twice the width.
LEMMA SumIsWide ==
  ASSUME NEW s \in States, NEW high \in Operands, NEW low \in Operands
  PROVE  LET y == [hi |-> high, lo |-> low]
             sum == Chain(Add, Addx, s, high, low)
         IN  /\ Wide(sum) = (Wide(s) + Wide(y)) % (Modulus * Modulus)
             /\ ExactFlags(sum, Wide(s) + Wide(y), WideSigned(s) + WideSigned(y))
<1> DEFINE y == [hi |-> high, lo |-> low]
           sum == Chain(Add, Addx, s, high, low)
           a == Wide(s) + Wide(y)
           n == WideSigned(s) + WideSigned(y)
           q == 2 * HalfWide
           g == Bit(Sign(s.hi))
           h == Bit(Sign(high))
<1>1. PICK hi \in Operands, lo \in Operands, c \in Carries, k \in Carries, cc \in SUBSET Flags :
           /\ sum = [hi |-> hi, lo |-> lo, cc |-> cc]
           /\ SumJoins(s.hi, s.lo, high, low, c, k, hi, lo)
           /\ ChainFlags(cc, hi, lo, k = 1, SumOverflows(s.hi, high, hi))
  BY SumHalves
<1> DEFINE w == Modulus * hi + lo
           j == k - g - h
<1>2. s.hi \in Operands /\ s.lo \in Operands /\ y.hi = high /\ y.lo = low
  BY Changed
<1>3. j \in Int /\ (SumOverflows(s.hi, high, hi) <=> ~(IF Sign(hi) THEN j = -1 ELSE j = 0))
  BY <1>1, <1>2, SumSigns
<1>4. a = w + k * q
  <2>0. SumJoins(s.hi, s.lo, high, low, c, k, hi, lo)
    BY <1>1
  <2> HIDE DEF y
  <2>1. SumIs(s.hi, s.lo, high, low, k, hi, lo)
    BY <2>0, <1>2, WideCarries
  <2> QED BY <1>2, <2>1 DEF Wide, SumIs
<1>5. /\ Wide(s) \in Int /\ WideSigned(s) = Wide(s) - g * q
      /\ Wide(y) \in Int /\ WideSigned(y) = Wide(y) - h * q
  <2> HIDE DEF y
  <2> QED BY <1>2, WideReadings
<1>6. q \in Int /\ g \in Int /\ h \in Int /\ k \in Int /\ (k = 1 <=> k # 0)
  BY HalfWideIs DEF Bit, Carries
<1>7. w \in Int
  BY WideNumber
<1> HIDE DEF y, q, g, h, w
<1>8. a \in Int /\ n \in Int
  BY <1>5, <1>6
<1>9. n = w + j * q
  <2> DEFINE kq == k * q
             gq == g * q
             hq == h * q
  <2>1. j * q = kq - gq - hq
    BY <1>6, SMTT(30)
  <2>2. kq \in Int /\ gq \in Int /\ hq \in Int
    BY <1>6
  <2>3. n = (Wide(s) - gq) + (Wide(y) - hq) /\ a = w + kq /\ a = Wide(s) + Wide(y)
    BY <1>4, <1>5
  <2> HIDE DEF kq, gq, hq, a, n, j
  <2> QED BY <1>5, <1>7, <2>1, <2>2, <2>3
<1> HIDE DEF a, n, j
<1>10. ChainFlags(cc, hi, lo, k # 0, ~(IF Sign(hi) THEN j = -1 ELSE j = 0))
  <2>1. k = 1 <=> k # 0
    BY <1>6
  <2> QED BY <1>1, <1>3, <2>1, Zenon DEF ChainFlags
<1>11. LET t == [hi |-> hi, lo |-> lo, cc |-> cc]
       IN  Wide(t) = a % (Modulus * Modulus) /\ ExactFlags(t, a, n)
  <2>1. a = (Modulus * hi + lo) + k * (2 * HalfWide) /\ n = (Modulus * hi + lo) + j * (2 * HalfWide)
    BY <1>4, <1>9 DEF w, q
  <2>2. k \in Int
    BY <1>6
  <2>3. Reads(cc, hi, lo, k, j, a, n)
    BY <1>10, <2>1 DEF Reads
  <2> HIDE DEF sum
  <2> QED BY <1>3, <1>8, <2>2, <2>3, ChainFlagsExact
<1> HIDE DEF sum
<1>12. Wide(sum) = a % (Modulus * Modulus) /\ ExactFlags(sum, a, n)
  BY <1>1, <1>11
<1> QED BY <1>12 DEF sum, a, n, y

\* SUB and SUBX subtract them.
LEMMA DiffIsWide ==
  ASSUME NEW s \in States, NEW high \in Operands, NEW low \in Operands
  PROVE  LET y == [hi |-> high, lo |-> low]
             diff == Chain(Sub, Subx, s, high, low)
         IN  /\ Wide(diff) = (Wide(s) - Wide(y)) % (Modulus * Modulus)
             /\ ExactFlags(diff, Wide(s) - Wide(y), WideSigned(s) - WideSigned(y))
<1> DEFINE y == [hi |-> high, lo |-> low]
           diff == Chain(Sub, Subx, s, high, low)
           a == Wide(s) - Wide(y)
           n == WideSigned(s) - WideSigned(y)
           q == 2 * HalfWide
           g == Bit(Sign(s.hi))
           h == Bit(Sign(high))
<1>1. PICK hi \in Operands, lo \in Operands, c \in Carries, k \in Carries, cc \in SUBSET Flags :
           /\ diff = [hi |-> hi, lo |-> lo, cc |-> cc]
           /\ DiffJoins(s.hi, s.lo, high, low, c, k, hi, lo)
           /\ ChainFlags(cc, hi, lo, k = 1, DifferenceOverflows(s.hi, high, hi))
  BY DiffHalves
<1> DEFINE w == Modulus * hi + lo
           j == (-k - g) + h
<1>2. s.hi \in Operands /\ s.lo \in Operands /\ y.hi = high /\ y.lo = low
  BY Changed
<1>3. j \in Int /\ (DifferenceOverflows(s.hi, high, hi) <=> ~(IF Sign(hi) THEN j = -1 ELSE j = 0))
  BY <1>1, <1>2, DiffSigns
<1>4. a = w - k * q
  <2>0. DiffJoins(s.hi, s.lo, high, low, c, k, hi, lo)
    BY <1>1
  <2> HIDE DEF y
  <2>1. DiffIs(s.hi, s.lo, high, low, k, hi, lo)
    BY <2>0, <1>2, WideCarries
  <2> QED BY <1>2, <2>1 DEF Wide, DiffIs
<1>5. /\ Wide(s) \in Int /\ WideSigned(s) = Wide(s) - g * q
      /\ Wide(y) \in Int /\ WideSigned(y) = Wide(y) - h * q
  <2> HIDE DEF y
  <2> QED BY <1>2, WideReadings
<1>6. q \in Int /\ g \in Int /\ h \in Int /\ k \in Int /\ (k = 1 <=> -k # 0)
  BY HalfWideIs DEF Bit, Carries
<1>7. w \in Int
  BY WideNumber
<1> HIDE DEF y, q, g, h, w
<1>8. a \in Int /\ n \in Int
  BY <1>5, <1>6
<1>9. n = w + j * q
  <2> DEFINE kq == k * q
             gq == g * q
             hq == h * q
  <2>1. j * q = (-kq - gq) + hq
    BY <1>6, SMTT(30)
  <2>2. kq \in Int /\ gq \in Int /\ hq \in Int
    BY <1>6
  <2>3. n = (Wide(s) - gq) - (Wide(y) - hq) /\ a = w - kq /\ a = Wide(s) - Wide(y)
    BY <1>4, <1>5
  <2> HIDE DEF kq, gq, hq, a, n, j
  <2> QED BY <1>5, <1>7, <2>1, <2>2, <2>3
<1> HIDE DEF a, n, j
<1>10. ChainFlags(cc, hi, lo, -k # 0, ~(IF Sign(hi) THEN j = -1 ELSE j = 0))
  <2>1. k = 1 <=> -k # 0
    BY <1>6
  <2> QED BY <1>1, <1>3, <2>1, Zenon DEF ChainFlags
<1>11. LET t == [hi |-> hi, lo |-> lo, cc |-> cc]
       IN  Wide(t) = a % (Modulus * Modulus) /\ ExactFlags(t, a, n)
  <2>1. a = (Modulus * hi + lo) + (-k) * (2 * HalfWide) /\ n = (Modulus * hi + lo) + j * (2 * HalfWide)
    <3>1. -(k * q) = (-k) * q
      BY <1>6, SMTT(30)
    <3>2. a = w + (-k) * q
      BY <1>4, <1>6, <1>7, <3>1
    <3> QED BY <1>9, <3>2 DEF w, q
  <2>2. -k \in Int
    BY <1>6
  <2>3. Reads(cc, hi, lo, -k, j, a, n)
    BY <1>10, <2>1 DEF Reads
  <2> HIDE DEF diff
  <2> QED BY <1>3, <1>8, <2>2, <2>3, ChainFlagsExact
<1> HIDE DEF diff
<1>12. Wide(diff) = a % (Modulus * Modulus) /\ ExactFlags(diff, a, n)
  BY <1>1, <1>11
<1> QED BY <1>12 DEF diff, a, n, y

\* Chains of ADD and ADDX and of SUB and SUBX are sums and differences of twice
\* the width, flags included.
THEOREM ChainsAreWideAlways == Spec => []ChainsAreWide
<1>1. TypeOK => ChainsAreWide
  <2>1. SUFFICES ASSUME TypeOK, NEW high \in Source, NEW low \in Source
                 PROVE  LET y == [hi |-> high, lo |-> low]
                            sum == Chain(Add, Addx, cpu, high, low)
                            diff == Chain(Sub, Subx, cpu, high, low)
                        IN  /\ Wide(sum) = (Wide(cpu) + Wide(y)) % (Modulus * Modulus)
                            /\ ExactFlags(sum, Wide(cpu) + Wide(y), WideSigned(cpu) + WideSigned(y))
                            /\ Wide(diff) = (Wide(cpu) - Wide(y)) % (Modulus * Modulus)
                            /\ ExactFlags(diff, Wide(cpu) - Wide(y), WideSigned(cpu) - WideSigned(y))
    BY DEF ChainsAreWide
  <2>2. cpu \in States /\ high \in Operands /\ low \in Operands
    BY <2>1, SourceAssumption DEF TypeOK
  <2> QED BY <2>2, SumIsWide, DiffIsWide
<1> QED BY <1>1, TypeOKHolds, PTL

------------------------------------------------------------------------------
(* Division. *)

\* The quotient and remainder of natural numbers.
LEMMA NatQuotient ==
  ASSUME NEW a \in Nat, NEW e \in Nat \ {0}
  PROVE  /\ a \div e \in Nat /\ a % e \in 0 .. e - 1
         /\ a = (a \div e) * e + (a % e) /\ (a \div e) * e \in Nat
<1> DEFINE q == a \div e
           r == a % e
<1>1. q \in Int /\ r \in 0 .. e - 1 /\ a = e * q + r
  BY DivMod
<1> HIDE DEF q, r
<1>2. e * q = q * e
  BY <1>1, SMTT(30)
<1>3. q >= 0
  <2>1. SUFFICES ASSUME q <= -1 PROVE FALSE
    BY <1>1
  <2>2. e * q <= -e
    BY <1>1, <2>1, SMTT(30)
  <2> DEFINE p == e * q
  <2>3. p \in Int /\ p <= -e /\ a = p + r
    BY <1>1, <2>2
  <2> HIDE DEF p
  <2> QED BY <1>1, <2>3
<1>4. q * e \in Nat
  BY <1>1, <1>3, SMTT(30)
<1> QED BY <1>1, <1>2, <1>3, <1>4 DEF q, r

\* The quotient of the code, and what it leaves.
Quotient(n, d) ==
  LET size == Abs(n) \div Abs(d) IN IF (n < 0) = (d < 0) THEN size ELSE -size

\* The quotient of the code is the one that C truncates towards zero.
LEMMA Truncated ==
  ASSUME NEW n \in Int, NEW d \in Int, d # 0
  PROVE  LET q == Quotient(n, d)
             r == n - q * d
         IN  /\ q \in Int /\ r \in Int
             /\ Abs(r) < Abs(d)
             /\ r # 0 => (r < 0) = (n < 0)
             /\ n = 0 => q = 0
<1> DEFINE a == Abs(n)
           e == Abs(d)
           size == a \div e
           m == a % e
           p == size * e
           q == Quotient(n, d)
           r == n - q * d
<1>1. a \in Nat /\ e \in Nat \ {0} /\ a = (IF n < 0 THEN -n ELSE n) /\ e = (IF d < 0 THEN -d ELSE d)
  BY DEF Abs
<1>2. size \in Nat /\ m \in 0 .. e - 1 /\ a = p + m /\ p \in Nat
  <2> HIDE DEF a, e
  <2>1. /\ a \div e \in Nat /\ a % e \in 0 .. e - 1
        /\ a = (a \div e) * e + (a % e) /\ (a \div e) * e \in Nat
    <3>1. a \in Nat /\ e \in Nat \ {0}
      BY <1>1
    <3> HIDE DEF size, m, p
    <3> QED BY <3>1, NatQuotient, Zenon
  <2> QED BY <2>1, Zenon
<1>3. q = IF (n < 0) = (d < 0) THEN size ELSE -size
  BY DEF Quotient
<1>4. n = 0 => size = 0
  <2>1. SUFFICES ASSUME n = 0 PROVE size = 0
    OBVIOUS
  <2>2. a = 0
    BY <1>1, <2>1
  <2>3. 0 \div e = 0
    <3> HIDE DEF e
    <3>1. 0 = e * 0 + 0
      BY <1>1
    <3> QED BY <1>1, <3>1, DivUnique
  <2> QED BY <2>2, <2>3
<1> HIDE DEF a, size, m
<1>5. q \in Int
  BY <1>2, <1>3
<1>6. q * d = IF n < 0 THEN -p ELSE p
  <2> HIDE DEF e
  <2>1. /\ size * e = p /\ (-size) * e = -p
        /\ size * (-e) = -p /\ (-size) * (-e) = p
    BY <1>1, <1>2, SMTT(30)
  <2> HIDE DEF q, p
  <2>2. CASE n < 0 /\ d < 0
    <3>1. q = size /\ d = -e
      BY <1>1, <1>3, <2>2
    <3> QED BY <2>1, <2>2, <3>1
  <2>3. CASE n < 0 /\ ~(d < 0)
    <3>1. q = -size /\ d = e
      BY <1>1, <1>3, <2>3
    <3> QED BY <2>1, <2>3, <3>1
  <2>4. CASE ~(n < 0) /\ d < 0
    <3>1. q = -size /\ d = -e
      BY <1>1, <1>3, <2>4
    <3> QED BY <2>1, <2>4, <3>1
  <2>5. CASE ~(n < 0) /\ ~(d < 0)
    <3>1. q = size /\ d = e
      BY <1>1, <1>3, <2>5
    <3> QED BY <2>1, <2>5, <3>1
  <2> QED BY <2>2, <2>3, <2>4, <2>5
<1> DEFINE z == q * d
<1>7. r = n - z /\ z = IF n < 0 THEN -p ELSE p
  BY <1>6
<1> HIDE DEF z, p, e, q, r
<1>8. r = IF n < 0 THEN -m ELSE m
  BY <1>1, <1>2, <1>7
<1>9. r \in Int /\ Abs(r) < e /\ (r # 0 => (r < 0) = (n < 0))
  BY <1>1, <1>2, <1>8 DEF Abs
<1>10. n = 0 => q = 0
  <2>1. q = size \/ q = -size
    BY <1>3, Zenon
  <2> QED BY <1>2, <1>4, <2>1
<1> QED BY <1>5, <1>9, <1>10 DEF e, q, r

\* No other number is a quotient.
LEMMA OnlyQuotient ==
  ASSUME NEW n \in Int, NEW d \in Int, d # 0, n # 0, NEW p \in Int, NEW q \in Int,
         Abs(n - q * d) < Abs(d), n - q * d # 0 => (n - q * d < 0) = (n < 0),
         Abs(n - p * d) < Abs(d), ~((n - p * d) * n < 0)
  PROVE  p = q
<1> DEFINE r == n - q * d
           s == n - p * d
           e == Abs(d)
           k == q - p
<1>1. r \in Int /\ s \in Int /\ e \in Int /\ e = (IF d < 0 THEN -d ELSE d) /\ k \in Int
  BY DEF Abs
<1>2. s - r = k * d
  BY SMTT(30)
<1>3. Abs(r) < e /\ (r # 0 => (r < 0) = (n < 0)) /\ Abs(s) < e /\ ~(s * n < 0)
  OBVIOUS
<1> HIDE DEF r, s, e, k
<1>4. (n > 0 => s >= 0) /\ (n < 0 => s <= 0)
  <2>1. n > 0 /\ s < 0 => s * n < 0
    BY <1>1, SMTT(30)
  <2>2. n < 0 /\ s > 0 => s * n < 0
    BY <1>1, SMTT(30)
  <2> QED BY <1>1, <1>3, <2>1, <2>2
<1>5. (n > 0 => r >= 0) /\ (n < 0 => r <= 0)
  BY <1>1, <1>3
<1>6. -e < s - r /\ s - r < e
  <2>1. -e < r /\ r < e /\ -e < s /\ s < e
    BY <1>1, <1>3 DEF Abs
  <2> QED BY <1>1, <1>4, <1>5, <2>1
<1>7. k = 0
  <2>1. SUFFICES ASSUME k # 0 PROVE FALSE
    OBVIOUS
  <2>2. k * d >= e \/ k * d <= -e
    <3>1. CASE k > 0 /\ d > 0
      <4>1. k * d >= d
        BY <1>1, <3>1, SMTT(30)
      <4> QED BY <1>1, <3>1, <4>1
    <3>2. CASE k > 0 /\ d < 0
      <4>1. k * d <= d
        BY <1>1, <3>2, SMTT(30)
      <4> QED BY <1>1, <3>2, <4>1
    <3>3. CASE k < 0 /\ d > 0
      <4>1. k * d <= -d
        BY <1>1, <3>3, SMTT(30)
      <4> QED BY <1>1, <3>3, <4>1
    <3>4. CASE k < 0 /\ d < 0
      <4>1. k * d >= -d
        BY <1>1, <3>4, SMTT(30)
      <4> QED BY <1>1, <3>4, <4>1
    <3> QED BY <1>1, <2>1, <3>1, <3>2, <3>3, <3>4
  <2> DEFINE t == k * d
  <2>3. (t >= e \/ t <= -e) /\ s - r = t
    BY <1>2, <2>2
  <2> HIDE DEF t
  <2> QED BY <1>1, <1>6, <2>3
<1> QED BY <1>7 DEF k

\* What DIV leaves, with and without an overflow.
LEMMA DividedIs ==
  ASSUME NEW s \in States, NEW q \in Int, NEW r \in Int
  PROVE  /\ LET t == Divided(s, q, r)
            IN  t.lo = q % Modulus /\ t.hi = r % Modulus /\ "V" \notin t.cc
         /\ LET t == Overflown(s)
            IN  t.lo = s.lo /\ t.hi = s.hi /\ "V" \in t.cc
<1>1. /\ Divided(s, q, r).lo = q % Modulus /\ Divided(s, q, r).hi = r % Modulus
      /\ Divided(s, q, r).cc = KeepX(s) \cup NZ(q % Modulus)
  BY DEF Divided
<1>2. "V" \notin KeepX(s) \cup NZ(q % Modulus)
  BY DEF KeepX, NZ, If
<1>3. Overflown(s).lo = s.lo /\ Overflown(s).hi = s.hi /\ "V" \in Overflown(s).cc
  BY DEF Overflown, States
<1> QED BY <1>1, <1>2, <1>3

\* The unsigned number of a register and its signed readings of operands.
LEMMA Reading ==
  /\ \A s \in States : Wide(s) \in 0 .. Modulus * Modulus - 1
  /\ \A v \in Operands : v % Modulus = v /\ v \in Nat
  /\ \A v \in -SignBit .. SignBit - 1 : Signed(v % Modulus) = v
<1>1. ASSUME NEW s \in States
      PROVE  Wide(s) \in 0 .. Modulus * Modulus - 1
  <2>1. s.hi \in Operands /\ s.lo \in Operands
    BY Changed
  <2>2. Modulus * s.hi + s.lo \in 0 .. 2 * HalfWide - 1
    BY <2>1, WideNumber
  <2>3. Modulus * Modulus = 2 * HalfWide
    BY HalfWideIs
  <2> QED BY <2>2, <2>3 DEF Wide
<1>2. ASSUME NEW v \in Operands
      PROVE  v % Modulus = v /\ v \in Nat
  <2>1. v % Modulus = v
    BY SignedIs
  <2>2. v \in Nat
    BY WidthIs
  <2> QED BY <2>1, <2>2
<1>3. ASSUME NEW v \in -SignBit .. SignBit - 1
      PROVE  Signed(v % Modulus) = v
  <2> DEFINE m == Modulus
             w == v % m
  <2>1. m \in Nat \ {0} /\ m = 2 * SignBit /\ SignBit \in Nat \ {0} /\ v \in Int
        /\ -SignBit <= v /\ v < SignBit /\ -m <= v /\ v < 2 * m
    BY WidthIs
  <2> HIDE DEF m
  <2>2. w = IF v < 0 THEN v + m ELSE IF v < m THEN v ELSE v - m
    <3>1. v % m = IF v < 0 THEN v + m ELSE IF v < m THEN v ELSE v - m
      BY <2>1, Reduced
    <3> QED BY <3>1
  <2> HIDE DEF w
  <2>3. Signed(w) = IF w >= SignBit THEN w - m ELSE w
    BY DEF Signed, Sign, m
  <2>4. Signed(w) = v
    BY <2>1, <2>2, <2>3
  <2> QED BY <2>4 DEF w, m
<1> QED BY <1>1, <1>2, <1>3

\* DIVU finds the quotient and remainder, or says that it does not fit.
LEMMA DivuIs ==
  ASSUME NEW s \in States, NEW y \in Operands \ {0}
  PROVE  LET u == Divu(s, y)
         IN  IF "V" \in u.cc THEN u.lo = s.lo /\ u.hi = s.hi /\ Wide(s) >= y * Modulus
             ELSE u.hi < y /\ u.lo * y + u.hi = Wide(s)
<1> DEFINE w == Wide(s)
           q == w \div y
           r == w % y
           m == Modulus
           p == q * y
<1>1. w \in Nat /\ y \in Nat \ {0} /\ y < m /\ m \in Nat \ {0}
  <2>1. w \in 0 .. m * m - 1
    BY Reading
  <2>2. y \in 0 .. m - 1 /\ y # 0
    BY WidthIs
  <2> QED BY <2>1, <2>2, WidthIs
<1>2. q \in Nat /\ r \in 0 .. y - 1 /\ w = p + r /\ p \in Nat
  <2>1. w \in Nat /\ y \in Nat \ {0}
    BY <1>1
  <2> HIDE DEF w
  <2>2. /\ w \div y \in Nat /\ w % y \in 0 .. y - 1
        /\ w = (w \div y) * y + (w % y) /\ (w \div y) * y \in Nat
    BY <2>1, NatQuotient, Zenon
  <2> QED BY <2>2, Zenon
<1>3. Divu(s, y) = IF q >= m THEN Overflown(s) ELSE Divided(s, q, r)
  BY DEF Divu
<1> HIDE DEF q, r, w, m
<1>4. CASE q >= m
  <2>1. q * y >= y * m
    BY <1>1, <1>2, <1>4, SMTT(30)
  <2>2. p >= y * m /\ y * m \in Int
    BY <1>1, <2>1
  <2>3. w >= y * m
    <3> DEFINE z == y * m
    <3>1. p >= z /\ z \in Int
      BY <2>2
    <3> HIDE DEF z, p
    <3>2. w >= z
      BY <1>1, <1>2, <3>1
    <3> QED BY <3>2 DEF z
  <2>4. Overflown(s).lo = s.lo /\ Overflown(s).hi = s.hi /\ "V" \in Overflown(s).cc
    BY DividedIs
  <2> QED BY <1>3, <1>4, <2>3, <2>4 DEF w, m
<1>5. CASE ~(q >= m)
  <2>1. q \in Operands /\ r \in Operands
    BY <1>1, <1>2, <1>5, WidthIs DEF m
  <2>2. q % Modulus = q /\ r % Modulus = r
    BY <2>1, Reading
  <2>3. q \in Int /\ r \in Int
    BY <1>2
  <2>4. Divided(s, q, r).lo = q /\ Divided(s, q, r).hi = r /\ "V" \notin Divided(s, q, r).cc
    BY <2>2, <2>3, DividedIs
  <2>5. r < y /\ q * y + r = w
    BY <1>1, <1>2
  <2> QED BY <1>3, <1>5, <2>4, <2>5 DEF w
<1> QED BY <1>4, <1>5

\* So does DIVS, of signed numbers.
LEMMA DivsIs ==
  ASSUME NEW s \in States, NEW y \in Operands \ {0}
  PROVE  LET t == Divs(s, y)
             n == WideSigned(s)
             d == Signed(y)
         IN  IF "V" \in t.cc
             THEN /\ t.lo = s.lo /\ t.hi = s.hi
                  /\ \A q \in -SignBit .. SignBit - 1 : Abs(n - q * d) >= Abs(d) \/ (n - q * d) * n < 0
             ELSE /\ Signed(t.lo) * d + Signed(t.hi) = n
                  /\ Abs(Signed(t.hi)) < Abs(d)
                  /\ Signed(t.hi) # 0 => (Signed(t.hi) < 0) = (n < 0)
<1> DEFINE n == WideSigned(s)
           d == Signed(y)
           q == Quotient(n, d)
           r == n - q * d
           b == SignBit
<1>1. n \in Int /\ d \in Int /\ d # 0 /\ b \in Nat \ {0} /\ -b <= d /\ d < b
  <2>1. y \in Operands /\ y # 0
    OBVIOUS
  <2>2. d \in -b .. b - 1
    BY <2>1, SignedIs
  <2> QED BY <2>1, <2>2, Numbers, WidthIs
<1>2. Divs(s, y) = IF q >= b \/ q < -b THEN Overflown(s) ELSE Divided(s, q, r)
  BY DEF Divs, Quotient
<1> HIDE DEF n, d
<1>3. q \in Int /\ r \in Int /\ Abs(r) < Abs(d) /\ (r # 0 => (r < 0) = (n < 0)) /\ (n = 0 => q = 0)
  BY <1>1, Truncated
<1>4. CASE q >= b \/ q < -b
  <2>1. Overflown(s).lo = s.lo /\ Overflown(s).hi = s.hi /\ "V" \in Overflown(s).cc
    BY DividedIs
  <2>2. n # 0
    <3> HIDE DEF q, r, b
    <3> QED BY <1>1, <1>3, <1>4
  <2>3. ASSUME NEW p \in -b .. b - 1
        PROVE  Abs(n - p * d) >= Abs(d) \/ (n - p * d) * n < 0
    <3>1. p \in Int /\ p # q
      <4> HIDE DEF q
      <4> QED BY <1>1, <1>3, <1>4
    <3> HIDE DEF q
    <3>2. ~(Abs(n - p * d) < Abs(d) /\ ~((n - p * d) * n < 0))
      BY <1>1, <1>3, <2>2, <3>1, OnlyQuotient, Zenon
    <3>3. Abs(n - p * d) \in Int /\ Abs(d) \in Int
      BY <1>1, <3>1 DEF Abs
    <3> QED BY <3>2, <3>3
  <2> QED BY <1>2, <1>4, <2>1, <2>3 DEF n, d
<1>5. CASE ~(q >= b \/ q < -b)
  <2> HIDE DEF q, r
  <2>1. Abs(d) <= b
    BY <1>1 DEF Abs
  <2>2. r \in -b .. b - 1
    BY <1>1, <1>3, <2>1 DEF Abs
  <2>3. q \in -b .. b - 1
    BY <1>1, <1>3, <1>5
  <2>4. Signed(q % Modulus) = q /\ Signed(r % Modulus) = r
    BY <2>2, <2>3, Reading
  <2>5. Signed(Divided(s, q, r).lo) = q /\ Signed(Divided(s, q, r).hi) = r
        /\ "V" \notin Divided(s, q, r).cc
    BY <1>3, <2>4, DividedIs
  <2>6. q * d + r = n
    <3> DEFINE z == q * d
    <3>1. z \in Int /\ r = n - z
      BY <1>1, <1>3 DEF r
    <3> HIDE DEF z
    <3>2. z + r = n
      BY <1>1, <3>1
    <3> QED BY <3>2 DEF z
  <2> QED BY <1>2, <1>3, <1>5, <2>5, <2>6 DEF n, d
<1> QED BY <1>4, <1>5

\* Dividing a product by one factor gives the other.
LEMMA ProductUndone ==
  ASSUME NEW s \in States, NEW y \in Operands \ {0}
  PROVE  LET p == Divu(Mulu(s, y), y) IN p.lo = s.lo /\ p.hi = 0
<1> DEFINE m == Modulus
           sq == m * m
           v == s.lo * y
           h == v \div m
           l == v % m
           t == Mulu(s, y)
<1>1. m \in Nat \ {0} /\ s.lo \in 0 .. m - 1 /\ y \in Nat \ {0} /\ y < m
  <2>1. s.lo \in Operands
    BY Changed
  <2>2. y \in 0 .. m - 1 /\ y # 0
    BY WidthIs
  <2> QED BY <2>1, <2>2, WidthIs
<1>2. sq \in Nat \ {0} /\ v \in Nat /\ v < sq
  <2> HIDE DEF m
  <2>1. v \in Nat
    BY <1>1, SMTT(30)
  <2>2. s.lo * y < m * m
    <3>1. s.lo * y <= s.lo * m
      BY <1>1, SMTT(30)
    <3>2. s.lo * m < m * m
      BY <1>1, SMTT(30)
    <3>3. s.lo * y \in Int /\ s.lo * m \in Int /\ m * m \in Int
      BY <1>1
    <3> QED BY <3>1, <3>2, <3>3
  <2>3. m * m \in Nat
    BY <1>1, SMTT(30)
  <2> HIDE DEF v
  <2> QED BY <2>1, <2>2, <2>3 DEF v
<1>3. v % sq = v
  <2> HIDE DEF v, sq
  <2>1. v = sq * 0 + v
    BY <1>2
  <2> QED BY <1>2, <2>1, DivUnique
<1>4. t.hi = h /\ t.lo = l
  <2>1. t = PlainWide(s, v)
    BY DEF Mulu
  <2>2. PlainWide(s, v).hi = (v % sq) \div m /\ PlainWide(s, v).lo = (v % sq) % m
    BY DEF PlainWide
  <2> HIDE DEF t, v, sq
  <2> QED BY <1>3, <2>1, <2>2
<1>5. t \in States
  BY ProductsFit
<1>6. Wide(t) = v
  <2>1. v = m * h + l
    <3>1. v \in Int /\ m \in Nat \ {0}
      BY <1>1, <1>2
    <3> HIDE DEF v, m
    <3>2. v = m * (v \div m) + (v % m)
      BY <3>1, DivMod
    <3> QED BY <3>2
  <2> HIDE DEF t, h, l, v
  <2> QED BY <1>4, <2>1 DEF Wide
<1>7. v \div y = s.lo /\ v % y = 0
  <2>1. v = y * s.lo + 0
    BY <1>1, SMTT(30)
  <2>2. v \in Int /\ y \in Nat \ {0} /\ s.lo \in Int /\ 0 \in Int /\ 0 <= 0 /\ 0 < y
    BY <1>1, <1>2
  <2> HIDE DEF v, m
  <2> DEFINE x == s.lo
             z == 0
  <2>3. v \in Int /\ y \in Nat \ {0} /\ x \in Int /\ z \in Int /\ 0 <= z /\ z < y /\ v = y * x + z
    BY <2>1, <2>2
  <2> HIDE DEF x, z
  <2>4. v \div y = x /\ v % y = z
    BY <2>3, DivUnique
  <2> QED BY <2>4 DEF x, z
<1> HIDE DEF t, v, m
<1>8. Divu(t, y) = Divided(t, s.lo, 0)
  BY <1>1, <1>6, <1>7 DEF Divu, m
<1>9. s.lo % Modulus = s.lo /\ 0 % Modulus = 0
  <2>1. s.lo \in Operands
    BY Changed
  <2>2. 0 \in Operands
    BY WidthIs
  <2> QED BY <2>1, <2>2, Reading
<1>10. Divided(t, s.lo, 0).lo = s.lo /\ Divided(t, s.lo, 0).hi = 0
  BY <1>1, <1>5, <1>9, DividedIs
<1> QED BY <1>8, <1>10 DEF t

\* DIV finds the quotient and the remainder exactly when the quotient fits, for every width.
THEOREM DivisionIsExactAlways == Spec => []DivisionIsExact
<1>1. TypeOK => DivisionIsExact
  <2>1. SUFFICES ASSUME TypeOK, NEW y \in Source \ {0}
                 PROVE  LET u == Divu(cpu, y)
                            s == Divs(cpu, y)
                            n == WideSigned(cpu)
                            d == Signed(y)
                        IN  /\ IF "V" \in u.cc THEN u.lo = cpu.lo /\ u.hi = cpu.hi /\ Wide(cpu) >= y * Modulus
                               ELSE u.hi < y /\ u.lo * y + u.hi = Wide(cpu)
                            /\ IF "V" \in s.cc
                               THEN /\ s.lo = cpu.lo /\ s.hi = cpu.hi
                                    /\ \A q \in -SignBit .. SignBit - 1 :
                                         Abs(n - q * d) >= Abs(d) \/ (n - q * d) * n < 0
                               ELSE /\ Signed(s.lo) * d + Signed(s.hi) = n
                                    /\ Abs(Signed(s.hi)) < Abs(d)
                                    /\ Signed(s.hi) # 0 => (Signed(s.hi) < 0) = (n < 0)
                            /\ LET p == Divu(Mulu(cpu, y), y) IN p.lo = cpu.lo /\ p.hi = 0
    BY Zenon DEF DivisionIsExact
  <2>2. cpu \in States /\ y \in Operands \ {0}
    BY <2>1, SourceAssumption DEF TypeOK
  <2>3. LET u == Divu(cpu, y)
        IN  IF "V" \in u.cc THEN u.lo = cpu.lo /\ u.hi = cpu.hi /\ Wide(cpu) >= y * Modulus
            ELSE u.hi < y /\ u.lo * y + u.hi = Wide(cpu)
    BY <2>2, DivuIs, Zenon
  <2>4. LET s == Divs(cpu, y)
            n == WideSigned(cpu)
            d == Signed(y)
        IN  IF "V" \in s.cc
            THEN /\ s.lo = cpu.lo /\ s.hi = cpu.hi
                 /\ \A q \in -SignBit .. SignBit - 1 : Abs(n - q * d) >= Abs(d) \/ (n - q * d) * n < 0
            ELSE /\ Signed(s.lo) * d + Signed(s.hi) = n
                 /\ Abs(Signed(s.hi)) < Abs(d)
                 /\ Signed(s.hi) # 0 => (Signed(s.hi) < 0) = (n < 0)
    BY <2>2, DivsIs, Zenon
  <2>5. LET p == Divu(Mulu(cpu, y), y) IN p.lo = cpu.lo /\ p.hi = 0
    BY <2>2, ProductUndone, Zenon
  <2> QED BY <2>3, <2>4, <2>5, Zenon
<1> QED BY <1>1, TypeOKHolds, PTL

------------------------------------------------------------------------------
(* Comparisons. *)

\* The flags that CMP leaves, in terms of the difference without residues.
LEMMA FlagsOfCmp ==
  ASSUME TypeOK, NEW y \in Operands
  PROVE  LET s == Cmp(cpu, y)
             a == cpu.lo
             r == IF a < y THEN a - y + Modulus ELSE a - y
         IN  /\ "C" \in s.cc <=> a < y
             /\ "Z" \in s.cc <=> r = 0
             /\ "N" \in s.cc <=> Sign(r)
             /\ "V" \in s.cc <=> DifferenceOverflows(a, y, r)
<1> DEFINE a == cpu.lo
           r == IF a < y THEN a - y + Modulus ELSE a - y
<1>1. Modulus \in Nat \ {0} /\ Modulus = 2 * SignBit
  BY SignBitAssumption DEF Modulus
<1>2. a \in 0 .. Modulus - 1 /\ y \in 0 .. Modulus - 1
  BY DEF TypeOK, States, Operands
<1>3. a - y \in Int /\ -Modulus <= a - y /\ a - y < 2 * Modulus
  BY <1>1, <1>2
<1>4. (a - y) % Modulus = r
  <2> HIDE DEF a
  <2>1. (a - y) % Modulus =
          IF a - y < 0 THEN a - y + Modulus ELSE IF a - y < Modulus THEN a - y ELSE a - y - Modulus
    BY <1>1, <1>3, Reduced
  <2> QED BY <2>1, <1>1, <1>2
<1>5. Cmp(cpu, y).cc =
        KeepX(cpu) \cup ((NZ(r) \cup If(DifferenceOverflows(a, y, r), "V")
                          \cup If(a < y, "C") \cup If(a < y, "X")) \ {"X"})
  <2> HIDE DEF r
  <2>1. cpu \in [hi : Operands, lo : Operands, cc : SUBSET Flags]
    BY DEF TypeOK, States
  <2> QED BY <1>4, <2>1, Zenon DEF Cmp, Sub, Result
<1>6. KeepX(cpu) \subseteq {"X"}
  BY DEF KeepX
<1> HIDE DEF a, r
<1> SUFFICES /\ "C" \in Cmp(cpu, y).cc <=> a < y
             /\ "Z" \in Cmp(cpu, y).cc <=> r = 0
             /\ "N" \in Cmp(cpu, y).cc <=> Sign(r)
             /\ "V" \in Cmp(cpu, y).cc <=> DifferenceOverflows(a, y, r)
  BY DEF a, r
<1> QED BY <1>5, <1>6 DEF NZ, If

\* What CompareDecides says of one comparison.
LEMMA Compared == TypeOK => CompareDecides
<1> SUFFICES ASSUME TypeOK, NEW y \in Source
             PROVE  LET s == Cmp(cpu, y)
                        a == cpu.lo
                    IN  /\ Holds("HI", s) <=> a > y
                        /\ Holds("LS", s) <=> a <= y
                        /\ Holds("CC", s) <=> a >= y
                        /\ Holds("CS", s) <=> a < y
                        /\ Holds("EQ", s) <=> a = y
                        /\ Holds("NE", s) <=> a # y
                        /\ Holds("GE", s) <=> Signed(a) >= Signed(y)
                        /\ Holds("LT", s) <=> Signed(a) < Signed(y)
                        /\ Holds("GT", s) <=> Signed(a) > Signed(y)
                        /\ Holds("LE", s) <=> Signed(a) <= Signed(y)
  BY DEF CompareDecides
<1> DEFINE s == Cmp(cpu, y)
           a == cpu.lo
           r == IF a < y THEN a - y + Modulus ELSE a - y
<1>1. Modulus = 2 * SignBit /\ SignBit \in Nat \ {0}
  BY SignBitAssumption DEF Modulus
<1>2. a \in 0 .. Modulus - 1 /\ y \in 0 .. Modulus - 1
  BY SourceAssumption DEF TypeOK, States, Operands
<1>3. /\ "C" \in s.cc <=> a < y
      /\ "Z" \in s.cc <=> r = 0
      /\ "N" \in s.cc <=> Sign(r)
      /\ "V" \in s.cc <=> DifferenceOverflows(a, y, r)
  BY <1>2, FlagsOfCmp DEF Operands
<1> HIDE DEF s, a
<1>4. "Z" \in s.cc <=> a = y
  BY <1>1, <1>2, <1>3
\* N differs from V exactly when the signed difference is negative.
<1>5. ~("N" \in s.cc <=> "V" \in s.cc) <=> Signed(a) < Signed(y)
  <2>1. CASE a < y
    BY <2>1, <1>1, <1>2, <1>3 DEF Sign, Signed, DifferenceOverflows
  <2>2. CASE ~(a < y)
    BY <2>2, <1>1, <1>2, <1>3 DEF Sign, Signed, DifferenceOverflows
  <2> QED BY <2>1, <2>2
<1>6. /\ Signed(a) \in Int /\ Signed(y) \in Int
      /\ Signed(a) = Signed(y) <=> a = y
  BY <1>1, <1>2 DEF Sign, Signed
<1>7. /\ Holds("HI", s) <=> a > y
      /\ Holds("LS", s) <=> a <= y
      /\ Holds("CC", s) <=> a >= y
      /\ Holds("CS", s) <=> a < y
      /\ Holds("EQ", s) <=> a = y
      /\ Holds("NE", s) <=> a # y
  BY <1>1, <1>2, <1>3, <1>4 DEF Holds
<1>8. /\ Holds("GE", s) <=> Signed(a) >= Signed(y)
      /\ Holds("LT", s) <=> Signed(a) < Signed(y)
      /\ Holds("GT", s) <=> Signed(a) > Signed(y)
      /\ Holds("LE", s) <=> Signed(a) <= Signed(y)
  BY <1>4, <1>5, <1>6 DEF Holds
<1> QED BY <1>7, <1>8 DEF s, a

\* For every width, each condition of m68k_branch() after CMP decides the order
\* its name says, of the unsigned or of the signed numbers.
THEOREM CompareDecidesAlways == Spec => []CompareDecides
BY Compared, TypeOKHolds, PTL

------------------------------------------------------------------------------
(* Packed decimals, by their digits. *)

\* A decimal byte is two digits.
LEMMA Digits ==
  ASSUME NEW b \in Byte, Decimal(b)
  PROVE  \E h, l \in 0 .. 9 : b = 16 * h + l
<1>1. b \div 16 \in 0 .. 9 /\ b % 16 \in 0 .. 9 /\ b = 16 * (b \div 16) + (b % 16)
  BY SMTT(20) DEF Byte, Decimal, Low
<1> QED BY <1>1

\* The parts of the decimal byte of two digits.
LEMMA TwoDigits ==
  ASSUME NEW h \in 0 .. 9, NEW l \in 0 .. 9
  PROVE  LET b == 16 * h + l
         IN  /\ b \in 0 .. 159 /\ b % 256 = b
             /\ Low(b) = l /\ High(b) = 16 * h
             /\ Decimal(b) /\ Number(b) = 10 * h + l
<1> DEFINE b == 16 * h + l
<1>1. b \in Int /\ 0 <= b /\ b < 160
  OBVIOUS
<1>2. b % 16 = l /\ b \div 16 = h
  <2>1. 16 \in Nat \ {0} /\ h \in Int /\ l \in Int /\ 0 <= l /\ l < 16
    OBVIOUS
  <2> QED BY <1>1, <2>1, DivUnique
<1>3. b % 256 = b
  <2> HIDE DEF b
  <2> QED BY <1>1, SMTT(20)
<1>4. High(b) = 16 * h
  BY <1>2 DEF High, Low
<1>5. Decimal(b) /\ Number(b) = 10 * h + l
  BY <1>1, <1>2 DEF Decimal, Number, Low
<1> QED BY <1>1, <1>2, <1>3, <1>4, <1>5 DEF Low

\* The state r has the digits h and l and the carry k as its result, from s.
HasDigits(s, r, h, l, k) ==
  /\ Decimal(r.d) /\ Number(r.d) = 10 * h + l /\ Hundred(r) = 100 * k
  /\ "X" \in r.cc <=> "C" \in r.cc
  /\ "Z" \in r.cc <=> "Z" \in s.cc /\ r.d = 0

\* So does the state that an operation leaves.
LEMMA ResultOfDigits ==
  ASSUME NEW s, NEW h \in 0 .. 9, NEW l \in 0 .. 9, NEW k \in {0, 1}
  PROVE  HasDigits(s, BcdResult(s, 16 * h + l, k = 1), h, l, k)
<1> DEFINE b == 16 * h + l
           r == BcdResult(s, b, k = 1)
<1>1. b % 256 = b /\ Decimal(b) /\ Number(b) = 10 * h + l
  BY TwoDigits
<1> HIDE DEF b
<1>2. r.d = b
  BY <1>1 DEF BcdResult
<1>3. r.cc = (IF k = 1 THEN {"C", "X"} ELSE {}) \cup (IF b = 0 THEN s.cc \cap {"Z"} ELSE {})
  BY <1>1 DEF BcdResult
<1> HIDE DEF r
<1>4. Hundred(r) = 100 * k
  BY <1>3 DEF Hundred
<1>5. "X" \in r.cc <=> "C" \in r.cc
  BY <1>3
<1>6. "Z" \in r.cc <=> "Z" \in s.cc /\ r.d = 0
  BY <1>2, <1>3
<1>7. HasDigits(s, r, h, l, k)
  BY <1>1, <1>2, <1>4, <1>5, <1>6 DEF HasDigits
<1> QED BY <1>7 DEF b, r

\* The carry or borrow that comes in.
LEMMA ExtendIsBit == \A s : Extend(s) \in {0, 1}
BY DEF Extend

\* Decimal addition by digits: a digit past 9 carries.
LEMMA AddsDigits ==
  ASSUME NEW s, NEW x \in Byte, NEW y \in Byte, Decimal(x), Decimal(y), s.d = x
  PROVE  \E h, l \in 0 .. 9, k \in {0, 1} :
           /\ HasDigits(s, AddBcd(s, y), h, l, k)
           /\ 10 * h + l + 100 * k = Number(x) + Number(y) + Extend(s)
<1>1. PICK a \in 0 .. 9, b \in 0 .. 9 : x = 16 * a + b
  BY Digits
<1>2. PICK c \in 0 .. 9, e \in 0 .. 9 : y = 16 * c + e
  BY Digits
<1> DEFINE t == Extend(s)
           low == b + e + t
           j == IF low > 9 THEN 1 ELSE 0
           l == low - 10 * j
           k == IF a + c + j > 9 THEN 1 ELSE 0
           h == a + c + j - 10 * k
           sum == (IF low > 9 THEN low + 6 ELSE low) + 16 * a + 16 * c
<1>3. t \in {0, 1}
  BY ExtendIsBit
<1>4. /\ Low(s.d) = b /\ High(s.d) = 16 * a /\ Number(x) = 10 * a + b
      /\ Low(y) = e /\ High(y) = 16 * c /\ Number(y) = 10 * c + e
  BY <1>1, <1>2, TwoDigits
<1>5. AddBcd(s, y) = IF sum > 159 THEN BcdResult(s, sum - 160, TRUE) ELSE BcdResult(s, sum, FALSE)
  BY <1>4, Zenon DEF AddBcd
<1> HIDE DEF t
<1>6. j \in {0, 1} /\ l \in 0 .. 9 /\ b + e + t = l + 10 * j /\ sum = 16 * (a + c + j) + l
  BY <1>3
<1> HIDE DEF j, l, low, sum
<1>7. k \in {0, 1} /\ h \in 0 .. 9 /\ a + c + j = h + 10 * k
  BY <1>6
<1> HIDE DEF h, k
<1>8. 10 * h + l + 100 * k = Number(x) + Number(y) + t
  BY <1>3, <1>4, <1>6, <1>7
<1>9. (sum > 159 <=> k = 1) /\ sum - 160 * k = 16 * h + l /\ sum \in Int
  BY <1>6, <1>7
<1>10. AddBcd(s, y) = BcdResult(s, 16 * h + l, k = 1)
  <2>1. CASE k = 1
    <3>1. sum - 160 = 16 * h + l /\ sum > 159
      BY <1>9, <2>1
    <3> QED BY <1>5, <2>1, <3>1
  <2>2. CASE k = 0
    <3>1. sum = 16 * h + l /\ ~(sum > 159) /\ (k = 1) = FALSE
      BY <1>9, <2>2
    <3> QED BY <1>5, <3>1
  <2> QED BY <1>7, <2>1, <2>2
<1>11. HasDigits(s, AddBcd(s, y), h, l, k)
  BY <1>6, <1>7, <1>10, ResultOfDigits
<1> QED BY <1>6, <1>7, <1>8, <1>11 DEF t

\* Numbers in 16 bits that are in range, or less than one range outside.
LEMMA Uint16Is ==
  ASSUME NEW v \in Int, -65536 <= v, v < 131072
  PROVE  Uint16(v) = IF v < 0 THEN v + 65536 ELSE IF v < 65536 THEN v ELSE v - 65536
BY SMTT(20) DEF Uint16

\* Decimal subtraction by digits: a digit below zero borrows.
LEMMA SubtractsDigits ==
  ASSUME NEW s, NEW x \in Byte, NEW y \in Byte, Decimal(x), Decimal(y)
  PROVE  \E h, l \in 0 .. 9, k \in {0, 1} :
           /\ HasDigits(s, SubBcd(s, y, x), h, l, k)
           /\ 10 * h + l - 100 * k = Number(x) - Number(y) - Extend(s)
<1>1. PICK a \in 0 .. 9, b \in 0 .. 9 : x = 16 * a + b
  BY Digits
<1>2. PICK c \in 0 .. 9, e \in 0 .. 9 : y = 16 * c + e
  BY Digits
<1> DEFINE t == Extend(s)
           m == b - e - t
           j == IF m < 0 THEN 1 ELSE 0
           l == m + 10 * j
           k == IF a - c - j < 0 THEN 1 ELSE 0
           h == a - c - j + 10 * k
           low == Uint16(b - e - t)
           sum == Uint16(low + 16 * a - 16 * c)
           corrected == IF sum > 255 THEN Uint16(sum + 160) ELSE sum
           g == 16 * h + l + 6 * j  \* before the low digit is corrected
           w == g - 160 * k
<1>3. t \in {0, 1}
  BY ExtendIsBit
<1>4. /\ Low(x) = b /\ High(x) = 16 * a /\ Number(x) = 10 * a + b
      /\ Low(y) = e /\ High(y) = 16 * c /\ Number(y) = 10 * c + e
  BY <1>1, <1>2, TwoDigits
<1>5. SubBcd(s, y, x) = IF low > 15
                        THEN BcdResult(s, Uint16(corrected - 6), sum > 255 \/ sum < 6)
                        ELSE BcdResult(s, corrected, sum > 255)
  BY <1>4, Zenon DEF SubBcd
<1> HIDE DEF t, corrected, sum, low, g, w
<1>6. m \in -10 .. 9 /\ j \in {0, 1} /\ l \in 0 .. 9 /\ b - e - t = l - 10 * j
      /\ (m < 0 <=> j = 1) /\ m = l - 10 * j
  BY <1>3
<1>7. low = IF j = 1 THEN l + 65526 ELSE l
  <2> HIDE DEF j, l
  <2>1. low = Uint16(m)
    BY DEF low
  <2> HIDE DEF m
  <2>2. low = IF m < 0 THEN m + 65536 ELSE m
    BY <1>6, <2>1, Uint16Is
  <2> QED BY <1>6, <2>2
<1> HIDE DEF m, j, l
<1>8. k \in {0, 1} /\ h \in 0 .. 9 /\ a - c - j = h - 10 * k
  BY <1>6
<1> HIDE DEF h, k
<1>9. 10 * h + l - 100 * k = Number(x) - Number(y) - t
  BY <1>3, <1>4, <1>6, <1>8
<1>10. /\ g \in 0 .. 159 /\ 16 * h + l = g - 6 * j /\ g - 6 * j >= 0
       /\ w = g - 160 * k
       /\ low + 16 * a - 16 * c = w + (IF j = 1 THEN 65536 ELSE 0)
       /\ low > 15 <=> j = 1
  BY <1>6, <1>7, <1>8 DEF g, w
<1>11. sum = IF k = 1 THEN w + 65536 ELSE w
  <2>1. CASE j = 1
    <3>1. sum = Uint16(w + 65536)
      BY <1>10, <2>1 DEF sum
    <3>2. w + 65536 \in Int /\ -65536 <= w + 65536 /\ w + 65536 < 131072
          /\ (w + 65536 < 65536 <=> k = 1) /\ ~(w + 65536 < 0)
      BY <1>8, <1>10
    <3> DEFINE u == w + 65536
    <3>3. u - 65536 = w
      BY <1>8, <1>10
    <3> HIDE DEF u
    <3>4. Uint16(u) = IF u < 65536 THEN u ELSE u - 65536
      BY <3>2, Uint16Is DEF u
    <3> QED BY <1>8, <3>1, <3>2, <3>3, <3>4 DEF u
  <2>2. CASE j = 0
    <3>1. sum = Uint16(w)
      <4>1. low + 16 * a - 16 * c = w
        BY <1>8, <1>10, <2>2
      <4> QED BY <4>1 DEF sum
    <3>2. w \in Int /\ -65536 <= w /\ w < 65536 /\ (w < 0 <=> k = 1)
      BY <1>8, <1>10
    <3> QED BY <3>1, <3>2, Uint16Is
  <2> QED BY <1>6, <2>1, <2>2
<1>12. (sum > 255 <=> k = 1) /\ sum \in Int
  BY <1>8, <1>10, <1>11
<1>13. corrected = g
  <2>1. CASE k = 1
    <3>1. corrected = Uint16(sum + 160) /\ sum + 160 = g + 65536
      BY <1>8, <1>10, <1>11, <1>12, <2>1 DEF corrected
    <3>2. Uint16(g + 65536) = g
      BY <1>10, Uint16Is
    <3> QED BY <3>1, <3>2
  <2>2. CASE k = 0
    BY <1>10, <1>11, <1>12, <2>2 DEF corrected
  <2> QED BY <1>8, <2>1, <2>2
<1>14. SubBcd(s, y, x) = BcdResult(s, 16 * h + l, k = 1)
  <2>1. CASE j = 1
    <3>1. Uint16(corrected - 6) = 16 * h + l
      <4>1. g - 6 = 16 * h + l /\ g - 6 \in 0 .. 159
        BY <1>10, <2>1
      <4> QED BY <1>13, <4>1, Uint16Is
    <3>2. sum > 255 \/ sum < 6 <=> k = 1
      BY <1>8, <1>10, <1>11, <1>12, <2>1
    <3>3. (sum > 255 \/ sum < 6) = (k = 1)
      BY <3>2
    <3> QED BY <1>5, <1>10, <2>1, <3>1, <3>3
  <2>2. CASE j = 0
    <3>1. corrected = 16 * h + l /\ ~(low > 15)
      BY <1>10, <1>13, <2>2
    <3>2. (sum > 255) = (k = 1)
      BY <1>12
    <3> QED BY <1>5, <3>1, <3>2
  <2> QED BY <1>6, <2>1, <2>2
<1>15. HasDigits(s, SubBcd(s, y, x), h, l, k)
  BY <1>6, <1>8, <1>14, ResultOfDigits
<1> QED BY <1>6, <1>8, <1>9, <1>15 DEF t

\* ABCD, SBCD and NBCD compute with decimal numbers, whatever the flags before.
LEMMA DecimalsCompute == DecimalsAreExact
<1>1. ASSUME NEW x \in Byte, NEW y \in Byte, Decimal(x), Decimal(y), x = packed.d
      PROVE  LET s == AddBcd(packed, y)
             IN  /\ Decimal(s.d)
                 /\ Number(s.d) + Hundred(s) = Number(x) + Number(y) + Extend(packed)
                 /\ Chains(s)
  <2> DEFINE s == AddBcd(packed, y)
  <2>1. PICK h \in 0 .. 9, l \in 0 .. 9, k \in {0, 1} :
          /\ HasDigits(packed, s, h, l, k)
          /\ 10 * h + l + 100 * k = Number(x) + Number(y) + Extend(packed)
    BY <1>1, AddsDigits
  <2> HIDE DEF s
  <2> QED BY <2>1 DEF HasDigits, Chains, s
<1>2. ASSUME NEW x \in Byte, NEW y \in Byte, Decimal(x), Decimal(y)
      PROVE  LET s == SubBcd(packed, y, x)
             IN  /\ Decimal(s.d)
                 /\ Number(s.d) - Hundred(s) = Number(x) - Number(y) - Extend(packed)
                 /\ Chains(s)
  <2> DEFINE s == SubBcd(packed, y, x)
  <2>1. PICK h \in 0 .. 9, l \in 0 .. 9, k \in {0, 1} :
          /\ HasDigits(packed, s, h, l, k)
          /\ 10 * h + l - 100 * k = Number(x) - Number(y) - Extend(packed)
    BY <1>2, SubtractsDigits
  <2> HIDE DEF s
  <2> QED BY <2>1 DEF HasDigits, Chains, s
<1> QED BY <1>1, <1>2, Zenon DEF DecimalsAreExact

\* ABCD, SBCD and NBCD are exact in every state, after any operations (m68k_add_bcd(),
\* m68k_sub_bcd()).
THEOREM DecimalsAreExactAlways == BcdSpec => []DecimalsAreExact
BY DecimalsCompute, PTL
==============================================================================

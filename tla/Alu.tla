-------------------------------- MODULE Alu ----------------------------------
(***************************************************************************)
(* The arithmetic of the CPU (m68k.c) on one data register: sums,          *)
(* differences, comparisons and the conditions on their flags, logic,      *)
(* shifts, rotations, products and quotients.                              *)
(*                                                                         *)
(* The code has each operation three times, for bytes, words and long      *)
(* words, with the same formulas.  Here an operand has one width, given by *)
(* the value of its sign bit, and the register is two operands wide: MUL,  *)
(* DIV, EXT and SWAP use all of it, the others its low part.               *)
(***************************************************************************)
EXTENDS Integers

CONSTANTS
  SignBit,  \* value of an operand's highest bit: 128 for bytes
  Source,   \* source operands
  Counts    \* shift counts: 1 to 8, or a register modulo 64

Modulus == 2 * SignBit
Operands == 0 .. Modulus - 1
Flags == {"X", "N", "Z", "V", "C"}

\* The register in two operands, and the flags.
States == [hi : Operands, lo : Operands, cc : SUBSET Flags]

ASSUME SignBitAssumption == SignBit \in Nat \ {0}
ASSUME SourceAssumption == Source \subseteq Operands
ASSUME CountsAssumption == Counts \subseteq 0 .. 63

VARIABLES
  cpu,     \* the register and the flags that are set
  running  \* FALSE when the host killed the emulator

vars == <<cpu, running>>

\* The register is zero at the start, and the flags are clear.
Init ==
  /\ cpu = [hi |-> 0, lo |-> 0, cc |-> {}]
  /\ running = TRUE

------------------------------------------------------------------------------
(* Numbers and flags. *)

Sign(v) == v >= SignBit
Signed(v) == IF Sign(v) THEN v - Modulus ELSE v

If(b, f) == IF b THEN {f} ELSE {}
NZ(r) == If(Sign(r), "N") \cup If(r = 0, "Z")
X(s) == IF "X" \in s.cc THEN 1 ELSE 0
KeepX(s) == s.cc \cap {"X"}

\* N and Z of the result, V and C clear, X as it was.
Plain(s, r) == [s EXCEPT !.lo = r, !.cc = KeepX(s) \cup NZ(r)]

\* The result r of a sum or difference with overflow v and carry c.
Result(s, r, v, c) ==
  [s EXCEPT !.lo = r, !.cc = NZ(r) \cup If(v, "V") \cup If(c, "C") \cup If(c, "X")]

\* The X variants only ever clear Z, so that it tells of a whole chain.
Extended(s, r, v, c) ==
  LET t == Result(s, r, v, c)
  IN  [t EXCEPT !.cc = (@ \ {"Z"}) \cup If(r = 0 /\ "Z" \in s.cc, "Z")]

SumOverflows(x, y, r) == Sign(x) = Sign(y) /\ Sign(r) # Sign(x)

\* Faulty DifferenceOverflows: the rule for sums.
DifferenceOverflowsAsSum(min, sub, r) == SumOverflows(min, sub, r)

\* min - sub = r.
DifferenceOverflows(min, sub, r) == Sign(min) # Sign(sub) /\ Sign(r) # Sign(min)

------------------------------------------------------------------------------
(* Sums and differences of the register and a source operand y. *)

Add(s, y) ==
  LET r == (s.lo + y) % Modulus
  IN  Result(s, r, SumOverflows(s.lo, y, r), s.lo + y >= Modulus)

\* Faulty Addx: X is added to the reduced sum.
AddxLate(s, y) ==
  LET r == ((s.lo + y) % Modulus) + X(s)
  IN  Extended(s, r, SumOverflows(s.lo, y, r), s.lo + y + X(s) >= Modulus)

Addx(s, y) ==
  LET r == (s.lo + y + X(s)) % Modulus
  IN  Extended(s, r, SumOverflows(s.lo, y, r), s.lo + y + X(s) >= Modulus)

Sub(s, y) ==
  LET r == (s.lo - y) % Modulus
  IN  Result(s, r, DifferenceOverflows(s.lo, y, r), s.lo < y)

\* Faulty Subx: the borrow of X itself is forgotten.
SubxBorrow(s, y) ==
  LET r == (s.lo - y - X(s)) % Modulus
  IN  Extended(s, r, DifferenceOverflows(s.lo, y, r), s.lo < y)

Subx(s, y) ==
  LET r == (s.lo - y - X(s)) % Modulus
  IN  Extended(s, r, DifferenceOverflows(s.lo, y, r), s.lo < y + X(s))

Neg(s) == Sub([s EXCEPT !.lo = 0], s.lo)
Negx(s) == Subx([s EXCEPT !.lo = 0], s.lo)

\* The flags of the difference, but X and the register stay.
Cmp(s, y) == [s EXCEPT !.cc = KeepX(s) \cup (Sub(s, y).cc \ {"X"})]

------------------------------------------------------------------------------
(* The 16 conditions of Bcc, DBcc and Scc; F never holds. *)

Conditions == {"T", "F", "HI", "LS", "CC", "CS", "NE", "EQ",
               "VC", "VS", "PL", "MI", "GE", "LT", "GT", "LE"}

Holds(cond, s) ==
  LET n == "N" \in s.cc
      z == "Z" \in s.cc
      v == "V" \in s.cc
      c == "C" \in s.cc
  IN  \/ cond = "T"
      \/ cond = "HI" /\ ~c /\ ~z
      \/ cond = "LS" /\ (c \/ z)
      \/ cond = "CC" /\ ~c
      \/ cond = "CS" /\ c
      \/ cond = "NE" /\ ~z
      \/ cond = "EQ" /\ z
      \/ cond = "VC" /\ ~v
      \/ cond = "VS" /\ v
      \/ cond = "PL" /\ ~n
      \/ cond = "MI" /\ n
      \/ cond = "GE" /\ (n <=> v)
      \/ cond = "LT" /\ ~(n <=> v)
      \/ cond = "GT" /\ (n <=> v) /\ ~z
      \/ cond = "LE" /\ (z \/ ~(n <=> v))

\* All ones or zero; the flags stay.
Scc(s, cond) == [s EXCEPT !.lo = IF Holds(cond, s) THEN Modulus - 1 ELSE 0]

------------------------------------------------------------------------------
(* Logic.  A bit is named by its value, a power of two. *)

Has(v, w) == (v \div w) % 2 = 1

\* The number whose bits are set where the pair of bits of x and y is one of pairs.
Combined(pairs, x, y) ==
  LET upTo[w \in 0 .. SignBit] ==
        IF w = 0 THEN 0
        ELSE upTo[w \div 2] + (IF <<Has(x, w), Has(y, w)>> \in pairs THEN w ELSE 0)
  IN  upTo[SignBit]

And(s, y) == Plain(s, Combined({<<TRUE, TRUE>>}, s.lo, y))
Or(s, y) == Plain(s, Combined({<<TRUE, TRUE>>, <<TRUE, FALSE>>, <<FALSE, TRUE>>}, s.lo, y))
Eor(s, y) == Plain(s, Combined({<<TRUE, FALSE>>, <<FALSE, TRUE>>}, s.lo, y))
Not(s) == Plain(s, Modulus - 1 - s.lo)

Move(s, y) == Plain(s, y)
Tst(s) == Plain(s, s.lo)

------------------------------------------------------------------------------
(* Shifts and rotations, one bit at a time. *)

Times(step, s, n) ==
  LET after[k \in 0 .. n] == IF k = 0 THEN s ELSE step[after[k - 1]]
  IN  after[n]

\* The register after a bit went out into C.
Out(s, r, bit) == [s EXCEPT !.lo = r, !.cc = (@ \ {"C"}) \cup If(bit, "C")]

SetX(s, b) == [s EXCEPT !.cc = (@ \ {"X"}) \cup If(b, "X")]

\* Before the loop, C and V are clear; after it, N and Z are set.
Shifted(step, s, n) ==
  LET t == Times(step, [s EXCEPT !.cc = @ \ {"C", "V"}], n)
  IN  [t EXCEPT !.cc = (@ \ {"N", "Z"}) \cup NZ(t.lo)]

\* A shift leaves in X what it leaves in C, unless the count is zero.
WithX(s, n) == IF n = 0 THEN s ELSE SetX(s, "C" \in s.cc)

\* One bit to the left, the bit b coming in, or to the right, where b is the value
\* of the sign bit.
Left(t, b) == Out(t, ((2 * t.lo) % Modulus) + b, Sign(t.lo))
Right(t, b) == Out(t, t.lo \div 2 + b, t.lo % 2 = 1)

\* Faulty Asl: V compares the signs before and after only.
AslEnds(s, n) ==
  LET t == Shifted([t \in States |-> Left(t, 0)], s, n)
  IN  WithX([t EXCEPT !.cc = @ \cup If(Sign(t.lo) # Sign(s.lo), "V")], n)

\* V is set once the sign differs from the first, at any step.
Asl(s, n) ==
  LET step == [t \in States |->
                 LET u == Left(t, 0)
                 IN  [u EXCEPT !.cc = @ \cup If(Sign(u.lo) # Sign(s.lo), "V")]]
  IN  WithX(Shifted(step, s, n), n)

Asr(s, n) ==
  LET step == [t \in States |-> Right(t, IF Sign(t.lo) THEN SignBit ELSE 0)]
  IN  WithX(Shifted(step, s, n), n)

Lsl(s, n) == WithX(Shifted([t \in States |-> Left(t, 0)], s, n), n)

Lsr(s, n) == WithX(Shifted([t \in States |-> Right(t, 0)], s, n), n)

Rol(s, n) ==
  Shifted([t \in States |-> Left(t, IF Sign(t.lo) THEN 1 ELSE 0)], s, n)

Ror(s, n) == Shifted([t \in States |-> Right(t, SignBit * (t.lo % 2))], s, n)

\* A rotation through X by nothing leaves X in C.
XInC(s, n) == IF n = 0 THEN [s EXCEPT !.cc = @ \cup If("X" \in s.cc, "C")] ELSE s

Roxl(s, n) ==
  LET step == [t \in States |-> SetX(Left(t, X(t)), Sign(t.lo))]
  IN  XInC(Shifted(step, s, n), n)

\* Faulty Roxr: the bit that comes in is the one that goes out.
RoxrAsRor(s, n) ==
  LET step == [t \in States |-> SetX(Right(t, SignBit * (t.lo % 2)), t.lo % 2 = 1)]
  IN  XInC(Shifted(step, s, n), n)

Roxr(s, n) ==
  LET step == [t \in States |-> SetX(Right(t, SignBit * X(t)), t.lo % 2 = 1)]
  IN  XInC(Shifted(step, s, n), n)

------------------------------------------------------------------------------
(* The operations on an operand by name: what Operands does to any operand.  *)

Operation(op, s, y) ==
  CASE op = "add"  -> Add(s, y)
    [] op = "sub"  -> Sub(s, y)
    [] op = "addx" -> Addx(s, y)
    [] op = "subx" -> Subx(s, y)
    [] op = "cmp"  -> Cmp(s, y)
    [] op = "and"  -> And(s, y)
    [] op = "or"   -> Or(s, y)
    [] op = "eor"  -> Eor(s, y)
    [] op = "not"  -> Not(s)
    [] op = "neg"  -> Neg(s)
    [] op = "negx" -> Negx(s)
    [] op = "asl"  -> Asl(s, y)
    [] op = "asr"  -> Asr(s, y)
    [] op = "lsl"  -> Lsl(s, y)
    [] op = "lsr"  -> Lsr(s, y)
    [] op = "rol"  -> Rol(s, y)
    [] op = "ror"  -> Ror(s, y)
    [] op = "roxl" -> Roxl(s, y)
    [] op = "roxr" -> Roxr(s, y)
    [] op = "tas"  -> [Tst(s) EXCEPT !.lo = Or(s, SignBit).lo]

------------------------------------------------------------------------------
(* The whole register: products, quotients, EXT and SWAP. *)

Wide(s) == Modulus * s.hi + s.lo
WideSign(s) == Sign(s.hi)
WideSigned(s) == IF WideSign(s) THEN Wide(s) - Modulus * Modulus ELSE Wide(s)
Lowest == -(SignBit * Modulus)  \* of the signed numbers of the whole register

\* The whole register holds v, modulo its width.
PlainWide(s, v) ==
  LET w == v % (Modulus * Modulus)
      h == w \div Modulus
  IN  [hi |-> h, lo |-> w % Modulus,
       cc |-> KeepX(s) \cup If(Sign(h), "N") \cup If(w = 0, "Z")]

Mulu(s, y) == PlainWide(s, s.lo * y)
Muls(s, y) == PlainWide(s, Signed(s.lo) * Signed(y))

Ext(s) == PlainWide(s, Signed(s.lo))
Swap(s) == PlainWide(s, Modulus * s.lo + s.hi)

\* The register stays when the quotient q does not fit.
Overflown(s) == [s EXCEPT !.cc = KeepX(s) \cup {"N", "V"}]

\* The quotient's low part in lo and the remainder in hi.
Divided(s, q, r) ==
  [hi |-> r % Modulus, lo |-> q % Modulus, cc |-> KeepX(s) \cup NZ(q % Modulus)]

Divu(s, y) ==
  LET q == Wide(s) \div y
  IN  IF q >= Modulus THEN Overflown(s) ELSE Divided(s, q, Wide(s) % y)

Abs(v) == IF v < 0 THEN -v ELSE v

\* Faulty Divs: the quotient is rounded down, as \div does, not towards zero.
DivsDown(s, y) ==
  LET n == WideSigned(s)
      d == Signed(y)
      q == IF d < 0 THEN (-n) \div (-d) ELSE n \div d
  IN  IF q >= SignBit \/ q < -SignBit THEN Overflown(s) ELSE Divided(s, q, n - q * d)

\* The division of C truncates towards zero.
Divs(s, y) ==
  LET n == WideSigned(s)
      d == Signed(y)
      size == Abs(n) \div Abs(d)
      q == IF (n < 0) = (d < 0) THEN size ELSE -size
  IN  IF q >= SignBit \/ q < -SignBit THEN Overflown(s) ELSE Divided(s, q, n - q * d)

------------------------------------------------------------------------------
(* Steps. *)

Becomes(s) == running /\ cpu' = s /\ UNCHANGED running

Adding == \E y \in Source : Becomes(Add(cpu, y)) \/ Becomes(Addx(cpu, y))
Subtracting ==
  \E y \in Source : Becomes(Sub(cpu, y)) \/ Becomes(Subx(cpu, y)) \/ Becomes(Cmp(cpu, y))
Negating == Becomes(Neg(cpu)) \/ Becomes(Negx(cpu))
Deciding == \E cond \in Conditions : Becomes(Scc(cpu, cond))
Combining ==
  \E y \in Source : Becomes(And(cpu, y)) \/ Becomes(Or(cpu, y)) \/ Becomes(Eor(cpu, y))
Moving ==
  \/ Becomes(Not(cpu)) \/ Becomes(Tst(cpu)) \/ Becomes(Ext(cpu)) \/ Becomes(Swap(cpu))
  \/ \E y \in Source : Becomes(Move(cpu, y))
MovingToCcr == \E f \in SUBSET Flags : Becomes([cpu EXCEPT !.cc = f])
Shifting ==
  \E n \in Counts :
    \/ Becomes(Asl(cpu, n)) \/ Becomes(Asr(cpu, n)) \/ Becomes(Lsl(cpu, n)) \/ Becomes(Lsr(cpu, n))
    \/ Becomes(Rol(cpu, n)) \/ Becomes(Ror(cpu, n)) \/ Becomes(Roxl(cpu, n)) \/ Becomes(Roxr(cpu, n))
Multiplying == \E y \in Source : Becomes(Mulu(cpu, y)) \/ Becomes(Muls(cpu, y))

\* Division by zero is an exception, before the register changes: see Cpu.
\* The quotient of the lowest number and -1 does not fit in the int of the
\* host, and C leaves the result undefined: some hosts wrap it, which is an
\* overflow like others, and others kill the process.
Dividing ==
  \E y \in Source \ {0} :
    \/ Becomes(Divu(cpu, y))
    \/ Becomes(Divs(cpu, y))
    \/ /\ running
       /\ WideSigned(cpu) = Lowest /\ Signed(y) = -1
       /\ running' = FALSE
       /\ UNCHANGED cpu

Next ==
  \/ Adding \/ Subtracting \/ Negating \/ Deciding \/ Combining \/ Moving
  \/ MovingToCcr \/ Shifting \/ Multiplying \/ Dividing

Spec == Init /\ [][Next]_vars

------------------------------------------------------------------------------
(* Properties. *)

\* The operations keep the register and the flags within their widths, in
\* particular DIV, whose quotient and remainder share the register.
TypeOK ==
  /\ cpu \in States
  /\ running \in BOOLEAN

\* After CMP (m68k_cmp_*) each condition of m68k_branch() decides the order its
\* name says: HI, LS, CC and CS of unsigned numbers, GE, LT, GT and LE of
\* signed ones, for all operands, the extreme ones included.
CompareDecides ==
  \A y \in Source :
    LET s == Cmp(cpu, y)
        a == cpu.lo
    IN  /\ Holds("HI", s) <=> a > y
        /\ Holds("LS", s) <=> a <= y
        /\ Holds("CC", s) <=> a >= y
        /\ Holds("CS", s) <=> a < y
        /\ Holds("EQ", s) <=> a = y
        /\ Holds("NE", s) <=> a # y
        /\ Holds("GE", s) <=> Signed(a) >= Signed(y)
        /\ Holds("LT", s) <=> Signed(a) < Signed(y)
        /\ Holds("GT", s) <=> Signed(a) > Signed(y)
        /\ Holds("LE", s) <=> Signed(a) <= Signed(y)

\* The halves of the register are numbers of two operands in a program's
\* chain of operations: Op on the low halves, then OpX on the high ones.
Chain(Op(_, _), OpX(_, _), s, high, low) ==
  LET first == Op(s, low)
      second == OpX([first EXCEPT !.lo = s.hi], high)
  IN  [hi |-> second.lo, lo |-> first.lo, cc |-> second.cc]

\* Whether s has the flags of the exact results: u of the unsigned and n of
\* the signed operands.
ExactFlags(s, u, n) ==
  /\ "C" \in s.cc <=> u \notin 0 .. Modulus * Modulus - 1
  /\ "X" \in s.cc <=> "C" \in s.cc
  /\ "V" \in s.cc <=> n \notin Lowest .. -Lowest - 1
  /\ "N" \in s.cc <=> WideSign(s)
  /\ "Z" \in s.cc <=> Wide(s) = 0

\* ADD and ADDX, SUB and SUBX in a chain add and subtract numbers of twice the width:
\* result, carry, overflow, sign and zero are those of the whole sum or difference
\* (m68k_addx_*, m68k_subx_*).
ChainsAreWide ==
  \A high, low \in Source :
    LET y == [hi |-> high, lo |-> low]
        sum == Chain(Add, Addx, cpu, high, low)
        diff == Chain(Sub, Subx, cpu, high, low)
    IN  /\ Wide(sum) = (Wide(cpu) + Wide(y)) % (Modulus * Modulus)
        /\ ExactFlags(sum, Wide(cpu) + Wide(y), WideSigned(cpu) + WideSigned(y))
        /\ Wide(diff) = (Wide(cpu) - Wide(y)) % (Modulus * Modulus)
        /\ ExactFlags(diff, Wide(cpu) - Wide(y), WideSigned(cpu) - WideSigned(y))

\* Two to the n.
Power(n) == Times([v \in Nat |-> 2 * v], 1, n)

\* The shifts multiply and divide by powers of two: ASL with V exactly when the
\* signed product does not fit, ASR rounding down, LSL and LSR of unsigned
\* numbers, and C is the last bit out (m68k_asl_* to m68k_lsr_*).
ShiftsAreArithmetic ==
  \A n \in Counts :
    LET a == Asl(cpu, n)
        r == Asr(cpu, n)
        l == Lsl(cpu, n)
        q == Lsr(cpu, n)
        u == cpu.lo
    IN  /\ a.lo = (Signed(u) * Power(n)) % Modulus
        /\ "V" \in a.cc <=> Signed(u) * Power(n) \notin -SignBit .. SignBit - 1
        /\ Signed(r.lo) = Signed(u) \div Power(n)
        /\ l.lo = a.lo /\ l.cc = a.cc \ {"V"}
        /\ q.lo = u \div Power(n)
        /\ n > 0 => /\ "C" \in l.cc <=> ((u * Power(n)) \div Modulus) % 2 = 1
                    /\ "C" \in q.cc <=> (u \div Power(n - 1)) % 2 = 1
                    /\ "C" \in r.cc <=> (Signed(u) \div Power(n - 1)) % 2 = 1
        /\ \A s \in {l, q, r} :
             "X" \in s.cc <=> IF n = 0 THEN "X" \in cpu.cc ELSE "C" \in s.cc

\* A rotation to the left is undone by the one to the right, and the one
\* through X gives X back too (m68k_rol_* to m68k_roxr_*).
RotationsAreInverse ==
  \A n \in Counts :
    /\ Ror(Rol(cpu, n), n).lo = cpu.lo
    /\ Rol(Ror(cpu, n), n).lo = cpu.lo
    /\ LET s == Roxr(Roxl(cpu, n), n) IN s.lo = cpu.lo /\ X(s) = X(cpu)
    /\ LET s == Roxl(Roxr(cpu, n), n) IN s.lo = cpu.lo /\ X(s) = X(cpu)

\* DIV finds the quotient and the remainder, of the dividend's sign, or says
\* with V that the quotient does not fit and keeps the dividend
\* (m68k_divs(), m68k_divu()); and it undoes MUL.
DivisionIsExact ==
  \A y \in Source \ {0} :
    LET u == Divu(cpu, y)
        s == Divs(cpu, y)
        n == WideSigned(cpu)
        d == Signed(y)
    IN  /\ IF "V" \in u.cc THEN u.lo = cpu.lo /\ u.hi = cpu.hi /\ Wide(cpu) >= y * Modulus
           ELSE u.hi < y /\ u.lo * y + u.hi = Wide(cpu)
        /\ IF "V" \in s.cc
           THEN /\ s.lo = cpu.lo /\ s.hi = cpu.hi
                /\ \A q \in -SignBit .. SignBit - 1 : Abs(n - q * d) >= Abs(d) \/ (n - q * d) * n < 0
           ELSE /\ Signed(s.lo) * d + Signed(s.hi) = n
                /\ Abs(Signed(s.hi)) < Abs(d)
                /\ Signed(s.hi) # 0 => (Signed(s.hi) < 0) = (n < 0)
        /\ LET p == Divu(Mulu(cpu, y), y) IN p.lo = cpu.lo /\ p.hi = 0
==============================================================================

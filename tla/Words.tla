------------------------------- MODULE Words ---------------------------------
(***************************************************************************)
(* The CPU's 16-bit words and 32-bit long words, and the memory (mem.c).   *)
(* A long word is a pair <<high, low>> of words, because TLC's integers    *)
(* have 32 bits with the sign.  The status register is the set of the      *)
(* numbers of its bits that are set.                                       *)
(***************************************************************************)
EXTENDS Integers

WordMax == 65535
Word == 0 .. WordMax
Long == Word \X Word

\* l + n for a displacement n of 16 bits, modulo 2^32.
Plus(l, n) ==
  LET low == l[2] + n
  IN  IF low < 0 THEN <<(l[1] + 65535) % 65536, low + 65536>>
      ELSE IF low > 65535 THEN <<(l[1] + 1) % 65536, low - 65536>>
      ELSE <<l[1], low>>

Odd(l) == l[2] % 2 = 1

------------------------------------------------------------------------------
(* The status register. *)

Bit == 0 .. 15
Carry == 0
Overflow == 1
Zero == 2
Negative == 3
Supervisor == 13
Trace == 15
Ccr == {0, 1, 2, 3, 4}

\* m68k_sr_filter_bits(): 0b1010011100011111.
Implemented == Ccr \cup {8, 9, 10, 13, 15}

Weight ==
  [i \in Bit |->
     CASE i = 0 -> 1 [] i = 1 -> 2 [] i = 2 -> 4 [] i = 3 -> 8
       [] i = 4 -> 16 [] i = 5 -> 32 [] i = 6 -> 64 [] i = 7 -> 128
       [] i = 8 -> 256 [] i = 9 -> 512 [] i = 10 -> 1024 [] i = 11 -> 2048
       [] i = 12 -> 4096 [] i = 13 -> 8192 [] i = 14 -> 16384 [] i = 15 -> 32768]

BitsOf(w) == {i \in Bit : (w \div Weight[i]) % 2 = 1}

\* The word whose bits are sr, a sum over the implemented bits and the others.
WordOf(sr) ==
  LET at(i) == IF i \in sr THEN Weight[i] ELSE 0
  IN  at(0) + at(1) + at(2) + at(3) + at(4) + at(5) + at(6) + at(7)
      + at(8) + at(9) + at(10) + at(11) + at(12) + at(13) + at(14) + at(15)

------------------------------------------------------------------------------
(* Memory: the words at even addresses that were written; the rest is zero. *)

\* The 24 address lines.
Cell(a) == <<a[1] % 256, a[2]>>

\* A memory holds words at even addresses of 24 bits.
MemoryOK(m) == \A c \in DOMAIN m : ~Odd(c) /\ c[1] < 256 /\ m[c] \in Word

\* An odd address is an error, and reads as zero.
ReadWord(m, a) == IF ~Odd(a) /\ Cell(a) \in DOMAIN m THEN m[Cell(a)] ELSE 0

WriteWord(m, a, w) ==
  IF Odd(a) THEN m
  ELSE [c \in DOMAIN m \cup {Cell(a)} |-> IF c = Cell(a) THEN w ELSE m[c]]

\* The wrap at 0xFFFFFE is that of Cell.
ReadLong(m, a) ==
  IF Odd(a) THEN <<0, 0>> ELSE <<ReadWord(m, a), ReadWord(m, Plus(a, 2))>>
==============================================================================

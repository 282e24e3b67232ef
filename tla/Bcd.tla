-------------------------------- MODULE Bcd ----------------------------------
(***************************************************************************)
(* Packed decimal numbers: ABCD, SBCD and NBCD on the low byte of a data   *)
(* register (m68k_add_bcd() and m68k_sub_bcd()).  The byte may hold any    *)
(* value; what the operations promise is about decimal digits.             *)
(***************************************************************************)
EXTENDS Integers

Byte == 0 .. 255

VARIABLE packed  \* the byte d and cc, the flags C, X and Z that are set

bcdVars == packed

BcdInit == packed = [d |-> 0, cc |-> {}]

Low(b) == b % 16
High(b) == b - Low(b)
Uint16(v) == v % 65536

Extend(s) == IF "X" \in s.cc THEN 1 ELSE 0

\* The low byte of the result, the carry, and Z only ever cleared; the
\* operations leave N and V alone.
BcdResult(s, result, carry) ==
  [d |-> result % 256,
   cc |-> (IF carry THEN {"C", "X"} ELSE {})
          \cup (IF result % 256 = 0 THEN s.cc \cap {"Z"} ELSE {})]

\* m68k_add_bcd(): the low digit is corrected by 6, the high one by 0xA0.
AddBcd(s, y) ==
  LET low == Low(s.d) + Low(y) + Extend(s)
      sum == (IF low > 9 THEN low + 6 ELSE low) + High(s.d) + High(y)
  IN  IF sum > 159 THEN BcdResult(s, sum - 160, TRUE) ELSE BcdResult(s, sum, FALSE)

\* Faulty SubBcd: a difference of six or more is no borrow.
SubBcdNoBorrow(s, sub, min) ==
  LET low == Uint16(Low(min) - Low(sub) - Extend(s))
      sum == Uint16(low + High(min) - High(sub))
      borrow == sum > 255
      corrected == IF borrow THEN Uint16(sum + 160) ELSE sum
  IN  IF low > 15
      THEN BcdResult(s, Uint16(corrected - 6), sum < 6)
      ELSE BcdResult(s, corrected, borrow)

\* m68k_sub_bcd(): min - sub in 16 bits without a sign, where a borrow shows as
\* a large number.
SubBcd(s, sub, min) ==
  LET low == Uint16(Low(min) - Low(sub) - Extend(s))
      sum == Uint16(low + High(min) - High(sub))
      borrow == sum > 255
      corrected == IF borrow THEN Uint16(sum + 160) ELSE sum
  IN  IF low > 15
      THEN BcdResult(s, Uint16(corrected - 6), borrow \/ sum < 6)
      ELSE BcdResult(s, corrected, borrow)

Abcd == \E y \in Byte : packed' = AddBcd(packed, y)
Sbcd == \E y \in Byte : packed' = SubBcd(packed, y, packed.d)
Nbcd == packed' = SubBcd(packed, packed.d, 0)

\* Other instructions load the byte, and the flags.
Load == \E y \in Byte : packed' = [packed EXCEPT !.d = y]
LoadFlags == \E f \in SUBSET {"C", "X", "Z"} : packed' = [packed EXCEPT !.cc = f]

BcdNext == Abcd \/ Sbcd \/ Nbcd \/ Load \/ LoadFlags

BcdSpec == BcdInit /\ [][BcdNext]_bcdVars

------------------------------------------------------------------------------
(* Properties. *)

Decimal(b) == Low(b) < 10 /\ b < 160
Number(b) == 10 * (b \div 16) + Low(b)

\* What the operations leave for the next byte of a longer number: the carry in
\* X, and Z when all bytes so far are zero.
Chains(s) ==
  /\ "X" \in s.cc <=> "C" \in s.cc
  /\ "Z" \in s.cc <=> "Z" \in packed.cc /\ s.d = 0

Hundred(s) == IF "C" \in s.cc THEN 100 ELSE 0

\* ABCD adds and SBCD and NBCD subtract decimal numbers, with the carry or borrow of
\* the byte before from X and the one for the byte after to X (m68k_add_bcd(),
\* m68k_sub_bcd()).
DecimalsAreExact ==
  \A x, y \in {b \in Byte : Decimal(b)} :
    /\ x = packed.d =>
         LET s == AddBcd(packed, y)
         IN  /\ Decimal(s.d)
             /\ Number(s.d) + Hundred(s) = Number(x) + Number(y) + Extend(packed)
             /\ Chains(s)
    /\ x = packed.d \/ x = 0 =>
         LET s == SubBcd(packed, y, x)
         IN  /\ Decimal(s.d)
             /\ Number(s.d) - Hundred(s) = Number(x) - Number(y) - Extend(packed)
             /\ Chains(s)
==============================================================================

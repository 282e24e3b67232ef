------------------------------ MODULE MCOperands -----------------------------
(* Bytes of two bits, 2 registers of a kind and A7, 16 bytes of memory: all   *)
(* modes, odd and even addresses, and stacks that wrap around the memory.     *)
EXTENDS Operands

Operand(mode, r, n) ==
  [mode |-> mode, reg |-> r, ext |-> n, index |-> [kind |-> "a", reg |-> 0, long |-> FALSE]]

MCEas ==
  {Operand(m, r, 3) : m \in {"An", "(An)+", "-(An)"}, r \in {0, 2}}
    \cup {Operand(m, 0, 3) : m \in {"Dn", "(An)", "(d16,An)"}}
    \cup {Operand(m, 0, 254) :
            m \in {"(d8,An,Xn)", "(xxx).W", "(xxx).L", "(d16,PC)", "(d8,PC,Xn)", "#", "none"}}
MCValues == {1, 142}
MCLists == {{}, {0, 3, 4}, 0 .. 5}
MCRow(x, y, z) == [r \in 0 .. 2 |-> IF r = 0 THEN x ELSE IF r = 1 THEN y ELSE z]
MCContent(a, sup, cc) ==
  [d |-> MCRow(1, 142, 255), a |-> a, ssp |-> 14, sup |-> sup, cc |-> cc,
   mem |-> [x \in 0 .. 15 |-> (x * x + x \div 3) % 4]]
MCContents ==
  {MCContent(MCRow(2, 12, 8), TRUE, {}), MCContent(MCRow(15, 6, 4), FALSE, Flags)}
==============================================================================

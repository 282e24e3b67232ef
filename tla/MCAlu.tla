-------------------------------- MODULE MCAlu --------------------------------
(* Binary arithmetic on all operands of four bits, with the counts past the   *)
(* width and X, or decimal arithmetic on all bytes and flags: a behaviour     *)
(* does either, which keeps their states apart.                               *)
EXTENDS Alu, Bcd

MCSource == 0 .. 15
MCCounts == 0 .. 9

MCInit == Init /\ BcdInit

Binary == packed.d = 0 /\ packed.cc = {} /\ Next /\ UNCHANGED packed
Decimally ==
  cpu = [hi |-> 0, lo |-> 0, cc |-> {}] /\ running /\ BcdNext /\ UNCHANGED vars

MCSpec == MCInit /\ [][Binary \/ Decimally]_<<vars, packed>>
==============================================================================

-------------------------------- MODULE MCCpu --------------------------------
(* Every sequence of MaxSteps instructions, from either mode.               *)
EXTENDS Cpu

\* An even and an odd address, and one whose stack crosses a 64 KB boundary.
MCTarget == {<<1, 2>>, <<1, 257>>}

MCInitialSp == {<<0, 0>>, <<1, 2>>}

MCDisplacement == {-6, 9}

\* The flags; supervisor with trace and an unimplemented bit; user.
MCOperand == {{0, 1, 5, 13, 15}, {2, 12}}

MCInitialMem ==
  [c \in {<<0, v>> : v \in Vectors} \cup {<<0, v + 2>> : v \in Vectors} |->
     IF c[2] % 4 = 0 THEN 0 ELSE 1024 + 2 * c[2]]
==============================================================================

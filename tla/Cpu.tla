-------------------------------- MODULE Cpu ----------------------------------
(***************************************************************************)
(* Control flow, exceptions, privilege and the two stacks of the CPU       *)
(* (m68k.c).  An instruction is an operator from the state before it to    *)
(* the state after it; longjmp() is the end of the operator.  Which        *)
(* instruction comes next, and its operands, are chosen freely: the guest  *)
(* may hold any program.                                                   *)
(***************************************************************************)
EXTENDS Words

CONSTANTS
  Target,       \* addresses that programs jump to and load
  Displacement, \* displacements of branches and of LINK
  Operand,      \* immediate operands of the instructions on SR, as bit sets
  Value,        \* words that end up in D0
  InitialSp,    \* where a stack is at the start
  InitialMem,   \* memory after loading: the vector table
  MaxSteps      \* bound: instructions in a behaviour

ASSUME TargetAssumption == Target \subseteq Long
ASSUME DisplacementAssumption ==
  \A n \in Displacement : n \in Int /\ -32768 <= n /\ n <= 32767
ASSUME OperandAssumption == Operand \subseteq SUBSET Bit
ASSUME InitialSpAssumption == InitialSp \subseteq Long
ASSUME ValueAssumption == Value \subseteq Word
ASSUME MaxStepsAssumption == MaxSteps \in Nat
ASSUME InitialMemAssumption == MemoryOK(InitialMem)

VARIABLES
  cpu,    \* registers and memory; d and a stand for any D register and A0 to A6
  steps   \* instructions so far

vars == <<cpu, steps>>

\* Addresses of the vectors that instructions use; TRAP #0 to #14 are alike.
AddressErrorVector == 12
IllegalVectors == {16, 40, 44}
DivideVector == 20
ChkVector == 24
TrapvVector == 28
PrivilegeVector == 32
TrapVectors == {128}
Vectors == IllegalVectors \cup TrapVectors
           \cup {AddressErrorVector, DivideVector, ChkVector, TrapvVector, PrivilegeVector}

IsSuper(s) == Supervisor \in s.sr

\* m68k_init() and main() start the CPU in supervisor mode with zero in all
\* registers but the PC; the guest's own start-up code then gives the stacks
\* their places and may go on in user mode.  A behaviour begins before or after.
Init ==
  /\ \E entry \in Target, ssp \in InitialSp, usp \in InitialSp,
        sr \in {{Supervisor}, {}} :
       /\ ~Odd(entry)
       /\ cpu = [pc |-> entry, sr |-> sr, ssp |-> ssp, usp |-> usp,
                 a |-> <<0, 0>>, d |-> 0, mem |-> InitialMem]
  /\ steps = 0

------------------------------------------------------------------------------
(* Registers, instruction words and stacks. *)

Sp(s) == IF IsSuper(s) THEN s.ssp ELSE s.usp

\* Faulty SetSp: A7 is always the register of user mode.
SetSpUser(s, l) == [s EXCEPT !.usp = l]

SetSp(s, l) == IF IsSuper(s) THEN [s EXCEPT !.ssp = l] ELSE [s EXCEPT !.usp = l]

\* Address register r, where 7 is the stack pointer of the mode.
AddressReg(s, r) == IF r = 7 THEN Sp(s) ELSE s.a
SetAddressReg(s, r, l) == IF r = 7 THEN SetSp(s, l) ELSE [s EXCEPT !.a = l]

\* n words of the instruction were fetched.
Fetch(s, n) == [s EXCEPT !.pc = Plus(s.pc, 2 * n)]

\* Pushing to an odd stack pointer moves it and writes nothing.
PushSsp(s, w) ==
  LET sp == Plus(s.ssp, -2) IN [s EXCEPT !.ssp = sp, !.mem = WriteWord(s.mem, sp, w)]
PushUsp(s, w) ==
  LET sp == Plus(s.usp, -2) IN [s EXCEPT !.usp = sp, !.mem = WriteWord(s.mem, sp, w)]
Push(s, w) == IF IsSuper(s) THEN PushSsp(s, w) ELSE PushUsp(s, w)
PushLong(s, l) == Push(Push(s, l[2]), l[1])

Top(s) == ReadWord(s.mem, Sp(s))
Popped(s, n) == SetSp(s, Plus(Sp(s), 2 * n))

\* The long word that two pops return, the high half first.
TopLong(s) == <<Top(s), Top(Popped(s, 1))>>

------------------------------------------------------------------------------
(* Exceptions. *)

EnterSupervisor(sr) == (sr \ {Trace}) \cup {Supervisor}

\* Faulty Exception: the status register is saved after the change of mode.
ExceptionSavesLate(s, at, vector) ==
  LET frame == PushSsp(PushSsp(PushSsp(s, at[2]), at[1]), WordOf(EnterSupervisor(s.sr)))
  IN  [frame EXCEPT !.pc = ReadLong(frame.mem, <<0, vector>>),
                    !.sr = EnterSupervisor(s.sr)]

\* m68k_exception(), and the same code in m68k_chk(): at is the PC to save.
Exception(s, at, vector) ==
  LET frame == PushSsp(PushSsp(PushSsp(s, at[2]), at[1]), WordOf(s.sr))
  IN  [frame EXCEPT !.pc = ReadLong(frame.mem, <<0, vector>>),
                    !.sr = EnterSupervisor(s.sr)]

\* m68k_address_error(): below PC and SR it saves the opcode, the address and
\* the kind of access; the two words of information are zero here.
AddressError(s, address) ==
  LET f1 == PushSsp(PushSsp(PushSsp(s, s.pc[2]), s.pc[1]), WordOf(s.sr))
      f2 == PushSsp(PushSsp(PushSsp(PushSsp(f1, 0), address[2]), address[1]), 0)
  IN  [f2 EXCEPT !.pc = ReadLong(f2.mem, <<0, AddressErrorVector>>),
                 !.sr = EnterSupervisor(s.sr)]

\* A privileged instruction: in user mode an exception at the instruction itself.
Privileged(s, result) ==
  IF IsSuper(s) THEN result ELSE Exception(Fetch(s, 1), s.pc, PrivilegeVector)

------------------------------------------------------------------------------
(* Branches, jumps, calls and returns. *)

\* Faulty Go: nothing tests the target.
GoAnywhere(s, target, fail) == [s EXCEPT !.pc = target]

\* Go to target, or fail with an address error from state fail.
Go(s, target, fail) ==
  IF Odd(target) THEN AddressError(fail, target) ELSE [s EXCEPT !.pc = target]

\* Bcc with a displacement in n - 1 extension words: pc - 2 on failure.
Branch(s, n, disp, taken) ==
  IF taken THEN Go(Fetch(s, n), Plus(Fetch(s, 1).pc, disp), Fetch(s, 1)) ELSE Fetch(s, n)

\* BSR has pushed, and jumped, when it finds the target odd.
Bsr(s, n, disp) ==
  LET target == Plus(Fetch(s, 1).pc, disp)
      called == [PushLong(Fetch(s, n), Fetch(s, n).pc) EXCEPT !.pc = target]
  IN  Go(called, target, called)

\* DBcc: an odd target leaves the counter as it was.
Dbcc(s, disp, cond) ==
  LET count == (s.d + 65535) % 65536
      counted == [Fetch(s, 2) EXCEPT !.d = count]
  IN  IF cond THEN Fetch(s, 2)
      ELSE IF count = 65535 THEN counted
      ELSE Go(counted, Plus(Fetch(s, 1).pc, disp), Fetch(s, 1))

\* JMP and JSR through an effective address of n - 1 extension words.
Jmp(s, n, target) == Go(Fetch(s, n), target, Fetch(s, n))
Jsr(s, n, target) == Go(PushLong(Fetch(s, n), Fetch(s, n).pc), target, Fetch(s, n))

Rts(s) == LET r == Popped(s, 2) IN Go(r, TopLong(s), Fetch(r, 1))

\* RTR takes the five flags from the word below the return address.
Rtr(s) ==
  LET r == [Popped(s, 3) EXCEPT !.sr = (s.sr \ Ccr) \cup (BitsOf(Top(s)) \cap Ccr)]
  IN  Go(r, TopLong(Popped(s, 1)), Fetch(r, 1))

\* RTE pops all of the frame before the mode changes.
Rte(s) ==
  LET r == [Popped(s, 3) EXCEPT !.sr = BitsOf(Top(s)) \cap Implemented]
  IN  Privileged(s, Go(r, TopLong(Popped(s, 1)), Fetch(r, 1)))

Link(s, r, disp) ==
  LET pushed == PushLong(s, AddressReg(s, r))
      linked == SetAddressReg(pushed, r, Sp(pushed))
  IN  SetSp(Fetch(linked, 2), Plus(Sp(linked), disp))

\* Faulty Unlk: the register is loaded from the old stack.
UnlkOldStack(s, r) ==
  LET value == AddressReg(s, r)
      freed == SetSp(Fetch(s, 1), value)
  IN  SetAddressReg(Popped(freed, 2), r, TopLong(s))

Unlk(s, r) ==
  LET value == AddressReg(s, r)
      freed == SetSp(Fetch(s, 1), value)
  IN  IF Odd(value) THEN AddressError(Fetch(s, 1), value)
      ELSE SetAddressReg(Popped(freed, 2), r, TopLong(freed))

------------------------------------------------------------------------------
(* The status register and the user stack pointer. *)

WithSr(s, n, sr) == [Fetch(s, n) EXCEPT !.sr = sr]

SymDiff(x, y) == (x \ y) \cup (y \ x)

\* Faulty MoveToSr: the mode is not tested.
MoveToSrAnyMode(s, v) == WithSr(s, 2, v \cap Implemented)

MoveToSr(s, v) == Privileged(s, WithSr(s, 2, v \cap Implemented))
AndiToSr(s, v) == Privileged(s, WithSr(s, 2, s.sr \cap v))
OriToSr(s, v)  == Privileged(s, WithSr(s, 2, s.sr \cup (v \cap Implemented)))
EoriToSr(s, v) == Privileged(s, WithSr(s, 2, SymDiff(s.sr, v \cap Implemented)))

MoveToCcr(s, v) == WithSr(s, 2, (s.sr \ Ccr) \cup (v \cap Ccr))
AndiToCcr(s, v) == WithSr(s, 2, s.sr \cap (v \cup 8 .. 15))

\* Faulty OriToCcr: all of the byte reaches the register.
OriToCcrAll(s, v) == WithSr(s, 2, s.sr \cup (v \cap 0 .. 7))

OriToCcr(s, v)  == WithSr(s, 2, s.sr \cup (v \cap Ccr))
EoriToCcr(s, v) == WithSr(s, 2, SymDiff(s.sr, v \cap Ccr))

\* MOVE from SR is not privileged.
MoveFromSr(s) == [Fetch(s, 1) EXCEPT !.d = WordOf(s.sr)]

\* STOP stays where it is and is executed again.
Stop(s, v) == Privileged(s, [s EXCEPT !.sr = v \cap Implemented])

Reset(s) == Privileged(s, Fetch(s, 1))

MoveToUsp(s, r) == Privileged(s, [Fetch(s, 1) EXCEPT !.usp = AddressReg(s, r)])
MoveFromUsp(s, r) == Privileged(s, SetAddressReg(Fetch(s, 1), r, s.usp))

------------------------------------------------------------------------------
(* Instructions that raise exceptions, and loads. *)

Illegal(s, vector) == Exception(Fetch(s, 1), s.pc, vector)

\* The PC of the division is saved, not that of the next instruction.
DivideByZero(s) == Exception(Fetch(s, 2), s.pc, DivideVector)

Trap(s, vector) == Exception(Fetch(s, 1), Fetch(s, 1).pc, vector)

Trapv(s) ==
  IF Overflow \in s.sr THEN Exception(Fetch(s, 1), Fetch(s, 1).pc, TrapvVector)
  ELSE Fetch(s, 1)

\* CHK: a negative register, or one above the bound, which is anything here.
Chk(s, negative, above) ==
  LET flags == (s.sr \ {Carry, Overflow, Zero, Negative})
               \cup (IF negative THEN {Negative} ELSE {})
      tested == [Fetch(s, 2) EXCEPT !.sr = flags]
  IN  IF negative \/ above THEN Exception(tested, tested.pc, ChkVector) ELSE tested

\* Trap 15 is the emulator's hook, which answers in D0.
Trap15(s, v) == [Fetch(s, 1) EXCEPT !.d = v]

Lea(s, r, target) == SetAddressReg(Fetch(s, 3), r, target)

------------------------------------------------------------------------------
Step(s) == steps < MaxSteps /\ steps' = steps + 1 /\ cpu' = s

Jumping ==
  \/ \E n \in {1, 2}, disp \in Displacement :
       \/ \E taken \in BOOLEAN : Step(Branch(cpu, n, disp, taken))
       \/ Step(Bsr(cpu, n, disp))
  \/ \E disp \in Displacement, cond \in BOOLEAN : Step(Dbcc(cpu, disp, cond))
  \/ \E t \in Target : Step(Jmp(cpu, 3, t)) \/ Step(Jsr(cpu, 3, t))
  \/ Step(Jmp(cpu, 1, cpu.a)) \/ Step(Jsr(cpu, 1, cpu.a))

Returning == Step(Rts(cpu)) \/ Step(Rtr(cpu)) \/ Step(Rte(cpu))

Linking ==
  \E r \in {0, 7} :
    \/ \E disp \in Displacement : Step(Link(cpu, r, disp))
    \/ Step(Unlk(cpu, r))
    \/ \E t \in Target : Step(Lea(cpu, r, t))

MovingToUsp == \E r \in {0, 7} : Step(MoveToUsp(cpu, r))

Controlling ==
  \/ \E v \in Operand :
       \/ Step(MoveToSr(cpu, v)) \/ Step(AndiToSr(cpu, v))
       \/ Step(OriToSr(cpu, v)) \/ Step(EoriToSr(cpu, v))
       \/ Step(MoveToCcr(cpu, v)) \/ Step(AndiToCcr(cpu, v))
       \/ Step(OriToCcr(cpu, v)) \/ Step(EoriToCcr(cpu, v))
       \/ Step(Stop(cpu, v))
  \/ Step(MoveFromSr(cpu)) \/ Step(Reset(cpu))
  \/ \E r \in {0, 7} : Step(MoveFromUsp(cpu, r))

Trapping ==
  \/ \E vector \in IllegalVectors : Step(Illegal(cpu, vector))
  \/ \E vector \in TrapVectors : Step(Trap(cpu, vector))
  \/ Step(DivideByZero(cpu)) \/ Step(Trapv(cpu))
  \/ \E negative, above \in BOOLEAN : Step(Chk(cpu, negative, above))
  \/ \E v \in Value : Step(Trap15(cpu, v))

Next == Jumping \/ Returning \/ Linking \/ MovingToUsp \/ Controlling \/ Trapping

Spec == Init /\ [][Next]_vars

------------------------------------------------------------------------------
TypeOK ==
  /\ cpu.pc \in Long /\ cpu.ssp \in Long /\ cpu.usp \in Long /\ cpu.a \in Long
  /\ cpu.sr \in SUBSET Bit /\ cpu.d \in Word
  /\ MemoryOK(cpu.mem)
  /\ steps \in 0 .. MaxSteps

\* No sequence of moves, returns and logical operations sets a bit that the
\* 68000 does not have: what RTE and the debugger show is what a 68000 has.
SrImplemented == cpu.sr \subseteq Implemented

VectorsEven == \A v \in Vectors : ~Odd(ReadLong(cpu.mem, <<0, v>>))

\* From an even PC no instruction goes to an odd one, unless a vector is odd:
\* every transfer tests its target before the next fetch, the returns from a
\* damaged stack included.
PcEven == [][~Odd(cpu.pc) /\ VectorsEven' => ~Odd(cpu'.pc)]_vars

\* User mode becomes supervisor mode only through a vector, with a frame on
\* the supervisor stack: no instruction can write the S bit in user mode.
SupervisorByException ==
  [][~IsSuper(cpu) /\ IsSuper(cpu') =>
       /\ \E v \in Vectors : cpu'.pc = ReadLong(cpu'.mem, <<0, v>>)
       /\ cpu'.ssp \in {Plus(cpu.ssp, -6), Plus(cpu.ssp, -14)}]_vars

\* Each mode leaves the other's stack pointer alone: user code the supervisor
\* one, and supervisor code the user one, but for MOVE to USP.
StacksIsolated ==
  [][/\ ~IsSuper(cpu) /\ ~IsSuper(cpu') => cpu'.ssp = cpu.ssp
     /\ IsSuper(cpu) /\ ~MovingToUsp => cpu'.usp = cpu.usp]_vars

\* A trap anywhere, then RTE: the PC, the mode, the flags and both stack
\* pointers are as they were, over a wrap of the stack pointer too.
RteUndoesException ==
  ~Odd(cpu.ssp) /\ ~Odd(cpu.pc) =>
    \A v \in TrapVectors :
      LET back == Rte(Exception(cpu, cpu.pc, v))
      IN  back = [cpu EXCEPT !.mem = back.mem]

\* RTS leads back from a call to what follows its n words.
Returns(n, called) ==
  LET back == Rts(called)
  IN  back = [Fetch(cpu, n) EXCEPT !.mem = back.mem]

\* What LINK, JSR and BSR put on the stack, UNLK and RTS take off it: the register
\* and the stack pointer, wherever the displacement took it, and the next instruction,
\* with the stack as it was (m68k_link(), m68k_unlk(), m68k_jsr(), m68k_branch(), m68k_rts()).
FramesAreUndone ==
  ~Odd(Sp(cpu)) =>
    /\ \A disp \in Displacement :
         LET back == Unlk(Link(cpu, 0, disp), 0)
         IN  back.a = cpu.a /\ Sp(back) = Sp(cpu) /\ back.pc = Plus(cpu.pc, 6)
    /\ \A n \in {1, 2, 3}, t \in Target :
         ~Odd(t) /\ ~Odd(cpu.pc) => Returns(n, Jsr(cpu, n, t))
    /\ \A n \in {1, 2}, disp \in Displacement :
         ~Odd(Plus(Fetch(cpu, 1).pc, disp)) /\ ~Odd(cpu.pc) => Returns(n, Bsr(cpu, n, disp))
==============================================================================

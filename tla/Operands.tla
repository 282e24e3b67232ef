------------------------------ MODULE Operands -------------------------------
(***************************************************************************)
(* The operands of instructions (m68k.c): effective addresses with their   *)
(* side effects, reads and writes that may be refused, and the             *)
(* instructions that move data with them or combine it as Alu computes.    *)
(*                                                                         *)
(* An instruction is an operator from state to state.  One that raises an  *)
(* exception leaves what it did before and the exception in raised; the    *)
(* frame on the stack and the jump to the handler are those of Cpu.  The   *)
(* code has most of it in three copies for the widths of 1, 2 and 4 bytes. *)
(***************************************************************************)
EXTENDS Integers, FiniteSets

CONSTANTS
  ByteBits,  \* bits of a byte: 8
  Regs,      \* registers of a kind: 8
  MemSize,   \* bytes of memory: 2^24
  Eas,       \* the operands of the instructions of a program
  Values,    \* the immediate operands
  Lists,     \* the register lists of MOVEM
  Contents,  \* what registers and memory hold at first
  MaxSteps   \* bound: instructions in a behaviour

RegNos == 0 .. Regs - 1
SP == Regs - 1
Widths == {1, 2, 4}
Flags == {"X", "N", "Z", "V", "C"}

\* Two to the n.
Two[n \in Nat] == IF n = 0 THEN 1 ELSE 2 * Two[n - 1]

\* The values of one byte, and of w bytes.
Base == Two[ByteBits]
Modulus(w) == Two[w * ByteBits]

Long == 0 .. Modulus(4) - 1
Memories == [0 .. MemSize - 1 -> 0 .. Base - 1]

ASSUME WidthAssumption == ByteBits \in Nat \ {0} /\ MaxSteps \in Nat
\* Addresses wrap with the registers and with the memory, which has room for what one
\* MOVEP writes.
ASSUME MemoryAssumption ==
  MemSize \in Nat /\ MemSize >= 8 /\ MemSize % 2 = 0 /\ Modulus(4) % MemSize = 0
ASSUME RegsAssumption == Regs \in Nat \ {0} /\ Regs <= Modulus(4)
ASSUME ProgramAssumption ==
  /\ Eas \subseteq [mode : STRING, reg : RegNos, ext : Long,
                    index : [kind : {"d", "a"}, reg : RegNos, long : BOOLEAN]]
  /\ Values \subseteq Long
  /\ Lists \subseteq SUBSET (0 .. 2 * Regs - 1)
  /\ Contents \subseteq [d : [RegNos -> Long], a : [RegNos -> Long], ssp : Long,
                         mem : Memories, sup : BOOLEAN, cc : SUBSET Flags]

VARIABLES
  cpu,    \* d, a, ssp, sup (the S bit), cc (the flags that are set), pc, oldPc, src,
          \* dst, mem, and the exception that the instruction raised
  steps   \* instructions so far

vars == <<cpu, steps>>

\* Alu's operations on bytes, words and long words.
Byte == INSTANCE Alu WITH
  SignBit <- Modulus(1) \div 2, Source <- {}, Counts <- {}, cpu <- <<>>, running <- TRUE
Word == INSTANCE Alu WITH
  SignBit <- Modulus(2) \div 2, Source <- {}, Counts <- {}, cpu <- <<>>, running <- TRUE
LongWord == INSTANCE Alu WITH
  SignBit <- Modulus(4) \div 2, Source <- {}, Counts <- {}, cpu <- <<>>, running <- TRUE

------------------------------------------------------------------------------
(* Numbers, registers, memory. *)

Low(v, w) == v % Modulus(w)
\* v with its low w bytes replaced.
WithLow(v, w, x) == v - Low(v, w) + x
\* The value of w bytes as a long word with their sign.
Extended(v, w) ==
  (IF Low(v, w) >= Modulus(w) \div 2 THEN Low(v, w) - Modulus(w) ELSE Low(v, w)) % Modulus(4)

\* Faulty Plus: in registers wider than 32 bits.
PlusWide(v, x) == v + x

Plus(v, x) == (v + x) % Modulus(4)

\* A7 is ssp in supervisor mode.
Reg(s, r) == IF r = SP /\ s.sup THEN s.ssp ELSE s.a[r]
SetReg(s, r, v) ==
  IF r = SP /\ s.sup THEN [s EXCEPT !.ssp = v] ELSE [s EXCEPT !.a[r] = v]

\* A byte takes a word on the stack.
Step(r, w) == IF r = SP /\ w = 1 THEN 2 ELSE w

Inc(s, r, w) == SetReg(s, r, Plus(Reg(s, r), Step(r, w)))
Dec(s, r, w) == SetReg(s, r, Plus(Reg(s, r), -Step(r, w)))

\* High bytes first.  A long word at the last word of the memory goes on at 0.
Load(s, address, w) ==
  LET byte(i) == s.mem[(address + i) % MemSize]
  IN  CASE w = 1 -> byte(0)
        [] w = 2 -> byte(0) * Base + byte(1)
        [] w = 4 -> ((byte(0) * Base + byte(1)) * Base + byte(2)) * Base + byte(3)
Store(s, address, w, v) ==
  [s EXCEPT !.mem =
     [x \in 0 .. MemSize - 1 |->
        LET i == (x - address) % MemSize
        IN  IF i < w THEN (v \div Modulus(w - 1 - i)) % Base ELSE @[x]]]

------------------------------------------------------------------------------
(* Exceptions: what has raised one does nothing more. *)

None == [vector |-> "none", address |-> 0, read |-> FALSE, program |-> FALSE]

Ok(s) == s.raised = None

\* m68k_exception() goes back to the instruction.
Illegal(s) == [s EXCEPT !.raised = [None EXCEPT !.vector = "illegal"], !.pc = s.oldPc]
AddressError(s, loc, read) ==
  [s EXCEPT !.raised =
     [vector |-> "address", address |-> loc.n, read |-> read, program |-> loc.program]]

------------------------------------------------------------------------------
(* Effective addresses.  An operand is a mode, a register, the value of its *)
(* extension words and, in the modes with an index, the index register.     *)

Fetch(s, words) == [s EXCEPT !.pc = Plus(@, 2 * words)]

Index(s, x) ==
  LET v == IF x.kind = "a" THEN Reg(s, x.reg) ELSE s.d[x.reg]
  IN  IF x.long THEN v ELSE Extended(v, 2)

At(l, n) == [l |-> l, n |-> n % Modulus(4), program |-> FALSE]
InProgram(n) == [At("mem", n) EXCEPT !.program = TRUE]

\* The state after the address was computed, and the place.  PC-relative
\* addresses start from the extension word.
Locate(s, o, w) ==
  CASE o.mode = "Dn"          -> <<s, At("dr", o.reg)>>
    [] o.mode = "An"          -> <<s, At("ar", o.reg)>>
    [] o.mode = "(An)"        -> <<s, At("mem", Reg(s, o.reg))>>
    [] o.mode = "(An)+"       -> <<Inc(s, o.reg, w), At("mem", Reg(s, o.reg))>>
    [] o.mode = "-(An)"       -> LET t == Dec(s, o.reg, w) IN <<t, At("mem", Reg(t, o.reg))>>
    [] o.mode = "(d16,An)"    -> <<Fetch(s, 1), At("mem", Reg(s, o.reg) + Extended(o.ext, 2))>>
    [] o.mode = "(d8,An,Xn)"  ->
         <<Fetch(s, 1), At("mem", Reg(s, o.reg) + Extended(o.ext, 1) + Index(s, o.index))>>
    [] o.mode = "(xxx).W"     -> <<Fetch(s, 1), At("mem", Extended(o.ext, 2))>>
    [] o.mode = "(xxx).L"     -> <<Fetch(s, 2), At("mem", o.ext)>>
    [] o.mode = "(d16,PC)"    -> <<Fetch(s, 1), InProgram(s.pc + Extended(o.ext, 2))>>
    [] o.mode = "(d8,PC,Xn)"  ->
         <<Fetch(s, 1), InProgram(s.pc + Extended(o.ext, 1) + Index(s, o.index))>>
    [] o.mode = "#"           -> <<Fetch(s, IF w = 4 THEN 2 ELSE 1), At("imm", o.ext)>>
    [] OTHER                  -> <<Illegal(s), At("imm", 0)>>

\* What was located becomes the source or the destination.
AsSrc(t) == IF Ok(t[1]) THEN [t[1] EXCEPT !.src = t[2]] ELSE t[1]
AsDst(t) == IF Ok(t[1]) THEN [t[1] EXCEPT !.dst = t[2]] ELSE t[1]
SrcSet(s, o, w) == IF Ok(s) THEN AsSrc(Locate(s, o, w)) ELSE s
DstSet(s, o, w) == IF Ok(s) THEN AsDst(Locate(s, o, w)) ELSE s

\* Bytes of address registers and odd words do not exist.
Refused(s, loc, w, kinds, read) ==
  IF loc.l \notin kinds THEN Illegal(s)
  ELSE IF loc.l = "mem" /\ w > 1 /\ loc.n % 2 = 1 THEN AddressError(s, loc, read)
  ELSE s

Value(s, loc, w) ==
  CASE loc.l = "dr"  -> Low(s.d[loc.n], w)
    [] loc.l = "ar"  -> Low(Reg(s, loc.n), w)
    [] loc.l = "mem" -> Load(s, loc.n, w)
    [] loc.l = "imm" -> Low(loc.n, w)

\* Reading comes in two halves: what it may raise, and the value.
SrcRead(s, w) ==
  IF ~Ok(s) THEN s
  ELSE Refused(s, s.src, w, {"dr", "mem", "imm"} \cup (IF w = 1 THEN {} ELSE {"ar"}), TRUE)
SrcValue(s, w) == IF Ok(s) THEN Value(s, s.src, w) ELSE 0

\* An immediate destination has a byte to be read: that of BTST.
DstRead(s, w) ==
  IF ~Ok(s) THEN s
  ELSE Refused(s, s.dst, w, {"dr", "mem"} \cup (IF w = 1 THEN {"imm"} ELSE {"ar"}), TRUE)
DstValue(s, w) == IF Ok(s) THEN Value(s, s.dst, w) ELSE 0

\* Faulty DstWrite: the bytes are written before the address is looked at.
DstWriteFirst(s, w, v) ==
  IF ~Ok(s) THEN s
  ELSE LET t == IF s.dst.l = "mem" THEN Store(s, s.dst.n, w, v) ELSE s
           n == s.dst.n
       IN  CASE s.dst.l = "dr"  -> [t EXCEPT !.d[n] = WithLow(@, w, Low(v, w))]
             [] s.dst.l = "ar"  -> SetReg(t, n, WithLow(Reg(t, n), w, Low(v, w)))
             [] s.dst.l \in {"mem", "imm"} -> Refused(t, s.dst, w, {"mem"}, FALSE)

DstWrite(s, w, v) ==
  IF ~Ok(s) THEN s
  ELSE LET t == Refused(s, s.dst, w, {"dr", "mem"} \cup (IF w = 1 THEN {} ELSE {"ar"}), FALSE)
           n == s.dst.n
       IN  CASE ~Ok(t) -> t
             [] Ok(t) /\ s.dst.l = "dr"  -> [t EXCEPT !.d[n] = WithLow(@, w, Low(v, w))]
             [] Ok(t) /\ s.dst.l = "ar"  -> SetReg(t, n, WithLow(Reg(t, n), w, Low(v, w)))
             [] Ok(t) /\ s.dst.l = "mem" -> Store(t, n, w, v)

------------------------------------------------------------------------------
(* Moves. *)

NZ(v, w) ==
  (IF Low(v, w) >= Modulus(w) \div 2 THEN {"N"} ELSE {}) \cup (IF Low(v, w) = 0 THEN {"Z"} ELSE {})

\* N and Z of the value, V and C clear.
Tested(s, v, w) == IF Ok(s) THEN [s EXCEPT !.cc = (@ \cap {"X"}) \cup NZ(v, w)] ELSE s

\* The flags are set before the destination is looked at.  MOVEA fills the
\* register with the sign and leaves the flags.
Move(s, a, b, w) ==
  LET read == SrcRead(SrcSet(s, a, w), w)
      v == SrcValue(read, w)
  IN  IF b.mode = "An" /\ w > 1
      THEN DstWrite(DstSet(read, b, w), 4, Extended(v, w))
      ELSE DstWrite(DstSet(Tested(read, v, w), b, w), w, v)

Moveq(s, r, v) == LET t == [s EXCEPT !.d[r] = Extended(v, 1)] IN Tested(t, t.d[r], 4)

\* The bytes of the data register, every second byte of memory.  There are no
\* odd addresses for MOVEP.
MovepToMem(s, r, o, w) ==
  LET t == Fetch(s, 1)
      address == Reg(s, o.reg) + Extended(o.ext, 2)
      put(m, i) == Store(m, address + 2 * i, 1, s.d[r] \div Modulus(w - 1 - i))
  IN  CASE w = 2 -> put(put(t, 1), 0)
        [] w = 4 -> put(put(put(put(t, 3), 2), 1), 0)
MovepToReg(s, r, o, w) ==
  LET address == Reg(s, o.reg) + Extended(o.ext, 2)
      get(i) == Load(s, address + 2 * i, 1)
      v == CASE w = 2 -> get(0) * Base + get(1)
             [] w = 4 -> ((get(0) * Base + get(1)) * Base + get(2)) * Base + get(3)
  IN  [Fetch(s, 1) EXCEPT !.d[r] = WithLow(@, w, v)]

\* EXG: the two registers, each of either kind.
Exg(s, x, y) ==
  LET get(r) == IF r.kind = "d" THEN s.d[r.reg] ELSE Reg(s, r.reg)
      put(t, r, v) == IF r.kind = "d" THEN [t EXCEPT !.d[r.reg] = v] ELSE SetReg(t, r.reg, v)
  IN  put(put(s, y, get(x)), x, get(y))

Lea(s, r, o) == LET t == SrcSet(s, o, 4) IN IF Ok(t) THEN SetReg(t, r, t.src.n) ELSE t

\* Pushes look at no error: at an odd address nothing is written.
Push(s, v) ==
  LET t == Dec(s, SP, 2) IN IF Reg(t, SP) % 2 = 0 THEN Store(t, Reg(t, SP), 2, v) ELSE t
Pea(s, o) ==
  LET t == SrcSet(s, o, 4)
  IN  IF Ok(t) THEN Push(Push(t, Low(t.src.n, 2)), t.src.n \div Modulus(2)) ELSE t

------------------------------------------------------------------------------
(* MOVEM.  The registers of the list, as numbers: D0 to D7, then A0 to A7. *)

MovemReg(s, n) == IF n < Regs THEN s.d[n] ELSE Reg(s, n - Regs)
SetMovemReg(s, n, v) ==
  IF n < Regs THEN [s EXCEPT !.d[n] = v] ELSE SetReg(s, n - Regs, v)

\* What the code does for each register of the list, in order; what it moves
\* the place by is a width forwards or backwards.
MovemWrite(s, n, w, by) ==
  LET t == DstWrite(s, w, MovemReg(s, n))
  IN  IF Ok(t) THEN [t EXCEPT !.dst.n = Plus(@, by)] ELSE t
MovemRead(s, n, w) ==
  LET t == SrcRead(s, w)
  IN  IF Ok(t)
      THEN [SetMovemReg(t, n, Extended(SrcValue(t, w), w)) EXCEPT !.src.n = Plus(@, w)]
      ELSE t

\* t after the registers of the list that are below n went out.
Out(t, list, w, n) ==
  LET after[k \in 0 .. n] ==
        IF k = 0 THEN t
        ELSE IF k - 1 \in list THEN MovemWrite(after[k - 1], k - 1, w, w)
        ELSE after[k - 1]
  IN  after[n]

\* t after those among the last n registers did, in the opposite order and downwards.
Down(t, list, w, n) ==
  LET after[k \in 0 .. n] ==
        IF k = 0 THEN t
        ELSE IF 2 * Regs - k \in list THEN MovemWrite(after[k - 1], 2 * Regs - k, w, -w)
        ELSE after[k - 1]
  IN  after[n]

\* t after those below n came in.
In(t, list, w, n) ==
  LET after[k \in 0 .. n] ==
        IF k = 0 THEN t
        ELSE IF k - 1 \in list THEN MovemRead(after[k - 1], k - 1, w)
        ELSE after[k - 1]
  IN  after[n]

\* Faulty MovemToMem: the register of the address stays where it was decremented.
MovemToMemOnce(s, list, o, w) ==
  LET t == DstSet(Fetch(s, 1), o, w)
  IN  IF o.mode = "-(An)" THEN Down(t, list, w, 2 * Regs) ELSE Out(t, list, w, 2 * Regs)

\* With -(An) the registers go out in the opposite order.  The address register
\* has its first value while they do, and is set at the end.
MovemToMem(s, list, o, w) ==
  LET t == DstSet(Fetch(s, 1), o, w)
      u == Down(Inc(t, o.reg, w), list, w, 2 * Regs)
  IN  IF o.mode = "-(An)" /\ Ok(t)
      THEN IF Ok(u) THEN SetReg(u, o.reg, Plus(Reg(s, o.reg), -(w * Cardinality(list)))) ELSE u
      ELSE Out(t, list, w, 2 * Regs)

\* With (An)+ the end address replaces what was loaded into the register.
MovemToReg(s, list, o, w) ==
  LET u == In(SrcSet(Fetch(s, 1), o, w), list, w, 2 * Regs)
  IN  IF o.mode = "(An)+" /\ Ok(u)
      THEN SetReg(u, o.reg, Plus(Reg(s, o.reg), w * Cardinality(list)))
      ELSE u

------------------------------------------------------------------------------
(* Arithmetic, logic, shifts and bits. *)

Operation(op, s, v, y, w) ==
  LET n == [hi |-> 0, lo |-> v, cc |-> s.cc]
  IN  CASE w = 1 -> Byte!Operation(op, n, y)
        [] w = 2 -> Word!Operation(op, n, y)
        [] w = 4 -> LongWord!Operation(op, n, y)

WithFlags(s, cc) == IF Ok(s) THEN [s EXCEPT !.cc = cc] ELSE s

\* <ea> becomes <ea> op y.  The flags are set before the result is written.
Modify(s, op, o, y, w) ==
  LET read == DstRead(DstSet(s, o, w), w)
      r == Operation(op, s, DstValue(read, w), Low(y, w), w)
  IN  DstWrite(WithFlags(read, r.cc), w, r.lo)

\* CMPI: flags alone.
Examine(s, o, y, w) ==
  LET read == DstRead(DstSet(s, o, w), w)
  IN  WithFlags(read, Operation("cmp", s, DstValue(read, w), Low(y, w), w).cc)

\* Dn becomes Dn op <ea>.
Combine(s, op, r, o, w) ==
  LET read == SrcRead(SrcSet(s, o, w), w)
      n == Operation(op, s, Low(s.d[r], w), SrcValue(read, w), w)
  IN  IF Ok(read) THEN [read EXCEPT !.d[r] = WithLow(@, w, n.lo), !.cc = n.cc] ELSE read

\* ADDA, SUBA and CMPA: a word has its sign extended, and only CMPA sets flags.
Address(s, op, r, o, w) ==
  LET read == SrcRead(SrcSet(s, o, w), w)
      n == Operation(op, s, Reg(read, r), Extended(SrcValue(read, w), w), 4)
  IN  IF ~Ok(read) THEN read
      ELSE IF op = "cmp" THEN WithFlags(read, n.cc) ELSE SetReg(read, r, n.lo)

\* ADDQ and SUBQ, with the values 1 to 8, leave the flags when they change an
\* address register.  A word is then added to a word of it.
Quick(s, op, o, y, w) ==
  LET t == Modify(s, op, o, y, w) IN IF o.mode = "An" THEN WithFlags(t, s.cc) ELSE t

\* Faulty BetweenMemory: the second address is taken before the first is decremented.
BetweenMemoryEarly(s, op, x, y, w) ==
  LET t == Dec(s, y, w)
      u == Dec(t, x, w)
      r == Operation(op, s, Load(u, Reg(s, x), w), Load(t, Reg(t, y), w), w)
  IN  IF w > 1 /\ (Reg(t, y) % 2 = 1 \/ Reg(u, x) % 2 = 1)
      THEN AddressError(u, At("mem", Reg(u, x)), TRUE)
      ELSE WithFlags(Store(u, Reg(u, x), w, r.lo), r.cc)

\* ADDX and SUBX -(Ay),-(Ax).
BetweenMemory(s, op, x, y, w) ==
  LET t == Dec(s, y, w)
      from == At("mem", Reg(t, y))
      u == Dec(t, x, w)
      to == At("mem", Reg(u, x))
      r == Operation(op, s, Load(u, to.n, w), Load(u, from.n, w), w)
  IN  IF w > 1 /\ from.n % 2 = 1 THEN AddressError(t, from, TRUE)
      ELSE IF w > 1 /\ to.n % 2 = 1 THEN AddressError(u, to, TRUE)
      ELSE WithFlags(Store(u, to.n, w, r.lo), r.cc)

\* CMPM (Ay)+,(Ax)+.
Cmpm(s, x, y, w) ==
  LET t == Inc(s, y, w)
      u == Inc(t, x, w)
      from == At("mem", Reg(s, y))
      to == At("mem", Reg(t, x))
  IN  IF w > 1 /\ from.n % 2 = 1 THEN AddressError(t, from, TRUE)
      ELSE IF w > 1 /\ to.n % 2 = 1 THEN AddressError(u, to, TRUE)
      ELSE WithFlags(u, Operation("cmp", s, Load(u, to.n, w), Load(u, from.n, w), w).cc)

Tst(s, o, w) == LET read == SrcRead(SrcSet(s, o, w), w) IN Tested(read, SrcValue(read, w), w)

\* Words and long words are read first, for the exception.
Clr(s, o, w) ==
  LET t == DstSet(s, o, w)
      u == DstWrite(IF w > 1 THEN DstRead(t, w) ELSE t, w, 0)
  IN  WithFlags(u, (u.cc \cap {"X"}) \cup {"Z"})

Scc(s, cond, o) ==
  DstWrite(DstSet(s, o, 1), 1, Byte!Scc([hi |-> 0, lo |-> 0, cc |-> s.cc], cond).lo)

\* Faulty Bit: of memory, the bits of a long word.
BitLong(s, op, o, n) ==
  LET w == IF o.mode = "Dn" THEN 4 ELSE 1
      read == DstRead(DstSet(s, o, w), w)
      v == DstValue(read, w)
      weight == Two[n % (4 * ByteBits)]
      set == (v \div weight) % 2 = 1
      t == WithFlags(read, (s.cc \ {"Z"}) \cup (IF set THEN {} ELSE {"Z"}))
      put == op = "bset" \/ (op = "bchg" /\ ~set)
  IN  IF op = "btst" \/ put = set THEN t
      ELSE DstWrite(t, w, IF put THEN v + weight ELSE v - weight)

\* A bit of a data register or of a byte in memory.  Z tells what it was.
Bit(s, op, o, n) ==
  LET w == IF o.mode = "Dn" THEN 4 ELSE 1
      read == DstRead(DstSet(s, o, w), w)
      v == DstValue(read, w)
      weight == Two[n % (w * ByteBits)]
      set == (v \div weight) % 2 = 1
      t == WithFlags(read, (s.cc \ {"Z"}) \cup (IF set THEN {} ELSE {"Z"}))
      put == CASE op = "bset" -> TRUE [] op = "bclr" -> FALSE [] op = "bchg" -> ~set
  IN  IF op = "btst" THEN t
      ELSE DstWrite(t, w, v + (IF put THEN weight ELSE 0) - (IF set THEN weight ELSE 0))

------------------------------------------------------------------------------
(* Instructions. *)

\* Some program has filled registers and memory.
Init ==
  /\ \E c \in Contents :
       cpu = [d |-> c.d, a |-> c.a, ssp |-> c.ssp, mem |-> c.mem, sup |-> c.sup, cc |-> c.cc,
              pc |-> 0, oldPc |-> 0, src |-> At("imm", 0), dst |-> At("imm", 0), raised |-> None]
  /\ steps = 0

\* An instruction is fetched.  Whoever handled an exception of the one before has
\* returned.
Fetched == Fetch([cpu EXCEPT !.oldPc = cpu.pc, !.raised = None], 1)

Running == steps < MaxSteps
Becomes(s) == cpu' = s /\ steps' = steps + 1

AnyReg == [kind : {"d", "a"}, reg : RegNos]

Moving ==
  /\ Running
  /\ \/ \E a, b \in Eas, w \in Widths : Becomes(Move(Fetched, a, b, w))
     \/ \E r \in RegNos, v \in Values : Becomes(Moveq(Fetched, r, v))
     \/ \E x, y \in AnyReg : Becomes(Exg(Fetched, x, y))
\* MOVEM is given a place in memory.
InMemory == {o \in Eas : o.mode \notin {"Dn", "An", "#"}}
MovingToMemory ==
  /\ Running
  /\ \/ \E o \in InMemory, w \in {2, 4}, list \in Lists : Becomes(MovemToMem(Fetched, list, o, w))
     \/ \E o \in Eas, w \in {2, 4}, r \in RegNos :
          o.mode = "(d16,An)" /\ Becomes(MovepToMem(Fetched, r, o, w))
MovingFromMemory ==
  /\ Running
  /\ \/ \E o \in InMemory, w \in {2, 4}, list \in Lists : Becomes(MovemToReg(Fetched, list, o, w))
     \/ \E o \in Eas, w \in {2, 4}, r \in RegNos :
          o.mode = "(d16,An)" /\ Becomes(MovepToReg(Fetched, r, o, w))
\* LEA and PEA take the modes whose address is a place in memory.
Addressing ==
  /\ Running
  /\ \E o \in {e \in InMemory : e.mode \notin {"(An)+", "-(An)"}} :
       \/ \E r \in RegNos : Becomes(Lea(Fetched, r, o))
       \/ Becomes(Pea(Fetched, o))
ToOperand ==
  /\ Running
  /\ \E o \in Eas, w \in Widths :
       \/ \E op \in {"not", "neg", "negx"} : Becomes(Modify(Fetched, op, o, 0, w))
       \/ Becomes(Clr(Fetched, o, w))
       \/ Becomes(Tst(Fetched, o, w))
       \/ w = 1 /\ Becomes(Modify(Fetched, "tas", o, 0, w))
       \/ \E cond \in {"T", "F", "EQ"} : w = 1 /\ Becomes(Scc(Fetched, cond, o))
Immediate ==
  /\ Running
  /\ \E o \in Eas, w \in Widths, y \in Values :
       LET t == Fetch(Fetched, IF w = 4 THEN 2 ELSE 1)
       IN  \/ \E op \in {"add", "sub", "and", "or", "eor"} : Becomes(Modify(t, op, o, y, w))
           \/ Becomes(Examine(t, o, y, w))
Quickly ==
  /\ Running
  /\ \E o \in Eas, w \in Widths, y \in 1 .. 8, op \in {"add", "sub"} :
       Becomes(Quick(Fetched, op, o, y, w))
\* A data register and an operand, in both directions; what would be a register as
\* the operand of the second is the code of another instruction.
BothWays(op, o, w, r) ==
  \/ Becomes(Combine(Fetched, op, r, o, w))
  \/ o.mode \notin {"Dn", "An"} /\ Becomes(Modify(Fetched, op, o, cpu.d[r], w))
Combining ==
  /\ Running
  /\ \E op \in {"and", "or"}, o \in Eas, w \in Widths, r \in RegNos : BothWays(op, o, w, r)
Summing(op) ==
  /\ Running
  /\ \E o \in Eas, w \in Widths, r \in RegNos :
       \/ BothWays(op, o, w, r)
       \/ w > 1 /\ Becomes(Address(Fetched, op, r, o, w))
Adding == Summing("add")
Subtracting == Summing("sub")
\* CMP, CMPA and EOR share their codes.
Comparing ==
  /\ Running
  /\ \E o \in Eas, w \in Widths, r \in RegNos :
       \/ Becomes(Combine(Fetched, "cmp", r, o, w))
       \/ w > 1 /\ Becomes(Address(Fetched, "cmp", r, o, w))
       \/ o.mode # "An" /\ Becomes(Modify(Fetched, "eor", o, cpu.d[r], w))
Between ==
  /\ Running
  /\ \E x, y \in RegNos, w \in Widths :
       \/ \E op \in {"addx", "subx"} : Becomes(BetweenMemory(Fetched, op, x, y, w))
       \/ Becomes(Cmpm(Fetched, x, y, w))

\* A count is 1 to 8 or that of a register modulo 64; of memory, words by one.
ByCount(ops) ==
  /\ Running
  /\ \E op \in ops, o \in Eas :
       \/ \E w \in Widths, n \in (1 .. 8) \cup {cpu.d[r] % 64 : r \in RegNos} :
            o.mode = "Dn" /\ Becomes(Modify(Fetched, op, o, n, w))
       \/ o.mode # "Dn" /\ Becomes(Modify(Fetched, op, o, 1, 2))
Shifting == ByCount({"asl", "asr", "lsl", "lsr"})
Rotating == ByCount({"rol", "ror", "roxl", "roxr"})
Bits ==
  /\ Running
  /\ \E op \in {"btst", "bchg", "bclr", "bset"}, o \in Eas :
       \/ \E n \in Values : Becomes(Bit(Fetch(Fetched, 1), op, o, n))
       \/ \E r \in RegNos : Becomes(Bit(Fetched, op, o, cpu.d[r]))

Next ==
  \/ Moving \/ MovingToMemory \/ MovingFromMemory \/ Addressing \/ ToOperand \/ Immediate
  \/ Quickly \/ Combining \/ Adding \/ Subtracting \/ Comparing \/ Between
  \/ Shifting \/ Rotating \/ Bits

Spec == Init /\ [][Next]_vars

------------------------------------------------------------------------------
(* Properties. *)

\* What is a register is one of those there are.
Places ==
  [l : {"mem", "imm"}, n : Long, program : BOOLEAN]
    \cup [l : {"dr", "ar"}, n : RegNos, program : {FALSE}]
Exceptions ==
  [vector : {"none", "illegal", "address"}, address : Long, read : BOOLEAN, program : BOOLEAN]
Machines ==
  [d : [RegNos -> Long], a : [RegNos -> Long], ssp : Long, sup : BOOLEAN, cc : SUBSET Flags,
   pc : Long, oldPc : Long, src : Places, dst : Places, mem : Memories, raised : Exceptions]

\* Registers, memory, places and exceptions stay within their widths.
TypeOK == cpu \in Machines /\ steps \in 0 .. MaxSteps

Ea(mode, r) == [mode |-> mode, reg |-> r, ext |-> 0]

\* What -(An) puts on a stack (An)+ takes off: MOVE gives the value back, MOVEM all
\* the registers of its list, and the address register is where it was, whatever
\* the width, for bytes on the stack pointer and when it is itself in the list
\* (m68k_address_reg_dec(), m68k_movem_reg_to_mem_*(), m68k_movem_mem_to_reg_*()).
PushesArePopped ==
  \A r \in RegNos :
    /\ \A w \in Widths :
         LET pushed == Move(cpu, Ea("Dn", r), Ea("-(An)", r), w)
             popped == Move(pushed, Ea("(An)+", r), Ea("Dn", r), w)
         IN  Ok(pushed) => /\ Ok(popped) /\ (Reg(pushed, SP) - Reg(cpu, SP)) % 2 = 0
                           /\ popped.d = cpu.d /\ popped.a = cpu.a /\ popped.ssp = cpu.ssp
    /\ \A list \in Lists, w \in {2, 4} :
         LET pushed == MovemToMem(cpu, list, Ea("-(An)", r), w)
             popped == MovemToReg(pushed, list, Ea("(An)+", r), w)
         IN  (w * Cardinality(list) <= MemSize /\ Ok(pushed)) =>
               /\ Ok(popped)
               /\ \A n \in 0 .. 2 * Regs - 1 :
                    MovemReg(popped, n) = IF n \in list /\ n # Regs + r
                                          THEN Extended(MovemReg(cpu, n), w) ELSE MovemReg(cpu, n)

\* Some instructions undo themselves: EXG and BCHG done twice leave nothing behind,
\* what MOVEP put into memory it finds again, and BTST sees what BSET and BCLR did to
\* the same bit (m68k_exg(), m68k_movep(), m68k_bchg_imm()).
InversePairs ==
  /\ \A x, y \in AnyReg : x # y => Exg(Exg(cpu, x, y), x, y) = cpu
  /\ \A r \in RegNos, w \in {2, 4}, o \in {e \in Eas : e.mode = "(d16,An)"} :
       LET out == MovepToMem(cpu, r, o, w)
           back == MovepToReg([out EXCEPT !.d[r] = WithLow(@, w, 0)], r, o, w)
       IN  back.d = cpu.d
  /\ \A o \in {e \in Eas : e.mode \in {"Dn", "(An)", "(d16,An)"}}, n \in Values :
       LET back(s) == [s EXCEPT !.pc = cpu.pc]
           once == Bit(cpu, "bchg", o, n)
           twice == Bit(back(once), "bchg", o, n)
           seen(op) == "Z" \notin Bit(back(Bit(cpu, op, o, n)), "btst", o, n).cc
       IN  Ok(once) =>
             /\ twice.d = cpu.d /\ twice.mem = cpu.mem
             /\ "Z" \in once.cc <=> "Z" \notin twice.cc
             /\ seen("bset") /\ ~seen("bclr")

\* ADDX and SUBX on two bytes of memory after each other compute what they do on the
\* word of both: the sum or difference, the place of both registers and all flags
\* (m68k_addx(), m68k_subx()).
ChainsInMemory ==
  \A op \in {"addx", "subx"}, x, y \in RegNos \ {SP} :
    LET word == BetweenMemory(cpu, op, x, y, 2)
        low == BetweenMemory(cpu, op, x, y, 1)
        bytes == BetweenMemory(low, op, x, y, 1)
    IN  (x # y /\ Ok(word)) => bytes = word

\* An instruction that stops at an odd address has changed no memory and no data
\* register, so that a handler can tell what is left to do (m68k_src_read_word() to
\* m68k_dst_write_long(), m68k_movem_*()).
AddressErrorKeepsData ==
  [][cpu'.raised.vector = "address" => cpu'.mem = cpu.mem /\ cpu'.d = cpu.d]_vars

\* ADDQ and SUBQ change the whole of an address register, for words too (README.md:
\* all instructions of the 68000).  m68k_addq() writes a word of it back.
AddqWhole ==
  \A r \in RegNos, w \in {2, 4}, y \in 1 .. 8 :
    /\ Reg(Quick(cpu, "add", Ea("An", r), y, w), r) = Plus(Reg(cpu, r), y)
    /\ Reg(Quick(cpu, "sub", Ea("An", r), y, w), r) = Plus(Reg(cpu, r), -y)
==============================================================================

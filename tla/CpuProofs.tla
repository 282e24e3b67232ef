------------------------------ MODULE CpuProofs ------------------------------
(***************************************************************************)
(* Privilege, the two stacks and the status register, and what undoes an   *)
(* exception or a call, for programs of any length with any operands,      *)
(* addresses and contents of memory.                                       *)
(***************************************************************************)
EXTENDS Cpu, TLAPS

(***************************************************************************)
(* Words and memory.                                                       *)
(***************************************************************************)

\* The range of a word, as inequalities.
LEMMA WordRange ==
  ASSUME NEW w
  PROVE  w \in Word <=> w \in Int /\ 0 <= w /\ w <= 65535
<1>1. WordMax \in Int /\ WordMax <= 65535 /\ 65535 <= WordMax
  BY DEF WordMax
<1> QED BY <1>1 DEF Word

\* A displacement of up to a word moves from long word to long word.
LEMMA PlusIsLong ==
  ASSUME NEW l \in Long, NEW n \in Int, -65536 <= n, n <= 65535
  PROVE  Plus(l, n) \in Long
<1>1. PICK h \in Word, low \in Word : l = <<h, low>>
  BY DEF Long
<1>0. h \in Int /\ 0 <= h /\ h <= 65535 /\ low \in Int /\ 0 <= low /\ low <= 65535
  BY WordRange
<1>2. (h + 65535) % 65536 \in Word /\ (h + 1) % 65536 \in Word
  <2>1. /\ (h + 65535) % 65536 \in Int /\ 0 <= (h + 65535) % 65536
        /\ (h + 65535) % 65536 <= 65535
    BY <1>0
  <2>2. (h + 1) % 65536 \in Int /\ 0 <= (h + 1) % 65536 /\ (h + 1) % 65536 <= 65535
    BY <1>0
  <2> QED BY <2>1, <2>2, WordRange
<1>3. CASE low + n < 0
  <2>1. Plus(l, n) = <<(h + 65535) % 65536, low + n + 65536>>
    BY <1>1, <1>3 DEF Plus
  <2>2. low + n + 65536 \in Word
    BY <1>0, <1>3, WordRange
  <2> QED BY <1>2, <2>1, <2>2 DEF Long
<1>4. CASE low + n > 65535
  <2>1. Plus(l, n) = <<(h + 1) % 65536, low + n - 65536>>
    BY <1>0, <1>1, <1>4 DEF Plus
  <2>2. low + n - 65536 \in Word
    BY <1>0, <1>4, WordRange
  <2> QED BY <1>2, <2>1, <2>2 DEF Long
<1>5. CASE ~(low + n < 0) /\ ~(low + n > 65535)
  <2>1. Plus(l, n) = <<h, low + n>>
    BY <1>1, <1>5 DEF Plus
  <2>2. low + n \in Word
    BY <1>0, <1>5, WordRange
  <2> QED BY <2>1, <2>2 DEF Long
<1> QED BY <1>3, <1>4, <1>5

\* An even distance does not change the parity, over a wrap too.
LEMMA EvenMoves ==
  ASSUME NEW l \in Long, NEW n \in {1, 2, 3}
  PROVE  Odd(Plus(l, 2 * n)) <=> Odd(l)
<1>1. PICK h \in Word, low \in Word : l = <<h, low>>
  BY DEF Long
<1>0. h \in Int /\ 0 <= h /\ h <= 65535 /\ low \in Int /\ 0 <= low /\ low <= 65535
  BY WordRange
<1> DEFINE m == 2 * n
<1>2. /\ m \in Int /\ 0 <= m
      /\ (low + m) % 2 = low % 2 /\ (low + m - 65536) % 2 = low % 2
  BY <1>0
<1> HIDE DEF m
<1>3. CASE low + m > 65535
  <2>1. Plus(l, m) = <<(h + 1) % 65536, low + m - 65536>>
    BY <1>0, <1>1, <1>2, <1>3 DEF Plus
  <2> QED BY <1>1, <1>2, <2>1 DEF Odd, m
<1>4. CASE ~(low + m > 65535)
  <2>1. Plus(l, m) = <<h, low + m>>
    BY <1>0, <1>1, <1>2, <1>4 DEF Plus
  <2> QED BY <1>1, <1>2, <2>1 DEF Odd, m
<1> QED BY <1>3, <1>4

\* A displacement of two downwards after another, of less than a word, is one.
LEMMA PlusPlus ==
  ASSUME NEW l \in Long, NEW n \in Int, -100 <= n, n <= 0
  PROVE  Plus(Plus(l, n), -2) = Plus(l, n - 2)
<1>1. PICK h \in Word, low \in Word : l = <<h, low>>
  BY DEF Long
<1>2. h \in Int /\ 0 <= h /\ h <= 65535 /\ low \in Int /\ 0 <= low /\ low <= 65535
  BY WordRange
<1>3. CASE low + n < 0
  <2>1. Plus(l, n) = <<(h + 65535) % 65536, low + n + 65536>>
    BY <1>1, <1>3 DEF Plus
  <2>2. Plus(l, n - 2) = <<(h + 65535) % 65536, low + n - 2 + 65536>>
    BY <1>1, <1>2, <1>3 DEF Plus
  <2>3. Plus(<<(h + 65535) % 65536, low + n + 65536>>, -2)
          = <<(h + 65535) % 65536, low + n - 2 + 65536>>
    BY <1>2, <1>3 DEF Plus
  <2> QED BY <2>1, <2>2, <2>3
<1>4. CASE ~(low + n < 0)
  <2>1. Plus(l, n) = <<h, low + n>>
    BY <1>1, <1>2, <1>4 DEF Plus
  <2>2. Plus(<<h, low + n>>, -2) = Plus(<<h, low>>, n - 2)
    BY <1>2, <1>4 DEF Plus
  <2> QED BY <1>1, <2>1, <2>2
<1> QED BY <1>3, <1>4

LEMMA ReadWordIsWord ==
  ASSUME NEW m, MemoryOK(m), NEW a
  PROVE  ReadWord(m, a) \in Word
<1>1. 0 \in Word
  BY WordRange
<1> QED BY <1>1 DEF ReadWord, MemoryOK

LEMMA ReadLongIsLong ==
  ASSUME NEW m, MemoryOK(m), NEW a
  PROVE  ReadLong(m, a) \in Long
<1>1. CASE Odd(a)
  BY <1>1, WordRange DEF ReadLong, Long
<1>2. CASE ~Odd(a)
  BY <1>2, ReadWordIsWord DEF ReadLong, Long
<1> QED BY <1>1, <1>2

LEMMA WriteWordIsMemory ==
  ASSUME NEW m, MemoryOK(m), NEW a \in Long, NEW w \in Word
  PROVE  MemoryOK(WriteWord(m, a, w))
<1>1. CASE Odd(a)
  BY <1>1 DEF WriteWord
<1>2. CASE ~Odd(a)
  <2>1. ~Odd(Cell(a)) /\ Cell(a)[1] < 256
    BY <1>2, WordRange DEF Odd, Cell, Long
  <2>2. WriteWord(m, a, w) =
          [c \in DOMAIN m \cup {Cell(a)} |-> IF c = Cell(a) THEN w ELSE m[c]]
    BY <1>2 DEF WriteWord
  <2> QED BY <2>1, <2>2 DEF MemoryOK
<1> QED BY <1>1, <1>2

LEMMA WordOfIsWord ==
  ASSUME NEW sr
  PROVE  WordOf(sr) \in Word
<1> DEFINE at(i) == IF i \in sr THEN Weight[i] ELSE 0
<1>1. /\ Weight[0] = 1 /\ Weight[1] = 2 /\ Weight[2] = 4 /\ Weight[3] = 8
      /\ Weight[4] = 16 /\ Weight[5] = 32 /\ Weight[6] = 64 /\ Weight[7] = 128
      /\ Weight[8] = 256 /\ Weight[9] = 512 /\ Weight[10] = 1024 /\ Weight[11] = 2048
      /\ Weight[12] = 4096 /\ Weight[13] = 8192 /\ Weight[14] = 16384 /\ Weight[15] = 32768
  BY DEF Weight, Bit
<1>2. /\ at(0) \in Int /\ 0 <= at(0) /\ at(0) <= 1
      /\ at(1) \in Int /\ 0 <= at(1) /\ at(1) <= 2
      /\ at(2) \in Int /\ 0 <= at(2) /\ at(2) <= 4
      /\ at(3) \in Int /\ 0 <= at(3) /\ at(3) <= 8
      /\ at(4) \in Int /\ 0 <= at(4) /\ at(4) <= 16
      /\ at(5) \in Int /\ 0 <= at(5) /\ at(5) <= 32
      /\ at(6) \in Int /\ 0 <= at(6) /\ at(6) <= 64
      /\ at(7) \in Int /\ 0 <= at(7) /\ at(7) <= 128
      /\ at(8) \in Int /\ 0 <= at(8) /\ at(8) <= 256
      /\ at(9) \in Int /\ 0 <= at(9) /\ at(9) <= 512
      /\ at(10) \in Int /\ 0 <= at(10) /\ at(10) <= 1024
      /\ at(11) \in Int /\ 0 <= at(11) /\ at(11) <= 2048
      /\ at(12) \in Int /\ 0 <= at(12) /\ at(12) <= 4096
      /\ at(13) \in Int /\ 0 <= at(13) /\ at(13) <= 8192
      /\ at(14) \in Int /\ 0 <= at(14) /\ at(14) <= 16384
      /\ at(15) \in Int /\ 0 <= at(15) /\ at(15) <= 32768
  BY <1>1
<1>3. WordOf(sr) = at(0) + at(1) + at(2) + at(3) + at(4) + at(5) + at(6) + at(7)
      + at(8) + at(9) + at(10) + at(11) + at(12) + at(13) + at(14) + at(15)
  BY DEF WordOf
<1> HIDE DEF at
<1> QED BY <1>2, <1>3, WordRange

(***************************************************************************)
(* States of the CPU, and what a part of an instruction does to them.      *)
(***************************************************************************)

\* TypeOK without the count of steps, with SrImplemented, for any state.
Valid(s) ==
  /\ DOMAIN s = {"pc", "sr", "ssp", "usp", "a", "d", "mem"}
  /\ s.pc \in Long /\ s.ssp \in Long /\ s.usp \in Long /\ s.a \in Long
  /\ s.sr \subseteq Implemented /\ s.d \in Word
  /\ MemoryOK(s.mem)

\* From s to t the mode stays, and the other mode's stack pointer too.
Keeps(s, t) ==
  /\ Valid(t)
  /\ IsSuper(t) <=> IsSuper(s)
  /\ IF IsSuper(s) THEN t.usp = s.usp ELSE t.ssp = s.ssp

\* From s an exception leads to t.
Raises(s, t) ==
  /\ Valid(t) /\ IsSuper(t)
  /\ t.usp = s.usp
  /\ t.ssp \in {Plus(s.ssp, -6), Plus(s.ssp, -14)}
  /\ \E v \in Vectors : t.pc = ReadLong(t.mem, <<0, v>>)

\* From an even PC to an even PC, or to where a vector points.
Lands(s, t) ==
  ~Odd(s.pc) => \/ ~Odd(t.pc)
                \/ \E v \in Vectors : t.pc = ReadLong(t.mem, <<0, v>>)

\* What an instruction may do, but for the user stack pointer of supervisors.
Lawful(s, t) ==
  /\ Valid(t) /\ Lands(s, t)
  /\ ~IsSuper(s) /\ IsSuper(t) =>
       /\ \E v \in Vectors : t.pc = ReadLong(t.mem, <<0, v>>)
       /\ t.ssp \in {Plus(s.ssp, -6), Plus(s.ssp, -14)}
  /\ ~IsSuper(s) /\ ~IsSuper(t) => t.ssp = s.ssp

Isolates(s, t) == IsSuper(s) => t.usp = s.usp

LEMMA KeepsKeeps ==
  ASSUME NEW s, NEW t, NEW u, Keeps(s, t), Keeps(t, u)
  PROVE  Keeps(s, u)
  BY DEF Keeps

LEMMA KeepsIsLawful ==
  ASSUME NEW s, NEW t, Keeps(s, t), Lands(s, t)
  PROVE  Lawful(s, t) /\ Isolates(s, t)
  BY DEF Keeps, Lawful, Isolates

LEMMA RaisesIsLawful ==
  ASSUME NEW s, NEW t, Raises(s, t)
  PROVE  Lawful(s, t) /\ Isolates(s, t)
  BY DEF Raises, Lawful, Isolates, Lands

\* An instruction that fails half-way has kept to its mode.
LEMMA KeepsThenRaises ==
  ASSUME NEW s, NEW t, NEW u, Keeps(s, t), Raises(t, u)
  PROVE  Lawful(s, u) /\ Isolates(s, u)
  BY DEF Keeps, Raises, Lawful, Isolates, Lands

(***************************************************************************)
(* Registers and stacks.                                                   *)
(***************************************************************************)

LEMMA SetPc ==
  ASSUME NEW s, Valid(s), NEW l \in Long
  PROVE  Keeps(s, [s EXCEPT !.pc = l])
  BY DEF Valid, Keeps, IsSuper

LEMMA SetD ==
  ASSUME NEW s, Valid(s), NEW w \in Word
  PROVE  Keeps(s, [s EXCEPT !.d = w])
  BY DEF Valid, Keeps, IsSuper

LEMMA FetchKeeps ==
  ASSUME NEW s, Valid(s), NEW n \in {1, 2, 3}
  PROVE  Keeps(s, Fetch(s, n)) /\ Fetch(s, n).sr = s.sr
<1>1. Plus(s.pc, 2 * n) \in Long
  BY PlusIsLong DEF Valid
<1>2. Keeps(s, [s EXCEPT !.pc = Plus(s.pc, 2 * n)])
  BY <1>1, SetPc
<1> QED BY <1>2 DEF Fetch, Valid

LEMMA FetchLands ==
  ASSUME NEW s, Valid(s), NEW n \in {1, 2, 3}, NEW t, t.pc = Fetch(s, n).pc
  PROVE  Lands(s, t)
<1>1. s.pc \in Long /\ t.pc = Plus(s.pc, 2 * n)
  BY DEF Fetch, Valid
<1>2. Odd(t.pc) <=> Odd(s.pc)
  BY <1>1, EvenMoves
<1> QED BY <1>2 DEF Lands

LEMMA SpIsLong ==
  ASSUME NEW s, Valid(s)
  PROVE  Sp(s) \in Long
  BY DEF Valid, Sp

LEMMA SetSpKeeps ==
  ASSUME NEW s, Valid(s), NEW l \in Long
  PROVE  Keeps(s, SetSp(s, l)) /\ SetSp(s, l).mem = s.mem /\ SetSp(s, l).pc = s.pc
  BY DEF Valid, Keeps, IsSuper, SetSp

LEMMA AddressRegIsLong ==
  ASSUME NEW s, Valid(s), NEW r
  PROVE  AddressReg(s, r) \in Long
  BY SpIsLong DEF Valid, AddressReg

LEMMA SetAddressRegKeeps ==
  ASSUME NEW s, Valid(s), NEW r, NEW l \in Long
  PROVE  Keeps(s, SetAddressReg(s, r, l)) /\ SetAddressReg(s, r, l).pc = s.pc
<1>1. Keeps(s, [s EXCEPT !.a = l]) /\ [s EXCEPT !.a = l].pc = s.pc
  BY DEF Valid, Keeps, IsSuper
<1> QED BY <1>1, SetSpKeeps DEF SetAddressReg

\* Pushes on the supervisor stack: the frame of an exception.
LEMMA PushSspKeeps ==
  ASSUME NEW s, Valid(s), NEW w \in Word
  PROVE  /\ Valid(PushSsp(s, w))
         /\ PushSsp(s, w).ssp = Plus(s.ssp, -2)
         /\ PushSsp(s, w).usp = s.usp /\ PushSsp(s, w).sr = s.sr
         /\ PushSsp(s, w).pc = s.pc
<1>1. Plus(s.ssp, -2) \in Long
  BY PlusIsLong DEF Valid
<1>2. MemoryOK(WriteWord(s.mem, Plus(s.ssp, -2), w))
  BY <1>1, WriteWordIsMemory DEF Valid
<1> QED BY <1>1, <1>2 DEF Valid, PushSsp

LEMMA PushUspKeeps ==
  ASSUME NEW s, Valid(s), NEW w \in Word
  PROVE  /\ Valid(PushUsp(s, w))
         /\ PushUsp(s, w).ssp = s.ssp /\ PushUsp(s, w).sr = s.sr
         /\ PushUsp(s, w).pc = s.pc
<1>1. Plus(s.usp, -2) \in Long
  BY PlusIsLong DEF Valid
<1>2. MemoryOK(WriteWord(s.mem, Plus(s.usp, -2), w))
  BY <1>1, WriteWordIsMemory DEF Valid
<1> QED BY <1>1, <1>2 DEF Valid, PushUsp

LEMMA PushKeeps ==
  ASSUME NEW s, Valid(s), NEW w \in Word
  PROVE  Keeps(s, Push(s, w)) /\ Push(s, w).pc = s.pc
  BY PushSspKeeps, PushUspKeeps DEF Push, Keeps, IsSuper

LEMMA PushLongKeeps ==
  ASSUME NEW s, Valid(s), NEW l \in Long
  PROVE  Keeps(s, PushLong(s, l)) /\ PushLong(s, l).pc = s.pc
<1>1. l[1] \in Word /\ l[2] \in Word
  BY DEF Long
<1>2. Keeps(s, Push(s, l[2])) /\ Push(s, l[2]).pc = s.pc
  BY <1>1, PushKeeps
<1>3. /\ Keeps(Push(s, l[2]), Push(Push(s, l[2]), l[1]))
      /\ Push(Push(s, l[2]), l[1]).pc = Push(s, l[2]).pc
  BY <1>1, <1>2, PushKeeps DEF Keeps
<1> QED BY <1>2, <1>3, KeepsKeeps DEF PushLong

LEMMA PoppedKeeps ==
  ASSUME NEW s, Valid(s), NEW n \in {1, 2, 3}
  PROVE  Keeps(s, Popped(s, n)) /\ Popped(s, n).mem = s.mem /\ Popped(s, n).pc = s.pc
<1>1. Plus(Sp(s), 2 * n) \in Long
  BY SpIsLong, PlusIsLong
<1> QED BY <1>1, SetSpKeeps DEF Popped

LEMMA TopIsWord ==
  ASSUME NEW s, Valid(s)
  PROVE  Top(s) \in Word
  BY ReadWordIsWord DEF Top, Valid

LEMMA TopLongIsLong ==
  ASSUME NEW s, Valid(s)
  PROVE  TopLong(s) \in Long
<1>1. Valid(Popped(s, 1))
  BY PoppedKeeps DEF Keeps
<1> QED BY <1>1, TopIsWord DEF TopLong, Long

(***************************************************************************)
(* Exceptions.                                                             *)
(***************************************************************************)

LEMMA EnterSupervisorBits ==
  ASSUME NEW sr, sr \subseteq Implemented
  PROVE  EnterSupervisor(sr) \subseteq Implemented /\ Supervisor \in EnterSupervisor(sr)
  BY DEF EnterSupervisor, Implemented, Supervisor

\* Three pushes: PC and SR.
LEMMA FrameKeeps ==
  ASSUME NEW s, Valid(s), NEW at \in Long, NEW w \in Word
  PROVE  LET f == PushSsp(PushSsp(PushSsp(s, at[2]), at[1]), w)
         IN  Valid(f) /\ f.ssp = Plus(s.ssp, -6) /\ f.usp = s.usp /\ f.sr = s.sr
<1> DEFINE f1 == PushSsp(s, at[2])
           f2 == PushSsp(f1, at[1])
           f3 == PushSsp(f2, w)
<1>1. at[1] \in Word /\ at[2] \in Word
  BY DEF Long
<1>2. Valid(f1) /\ f1.ssp = Plus(s.ssp, -2) /\ f1.usp = s.usp /\ f1.sr = s.sr
  BY <1>1, PushSspKeeps
<1>3. Valid(f2) /\ f2.ssp = Plus(f1.ssp, -2) /\ f2.usp = s.usp /\ f2.sr = s.sr
  BY <1>1, <1>2, PushSspKeeps
<1>4. Valid(f3) /\ f3.ssp = Plus(f2.ssp, -2) /\ f3.usp = s.usp /\ f3.sr = s.sr
  BY <1>3, PushSspKeeps
<1>5. s.ssp \in Long
  BY DEF Valid
<1> HIDE DEF f1, f2, f3
<1>6. f2.ssp = Plus(s.ssp, -4)
  BY <1>2, <1>3, <1>5, PlusPlus
<1>7. f3.ssp = Plus(s.ssp, -6)
  BY <1>4, <1>5, <1>6, PlusPlus
<1> QED BY <1>4, <1>7 DEF f1, f2, f3

\* What both kinds of exception do when the frame f is pushed.
LEMMA Vectored ==
  ASSUME NEW s, Valid(s), NEW f, Valid(f), f.usp = s.usp, f.sr = s.sr,
         f.ssp \in {Plus(s.ssp, -6), Plus(s.ssp, -14)}, NEW v \in Vectors
  PROVE  Raises(s, [f EXCEPT !.pc = ReadLong(f.mem, <<0, v>>),
                             !.sr = EnterSupervisor(s.sr)])
<1> DEFINE t == [f EXCEPT !.pc = ReadLong(f.mem, <<0, v>>),
                          !.sr = EnterSupervisor(s.sr)]
<1>1. ReadLong(f.mem, <<0, v>>) \in Long
  BY ReadLongIsLong DEF Valid
<1>2. EnterSupervisor(s.sr) \subseteq Implemented /\ Supervisor \in EnterSupervisor(s.sr)
  BY EnterSupervisorBits DEF Valid
<1>3. /\ t.pc = ReadLong(f.mem, <<0, v>>) /\ t.sr = EnterSupervisor(s.sr)
      /\ t.ssp = f.ssp /\ t.usp = f.usp /\ t.a = f.a /\ t.d = f.d /\ t.mem = f.mem
      /\ DOMAIN t = DOMAIN f
  BY DEF Valid
<1> HIDE DEF t
<1>4. Valid(t) /\ IsSuper(t)
  BY <1>1, <1>2, <1>3 DEF Valid, IsSuper
<1> QED BY <1>3, <1>4 DEF Raises, t

LEMMA ExceptionRaises ==
  ASSUME NEW s, Valid(s), NEW at \in Long, NEW v \in Vectors
  PROVE  Raises(s, Exception(s, at, v))
<1>1. WordOf(s.sr) \in Word
  BY WordOfIsWord
<1> QED BY <1>1, FrameKeeps, Vectored DEF Exception

LEMMA AddressErrorRaises ==
  ASSUME NEW s, Valid(s), NEW address \in Long
  PROVE  Raises(s, AddressError(s, address))
<1> DEFINE f1 == PushSsp(PushSsp(PushSsp(s, s.pc[2]), s.pc[1]), WordOf(s.sr))
           g1 == PushSsp(f1, 0)
           g2 == PushSsp(g1, address[2])
           g3 == PushSsp(g2, address[1])
           f2 == PushSsp(g3, 0)
<1>1. WordOf(s.sr) \in Word /\ 0 \in Word /\ s.pc \in Long /\ s.ssp \in Long
  BY WordOfIsWord, WordRange DEF Valid
<1>2. Valid(f1) /\ f1.ssp = Plus(s.ssp, -6) /\ f1.usp = s.usp /\ f1.sr = s.sr
  BY <1>1, FrameKeeps
<1>3. address[1] \in Word /\ address[2] \in Word
  BY DEF Long
<1> HIDE DEF f1
<1>4. Valid(g1) /\ g1.ssp = Plus(f1.ssp, -2) /\ g1.usp = s.usp /\ g1.sr = s.sr
  BY <1>1, <1>2, PushSspKeeps
<1> HIDE DEF g1
<1>5. Valid(g2) /\ g2.ssp = Plus(g1.ssp, -2) /\ g2.usp = s.usp /\ g2.sr = s.sr
  BY <1>3, <1>4, PushSspKeeps
<1> HIDE DEF g2
<1>6. Valid(g3) /\ g3.ssp = Plus(g2.ssp, -2) /\ g3.usp = s.usp /\ g3.sr = s.sr
  BY <1>3, <1>5, PushSspKeeps
<1> HIDE DEF g3
<1>7. Valid(f2) /\ f2.ssp = Plus(g3.ssp, -2) /\ f2.usp = s.usp /\ f2.sr = s.sr
  BY <1>1, <1>6, PushSspKeeps
<1> HIDE DEF f2
<1>8. g1.ssp = Plus(s.ssp, -8)
  BY <1>1, <1>2, <1>4, PlusPlus
<1>9. g2.ssp = Plus(s.ssp, -10)
  BY <1>1, <1>5, <1>8, PlusPlus
<1>10. g3.ssp = Plus(s.ssp, -12)
  BY <1>1, <1>6, <1>9, PlusPlus
<1>11. f2.ssp = Plus(s.ssp, -14)
  BY <1>1, <1>7, <1>10, PlusPlus
<1>12. AddressErrorVector \in Vectors
  BY DEF Vectors
<1>13. Raises(s, [f2 EXCEPT !.pc = ReadLong(f2.mem, <<0, AddressErrorVector>>),
                            !.sr = EnterSupervisor(s.sr)])
  BY <1>7, <1>11, <1>12, Vectored
<1> QED BY <1>13 DEF AddressError, f1, g1, g2, g3, f2

\* A privileged instruction is lawful if what supervisors do with it is.
LEMMA PrivilegedIsLawful ==
  ASSUME NEW s, Valid(s), NEW t, IsSuper(s) => Valid(t) /\ t.usp = s.usp /\ Lands(s, t)
  PROVE  Lawful(s, Privileged(s, t)) /\ Isolates(s, Privileged(s, t))
<1>1. CASE IsSuper(s)
  BY <1>1 DEF Privileged, Lawful, Isolates
<1>2. CASE ~IsSuper(s)
  <2>1. Keeps(s, Fetch(s, 1)) /\ s.pc \in Long /\ PrivilegeVector \in Vectors
    BY FetchKeeps DEF Valid, Vectors
  <2>2. Raises(Fetch(s, 1), Exception(Fetch(s, 1), s.pc, PrivilegeVector))
    BY <2>1, ExceptionRaises DEF Keeps
  <2> QED BY <1>2, <2>1, <2>2, KeepsThenRaises DEF Privileged
<1> QED BY <1>1, <1>2

(***************************************************************************)
(* Jumps, calls and returns.                                               *)
(***************************************************************************)

\* A transfer of control from states that kept to the mode.
LEMMA GoIsLawful ==
  ASSUME NEW s, NEW t, NEW fail, Keeps(s, t), Keeps(s, fail), NEW target \in Long
  PROVE  Lawful(s, Go(t, target, fail)) /\ Isolates(s, Go(t, target, fail))
<1>1. CASE Odd(target)
  BY <1>1, AddressErrorRaises, KeepsThenRaises DEF Go, Keeps
<1>2. CASE ~Odd(target)
  <2>1. Keeps(t, [t EXCEPT !.pc = target])
    BY SetPc DEF Keeps
  <2>2. [t EXCEPT !.pc = target].pc = target
    BY DEF Keeps, Valid
  <2>3. Lands(s, [t EXCEPT !.pc = target])
    BY <1>2, <2>2 DEF Lands
  <2> QED BY <1>2, <2>1, <2>3, KeepsKeeps, KeepsIsLawful DEF Go
<1> QED BY <1>1, <1>2

LEMMA DisplacementRange ==
  ASSUME NEW n \in Displacement, NEW l \in Long
  PROVE  Plus(l, n) \in Long
  BY DisplacementAssumption, PlusIsLong

LEMMA JumpingIsLawful ==
  ASSUME Valid(cpu), Jumping
  PROVE  Lawful(cpu, cpu') /\ Isolates(cpu, cpu')
<1> DEFINE Good(t) == Lawful(cpu, t) /\ Isolates(cpu, t)
<1>1. ASSUME NEW n \in {1, 2}, NEW disp \in Displacement, NEW taken \in BOOLEAN
      PROVE  Good(Branch(cpu, n, disp, taken))
  <2>1. Keeps(cpu, Fetch(cpu, n)) /\ Keeps(cpu, Fetch(cpu, 1))
    BY FetchKeeps
  <2>2. Plus(Fetch(cpu, 1).pc, disp) \in Long
    BY <2>1, DisplacementRange DEF Keeps, Valid
  <2>3. Good(Fetch(cpu, n))
    BY <2>1, FetchLands, KeepsIsLawful
  <2>4. Good(Go(Fetch(cpu, n), Plus(Fetch(cpu, 1).pc, disp), Fetch(cpu, 1)))
    BY <2>1, <2>2, GoIsLawful
  <2> QED BY <2>3, <2>4 DEF Branch
<1>2. ASSUME NEW n \in {1, 2}, NEW disp \in Displacement
      PROVE  Good(Bsr(cpu, n, disp))
  <2> DEFINE target == Plus(Fetch(cpu, 1).pc, disp)
             pushed == PushLong(Fetch(cpu, n), Fetch(cpu, n).pc)
             called == [pushed EXCEPT !.pc = target]
  <2>1. Keeps(cpu, Fetch(cpu, n)) /\ Keeps(cpu, Fetch(cpu, 1))
    BY FetchKeeps
  <2>2. target \in Long /\ Fetch(cpu, n).pc \in Long
    BY <2>1, DisplacementRange DEF Keeps, Valid
  <2>3. Keeps(Fetch(cpu, n), pushed)
    BY <2>1, <2>2, PushLongKeeps DEF Keeps
  <2>4. Keeps(pushed, called)
    BY <2>2, <2>3, SetPc DEF Keeps
  <2>5. Keeps(cpu, called)
    BY <2>1, <2>3, <2>4, KeepsKeeps
  <2> HIDE DEF target, called
  <2>6. Good(Go(called, target, called))
    BY <2>2, <2>5, GoIsLawful
  <2> QED BY <2>6 DEF Bsr, target, called
<1>3. ASSUME NEW disp \in Displacement, NEW cond \in BOOLEAN
      PROVE  Good(Dbcc(cpu, disp, cond))
  <2> DEFINE count == (cpu.d + 65535) % 65536
             counted == [Fetch(cpu, 2) EXCEPT !.d = count]
             target == Plus(Fetch(cpu, 1).pc, disp)
  <2>1. Keeps(cpu, Fetch(cpu, 2)) /\ Keeps(cpu, Fetch(cpu, 1))
    BY FetchKeeps
  <2>2. target \in Long
    BY <2>1, DisplacementRange DEF Keeps, Valid
  <2>3. count \in Word
    <3>1. cpu.d \in Int /\ 0 <= cpu.d /\ cpu.d <= 65535
      BY WordRange DEF Valid
    <3>2. count \in Int /\ 0 <= count /\ count <= 65535
      BY <3>1
    <3> QED BY <3>2, WordRange
  <2>4. Keeps(Fetch(cpu, 2), counted)
    BY <2>1, <2>3, SetD DEF Keeps
  <2>5. Keeps(cpu, counted) /\ counted.pc = Fetch(cpu, 2).pc
    BY <2>1, <2>4, KeepsKeeps DEF Keeps, Valid
  <2> HIDE DEF count, counted, target
  <2>6. Good(Go(counted, target, Fetch(cpu, 1)))
    BY <2>1, <2>2, <2>5, GoIsLawful
  <2>7. Good(counted) /\ Good(Fetch(cpu, 2))
    BY <2>1, <2>5, FetchLands, KeepsIsLawful
  <2> QED BY <2>6, <2>7 DEF Dbcc, count, counted, target
<1>4. ASSUME NEW n \in {1, 3}, NEW t \in Long
      PROVE  Good(Jmp(cpu, n, t)) /\ Good(Jsr(cpu, n, t))
  <2>1. Keeps(cpu, Fetch(cpu, n)) /\ Fetch(cpu, n).pc \in Long
    BY FetchKeeps DEF Keeps, Valid
  <2>2. Keeps(Fetch(cpu, n), PushLong(Fetch(cpu, n), Fetch(cpu, n).pc))
    BY <2>1, PushLongKeeps DEF Keeps
  <2>3. Keeps(cpu, PushLong(Fetch(cpu, n), Fetch(cpu, n).pc))
    BY <2>1, <2>2, KeepsKeeps
  <2> QED BY <2>1, <2>3, GoIsLawful DEF Jmp, Jsr
<1>5. cpu.a \in Long /\ Target \subseteq Long
  BY TargetAssumption DEF Valid
<1> HIDE DEF Good
<1>6. Good(cpu')
  BY <1>1, <1>2, <1>3, <1>4, <1>5 DEF Jumping, Step
<1> QED BY <1>6 DEF Good

\* New bits that the register has; the flags alone keep the mode.
LEMMA SetSr ==
  ASSUME NEW s, Valid(s), NEW bits, bits \subseteq Implemented
  PROVE  /\ Valid([s EXCEPT !.sr = bits])
         /\ [s EXCEPT !.sr = bits].usp = s.usp
         /\ (Supervisor \in bits <=> IsSuper(s)) => Keeps(s, [s EXCEPT !.sr = bits])
  BY DEF Valid, Keeps, IsSuper

LEMMA SupervisorIsNoFlag == Supervisor \in Implemented /\ Supervisor \notin Ccr /\ Ccr \subseteq Implemented
  BY DEF Supervisor, Ccr, Implemented

LEMMA ReturningIsLawful ==
  ASSUME Valid(cpu), Returning
  PROVE  Lawful(cpu, cpu') /\ Isolates(cpu, cpu')
<1> DEFINE Good(t) == Lawful(cpu, t) /\ Isolates(cpu, t)
<1>1. Keeps(cpu, Popped(cpu, 1)) /\ Keeps(cpu, Popped(cpu, 2)) /\ Keeps(cpu, Popped(cpu, 3))
  BY PoppedKeeps
<1>2. TopLong(cpu) \in Long /\ TopLong(Popped(cpu, 1)) \in Long
  BY <1>1, TopLongIsLong DEF Keeps
<1>3. Good(Rts(cpu))
  <2>1. Keeps(Popped(cpu, 2), Fetch(Popped(cpu, 2), 1))
    BY <1>1, FetchKeeps DEF Keeps
  <2>2. Keeps(cpu, Fetch(Popped(cpu, 2), 1))
    BY <1>1, <2>1, KeepsKeeps
  <2> QED BY <1>1, <1>2, <2>2, GoIsLawful DEF Rts
<1>4. Good(Rtr(cpu))
  <2> DEFINE bits == (cpu.sr \ Ccr) \cup (BitsOf(Top(cpu)) \cap Ccr)
             r == [Popped(cpu, 3) EXCEPT !.sr = bits]
  <2>1. bits \subseteq Implemented /\ (Supervisor \in bits <=> IsSuper(Popped(cpu, 3)))
    BY <1>1, SupervisorIsNoFlag DEF Valid, Keeps, IsSuper
  <2>2. Keeps(Popped(cpu, 3), r)
    BY <1>1, <2>1, SetSr DEF Keeps
  <2>3. Keeps(cpu, r)
    BY <1>1, <2>2, KeepsKeeps
  <2> HIDE DEF bits, r
  <2>4. Keeps(r, Fetch(r, 1))
    BY <2>3, FetchKeeps DEF Keeps
  <2>5. Keeps(cpu, Fetch(r, 1))
    BY <2>3, <2>4, KeepsKeeps
  <2>6. Good(Go(r, TopLong(Popped(cpu, 1)), Fetch(r, 1)))
    BY <1>2, <2>3, <2>5, GoIsLawful
  <2> QED BY <2>6 DEF Rtr, r, bits
\* The frame is popped by a supervisor, who leaves the user's stack alone.
<1>5. Good(Rte(cpu))
  <2> DEFINE r == [Popped(cpu, 3) EXCEPT !.sr = BitsOf(Top(cpu)) \cap Implemented]
             target == TopLong(Popped(cpu, 1))
             t == Go(r, target, Fetch(r, 1))
  <2>1. Valid(r) /\ r.usp = Popped(cpu, 3).usp
    BY <1>1, SetSr DEF Keeps
  <2> HIDE DEF r
  <2>2. Valid(Fetch(r, 1)) /\ Fetch(r, 1).usp = r.usp
    <3>1. Valid(Fetch(r, 1))
      BY <2>1, FetchKeeps DEF Keeps
    <3> QED BY <2>1, <3>1 DEF Fetch, Valid
  <2>3. Raises(Fetch(r, 1), AddressError(Fetch(r, 1), target))
    BY <1>2, <2>2, AddressErrorRaises
  <2>4. Valid([r EXCEPT !.pc = target]) /\ [r EXCEPT !.pc = target].usp = r.usp
    BY <1>2, <2>1 DEF Valid
  <2>5. Valid(t) /\ t.usp = r.usp
    BY <2>2, <2>3, <2>4 DEF Go, Raises
  <2>6. IsSuper(cpu) => t.usp = cpu.usp
    BY <1>1, <2>1, <2>5 DEF Keeps
  <2>7. Lands(cpu, t)
    <3>1. [r EXCEPT !.pc = target].pc = target
      BY <2>1 DEF Valid
    <3> QED BY <2>3, <3>1 DEF Go, Lands, Raises
  <2> HIDE DEF t
  <2>8. Good(Privileged(cpu, t))
    BY <2>5, <2>6, <2>7, PrivilegedIsLawful
  <2> QED BY <2>8 DEF Rte, t, target, r
<1> HIDE DEF Good
<1>6. Good(cpu')
  BY <1>3, <1>4, <1>5 DEF Returning, Step
<1> QED BY <1>6 DEF Good

LEMMA LinkingIsLawful ==
  ASSUME Valid(cpu), Linking
  PROVE  Lawful(cpu, cpu') /\ Isolates(cpu, cpu')
<1> DEFINE Good(t) == Lawful(cpu, t) /\ Isolates(cpu, t)
<1>1. ASSUME NEW r, NEW disp \in Displacement
      PROVE  Good(Link(cpu, r, disp))
  <2> DEFINE pushed == PushLong(cpu, AddressReg(cpu, r))
             linked == SetAddressReg(pushed, r, Sp(pushed))
  <2>1. Keeps(cpu, pushed) /\ pushed.pc = cpu.pc
    BY AddressRegIsLong, PushLongKeeps
  <2>2. Keeps(pushed, linked) /\ linked.pc = pushed.pc
    BY <2>1, SpIsLong, SetAddressRegKeeps DEF Keeps
  <2> HIDE DEF pushed, linked
  <2>3. Keeps(linked, Fetch(linked, 2)) /\ Plus(Sp(linked), disp) \in Long
    BY <2>2, FetchKeeps, SpIsLong, DisplacementRange DEF Keeps
  <2>4. /\ Keeps(Fetch(linked, 2), SetSp(Fetch(linked, 2), Plus(Sp(linked), disp)))
        /\ SetSp(Fetch(linked, 2), Plus(Sp(linked), disp)).pc = Fetch(linked, 2).pc
    BY <2>3, SetSpKeeps DEF Keeps
  <2>5. Keeps(cpu, SetSp(Fetch(linked, 2), Plus(Sp(linked), disp)))
    BY <2>1, <2>2, <2>3, <2>4, KeepsKeeps
  <2>6. Fetch(linked, 2).pc = Fetch(cpu, 2).pc
    BY <2>1, <2>2 DEF Fetch, Keeps, Valid
  <2>7. Lands(cpu, SetSp(Fetch(linked, 2), Plus(Sp(linked), disp)))
    BY <2>4, <2>6, FetchLands
  <2> QED BY <2>5, <2>7, KeepsIsLawful DEF Link, pushed, linked
<1>2. ASSUME NEW r
      PROVE  Good(Unlk(cpu, r))
  <2> DEFINE value == AddressReg(cpu, r)
             freed == SetSp(Fetch(cpu, 1), value)
  <2>1. Keeps(cpu, Fetch(cpu, 1)) /\ value \in Long
    BY FetchKeeps, AddressRegIsLong
  <2>2. Keeps(Fetch(cpu, 1), freed) /\ freed.pc = Fetch(cpu, 1).pc
    BY <2>1, SetSpKeeps DEF Keeps
  <2>3. Raises(Fetch(cpu, 1), AddressError(Fetch(cpu, 1), value))
    BY <2>1, AddressErrorRaises DEF Keeps
  <2> HIDE DEF value, freed
  <2>4. /\ Keeps(freed, Popped(freed, 2)) /\ TopLong(freed) \in Long
        /\ Popped(freed, 2).pc = freed.pc
    BY <2>2, PoppedKeeps, TopLongIsLong DEF Keeps
  <2>5. /\ Keeps(Popped(freed, 2), SetAddressReg(Popped(freed, 2), r, TopLong(freed)))
        /\ SetAddressReg(Popped(freed, 2), r, TopLong(freed)).pc = Popped(freed, 2).pc
    BY <2>4, SetAddressRegKeeps DEF Keeps
  <2>6. Keeps(cpu, SetAddressReg(Popped(freed, 2), r, TopLong(freed)))
    BY <2>1, <2>2, <2>4, <2>5, KeepsKeeps
  <2>7. Good(AddressError(Fetch(cpu, 1), value))
    BY <2>1, <2>3, KeepsThenRaises
  <2>8. Good(SetAddressReg(Popped(freed, 2), r, TopLong(freed)))
    BY <2>2, <2>4, <2>5, <2>6, FetchLands, KeepsIsLawful
  <2> QED BY <2>7, <2>8 DEF Unlk, value, freed
<1>3. ASSUME NEW r, NEW t \in Target
      PROVE  Good(Lea(cpu, r, t))
  <2>1. Keeps(cpu, Fetch(cpu, 3)) /\ t \in Long
    BY FetchKeeps, TargetAssumption
  <2>2. /\ Keeps(Fetch(cpu, 3), SetAddressReg(Fetch(cpu, 3), r, t))
        /\ SetAddressReg(Fetch(cpu, 3), r, t).pc = Fetch(cpu, 3).pc
    BY <2>1, SetAddressRegKeeps DEF Keeps
  <2> QED BY <2>1, <2>2, FetchLands, KeepsKeeps, KeepsIsLawful DEF Lea
<1> HIDE DEF Good
<1>4. Good(cpu')
  BY <1>1, <1>2, <1>3 DEF Linking, Step
<1> QED BY <1>4 DEF Good

(***************************************************************************)
(* The status register, the user stack pointer, and exceptions on purpose. *)
(***************************************************************************)

\* A supervisor moves the user stack pointer; anybody else gets an exception.
LEMMA MovingToUspIsLawful ==
  ASSUME Valid(cpu), MovingToUsp
  PROVE  Lawful(cpu, cpu')
<1>1. PICK r \in {0, 7} : cpu' = MoveToUsp(cpu, r)
  BY DEF MovingToUsp, Step
<1> DEFINE t == [Fetch(cpu, 1) EXCEPT !.usp = AddressReg(cpu, r)]
<1>2. CASE IsSuper(cpu)
  <2>1. Keeps(cpu, Fetch(cpu, 1)) /\ AddressReg(cpu, r) \in Long
    BY FetchKeeps, AddressRegIsLong
  <2>2. Valid(t) /\ t.pc = Fetch(cpu, 1).pc
    BY <2>1 DEF Keeps, Valid
  <2>3. Lands(cpu, t)
    BY <2>2, FetchLands
  <2> QED BY <1>1, <1>2, <2>2, <2>3 DEF MoveToUsp, Privileged, Lawful
<1>3. CASE ~IsSuper(cpu)
  <2>1. Lawful(cpu, Privileged(cpu, t))
    BY <1>3, PrivilegedIsLawful
  <2> QED BY <1>1, <2>1 DEF MoveToUsp
<1> QED BY <1>2, <1>3

\* Instructions on all of SR.
LEMMA SrWriteIsLawful ==
  ASSUME Valid(cpu), NEW bits, bits \subseteq Implemented
  PROVE  LET t == Privileged(cpu, WithSr(cpu, 2, bits))
         IN  Lawful(cpu, t) /\ Isolates(cpu, t)
<1>1. Keeps(cpu, Fetch(cpu, 2)) /\ Fetch(cpu, 2).usp = cpu.usp
  <2>1. Keeps(cpu, Fetch(cpu, 2))
    BY FetchKeeps
  <2> QED BY <2>1 DEF Fetch, Valid
<1>2. Valid(WithSr(cpu, 2, bits)) /\ WithSr(cpu, 2, bits).usp = cpu.usp
  BY <1>1, SetSr DEF WithSr, Keeps
<1>3. Lands(cpu, WithSr(cpu, 2, bits))
  <2>1. WithSr(cpu, 2, bits).pc = Fetch(cpu, 2).pc
    BY <1>1 DEF WithSr, Keeps, Valid
  <2> QED BY <2>1, FetchLands
<1> QED BY <1>2, <1>3, PrivilegedIsLawful

\* Instructions on the flags alone.
LEMMA CcrWriteIsLawful ==
  ASSUME Valid(cpu), NEW bits, bits \subseteq Implemented,
         Supervisor \in bits <=> IsSuper(cpu)
  PROVE  LET t == WithSr(cpu, 2, bits) IN Lawful(cpu, t) /\ Isolates(cpu, t)
<1>1. Keeps(cpu, Fetch(cpu, 2))
  BY FetchKeeps
<1>2. Supervisor \in bits <=> IsSuper(Fetch(cpu, 2))
  BY <1>1 DEF Keeps
<1>3. Keeps(Fetch(cpu, 2), WithSr(cpu, 2, bits))
  BY <1>1, <1>2, SetSr DEF WithSr, Keeps
<1>4. Lands(cpu, WithSr(cpu, 2, bits))
  <2>1. WithSr(cpu, 2, bits).pc = Fetch(cpu, 2).pc
    BY <1>1 DEF WithSr, Keeps, Valid
  <2> QED BY <2>1, FetchLands
<1> QED BY <1>1, <1>3, <1>4, KeepsKeeps, KeepsIsLawful

LEMMA ControllingIsLawful ==
  ASSUME Valid(cpu), Controlling
  PROVE  Lawful(cpu, cpu') /\ Isolates(cpu, cpu')
<1> DEFINE Good(t) == Lawful(cpu, t) /\ Isolates(cpu, t)
<1>0. cpu.sr \subseteq Implemented
  BY DEF Valid
<1>1. ASSUME NEW v \in Operand
      PROVE  /\ Good(MoveToSr(cpu, v)) /\ Good(AndiToSr(cpu, v))
             /\ Good(OriToSr(cpu, v)) /\ Good(EoriToSr(cpu, v))
  <2>1. /\ v \cap Implemented \subseteq Implemented
        /\ cpu.sr \cap v \subseteq Implemented
        /\ cpu.sr \cup (v \cap Implemented) \subseteq Implemented
        /\ SymDiff(cpu.sr, v \cap Implemented) \subseteq Implemented
    BY <1>0 DEF SymDiff
  <2>2. Good(MoveToSr(cpu, v))
    BY <2>1, SrWriteIsLawful DEF MoveToSr
  <2>3. Good(AndiToSr(cpu, v))
    BY <2>1, SrWriteIsLawful DEF AndiToSr
  <2>4. Good(OriToSr(cpu, v))
    BY <2>1, SrWriteIsLawful DEF OriToSr
  <2>5. Good(EoriToSr(cpu, v))
    BY <2>1, SrWriteIsLawful DEF EoriToSr
  <2> QED BY <2>2, <2>3, <2>4, <2>5
<1>2. ASSUME NEW v \in Operand
      PROVE  /\ Good(MoveToCcr(cpu, v)) /\ Good(AndiToCcr(cpu, v))
             /\ Good(OriToCcr(cpu, v)) /\ Good(EoriToCcr(cpu, v))
  <2> DEFINE Flags(bits) == bits \subseteq Implemented /\ (Supervisor \in bits <=> IsSuper(cpu))
  <2>1. Flags((cpu.sr \ Ccr) \cup (v \cap Ccr)) /\ Flags(cpu.sr \cup (v \cap Ccr))
    BY <1>0, SupervisorIsNoFlag DEF IsSuper
  <2>2. Flags(SymDiff(cpu.sr, v \cap Ccr))
    BY <1>0, SupervisorIsNoFlag DEF SymDiff, IsSuper
  <2>3. Flags(cpu.sr \cap (v \cup 8 .. 15))
    BY <1>0 DEF IsSuper, Supervisor
  <2>4. Good(MoveToCcr(cpu, v)) /\ Good(OriToCcr(cpu, v))
    BY <2>1, CcrWriteIsLawful DEF MoveToCcr, OriToCcr
  <2>5. Good(EoriToCcr(cpu, v))
    BY <2>2, CcrWriteIsLawful DEF EoriToCcr
  <2>6. Good(AndiToCcr(cpu, v))
    BY <2>3, CcrWriteIsLawful DEF AndiToCcr
  <2> QED BY <2>4, <2>5, <2>6
<1>3. ASSUME NEW v \in Operand
      PROVE  Good(Stop(cpu, v))
  <2>1. v \cap Implemented \subseteq Implemented
    OBVIOUS
  <2> DEFINE t == [cpu EXCEPT !.sr = v \cap Implemented]
  <2>2. Valid(t) /\ t.usp = cpu.usp
    BY <2>1, SetSr
  <2>3. Lands(cpu, t)
    BY DEF Lands, Valid
  <2> QED BY <2>2, <2>3, PrivilegedIsLawful DEF Stop
<1>4. Good(MoveFromSr(cpu))
  <2>1. Keeps(cpu, Fetch(cpu, 1)) /\ WordOf(cpu.sr) \in Word
    BY FetchKeeps, WordOfIsWord
  <2> DEFINE t == [Fetch(cpu, 1) EXCEPT !.d = WordOf(cpu.sr)]
  <2>2. Keeps(Fetch(cpu, 1), t) /\ t.pc = Fetch(cpu, 1).pc
    BY <2>1, SetD DEF Keeps, Valid
  <2> HIDE DEF t
  <2>3. Lands(cpu, t)
    BY <2>2, FetchLands
  <2>4. Good(t)
    BY <2>1, <2>2, <2>3, KeepsKeeps, KeepsIsLawful
  <2> QED BY <2>4 DEF MoveFromSr, t
<1>5. Good(Reset(cpu))
  <2>1. Keeps(cpu, Fetch(cpu, 1))
    BY FetchKeeps
  <2> QED BY <2>1, FetchLands, PrivilegedIsLawful DEF Reset, Keeps
<1>6. ASSUME NEW r
      PROVE  Good(MoveFromUsp(cpu, r))
  <2>1. Keeps(cpu, Fetch(cpu, 1)) /\ cpu.usp \in Long
    BY FetchKeeps DEF Valid
  <2>2. /\ Keeps(Fetch(cpu, 1), SetAddressReg(Fetch(cpu, 1), r, cpu.usp))
        /\ SetAddressReg(Fetch(cpu, 1), r, cpu.usp).pc = Fetch(cpu, 1).pc
    BY <2>1, SetAddressRegKeeps DEF Keeps
  <2>3. Keeps(cpu, SetAddressReg(Fetch(cpu, 1), r, cpu.usp))
    BY <2>1, <2>2, KeepsKeeps
  <2>4. Lands(cpu, SetAddressReg(Fetch(cpu, 1), r, cpu.usp))
    BY <2>2, FetchLands
  <2> QED BY <2>3, <2>4, PrivilegedIsLawful DEF MoveFromUsp, Keeps
<1> HIDE DEF Good
<1>7. Good(cpu')
  BY <1>1, <1>2, <1>3, <1>4, <1>5, <1>6 DEF Controlling, Step
<1> QED BY <1>7 DEF Good

\* An exception after the instruction's words were fetched.
LEMMA FetchedException ==
  ASSUME Valid(cpu), NEW n \in {1, 2, 3}, NEW at \in Long, NEW v \in Vectors
  PROVE  LET t == Exception(Fetch(cpu, n), at, v) IN Lawful(cpu, t) /\ Isolates(cpu, t)
<1>1. Keeps(cpu, Fetch(cpu, n))
  BY FetchKeeps
<1>2. Raises(Fetch(cpu, n), Exception(Fetch(cpu, n), at, v))
  BY <1>1, ExceptionRaises DEF Keeps
<1> QED BY <1>1, <1>2, KeepsThenRaises

LEMMA TrappingIsLawful ==
  ASSUME Valid(cpu), Trapping
  PROVE  Lawful(cpu, cpu') /\ Isolates(cpu, cpu')
<1> DEFINE Good(t) == Lawful(cpu, t) /\ Isolates(cpu, t)
<1>1. /\ IllegalVectors \subseteq Vectors /\ TrapVectors \subseteq Vectors
      /\ DivideVector \in Vectors /\ TrapvVector \in Vectors /\ ChkVector \in Vectors
  BY DEF Vectors
<1>2. cpu.pc \in Long /\ Fetch(cpu, 1).pc \in Long /\ Keeps(cpu, Fetch(cpu, 1))
  BY FetchKeeps DEF Keeps, Valid
<1>3. ASSUME NEW v \in IllegalVectors PROVE Good(Illegal(cpu, v))
  BY <1>1, <1>2, FetchedException DEF Illegal
<1>4. ASSUME NEW v \in TrapVectors PROVE Good(Trap(cpu, v))
  BY <1>1, <1>2, FetchedException DEF Trap
<1>5. Good(DivideByZero(cpu))
  BY <1>1, <1>2, FetchedException DEF DivideByZero
<1>6. Good(Trapv(cpu))
  BY <1>1, <1>2, FetchedException, FetchLands, KeepsIsLawful DEF Trapv
<1>7. ASSUME NEW negative \in BOOLEAN, NEW above \in BOOLEAN
      PROVE  Good(Chk(cpu, negative, above))
  <2> DEFINE flags == (cpu.sr \ {Carry, Overflow, Zero, Negative})
                      \cup (IF negative THEN {Negative} ELSE {})
             tested == [Fetch(cpu, 2) EXCEPT !.sr = flags]
  <2>1. Keeps(cpu, Fetch(cpu, 2))
    BY FetchKeeps
  <2>2. flags \subseteq Implemented /\ (Supervisor \in flags <=> IsSuper(cpu))
    BY DEF Valid, IsSuper, Implemented, Ccr, Carry, Overflow, Zero, Negative, Supervisor
  <2> HIDE DEF flags
  <2>3. Keeps(Fetch(cpu, 2), tested) /\ tested.pc = Fetch(cpu, 2).pc
    BY <2>1, <2>2, SetSr DEF Keeps, Valid
  <2> HIDE DEF tested
  <2>4. Keeps(cpu, tested) /\ tested.pc \in Long
    BY <2>1, <2>3, KeepsKeeps DEF Keeps, Valid
  <2>5. Raises(tested, Exception(tested, tested.pc, ChkVector))
    BY <1>1, <2>4, ExceptionRaises DEF Keeps
  <2>6. Good(tested) /\ Good(Exception(tested, tested.pc, ChkVector))
    BY <2>3, <2>4, <2>5, FetchLands, KeepsIsLawful, KeepsThenRaises
  <2> QED BY <2>6 DEF Chk, tested, flags
<1>8. ASSUME NEW v \in Value PROVE Good(Trap15(cpu, v))
  <2> DEFINE t == [Fetch(cpu, 1) EXCEPT !.d = v]
  <2>1. Keeps(Fetch(cpu, 1), t) /\ t.pc = Fetch(cpu, 1).pc
    BY <1>2, ValueAssumption, SetD DEF Keeps, Valid
  <2> HIDE DEF t
  <2>2. Lands(cpu, t)
    BY <2>1, FetchLands
  <2>3. Good(t)
    BY <1>2, <2>1, <2>2, KeepsKeeps, KeepsIsLawful
  <2> QED BY <2>3 DEF Trap15, t
<1> HIDE DEF Good
<1>9. Good(cpu')
  BY <1>3, <1>4, <1>5, <1>6, <1>7, <1>8 DEF Trapping, Step
<1> QED BY <1>9 DEF Good

(***************************************************************************)
(* The theorems.                                                           *)
(***************************************************************************)

LEMMA NextIsLawful ==
  ASSUME Valid(cpu), Next
  PROVE  Lawful(cpu, cpu') /\ (MovingToUsp \/ Isolates(cpu, cpu'))
  BY JumpingIsLawful, ReturningIsLawful, LinkingIsLawful, MovingToUspIsLawful,
     ControllingIsLawful, TrappingIsLawful DEF Next

LEMMA InitIsValid == Init => Valid(cpu)
<1> SUFFICES ASSUME Init PROVE Valid(cpu)
  OBVIOUS
<1>1. PICK entry \in Target, ssp \in InitialSp, usp \in InitialSp, sr \in {{Supervisor}, {}} :
        cpu = [pc |-> entry, sr |-> sr, ssp |-> ssp, usp |-> usp,
               a |-> <<0, 0>>, d |-> 0, mem |-> InitialMem]
  BY DEF Init
<1>2. entry \in Long /\ ssp \in Long /\ usp \in Long /\ MemoryOK(InitialMem)
  BY TargetAssumption, InitialSpAssumption, InitialMemAssumption
<1>3. 0 \in Word /\ <<0, 0>> \in Long
  BY WordRange DEF Long
<1>4. sr \subseteq Implemented
  BY SupervisorIsNoFlag
<1> QED BY <1>1, <1>2, <1>3, <1>4 DEF Valid

LEMMA NextIsValid == Valid(cpu) /\ [Next]_vars => Valid(cpu)'
<1>1. Valid(cpu) /\ Next => Valid(cpu)'
  BY NextIsLawful DEF Lawful
<1>2. Valid(cpu) /\ UNCHANGED vars => Valid(cpu)'
  BY DEF vars, Valid
<1> QED BY <1>1, <1>2

LEMMA SpecIsValid == Spec => []Valid(cpu)
  BY InitIsValid, NextIsValid, PTL DEF Spec

LEMMA NextCounts == Next => steps < MaxSteps /\ steps' = steps + 1
<1>1. (Jumping \/ Returning \/ Linking) => steps < MaxSteps /\ steps' = steps + 1
  BY DEF Jumping, Returning, Linking, Step
<1>2. (MovingToUsp \/ Controlling \/ Trapping) => steps < MaxSteps /\ steps' = steps + 1
  BY DEF MovingToUsp, Controlling, Trapping, Step
<1> QED BY <1>1, <1>2 DEF Next

\* Registers and memory stay within their widths, over every wrap of an address.
THEOREM TypeOKAlways == Spec => []TypeOK
<1> DEFINE Counted == steps \in 0 .. MaxSteps
<1>1. Init => Counted
  BY MaxStepsAssumption DEF Init
<1>2. Counted /\ [Next]_vars => Counted'
  BY MaxStepsAssumption, NextCounts DEF vars
<1>3. Valid(cpu) /\ Counted => TypeOK
  <2>1. Implemented \subseteq Bit
    BY DEF Implemented, Ccr, Bit
  <2> QED BY <2>1 DEF Valid, TypeOK
<1> QED BY <1>1, <1>2, <1>3, SpecIsValid, PTL DEF Spec

\* No program sets a bit of SR that the 68000 does not have (m68k_sr_filter_bits()).
THEOREM SrImplementedAlways == Spec => []SrImplemented
<1>1. Valid(cpu) => SrImplemented
  BY DEF Valid, SrImplemented
<1> QED BY <1>1, SpecIsValid, PTL

\* No program enters supervisor mode but through a vector with a frame on the
\* supervisor stack (m68k_exception(), m68k_address_error()).
THEOREM SupervisorByExceptionAlways == Spec => SupervisorByException
<1> DEFINE A == ~IsSuper(cpu) /\ IsSuper(cpu') =>
                  /\ \E v \in Vectors : cpu'.pc = ReadLong(cpu'.mem, <<0, v>>)
                  /\ cpu'.ssp \in {Plus(cpu.ssp, -6), Plus(cpu.ssp, -14)}
<1>1. Valid(cpu) /\ [Next]_vars => [A]_vars
  BY NextIsLawful DEF Lawful
<1> QED BY <1>1, SpecIsValid, PTL DEF Spec, SupervisorByException

\* No program reaches an odd PC from an even one while the vectors are even:
\* all transfers go through the tests for odd targets.
THEOREM PcEvenAlways == Spec => PcEven
<1> DEFINE A == ~Odd(cpu.pc) /\ VectorsEven' => ~Odd(cpu'.pc)
<1>1. Valid(cpu) /\ [Next]_vars => [A]_vars
  <2>1. Valid(cpu) /\ Next => A
    BY NextIsLawful DEF Lawful, Lands, VectorsEven
  <2> QED BY <2>1
<1> QED BY <1>1, SpecIsValid, PTL DEF Spec, PcEven

\* No program in one mode moves the stack pointer of the other, but for
\* MOVE to USP.
THEOREM StacksIsolatedAlways == Spec => StacksIsolated
<1> DEFINE A == /\ ~IsSuper(cpu) /\ ~IsSuper(cpu') => cpu'.ssp = cpu.ssp
                /\ IsSuper(cpu) /\ ~MovingToUsp => cpu'.usp = cpu.usp
<1>1. Valid(cpu) /\ [Next]_vars => [A]_vars
  BY NextIsLawful DEF Lawful, Isolates
<1> QED BY <1>1, SpecIsValid, PTL DEF Spec, StacksIsolated

(***************************************************************************)
(* What an exception saves, RTE restores; what a call saves, a return.     *)
(***************************************************************************)

LEMMA LowBit ==
  ASSUME NEW b \in {0, 1}, NEW h \in Nat
  PROVE  (b + 2 * h) % 2 = b
OBVIOUS

\* The bits of SR survive as a word: from the lowest to the highest, each is the
\* remainder by two of what is left.
LEMMA BitsOfWordOf ==
  ASSUME NEW sr, sr \subseteq Implemented
  PROVE  BitsOf(WordOf(sr)) \cap Implemented = sr
<1> DEFINE b(i) == IF i \in sr THEN 1 ELSE 0
           w == WordOf(sr)
           h15 == b(15) + 2 * 0
           h14 == b(14) + 2 * h15
           h13 == b(13) + 2 * h14
           h12 == b(12) + 2 * h13
           h11 == b(11) + 2 * h12
           h10 == b(10) + 2 * h11
           h9 == b(9) + 2 * h10
           h8 == b(8) + 2 * h9
           h7 == b(7) + 2 * h8
           h6 == b(6) + 2 * h7
           h5 == b(5) + 2 * h6
           h4 == b(4) + 2 * h5
           h3 == b(3) + 2 * h4
           h2 == b(2) + 2 * h3
           h1 == b(1) + 2 * h2
           h0 == b(0) + 2 * h1
<1>1. Implemented \subseteq Bit
  BY DEF Implemented, Ccr, Bit
<1>2. /\ Weight[0] = 1 /\ Weight[1] = 2 /\ Weight[2] = 4 /\ Weight[3] = 8
      /\ Weight[4] = 16 /\ Weight[5] = 32 /\ Weight[6] = 64 /\ Weight[7] = 128
      /\ Weight[8] = 256 /\ Weight[9] = 512 /\ Weight[10] = 1024 /\ Weight[11] = 2048
      /\ Weight[12] = 4096 /\ Weight[13] = 8192 /\ Weight[14] = 16384 /\ Weight[15] = 32768
  BY DEF Weight, Bit
<1>3. \A i \in Bit : b(i) \in {0, 1} /\ (i \in sr <=> b(i) = 1)
  OBVIOUS
<1>4. /\ b(0) \in Int /\ 0 <= b(0) /\ b(0) <= 1 /\ b(1) \in Int /\ 0 <= b(1) /\ b(1) <= 1
      /\ b(2) \in Int /\ 0 <= b(2) /\ b(2) <= 1 /\ b(3) \in Int /\ 0 <= b(3) /\ b(3) <= 1
      /\ b(4) \in Int /\ 0 <= b(4) /\ b(4) <= 1 /\ b(5) \in Int /\ 0 <= b(5) /\ b(5) <= 1
      /\ b(6) \in Int /\ 0 <= b(6) /\ b(6) <= 1 /\ b(7) \in Int /\ 0 <= b(7) /\ b(7) <= 1
      /\ b(8) \in Int /\ 0 <= b(8) /\ b(8) <= 1 /\ b(9) \in Int /\ 0 <= b(9) /\ b(9) <= 1
      /\ b(10) \in Int /\ 0 <= b(10) /\ b(10) <= 1 /\ b(11) \in Int /\ 0 <= b(11) /\ b(11) <= 1
      /\ b(12) \in Int /\ 0 <= b(12) /\ b(12) <= 1 /\ b(13) \in Int /\ 0 <= b(13) /\ b(13) <= 1
      /\ b(14) \in Int /\ 0 <= b(14) /\ b(14) <= 1 /\ b(15) \in Int /\ 0 <= b(15) /\ b(15) <= 1
  OBVIOUS
<1>5. WordOf(sr) = b(0) + 2 * b(1) + 4 * b(2) + 8 * b(3) + 16 * b(4) + 32 * b(5) + 64 * b(6)
        + 128 * b(7) + 256 * b(8) + 512 * b(9) + 1024 * b(10) + 2048 * b(11) + 4096 * b(12)
        + 8192 * b(13) + 16384 * b(14) + 32768 * b(15)
  <2> DEFINE at(i) == IF i \in sr THEN Weight[i] ELSE 0
  <2>1. WordOf(sr) = at(0) + at(1) + at(2) + at(3) + at(4) + at(5) + at(6) + at(7)
          + at(8) + at(9) + at(10) + at(11) + at(12) + at(13) + at(14) + at(15)
    BY DEF WordOf
  <2>2. /\ at(0) = b(0) /\ at(1) = 2 * b(1) /\ at(2) = 4 * b(2) /\ at(3) = 8 * b(3)
        /\ at(4) = 16 * b(4) /\ at(5) = 32 * b(5) /\ at(6) = 64 * b(6) /\ at(7) = 128 * b(7)
        /\ at(8) = 256 * b(8) /\ at(9) = 512 * b(9) /\ at(10) = 1024 * b(10)
        /\ at(11) = 2048 * b(11) /\ at(12) = 4096 * b(12) /\ at(13) = 8192 * b(13)
        /\ at(14) = 16384 * b(14) /\ at(15) = 32768 * b(15)
    BY <1>2
  <2> HIDE DEF at, b
  <2> QED BY <2>1, <2>2
<1> HIDE DEF b
<1>6. /\ h15 \in Nat /\ h14 \in Nat /\ h13 \in Nat /\ h12 \in Nat /\ h11 \in Nat /\ h10 \in Nat
      /\ h9 \in Nat /\ h8 \in Nat /\ h7 \in Nat /\ h6 \in Nat /\ h5 \in Nat /\ h4 \in Nat
      /\ h3 \in Nat /\ h2 \in Nat /\ h1 \in Nat /\ h0 \in Nat /\ 0 \in Nat
  BY <1>4
<1> HIDE DEF w, h0, h1, h2, h3, h4, h5, h6, h7, h8, h9, h10, h11, h12, h13, h14, h15
<1>7. w \in Nat /\ w \div 1 = h0
  <2>1. /\ h0 = b(0) + 2 * h1 /\ h1 = b(1) + 2 * h2 /\ h2 = b(2) + 2 * h3 /\ h3 = b(3) + 2 * h4
        /\ h4 = b(4) + 2 * h5 /\ h5 = b(5) + 2 * h6 /\ h6 = b(6) + 2 * h7 /\ h7 = b(7) + 2 * h8
        /\ h8 = b(8) + 2 * h9 /\ h9 = b(9) + 2 * h10 /\ h10 = b(10) + 2 * h11 /\ h11 = b(11) + 2 * h12
        /\ h12 = b(12) + 2 * h13 /\ h13 = b(13) + 2 * h14 /\ h14 = b(14) + 2 * h15 /\ h15 = b(15) + 2 * 0
    BY DEF h0, h1, h2, h3, h4, h5, h6, h7, h8, h9, h10, h11, h12, h13, h14, h15
  <2>2. h0 = b(0) + 2 * b(1) + 4 * b(2) + 8 * b(3) + 16 * h4
    BY <1>4, <1>6, <2>1
  <2>3. h4 = b(4) + 2 * b(5) + 4 * b(6) + 8 * b(7) + 16 * h8
    BY <1>4, <1>6, <2>1
  <2>4. h8 = b(8) + 2 * b(9) + 4 * b(10) + 8 * b(11) + 16 * h12
    BY <1>4, <1>6, <2>1
  <2>5. h12 = b(12) + 2 * b(13) + 4 * b(14) + 8 * b(15)
    BY <1>4, <1>6, <2>1
  <2>6. h8 = b(8) + 2 * b(9) + 4 * b(10) + 8 * b(11) + 16 * b(12) + 32 * b(13) + 64 * b(14)
               + 128 * b(15)
    BY <1>4, <1>6, <2>4, <2>5
  <2>7. h0 = b(0) + 2 * b(1) + 4 * b(2) + 8 * b(3) + 16 * b(4) + 32 * b(5) + 64 * b(6)
               + 128 * b(7) + 256 * h8
    BY <1>4, <1>6, <2>2, <2>3
  <2> DEFINE low == b(0) + 2 * b(1) + 4 * b(2) + 8 * b(3) + 16 * b(4) + 32 * b(5) + 64 * b(6)
                    + 128 * b(7)
             high == 256 * b(8) + 512 * b(9) + 1024 * b(10) + 2048 * b(11) + 4096 * b(12)
                     + 8192 * b(13) + 16384 * b(14) + 32768 * b(15)
  <2>8. w = low + high
    BY <1>4, <1>5 DEF w
  <2>9. high = 256 * h8 /\ low \in Int /\ high \in Int
    BY <1>4, <1>6, <2>6
  <2>10. h0 = low + 256 * h8
    BY <2>7
  <2> HIDE DEF low, high
  <2> QED BY <1>6, <2>8, <2>9, <2>10
<1>8. (w \div 1) % 2 = b(0) /\ w \div 2 = h1
  <2>1. w \div 1 = b(0) + 2 * h1 /\ b(0) \in {0, 1} /\ h1 \in Nat /\ w \in Nat
    BY <1>4, <1>6, <1>7, <1>7 DEF h0
  <2>2. w \div 2 = h1
    BY <2>1
  <2>3. (b(0) + 2 * h1) % 2 = b(0)
    BY <2>1, LowBit
  <2>4. (w \div 1) % 2 = b(0)
    BY <2>1, <2>3
  <2> QED BY <2>2, <2>4
<1>9. (w \div 2) % 2 = b(1) /\ w \div 4 = h2
  <2>1. w \div 2 = b(1) + 2 * h2 /\ b(1) \in {0, 1} /\ h2 \in Nat /\ w \in Nat
    BY <1>4, <1>6, <1>7, <1>8 DEF h1
  <2>2. w \div 4 = h2
    BY <2>1
  <2>3. (b(1) + 2 * h2) % 2 = b(1)
    BY <2>1, LowBit
  <2>4. (w \div 2) % 2 = b(1)
    BY <2>1, <2>3
  <2> QED BY <2>2, <2>4
<1>10. (w \div 4) % 2 = b(2) /\ w \div 8 = h3
  <2>1. w \div 4 = b(2) + 2 * h3 /\ b(2) \in {0, 1} /\ h3 \in Nat /\ w \in Nat
    BY <1>4, <1>6, <1>7, <1>9 DEF h2
  <2>2. w \div 8 = h3
    BY <2>1
  <2>3. (b(2) + 2 * h3) % 2 = b(2)
    BY <2>1, LowBit
  <2>4. (w \div 4) % 2 = b(2)
    BY <2>1, <2>3
  <2> QED BY <2>2, <2>4
<1>11. (w \div 8) % 2 = b(3) /\ w \div 16 = h4
  <2>1. w \div 8 = b(3) + 2 * h4 /\ b(3) \in {0, 1} /\ h4 \in Nat /\ w \in Nat
    BY <1>4, <1>6, <1>7, <1>10 DEF h3
  <2>2. w \div 16 = h4
    BY <2>1
  <2>3. (b(3) + 2 * h4) % 2 = b(3)
    BY <2>1, LowBit
  <2>4. (w \div 8) % 2 = b(3)
    BY <2>1, <2>3
  <2> QED BY <2>2, <2>4
<1>12. (w \div 16) % 2 = b(4) /\ w \div 32 = h5
  <2>1. w \div 16 = b(4) + 2 * h5 /\ b(4) \in {0, 1} /\ h5 \in Nat /\ w \in Nat
    BY <1>4, <1>6, <1>7, <1>11 DEF h4
  <2>2. w \div 32 = h5
    BY <2>1
  <2>3. (b(4) + 2 * h5) % 2 = b(4)
    BY <2>1, LowBit
  <2>4. (w \div 16) % 2 = b(4)
    BY <2>1, <2>3
  <2> QED BY <2>2, <2>4
<1>13. (w \div 32) % 2 = b(5) /\ w \div 64 = h6
  <2>1. w \div 32 = b(5) + 2 * h6 /\ b(5) \in {0, 1} /\ h6 \in Nat /\ w \in Nat
    BY <1>4, <1>6, <1>7, <1>12 DEF h5
  <2>2. w \div 64 = h6
    BY <2>1
  <2>3. (b(5) + 2 * h6) % 2 = b(5)
    BY <2>1, LowBit
  <2>4. (w \div 32) % 2 = b(5)
    BY <2>1, <2>3
  <2> QED BY <2>2, <2>4
<1>14. (w \div 64) % 2 = b(6) /\ w \div 128 = h7
  <2>1. w \div 64 = b(6) + 2 * h7 /\ b(6) \in {0, 1} /\ h7 \in Nat /\ w \in Nat
    BY <1>4, <1>6, <1>7, <1>13 DEF h6
  <2>2. w \div 128 = h7
    BY <2>1
  <2>3. (b(6) + 2 * h7) % 2 = b(6)
    BY <2>1, LowBit
  <2>4. (w \div 64) % 2 = b(6)
    BY <2>1, <2>3
  <2> QED BY <2>2, <2>4
<1>15. (w \div 128) % 2 = b(7) /\ w \div 256 = h8
  <2>1. w \div 128 = b(7) + 2 * h8 /\ b(7) \in {0, 1} /\ h8 \in Nat /\ w \in Nat
    BY <1>4, <1>6, <1>7, <1>14 DEF h7
  <2>2. w \div 256 = h8
    BY <2>1
  <2>3. (b(7) + 2 * h8) % 2 = b(7)
    BY <2>1, LowBit
  <2>4. (w \div 128) % 2 = b(7)
    BY <2>1, <2>3
  <2> QED BY <2>2, <2>4
<1>16. (w \div 256) % 2 = b(8) /\ w \div 512 = h9
  <2>1. w \div 256 = b(8) + 2 * h9 /\ b(8) \in {0, 1} /\ h9 \in Nat /\ w \in Nat
    BY <1>4, <1>6, <1>7, <1>15 DEF h8
  <2>2. w \div 512 = h9
    BY <2>1
  <2>3. (b(8) + 2 * h9) % 2 = b(8)
    BY <2>1, LowBit
  <2>4. (w \div 256) % 2 = b(8)
    BY <2>1, <2>3
  <2> QED BY <2>2, <2>4
<1>17. (w \div 512) % 2 = b(9) /\ w \div 1024 = h10
  <2>1. w \div 512 = b(9) + 2 * h10 /\ b(9) \in {0, 1} /\ h10 \in Nat /\ w \in Nat
    BY <1>4, <1>6, <1>7, <1>16 DEF h9
  <2>2. w \div 1024 = h10
    BY <2>1
  <2>3. (b(9) + 2 * h10) % 2 = b(9)
    BY <2>1, LowBit
  <2>4. (w \div 512) % 2 = b(9)
    BY <2>1, <2>3
  <2> QED BY <2>2, <2>4
<1>18. (w \div 1024) % 2 = b(10) /\ w \div 2048 = h11
  <2>1. w \div 1024 = b(10) + 2 * h11 /\ b(10) \in {0, 1} /\ h11 \in Nat /\ w \in Nat
    BY <1>4, <1>6, <1>7, <1>17 DEF h10
  <2>2. w \div 2048 = h11
    BY <2>1
  <2>3. (b(10) + 2 * h11) % 2 = b(10)
    BY <2>1, LowBit
  <2>4. (w \div 1024) % 2 = b(10)
    BY <2>1, <2>3
  <2> QED BY <2>2, <2>4
<1>19. (w \div 2048) % 2 = b(11) /\ w \div 4096 = h12
  <2>1. w \div 2048 = b(11) + 2 * h12 /\ b(11) \in {0, 1} /\ h12 \in Nat /\ w \in Nat
    BY <1>4, <1>6, <1>7, <1>18 DEF h11
  <2>2. w \div 4096 = h12
    BY <2>1
  <2>3. (b(11) + 2 * h12) % 2 = b(11)
    BY <2>1, LowBit
  <2>4. (w \div 2048) % 2 = b(11)
    BY <2>1, <2>3
  <2> QED BY <2>2, <2>4
<1>20. (w \div 4096) % 2 = b(12) /\ w \div 8192 = h13
  <2>1. w \div 4096 = b(12) + 2 * h13 /\ b(12) \in {0, 1} /\ h13 \in Nat /\ w \in Nat
    BY <1>4, <1>6, <1>7, <1>19 DEF h12
  <2>2. w \div 8192 = h13
    BY <2>1
  <2>3. (b(12) + 2 * h13) % 2 = b(12)
    BY <2>1, LowBit
  <2>4. (w \div 4096) % 2 = b(12)
    BY <2>1, <2>3
  <2> QED BY <2>2, <2>4
<1>21. (w \div 8192) % 2 = b(13) /\ w \div 16384 = h14
  <2>1. w \div 8192 = b(13) + 2 * h14 /\ b(13) \in {0, 1} /\ h14 \in Nat /\ w \in Nat
    BY <1>4, <1>6, <1>7, <1>20 DEF h13
  <2>2. w \div 16384 = h14
    BY <2>1
  <2>3. (b(13) + 2 * h14) % 2 = b(13)
    BY <2>1, LowBit
  <2>4. (w \div 8192) % 2 = b(13)
    BY <2>1, <2>3
  <2> QED BY <2>2, <2>4
<1>22. (w \div 16384) % 2 = b(14) /\ w \div 32768 = h15
  <2>1. w \div 16384 = b(14) + 2 * h15 /\ b(14) \in {0, 1} /\ h15 \in Nat /\ w \in Nat
    BY <1>4, <1>6, <1>7, <1>21 DEF h14
  <2>2. w \div 32768 = h15
    BY <2>1
  <2>3. (b(14) + 2 * h15) % 2 = b(14)
    BY <2>1, LowBit
  <2>4. (w \div 16384) % 2 = b(14)
    BY <2>1, <2>3
  <2> QED BY <2>2, <2>4
<1>23. (w \div 32768) % 2 = b(15)
  <2>1. w \div 32768 = b(15) /\ b(15) \in {0, 1}
    BY <1>4, <1>6, <1>7, <1>22 DEF h15
  <2>2. b(15) % 2 = b(15)
    BY <2>1
  <2> QED BY <2>1, <2>2
<1>24. \A i \in Bit : (w \div Weight[i]) % 2 = b(i)
  BY <1>2, <1>8, <1>9, <1>10, <1>11, <1>12, <1>13, <1>14, <1>15, <1>16, <1>17,
     <1>18, <1>19, <1>20, <1>21, <1>22, <1>23 DEF Bit
<1> QED BY <1>1, <1>3, <1>24 DEF BitsOf, w

\* Small displacements add up, over a wrap too.
LEMMA PlusAdds ==
  ASSUME NEW l \in Long, NEW n \in -16 .. 16, NEW k \in -16 .. 16, n + k \in -16 .. 16
  PROVE  Plus(Plus(l, n), k) = Plus(l, n + k)
<1>1. PICK h \in Word, low \in Word : l = <<h, low>>
  BY DEF Long
<1>2. h \in Int /\ 0 <= h /\ h <= 65535 /\ low \in Int /\ 0 <= low /\ low <= 65535
  BY WordRange
<1> DEFINE down == (h + 65535) % 65536
           up == (h + 1) % 65536
<1>3. /\ down = IF h = 0 THEN 65535 ELSE h - 1
      /\ up = IF h = 65535 THEN 0 ELSE h + 1
  BY <1>2
<1>4. /\ down \in Int /\ up \in Int
      /\ (down + 1) % 65536 = h /\ (up + 65535) % 65536 = h
  BY <1>2, <1>3
<1>5. CASE low + n < 0
  <2>1. Plus(l, n) = <<down, low + n + 65536>>
    BY <1>1, <1>5 DEF Plus
  <2> HIDE DEF down, up
  <2>2. CASE low + n + k < 0
    <3>1. Plus(l, n + k) = <<down, low + n + k + 65536>>
      BY <1>1, <1>2, <2>2 DEF Plus, down
    <3>2. Plus(<<down, low + n + 65536>>, k) = <<down, low + n + 65536 + k>>
      BY <1>2, <1>4, <1>5, <2>2 DEF Plus
    <3> QED BY <1>2, <2>1, <3>1, <3>2
  <2>3. CASE ~(low + n + k < 0)
    <3>1. Plus(l, n + k) = <<h, low + n + k>>
      BY <1>1, <1>2, <1>5, <2>3 DEF Plus
    <3>2. Plus(<<down, low + n + 65536>>, k) = <<(down + 1) % 65536, low + n + 65536 + k - 65536>>
      BY <1>2, <1>4, <1>5, <2>3 DEF Plus
    <3> QED BY <1>2, <1>4, <2>1, <3>1, <3>2
  <2> QED BY <2>2, <2>3
<1>6. CASE low + n > 65535
  <2>1. Plus(l, n) = <<up, low + n - 65536>>
    BY <1>1, <1>2, <1>6 DEF Plus
  <2> HIDE DEF down, up
  <2>2. CASE low + n + k > 65535
    <3>1. Plus(l, n + k) = <<up, low + n + k - 65536>>
      BY <1>1, <1>2, <2>2 DEF Plus, up
    <3>2. Plus(<<up, low + n - 65536>>, k) = <<up, low + n - 65536 + k>>
      BY <1>2, <1>4, <1>6, <2>2 DEF Plus
    <3> QED BY <1>2, <2>1, <3>1, <3>2
  <2>3. CASE ~(low + n + k > 65535)
    <3>1. Plus(l, n + k) = <<h, low + n + k>>
      BY <1>1, <1>2, <1>6, <2>3 DEF Plus
    <3>2. Plus(<<up, low + n - 65536>>, k) = <<(up + 65535) % 65536, low + n - 65536 + k + 65536>>
      BY <1>2, <1>4, <1>6, <2>3 DEF Plus
    <3> QED BY <1>2, <1>4, <2>1, <3>1, <3>2
  <2> QED BY <2>2, <2>3
<1>7. CASE ~(low + n < 0) /\ ~(low + n > 65535)
  <2>1. Plus(l, n) = <<h, low + n>>
    BY <1>1, <1>2, <1>7 DEF Plus
  <2>2. Plus(<<h, low + n>>, k) = Plus(<<h, low>>, n + k)
    BY <1>2, <1>7 DEF Plus
  <2> QED BY <1>1, <2>1, <2>2
<1> QED BY <1>5, <1>6, <1>7

LEMMA PlusNothing ==
  ASSUME NEW l \in Long
  PROVE  Plus(l, 0) = l
<1>1. PICK h \in Word, low \in Word : l = <<h, low>>
  BY DEF Long
<1>2. h \in Int /\ 0 <= h /\ h <= 65535 /\ low \in Int /\ 0 <= low /\ low <= 65535
  BY WordRange
<1> QED BY <1>1, <1>2 DEF Plus

\* Nearby words of a stack have cells of their own.
LEMMA CellsApart ==
  ASSUME NEW l \in Long, NEW n \in -16 .. 16, n # 0
  PROVE  Cell(Plus(l, n)) # Cell(l)
<1>1. PICK h \in Word, low \in Word : l = <<h, low>>
  BY DEF Long
<1>2. low \in Int /\ 0 <= low /\ low <= 65535
  BY WordRange
<1>3. Plus(l, n)[2] \in {low + n + 65536, low + n - 65536, low + n}
  BY <1>1, <1>2 DEF Plus
<1>4. Plus(l, n)[2] # l[2]
  BY <1>1, <1>2, <1>3
<1> QED BY <1>4 DEF Cell

LEMMA EvenApart ==
  ASSUME NEW l \in Long, NEW n \in {-6, -4, -2}
  PROVE  Odd(Plus(l, n)) <=> Odd(l)
<1>1. PICK h \in Word, low \in Word : l = <<h, low>>
  BY DEF Long
<1>2. low \in Int /\ 0 <= low /\ low <= 65535
  BY WordRange
<1>3. Plus(l, n)[2] \in {low + n + 65536, low + n}
  BY <1>1, <1>2 DEF Plus
<1>4. (low + n + 65536) % 2 = low % 2 /\ (low + n) % 2 = low % 2
  BY <1>2
<1> QED BY <1>1, <1>3, <1>4 DEF Odd

\* A word that was written is read, and the others as before.
LEMMA ReadWritten ==
  ASSUME NEW m, NEW a, NEW w, ~Odd(a)
  PROVE  ReadWord(WriteWord(m, a, w), a) = w
BY DEF ReadWord, WriteWord

LEMMA ReadBeside ==
  ASSUME NEW m, NEW a, NEW b, NEW w, Cell(a) # Cell(b)
  PROVE  ReadWord(WriteWord(m, a, w), b) = ReadWord(m, b)
<1>1. CASE Odd(a)
  BY <1>1 DEF WriteWord
<1>2. CASE ~Odd(a)
  BY <1>2 DEF WriteWord, ReadWord
<1> QED BY <1>1, <1>2

\* Two states with the same registers and memory are the same.
LEMMA SameState ==
  ASSUME NEW s, NEW t, DOMAIN s = {"pc", "sr", "ssp", "usp", "a", "d", "mem"},
         s = [f \in DOMAIN s |-> s[f]], DOMAIN t = DOMAIN s, t = [f \in DOMAIN t |-> t[f]],
         s.pc = t.pc, s.sr = t.sr, s.ssp = t.ssp, s.usp = t.usp, s.a = t.a, s.d = t.d,
         s.mem = t.mem
  PROVE  s = t
<1>1. \A f \in DOMAIN s : s[f] = t[f]
  OBVIOUS
<1> QED BY <1>1

\* The frame of an exception: three words on the supervisor stack.
LEMMA FrameHolds ==
  ASSUME NEW s, Valid(s), ~Odd(s.ssp), NEW at \in Long, NEW w \in Word
  PROVE  LET f == PushSsp(PushSsp(PushSsp(s, at[2]), at[1]), w)
         IN  /\ f.a = s.a /\ f.d = s.d
             /\ ReadWord(f.mem, Plus(s.ssp, -2)) = at[2]
             /\ ReadWord(f.mem, Plus(s.ssp, -4)) = at[1]
             /\ ReadWord(f.mem, Plus(s.ssp, -6)) = w
<1> DEFINE f1 == PushSsp(s, at[2])
           f2 == PushSsp(f1, at[1])
           f3 == PushSsp(f2, w)
           p1 == Plus(s.ssp, -2)
           p2 == Plus(s.ssp, -4)
           p3 == Plus(s.ssp, -6)
<1>1. at[1] \in Word /\ at[2] \in Word /\ s.ssp \in Long
  BY DEF Long, Valid
<1>2. p1 \in Long /\ p2 \in Long /\ p3 \in Long /\ ~Odd(p1) /\ ~Odd(p2) /\ ~Odd(p3)
  BY <1>1, PlusIsLong, EvenApart
<1>3. Cell(p2) # Cell(p1) /\ Cell(p3) # Cell(p1) /\ Cell(p3) # Cell(p2)
  <2>1. p2 = Plus(p1, -2) /\ p3 = Plus(p1, -4) /\ p3 = Plus(p2, -2)
    BY <1>1, PlusAdds
  <2> HIDE DEF p1, p2, p3
  <2> QED BY <1>2, <2>1, CellsApart
<1>4. Valid(f1) /\ f1.ssp = p1 /\ f1.mem = WriteWord(s.mem, p1, at[2]) /\ f1.a = s.a /\ f1.d = s.d
  <2>1. f1 = [s EXCEPT !.ssp = p1, !.mem = WriteWord(s.mem, p1, at[2])]
    BY DEF PushSsp
  <2>2. Valid(f1)
    BY <1>1, PushSspKeeps
  <2> QED BY <2>1, <2>2 DEF Valid
<1>5. Valid(f2) /\ f2.ssp = p2 /\ f2.mem = WriteWord(f1.mem, p2, at[1]) /\ f2.a = s.a /\ f2.d = s.d
  <2>1. Plus(f1.ssp, -2) = p2
    BY <1>1, <1>4, PlusAdds
  <2>2. f2 = [f1 EXCEPT !.ssp = p2, !.mem = WriteWord(f1.mem, p2, at[1])]
    BY <2>1 DEF PushSsp
  <2>3. Valid(f2)
    BY <1>1, <1>4, PushSspKeeps
  <2> HIDE DEF f1
  <2> QED BY <1>4, <2>2, <2>3 DEF Valid
<1>6. f3.mem = WriteWord(f2.mem, p3, w) /\ f3.a = s.a /\ f3.d = s.d
  <2>1. Plus(f2.ssp, -2) = p3
    BY <1>1, <1>5, PlusAdds
  <2>2. f3 = [f2 EXCEPT !.ssp = p3, !.mem = WriteWord(f2.mem, p3, w)]
    BY <2>1 DEF PushSsp
  <2> HIDE DEF f2
  <2> QED BY <1>5, <2>2 DEF Valid
<1> HIDE DEF f1, f2, f3, p1, p2, p3
<1>7. ReadWord(f1.mem, p1) = at[2]
  BY <1>2, <1>4, ReadWritten
<1>8. ReadWord(f2.mem, p1) = at[2] /\ ReadWord(f2.mem, p2) = at[1]
  BY <1>2, <1>3, <1>5, <1>7, ReadWritten, ReadBeside
<1>9. ReadWord(f3.mem, p1) = at[2] /\ ReadWord(f3.mem, p2) = at[1] /\ ReadWord(f3.mem, p3) = w
  BY <1>2, <1>3, <1>6, <1>8, ReadWritten, ReadBeside
<1> QED BY <1>6, <1>9 DEF f1, f2, f3, p1, p2, p3

\* Pops of a supervisor.
LEMMA SuperPops ==
  ASSUME NEW s, Valid(s), IsSuper(s)
  PROVE  /\ Top(s) = ReadWord(s.mem, s.ssp)
         /\ \A n \in {1, 2, 3} : Popped(s, n) = [s EXCEPT !.ssp = Plus(s.ssp, 2 * n)]
         /\ TopLong(Popped(s, 1)) = <<ReadWord(s.mem, Plus(s.ssp, 2)),
                                      ReadWord(s.mem, Plus(s.ssp, 4))>>
<1>1. Top(s) = ReadWord(s.mem, s.ssp) /\ Sp(s) = s.ssp
  BY DEF Top, Sp
<1>2. \A n \in {1, 2, 3} : Popped(s, n) = [s EXCEPT !.ssp = Plus(s.ssp, 2 * n)]
  BY <1>1 DEF Popped, SetSp
<1> DEFINE p == Popped(s, 1)
           q == Popped(p, 1)
<1>3. p.mem = s.mem /\ p.ssp = Plus(s.ssp, 2) /\ Valid(p) /\ IsSuper(p)
  <2>1. Valid(p) /\ IsSuper(p) /\ p.mem = s.mem
    BY PoppedKeeps DEF Keeps
  <2>2. p = [s EXCEPT !.ssp = Plus(s.ssp, 2)]
    BY <1>2
  <2> HIDE DEF p
  <2> QED BY <2>1, <2>2 DEF Valid
<1> HIDE DEF p
<1>4. q.mem = s.mem /\ q.ssp = Plus(s.ssp, 4) /\ IsSuper(q)
  <2>1. IsSuper(q) /\ q.mem = s.mem
    BY <1>3, PoppedKeeps DEF Keeps
  <2>2. q = [p EXCEPT !.ssp = Plus(p.ssp, 2)]
    BY <1>3 DEF Popped, SetSp, Sp
  <2>3. Plus(p.ssp, 2) = Plus(s.ssp, 4)
    BY <1>3, PlusAdds DEF Valid
  <2> HIDE DEF q
  <2> QED BY <1>3, <2>1, <2>2, <2>3 DEF Valid
<1> HIDE DEF q
<1>5. TopLong(p) = <<ReadWord(p.mem, p.ssp), ReadWord(q.mem, q.ssp)>>
  BY <1>3, <1>4 DEF TopLong, Top, Sp, q
<1> QED BY <1>1, <1>2, <1>3, <1>4, <1>5 DEF p

LEMMA RteUndoes ==
  ASSUME NEW s, Valid(s), ~Odd(s.ssp), ~Odd(s.pc), NEW v \in Vectors
  PROVE  LET back == Rte(Exception(s, s.pc, v))
         IN  back = [s EXCEPT !.mem = back.mem]
<1> DEFINE w == WordOf(s.sr)
           f == PushSsp(PushSsp(PushSsp(s, s.pc[2]), s.pc[1]), w)
           e == Exception(s, s.pc, v)
           r == [Popped(e, 3) EXCEPT !.sr = BitsOf(Top(e)) \cap Implemented]
<1>1. w \in Word /\ s.pc \in Long /\ s.ssp \in Long /\ s.sr \subseteq Implemented
  BY WordOfIsWord DEF Valid
<1>2. /\ Valid(f) /\ f.ssp = Plus(s.ssp, -6) /\ f.usp = s.usp /\ f.a = s.a /\ f.d = s.d
      /\ ReadWord(f.mem, Plus(s.ssp, -2)) = s.pc[2]
      /\ ReadWord(f.mem, Plus(s.ssp, -4)) = s.pc[1]
      /\ ReadWord(f.mem, Plus(s.ssp, -6)) = w
  BY <1>1, FrameKeeps, FrameHolds
<1>3. Valid(e) /\ IsSuper(e)
  BY <1>1, ExceptionRaises DEF Raises
<1>4. e.ssp = f.ssp /\ e.usp = f.usp /\ e.a = f.a /\ e.d = f.d /\ e.mem = f.mem
  <2>1. e = [f EXCEPT !.pc = ReadLong(f.mem, <<0, v>>), !.sr = EnterSupervisor(s.sr)]
    BY DEF Exception
  <2> HIDE DEF f, e
  <2> QED BY <1>2, <2>1 DEF Valid
<1> HIDE DEF f, e
<1>5. /\ Top(e) = w /\ TopLong(Popped(e, 1)) = <<s.pc[1], s.pc[2]>>
      /\ Popped(e, 3) = [e EXCEPT !.ssp = s.ssp]
  <2>1. Plus(e.ssp, 2) = Plus(s.ssp, -4) /\ Plus(e.ssp, 4) = Plus(s.ssp, -2)
        /\ Plus(e.ssp, 6) = s.ssp
    BY <1>1, <1>2, <1>4, PlusAdds, PlusNothing
  <2> QED BY <1>2, <1>3, <1>4, <2>1, SuperPops
<1>6. <<s.pc[1], s.pc[2]>> = s.pc
  BY <1>1 DEF Long
<1>7. BitsOf(Top(e)) \cap Implemented = s.sr
  BY <1>1, <1>5, BitsOfWordOf
<1>8. Rte(e) = [r EXCEPT !.pc = s.pc]
  BY <1>3, <1>5, <1>6 DEF Rte, Privileged, Go
<1>9. r = [[e EXCEPT !.ssp = s.ssp] EXCEPT !.sr = s.sr]
  BY <1>5, <1>7
<1> DEFINE back == Rte(e)
           same == [s EXCEPT !.mem = back.mem]
<1>10. /\ back = [f1 \in DOMAIN back |-> back[f1]] /\ DOMAIN back = DOMAIN s
       /\ back.pc = s.pc /\ back.sr = s.sr /\ back.ssp = s.ssp /\ back.usp = s.usp
       /\ back.a = s.a /\ back.d = s.d
  <2>1. DOMAIN e = DOMAIN s /\ DOMAIN s = {"pc", "sr", "ssp", "usp", "a", "d", "mem"}
    BY <1>3 DEF Valid
  <2> DEFINE p == [e EXCEPT !.ssp = s.ssp]
  <2>2. DOMAIN p = DOMAIN s /\ p.ssp = s.ssp /\ p.usp = s.usp /\ p.a = s.a /\ p.d = s.d
    BY <1>2, <1>4, <2>1
  <2>3. r = [p EXCEPT !.sr = s.sr]
    BY <1>9
  <2> HIDE DEF p, r, e
  <2>4. /\ DOMAIN r = DOMAIN s /\ r.ssp = s.ssp /\ r.usp = s.usp /\ r.a = s.a /\ r.d = s.d
        /\ r.sr = s.sr
    BY <2>1, <2>2, <2>3
  <2>5. back = [r EXCEPT !.pc = s.pc]
    BY <1>8
  <2> HIDE DEF back
  <2> QED BY <2>1, <2>4, <2>5
<1>11. /\ same = [f1 \in DOMAIN same |-> same[f1]] /\ DOMAIN same = DOMAIN s
       /\ same.pc = s.pc /\ same.sr = s.sr /\ same.ssp = s.ssp /\ same.usp = s.usp
       /\ same.a = s.a /\ same.d = s.d /\ same.mem = back.mem
  BY DEF Valid
<1> HIDE DEF back, same
<1>12. back = same
  BY <1>10, <1>11, SameState DEF Valid
<1> QED BY <1>12 DEF back, same, e

\* The stack of the mode, whichever it is.
LEMMA SpIsSet ==
  ASSUME NEW s, Valid(s), NEW l \in Long
  PROVE  LET t == SetSp(s, l)
         IN  /\ Valid(t) /\ Sp(t) = l /\ t.pc = s.pc /\ t.sr = s.sr
             /\ t.a = s.a /\ t.d = s.d /\ t.mem = s.mem
<1> DEFINE t == SetSp(s, l)
<1>1. CASE IsSuper(s)
  <2>1. t = [s EXCEPT !.ssp = l]
    BY <1>1 DEF SetSp
  <2> HIDE DEF t
  <2>2. /\ Valid(t) /\ t.ssp = l /\ t.pc = s.pc /\ t.sr = s.sr
        /\ t.a = s.a /\ t.d = s.d /\ t.mem = s.mem
    BY <2>1 DEF Valid
  <2> QED BY <1>1, <2>2 DEF Sp, IsSuper, t
<1>2. CASE ~IsSuper(s)
  <2>1. t = [s EXCEPT !.usp = l]
    BY <1>2 DEF SetSp
  <2> HIDE DEF t
  <2>2. /\ Valid(t) /\ t.usp = l /\ t.pc = s.pc /\ t.sr = s.sr
        /\ t.a = s.a /\ t.d = s.d /\ t.mem = s.mem
    BY <2>1 DEF Valid
  <2> QED BY <1>2, <2>2 DEF Sp, IsSuper, t
<1> QED BY <1>1, <1>2

LEMMA PushHolds ==
  ASSUME NEW s, Valid(s), NEW w \in Word
  PROVE  LET q == Push(s, w)
         IN  /\ Valid(q) /\ Sp(q) = Plus(Sp(s), -2) /\ q.pc = s.pc /\ q.sr = s.sr
             /\ q.a = s.a /\ q.d = s.d
             /\ q.mem = WriteWord(s.mem, Plus(Sp(s), -2), w)
<1> DEFINE q == Push(s, w)
           sp == Plus(Sp(s), -2)
<1>1. Valid(q)
  BY PushKeeps DEF Keeps
<1>2. CASE IsSuper(s)
  <2>1. q = [s EXCEPT !.ssp = sp, !.mem = WriteWord(s.mem, sp, w)]
    BY <1>2 DEF Push, PushSsp, Sp
  <2> HIDE DEF q, sp
  <2>2. /\ q.ssp = sp /\ q.mem = WriteWord(s.mem, sp, w)
        /\ q.pc = s.pc /\ q.sr = s.sr /\ q.a = s.a /\ q.d = s.d
    BY <2>1 DEF Valid
  <2> QED BY <1>1, <1>2, <2>2 DEF Sp, IsSuper, q, sp
<1>3. CASE ~IsSuper(s)
  <2>1. q = [s EXCEPT !.usp = sp, !.mem = WriteWord(s.mem, sp, w)]
    BY <1>3 DEF Push, PushUsp, Sp
  <2> HIDE DEF q, sp
  <2>2. /\ q.usp = sp /\ q.mem = WriteWord(s.mem, sp, w)
        /\ q.pc = s.pc /\ q.sr = s.sr /\ q.a = s.a /\ q.d = s.d
    BY <2>1 DEF Valid
  <2> QED BY <1>1, <1>3, <2>2 DEF Sp, IsSuper, q, sp
<1> QED BY <1>2, <1>3

LEMMA PushLongHolds ==
  ASSUME NEW s, Valid(s), ~Odd(Sp(s)), NEW l \in Long
  PROVE  LET p == PushLong(s, l)
         IN  /\ Valid(p) /\ Sp(p) = Plus(Sp(s), -4) /\ p.pc = s.pc /\ p.sr = s.sr
             /\ p.a = s.a /\ p.d = s.d
             /\ ReadWord(p.mem, Plus(Sp(s), -4)) = l[1]
             /\ ReadWord(p.mem, Plus(Sp(s), -2)) = l[2]
<1> DEFINE q == Push(s, l[2])
           p == Push(q, l[1])
           p1 == Plus(Sp(s), -2)
           p2 == Plus(Sp(s), -4)
<1>1. l[1] \in Word /\ l[2] \in Word /\ Sp(s) \in Long
  BY SpIsLong DEF Long
<1>2. p1 \in Long /\ p2 \in Long /\ ~Odd(p1) /\ ~Odd(p2)
  BY <1>1, PlusIsLong, EvenApart
<1>3. p2 = Plus(p1, -2)
  BY <1>1, PlusAdds
<1>4. /\ Valid(q) /\ Sp(q) = p1 /\ q.pc = s.pc /\ q.sr = s.sr /\ q.a = s.a /\ q.d = s.d
      /\ q.mem = WriteWord(s.mem, p1, l[2])
  BY <1>1, PushHolds
<1> HIDE DEF q, p1, p2
<1>5. /\ Valid(p) /\ Sp(p) = p2 /\ p.pc = s.pc /\ p.sr = s.sr /\ p.a = s.a /\ p.d = s.d
      /\ p.mem = WriteWord(q.mem, p2, l[1])
  BY <1>1, <1>3, <1>4, PushHolds
<1>6. Cell(p2) # Cell(p1)
  BY <1>2, <1>3, CellsApart
<1> HIDE DEF p
<1>7. ReadWord(q.mem, p1) = l[2]
  BY <1>2, <1>4, ReadWritten
<1>8. ReadWord(p.mem, p1) = l[2] /\ ReadWord(p.mem, p2) = l[1]
  BY <1>2, <1>5, <1>6, <1>7, ReadWritten, ReadBeside
<1> QED BY <1>5, <1>8 DEF PushLong, p, q, p1, p2

LEMMA PopsLong ==
  ASSUME NEW s, Valid(s)
  PROVE  /\ TopLong(s) = <<ReadWord(s.mem, Sp(s)), ReadWord(s.mem, Plus(Sp(s), 2))>>
         /\ Valid(Popped(s, 2)) /\ Sp(Popped(s, 2)) = Plus(Sp(s), 4)
         /\ Popped(s, 2).pc = s.pc /\ Popped(s, 2).sr = s.sr
         /\ Popped(s, 2).a = s.a /\ Popped(s, 2).d = s.d
<1>1. Plus(Sp(s), 2) \in Long /\ Plus(Sp(s), 4) \in Long
  BY SpIsLong, PlusIsLong
<1>2. Sp(Popped(s, 1)) = Plus(Sp(s), 2) /\ Popped(s, 1).mem = s.mem
  BY <1>1, SpIsSet DEF Popped
<1> QED BY <1>1, <1>2, SpIsSet DEF Popped, TopLong, Top

LEMMA UnlkUndoesLink ==
  ASSUME NEW s, Valid(s), ~Odd(Sp(s)), NEW disp \in Displacement
  PROVE  LET back == Unlk(Link(s, 0, disp), 0)
         IN  back.a = s.a /\ Sp(back) = Sp(s) /\ back.pc = Plus(s.pc, 6)
<1> DEFINE top == Plus(Sp(s), -4)
           pushed == PushLong(s, s.a)
           linked == [pushed EXCEPT !.a = top]
           k == Link(s, 0, disp)
<1>1. s.a \in Long /\ s.pc \in Long /\ Sp(s) \in Long /\ top \in Long /\ ~Odd(top)
  BY SpIsLong, PlusIsLong, EvenApart DEF Valid
<1>2. /\ Valid(pushed) /\ Sp(pushed) = top /\ pushed.pc = s.pc
      /\ ReadWord(pushed.mem, top) = s.a[1]
      /\ ReadWord(pushed.mem, Plus(Sp(s), -2)) = s.a[2]
  BY <1>1, PushLongHolds
<1> HIDE DEF top, pushed
<1>3. /\ Valid(linked) /\ Sp(linked) = top /\ linked.pc = s.pc /\ linked.a = top
      /\ linked.mem = pushed.mem
  BY <1>1, <1>2 DEF Valid, Sp, IsSuper
<1>4. k = SetSp(Fetch(linked, 2), Plus(top, disp))
  BY <1>2, <1>3 DEF Link, AddressReg, SetAddressReg, pushed
<1> HIDE DEF linked
<1>5. /\ Valid(Fetch(linked, 2)) /\ Fetch(linked, 2).pc = Plus(s.pc, 4)
      /\ Fetch(linked, 2).a = top /\ Fetch(linked, 2).mem = pushed.mem
  <2>1. Valid(Fetch(linked, 2))
    BY <1>3, FetchKeeps DEF Keeps
  <2> QED BY <1>3, <2>1 DEF Valid, Fetch
<1>6. /\ Valid(k) /\ k.pc = Plus(s.pc, 4) /\ k.a = top /\ k.mem = pushed.mem
  <2>1. Plus(top, disp) \in Long
    BY <1>1, PlusIsLong, DisplacementRange
  <2> QED BY <1>4, <1>5, <2>1, SpIsSet
<1> HIDE DEF k
<1> DEFINE fetched == Fetch(k, 1)
           freed == SetSp(fetched, top)
           popped == Popped(freed, 2)
<1>7. Valid(fetched) /\ fetched.pc = Plus(s.pc, 6) /\ fetched.mem = pushed.mem
  <2>1. Valid(fetched)
    BY <1>6, FetchKeeps DEF Keeps
  <2>2. fetched.pc = Plus(k.pc, 2) /\ fetched.mem = k.mem
    BY <1>6 DEF Valid, Fetch
  <2>3. Plus(Plus(s.pc, 4), 2) = Plus(s.pc, 6)
    BY <1>1, PlusAdds
  <2> QED BY <1>6, <2>1, <2>2, <2>3
<1> HIDE DEF fetched
<1>8. /\ Valid(freed) /\ Sp(freed) = top /\ freed.pc = Plus(s.pc, 6)
      /\ freed.mem = pushed.mem
  BY <1>1, <1>7, SpIsSet
<1> HIDE DEF freed
<1>9. Plus(top, 4) = Sp(s) /\ Plus(top, 2) = Plus(Sp(s), -2)
  BY <1>1, PlusAdds, PlusNothing DEF top
<1>10. /\ Valid(popped) /\ Sp(popped) = Sp(s) /\ popped.pc = Plus(s.pc, 6)
       /\ TopLong(freed) = <<s.a[1], s.a[2]>>
  BY <1>2, <1>8, <1>9, PopsLong
<1>11. <<s.a[1], s.a[2]>> = s.a
  BY <1>1 DEF Long
<1>12. Unlk(k, 0) = [popped EXCEPT !.a = s.a]
  BY <1>1, <1>6, <1>10, <1>11 DEF Unlk, AddressReg, SetAddressReg, fetched, freed
<1> DEFINE back == Unlk(k, 0)
<1> HIDE DEF back, popped
<1>13. back.a = s.a /\ back.pc = popped.pc /\ Sp(back) = Sp(popped)
  <2>1. back = [popped EXCEPT !.a = s.a]
    BY <1>12 DEF back
  <2>2. /\ back.a = s.a /\ back.pc = popped.pc /\ back.sr = popped.sr
        /\ back.ssp = popped.ssp /\ back.usp = popped.usp
    BY <1>10, <2>1 DEF Valid
  <2> QED BY <2>2 DEF Sp, IsSuper
<1> QED BY <1>10, <1>13 DEF back, k

\* A state that kept to its mode and has its stack pointer where it was has both there.
LEMMA StacksAsBefore ==
  ASSUME NEW s, NEW t, Keeps(s, t), Sp(t) = Sp(s)
  PROVE  t.ssp = s.ssp /\ t.usp = s.usp
  BY DEF Keeps, Sp

LEMMA RtsUndoesJsr ==
  ASSUME NEW s, Valid(s), ~Odd(Sp(s)), ~Odd(s.pc),
         NEW n \in {1, 2, 3}, NEW t \in Long, ~Odd(t)
  PROVE  LET back == Rts(Jsr(s, n, t))
         IN  back = [Fetch(s, n) EXCEPT !.mem = back.mem]
<1> DEFINE f == Fetch(s, n)
           pushed == PushLong(f, f.pc)
           j == [pushed EXCEPT !.pc = t]
           r == Popped(j, 2)
           top == Plus(Sp(f), -4)
<1>1. t \in Long /\ s.pc \in Long
  BY DEF Valid
<1>2. Valid(f) /\ f.pc \in Long /\ ~Odd(f.pc) /\ Sp(f) = Sp(s) /\ Sp(f) \in Long
  <2>1. Valid(f) /\ f.sr = s.sr
    BY FetchKeeps DEF Keeps
  <2>2. f.pc = Plus(s.pc, 2 * n) /\ f.ssp = s.ssp /\ f.usp = s.usp
    BY DEF Fetch, Valid
  <2>3. Odd(Plus(s.pc, 2 * n)) <=> Odd(s.pc)
    BY <1>1, EvenMoves
  <2> HIDE DEF f
  <2>4. Sp(f) = Sp(s)
    BY <2>1, <2>2 DEF Sp, IsSuper
  <2> QED BY <2>1, <2>2, <2>3, <2>4, SpIsLong DEF Valid
<1> HIDE DEF f
<1>4. /\ Valid(pushed) /\ Keeps(f, pushed) /\ Sp(pushed) = top
      /\ pushed.sr = f.sr /\ pushed.a = f.a /\ pushed.d = f.d
      /\ ReadWord(pushed.mem, top) = f.pc[1]
      /\ ReadWord(pushed.mem, Plus(Sp(f), -2)) = f.pc[2]
  BY <1>2, PushLongHolds, PushLongKeeps
<1> HIDE DEF pushed
<1>5. /\ Valid(j) /\ Keeps(pushed, j) /\ Sp(j) = top
      /\ j.sr = f.sr /\ j.a = f.a /\ j.d = f.d /\ j.mem = pushed.mem
  <2>1. Valid(j) /\ Keeps(pushed, j)
    BY <1>1, <1>4, SetPc DEF Keeps
  <2>2. /\ j.ssp = pushed.ssp /\ j.usp = pushed.usp /\ j.sr = pushed.sr
        /\ j.a = pushed.a /\ j.d = pushed.d /\ j.mem = pushed.mem
    BY <1>4 DEF Valid
  <2> HIDE DEF j
  <2>3. Sp(j) = Sp(pushed)
    BY <2>2 DEF Sp, IsSuper
  <2> QED BY <1>4, <2>1, <2>2, <2>3
<1>6. Jsr(s, n, t) = j
  BY DEF Jsr, Go, j, pushed, f
<1> HIDE DEF j
<1>7. Plus(top, 4) = Sp(f) /\ Plus(top, 2) = Plus(Sp(f), -2)
  BY <1>2, PlusAdds, PlusNothing
<1>8. <<f.pc[1], f.pc[2]>> = f.pc
  BY <1>2 DEF Long
<1> HIDE DEF top
<1>9. /\ Valid(r) /\ Keeps(j, r) /\ Sp(r) = Sp(f)
      /\ r.sr = f.sr /\ r.a = f.a /\ r.d = f.d /\ TopLong(j) = f.pc
  <2>1. Valid(r) /\ Keeps(j, r)
    BY <1>5, PoppedKeeps DEF Keeps
  <2>2. Sp(r) = Sp(f) /\ r.sr = f.sr /\ r.a = f.a /\ r.d = f.d
    BY <1>5, <1>7, PopsLong
  <2>3. TopLong(j) = f.pc
    BY <1>4, <1>5, <1>7, <1>8, PopsLong
  <2> QED BY <2>1, <2>2, <2>3
<1> DEFINE back == Rts(j)
           same == [f EXCEPT !.mem = back.mem]
<1>10. back = [r EXCEPT !.pc = f.pc]
  BY <1>2, <1>9 DEF Rts, Go
<1>11. r.ssp = f.ssp /\ r.usp = f.usp
  <2>1. Keeps(f, r)
    BY <1>4, <1>5, <1>9, KeepsKeeps
  <2> QED BY <1>9, <2>1, StacksAsBefore
<1> HIDE DEF r
<1>12. /\ back = [f1 \in DOMAIN back |-> back[f1]] /\ DOMAIN back = DOMAIN f
       /\ back.pc = f.pc /\ back.sr = f.sr /\ back.ssp = f.ssp /\ back.usp = f.usp
       /\ back.a = f.a /\ back.d = f.d
  <2> HIDE DEF back
  <2>1. DOMAIN r = DOMAIN f /\ DOMAIN f = {"pc", "sr", "ssp", "usp", "a", "d", "mem"}
    BY <1>2, <1>9 DEF Valid
  <2> QED BY <1>9, <1>10, <1>11, <2>1
<1>13. /\ same = [f1 \in DOMAIN same |-> same[f1]] /\ DOMAIN same = DOMAIN f
       /\ same.pc = f.pc /\ same.sr = f.sr /\ same.ssp = f.ssp /\ same.usp = f.usp
       /\ same.a = f.a /\ same.d = f.d /\ same.mem = back.mem
  BY <1>2 DEF Valid
<1> HIDE DEF back, same
<1>14. back = same
  BY <1>2, <1>12, <1>13, SameState DEF Valid
<1> QED BY <1>6, <1>14 DEF back, same, f

\* With an even target BSR is a JSR to it.
LEMMA BsrIsJsr ==
  ASSUME NEW s, Valid(s), NEW n \in {1, 2}, NEW disp \in Displacement,
         ~Odd(Plus(Fetch(s, 1).pc, disp))
  PROVE  Bsr(s, n, disp) = Jsr(s, n, Plus(Fetch(s, 1).pc, disp))
<1> DEFINE target == Plus(Fetch(s, 1).pc, disp)
           pushed == PushLong(Fetch(s, n), Fetch(s, n).pc)
           called == [pushed EXCEPT !.pc = target]
<1>1. Jsr(s, n, target) = called
  BY DEF Jsr, Go
<1>2. Bsr(s, n, disp) = [called EXCEPT !.pc = target]
  BY DEF Bsr, Go
<1> HIDE DEF target, pushed
<1>3. [called EXCEPT !.pc = target] = called
  OBVIOUS
<1> HIDE DEF called
<1> QED BY <1>1, <1>2, <1>3 DEF target

\* RTE leads back from every exception that saved the next instruction, whatever
\* its vector, and leaves registers and status as they were (m68k_exception(),
\* m68k_rte(), m68k_sr_filter_bits()).
THEOREM RteUndoesExceptionAlways == Spec => []RteUndoesException
<1>1. Valid(cpu) => RteUndoesException
  BY RteUndoes DEF RteUndoesException, Vectors
<1> QED BY <1>1, SpecIsValid, PTL

\* UNLK takes off the stack what LINK put there, in either mode and for every
\* displacement, and RTS what JSR or BSR put there
\* (m68k_link(), m68k_unlk(), m68k_jsr(), m68k_branch(), m68k_rts()).
THEOREM FramesAreUndoneAlways == Spec => []FramesAreUndone
<1>1. ASSUME Valid(cpu), ~Odd(Sp(cpu)), ~Odd(cpu.pc),
             NEW n \in {1, 2, 3}, NEW t \in Target, ~Odd(t)
      PROVE  Returns(n, Jsr(cpu, n, t))
  BY <1>1, RtsUndoesJsr, TargetAssumption DEF Returns
<1>2. ASSUME Valid(cpu), ~Odd(Sp(cpu)), ~Odd(cpu.pc),
             NEW n \in {1, 2}, NEW disp \in Displacement,
             ~Odd(Plus(Fetch(cpu, 1).pc, disp))
      PROVE  Returns(n, Bsr(cpu, n, disp))
  <2> DEFINE target == Plus(Fetch(cpu, 1).pc, disp)
  <2>1. target \in Long
    BY <1>2, FetchKeeps, DisplacementRange DEF Keeps, Valid
  <2>2. Bsr(cpu, n, disp) = Jsr(cpu, n, target)
    BY <1>2, BsrIsJsr
  <2> HIDE DEF target
  <2>3. ~Odd(target)
    BY <1>2 DEF target
  <2>4. n \in {1, 2, 3}
    BY <1>2
  <2> QED BY <1>2, <2>1, <2>2, <2>3, <2>4, RtsUndoesJsr DEF Returns
<1>3. Valid(cpu) => FramesAreUndone
  BY <1>1, <1>2, UnlkUndoesLink DEF FramesAreUndone
<1> QED BY <1>3, SpecIsValid, PTL
==============================================================================

# Formal models of cpm68emu

cpm68emu is a Motorola 68000 emulator specialised for running CP/M-68K. This
directory holds TLA+ models of it, the TLC configurations that check them on
small instances, and TLAPS proofs of the facts that hold for every instance.

    tlc -config Emulator.cfg MCEmulator     # any run: see section 3
    tlapm BuffersProofs.tla                 # any module named ...Proofs

## 1. The system

One process, one thread, one signal handler. `main()` loads the operating
system and the BIOS into memory, fills the RAM disks, and then runs one guest
instruction per iteration of a loop. The guest talks to the host through
`trap #15`, and the user interrupts it with Ctrl+C to get a debugger prompt on
the same terminal that the guest uses.

| Part | Source | State it keeps | Operations |
| --- | --- | --- | --- |
| Main loop | `main.c:228-366` | `debugger_break`, `panic_msg`, the CPU, memory and disks | option parsing, start-up order, the break / debug / execute loop |
| SIGINT and panic | `main.c:30-50` | the same `debugger_break`, `panic_msg` | set from a signal at any instant, and from inside an instruction |
| Trap hook | `main.c:54-191` | the host file handle `fh` | 14 services called by the guest with `trap #15` |
| Console | `console.c` | inject ring (`head`, `tail`), `pause` countdown, poll timeout, the terminal mode; the stdio buffer of `stdin` | status, read, write, inject, pause, resume |
| RAM disk | `ramdisk.c` | `data[disk][offset]`, `filename[disk]`, selected disk / track / sector / DMA | select, set track, sector, DMA; read; write; load; save |
| Memory | `mem.c` | 16 MB of bytes | byte, word and long accesses, S-record loader, dump |
| CPU | `m68k.c` | registers, SR, two stack pointers, `src` / `dst` operand descriptors | one instruction per `m68k_execute`, exceptions through `longjmp` |
| Trace | `m68k_trace.c` | ring of the last 64 instructions | start, record a machine word, end, dump |
| Debugger | `debugger.c` | `debugger_breakpoint_pc` | q h c s w z b t d f |
| BIOS | `emubios.s` | the guest's half of the services | `trap #3` dispatch, conin / constat / conout, disk calls |
| READ, WRITE, QUIT | `read.s`, `write.s`, `quit.s` | a guest FCB and a 128-byte buffer | copy a file between the host and CP/M |

How the parts interact:

- The guest executes `trap #15` with a service number; `m68k_trap()` calls the
  hook, which calls the console, the RAM disks, or the host's files.
- `panic()` and the SIGINT handler write `debugger_break`, which `main()` reads
  at the top of the loop, overwrites with the result of `debugger()`, and reads
  a second time to choose the terminal mode.
- The guest, the debugger prompt and its overwrite question read the same
  `stdin`, through the same stdio buffer, with the terminal in two different
  modes; `console_status()` looks past that buffer at the file descriptor.
- `-i`, `-I` and the debugger's `z` put keys in the inject ring, which
  `console_status()` and `console_read()` prefer to `stdin`.
- Exceptions are `longjmp()`s out of an instruction that is half done. What it
  did before stays.

What makes each part correct:

| Part | What must hold |
| --- | --- |
| Inject ring | keys come out in their order, none that was not put in, and the guest is not offered them faster than the pause |
| Main loop | a panic is shown before anything else runs; a break reaches the prompt |
| Terminal | cooked for the prompt and for the shell after exit, raw for the guest |
| Console | a read that follows a successful status finds a key; a key that was typed reaches the guest |
| RAM disks | a transfer reaches the sector that was set and nothing else; what cannot be reached is reported; what was saved comes back at the next start, as far as nothing was lost |
| CPU control | only exceptions raise the privilege; the two stacks are apart; SR has no bits that do not exist; the PC never becomes odd but through a vector; RTE, RTS and UNLK undo their partners |
| CPU arithmetic | results and flags are those of arithmetic on the numbers, for chains of instructions also |
| CPU operands | every operand is found where its mode says and its register is left where it should be; what an instruction pushes another one pops; an address error leaves the data as it was |
| READ, WRITE | a file arrives whole unless a disk failed; a copy that is refused changes nothing; what was written can be read back; no file stays open with bytes to be written |
| Trace | what is shown are the last instructions, in order, each with its own words |
| Memory | a long word is two words, at the end of the memory too |
| S-records, dump | the memory is what whole records say, and a damaged one does harm only where it reaches; a dump shows its range and ends |

What is hard here, and to be found as hazards with their lines in
`PROJECT.json`: a signal between any two steps of the loop; one input stream
with three readers and two buffers, where an answer of `status` is stale when
`read` uses it; a ring without a test for being full; operations on the disks
that fail in part; the order of effects in instructions that end in an
exception; and the edges of arithmetic in three widths.

## 2. Modules

| Module | Models | Extends, instantiates |
| --- | --- | --- |
| `InjectQueue` | abstract: the queue that the inject ring promises to be | |
| `InjectRing` | the ring of `console.c` | refines `InjectQueue` |
| `Emulator` | `main()`, SIGINT, panic, debugger, terminal, stdin, conin | `InjectQueue` |
| `EmulatorProofs` | types, terminal mode, panics and key availability, for every number of keys | `Emulator`, `TLAPS` |
| `Disk` | abstract: disks of sectors | |
| `RamDisk` | `ramdisk.c` with the BIOS, the debugger's save and the host's file | refines `Disk` |
| `RamDiskProofs` | the refinement, astray transfers and saves, for every geometry | `RamDisk`, `TLAPS` |
| `Words` | 16-bit and 32-bit words, SR as a set of bits, memory | |
| `Cpu` | control flow, exceptions, privilege, stacks | `Words` |
| `CpuProofs` | privilege, stacks, SR and the inverse pairs, for programs of any length | `Cpu`, `TLAPS` |
| `Alu` | arithmetic, logic, shifts, rotations, products, quotients | |
| `Bcd` | packed decimals | |
| `AluProofs` | all properties of `Alu`, for every width and count, and that of `Bcd` | `Alu`, `Bcd`, `WellFoundedInduction`, `TLAPS` |
| `Operands` | effective addresses, moves, MOVEM, MOVEP, bits, arithmetic on operands | `Alu`, once for each width |
| `MovesProofs` | lemmas: what each operator of `Operands` leaves, and which instructions undo each other | `Operands`, `AluProofs` for its inductions, `FiniteSetTheorems`, `TLAPS` |
| `OperandsProofs` | all properties of `Operands`, for bytes of every width, every number of registers, memory and program | `MovesProofs`, `AluProofs` once for each width |
| `RemoteFile` | services 10 to 13, READ and WRITE, the files on both sides | |
| `RemoteFileProofs` | types, lost handles, refused copies, whole copies and the round trip, for files of every size | `RemoteFile`, `TLAPS` |
| `TraceRing` | the ring of executed instructions | |
| `Memory` | accesses, S-records, the dump | |
| `BuffersProofs` | the two rings and the memory: the refinement, dumps, long words and loaded records, for every size and file | `InjectRing`, `TraceRing`, `Memory`, `SequenceTheorems`, `TLAPS` |
| `MC...` | the instances that TLC checks; `MCAlu` runs `Alu` or `Bcd`, and `MCViews` runs `TraceRing` or `Memory`, one of the two in a behaviour | the modules they run |

Each property has a faulty variant of some operation beside it, in the
specification and commented "Faulty", which no specification uses. With the
operation replaced by it, TLC finds the property violated: this is how we know
that the property speaks about the code.

### 2.1 InjectQueue, InjectRing

`InjectRing` has the variables of `console.c:20-23` under short names. `Inject`
is `console_inject()`; `StatusWait` and `StatusData` are the two ends of the
part of `console_status()` that applies when the ring holds keys; `Read` that of
`console_read()`. `answer` is what the last call returned, and `quiet` is a
history variable. The code does not compare `head` with `tail` when it writes,
so one key too many makes the ring look empty. `InjectQueue` states this in one
line (`Put`), and the ring is shown to implement exactly it. Everything else
uses the queue and need not know of indices. The names of the specification
begin with Ring (`RingInit`, `RingNext`, `ringVars`), as `BuffersProofs` has
other modules beside it.

### 2.2 Emulator

`loop` is the place of `main()` in its loop: before the test of
`debugger_break` ("check"), in the debugger ("prompt", or "overwrite" in the
question of `f`), after it ("resume"), before `m68k_execute()` ("run"), or gone
("exit"). Between two places the handler may run (`Sigint`), so that the two
reads of `debugger_break` are two steps. The guest is the BIOS routine conin
instruction by instruction (`emubios.s:60-69`) and, as "app", anything that is
not a console call; an app instruction may panic.

Input is two sequences: what the kernel holds (`tty`) and what stdio has taken
from it (`stdio`). `fgetc()` and `fgets()` take from `stdio` (`Take`) and, when
that does not have enough for them (`Wants`), make a read() first, which is a
step of its own (`Fill`). `Readable` says how much a read() returns: raw, all
there is, or it fails; cooked, one whole line, and until somebody has ended one
it waits, whatever was typed of it. `poll()` agrees with read(), and sees nothing
of `stdio`. stdin is taken to be a terminal.

A change of the mode meets keys that were typed in the other. Where
`console_pause()` makes the terminal cooked, Linux lets the next read() have the
keys that lie there without a newline, and other systems let them wait for one:
`MadeReady` chooses, and `ready` counts such keys.

A line at the prompt is a sequence of keys, its first the command and the
second the argument. A numeric or letter argument that may be invalid gives a
choice of both outcomes.

### 2.3 Disk, RamDisk

`RamDisk` has one action per disk service (4 to 9), the debugger's save, and
restart with the saved file. A save may lose bytes anywhere, as the results of
`fputc()` and `fclose()` are not looked at and stdio may drop a buffer and go on
with the next: `Written` has the sequences of bytes that can reach the file, and
what comes behind a lost one moves to its place. `saved` and `lost` are histories
of the last save. The BIOS asks for tracks that the disk parameter
block of `emubios.s:195-204` describes (`BdosTracks`), computed from the
geometry with the formula that gives the block's own numbers: 8192 blocks
behind one reserved track. `asked` is what it asked for, and `refused` what the
emulator refused with a panic. `Disk` knows sectors, places and transfers only;
`Store` maps the flat arrays to it.

### 2.4 Words, Cpu

An instruction is an operator from state to state; one that raises an exception
returns the state after the exception, with what the code had done before. The
next instruction and its operands are chosen freely (the guest may hold any
program), which leaves the decoder out of the model. `d` and `a` stand for one
data and one address register, A7 is the stack pointer of the mode. Memory is a
function on the words that were written. TLC's integers have 32 bits with the
sign, so long words are pairs of words, and `Plus` carries between them.

### 2.5 Alu, Bcd

The code has each operation in three copies for three widths. `Alu` has it
once, for the width given by `SignBit`. The register is two operands wide, for
MUL, DIV, EXT and SWAP. Flags are the set of those that are set. A shift is the
loop of the code, bit by bit: `Times` repeats a step, which is a function on the
registers (`States`). What AND, OR and EOR do bit by bit is `Combined`. In `Bcd` the byte is as wide as in the code, and
`SubBcd` computes in 16 bits without a sign as the code does.

### 2.6 Operands

An operand is a mode, a register and the value of its extension words; `Locate`
is the switch that `m68k_src_set()` and `m68k_dst_set()` share, with the
increments, decrements and fetches it makes, and gives the place that the code
keeps in `cpu->src` and `cpu->dst`. Reading and writing a place may be refused
(`Refused`): a byte of an address register is an illegal instruction, an odd word
an address error. The code leaves the instruction with `longjmp()`; here `raised`
says so, and an operator that is given a state with an exception returns it as
it is (`Ok`). What had been done before stays in the state, and the order of
flags, registers and memory is that of the code. What the exception then does is
in `Cpu`.

The widths of 1, 2 and 4 bytes are a parameter of every operator, and the
arithmetic is `Alu`'s, instantiated for each width (`Byte`, `Word`, `LongWord`).
How many bits a byte has is a constant, `ByteBits`, so that TLC can do with two.
The loops of MOVEM over the registers of its list are `Out`, `Down` (with -(An))
and `In`, each a function of how many registers the loop has looked at. A step
is one instruction with any operand of a list that has every mode, the invalid
one too. The properties look at pairs and chains of instructions from every
state a step leads to.

### 2.7 RemoteFile

`READ` and `WRITE` are programs of a few instructions between calls; each call
is a step, in which the service and the test of its answer are one. `fh` is the
static variable of `trap_hook()`, with what stdio holds for it; the handles that
a new open forgets are in `forgotten`, and `OpenMax` is how many of them the
host allows. `Fill` is the loop over 128 bytes with its NULs.

Faults are choices: the host may refuse to open a file (`denied`), a read may
end early, a full disk takes a part of what stdio writes, CP/M's directory and
disk may be full. `faulty` says that one of these came between, as neither
program looks. The user may kill the emulator, end it at its prompt, and change
or remove files on both sides between copies. CP/M's file system is not in the
repository; it is modelled as READ and WRITE use it.

### 2.8 TraceRing

An entry of the ring is used again without being cleared but for the lengths
and first characters that `m68k_trace_start()` sets; `View` is what
`m68k_trace_print()` can show of it. `recent` is a history of the last
instructions, as many as the ring has entries.

### 2.9 Memory

`LoadLine` is one turn of the loop over `fgets()`. A line is a type and pairs of
digits; the buffer keeps the pairs of longer lines before it, and what lies
behind the buffer may be anything, so that a damaged count does what it can do.
A dump is a step for each row, in the arithmetic of `uint32_t` (`Wide` values),
and the numbers come from the arguments of `d`, or from nowhere when `sscanf()`
did not find any.

## 3. Runs

Runs that pass:

| Run | Module, configuration | What it shows | Bounds, and why they are enough |
| --- | --- | --- | --- |
| inject_ring | `MCInjectRing`, `InjectRing.cfg` | the ring is the queue, with overflow; keys offered were injected; offers are spaced | 4 cells and 2 keys: each index wraps and meets the other in all ways. The proofs cover all sizes |
| emulator | `MCEmulator`, `Emulator.cfg` | panics stop the guest; the terminal mode; a read neither fails nor waits when no break came between; an injected key arrives; a break opens the prompt, or meets a read that waits for ever | 3 typed keys: a key for the guest and a command behind it, or a command with its argument and newline; a line in pieces, with the mode changed between. Pause 1, ring 2, empty or full at the start: an offer that waits and one that does not, and an overflow by `z`. The proofs cover the safety properties for all bounds |
| cpu | `MCCpu`, `Cpu.cfg` | privilege, stacks, SR, PC; RTE, RTS and UNLK undo their partners | 3 instructions from both modes, from even, odd and wrapping addresses. One reaches each case of an instruction, and two more damage or use what it left. The inverse pairs are checked from each state reached, which adds two |
| ram_disk | `MCRamDisk`, `RamDisk.cfg` | the arrays are disks of sectors; nothing goes astray in silence; what was saved comes back up to the first byte that was lost | 2 disks of 2 tracks of 2 sectors of 2 bytes: all the factors of the offset differ in effect. 3 bytes of memory, so that the DMA address wraps; two transfers, to bring something somewhere and back; two sessions |
| alu | `MCAlu`, `Alu.cfg` | conditions, chains, shifts, rotations and divisions against integer arithmetic; decimal sums and differences with X and Z | all operands of 4 bits, all flags, counts past the width. The formulas look at sign bits, residues and carries, which 4 bits have. Of decimals, all bytes and flags |
| operands | `MCOperands`, `Operands.cfg` | values and register lists that are pushed are popped; EXG, MOVEP and the bit instructions undo themselves; ADDX and SUBX chain in memory; address errors keep the data | bytes of 2 bits, 2 registers and A7, 16 bytes: every mode, even and odd addresses, both modes of the CPU, stacks that wrap. One instruction before the ones that the properties run: it puts registers and flags where the fixed initial states do not |
| remote_file | `MCRemoteFile`, `RemoteFile.cfg` | copies are whole or a disk failed; refused ones change nothing; no writer is forgotten; what was written is read | records of 2 bytes, files of none to two records and one with a part of a record: the padding, the empty file, the older longer file. Three copies, to write, change something and read; two handles, so that they run out |
| views | `MCViews`, `Views.cfg` | the dump of the trace; long words; loaded records, and damage that stays where its record reaches; ranges and ends of dumps | a ring of 3 turned several times, with room for one word more than an instruction has, as in the code. 16 bytes of memory in rows of 4, numbers to 64: ranges inside, across and outside of the memory and at the last number. Files with every kind of damage |

Runs that end in a violation, where the code does something else than its
texts say (`findings` in `PROJECT.json`):

| Run | The text | What the code does |
| --- | --- | --- |
| emulator_key_byte | `emubios.s:68`, "Call emulator, key byte in d0 after" | when Ctrl+C or a debugger session takes the key between status and read, `fgetc()` fails and the emulator exits |
| emulator_stuck_key | `emubios.s:66`, "Wait until key pressed" | keys that one `fgetc()` has moved into stdio's buffer are not seen by `poll()`: they wait for the next key |
| ram_disk_last_track | `emubios.s:112`, "Always OK" | the parameter block describes 16 blocks on a track that does not exist; after the panic a transfer goes to the old track and reports success |
| operands_addq | `README.md:5`, "All Motorola 68000 instructions implemented." | ADDQ.W and SUBQ.W on an address register change its low word only |

Deadlock is not checked where the system stops by itself: `exit()` in
`Emulator` and `RemoteFile`, the host's kill in `Alu`, the bound on steps in
`Cpu` and `Operands`.

Seen while modelling, and not held against the code since no text of the
repository promises otherwise:

- a text for `-I` of as many bytes as the ring has cells is lost as a whole, and
  a longer one up to its tail, without an error (`console.c:97`; `Put` states
  it);
- a RAM disk that a full host disk cuts short is called saved (`ramdisk.c:160`;
  the old image is gone and only what lies before the first lost byte comes back,
  `SaveComesBack`), and so is a copy by READ or WRITE
  (`main.c:152`);
- WRITE and READ copy records, so a file that goes from the host to CP/M and
  back ends with NULs, and READ over a longer file leaves that one's end
  (`ReadLeaves`);
- READ leaves a handle of the host open when it cannot make its file
  (`read.s:46-55`), and a dump that ends at one of the 16 highest numbers, as
  `d 0 -1` may ask for, does not end (`DumpEnds`).

## 4. Fairness

Liveness is checked under `WF_vars(Main)` alone: the process is scheduled when
it can run. That is weak fairness of the whole loop and not of its parts, for
which instruction comes next is the guest's choice. The user (`Type`, `Close`)
and signals (`Sigint`) have no fairness: nobody must type. Consequently the
properties say what happens to a guest that *is in* conin, where the BIOS
decides what comes next, and allow for a prompt that the user leaves open.
While a read() waits for a line, no step of `Main` is enabled, so that its
fairness promises nothing there: the user may leave a line without its end.
`BreakOpensPrompt` names the one place where a break is not served: a step over
a read, in which `fgetc()` waits in cooked mode. Only one that waits for ever is
excepted; a line that is ended lets the break through.

`DumpEnds` is checked under weak fairness of the two steps of the loop in
`mem_dump()`, `DumpRow` and `Dumped`: a loop that waits for nothing goes on. The
command itself has no fairness.

## 5. Proofs

TLAPS checks these from the named assumptions of the modules, which say of the
constants only what the code's constants satisfy.

- `BuffersProofs`. On the injection ring: `IInv` is the type invariant with
  `PendingWasInjected` and `OffersAreSpaced`. It needs the type invariant because the wrap is a
  comparison, correct for indices in range only. `CellFacts` says that a waiting
  key is never in the cell that is written next; from it, `InjectPending` and
  `ReadPending` say what the two operations do to the sequence of waiting keys,
  and `NextRefines` follows action by action. Theorems: `RingTypeOK`,
  `RingReadsInjected`, `RingSpacesOffers`, `RingRefinesQueue`, for all `InjectMax >= 2`.
  On the trace ring: `InRing` relates each slot of the ring, counted from the
  oldest (`Slot`), to the history, but for the entry that is in use, which
  `CurrentShown` relates to the instruction so far. `WalkIsSlots` shows that the
  two loops of the dump visit the slots in that order. That `mc_n` never reaches
  its wrap is the assumption on the longest instruction. Theorems:
  `RingIsRecentAlways`, `DumpIsRecentAlways`, for every size and program.
  On the memory, from `MemoryAssumption`: the memory is even, larger than what a
  line may count, and whole rows, as is `uint32_t`. `DumpInv`: while a dump goes on,
  it has shown what lies before its next row, unless its end is in the last row of
  32 bits, where the address wraps and it does not end. `LoadInv`: while a file is
  loaded, the memory is the image of its first lines (`ImageOf`) but where a damaged record
  does harm (`DamagedIsRead`), and the rest is left; `Apart` says that the bytes of one
  record go to different addresses, and `NumberIs` what the digits of an address make. `LongIsRead` and `LongIsWritten` are `LoadInv`
  and arithmetic of the last word. Theorems: `LongIsTwoWordsAlways`,
  `LoadedIsImageAlways`, `DumpShowsRangeAlways`.
- `EmulatorProofs`. `ModeInv` adds to `TerminalMode` and `PanicStopsGuest` the
  places of `main()`; neither is inductive without the other's account of where
  a break was noticed. `TypeOK` is inductive by itself; that the injection buffer
  keeps to its capacity rests on the overflow of `Put`. `InputTyped` says the same of
  the input, and `FillIsTyped`, `ReadableIsPart` and `TypeIsTyped` that reading and
  typing keep to it. `KeyInv` says that a read neither fails nor waits since the status
  answered "data", through the test that the BIOS makes of the answer, and that
  a prompt has always recorded its break. Theorems: `TypeOKHolds`,
  `TerminalModeHolds`, `PanicStopsGuestHolds`, `KeyIsThereHolds`, for all sets of keys, ring sizes,
  pauses and amounts of typing.
- `AluProofs`. Every operation is a function of one register, so each property of
  `Alu` follows from the type invariant, and the work is in what the operations
  compute, for every `SignBit`, which includes the 8, 16 and 32 bits of the code.
  Shifts repeat a step any number of times. The induction that this needs is done
  on a set of numbers (`Least`, from the well-foundedness of <, and `Induct`), and
  `Iterated` says once what repeating does; `Projected` carries it from registers
  to what a step does to the operand alone (ROL, ROR) or to the operand and X (ROXL,
  ROXR), where two steps are inverse (`RotationsOfNumbers`, `RotationsOfPairs`), and
  to the doubling and halving of ASL, ASR, LSL and LSR. `SumHalves` and `DiffHalves`
  take a chain apart into two halves and two carries, `WideCarries` puts the wide
  number together again, and `ChainFlagsExact` reads V and N of it. `Truncated` and
  `OnlyQuotient`: the quotient that C computes is the one that the remainder's sign
  and size determine. `Compared` goes from the flags of CMP to the order. Theorems:
  `TypeOKHolds`, `CompareDecidesAlways`, `ChainsAreWideAlways`,
  `ShiftsAreArithmeticAlways`, `RotationsAreInverseAlways`,
  `DivisionIsExactAlways`. Of `Bcd`, `AddsDigits` and `SubtractsDigits` follow two
  digits and a carry through the corrections and the 16 bits of the code:
  `DecimalsAreExactAlways`.
- `CpuProofs`. `Valid` is the type of a state with the bits of SR that exist.
  The steps between instructions' parts (fetch, push, pop, a frame) are shown
  once each to keep it (`Keeps`), and an exception to end in supervisor mode
  behind a vector with one of the two frames (`Raises`); a whole instruction is
  then `Lawful`, which is the conjunction of what the theorems say of a step,
  by one lemma for each group of `Next`. Addresses are pairs of words, and
  `PlusIsLong` and `EvenMoves` carry the argument over every wrap. The inverse
  pairs need more: that the bits of SR survive being saved as a word
  (`BitsOfWordOf`), that addresses add up across the carry between the words
  (`PlusAdds`), that the cells of a frame are apart, also around the end of the
  addresses (`CellsApart`), and what a frame and a pushed long word hold
  (`FrameHolds`, `PushLongHolds`); then `RteUndoes`, `UnlkUndoesLink` and
  `RtsUndoesJsr` follow the two instructions, and `BsrIsJsr` adds BSR. Theorems:
  `TypeOKAlways`, `SrImplementedAlways`, `SupervisorByExceptionAlways`,
  `StacksIsolatedAlways`, `PcEvenAlways`, `RteUndoesExceptionAlways`,
  `FramesAreUndoneAlways`, for any contents of memory, operands and number of
  instructions.
- `RamDiskProofs`. The offset of a byte is a number with three digits (track,
  sector, byte): `TwoDigits` says that digits below the base are determined by
  their number, and `FlatIsInjective` that a place is determined by its offset,
  so no two sectors share a byte. The wrap of DMA addresses is injective because a
  sector is not longer than the memory. `BdosTracksAreWords`: the tracks that the
  parameter block describes survive the conversion to `uint16_t`, so that it
  does not hide that a track is out of bounds. `FileHolds` is what the file keeps of
  the last save: the bytes that reach it are numbers in rising order, so those before
  the first lost one are all there, each at its own place (`InPlace`, by induction
  on the number, `Least`), and a restart loads them there (`LoadedByte`). Theorems:
  `TypeOKAlways`, `AstrayIsReportedAlways`, `SaveComesBackAlways` and
  `RamDiskRefinesDisk`, for every geometry, amount of memory and loss of bytes.
- `RemoteFileProofs`. The invariant is the type of the state, that the handle in
  use is a writer only while WRITE runs, that a program past its local open has
  a local file, and that a program which has not changed anything finds its
  files as its history remembers them. From these follow that only READ can
  leave a handle behind and that the messages come before the changes. Each
  service has a lemma of its own for what it does to the types (`...IsTyped`),
  and each step one for the invariant. `CopyInv` is what the two loops keep: at
  every place of READ the records so far are in place in CP/M's file, and at every
  place of WRITE what the host's file and stdio's buffer hold together are the bytes
  of the first `cr` records (`BytesGrow`, `ByteOfRecord`), unless a disk failed; and
  that the host still has what the last whole WRITE wrote until another one begins or
  the user edits it. `RecordsAreWhole` and `RecordsOfBytes`: cutting a file into records,
  with its padding, and joining them again. Theorems: `TypeOKAlways`,
  `NoWriterForgottenAlways`, `FailureChangesNothingAlways`,
  `CopyIsCompleteAlways`, `RoundTripAlways`, for records and files
  of every size, any number of handles and copies, and all failures.
- `MovesProofs` and `OperandsProofs`. No property needs more of the state than its
  types, so the work is in what the operators do. Each has a lemma that says it
  keeps the types and that it is `Quiet` (memory and data registers are as they
  were) or `Careful` (they are if it raised an exception): effective addresses and
  reads are quiet, and instructions look at the operand before they write it. MOVEM
  has written some registers when it looks at the next address. But all its
  addresses have the same parity, as the registers and the memory are of an
  even size, so only the first register of the list can meet an odd one
  (`Unmoved`, `Unread`). The instructions that compute take their types from
  `AluProofs`, instantiated for each width (`OperationIs`).

  `InversePairs`: `Nested`, `DigitsAre` and `CellsAre` take numbers apart into
  digits and memory into the cells from an address on; `Scattered` is what MOVEP
  leaves, digit by digit; `Flip` and `Altered` are what adding and subtracting a power of
  two does to one bit; EXG twice gives every register what it had (`SameMachine`).
  `PushesArePopped`: `Rank` counts the registers of a list behind one, and `Slot` is the
  place on the stack that this gives it. `OnStack` and `OffStack` are the invariants of
  the loops that push and pop; the slots are apart as long as the list fits in memory
  (`SlotsApart`), and `Path` and `Followed` reach the end of the loop by the induction
  that `AluProofs` has. `ChainsInMemory`: `DigitSum` is one digit of ADDX or SUBX with
  the carry it takes and gives, `DigitsJoin` puts two of them together, `DigitsChain`
  adds the flags, of which Z needs that it is only ever cleared. Then `BytesAreWord`
  follows the two instructions through memory. They may have the same word as both
  operands, and the first byte that is written is never read again, since the word
  is at an even address (`PairsApart`). Theorems: `TypeOKHolds`,
  `AddressErrorKeepsDataAlways`, `InversePairsAlways`, `PushesArePoppedAlways`,
  `ChainsInMemoryAlways`, for bytes of every width, any number of registers, every
  even size of memory from 8 bytes on that divides the range of the addresses, and
  programs of any length.

Every invariant and every action property of the runs that pass is a theorem.
Model-checked only:

- liveness (`InjectedKeyArrives`, `BreakOpensPrompt`, `DumpEnds`), which is beyond
  this prover;
- the findings, which are counterexamples.

What the properties leave open, although the models have it:

- which bytes a damaged S-record puts where it reaches, and what a copy or a save
  that a full disk cuts short has lost, beyond the first lost byte of a save;
- that DIVS of the lowest dividend by -1 stops the emulator on some hosts: C leaves
  it undefined, and `DivisionIsExact` speaks of the operations that end;
- that the copies of one routine in the code stay alike: `Alu` stands for three
  widths, and `Bit` in `Operands` for eight copies of the bit instructions. They were
  compared by reading;
- LINK and UNLK of A7, which are steps of `Cpu` but no inverse pair.

## 6. Not modelled

- Decoding of opcodes: the models take the instruction as given. A table of bit
  patterns has no states, and its statement in TLA+ would be the table again.
- Of the operands: the memory forms of ABCD and SBCD and the operands of NBCD,
  MUL, DIV and CHK, which use the same `SrcRead`, `DstRead` and `BetweenMemory` as
  the others with arithmetic that is checked for itself; and MOVEM on modes that
  are no place in memory, which the decoder leaves to the assembler to avoid.
- `mem_load_binary()`, which nothing calls.
- Output (`console_write()`), help and register texts, warp mode, the timeout
  of `poll()`: they change nothing that another part reads. `poll()` that
  returns late is `poll()` that returns.
- The BIOS's start-up, QUIT beyond its service, CP/M itself, the build.

## 7. What could follow

1. The memory forms of ABCD and SBCD in `Operands`, with `Bcd` for their
   arithmetic.

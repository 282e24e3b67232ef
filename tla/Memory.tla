------------------------------- MODULE Memory --------------------------------
(***************************************************************************)
(* The memory (mem.c): bytes, words and long words, the S-records that     *)
(* main() loads into it, and the dump that the command d of the debugger   *)
(* prints.  A line of S-records is a type and pairs of hexadecimal digits. *)
(***************************************************************************)
EXTENDS Integers, Sequences

CONSTANTS
  Base,     \* values of a byte: 256
  MemSize,  \* MEM_MAX
  Room,     \* pairs that fit into the line buffer
  Row,      \* bytes in a row of the dump: 16
  Span,     \* what d shows with one argument: 0xFF bytes and one
  Wide,     \* values of uint32_t
  Bad,      \* a pair that is not hexadecimal
  Files,    \* what cpm_bios_filename may hold
  Numbers   \* what d may find in its arguments, as uint32_t

\* What the sizes of the code have in common: MEM_MAX is even, larger than what a
\* line may count, and divided by the row, and uint32_t holds whole rows.
Sizes ==
  /\ Base \in Nat /\ 4 <= Base /\ Base <= MemSize
  /\ Row \in Nat /\ 0 < Row
  /\ MemSize \in Nat /\ MemSize % 2 = 0 /\ MemSize % Row = 0
  /\ Wide \in Nat /\ MemSize < Wide /\ Wide % Row = 0
  /\ Room \in Nat /\ 4 <= Room /\ Span \in Nat
  /\ Bad \notin Int

Byte == 0 .. Base - 1
Square == Base * Base \* values of a word
Pair == Byte \cup {Bad}
Ram == 0 .. MemSize - 1

\* Type 0 stands for all types that are not loaded, and none for lines without an S.
Lines == [type : {"0", "1", "2", "none"}, pairs : Seq(Pair)]

Inputs == Files \subseteq Seq(Lines) /\ Numbers \subseteq 0 .. Wide - 1

ASSUME MemoryAssumption == Sizes /\ Inputs

VARIABLES
  ram,
  file,   \* the lines that are still to be loaded
  line,   \* the line buffer's pairs
  loaded, \* history: the whole file
  phase,  \* loading, at the prompt of the debugger, or dumping
  dump,   \* start, i and end of mem_dump()
  out,    \* history: the addresses that the dump has shown,
  twice   \* and whether it has shown one twice

memVars == <<ram, file, line, loaded, phase, dump, out, twice>>

------------------------------------------------------------------------------
(* Access.  Words at odd addresses are refused. *)

ReadByte(m, a) == m[a % MemSize]
WriteByte(m, a, v) == [m EXCEPT ![a % MemSize] = v]

ReadWord(m, a) == ReadByte(m, a) * Base + ReadByte(m, a + 1)
WriteWord(m, a, v) == WriteByte(WriteByte(m, a, v \div Base), a + 1, v % Base)

\* Faulty ReadLong: at the last word it reads the words around it.
ReadLongFlat(m, a) ==
  LET at == IF a % MemSize = MemSize - 2 THEN a - 2 ELSE a
  IN  ReadWord(m, at) * Square + ReadWord(m, at + 2)

\* The long word at the last word goes on at 0.
ReadLong(m, a) ==
  LET at == a % MemSize
      next == IF at = MemSize - 2 THEN 0 ELSE at + 2
  IN  (m[at] * Base + m[at + 1]) * Square + m[next] * Base + m[next + 1]
WriteLong(m, a, v) ==
  LET at == a % MemSize
      next == IF at = MemSize - 2 THEN 0 ELSE at + 2
  IN  [m EXCEPT ![at] = v \div (Square * Base), ![at + 1] = (v \div Square) % Base,
                ![next] = (v \div Base) % Base, ![next + 1] = v % Base]

------------------------------------------------------------------------------
(* mem_load_srec(). *)

\* fgets() leaves what is behind the end of a short line as it was.
Fgets(pairs) ==
  [p \in 1 .. Room |->
     IF p <= Len(pairs) THEN pairs[p] ELSE IF p = Len(pairs) + 1 THEN Bad ELSE line[p]]

\* A long line comes in pieces; the later ones do not start with an S.
Pieces(l) ==
  IF Len(l.pairs) <= Room THEN <<>>
  ELSE <<[type |-> "none", pairs |-> SubSeq(l.pairs, Room + 1, Len(l.pairs))]>>

AddressPairs(type) == IF type = "1" THEN 2 ELSE 3

\* Faulty DataPairs: the checksum is data too.
DataPairsAll(type, count) == AddressPairs(type) + 2 .. count + 1

\* The count covers the address and the checksum.
DataPairs(type, count) == AddressPairs(type) + 2 .. count

\* The number that the pairs from the second to the first Bad one make.
Number(read, pairs) ==
  LET value[p \in 1 .. pairs + 1] ==
        IF p = 1 \/ read[p] = Bad THEN 0 ELSE value[p - 1] * Base + read[p]
      readable == {p \in 2 .. pairs + 1 : \A q \in 2 .. p : read[q] # Bad}
  IN  value[CHOOSE p \in readable : p + 1 \notin readable]

\* A line.  Behind the buffer is the stack, with anything in it.
LoadLine(beyond) ==
  LET l == Head(file)
      b == Fgets(l.pairs)
      read == [p \in 1 .. Base + 1 |-> IF p <= Room THEN b[p] ELSE beyond]
      address == Number(read, AddressPairs(l.type))
      first == AddressPairs(l.type) + 2
      puts(a) == {p \in DataPairs(l.type, read[1]) :
                    read[p] # Bad /\ (address + p - first) % MemSize = a}
      last(s) == CHOOSE p \in s : \A q \in s : q <= p
  IN  /\ phase = "load" /\ file # <<>>
      /\ file' = Pieces(l) \o Tail(file)
      /\ line' = b
      /\ ram' = IF l.type \notin {"1", "2"} \/ read[1] = Bad \/ read[2] = Bad THEN ram
                ELSE [a \in Ram |-> IF puts(a) = {} THEN ram[a] ELSE read[last(puts(a))]]
      /\ UNCHANGED <<loaded, phase, dump, out, twice>>

\* main() goes on, and later somebody enters the debugger.
Loaded ==
  /\ phase = "load" /\ file = <<>>
  /\ phase' = "prompt"
  /\ UNCHANGED <<ram, file, line, loaded, dump, out, twice>>

------------------------------------------------------------------------------
(* mem_dump(). *)

RowOf(start) == ((start % MemSize) \div Row) * Row

\* Faulty Cells: the last row is whole.
CellsWhole(start, end) == {a \in RowOf(start) .. RowOf(start) + Row - 1 : start <= a}

\* mem_dump_16() shows these; the rest of the row is blank.
Cells(start, end) == {a \in RowOf(start) .. RowOf(start) + Row - 1 : start <= a /\ a <= end}

Show(start, end, before) ==
  /\ out' = before \cup Cells(start, end)
  /\ twice' = (before \cap Cells(start, end) # {} \/ (twice /\ before # {}))

StartDump(start, end) ==
  /\ phase = "prompt" /\ phase' = "dump"
  /\ Show(start, end, {})
  /\ dump' = [start |-> start, at |-> (RowOf(start) + Row) % Wide, end |-> end]
  /\ UNCHANGED <<ram, file, line, loaded>>

\* Faulty DumpRow: the address of the row wraps with the memory.
DumpRowMasked ==
  /\ phase = "dump" /\ dump.at <= dump.end
  /\ Show(dump.at, dump.end, out)
  /\ dump' = [dump EXCEPT !.at = (@ + Row) % MemSize]
  /\ UNCHANGED <<ram, file, line, loaded, phase>>

DumpRow ==
  /\ phase = "dump" /\ dump.at <= dump.end
  /\ Show(dump.at, dump.end, out)
  /\ dump' = [dump EXCEPT !.at = (@ + Row) % Wide]
  /\ UNCHANGED <<ram, file, line, loaded, phase>>

Dumped ==
  /\ phase = "dump" /\ dump.at > dump.end
  /\ phase' = "prompt"
  /\ UNCHANGED <<ram, file, line, loaded, dump, out, twice>>

Signed(v) == IF v >= Wide \div 2 THEN v - Wide ELSE v

\* d with one argument; the sum is an int.
EndFor(start) ==
  IF Signed(start) + Span > MemSize - 1 THEN MemSize - 1 ELSE (Signed(start) + Span) % Wide

\* The results of sscanf() are not looked at: what is not a number is any number.
Command ==
  \/ \E start, end \in Numbers : StartDump(start, end)
  \/ \E start \in Numbers : StartDump(start, EndFor(start))

MemInit ==
  /\ ram = [a \in Ram |-> 0]
  /\ file \in Files /\ loaded = file
  /\ \E p \in Pair : line = [i \in 1 .. Room |-> p]
  /\ phase = "load"
  /\ dump = [start |-> 1, at |-> 0, end |-> 0] /\ out = {} /\ twice = FALSE

MemNext ==
  \/ \E beyond \in Pair : LoadLine(beyond)
  \/ Loaded \/ Command \/ DumpRow \/ Dumped

MemSpec == MemInit /\ [][MemNext]_memVars

\* The loop of mem_dump() goes on by itself.
Fairness == WF_memVars(DumpRow) /\ WF_memVars(Dumped)

------------------------------------------------------------------------------
(* Properties. *)

\* A long word is two words, also where it goes around the end of the memory, and
\* what was written is read (the case of 0xFFFFFE in mem_read_long() and
\* mem_write_long()).
LongIsTwoWords ==
  \A a \in {b \in 0 .. 2 * MemSize : b % 2 = 0} :
    /\ ReadLong(ram, a) = ReadWord(ram, a) * Square + ReadWord(ram, a + 2)
    /\ \A v \in {0, Square * Base + 1, Square * Square - 2} :
         WriteLong(ram, a, v) = WriteWord(WriteWord(ram, a, v \div Square), a + 2, v % Square)

IsRecord(l) == l.type \in {"1", "2"}
Whole(l) ==
  IsRecord(l) =>
    /\ Len(l.pairs) \in AddressPairs(l.type) + 2 .. Room
    /\ l.pairs[1] + 1 = Len(l.pairs)
    /\ \A p \in 1 .. Len(l.pairs) : l.pairs[p] # Bad

AddressOf(l) ==
  IF l.type = "1" THEN l.pairs[2] * Base + l.pairs[3]
  ELSE (l.pairs[2] * Base + l.pairs[3]) * Base + l.pairs[4]

\* A whole record has its pair p for the address a.
FirstData(l) == AddressPairs(l.type) + 2
Covers(l, p, a) ==
  /\ IsRecord(l) /\ Whole(l)
  /\ p \in FirstData(l) .. Len(l.pairs) - 1 /\ (AddressOf(l) + p - FirstData(l)) % MemSize = a

\* Something of the address can be read, and all of it.
Starts(l) == Len(l.pairs) >= 2 /\ l.pairs[1] # Bad /\ l.pairs[2] # Bad
AddressIsRead(l) ==
  Len(l.pairs) > AddressPairs(l.type) /\ \A p \in 1 .. AddressPairs(l.type) + 1 : l.pairs[p] # Bad

\* A damaged record may put something at the address a: its count reaches so far, with
\* what an older line left in the buffer, or its address is damaged.
Harms(l, a) ==
  /\ IsRecord(l) /\ ~Whole(l) /\ Starts(l)
  /\ AddressIsRead(l) => \E p \in DataPairs(l.type, l.pairs[1]) :
                           (AddressOf(l) + p - FirstData(l)) % MemSize = a

\* After main() has loaded a file the memory is what its whole records say, the later
\* one where two overlap, and zero elsewhere, whatever the line buffer held before and
\* whatever lines are between them; a damaged record does harm where its own address
\* and count reach, and nowhere else (mem_load_srec()).
LoadedIsImage ==
  phase # "load" =>
    \A a \in Ram :
      \/ \E k \in 1 .. Len(loaded) : Harms(loaded[k], a)
      \/ ram[a] = 0 /\ \A k \in 1 .. Len(loaded), p \in 1 .. Room : ~Covers(loaded[k], p, a)
      \/ \E k \in 1 .. Len(loaded), p \in 1 .. Room :
           /\ Covers(loaded[k], p, a) /\ ram[a] = loaded[k].pairs[p]
           /\ \A m \in k + 1 .. Len(loaded), q \in 1 .. Room : ~Covers(loaded[m], q, a)

\* A dump that starts in the memory shows the addresses from its first to its last
\* argument, once each, the first and the last row cut to them, and nothing for
\* addresses that are not there (mem_dump(), mem_dump_16()).
DumpShowsRange ==
  phase = "prompt" /\ dump.start < MemSize =>
    out = {a \in Ram : dump.start <= a /\ a <= dump.end} /\ ~twice

\* A dump ends, to the last byte of the memory too, unless its end is one of the 16
\* highest numbers of 32 bits, as with the argument -1 (the uint32_t i of mem_dump()).
DumpEnds == (phase = "dump" /\ dump.end < Wide - Row) ~> phase = "prompt"
==============================================================================

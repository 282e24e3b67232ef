------------------------------ MODULE TraceRing ------------------------------
(***************************************************************************)
(* The trace of the last instructions (m68k_trace.c): a ring of entries    *)
(* that m68k_execute() fills while it runs an instruction and that the     *)
(* command t of the debugger prints from the oldest one.  An entry is used *)
(* again and again and is cleared only in part.                            *)
(***************************************************************************)
EXTENDS Integers, Sequences

CONSTANTS
  Size,      \* M68K_TRACE_BUFFER_SIZE
  McMax,     \* M68K_TRACE_MC_MAX, the words that an entry has room for
  MaxWords,  \* words of the longest instruction
  Cpu,       \* states of the CPU
  ZeroCpu,   \* the one of all zeros
  Word,      \* words of instructions
  Fields,    \* op_mnemonic, op_src and op_dst
  Text       \* what is printed for them

Empty == ""

ASSUME SizeAssumption == Size \in Nat \ {0}
\* An opcode and two operands of two words each do not fill an entry.
ASSUME WordsAssumption == McMax \in Nat /\ MaxWords \in Nat /\ MaxWords < McMax
ASSUME ZeroAssumption == ZeroCpu \in Cpu /\ 0 \in Word
ASSUME TextAssumption == "mnemonic" \in Fields /\ Empty \in Text

VARIABLES
  entries,   \* trace_buffer
  index,     \* trace_buffer_n
  busy,      \* m68k_execute() is in an instruction
  current,   \* history: what the instruction did so far
  recent     \* history: the last instructions, oldest first

vars == <<entries, index, busy, current, recent>>

Slots == 0 .. Size - 1
NoText == [f \in Fields |-> Empty]
Zero == [cpu |-> ZeroCpu, mc |-> [i \in 0 .. McMax - 1 |-> 0], n |-> 0, text |-> NoText]

\* What can be printed of an entry.
View(e) ==
  [cpu |-> e.cpu, words |-> [i \in 1 .. e.n |-> e.mc[i - 1]], text |-> e.text]

\* Entries without words or a mnemonic, as those are that were never used, are
\* left out; and so are illegal instructions.
Shown(v) == v.words # <<>> /\ v.text["mnemonic"] # Empty

Init ==
  /\ entries = [i \in Slots |-> Zero] /\ index = 0
  /\ current = View(Zero)
  /\ recent = [k \in 1 .. Size |-> View(Zero)]
  /\ busy = FALSE

\* Faulty Start: the words of the instruction before last stay.
StartUncleared(c) ==
  /\ ~busy /\ busy' = TRUE
  /\ entries' =
       [entries EXCEPT ![index].cpu = c, ![index].text = NoText]
  /\ current' = [cpu |-> c, words |-> <<>>, text |-> NoText]
  /\ UNCHANGED <<index, recent>>

Start(c) ==
  /\ ~busy /\ busy' = TRUE
  /\ entries' =
       [entries EXCEPT ![index].cpu = c, ![index].n = 0, ![index].text = NoText]
  /\ current' = [cpu |-> c, words |-> <<>>, text |-> NoText]
  /\ UNCHANGED <<index, recent>>

\* A word is fetched.  The words would start again at the first if they did not fit.
Mc(w) ==
  /\ busy /\ Len(current.words) < MaxWords
  /\ entries' =
       [entries EXCEPT ![index].mc[entries[index].n] = w,
                       ![index].n = IF @ + 1 >= McMax THEN 0 ELSE @ + 1]
  /\ current' = [current EXCEPT !.words = Append(@, w)]
  /\ UNCHANGED <<index, busy, recent>>

\* Instructions may describe an operand more than once.
Describe(f, t) ==
  /\ busy
  /\ entries' = [entries EXCEPT ![index].text[f] = t]
  /\ current' = [current EXCEPT !.text[f] = t]
  /\ UNCHANGED <<index, busy, recent>>

\* At the end of an instruction, and where an exception's longjmp() comes back.
End ==
  /\ busy /\ busy' = FALSE
  /\ index' = IF index + 1 >= Size THEN 0 ELSE index + 1
  /\ recent' = [k \in 1 .. Size |-> IF k < Size THEN recent[k + 1] ELSE current]
  /\ UNCHANGED <<entries, current>>

Next ==
  \/ \E c \in Cpu : Start(c)
  \/ \E w \in Word : Mc(w)
  \/ \E f \in Fields, t \in Text : Describe(f, t)
  \/ End

Spec == Init /\ [][Next]_vars

------------------------------------------------------------------------------
(* m68k_trace_dump(). *)

\* The order of its two loops.
Walk ==
  [k \in 1 .. Size - index |-> View(entries[index + k - 1])]
    \o [k \in 1 .. index |-> View(entries[k - 1])]

Dump == SelectSeq(Walk, Shown)

------------------------------------------------------------------------------
(* Properties. *)

\* Between two instructions the ring holds the last Size of them, oldest first, each
\* with the state before it and the words and texts of that one alone
\* (m68k_trace_start(), m68k_trace_end()).
RingIsRecent == ~busy => Walk = recent

\* So the command t prints these, without those that have nothing to show.
DumpIsRecent == ~busy => Dump = SelectSeq(recent, Shown)
==============================================================================

---------------------------- MODULE BuffersProofs ----------------------------
(***************************************************************************)
(* The arrays of the console and the debugger: the ring of injected keys   *)
(* and that of the last instructions, for every size, pause and set of     *)
(* keys; the memory, the loader of S-records and the dump, for all sizes   *)
(* that fit each other as those of the code do, all files and all          *)
(* arguments.                                                              *)
(***************************************************************************)
EXTENDS InjectRing, TraceRing, Memory, SequenceTheorems, TLAPS

(***************************************************************************)
(* The trace.  DumpIsRecent is about the moments between instructions.     *)
(* What it needs during one is that the entry at index shows what the      *)
(* instruction did so far, although the words of an older one are still    *)
(* behind its n words, and that the other entries are those of recent,     *)
(* shifted by index.                                                       *)
(***************************************************************************)

Entry ==
  [cpu : Cpu, mc : [0 .. McMax - 1 -> Word], n : 0 .. McMax - 1, text : [Fields -> Text]]

\* The slot of the k-th entry in the order of the dump.
Slot(k) == IF index + k - 1 < Size THEN index + k - 1 ELSE index + k - 1 - Size

EntriesTyped ==
  /\ entries \in [Slots -> Entry] /\ index \in Slots /\ busy \in BOOLEAN

CurrentShown ==
  /\ View(entries[index]) = current
  /\ entries[index].n <= MaxWords

InRing ==
  /\ recent = [k \in 1 .. Size |-> recent[k]]
  /\ \A k \in 1 .. Size : (busy => k > 1) => View(entries[Slot(k)]) = recent[k]

Inv == EntriesTyped /\ (busy => CurrentShown) /\ InRing

------------------------------------------------------------------------------
(* The order of the dump. *)

LEMMA SlotInRing ==
  ASSUME index \in Slots, NEW k \in 1 .. Size
  PROVE  /\ Slot(k) \in Slots
         /\ Slot(k) = index <=> k = 1
BY SizeAssumption DEF Slots, Slot

\* The two loops of m68k_trace_dump() visit the slots in this order.
LEMMA WalkIsSlots ==
  ASSUME EntriesTyped
  PROVE  Walk = [k \in 1 .. Size |-> View(entries[Slot(k)])]
<1> DEFINE V == {View(entries[i]) : i \in Slots}
           older == [k \in 1 .. Size - index |-> View(entries[index + k - 1])]
           newer == [k \in 1 .. index |-> View(entries[k - 1])]
<1> USE SizeAssumption
<1>1. index \in Nat /\ index < Size /\ Size \in Nat
  BY DEF EntriesTyped, Slots
<1>2. older \in Seq(V) /\ Len(older) = Size - index
  <2>1. \A k \in 1 .. Size - index : index + k - 1 \in Slots
    BY <1>1 DEF Slots
  <2>2. older \in [1 .. Size - index -> V]
    BY <2>1
  <2> QED BY <1>1, <2>2
<1>3. newer \in Seq(V) /\ Len(newer) = index
  <2>1. \A k \in 1 .. index : k - 1 \in Slots
    BY <1>1 DEF Slots
  <2>2. newer \in [1 .. index -> V]
    BY <2>1
  <2> QED BY <1>1, <2>2
<1>4. \A k \in 1 .. Size :
        View(entries[Slot(k)]) = IF k <= Len(older) THEN older[k] ELSE newer[k - Len(older)]
  <2> SUFFICES ASSUME NEW k \in 1 .. Size
               PROVE  View(entries[Slot(k)])
                        = IF k <= Len(older) THEN older[k] ELSE newer[k - Len(older)]
    OBVIOUS
  <2>1. CASE k <= Size - index
    <3>1. Slot(k) = index + k - 1
      BY <1>1, <2>1 DEF Slot
    <3> QED BY <1>1, <1>2, <2>1, <3>1
  <2>2. CASE ~(k <= Size - index)
    <3>1. Slot(k) = (k - (Size - index)) - 1 /\ k - (Size - index) \in 1 .. index
      BY <1>1, <2>2 DEF Slot
    <3>2. newer[k - (Size - index)] = View(entries[(k - (Size - index)) - 1])
      BY <3>1
    <3> QED BY <1>1, <1>2, <2>2, <3>1, <3>2
  <2> QED BY <2>1, <2>2
<1> HIDE DEF older, newer, V
<1> DEFINE both == [k \in 1 .. Size |->
                      IF k <= Len(older) THEN older[k] ELSE newer[k - Len(older)]]
<1>5. older \o newer = both
  <2>1. /\ older \o newer \in Seq(V) /\ Len(older \o newer) = Size
        /\ \A k \in 1 .. Size : (older \o newer)[k] = both[k]
    <3>1. /\ older \o newer \in Seq(V) /\ Len(older \o newer) = Len(older) + Len(newer)
          /\ \A k \in 1 .. Len(older) + Len(newer) : (older \o newer)[k] =
                IF k <= Len(older) THEN older[k] ELSE newer[k - Len(older)]
      BY <1>2, <1>3, ConcatProperties
    <3>2. Len(older) + Len(newer) = Size
      BY <1>1, <1>2, <1>3
    <3> QED BY <3>1, <3>2
  <2>2. both \in Seq(V) /\ Len(both) = Size
    <3>1. \A k \in 1 .. Size : both[k] \in V
      BY <2>1, <1>1, ElementOfSeq
    <3>2. both \in [1 .. Size -> V]
      BY <3>1
    <3> QED BY <1>1, <3>2
  <2> HIDE DEF both
  <2> QED BY <2>1, <2>2, SeqEqual
<1>6. Walk = older \o newer
  BY DEF Walk, older, newer
<1> QED BY <1>4, <1>5, <1>6

------------------------------------------------------------------------------
(* The invariant. *)

LEMMA ZeroTyped == Zero \in Entry /\ NoText \in [Fields -> Text]
BY WordsAssumption, ZeroAssumption, TextAssumption DEF Zero, Entry, NoText

\* An entry by its fields.
LEMMA EntryByFields ==
  ASSUME NEW old \in Entry
  PROVE  /\ old.cpu \in Cpu /\ old.mc \in [0 .. McMax - 1 -> Word]
         /\ old.n \in 0 .. McMax - 1 /\ old.text \in [Fields -> Text]
         /\ old = [cpu |-> old.cpu, mc |-> old.mc, n |-> old.n, text |-> old.text]
BY DEF Entry

LEMMA FieldsMakeEntry ==
  ASSUME NEW c \in Cpu, NEW m \in [0 .. McMax - 1 -> Word], NEW n \in 0 .. McMax - 1,
         NEW t \in [Fields -> Text]
  PROVE  [cpu |-> c, mc |-> m, n |-> n, text |-> t] \in Entry
BY DEF Entry

LEMMA InitInv == Init => Inv
<1> SUFFICES ASSUME Init PROVE Inv
  OBVIOUS
<1>1. EntriesTyped
  <2>1. [i \in Slots |-> Zero] \in [Slots -> Entry]
    BY ZeroTyped
  <2>2. 0 \in Slots
    BY SizeAssumption DEF Slots
  <2> QED BY <2>1, <2>2 DEF Init, EntriesTyped
<1>2. InRing
  BY <1>1, SlotInRing DEF Init, InRing, EntriesTyped
<1> QED BY <1>1, <1>2 DEF Inv, Init

\* An action that changes the entry at index alone, in the middle of an instruction or
\* at its start, leaves the older instructions in their slots.
LEMMA OthersStay ==
  ASSUME Inv, NEW e, entries' = [entries EXCEPT ![index] = e],
         busy', index' = index, recent' = recent
  PROVE  InRing'
<1> SUFFICES ASSUME NEW k \in 1 .. Size, k > 1
             PROVE  View(entries'[Slot(k)]) = recent[k]
  BY DEF Inv, InRing, Slot
<1>1. Slot(k) \in Slots /\ Slot(k) # index
  BY SlotInRing DEF Inv, EntriesTyped
<1>2. entries'[Slot(k)] = entries[Slot(k)]
  BY <1>1 DEF Inv, EntriesTyped
<1> QED BY <1>2 DEF Inv, InRing

LEMMA StartInv ==
  ASSUME Inv, NEW c \in Cpu, Start(c)
  PROVE  Inv'
<1> DEFINE old == entries[index]
           e == [cpu |-> c, mc |-> old.mc, n |-> 0, text |-> NoText]
<1>1. index \in Slots /\ entries \in [Slots -> Entry] /\ old \in Entry
  BY DEF Inv, EntriesTyped
<1>2. e \in Entry
  <2>1. old.mc \in [0 .. McMax - 1 -> Word] /\ 0 \in 0 .. McMax - 1
    BY <1>1, EntryByFields, WordsAssumption
  <2> QED BY <2>1, ZeroTyped, FieldsMakeEntry
<1>3. entries' = [entries EXCEPT ![index] = e]
  <2> DEFINE o == [old EXCEPT !.cpu = c, !.n = 0, !.text = NoText]
  <2>1. entries' = [entries EXCEPT ![index] = o]
    BY <1>1 DEF Start, Entry
  <2>2. o = e
    <3> DEFINE a == [old EXCEPT !.cpu = c]
               b == [a EXCEPT !.n = 0]
    <3> HIDE DEF old
    <3>1. old = [cpu |-> old.cpu, mc |-> old.mc, n |-> old.n, text |-> old.text]
      BY <1>1, EntryByFields
    <3>2. a = [cpu |-> c, mc |-> old.mc, n |-> old.n, text |-> old.text]
      BY <3>1
    <3>3. b = [cpu |-> c, mc |-> old.mc, n |-> 0, text |-> old.text]
      <4> HIDE DEF a
      <4> QED BY <3>2
    <3>4. [b EXCEPT !.text = NoText] = e
      <4> HIDE DEF b
      <4> QED BY <3>3
    <3>5. o = [b EXCEPT !.text = NoText]
      BY Zenon
    <3> QED BY <3>4, <3>5, Zenon
  <2> QED BY <2>1, <2>2
<1>4. EntriesTyped'
  BY <1>1, <1>2, <1>3 DEF EntriesTyped, Start, Slots
<1>5. entries'[index'] = e
  BY <1>1, <1>3 DEF Start
<1>6. View(e) = [cpu |-> c, words |-> <<>>, text |-> NoText]
  <2>1. [i \in 1 .. 0 |-> e.mc[i - 1]] = <<>>
    OBVIOUS
  <2> QED BY <2>1 DEF View
<1>7. CurrentShown'
  <2>1. View(entries[index])' = View(e)
    BY <1>5 DEF View
  <2>2. current' = View(e)
    BY <1>6 DEF Start
  <2>3. entries'[index'].n <= MaxWords
    BY <1>5, WordsAssumption
  <2> QED BY <2>1, <2>2, <2>3 DEF CurrentShown
<1>8. InRing'
  BY <1>3, OthersStay DEF Start
<1> QED BY <1>4, <1>7, <1>8 DEF Inv

LEMMA McInv ==
  ASSUME Inv, NEW w \in Word, Mc(w)
  PROVE  Inv'
<1> DEFINE old == entries[index]
           n == old.n
           e == [cpu |-> old.cpu, mc |-> [old.mc EXCEPT ![n] = w], n |-> n + 1,
                 text |-> old.text]
<1>1. index \in Slots /\ entries \in [Slots -> Entry] /\ old \in Entry /\ busy
  BY DEF Inv, EntriesTyped, Mc
<1>2. current = View(old)
  BY <1>1 DEF Inv, CurrentShown
<1>3. n \in 0 .. McMax - 1 /\ old.mc \in [0 .. McMax - 1 -> Word]
  BY <1>1, EntryByFields
<1>4. Len(current.words) = n
  BY <1>2, <1>3, WordsAssumption DEF View
<1>5. n < MaxWords /\ n + 1 < McMax
  BY <1>3, <1>4, WordsAssumption DEF Mc
<1>6. e \in Entry
  <2>1. [old.mc EXCEPT ![n] = w] \in [0 .. McMax - 1 -> Word] /\ n + 1 \in 0 .. McMax - 1
    BY <1>3, <1>5, WordsAssumption
  <2> QED BY <1>1, <2>1, EntryByFields, FieldsMakeEntry
<1>7. entries' = [entries EXCEPT ![index] = e]
  <2>1. n + 1 < McMax /\ ~(n + 1 >= McMax)
    BY <1>3, <1>5, WordsAssumption
  <2> DEFINE o == [old EXCEPT !.mc = [old.mc EXCEPT ![n] = w], !.n = n + 1]
  <2>2. entries' = [entries EXCEPT ![index] = o]
    <3> DEFINE a == [entries EXCEPT ![index].mc[n] = w]
               z == IF n + 1 >= McMax THEN 0 ELSE n + 1
    <3>1. a = [entries EXCEPT ![index] = [old EXCEPT !.mc = [old.mc EXCEPT ![n] = w]]]
      BY Zenon
    <3>2. a \in [Slots -> Entry]
      BY <1>1, <1>3, <3>1 DEF Entry
    <3>3. a[index].n = n
      BY <1>1, <1>3, <3>1 DEF Entry
    <3>4. entries' = [a EXCEPT ![index].n = z]
      BY <3>3 DEF Mc
    <3> QED BY <1>1, <2>1, <3>1, <3>2, <3>4 DEF Entry
  <2>3. o = e
    <3> DEFINE m == [old.mc EXCEPT ![n] = w]
               a == [old EXCEPT !.mc = m]
    <3>1. old = [cpu |-> old.cpu, mc |-> old.mc, n |-> old.n, text |-> old.text]
      BY <1>1, EntryByFields
    <3>2. a = [cpu |-> old.cpu, mc |-> m, n |-> old.n, text |-> old.text]
      BY <3>1
    <3>3. [a EXCEPT !.n = n + 1] = e
      <4> HIDE DEF a, m
      <4> QED BY <3>2 DEF m
    <3>4. o = [a EXCEPT !.n = n + 1]
      BY Zenon
    <3> QED BY <3>3, <3>4, Zenon
  <2> QED BY <2>2, <2>3
<1>8. EntriesTyped'
  BY <1>1, <1>6, <1>7 DEF EntriesTyped, Mc, Slots
<1>9. entries'[index'] = e
  BY <1>1, <1>7 DEF Mc
<1>10. View(e) = [View(old) EXCEPT !.words = Append(View(old).words, w)]
  <2>1. [i \in 1 .. n + 1 |-> e.mc[i - 1]] = Append([i \in 1 .. n |-> old.mc[i - 1]], w)
    <3> DEFINE long == [i \in 1 .. n + 1 |-> e.mc[i - 1]]
               short == [i \in 1 .. n |-> old.mc[i - 1]]
               W == Word \cup {w}
    <3>1. n \in Nat /\ short \in Seq(W) /\ Len(short) = n
      <4>1. \A i \in 1 .. n : i - 1 \in 0 .. McMax - 1
        BY <1>3, WordsAssumption
      <4>2. short \in [1 .. n -> W]
        BY <1>3, <4>1
      <4> QED BY <1>3, <4>2, WordsAssumption
    <3>2. \A i \in 1 .. n + 1 : long[i] = IF i <= n THEN short[i] ELSE w
      <4>1. \A i \in 1 .. n + 1 : i - 1 \in 0 .. McMax - 1 /\ (i - 1 = n <=> ~(i <= n))
        BY <1>3, <1>5, WordsAssumption
      <4>2. \A j \in 0 .. McMax - 1 : e.mc[j] = IF j = n THEN w ELSE old.mc[j]
        BY <1>3
      <4>3. \A i \in 1 .. n + 1 : long[i] = e.mc[i - 1]
        OBVIOUS
      <4>4. \A i \in 1 .. n + 1 : i <= n => i \in 1 .. n /\ short[i] = old.mc[i - 1]
        BY <3>1
      <4> HIDE DEF long, short, e
      <4> QED BY <4>1, <4>2, <4>3, <4>4
    <3>3. long \in Seq(W) /\ Len(long) = n + 1
      <4>1. \A i \in 1 .. n : short[i] \in W
        BY <3>1, ElementOfSeq
      <4>2. \A i \in 1 .. n + 1 : long[i] \in W
        <5> HIDE DEF long, short, e
        <5> SUFFICES ASSUME NEW i \in 1 .. n + 1 PROVE long[i] \in W
          OBVIOUS
        <5>1. CASE i <= n
          BY <3>1, <3>2, <4>1, <5>1
        <5>2. CASE ~(i <= n)
          BY <3>2, <5>2
        <5> QED BY <5>1, <5>2
      <4>3. long \in [1 .. n + 1 -> W]
        BY <4>2
      <4> HIDE DEF long
      <4> QED BY <3>1, <4>3
    <3> HIDE DEF long, short, W
    <3>4. w \in W
      BY DEF W
    <3>5. /\ Append(short, w) \in Seq(W) /\ Len(Append(short, w)) = n + 1
          /\ \A i \in 1 .. n + 1 : Append(short, w)[i] = IF i <= n THEN short[i] ELSE w
      BY <3>1, <3>4, AppendProperties
    <3>6. long = Append(short, w)
      BY <3>2, <3>3, <3>5, SeqEqual
    <3> QED BY <3>6 DEF long, short
  <2>2. e.n = n + 1 /\ e.cpu = old.cpu /\ e.text = old.text
    OBVIOUS
  <2>3. View(e) = [cpu |-> old.cpu, words |-> Append(View(old).words, w), text |-> old.text]
    BY <2>1, <2>2 DEF View
  <2>4. [View(old) EXCEPT !.words = Append(View(old).words, w)]
          = [cpu |-> old.cpu, words |-> Append(View(old).words, w), text |-> old.text]
    <3> DEFINE v == View(old)
    <3>1. v = [cpu |-> old.cpu, words |-> v.words, text |-> old.text]
      BY DEF View
    <3> HIDE DEF v
    <3>2. [v EXCEPT !.words = Append(v.words, w)]
            = [cpu |-> old.cpu, words |-> Append(v.words, w), text |-> old.text]
      BY <3>1
    <3> QED BY <3>2 DEF v
  <2> QED BY <2>3, <2>4
<1>11. CurrentShown'
  <2>1. View(entries[index])' = View(e)
    BY <1>9 DEF View
  <2>2. current' = View(e)
    BY <1>2, <1>10 DEF Mc, View
  <2>3. entries'[index'].n <= MaxWords
    BY <1>3, <1>5, <1>9, WordsAssumption
  <2> QED BY <2>1, <2>2, <2>3 DEF CurrentShown
<1>12. InRing'
  BY <1>1, <1>7, OthersStay DEF Mc
<1> QED BY <1>8, <1>11, <1>12 DEF Inv

LEMMA DescribeInv ==
  ASSUME Inv, NEW f \in Fields, NEW t \in Text, Describe(f, t)
  PROVE  Inv'
<1> DEFINE old == entries[index]
           e == [cpu |-> old.cpu, mc |-> old.mc, n |-> old.n,
                 text |-> [old.text EXCEPT ![f] = t]]
<1>1. index \in Slots /\ entries \in [Slots -> Entry] /\ old \in Entry /\ busy
  BY DEF Inv, EntriesTyped, Describe
<1>2. e \in Entry
  BY <1>1, EntryByFields, FieldsMakeEntry
<1>3. entries' = [entries EXCEPT ![index] = e]
  <2> DEFINE o == [old EXCEPT !.text[f] = t]
  <2>1. entries' = [entries EXCEPT ![index] = o]
    BY <1>1, Zenon DEF Describe
  <2>2. o = [old EXCEPT !.text = [old.text EXCEPT ![f] = t]]
    BY Zenon
  <2>3. o = e
    <3>1. old = [cpu |-> old.cpu, mc |-> old.mc, n |-> old.n, text |-> old.text]
      BY <1>1, EntryByFields
    <3> QED BY <2>2, <3>1
  <2> QED BY <2>1, <2>3
<1>4. EntriesTyped'
  BY <1>1, <1>2, <1>3 DEF EntriesTyped, Describe, Slots
<1>5. entries'[index'] = e
  BY <1>1, <1>3 DEF Describe
<1>6. View(e) = [View(old) EXCEPT !.text[f] = t] /\ e.n = old.n
  <2>1. [View(old) EXCEPT !.text[f] = t]
          = [View(old) EXCEPT !.text = [View(old).text EXCEPT ![f] = t]]
    BY Zenon
  <2>2. View(e) = [View(old) EXCEPT !.text = [View(old).text EXCEPT ![f] = t]]
    <3> DEFINE x == [old.text EXCEPT ![f] = t]
    <3>1. [View(old) EXCEPT !.text = x]
            = [cpu |-> old.cpu, words |-> View(old).words, text |-> x]
      <4> DEFINE v == View(old)
      <4>1. v = [cpu |-> old.cpu, words |-> v.words, text |-> old.text]
        BY DEF View
      <4> HIDE DEF v, x
      <4>2. [v EXCEPT !.text = x] = [cpu |-> old.cpu, words |-> v.words, text |-> x]
        BY <4>1
      <4> QED BY <4>2 DEF v
    <3>2. View(old).text = old.text
      BY DEF View
    <3>3. View(e) = [cpu |-> old.cpu, words |-> View(old).words, text |-> x]
      BY DEF View
    <3> QED BY <3>1, <3>2, <3>3
  <2> QED BY <2>1, <2>2
<1>7. CurrentShown'
  <2>1. View(entries[index])' = View(e)
    BY <1>5 DEF View
  <2>2. current' = View(e)
    BY <1>1, <1>6 DEF Describe, Inv, CurrentShown
  <2>3. entries'[index'].n <= MaxWords
    BY <1>1, <1>5, <1>6 DEF Inv, CurrentShown
  <2> QED BY <2>1, <2>2, <2>3 DEF CurrentShown
<1>8. InRing'
  BY <1>1, <1>3, OthersStay DEF Describe
<1> QED BY <1>4, <1>7, <1>8 DEF Inv

\* The entry of the instruction becomes the newest, the oldest will be used next.
LEMMA EndInv ==
  ASSUME Inv, End
  PROVE  Inv'
<1> USE SizeAssumption
<1>1. index \in Slots /\ entries' = entries /\ ~busy' /\ busy
  BY DEF Inv, EntriesTyped, End
<1>2. index' = (IF index + 1 >= Size THEN 0 ELSE index + 1)
  BY DEF End
<1>3. EntriesTyped'
  <2>1. index' \in Slots
    BY <1>1, <1>2 DEF Slots
  <2>2. entries' \in [Slots -> Entry] /\ busy' \in BOOLEAN
    BY <1>1 DEF Inv, EntriesTyped, End
  <2> QED BY <2>1, <2>2 DEF EntriesTyped, Slots, Entry
<1>4. \A k \in 1 .. Size : k < Size => Slot(k)' = Slot(k + 1)
  BY <1>1, <1>2 DEF Slot, Slots
<1>5. Slot(Size)' = index
  BY <1>1, <1>2 DEF Slot, Slots
<1>6. recent' = [k \in 1 .. Size |-> IF k < Size THEN recent[k + 1] ELSE current]
  BY DEF End
<1>7. \A k \in 1 .. Size : View(entries'[Slot(k)']) = recent'[k]
  <2> TAKE k \in 1 .. Size
  <2>1. CASE k < Size
    <3>1. k + 1 \in 1 .. Size /\ k + 1 > 1
      BY <2>1
    <3>2. View(entries[Slot(k + 1)]) = recent[k + 1]
      BY <3>1 DEF Inv, InRing
    <3> QED BY <1>1, <1>4, <1>6, <2>1, <3>2
  <2>2. CASE k = Size
    BY <1>1, <1>5, <1>6, <2>2 DEF Inv, CurrentShown
  <2> QED BY <2>1, <2>2
<1>8. InRing'
  BY <1>6, <1>7 DEF InRing, Slot
<1> QED BY <1>1, <1>3, <1>8 DEF Inv

LEMMA NextInv == Inv /\ [Next]_vars => Inv'
<1> SUFFICES ASSUME Inv, [Next]_vars PROVE Inv'
  OBVIOUS
<1>1. ASSUME NEW c \in Cpu, Start(c) PROVE Inv'
  BY <1>1, StartInv
<1>2. ASSUME NEW w \in Word, Mc(w) PROVE Inv'
  BY <1>2, McInv
<1>3. ASSUME NEW f \in Fields, NEW t \in Text, Describe(f, t) PROVE Inv'
  BY <1>3, DescribeInv
<1>4. CASE End
  BY <1>4, EndInv
<1>5. CASE UNCHANGED vars
  BY <1>5 DEF vars, Inv, EntriesTyped, CurrentShown, InRing, Slot
<1> QED BY <1>1, <1>2, <1>3, <1>4, <1>5 DEF Next

------------------------------------------------------------------------------
(* The theorems. *)

LEMMA InvShowsRecent == Inv => RingIsRecent /\ DumpIsRecent
<1> SUFFICES ASSUME Inv, ~busy PROVE Walk = recent
  BY DEF RingIsRecent, DumpIsRecent, Dump
<1>1. \A k \in 1 .. Size : View(entries[Slot(k)]) = recent[k]
  BY DEF Inv, InRing
<1> QED BY <1>1, WalkIsSlots DEF Inv, InRing

\* Between instructions the ring, in the order of m68k_trace_dump(), holds the last Size
\* instructions, whatever they were and however short those before them.
THEOREM RingIsRecentAlways == Spec => []RingIsRecent
BY InitInv, NextInv, InvShowsRecent, PTL DEF Spec

\* The command t shows the last instructions, oldest first, and nothing else.
THEOREM DumpIsRecentAlways == Spec => []DumpIsRecent
BY InitInv, NextInv, InvShowsRecent, PTL DEF Spec

------------------------------------------------------------------------------
(***************************************************************************)
(* Sizes.                                                                  *)
(***************************************************************************)

\* A quotient and a remainder are what makes them up.
LEMMA Divided ==
  ASSUME NEW b \in Nat, 0 < b, NEW q \in Int, NEW r \in Int, 0 <= r, r < b
  PROVE  (q * b + r) \div b = q /\ (q * b + r) % b = r
<1>1. (q * b + r) \div b = q
  BY SMTT(30)
<1>2. (q * b + r) % b = r
  BY SMTT(30)
<1> QED BY <1>1, <1>2

LEMMA Division ==
  ASSUME NEW b \in Nat, 0 < b, NEW x \in Int
  PROVE  /\ x \div b \in Int /\ x % b \in Int /\ 0 <= x % b /\ x % b < b
         /\ x = (x \div b) * b + (x % b)
  BY SMTT(30)

LEMMA Smaller ==
  ASSUME NEW b \in Nat, 0 < b, NEW k \in Int, NEW n \in Int, k * b < n * b
  PROVE  k < n /\ (k + 1) * b <= n * b /\ (k + 1) * b = k * b + b
<1>1. k < n
  BY SMTT(30)
<1>2. (k + 1) * b <= n * b
  BY <1>1, SMTT(30)
<1> QED BY <1>1, <1>2

LEMMA Multiple ==
  ASSUME NEW b \in Nat, 0 < b, NEW x \in Nat, x % b = 0
  PROVE  \E n \in Nat : x = n * b
<1>1. x \div b \in Int /\ x = (x \div b) * b
  BY Division
<1>2. ~(x \div b < 0)
  <2> DEFINE q == x \div b
  <2> HIDE DEF q
  <2>1. q \in Int /\ x = q * b
    BY <1>1 DEF q
  <2>2. SUFFICES ASSUME q < 0 PROVE FALSE
    BY DEF q
  <2>3. q * b < 0
    BY <2>1, <2>2, SMTT(30)
  <2> QED BY <2>1, <2>3
<1> QED BY <1>1, <1>2

LEMMA WholeRows ==
  ASSUME Sizes
  PROVE  /\ \E n \in Nat : MemSize = 2 * n
         /\ \E n \in Nat : MemSize = n * Row
         /\ \E n \in Nat : Wide = n * Row
<1>1. \E n \in Nat : MemSize = n * 2
  BY Multiple DEF Sizes
<1>2. \E n \in Nat : MemSize = n * Row
  BY Multiple DEF Sizes
<1>3. \E n \in Nat : Wide = n * Row
  BY Multiple DEF Sizes
<1> QED BY <1>1, <1>2, <1>3

\* The memory holds some bytes, and whole rows.
LEMMA MemoryIsRows ==
  ASSUME Sizes, NEW a \in Nat
  PROVE  /\ a % MemSize \in Ram
         /\ a < MemSize => a % MemSize = a
         /\ RowOf(a) \in Nat /\ RowOf(a) <= a % MemSize /\ a % MemSize < RowOf(a) + Row
         /\ RowOf(a) + Row <= MemSize
         /\ \E k \in Nat : RowOf(a) = k * Row
<1> DEFINE r == a % MemSize
           q == r \div Row
<1>1. MemSize \in Nat /\ 0 < MemSize /\ Row \in Nat /\ 0 < Row
  BY DEF Sizes
<1>2. r \in Nat /\ r < MemSize /\ (a < MemSize => r = a)
  BY <1>1
<1>3. PICK n \in Nat : MemSize = n * Row
  BY WholeRows
<1> HIDE DEF r
<1>4. q \in Int /\ r % Row \in Int /\ 0 <= r % Row /\ r % Row < Row /\ r = q * Row + (r % Row)
  BY <1>1, <1>2, Division
<1>5. q * Row \in Int /\ q * Row <= r /\ r < q * Row + Row
  BY <1>1, <1>4
<1>6. q \in Nat
  <2>1. r < (q + 1) * Row
    BY <1>1, <1>4, <1>5
  <2>2. 0 * Row < (q + 1) * Row
    BY <1>1, <1>2, <1>4, <2>1
  <2>3. 0 < q + 1
    BY <1>1, <1>4, <2>2, Smaller
  <2> QED BY <1>4, <2>3
<1>7. q * Row + Row <= MemSize
  BY <1>1, <1>2, <1>3, <1>4, <1>5, Smaller
<1>8. RowOf(a) = q * Row
  BY DEF RowOf, r
<1> HIDE DEF q
<1> QED BY <1>1, <1>2, <1>5, <1>6, <1>7, <1>8 DEF r, Ram

\* A row's own address is that of its first byte, in the memory; behind it there are
\* no cells.
LEMMA CellsOfRow ==
  ASSUME Sizes, NEW k \in Nat, NEW end \in Nat
  PROVE  /\ k * Row < MemSize =>
              Cells(k * Row, end) = {a \in Ram : k * Row <= a /\ a < k * Row + Row /\ a <= end}
         /\ MemSize <= k * Row => Cells(k * Row, end) = {}
<1> DEFINE at == k * Row
<1>1. MemSize \in Nat /\ 0 < MemSize /\ Row \in Nat /\ 0 < Row /\ at \in Nat
  BY DEF Sizes
<1>2. /\ RowOf(at) \in Nat /\ RowOf(at) <= at % MemSize
      /\ RowOf(at) + Row <= MemSize
  BY <1>1, MemoryIsRows
<1>3. ASSUME at < MemSize
      PROVE  RowOf(at) = at
  <2>1. at % MemSize = at
    BY <1>1, <1>3
  <2>2. at \div Row = k
    <3>1. (k * Row + 0) \div Row = k
      BY <1>1, Divided
    <3> QED BY <1>1, <3>1
  <2> QED BY <2>1, <2>2 DEF RowOf
<1>4. CASE at < MemSize
  <2>1. RowOf(at) = at
    BY <1>3, <1>4
  <2> HIDE DEF at
  <2>2. Cells(at, end) = {a \in Ram : at <= a /\ a < at + Row /\ a <= end}
    BY <1>1, <1>2, <2>1 DEF Cells, Ram
  <2> QED BY <1>1, <1>4, <2>2 DEF at
<1>5. CASE MemSize <= at
  <2> HIDE DEF at
  <2>1. Cells(at, end) = {}
    BY <1>1, <1>2, <1>5 DEF Cells
  <2> QED BY <1>1, <1>5, <2>1 DEF at
<1> QED BY <1>1, <1>4, <1>5

\* The first row, cut to its beginning.
LEMMA CellsOfFirst ==
  ASSUME Sizes, NEW start \in Nat, start < MemSize, NEW end \in Nat
  PROVE  Cells(start, end)
           = {a \in Ram : start <= a /\ a <= end /\ a < RowOf(start) + Row}
<1>1. MemSize \in Nat /\ Row \in Nat /\ 0 < Row
  BY DEF Sizes
<1>2. /\ RowOf(start) \in Nat /\ RowOf(start) <= start /\ start < RowOf(start) + Row
      /\ RowOf(start) + Row <= MemSize
  BY MemoryIsRows
<1> QED BY <1>1, <1>2 DEF Cells, Ram

(***************************************************************************)
(* The dump.                                                               *)
(***************************************************************************)

Numeral == 0 .. Wide - 1

Endless == dump.end >= Wide - Row

\* While a dump goes on, out has what is before the next row.
DumpInv ==
  /\ dump \in [start : Numeral, at : Numeral, end : Numeral]
  /\ phase \in {"load", "prompt", "dump"}
  /\ phase = "load" => dump.start = 1 /\ dump.end = 0 /\ out = {} /\ ~twice
  /\ phase = "prompt" /\ dump.start < MemSize =>
       out = {a \in Ram : dump.start <= a /\ a <= dump.end} /\ ~twice
  /\ phase = "dump" /\ dump.start < MemSize =>
       /\ \E k \in Nat : dump.at = k * Row
       /\ ~Endless =>
            /\ dump.start < dump.at
            /\ out = {a \in Ram : dump.start <= a /\ a <= dump.end /\ a < dump.at}
            /\ ~twice

LEMMA SizesAreNumbers ==
  ASSUME Sizes
  PROVE  /\ MemSize \in Nat /\ 2 <= MemSize /\ Row \in Nat /\ 0 < Row /\ Row <= MemSize
         /\ Wide \in Nat /\ MemSize < Wide /\ Span \in Nat
<1>1. PICK n \in Nat : MemSize = n * Row
  BY WholeRows
<1>2. MemSize \in Nat /\ 2 <= MemSize /\ Row \in Nat /\ 0 < Row
  BY DEF Sizes
<1>3. Row <= MemSize
  <2>1. 0 * Row < n * Row
    BY <1>1, <1>2
  <2>2. (0 + 1) * Row <= n * Row
    BY <1>2, <2>1, Smaller
  <2> QED BY <1>1, <1>2, <2>2
<1> QED BY <1>2, <1>3 DEF Sizes

LEMMA DumpStarts ==
  ASSUME Sizes, NEW start \in Numeral, NEW end \in Numeral, StartDump(start, end)
  PROVE  DumpInv'
<1> DEFINE at == RowOf(start) + Row
<1>1. start \in Nat /\ end \in Nat /\ start < Wide /\ end < Wide
  BY SizesAreNumbers DEF Numeral
<1>2. at \in Nat /\ at <= MemSize /\ (start < MemSize => start < at)
  <2>1. /\ RowOf(start) \in Nat /\ RowOf(start) + Row <= MemSize
        /\ start % MemSize < RowOf(start) + Row
        /\ start < MemSize => start % MemSize = start
    BY <1>1, MemoryIsRows
  <2> QED BY <2>1, SizesAreNumbers
<1>3. at % Wide = at /\ at \in Numeral
  BY <1>2, SizesAreNumbers DEF Numeral
<1>4. dump' = [start |-> start, at |-> at, end |-> end] /\ phase' = "dump"
  BY <1>3 DEF StartDump
<1>5. out' = Cells(start, end) /\ twice' = FALSE
  BY DEF StartDump, Show
<1>6. \E k \in Nat : at = k * Row
  <2>1. PICK k \in Nat : RowOf(start) = k * Row
    BY <1>1, MemoryIsRows
  <2>2. at = (k + 1) * Row
    BY <2>1, SizesAreNumbers
  <2> QED BY <2>2
<1>7. start < MemSize => out' = {a \in Ram : start <= a /\ a <= end /\ a < at}
  BY <1>1, <1>5, CellsOfFirst
<1> HIDE DEF at
<1> QED BY <1>2, <1>3, <1>4, <1>5, <1>6, <1>7 DEF DumpInv, Endless

LEMMA EndIsNumeral ==
  ASSUME Sizes, NEW start \in Numeral
  PROVE  EndFor(start) \in Numeral
<1>1. Signed(start) \in Int
  BY SizesAreNumbers DEF Signed, Numeral
<1>2. (Signed(start) + Span) % Wide \in Numeral
  BY <1>1, SizesAreNumbers DEF Numeral
<1>3. MemSize - 1 \in Numeral
  BY SizesAreNumbers DEF Numeral
<1> QED BY <1>2, <1>3 DEF EndFor

LEMMA DumpGoesOn ==
  ASSUME Sizes, DumpInv, DumpRow
  PROVE  DumpInv'
<1> DEFINE at == dump.at
           next == (at + Row) % Wide
<1>1. /\ dump.start \in Nat /\ at \in Nat /\ dump.end \in Nat
      /\ at < Wide /\ dump.end < Wide /\ at <= dump.end
  BY SizesAreNumbers DEF DumpInv, DumpRow, Numeral
<1>2. dump' = [dump EXCEPT !.at = next] /\ phase = "dump" /\ phase' = "dump"
  BY DEF DumpRow
<1>3. next \in Numeral
  BY <1>1, SizesAreNumbers DEF Numeral
<1> HIDE DEF next
<1>4. /\ dump' \in [start : Numeral, at : Numeral, end : Numeral]
      /\ dump'.start = dump.start /\ dump'.end = dump.end /\ dump'.at = next
  BY <1>2, <1>3 DEF DumpInv
<1>5. ASSUME dump.start < MemSize
      PROVE  /\ \E k \in Nat : next = k * Row
             /\ dump.end < Wide - Row =>
                  /\ dump.start < next
                  /\ out' = {a \in Ram : dump.start <= a /\ a <= dump.end /\ a < next}
                  /\ ~twice'
  <2>1. PICK k \in Nat : at = k * Row
    BY <1>2, <1>5 DEF DumpInv
  <2>2. PICK w \in Nat : Wide = w * Row
    BY WholeRows
  <2>3. (k + 1) * Row = at + Row /\ at + Row <= Wide
    BY <1>1, <2>1, <2>2, Smaller, SizesAreNumbers
  <2>4. \E j \in Nat : next = j * Row
    <3>1. CASE at + Row < Wide
      <4>1. next = (k + 1) * Row
        BY <1>1, <2>3, <3>1, SizesAreNumbers DEF next
      <4> QED BY <4>1
    <3>2. CASE at + Row = Wide
      <4>1. next = 0 * Row
        BY <1>1, <3>2, SizesAreNumbers DEF next
      <4> QED BY <4>1
    <3> QED BY <1>1, <2>3, <3>1, <3>2, SizesAreNumbers
  <2>5. ASSUME dump.end < Wide - Row
        PROVE  /\ dump.start < next
               /\ out' = {a \in Ram : dump.start <= a /\ a <= dump.end /\ a < next}
               /\ ~twice'
    <3>1. next = at + Row
      BY <1>1, <2>5, SizesAreNumbers DEF next
    <3>2. /\ dump.start < at
          /\ out = {a \in Ram : dump.start <= a /\ a <= dump.end /\ a < at}
          /\ ~twice
      BY <1>1, <1>2, <1>5, <2>5, SizesAreNumbers DEF DumpInv, Endless
    <3>3. /\ out' = out \cup Cells(at, dump.end)
          /\ twice' = (out \cap Cells(at, dump.end) # {} \/ (twice /\ out # {}))
      BY DEF DumpRow, Show
    <3>4. dump.start < next
      BY <1>1, <3>1, <3>2, SizesAreNumbers
    <3>5. CASE at < MemSize
      <4>1. Cells(at, dump.end) = {a \in Ram : at <= a /\ a < at + Row /\ a <= dump.end}
        BY <1>1, <2>1, <3>5, CellsOfRow
      <4>2. out \cap Cells(at, dump.end) = {}
        BY <1>1, <3>2, <4>1, SizesAreNumbers DEF Ram
      <4>3. out' = {a \in Ram : dump.start <= a /\ a <= dump.end /\ a < next}
        BY <1>1, <3>1, <3>2, <3>3, <4>1, SizesAreNumbers DEF Ram
      <4> QED BY <3>2, <3>3, <3>4, <4>2, <4>3
    <3>6. CASE MemSize <= at
      <4>1. Cells(at, dump.end) = {}
        BY <1>1, <2>1, <3>6, CellsOfRow
      <4>2. out' = {a \in Ram : dump.start <= a /\ a <= dump.end /\ a < next}
        BY <1>1, <3>1, <3>2, <3>3, <3>6, <4>1, SizesAreNumbers DEF Ram
      <4> QED BY <3>2, <3>3, <3>4, <4>1, <4>2
    <3> QED BY <1>1, <3>5, <3>6, SizesAreNumbers
  <2> QED BY <2>4, <2>5
<1>6. (phase = "dump" /\ dump.start < MemSize)' =>
        /\ \E k \in Nat : dump'.at = k * Row
        /\ (~Endless)' =>
             /\ dump'.start < dump'.at
             /\ out' = {a \in Ram : dump'.start <= a /\ a <= dump'.end /\ a < dump'.at}
             /\ ~twice'
  <2>1. (~Endless)' => dump.end < Wide - Row
    BY <1>1, <1>4, SizesAreNumbers DEF Endless
  <2> QED BY <1>4, <1>5, <2>1
<1> QED BY <1>2, <1>4, <1>6 DEF DumpInv

LEMMA DumpEnded ==
  ASSUME Sizes, DumpInv, Dumped
  PROVE  DumpInv'
<1>1. /\ phase = "dump" /\ phase' = "prompt" /\ dump' = dump /\ out' = out /\ twice' = twice
      /\ dump.at > dump.end
  BY DEF Dumped
<1>2. /\ dump \in [start : Numeral, at : Numeral, end : Numeral]
      /\ dump.start \in Nat /\ dump.at \in Nat /\ dump.end \in Nat /\ dump.at < Wide
  BY SizesAreNumbers DEF DumpInv, Numeral
<1>3. ASSUME dump.start < MemSize
      PROVE  out = {a \in Ram : dump.start <= a /\ a <= dump.end} /\ ~twice
  <2>1. PICK k \in Nat : dump.at = k * Row
    BY <1>1, <1>3 DEF DumpInv
  <2>2. PICK w \in Nat : Wide = w * Row
    BY WholeRows
  <2>3. dump.at + Row <= Wide
    BY <1>2, <2>1, <2>2, Smaller, SizesAreNumbers
  <2>4. ~Endless
    BY <1>1, <1>2, <2>3, SizesAreNumbers DEF Endless
  <2>5. out = {a \in Ram : dump.start <= a /\ a <= dump.end /\ a < dump.at} /\ ~twice
    BY <1>1, <1>3, <2>4 DEF DumpInv
  <2> QED BY <1>1, <1>2, <2>5, SizesAreNumbers DEF Ram
<1> QED BY <1>1, <1>2, <1>3 DEF DumpInv

LEMMA NextDumpInv ==
  ASSUME Sizes, Inputs
  PROVE  DumpInv /\ [MemNext]_memVars => DumpInv'
<1> SUFFICES ASSUME DumpInv, [MemNext]_memVars
             PROVE  DumpInv'
  OBVIOUS
<1>1. ASSUME NEW beyond \in Pair, LoadLine(beyond)
      PROVE  DumpInv'
  BY <1>1 DEF LoadLine, DumpInv, Endless
<1>2. CASE Loaded
  <2>1. /\ phase = "load" /\ phase' = "prompt" /\ dump' = dump /\ out' = out /\ twice' = twice
    BY <1>2 DEF Loaded
  <2>2. {a \in Ram : 1 <= a /\ a <= 0} = {}
    BY SizesAreNumbers DEF Ram
  <2> QED BY <2>1, <2>2 DEF DumpInv
<1>3. CASE Command
  <2>1. ASSUME NEW start \in Numbers, NEW end \in Numbers, StartDump(start, end)
        PROVE  DumpInv'
    BY <2>1, DumpStarts DEF Inputs, Numeral
  <2>2. ASSUME NEW start \in Numbers, StartDump(start, EndFor(start))
        PROVE  DumpInv'
    <3>1. start \in Numeral /\ EndFor(start) \in Numeral
      BY EndIsNumeral DEF Inputs, Numeral
    <3> QED BY <2>2, <3>1, DumpStarts
  <2> QED BY <1>3, <2>1, <2>2 DEF Command
<1>4. CASE DumpRow
  BY <1>4, DumpGoesOn
<1>5. CASE Dumped
  BY <1>5, DumpEnded
<1>6. CASE UNCHANGED memVars
  BY <1>6 DEF memVars, DumpInv, Endless
<1> QED BY <1>1, <1>2, <1>3, <1>4, <1>5, <1>6 DEF MemNext

LEMMA InitDumpInv ==
  ASSUME Sizes
  PROVE  MemInit => DumpInv
<1>1. 0 \in Numeral /\ 1 \in Numeral
  BY SizesAreNumbers DEF Numeral
<1> QED BY <1>1 DEF MemInit, DumpInv

\* For a memory of any size, every first and last argument and the end that d takes
\* with one argument: a dump shows each address of the memory between them, once,
\* and nothing else (mem_dump(), mem_dump_16()).
THEOREM DumpShowsRangeAlways == MemSpec => []DumpShowsRange
<1> USE MemoryAssumption
<1>1. DumpInv => DumpShowsRange
  BY DEF DumpInv, DumpShowsRange
<1>2. MemInit => DumpInv
  BY InitDumpInv
<1>3. DumpInv /\ [MemNext]_memVars => DumpInv'
  BY NextDumpInv
<1> QED BY <1>1, <1>2, <1>3, PTL DEF MemSpec

(***************************************************************************)
(* S-records.                                                              *)
(***************************************************************************)

LEMMA PairsAreBytes ==
  ASSUME Sizes
  PROVE  \A p \in Pair : p # Bad <=> p \in Byte
BY DEF Sizes, Pair, Byte

\* The number in two or three pairs, up to the first that is none.
LEMMA NumberIs ==
  ASSUME Sizes, NEW read \in [1 .. Base + 1 -> Pair], NEW pairs \in {2, 3}, read[2] # Bad
  PROVE  /\ Number(read, pairs) \in Nat
         /\ pairs = 2 /\ read[3] # Bad => Number(read, pairs) = read[2] * Base + read[3]
         /\ pairs = 3 /\ read[3] # Bad /\ read[4] # Bad =>
              Number(read, pairs) = (read[2] * Base + read[3]) * Base + read[4]
<1> DEFINE value[p \in 1 .. pairs + 1] ==
             IF p = 1 \/ read[p] = Bad THEN 0 ELSE value[p - 1] * Base + read[p]
           v3 == IF read[3] = Bad THEN 0 ELSE read[2] * Base + read[3]
           v4 == IF read[4] = Bad THEN 0 ELSE v3 * Base + read[4]
           readable == {p \in 2 .. pairs + 1 : \A q \in 2 .. p : read[q] # Bad}
           number == CHOOSE p \in readable : p + 1 \notin readable
<1>1. Base \in Nat /\ 4 <= Base
  BY DEF Sizes
<1>2. /\ read[2] \in Nat
      /\ read[3] # Bad => read[3] \in Nat
      /\ read[4] # Bad => read[4] \in Nat
  <2>1. read[2] \in Pair /\ read[3] \in Pair /\ read[4] \in Pair
    BY <1>1
  <2>2. Byte \subseteq Nat
    BY <1>1 DEF Byte
  <2> QED BY <2>1, <2>2, PairsAreBytes
<1>3. v3 \in Nat /\ v4 \in Nat
  <2>1. v3 \in Nat
    BY <1>1, <1>2
  <2> HIDE DEF v3
  <2> QED BY <1>1, <1>2, <2>1
<1>4. \E w : w = [p \in 1 .. pairs + 1 |->
                    IF p = 1 \/ read[p] = Bad THEN 0 ELSE w[p - 1] * Base + read[p]]
  <2> DEFINE w == [p \in 1 .. pairs + 1 |->
                     IF p = 1 THEN 0 ELSE IF p = 2 THEN read[2] ELSE IF p = 3 THEN v3 ELSE v4]
             again == [p \in 1 .. pairs + 1 |->
                         IF p = 1 \/ read[p] = Bad THEN 0 ELSE w[p - 1] * Base + read[p]]
  <2>1. \A p \in 1 .. pairs + 1 : p = 1 \/ p = 2 \/ p = 3 \/ (p = 4 /\ pairs = 3)
    OBVIOUS
  <2>2. w[1] = 0 /\ w[2] = read[2] /\ w[3] = v3 /\ (pairs = 3 => w[4] = v4)
    OBVIOUS
  <2>3. ASSUME NEW p \in 1 .. pairs + 1
        PROVE  again[p] = w[p]
    <3>1. CASE p = 1
      BY <2>2, <3>1
    <3>2. CASE p = 2
      BY <1>1, <1>2, <2>2, <3>2
    <3>3. CASE p = 3
      BY <2>2, <3>3
    <3>4. CASE p = 4 /\ pairs = 3
      BY <2>2, <3>4
    <3> QED BY <2>1, <3>1, <3>2, <3>3, <3>4
  <2>4. again = w
    BY <2>3
  <2> HIDE DEF w
  <2> QED BY <2>4
<1>5. value = [p \in 1 .. pairs + 1 |->
                 IF p = 1 \/ read[p] = Bad THEN 0 ELSE value[p - 1] * Base + read[p]]
  BY <1>4
<1> HIDE DEF value
<1>6. value[2] = read[2] /\ value[3] = v3 /\ (pairs = 3 => value[4] = v4)
  <2>1. value[1] = 0
    BY <1>5
  <2>2. value[2] = value[1] * Base + read[2]
    BY <1>5
  <2>3. value[2] = read[2]
    BY <1>1, <1>2, <2>1, <2>2
  <2>4. value[3] = IF read[3] = Bad THEN 0 ELSE value[2] * Base + read[3]
    BY <1>5
  <2>5. pairs = 3 => value[4] = IF read[4] = Bad THEN 0 ELSE value[3] * Base + read[4]
    BY <1>5
  <2> QED BY <2>3, <2>4, <2>5
<1>7. /\ 2 \in readable
      /\ 3 \in readable <=> read[3] # Bad
      /\ 4 \in readable <=> pairs = 3 /\ read[3] # Bad /\ read[4] # Bad
      /\ 5 \notin readable /\ readable \subseteq {2, 3, 4}
  OBVIOUS
<1>8. number \in readable /\ number + 1 \notin readable
  <2>1. \E p \in readable : p + 1 \notin readable
    <3> HIDE DEF readable
    <3> QED BY <1>7
  <2> HIDE DEF readable
  <2> QED BY <2>1
<1>9. Number(read, pairs) = value[number]
  BY DEF Number, value
<1> HIDE DEF readable, number
<1>10. number \in {2, 3, 4} /\ (number = 4 => pairs = 3)
  BY <1>7, <1>8
<1>11. value[number] \in Nat
  <2> HIDE DEF v3, v4
  <2> QED BY <1>2, <1>3, <1>6, <1>10
<1>12. pairs = 2 /\ read[3] # Bad => number = 3
  BY <1>7, <1>8, <1>10
<1>13. pairs = 3 /\ read[3] # Bad /\ read[4] # Bad => number = 4
  BY <1>7, <1>8, <1>10
<1> QED BY <1>6, <1>9, <1>11, <1>12, <1>13

LEMMA Apart ==
  ASSUME Sizes, NEW x \in Int, NEW y \in Int, x % MemSize = y % MemSize,
         x - y < MemSize, y - x < MemSize
  PROVE  x = y
<1> DEFINE a == x \div MemSize
           b == y \div MemSize
           r == x % MemSize
<1>1. MemSize \in Nat /\ 0 < MemSize
  BY SizesAreNumbers
<1>2. a \in Int /\ b \in Int /\ r \in Int /\ x = a * MemSize + r /\ y = b * MemSize + r
  BY <1>1, Division
<1> HIDE DEF a, b, r
<1>3. a * MemSize \in Int /\ b * MemSize \in Int
  BY <1>1, <1>2
<1>4. ~(x < y)
  <2>1. SUFFICES ASSUME x < y PROVE FALSE
    OBVIOUS
  <2>2. (a + 1) * MemSize <= b * MemSize /\ (a + 1) * MemSize = a * MemSize + MemSize
    BY <1>1, <1>2, <1>3, <2>1, Smaller
  <2> QED BY <1>1, <1>2, <1>3, <2>2
<1>5. ~(y < x)
  <2>1. SUFFICES ASSUME y < x PROVE FALSE
    OBVIOUS
  <2>2. (b + 1) * MemSize <= a * MemSize /\ (b + 1) * MemSize = b * MemSize + MemSize
    BY <1>1, <1>2, <1>3, <2>1, Smaller
  <2> QED BY <1>1, <1>2, <1>3, <2>2
<1> QED BY <1>4, <1>5

\* What the scans of a line find, with beyond behind the buffer: LoadLine by parts.
Readings(l, beyond) ==
  [p \in 1 .. Base + 1 |-> IF p <= Room THEN Fgets(l.pairs)[p] ELSE beyond]
AddressRead(l, beyond) == Number(Readings(l, beyond), AddressPairs(l.type))
Skipped(l, beyond) ==
  l.type \notin {"1", "2"} \/ Readings(l, beyond)[1] = Bad \/ Readings(l, beyond)[2] = Bad
Puts(l, beyond, a) ==
  {p \in DataPairs(l.type, Readings(l, beyond)[1]) :
     /\ Readings(l, beyond)[p] # Bad
     /\ (AddressRead(l, beyond) + p - (AddressPairs(l.type) + 2)) % MemSize = a}
Last(s) == CHOOSE p \in s : \A q \in s : q <= p

LEMMA LoadLineByParts ==
  ASSUME NEW beyond \in Pair, LoadLine(beyond)
  PROVE  LET l == Head(file)
         IN  /\ phase = "load" /\ file # <<>>
             /\ file' = Pieces(l) \o Tail(file) /\ line' = Fgets(l.pairs)
             /\ ram' = IF Skipped(l, beyond) THEN ram
                       ELSE [a \in Ram |-> IF Puts(l, beyond, a) = {} THEN ram[a]
                                           ELSE Readings(l, beyond)[Last(Puts(l, beyond, a))]]
             /\ loaded' = loaded /\ phase' = phase
BY DEF LoadLine, Skipped, Puts, AddressRead, Readings, Last

LEMMA ReadingsArePairs ==
  ASSUME Sizes, line \in [1 .. Room -> Pair], NEW beyond \in Pair, NEW l \in Lines
  PROVE  /\ Fgets(l.pairs) \in [1 .. Room -> Pair]
         /\ Readings(l, beyond) \in [1 .. Base + 1 -> Pair]
         /\ \A p \in 1 .. Len(l.pairs) :
              p <= Room /\ p <= Base + 1 => Readings(l, beyond)[p] = l.pairs[p]
<1>1. l.pairs \in Seq(Pair) /\ Bad \in Pair /\ Room \in Nat /\ Base \in Nat
  BY DEF Lines, Pair, Sizes
<1>2. Len(l.pairs) \in Nat /\ \A p \in 1 .. Len(l.pairs) : l.pairs[p] \in Pair
  BY <1>1
<1>3. Fgets(l.pairs) \in [1 .. Room -> Pair]
  BY <1>1, <1>2 DEF Fgets
<1>4. Readings(l, beyond) \in [1 .. Base + 1 -> Pair]
  BY <1>1, <1>3 DEF Readings
<1>5. ASSUME NEW p \in 1 .. Len(l.pairs), p <= Room, p <= Base + 1
      PROVE  Readings(l, beyond)[p] = l.pairs[p]
  BY <1>1, <1>2, <1>5 DEF Readings, Fgets
<1> QED BY <1>3, <1>4, <1>5

\* The data of a record have addresses of their own, even around the memory's end.
LEMMA PutsIsOne ==
  ASSUME Sizes, line \in [1 .. Room -> Pair], NEW beyond \in Pair, NEW l \in Lines,
         ~Skipped(l, beyond), NEW a \in Ram, Puts(l, beyond, a) # {}
  PROVE  /\ Last(Puts(l, beyond, a)) \in Puts(l, beyond, a)
         /\ Readings(l, beyond)[Last(Puts(l, beyond, a))] \in Byte
<1> DEFINE r == Readings(l, beyond)
           puts == Puts(l, beyond, a)
           n == AddressPairs(l.type)
           at == AddressRead(l, beyond)
<1>1. Base \in Nat /\ 4 <= Base /\ Base <= MemSize /\ MemSize \in Nat
  BY DEF Sizes, SizesAreNumbers
<1>2. r \in [1 .. Base + 1 -> Pair]
  BY ReadingsArePairs
<1>3. r[1] # Bad /\ r[2] # Bad /\ n \in {2, 3}
  BY DEF Skipped, AddressPairs
<1>4. r[1] \in Nat /\ r[1] < Base
  <2>1. r[1] \in Pair
    BY <1>1, <1>2
  <2>2. r[1] \in Byte
    BY <1>3, <2>1, PairsAreBytes
  <2> QED BY <1>1, <2>2 DEF Byte
<1>5. at \in Nat
  BY <1>2, <1>3, NumberIs DEF AddressRead
<1> HIDE DEF r, at, n
<1>6. puts = {p \in n + 2 .. r[1] : r[p] # Bad /\ (at + p - (n + 2)) % MemSize = a}
  BY DEF Puts, DataPairs, r, at, n
<1>7. \A p \in puts : p \in Nat /\ 4 <= p /\ p < Base /\ r[p] \in Byte
  <2>1. ASSUME NEW p \in puts
        PROVE  p \in Nat /\ 4 <= p /\ p < Base /\ r[p] # Bad
    BY <1>1, <1>3, <1>4, <1>6, <2>1
  <2>2. ASSUME NEW p \in puts
        PROVE  r[p] \in Pair
    BY <1>1, <1>2, <2>1, <2>2
  <2> QED BY <2>1, <2>2, PairsAreBytes
<1>8. \A p, q \in puts : p = q
  <2> SUFFICES ASSUME NEW p \in puts, NEW q \in puts
               PROVE  p = q
    OBVIOUS
  <2> DEFINE x == at + p - (n + 2)
             y == at + q - (n + 2)
  <2>1. x \in Int /\ y \in Int /\ x - y < MemSize /\ y - x < MemSize
    <3>1. p \in Nat /\ p < Base /\ q \in Nat /\ q < Base /\ n \in Nat
      BY <1>3, <1>7
    <3> QED BY <1>1, <1>5, <3>1
  <2>2. x % MemSize = y % MemSize
    BY <1>6
  <2>3. x = y
    <3> HIDE DEF x, y
    <3> QED BY <2>1, <2>2, Apart
  <2> QED BY <1>3, <1>5, <1>7, <2>3
<1> HIDE DEF puts
<1>9. PICK p \in puts : TRUE
  BY DEF puts
<1>10. \A q \in puts : q <= p
  BY <1>7, <1>8, <1>9
<1>11. Last(puts) \in puts
  BY <1>9, <1>10 DEF Last
<1> QED BY <1>7, <1>11 DEF puts, r

(***************************************************************************)
(* Types, and what was loaded.                                             *)
(***************************************************************************)

LoadTypes ==
  /\ ram \in [Ram -> Byte] /\ line \in [1 .. Room -> Pair]
  /\ file \in Seq(Lines) /\ loaded \in Seq(Lines)

Without(j, a) == \A p \in 1 .. Room : ~Covers(loaded[j], p, a)

\* At the address a, what the last whole record with it among the first k lines says,
\* and zero where there is none.
Shows(k, a) ==
  \/ ram[a] = 0 /\ \A j \in 1 .. k : Without(j, a)
  \/ \E j \in 1 .. k, p \in 1 .. Room :
       /\ Covers(loaded[j], p, a) /\ ram[a] = loaded[j].pairs[p]
       /\ \A m \in j + 1 .. k : Without(m, a)

\* The memory after the first k lines.
ImageOf(k) ==
  \A a \in Ram : (\E j \in 1 .. k : Harms(loaded[j], a)) \/ Shows(k, a)

\* All lines but the first k are left, or these with the rest of a line before them.
Left(k) ==
  \/ file = SubSeq(loaded, k + 1, Len(loaded))
  \/ /\ file # <<>> /\ ~IsRecord(Head(file))
     /\ Tail(file) = SubSeq(loaded, k + 1, Len(loaded))

LoadInv ==
  /\ LoadTypes
  /\ IF phase = "load" THEN \E k \in 0 .. Len(loaded) : ImageOf(k) /\ Left(k)
     ELSE ImageOf(Len(loaded))

LEMMA InitLoads ==
  ASSUME Sizes, Inputs
  PROVE  MemInit => LoadInv
<1> SUFFICES ASSUME MemInit
             PROVE  LoadInv
  OBVIOUS
<1>1. file \in Seq(Lines) /\ loaded = file
  BY DEF MemInit, Inputs
<1>2. line \in [1 .. Room -> Pair]
  BY DEF MemInit
<1>3. ram = [a \in Ram |-> 0] /\ 0 \in Byte /\ phase = "load"
  BY DEF MemInit, Byte, Sizes
<1>4. ImageOf(0)
  BY <1>3 DEF ImageOf, Shows
<1>5. Left(0) /\ 0 \in 0 .. Len(loaded)
  BY <1>1, SubSeqFull, LenProperties DEF Left
<1> QED BY <1>1, <1>2, <1>3, <1>4, <1>5 DEF LoadInv, LoadTypes

LEMMA PutBefore ==
  ASSUME NEW S, NEW x \in S, NEW t \in Seq(S)
  PROVE  LET s == <<x>> \o t
         IN  s \in Seq(S) /\ s # <<>> /\ Head(s) = x /\ Tail(s) = t
<1> DEFINE s == <<x>> \o t
<1>1. <<x>> \in Seq(S) /\ Len(<<x>>) = 1 /\ <<x>>[1] = x
  OBVIOUS
<1>2. /\ s \in Seq(S) /\ Len(s) = 1 + Len(t)
      /\ \A i \in 1 .. 1 + Len(t) : s[i] = IF i <= 1 THEN x ELSE t[i - 1]
  BY <1>1, ConcatProperties
<1>3. Len(t) \in Nat
  BY LenProperties
<1> HIDE DEF s
<1>4. s # <<>> /\ Head(s) = x
  BY <1>2, <1>3
<1>5. /\ Tail(s) \in Seq(S) /\ Len(Tail(s)) = Len(t)
      /\ \A i \in 1 .. Len(Tail(s)) : Tail(s)[i] = s[i + 1]
  BY <1>2, <1>3, <1>4, HeadTailProperties
<1>6. \A i \in 1 .. Len(t) : Tail(s)[i] = t[i]
  BY <1>2, <1>3, <1>5
<1>7. Tail(s) = t
  BY <1>5, <1>6, SeqEqual
<1> QED BY <1>2, <1>4, <1>7 DEF s

LEMMA PiecesOf ==
  ASSUME Sizes, NEW l \in Lines
  PROVE  \/ Pieces(l) = <<>>
         \/ \E x \in Lines : Pieces(l) = <<x>> /\ ~IsRecord(x) /\ Len(l.pairs) > Room
<1>1. CASE Len(l.pairs) <= Room
  BY <1>1 DEF Pieces
<1>2. CASE ~(Len(l.pairs) <= Room)
  <2> DEFINE x == [type |-> "none", pairs |-> SubSeq(l.pairs, Room + 1, Len(l.pairs))]
  <2>1. l.pairs \in Seq(Pair) /\ Len(l.pairs) \in Nat /\ Room \in Nat
    BY DEF Lines, Sizes
  <2>2. SubSeq(l.pairs, Room + 1, Len(l.pairs)) \in Seq(Pair)
    <3>1. \A i \in Room + 1 .. Len(l.pairs) : l.pairs[i] \in Pair
      BY <2>1
    <3> HIDE DEF Pair
    <3> QED BY <2>1, <3>1, SubSeqProperties
  <2>3. x \in Lines /\ ~IsRecord(x)
    <3>1. x.type = "none"
      OBVIOUS
    <3> QED BY <2>2, <3>1 DEF Lines, IsRecord
  <2>4. Pieces(l) = <<x>>
    BY <1>2 DEF Pieces
  <2> QED BY <1>2, <2>1, <2>3, <2>4
<1> QED BY <1>1, <1>2

\* What a line leaves of the file.
LEMMA FileAfterLine ==
  ASSUME Sizes, file \in Seq(Lines), file # <<>>, file' = Pieces(Head(file)) \o Tail(file)
  PROVE  /\ file' \in Seq(Lines)
         /\ \/ file' = Tail(file)
            \/ /\ file' # <<>> /\ ~IsRecord(Head(file')) /\ Tail(file') = Tail(file)
               /\ Len(Head(file).pairs) > Room
<1>1. Head(file) \in Lines /\ Tail(file) \in Seq(Lines)
  BY HeadTailProperties
<1>2. CASE Pieces(Head(file)) = <<>>
  BY <1>1, <1>2, ConcatEmptySeq
<1>3. ASSUME NEW x \in Lines, Pieces(Head(file)) = <<x>>, ~IsRecord(x),
             Len(Head(file).pairs) > Room
      PROVE  /\ file' \in Seq(Lines)
             /\ file' # <<>> /\ ~IsRecord(Head(file')) /\ Tail(file') = Tail(file)
  <2> DEFINE t == Tail(file)
  <2>1. file' = <<x>> \o t /\ t \in Seq(Lines)
    BY <1>1, <1>3
  <2> HIDE DEF t
  <2>2. file' \in Seq(Lines) /\ file' # <<>> /\ Head(file') = x /\ Tail(file') = t
    <3>1. /\ <<x>> \o t \in Seq(Lines) /\ <<x>> \o t # <<>>
          /\ Head(<<x>> \o t) = x /\ Tail(<<x>> \o t) = t
      BY <2>1, PutBefore
    <3> QED BY <2>1, <3>1
  <2> QED BY <1>3, <2>2 DEF t
<1> QED BY <1>1, <1>2, <1>3, PiecesOf

LEMMA LineKeepsTypes ==
  ASSUME Sizes, LoadTypes, NEW beyond \in Pair, LoadLine(beyond)
  PROVE  LoadTypes'
<1> DEFINE l == Head(file)
<1>1. /\ file # <<>> /\ file' = Pieces(l) \o Tail(file) /\ line' = Fgets(l.pairs)
      /\ ram' = (IF Skipped(l, beyond) THEN ram
                 ELSE [a \in Ram |-> IF Puts(l, beyond, a) = {} THEN ram[a]
                                     ELSE Readings(l, beyond)[Last(Puts(l, beyond, a))]])
      /\ loaded' = loaded
  BY LoadLineByParts
<1>2. l \in Lines
  BY <1>1, HeadTailProperties DEF LoadTypes
<1>3. file' \in Seq(Lines)
  BY <1>1, FileAfterLine DEF LoadTypes
<1>4. line' \in [1 .. Room -> Pair]
  BY <1>1, <1>2, ReadingsArePairs DEF LoadTypes
<1> HIDE DEF l
<1>5. ram' \in [Ram -> Byte]
  <2>1. CASE Skipped(l, beyond)
    BY <1>1, <2>1 DEF LoadTypes
  <2>2. CASE ~Skipped(l, beyond)
    <3>1. ASSUME NEW a \in Ram, Puts(l, beyond, a) # {}
          PROVE  Readings(l, beyond)[Last(Puts(l, beyond, a))] \in Byte
      BY <1>2, <2>2, <3>1, PutsIsOne DEF LoadTypes
    <3> QED BY <1>1, <2>2, <3>1 DEF LoadTypes
  <2> QED BY <2>1, <2>2
<1> QED BY <1>1, <1>3, <1>4, <1>5 DEF LoadTypes

\* Where the line has all of its address, that is what is read.
LEMMA AddressAsWritten ==
  ASSUME Sizes, LoadTypes, NEW beyond \in Pair, NEW l \in Lines, IsRecord(l), AddressIsRead(l)
  PROVE  /\ AddressRead(l, beyond) = AddressOf(l)
         /\ Readings(l, beyond)[1] = l.pairs[1] /\ ~Skipped(l, beyond)
<1> DEFINE r == Readings(l, beyond)
           n == AddressPairs(l.type)
           at == AddressOf(l)
           len == Len(l.pairs)
<1>1. /\ l.type \in {"1", "2"} /\ n \in {2, 3} /\ (l.type = "1" <=> n = 2)
      /\ n < len /\ \A p \in 1 .. n + 1 : l.pairs[p] # Bad
  BY DEF IsRecord, AddressIsRead, AddressPairs
<1>2. l.pairs \in Seq(Pair) /\ len \in Nat /\ Base \in Nat /\ 4 <= Base /\ Room \in Nat /\ 4 <= Room
  BY DEF Lines, Sizes
<1>3. /\ r \in [1 .. Base + 1 -> Pair]
      /\ \A p \in 1 .. len : p <= Room /\ p <= Base + 1 => r[p] = l.pairs[p]
  BY ReadingsArePairs DEF LoadTypes
<1>4. \A p \in 1 .. n + 1 : p \in 1 .. len /\ p <= Room /\ p <= Base + 1
  <2> HIDE DEF n, len
  <2> QED BY <1>1, <1>2
<1>5. \A p \in 1 .. n + 1 : r[p] = l.pairs[p] /\ r[p] # Bad
  BY <1>1, <1>3, <1>4
<1>6. 1 \in 1 .. n + 1 /\ 2 \in 1 .. n + 1 /\ 3 \in 1 .. n + 1 /\ (n = 3 => 4 \in 1 .. n + 1)
  BY <1>1
<1>7. /\ r[1] = l.pairs[1] /\ r[2] = l.pairs[2] /\ r[3] = l.pairs[3] /\ (n = 3 => r[4] = l.pairs[4])
      /\ r[1] # Bad /\ r[2] # Bad /\ r[3] # Bad /\ (n = 3 => r[4] # Bad)
  BY <1>5, <1>6
<1>8. ~Skipped(l, beyond)
  BY <1>1, <1>7 DEF Skipped
<1>9. AddressRead(l, beyond) = at
  <2>2. n = 2 => Number(r, n) = r[2] * Base + r[3]
    BY <1>3, <1>7, NumberIs
  <2>3. n = 3 => Number(r, n) = (r[2] * Base + r[3]) * Base + r[4]
    BY <1>3, <1>7, NumberIs
  <2>4. at = IF n = 2 THEN l.pairs[2] * Base + l.pairs[3]
             ELSE (l.pairs[2] * Base + l.pairs[3]) * Base + l.pairs[4]
    BY <1>1 DEF AddressOf
  <2>5. AddressRead(l, beyond) = Number(r, n)
    BY DEF AddressRead
  <2> HIDE DEF r, n, at
  <2> QED BY <1>1, <1>7, <2>2, <2>3, <2>4, <2>5
<1> QED BY <1>7, <1>8, <1>9

\* A line without a count and the beginning of an address is skipped.
LEMMA OthersAreSkipped ==
  ASSUME Sizes, LoadTypes, NEW beyond \in Pair, NEW l \in Lines, IsRecord(l), ~Starts(l)
  PROVE  Skipped(l, beyond)
<1> DEFINE len == Len(l.pairs)
<1>1. l.pairs \in Seq(Pair) /\ len \in Nat /\ Base \in Nat /\ 4 <= Base /\ Room \in Nat /\ 4 <= Room
  BY DEF Lines, Sizes
<1>2. \A p \in {1, 2} :
        Readings(l, beyond)[p] = IF p <= len THEN l.pairs[p]
                                 ELSE IF p = len + 1 THEN Bad ELSE line[p]
  BY <1>1 DEF Readings, Fgets
<1>3. CASE len = 0
  BY <1>2, <1>3 DEF Skipped
<1>4. CASE len = 1
  BY <1>2, <1>4 DEF Skipped
<1>5. CASE len >= 2
  BY <1>1, <1>2, <1>5 DEF Skipped, Starts
<1> HIDE DEF len
<1> QED BY <1>1, <1>3, <1>4, <1>5

\* A damaged record puts nothing where it does no harm.
LEMMA DamagedIsRead ==
  ASSUME Sizes, LoadTypes, NEW beyond \in Pair, NEW l \in Lines, IsRecord(l), ~Whole(l),
         NEW a \in Ram, ~Harms(l, a)
  PROVE  Skipped(l, beyond) \/ Puts(l, beyond, a) = {}
<1>1. CASE ~Starts(l)
  BY <1>1, OthersAreSkipped
<1>2. CASE Starts(l)
  <2>1. /\ AddressIsRead(l)
        /\ ~\E p \in DataPairs(l.type, l.pairs[1]) : (AddressOf(l) + p - FirstData(l)) % MemSize = a
    BY <1>2 DEF Harms
  <2>2. AddressRead(l, beyond) = AddressOf(l) /\ Readings(l, beyond)[1] = l.pairs[1]
    BY <2>1, AddressAsWritten
  <2> QED BY <2>1, <2>2 DEF Puts, FirstData
<1> QED BY <1>1, <1>2

\* A whole record puts its data where it says and nothing elsewhere.
LEMMA WholeIsRead ==
  ASSUME Sizes, LoadTypes, NEW beyond \in Pair, NEW l \in Lines, IsRecord(l), Whole(l)
  PROVE  /\ ~Skipped(l, beyond) /\ Len(l.pairs) <= Room
         /\ \A a \in Ram :
              /\ Puts(l, beyond, a) = {p \in 1 .. Room : Covers(l, p, a)}
              /\ \A p \in Puts(l, beyond, a) : Readings(l, beyond)[p] = l.pairs[p]
<1> DEFINE r == Readings(l, beyond)
           n == AddressPairs(l.type)
           len == Len(l.pairs)
           at == AddressOf(l)
<1>1. /\ l.type \in {"1", "2"} /\ n \in {2, 3} /\ (l.type = "1" <=> n = 2)
      /\ len \in n + 2 .. Room /\ l.pairs[1] + 1 = len
      /\ \A p \in 1 .. len : l.pairs[p] # Bad
  BY DEF IsRecord, Whole, AddressPairs
<1>2. l.pairs \in Seq(Pair) /\ len \in Nat /\ Base \in Nat /\ 4 <= Base /\ Room \in Nat
  BY DEF Lines, Sizes
<1>3. \A p \in 1 .. len : l.pairs[p] \in Byte
  BY <1>1, <1>2, PairsAreBytes
<1>4. len <= Base /\ 1 \in 1 .. len /\ 2 \in 1 .. len /\ 3 \in 1 .. len
      /\ (n = 3 => 4 \in 1 .. len) /\ l.pairs[1] = len - 1
  <2>1. 1 \in 1 .. len
    BY <1>1, <1>2
  <2>2. l.pairs[1] \in Int /\ l.pairs[1] <= Base - 1
    BY <1>2, <1>3, <2>1 DEF Byte
  <2> QED BY <1>1, <1>2, <2>1, <2>2
<1>5. r \in [1 .. Base + 1 -> Pair] /\ \A p \in 1 .. len : r[p] = l.pairs[p]
  <2>1. /\ r \in [1 .. Base + 1 -> Pair]
        /\ \A p \in 1 .. len : p <= Room /\ p <= Base + 1 => r[p] = l.pairs[p]
    BY ReadingsArePairs DEF LoadTypes
  <2>2. \A p \in 1 .. len : p <= Room /\ p <= Base + 1
    BY <1>1, <1>2, <1>4
  <2> QED BY <2>1, <2>2
<1>6. r[1] = len - 1
  BY <1>1, <1>4, <1>5
<1>7. AddressIsRead(l)
  <2>1. n < len /\ \A p \in 1 .. n + 1 : p \in 1 .. len
    <3> HIDE DEF n, len
    <3> QED BY <1>1, <1>2
  <2> QED BY <1>1, <2>1 DEF AddressIsRead
<1>8. AddressRead(l, beyond) = at /\ ~Skipped(l, beyond)
  BY <1>7, AddressAsWritten
<1>9. ASSUME NEW a \in Ram
      PROVE  /\ Puts(l, beyond, a) = {p \in 1 .. Room : Covers(l, p, a)}
             /\ \A p \in Puts(l, beyond, a) : r[p] = l.pairs[p]
  <2>1. Puts(l, beyond, a) =
          {p \in n + 2 .. r[1] : r[p] # Bad /\ (AddressRead(l, beyond) + p - (n + 2)) % MemSize = a}
    BY DEF Puts, DataPairs
  <2>2. \A p \in n + 2 .. r[1] : p \in 1 .. len /\ p \in 1 .. Room
    BY <1>1, <1>2, <1>6
  <2>3. \A p \in n + 2 .. r[1] : r[p] # Bad /\ r[p] = l.pairs[p]
    BY <1>1, <1>5, <2>2
  <2>4. Puts(l, beyond, a) = {p \in n + 2 .. len - 1 : (at + p - (n + 2)) % MemSize = a}
    <3> HIDE DEF r, n, at, len
    <3> QED BY <1>6, <1>8, <2>1, <2>3
  <2>5. \A p : Covers(l, p, a) <=>
               p \in n + 2 .. len - 1 /\ (at + p - (n + 2)) % MemSize = a
    BY DEF Covers, FirstData
  <2>6. {p \in 1 .. Room : Covers(l, p, a)}
          = {p \in n + 2 .. len - 1 : (at + p - (n + 2)) % MemSize = a}
    <3> HIDE DEF r, n, at, len
    <3> QED BY <1>6, <2>2, <2>5
  <2>7. \A p \in Puts(l, beyond, a) : r[p] = l.pairs[p]
    <3> HIDE DEF r, n, at, len
    <3> QED BY <2>1, <2>3
  <2> QED BY <2>4, <2>6, <2>7
<1> QED BY <1>1, <1>2, <1>8, <1>9

\* What is left after a line is what was behind it.
LEMMA LeftBehind ==
  ASSUME LoadTypes, NEW k \in 0 .. Len(loaded), file # <<>>,
         file = SubSeq(loaded, k + 1, Len(loaded))
  PROVE  /\ k + 1 \in 1 .. Len(loaded) /\ Head(file) = loaded[k + 1]
         /\ Tail(file) = SubSeq(loaded, k + 2, Len(loaded))
<1>1. loaded \in Seq(Lines) /\ Len(loaded) \in Nat
  BY LenProperties DEF LoadTypes
<1>2. k + 1 \in 1 .. Len(loaded)
  <2>1. SUFFICES ASSUME k = Len(loaded) PROVE FALSE
    BY <1>1
  <2>2. file = <<>>
    BY <1>1, <2>1, SubSeqEmpty
  <2> QED BY <2>2
<1>3. Len(loaded) \in k + 1 .. Len(loaded)
  BY <1>1, <1>2
<1>4. /\ Head(SubSeq(loaded, k + 1, Len(loaded))) = loaded[k + 1]
      /\ Tail(SubSeq(loaded, k + 1, Len(loaded))) = SubSeq(loaded, (k + 1) + 1, Len(loaded))
  BY <1>1, <1>2, <1>3, HeadTailOfSubSeq
<1>5. (k + 1) + 1 = k + 2
  BY <1>2
<1> QED BY <1>2, <1>4, <1>5

LEMMA OtherLinesKeep ==
  ASSUME NEW beyond \in Pair, LoadLine(beyond), ~IsRecord(Head(file))
  PROVE  ram' = ram
<1>1. Skipped(Head(file), beyond)
  BY DEF Skipped, IsRecord
<1> QED BY <1>1, LoadLineByParts

\* A line that leaves an address alone leaves what it shows.
LEMMA ShownIsKept ==
  ASSUME LoadTypes, NEW k \in Nat, NEW a \in Ram, Shows(k, a), Without(k + 1, a),
         ram'[a] = ram[a], loaded' = loaded
  PROVE  Shows(k + 1, a)'
<1>1. \A j \in 1 .. k + 1 : j \in 1 .. k \/ j = k + 1
  OBVIOUS
<1>2. CASE ram[a] = 0 /\ \A j \in 1 .. k : Without(j, a)
  BY <1>1, <1>2 DEF Shows, Without
<1>3. ASSUME NEW j \in 1 .. k, NEW p \in 1 .. Room, Covers(loaded[j], p, a),
             ram[a] = loaded[j].pairs[p], \A m \in j + 1 .. k : Without(m, a)
      PROVE  \E i \in 1 .. k + 1, q \in 1 .. Room :
               /\ Covers(loaded[i], q, a) /\ ram'[a] = loaded[i].pairs[q]
               /\ \A m \in i + 1 .. k + 1 : Without(m, a)
  <2>1. j \in 1 .. k + 1 /\ \A m \in j + 1 .. k + 1 : m \in j + 1 .. k \/ m = k + 1
    OBVIOUS
  <2>2. \A m \in j + 1 .. k + 1 : Without(m, a)
    BY <1>3, <2>1
  <2> QED BY <1>3, <2>1, <2>2
<1> QED BY <1>2, <1>3 DEF Shows, Without

LEMMA RecordIsAdded ==
  ASSUME Sizes, LoadTypes, NEW beyond \in Pair, LoadLine(beyond),
         NEW k \in 0 .. Len(loaded), k + 1 \in 1 .. Len(loaded), ImageOf(k),
         Head(file) = loaded[k + 1], IsRecord(loaded[k + 1])
  PROVE  ImageOf(k + 1)'
<1> DEFINE l == Head(file)
           harmed(n, a) == \E j \in 1 .. n : Harms(loaded[j], a)
<1>1. l \in Lines /\ l = loaded[k + 1] /\ IsRecord(l) /\ k \in Nat /\ loaded' = loaded
  <2>1. loaded \in Seq(Lines) /\ Len(loaded) \in Nat
    BY LenProperties DEF LoadTypes
  <2>2. loaded[k + 1] \in Lines
    BY <2>1, ElementOfSeq
  <2>3. loaded' = loaded
    BY LoadLineByParts
  <2> QED BY <2>1, <2>2, <2>3
<1>2. /\ Skipped(l, beyond) => ram' = ram
      /\ ~Skipped(l, beyond) =>
           ram' = [a \in Ram |-> IF Puts(l, beyond, a) = {} THEN ram[a]
                                 ELSE Readings(l, beyond)[Last(Puts(l, beyond, a))]]
  BY LoadLineByParts
<1> HIDE DEF l
<1>3. /\ 1 .. k \subseteq 1 .. k + 1 /\ k + 1 \in 1 .. k + 1 /\ (k + 1) + 1 .. k + 1 = {}
  BY <1>1
<1> SUFFICES ASSUME NEW a \in Ram, ~harmed(k + 1, a)
             PROVE  Shows(k + 1, a)'
  BY <1>1 DEF ImageOf
<1>4. Shows(k, a) /\ ~Harms(l, a)
  BY <1>1, <1>3 DEF ImageOf
<1>5. ASSUME Without(k + 1, a), ram'[a] = ram[a]
      PROVE  Shows(k + 1, a)'
  BY <1>1, <1>4, <1>5, ShownIsKept
<1>6. CASE ~Whole(l)
  <2>1. ram'[a] = ram[a]
    BY <1>1, <1>2, <1>4, <1>6, DamagedIsRead
  <2>2. Without(k + 1, a)
    BY <1>1, <1>6 DEF Without, Covers
  <2> QED BY <1>5, <2>1, <2>2
<1>7. CASE Whole(l)
  <2>1. /\ ~Skipped(l, beyond)
        /\ Puts(l, beyond, a) = {p \in 1 .. Room : Covers(l, p, a)}
        /\ \A p \in Puts(l, beyond, a) : Readings(l, beyond)[p] = l.pairs[p]
    BY <1>1, <1>7, WholeIsRead
  <2>2. CASE Puts(l, beyond, a) = {}
    <3>1. ram'[a] = ram[a] /\ Without(k + 1, a)
      BY <1>1, <1>2, <2>1, <2>2 DEF Without
    <3> QED BY <1>5, <3>1
  <2>3. CASE Puts(l, beyond, a) # {}
    <3> DEFINE p == Last(Puts(l, beyond, a))
    <3>1. p \in Puts(l, beyond, a)
      BY <1>1, <2>1, <2>3, PutsIsOne DEF LoadTypes
    <3>2. p \in 1 .. Room /\ Covers(loaded[k + 1], p, a)
      BY <1>1, <2>1, <3>1
    <3>3. ram'[a] = loaded[k + 1].pairs[p]
      BY <1>1, <1>2, <2>1, <2>3, <3>1
    <3> HIDE DEF p
    <3>4. \E j \in 1 .. k + 1, q \in 1 .. Room :
            /\ Covers(loaded[j], q, a) /\ ram'[a] = loaded[j].pairs[q]
            /\ \A m \in j + 1 .. k + 1 : Without(m, a)
      BY <1>3, <3>2, <3>3
    <3> QED BY <1>1, <3>4 DEF Shows, Without
  <2> QED BY <2>2, <2>3
<1> QED BY <1>6, <1>7

LEMMA OtherIsAdded ==
  ASSUME LoadTypes, NEW k \in 0 .. Len(loaded), k + 1 \in 1 .. Len(loaded), ImageOf(k),
         ~IsRecord(loaded[k + 1]), ram' = ram, loaded' = loaded
  PROVE  ImageOf(k + 1)'
<1>1. k \in Nat
  BY LenProperties DEF LoadTypes
<1>2. \A a \in Ram : Without(k + 1, a)
  BY DEF Without, Covers
<1>3. \A a \in Ram : Shows(k, a) => Shows(k + 1, a)'
  BY <1>1, <1>2, ShownIsKept
<1>4. 1 .. k \subseteq 1 .. k + 1
  BY <1>1
<1> QED BY <1>3, <1>4 DEF ImageOf

LEMMA LineLoads ==
  ASSUME Sizes, LoadInv, NEW beyond \in Pair, LoadLine(beyond)
  PROVE  LoadInv'
<1>1. /\ phase = "load" /\ phase' = "load" /\ file # <<>> /\ loaded' = loaded
      /\ file' = Pieces(Head(file)) \o Tail(file)
  BY LoadLineByParts
<1>2. LoadTypes /\ LoadTypes'
  BY LineKeepsTypes DEF LoadInv
<1>3. Head(file) \in Lines
  BY <1>1, <1>2, HeadTailProperties DEF LoadTypes
<1>4. \/ file' = Tail(file)
      \/ /\ file' # <<>> /\ ~IsRecord(Head(file')) /\ Tail(file') = Tail(file)
         /\ Len(Head(file).pairs) > Room
  BY <1>1, <1>2, FileAfterLine DEF LoadTypes
<1>5. \E k \in 0 .. Len(loaded) : ImageOf(k)' /\ Left(k)'
  <2>1. PICK k \in 0 .. Len(loaded) : ImageOf(k) /\ Left(k)
    BY <1>1 DEF LoadInv
  <2>2. CASE file = SubSeq(loaded, k + 1, Len(loaded))
    <3>1. /\ k + 1 \in 1 .. Len(loaded) /\ Head(file) = loaded[k + 1]
          /\ Tail(file) = SubSeq(loaded, k + 2, Len(loaded))
      BY <1>1, <1>2, <2>2, LeftBehind
    <3>2. k + 2 = (k + 1) + 1 /\ k + 1 \in 0 .. Len(loaded)
      BY <3>1
    <3>3. Left(k + 1)'
      BY <1>1, <1>4, <3>1, <3>2 DEF Left, IsRecord
    <3>4. ImageOf(k + 1)'
      <4>1. CASE IsRecord(loaded[k + 1])
        BY <1>2, <2>1, <3>1, <4>1, RecordIsAdded
      <4>2. CASE ~IsRecord(loaded[k + 1])
        <5>1. ram' = ram
          BY <3>1, <4>2, OtherLinesKeep
        <5> QED BY <1>1, <1>2, <2>1, <3>1, <4>2, <5>1, OtherIsAdded
      <4> QED BY <4>1, <4>2
    <3> QED BY <3>2, <3>3, <3>4
  <2>3. CASE /\ file # <<>> /\ ~IsRecord(Head(file))
             /\ Tail(file) = SubSeq(loaded, k + 1, Len(loaded))
    <3>1. Left(k)'
      BY <1>1, <1>4, <2>3 DEF Left, IsRecord
    <3>2. ram' = ram
      BY <2>3, OtherLinesKeep
    <3>3. ImageOf(k)'
      BY <1>1, <2>1, <3>2 DEF ImageOf, Shows, Without
    <3> QED BY <3>1, <3>3
  <2> QED BY <2>1, <2>2, <2>3 DEF Left
<1> QED BY <1>1, <1>2, <1>5 DEF LoadInv

LEMMA NextLoads ==
  ASSUME Sizes
  PROVE  LoadInv /\ [MemNext]_memVars => LoadInv'
<1> SUFFICES ASSUME LoadInv, [MemNext]_memVars
             PROVE  LoadInv'
  OBVIOUS
<1>1. ASSUME NEW beyond \in Pair, LoadLine(beyond)
      PROVE  LoadInv'
  BY <1>1, LineLoads
<1>2. CASE Loaded
  <2>1. /\ phase = "load" /\ phase' = "prompt" /\ file = <<>> /\ loaded' = loaded
        /\ ram' = ram /\ line' = line /\ file' = file
    BY <1>2 DEF Loaded
  <2>2. LoadTypes'
    BY <2>1 DEF LoadInv, LoadTypes
  <2>3. ImageOf(Len(loaded))
    <3>1. PICK k \in 0 .. Len(loaded) : ImageOf(k) /\ Left(k)
      BY <2>1 DEF LoadInv
    <3>2. k = Len(loaded)
      <4>1. SUFFICES ASSUME k # Len(loaded) PROVE FALSE
        OBVIOUS
      <4>2. loaded \in Seq(Lines) /\ Len(loaded) \in Nat
        BY LenProperties DEF LoadInv, LoadTypes
      <4>3. SubSeq(loaded, k + 1, Len(loaded)) # <<>>
        <5>1. \A i \in k + 1 .. Len(loaded) : loaded[i] \in Lines
          BY <4>2
        <5>2. Len(SubSeq(loaded, k + 1, Len(loaded)))
                = IF k + 1 <= Len(loaded) THEN Len(loaded) - (k + 1) + 1 ELSE 0
          BY <4>2, <5>1, SubSeqProperties
        <5>3. k + 1 <= Len(loaded) /\ Len(loaded) - (k + 1) + 1 # 0
          BY <4>1, <4>2
        <5>4. Len(<<>>) = 0
          OBVIOUS
        <5> QED BY <5>2, <5>3, <5>4
      <4> QED BY <2>1, <3>1, <4>3 DEF Left
    <3> QED BY <3>1, <3>2
  <2> QED BY <2>1, <2>2, <2>3 DEF LoadInv, ImageOf, Shows, Without
<1>3. ASSUME UNCHANGED <<ram, file, line, loaded>>, (phase = "load" <=> phase' = "load")
      PROVE  LoadInv'
  BY <1>3 DEF LoadInv, LoadTypes, ImageOf, Shows, Without, Left
<1>4. CASE Command
  BY <1>3, <1>4 DEF Command, StartDump
<1>5. CASE DumpRow \/ Dumped
  BY <1>3, <1>5 DEF DumpRow, Dumped
<1>6. CASE UNCHANGED memVars
  BY <1>3, <1>6 DEF memVars
<1> QED BY <1>1, <1>2, <1>4, <1>5, <1>6 DEF MemNext

\* For files of any length, with lines of any kind between the records and anything
\* in the line buffer and behind it: after a load each byte of the memory is what the
\* last whole record with its address says, and zero where there is none, but for the
\* addresses that a damaged record names itself (mem_load_srec()).
THEOREM LoadedIsImageAlways == MemSpec => []LoadedIsImage
<1> USE MemoryAssumption
<1>1. LoadInv => LoadedIsImage
  <2>1. SUFFICES ASSUME LoadTypes, phase # "load", ImageOf(Len(loaded))
                 PROVE  LoadedIsImage
    BY DEF LoadInv, LoadedIsImage
  <2> QED BY <2>1 DEF LoadedIsImage, ImageOf, Shows, Without
<1>2. MemInit => LoadInv
  BY InitLoads
<1>3. LoadInv /\ [MemNext]_memVars => LoadInv'
  BY NextLoads
<1> QED BY <1>1, <1>2, <1>3, PTL DEF MemSpec

(***************************************************************************)
(* Long words.                                                             *)
(***************************************************************************)

LEMMA Around ==
  ASSUME Sizes, NEW a \in Int, NEW q \in Int, NEW r \in Int, 0 <= r, r < MemSize,
         a = q * MemSize + r
  PROVE  a % MemSize = r
<1>1. MemSize \in Nat /\ 0 < MemSize
  BY SizesAreNumbers
<1>2. (q * MemSize + r) % MemSize = r
  BY <1>1, Divided
<1> QED BY <1>2

\* The two words of an even address lie side by side, or around the memory's end.
LEMMA WordsOf ==
  ASSUME Sizes, NEW a \in Nat, a % 2 = 0
  PROVE  LET at == a % MemSize
             next == IF at = MemSize - 2 THEN 0 ELSE at + 2
         IN  /\ at \in Ram /\ at + 1 \in Ram /\ next \in Ram /\ next + 1 \in Ram
             /\ (a + 1) % MemSize = at + 1
             /\ (a + 2) % MemSize = next /\ (a + 2 + 1) % MemSize = next + 1
<1> DEFINE q == a \div MemSize
           at == a % MemSize
           next == IF at = MemSize - 2 THEN 0 ELSE at + 2
<1>1. PICK n \in Nat : MemSize = 2 * n
  BY WholeRows
<1>2. MemSize \in Nat /\ 4 <= MemSize
  BY DEF Sizes
<1>3. q \in Int /\ at \in Int /\ 0 <= at /\ at < MemSize /\ a = q * MemSize + at
  BY <1>2, Division
<1> HIDE DEF q, at
<1>4. q * MemSize \in Int /\ (q + 1) * MemSize = q * MemSize + MemSize
  BY <1>2, <1>3
<1>5. at % 2 = 0
  <2>1. q * MemSize = 2 * (q * n) /\ q * n \in Int
    BY <1>1, <1>3
  <2> DEFINE m == q * n
  <2> HIDE DEF m
  <2>2. a = 2 * m + at /\ m \in Int
    BY <1>3, <2>1 DEF m
  <2> QED BY <1>3, <2>2
<1>6. at <= MemSize - 2
  BY <1>1, <1>2, <1>3, <1>5
<1>7. (a + 1) % MemSize = at + 1
  <2>1. a + 1 = q * MemSize + (at + 1)
    BY <1>3, <1>4
  <2> QED BY <1>2, <1>3, <1>6, <2>1, Around
<1>8. (a + 2) % MemSize = next /\ (a + 2 + 1) % MemSize = next + 1
  <2>1. CASE at = MemSize - 2
    <3> DEFINE j == q + 1
    <3>1. a + 2 = j * MemSize + 0 /\ a + 2 + 1 = j * MemSize + 1 /\ j \in Int
      BY <1>2, <1>3, <1>4, <2>1
    <3> HIDE DEF j
    <3>2. (a + 2) % MemSize = 0
      BY <1>2, <3>1, Around
    <3>3. (a + 2 + 1) % MemSize = 1
      BY <1>2, <3>1, Around
    <3> QED BY <2>1, <3>2, <3>3
  <2>2. CASE at # MemSize - 2
    <3>1. at + 3 < MemSize
      BY <1>1, <1>2, <1>3, <1>5, <1>6, <2>2
    <3>2. a + 2 = q * MemSize + (at + 2) /\ a + 2 + 1 = q * MemSize + (at + 3)
      BY <1>3, <1>4
    <3>3. (a + 2) % MemSize = at + 2
      BY <1>2, <1>3, <3>1, <3>2, Around
    <3>4. (a + 2 + 1) % MemSize = at + 3
      BY <1>2, <1>3, <3>1, <3>2, Around
    <3> QED BY <1>3, <2>2, <3>3, <3>4
  <2> QED BY <2>1, <2>2
<1>9. at \in Ram /\ at + 1 \in Ram /\ next \in Ram /\ next + 1 \in Ram
  BY <1>1, <1>2, <1>3, <1>5, <1>6 DEF Ram
<1> QED BY <1>7, <1>8, <1>9 DEF at

\* The four bytes of a long word are those of its words.
LEMMA BytesOf ==
  ASSUME Sizes, NEW v \in Nat
  PROVE  /\ (v \div Square) \div Base = v \div (Square * Base)
         /\ (v % Square) \div Base = (v \div Base) % Base
         /\ (v % Square) % Base = v % Base
<1> DEFINE x == v \div Base
           d == v % Base
           y == x \div Base
           c == x % Base
           z == y \div Base
           b == y % Base
<1>1. Base \in Nat /\ 0 < Base
  BY DEF Sizes
<1>2. x \in Int /\ d \in Int /\ 0 <= d /\ d < Base /\ v = x * Base + d
  BY <1>1, Division
<1> HIDE DEF x, d
<1>3. y \in Int /\ c \in Int /\ 0 <= c /\ c < Base /\ x = y * Base + c
  BY <1>1, <1>2, Division
<1> HIDE DEF y, c
<1>4. z \in Int /\ b \in Int /\ 0 <= b /\ b < Base /\ y = z * Base + b
  BY <1>1, <1>3, Division
<1> HIDE DEF z, b
<1> DEFINE low == c * Base + d
           rest == b * Square + low
<1>5. Square \in Nat /\ 0 < Square /\ Square = Base * Base
  BY <1>1, SMTT(30) DEF Square
<1>6. low \in Int /\ 0 <= low /\ low < Square
  <2>1. c * Base \in Int /\ 0 <= c * Base
    BY <1>1, <1>3, SMTT(30)
  <2>2. (c + 1) * Base <= Base * Base /\ (c + 1) * Base = c * Base + Base
    <3>1. c + 1 <= Base
      BY <1>1, <1>3
    <3> QED BY <1>1, <1>3, <3>1, SMTT(30)
  <2> QED BY <1>1, <1>2, <1>5, <2>1, <2>2
<1>7. v = y * Square + low
  <2>1. v = (y * Base + c) * Base + d
    BY <1>2, <1>3
  <2>2. (y * Base + c) * Base = y * (Base * Base) + c * Base
    BY <1>1, <1>3, SMTT(30)
  <2>3. y * Square \in Int /\ c * Base \in Int
    BY <1>1, <1>3, <1>5
  <2> QED BY <1>2, <1>5, <2>1, <2>2, <2>3
<1>8. v \div Square = y /\ v % Square = low
  <2> HIDE DEF low
  <2> QED BY <1>3, <1>5, <1>6, <1>7, Divided
<1>9. low \div Base = c /\ low % Base = d
  BY <1>1, <1>2, <1>3, Divided
<1>10. y \div Base = z
  BY <1>1, <1>4, Divided
<1>11. x % Base = c
  BY <1>1, <1>3, Divided
<1>12. v \div (Square * Base) = z
  <2>1. Square * Base \in Nat /\ 0 < Square * Base
    BY <1>1, <1>5, SMTT(30)
  <2>2. rest \in Int /\ 0 <= rest /\ rest < Square * Base
    <3>1. b * Square \in Int /\ 0 <= b * Square
      BY <1>4, <1>5, SMTT(30)
    <3>2. (b + 1) * Square <= Base * Square /\ (b + 1) * Square = b * Square + Square
      <4>1. b + 1 <= Base
        BY <1>1, <1>4
      <4> QED BY <1>1, <1>4, <1>5, <4>1, SMTT(30)
    <3>3. Base * Square = Square * Base /\ Square * Base \in Int
      BY <1>1, <1>5
    <3> HIDE DEF low
    <3> QED BY <1>4, <1>5, <1>6, <3>1, <3>2, <3>3
  <2>3. v = z * (Square * Base) + rest
    <3>1. (z * Base + b) * Square = z * (Square * Base) + b * Square
      BY <1>1, <1>4, <1>5, SMTT(30)
    <3>2. z * (Square * Base) \in Int /\ b * Square \in Int
      BY <1>4, <1>5, <2>1
    <3> HIDE DEF low
    <3> QED BY <1>4, <1>6, <1>7, <3>1, <3>2
  <2> HIDE DEF rest
  <2> QED BY <1>4, <2>1, <2>2, <2>3, Divided
<1> QED BY <1>8, <1>9, <1>10, <1>11, <1>12 DEF x, d

LEMMA LongIsRead ==
  ASSUME Sizes, NEW m \in [Ram -> Byte], NEW a \in Nat, a % 2 = 0
  PROVE  ReadLong(m, a) = ReadWord(m, a) * Square + ReadWord(m, a + 2)
<1> DEFINE at == a % MemSize
           next == IF at = MemSize - 2 THEN 0 ELSE at + 2
<1>1. /\ at \in Ram /\ at + 1 \in Ram /\ next \in Ram /\ next + 1 \in Ram
      /\ (a + 1) % MemSize = at + 1
      /\ (a + 2) % MemSize = next /\ (a + 2 + 1) % MemSize = next + 1
  BY WordsOf
<1>2. ReadWord(m, a) = m[at] * Base + m[at + 1]
  BY <1>1 DEF ReadWord, ReadByte
<1>3. ReadWord(m, a + 2) = m[next] * Base + m[next + 1]
  BY <1>1 DEF ReadWord, ReadByte
<1>4. ReadLong(m, a) = (m[at] * Base + m[at + 1]) * Square + m[next] * Base + m[next + 1]
  BY DEF ReadLong
<1>5. Base \in Nat /\ Square \in Nat
  BY DEF Sizes, Square
<1>6. /\ m[at] \in Int /\ m[at + 1] \in Int /\ m[next] \in Int /\ m[next + 1] \in Int
  <2>1. \A i \in Ram : m[i] \in Int
    BY <1>5 DEF Byte
  <2> HIDE DEF at, next
  <2> QED BY <1>1, <2>1
<1> DEFINE high == (m[at] * Base + m[at + 1]) * Square
           third == m[next] * Base
<1>7. high \in Int /\ third \in Int
  <2> HIDE DEF at, next
  <2> QED BY <1>5, <1>6
<1>8. high + third + m[next + 1] = high + (third + m[next + 1])
  <2> HIDE DEF high, third, at, next
  <2> QED BY <1>6, <1>7
<1> HIDE DEF at, next
<1> QED BY <1>2, <1>3, <1>4, <1>8

LEMMA LongIsWritten ==
  ASSUME Sizes, NEW m \in [Ram -> Byte], NEW a \in Nat, a % 2 = 0, NEW v \in Nat
  PROVE  WriteLong(m, a, v) = WriteWord(WriteWord(m, a, v \div Square), a + 2, v % Square)
<1> DEFINE at == a % MemSize
           next == IF at = MemSize - 2 THEN 0 ELSE at + 2
<1>1. /\ at \in Ram /\ at + 1 \in Ram /\ next \in Ram /\ next + 1 \in Ram
      /\ (a + 1) % MemSize = at + 1
      /\ (a + 2) % MemSize = next /\ (a + 2 + 1) % MemSize = next + 1
  BY WordsOf
<1>2. WriteLong(m, a, v) =
        [m EXCEPT ![at] = (v \div Square) \div Base, ![at + 1] = (v \div Square) % Base,
                  ![next] = (v % Square) \div Base, ![next + 1] = (v % Square) % Base]
  BY BytesOf DEF WriteLong
<1> HIDE DEF at, next
<1>3. WriteWord(m, a, v \div Square) =
        [[m EXCEPT ![at] = (v \div Square) \div Base] EXCEPT ![at + 1] = (v \div Square) % Base]
  BY <1>1 DEF WriteWord, WriteByte, at
<1> DEFINE n == WriteWord(m, a, v \div Square)
<1> HIDE DEF n
<1>4. WriteWord(n, a + 2, v % Square) =
        [[n EXCEPT ![next] = (v % Square) \div Base] EXCEPT ![next + 1] = (v % Square) % Base]
  BY <1>1 DEF WriteWord, WriteByte
<1> QED BY <1>2, <1>3, <1>4 DEF n

\* For a memory of any size, also around its end: a long word that is read or written
\* is two words (mem_read_long(), mem_write_long()).
THEOREM LongIsTwoWordsAlways == MemSpec => []LongIsTwoWords
<1> USE MemoryAssumption
<1>1. LoadInv => LongIsTwoWords
  <2> SUFFICES ASSUME ram \in [Ram -> Byte]
               PROVE  LongIsTwoWords
    BY DEF LoadInv, LoadTypes
  <2>1. \A a \in {b \in 0 .. 2 * MemSize : b % 2 = 0} : a \in Nat /\ a % 2 = 0
    BY SizesAreNumbers
  <2>2. \A v \in {0, Square * Base + 1, Square * Square - 2} : v \in Nat
    <3>1. Base \in Nat /\ 4 <= Base
      BY DEF Sizes
    <3>2. Square \in Nat /\ 2 <= Square
      BY <3>1, SMTT(30) DEF Square
    <3>3. Square * Base \in Nat /\ Square * Square \in Nat /\ 2 <= Square * Square
      BY <3>1, <3>2, SMTT(30)
    <3> QED BY <3>3
  <2> QED BY <2>1, <2>2, LongIsRead, LongIsWritten DEF LongIsTwoWords
<1>2. MemInit => LoadInv
  BY InitLoads
<1>3. LoadInv /\ [MemNext]_memVars => LoadInv'
  BY NextLoads
<1> QED BY <1>1, <1>2, <1>3, PTL DEF MemSpec

------------------------------------------------------------------------------
(* The injection ring. *)

USE InjectMaxAssumption, InjectPauseAssumption

IInv == TypeOK /\ PendingWasInjected /\ OffersAreSpaced

(***************************************************************************)
(* How the pending bytes change with the two indices.                      *)
(***************************************************************************)

\* The ring never counts more than InjectMax - 1 bytes, and a byte that
\* waits is in the ring, at an index other than head.
LEMMA CellFacts ==
  ASSUME TypeOK
  PROVE  /\ Count \in 0 .. InjectMax - 1
         /\ Count = 0 <=> ~HasInjected
         /\ \A i \in 1 .. Count : Cell(i - 1) \in Index /\ Cell(i - 1) # head
  BY DEF TypeOK, Count, Cell, Index, HasInjected

\* A key injected while at least two cells are free is appended; with one
\* free cell the ring becomes empty.
LEMMA InjectPending ==
  ASSUME TypeOK, NEW v \in Key, Inject(v)
  PROVE  /\ Count' = (IF Count = InjectMax - 1 THEN 0 ELSE Count + 1)
         /\ \A i \in 1 .. Count' :
              Pending'[i] = IF i = Count + 1 THEN v ELSE Pending[i]
<1>1. Count' = IF Count = InjectMax - 1 THEN 0 ELSE Count + 1
  BY DEF TypeOK, Inject, Count, Wrapped, Index
<1>2. ASSUME NEW i \in 1 .. Count'
      PROVE  Pending'[i] = IF i = Count + 1 THEN v ELSE Pending[i]
  <2>1. Count \in 0 .. InjectMax - 1 /\ i \in 1 .. Count + 1 /\ i \in Int
    BY <1>1, <1>2, CellFacts
  <2>2. Pending'[i] = buffer'[Cell(i - 1)']
    BY <1>2 DEF Pending
  <2>3. Cell(i - 1)' = Cell(i - 1)
    BY DEF Inject, Cell
  <2>4. CASE i = Count + 1
    <3>1. Cell(i - 1) = head /\ head \in Index
      BY <1>1, <1>2, <2>1, <2>4 DEF TypeOK, Count, Cell, Index
    <3>2. QED
      BY <2>2, <2>3, <2>4, <3>1 DEF TypeOK, Inject
  <2>5. CASE i # Count + 1
    <3>1. i \in 1 .. Count
      BY <2>1, <2>5
    <3>2. Cell(i - 1) \in Index /\ Cell(i - 1) # head
      BY <3>1, CellFacts
    <3>3. QED
      BY <2>2, <2>3, <2>5, <3>1, <3>2 DEF TypeOK, Inject, Pending
  <2>6. QED BY <2>4, <2>5
<1>3. QED BY <1>1, <1>2

\* Reading removes the oldest byte and leaves the others in their order.
LEMMA ReadPending ==
  ASSUME TypeOK, Read
  PROVE  /\ Count > 0 /\ Count' = Count - 1
         /\ answer' = Pending[1]
         /\ \A i \in 1 .. Count' : Pending'[i] = Pending[i + 1]
<1>1. Count \in 1 .. InjectMax - 1 /\ Count' = Count - 1
  BY CellFacts DEF TypeOK, Read, HasInjected, Count, Wrapped, Index
<1>2. answer' = Pending[1]
  BY <1>1 DEF TypeOK, Read, Pending, Cell, Index
<1>3. ASSUME NEW i \in 1 .. Count'
      PROVE  Pending'[i] = Pending[i + 1]
  <2>1. Cell(i - 1)' = Cell(i)
    BY <1>1, <1>3 DEF TypeOK, Read, Cell, Wrapped, Index, Count
  <2>2. Pending'[i] = buffer'[Cell(i - 1)']
    BY <1>3 DEF Pending
  <2>3. i + 1 \in 1 .. Count /\ Pending[i + 1] = buffer[Cell(i)]
    BY <1>1, <1>3 DEF Pending
  <2>4. QED BY <2>1, <2>2, <2>3 DEF Read
<1>4. QED BY <1>1, <1>2, <1>3

\* A step that leaves the ring's three variables alone leaves its content.
LEMMA SameRing ==
  ASSUME UNCHANGED <<buffer, head, tail>>
  PROVE  Pending' = Pending /\ Count' = Count
<1>1. Count' = Count
  BY DEF Count
<1>2. QED BY <1>1 DEF Pending, Cell

(***************************************************************************)
(* The inductive invariant.                                                *)
(***************************************************************************)

LEMMA InitIInv == RingInit => IInv
  BY DEF RingInit, IInv, TypeOK, PendingWasInjected, OffersAreSpaced, Index, Count, Pending

LEMMA NextIInv == IInv /\ [RingNext]_ringVars => IInv'
<1> SUFFICES ASSUME IInv, [RingNext]_ringVars PROVE IInv'
  OBVIOUS
<1> USE DEF IInv
<1>1. ASSUME NEW v \in Key, Inject(v) PROVE IInv'
  <2>1. TypeOK'
    BY <1>1 DEF TypeOK, Inject, Index, Wrapped
  <2>2. PendingWasInjected'
    BY <1>1, InjectPending, CellFacts DEF PendingWasInjected
  <2>3. OffersAreSpaced'
    BY <1>1 DEF OffersAreSpaced, Inject
  <2>4. QED BY <2>1, <2>2, <2>3
<1>2. CASE StatusWait
  <2>1. TypeOK' /\ OffersAreSpaced'
    BY <1>2 DEF TypeOK, OffersAreSpaced, StatusWait
  <2>2. PendingWasInjected'
    BY <1>2, SameRing DEF StatusWait, PendingWasInjected
  <2>3. QED BY <2>1, <2>2
<1>3. CASE StatusData
  <2>1. TypeOK' /\ OffersAreSpaced'
    BY <1>3 DEF TypeOK, OffersAreSpaced, StatusData
  <2>2. PendingWasInjected'
    BY <1>3, SameRing DEF StatusData, PendingWasInjected
  <2>3. QED BY <2>1, <2>2
<1>4. CASE Read
  <2>1. TypeOK'
    BY <1>4 DEF TypeOK, Read, Index, Wrapped
  <2>2. PendingWasInjected'
    BY <1>4, ReadPending, CellFacts DEF PendingWasInjected
  <2>3. OffersAreSpaced'
    BY <1>4 DEF OffersAreSpaced, Read
  <2>4. QED BY <2>1, <2>2, <2>3
<1>5. CASE UNCHANGED ringVars
  BY <1>5 DEF ringVars, TypeOK, PendingWasInjected, OffersAreSpaced, Pending, Count, Cell
<1>6. QED BY <1>1, <1>2, <1>3, <1>4, <1>5 DEF RingNext

LEMMA SpecIInv == RingSpec => []IInv
  BY InitIInv, NextIInv, PTL DEF RingSpec

\* The two indices of console.c never leave the ring, nor does the pause grow.
THEOREM RingTypeOK == RingSpec => []TypeOK
  BY SpecIInv, PTL DEF IInv

\* Every byte that console_read() can still return was injected.
THEOREM RingReadsInjected == RingSpec => []PendingWasInjected
  BY SpecIInv, PTL DEF IInv

\* Two offers of a key are at least InjectPause waits apart.
THEOREM RingSpacesOffers == RingSpec => []OffersAreSpaced
  BY SpecIInv, PTL DEF IInv

(***************************************************************************)
(* The ring implements the queue.                                          *)
(***************************************************************************)

LEMMA PendingIsSeq ==
  ASSUME IInv
  PROVE  Pending \in Seq(Key) /\ Len(Pending) = Count /\ (Pending = <<>> <=> Count = 0)
<1>1. Count \in Nat
  BY CellFacts DEF IInv
<1>2. \A i \in 1 .. Count : Pending[i] \in Key
  BY DEF IInv, PendingWasInjected
<1>3. Pending \in [1 .. Count -> Key]
  BY <1>1, <1>2 DEF Pending
<1>4. Pending \in Seq(Key) /\ Len(Pending) = Count
  BY <1>1, <1>3 DEF Pending
<1>5. QED BY <1>1, <1>4

LEMMA InitRefines == RingInit => Queue!Init
<1> SUFFICES ASSUME RingInit PROVE Queue!Init
  OBVIOUS
<1>1. Pending = <<>>
  BY InitIInv, PendingIsSeq DEF RingInit, Count
<1>2. QED BY <1>1 DEF RingInit, Queue!Init

LEMMA NextRefines == IInv /\ IInv' /\ [RingNext]_ringVars => [Queue!Next]_(Queue!vars)
<1> SUFFICES ASSUME IInv, IInv', [RingNext]_ringVars PROVE [Queue!Next]_(Queue!vars)
  OBVIOUS
<1>0. /\ Pending \in Seq(Key) /\ Len(Pending) = Count /\ (Pending = <<>> <=> Count = 0)
      /\ Count \in 0 .. InjectMax - 1 /\ (Count = 0 <=> ~HasInjected)
  BY PendingIsSeq, CellFacts DEF IInv
<1>00. Pending' \in Seq(Key) /\ Len(Pending') = Count' /\ (Pending' = <<>> <=> Count' = 0)
  <2>1. IInv' => (Pending \in Seq(Key) /\ Len(Pending) = Count /\ (Pending = <<>> <=> Count = 0))'
    BY PendingIsSeq, PTL
  <2>2. QED BY <2>1
<1>1. ASSUME NEW v \in Key, Inject(v) PROVE Queue!Inject(v)
  <2>1. Pending' = Queue!Put(Pending, v)
    <3>1. CASE Count = InjectMax - 1
      BY <1>0, <1>00, <1>1, <3>1, InjectPending DEF IInv, Queue!Put
    <3>2. CASE Count # InjectMax - 1
      <4>1. Count' = Count + 1
            /\ \A i \in 1 .. Count + 1 : Pending'[i] = IF i = Count + 1 THEN v ELSE Pending[i]
        BY <1>1, <3>2, InjectPending DEF IInv
      <4>2. Append(Pending, v) \in Seq(Key) /\ Len(Append(Pending, v)) = Count + 1
            /\ \A i \in 1 .. Count + 1 :
                 Append(Pending, v)[i] = IF i = Count + 1 THEN v ELSE Pending[i]
        BY <1>0, <1>1
      <4>3. Pending' = Append(Pending, v)
        BY <1>0, <1>00, <4>1, <4>2
      <4>4. QED BY <1>0, <3>2, <4>3 DEF Queue!Put
    <3>3. QED BY <3>1, <3>2
  <2>2. QED BY <1>1, <2>1 DEF Inject, Queue!Inject
<1>2. ASSUME StatusWait PROVE Queue!StatusWait
  BY <1>0, <1>2, SameRing DEF StatusWait, Queue!StatusWait
<1>3. ASSUME StatusData PROVE Queue!StatusData
  BY <1>0, <1>3, SameRing DEF StatusData, Queue!StatusData, IInv, TypeOK
<1>4. ASSUME Read PROVE Queue!Read
  <2>1. Count > 0 /\ Count' = Count - 1 /\ answer' = Pending[1]
        /\ \A i \in 1 .. Count - 1 : Pending'[i] = Pending[i + 1]
    BY <1>4, ReadPending DEF IInv
  <2>2. Tail(Pending) \in Seq(Key) /\ Len(Tail(Pending)) = Count - 1
        /\ \A i \in 1 .. Count - 1 : Tail(Pending)[i] = Pending[i + 1]
    BY <1>0, <2>1
  <2>3. Pending' = Tail(Pending)
    BY <1>0, <1>00, <2>1, <2>2
  <2>4. QED BY <1>0, <1>4, <2>1, <2>3 DEF Read, Queue!Read
<1>5. ASSUME UNCHANGED ringVars PROVE UNCHANGED Queue!vars
  BY <1>5, SameRing DEF ringVars, Queue!vars
<1>6. QED BY <1>1, <1>2, <1>3, <1>4, <1>5 DEF RingNext, Queue!Next

\* The ring of InjectMax cells is a queue of InjectMax - 1 keys that loses
\* everything when one key too many is put into it.
THEOREM RingRefinesQueue == RingSpec => RingIsQueue
  BY SpecIInv, InitRefines, NextRefines, PTL DEF RingSpec, RingIsQueue, Queue!Spec
==============================================================================

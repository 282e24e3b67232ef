--------------------------- MODULE EmulatorProofs ----------------------------
(* Proofs about the emulator's loop, for every set of keys and all bounds.  *)
EXTENDS Emulator, SequenceTheorems, TLAPS

USE NewlineAssumption, InjectAssumption

(***************************************************************************)
(* The break, the panic message and the terminal mode.                     *)
(***************************************************************************)

\* TerminalMode and PanicStopsGuest are inductive together once the prompt
\* is known to be cooked and the places of main() are known.
ModeInv ==
  /\ loop \in {"check", "prompt", "overwrite", "resume", "run", "exit"}
  /\ brk \in BOOLEAN
  /\ term \in {"raw", "cooked"}
  /\ PanicStopsGuest
  /\ TerminalMode

LEMMA InitModeInv == Init => ModeInv
  BY DEF Init, ModeInv, PanicStopsGuest, TerminalMode, NoPanic

\* An instruction ends in the test of the break, and a panic sets the break.
LEMMA ExecutedModeInv ==
  ASSUME ModeInv, NEW p, Executed(p) PROVE ModeInv'
  BY DEF ModeInv, Executed, PanicStopsGuest, TerminalMode, NoPanic

LEMMA ExitModeInv ==
  ASSUME ModeInv, NEW why, Exit(why), loop # "check" PROVE ModeInv'
  BY DEF ModeInv, Exit, PanicStopsGuest, TerminalMode, NoPanic

LEMMA NextModeInv == ModeInv /\ [Next]_vars => ModeInv'
<1> SUFFICES ASSUME ModeInv, [Next]_vars PROVE ModeInv'
  OBVIOUS
<1> USE DEF ModeInv, PanicStopsGuest, TerminalMode, NoPanic
<1>1. CASE Check
  BY <1>1 DEF Check
<1>2. CASE OpenDebugger
  BY <1>2 DEF OpenDebugger
<1>3. CASE Resume
  BY <1>3 DEF Resume
<1>4. CASE Debugger
  <2>1. CASE Leave
    BY <2>1 DEF Leave
  <2>2. CASE QuitDebugger
    BY <2>2, ExitModeInv DEF QuitDebugger
  <2>3. CASE SendControl \/ Breakpoint \/ SaveDisk \/ Overwrite \/ PrintOnly
    BY <2>3 DEF SendControl, Breakpoint, SaveDisk, Overwrite, PrintOnly, hostVars
  <2>4. QED BY <1>4, <2>1, <2>2, <2>3 DEF Debugger
<1>5. CASE Guest
  <2>1. CASE App
    BY <2>1, ExecutedModeInv DEF App
  <2>2. CASE StatusInjected \/ StatusPoll
    BY <2>2, ExecutedModeInv DEF StatusInjected, StatusPoll
  <2>3. CASE Test \/ ReadInjected \/ ReadKey
    BY <2>3, ExecutedModeInv DEF Test, ReadInjected, ReadKey
  <2>4. CASE QuitCommand \/ ReadFails
    BY <2>4, ExitModeInv DEF QuitCommand, ReadFails
  <2>5. QED BY <1>5, <2>1, <2>2, <2>3, <2>4 DEF Guest
<1>6. CASE (\E k \in Key : Type(k)) \/ Close
  BY <1>6 DEF Type, Close, hostVars
<1>7. CASE Sigint
  BY <1>7 DEF Sigint
<1>8. CASE Fill \/ UNCHANGED vars
  BY <1>8 DEF Fill, vars, hostVars
<1>9. QED BY <1>1, <1>2, <1>3, <1>4, <1>5, <1>6, <1>7, <1>8 DEF Next, Main

\* The guest never runs on with the terminal cooked, nor the debugger with
\* it raw, wherever a SIGINT falls.
THEOREM TerminalModeHolds == Spec => []TerminalMode
<1>1. ModeInv => TerminalMode
  BY DEF ModeInv
<1>2. QED BY <1>1, InitModeInv, NextModeInv, PTL DEF Spec

\* A panic reaches the prompt before another instruction runs.
THEOREM PanicStopsGuestHolds == Spec => []PanicStopsGuest
<1>1. ModeInv => PanicStopsGuest
  BY DEF ModeInv
<1>2. QED BY <1>1, InitModeInv, NextModeInv, PTL DEF Spec

(***************************************************************************)
(* A key that was announced is still there when it is read.                *)
(***************************************************************************)

Available == queue # <<>> \/ stdio # <<>> \/ Readable # {} \/ closed

InputTyped ==
  /\ stdio \in Seq(Key) /\ tty \in Seq(Key) /\ ready \in 0 .. Len(tty)
  /\ closed \in BOOLEAN /\ typed \in 0 .. MaxTyped

\* KeyIsThere holds when the read begins because it held when the status
\* answered; between the two only the prompt and a signal take keys away.
KeyInv ==
  /\ InputTyped
  /\ broke \in BOOLEAN
  /\ loop \in {"prompt", "overwrite", "resume"} => broke
  /\ guest = "test" /\ answer = "data" /\ ~broke => Available
  /\ guest = "read" /\ ~broke => Available

LEMMA InitInput == Init => InputTyped
<1> SUFFICES ASSUME Init PROVE InputTyped
  OBVIOUS
<1>1. <<>> \in Seq(Key) /\ Len(<<>>) = 0
  OBVIOUS
<1>2. 0 \in 0 .. MaxTyped /\ 0 \in 0 .. 0
  BY MaxTypedAssumption
<1>3. stdio = <<>> /\ tty = <<>> /\ ready = 0 /\ closed = FALSE /\ typed = 0
  BY DEF Init
<1> QED BY <1>1, <1>2, <1>3 DEF InputTyped

\* What is taken from stdin leaves a sequence of keys.
LEMMA TakeIsTyped ==
  ASSUME InputTyped, NEW n \in Nat, Take(n)
  PROVE  InputTyped'
<1>1. stdio' = SubSeq(stdio, n + 1, Len(stdio)) /\ UNCHANGED <<tty, ready, closed, typed>>
  BY DEF Take
<1>2. \A m \in n + 1 .. Len(stdio) : m \in 1 .. Len(stdio)
  OBVIOUS
<1>3. stdio' \in Seq(Key)
  BY <1>1, <1>2 DEF InputTyped
<1> QED BY <1>1, <1>3 DEF InputTyped

\* A read() returns a part of what the kernel has, and never nothing.
LEMMA ReadableIsPart ==
  ASSUME InputTyped, NEW k \in Readable
  PROVE  k \in 1 .. Len(tty)
<1>1. Len(tty) \in Nat /\ ready \in Nat /\ ready <= Len(tty)
  BY DEF InputTyped
<1>2. CASE term = "raw"
  BY <1>1, <1>2 DEF Readable
<1>3. CASE term # "raw" /\ ready > 0
  BY <1>1, <1>3 DEF Readable
<1>4. CASE term # "raw" /\ ~(ready > 0)
  BY <1>1, <1>4 DEF Readable, FirstLine
<1> QED BY <1>1, <1>2, <1>3, <1>4

LEMMA FillIsTyped ==
  ASSUME InputTyped, Fill
  PROVE  InputTyped' /\ stdio' # <<>>
<1>1. PICK k \in Readable :
        stdio' = stdio \o SubSeq(tty, 1, k) /\ tty' = SubSeq(tty, k + 1, Len(tty))
  BY DEF Fill
<1>2. k \in 1 .. Len(tty)
  BY ReadableIsPart
<1>3. SubSeq(tty, 1, k) \in Seq(Key) /\ Len(SubSeq(tty, 1, k)) = k
  BY <1>2 DEF InputTyped
<1>4. stdio' \in Seq(Key) /\ Len(stdio') = Len(stdio) + k
  BY <1>1, <1>3, ConcatProperties DEF InputTyped
<1>5. stdio' # <<>>
  <2>1. Len(stdio') > 0
    BY <1>2, <1>4 DEF InputTyped
  <2> QED BY <2>1
<1>6. tty' \in Seq(Key)
  <2>1. \A m \in k + 1 .. Len(tty) : m \in 1 .. Len(tty)
    BY <1>2
  <2> QED BY <1>1, <1>2, <2>1 DEF InputTyped
<1>7. ready' \in 0 .. Len(tty')
  <2>1. ready' = 0 /\ Len(tty') \in Nat
    BY <1>6 DEF Fill
  <2> QED BY <2>1
<1> QED BY <1>4, <1>5, <1>6, <1>7 DEF Fill, InputTyped

\* The change to canonical mode.
LEMMA MadeReadyIsTyped ==
  ASSUME InputTyped, MadeReady, UNCHANGED <<stdio, tty, closed, typed>>
  PROVE  InputTyped'
<1>1. ready' \in {0, ready, Len(tty)}
  BY DEF MadeReady
<1>2. 0 \in 0 .. Len(tty) /\ Len(tty) \in 0 .. Len(tty)
  BY DEF InputTyped
<1>3. ready' \in 0 .. Len(tty)
  BY <1>1, <1>2 DEF InputTyped
<1> QED BY <1>3 DEF InputTyped

\* A key more leaves what could be read, and in raw mode can be read itself.
LEMMA TypeIsTyped ==
  ASSUME InputTyped, NEW k \in Key, Type(k)
  PROVE  InputTyped' /\ (Available => Available')
<1>1. /\ tty' = Append(tty, k) /\ typed' = typed + 1 /\ typed < MaxTyped /\ ~closed
      /\ UNCHANGED <<stdio, ready, closed, queue, term>>
  BY DEF Type, hostVars, injectVars, guestVars
<1>2. /\ tty' \in Seq(Key) /\ Len(tty') = Len(tty) + 1 /\ Len(tty) \in Nat
      /\ \A m \in 1 .. Len(tty) : tty'[m] = tty[m]
  BY <1>1, AppendProperties DEF InputTyped
<1>3. ready' \in 0 .. Len(tty')
  BY <1>1, <1>2 DEF InputTyped
<1>4. typed' \in 0 .. MaxTyped
  BY <1>1, MaxTypedAssumption DEF InputTyped
<1>5. InputTyped'
  BY <1>1, <1>2, <1>3, <1>4 DEF InputTyped
<1>6. Readable # {} => Readable' # {}
  <2>1. CASE term = "raw"
    BY <1>1, <1>2, <2>1 DEF Readable
  <2>2. CASE term # "raw" /\ ready > 0
    BY <1>1, <2>2 DEF Readable
  <2>3. CASE term # "raw" /\ ~(ready > 0)
    <3>1. Readable = FirstLine(tty, closed) /\ Readable' = FirstLine(tty', closed)
      BY <1>1, <2>3 DEF Readable
    <3>2. ASSUME NEW n \in FirstLine(tty, closed)
          PROVE  n \in FirstLine(tty', closed)
      <4>1. /\ n \in 1 .. Len(tty) /\ tty[n] = Newline
            /\ \A m \in 1 .. n - 1 : tty[m] # Newline
        BY <1>1, <3>2 DEF FirstLine
      <4>2. n \in 1 .. Len(tty') /\ tty'[n] = Newline
        BY <1>2, <4>1
      <4>3. \A m \in 1 .. n - 1 : tty'[m] # Newline
        BY <1>2, <4>1
      <4> QED BY <4>2, <4>3 DEF FirstLine
    <3> QED BY <3>1, <3>2
  <2> QED BY <2>1, <2>2, <2>3
<1> QED BY <1>1, <1>5, <1>6 DEF Available

LEMMA SigintIsTyped ==
  ASSUME InputTyped, Sigint
  PROVE  InputTyped'
<1>1. CASE UNCHANGED <<tty, ready>>
  BY <1>1 DEF Sigint, InputTyped
<1>2. CASE tty' = <<>> /\ ready' = 0
  <2>1. tty' \in Seq(Key) /\ ready' \in 0 .. Len(tty')
    BY <1>2
  <2> QED BY <2>1 DEF Sigint, InputTyped
<1> QED BY <1>1, <1>2 DEF Sigint

\* A command takes a line, or nothing.
LEMMA DebuggerTakes ==
  ASSUME InputTyped, Debugger
  PROVE  InputTyped'
<1>1. LineEnds \subseteq Nat
  BY DEF LineEnds, FirstLine
<1>2. (\E n \in Nat : Take(n)) \/ UNCHANGED inputVars
  <2>1. CASE SendControl \/ Breakpoint
    BY <1>1, <2>1, Zenon DEF SendControl, Breakpoint
  <2>2. CASE Leave \/ QuitDebugger \/ SaveDisk \/ Overwrite \/ PrintOnly
    BY <1>1, <2>2 DEF Leave, QuitDebugger, SaveDisk, Overwrite, PrintOnly
  <2> QED BY <2>1, <2>2 DEF Debugger
<1>3. CASE \E n \in Nat : Take(n)
  BY <1>3, TakeIsTyped
<1>4. CASE UNCHANGED inputVars
  BY <1>4 DEF inputVars, InputTyped
<1> QED BY <1>2, <1>3, <1>4

\* A command leaves the guest and its history alone; the prompt was a break.
LEMMA DebuggerKeyInv ==
  ASSUME KeyInv, Debugger PROVE KeyInv'
<1>1. UNCHANGED <<guest, answer, broke>> /\ broke /\ broke'
  BY DEF KeyInv, Debugger, Leave, QuitDebugger, SendControl, Breakpoint, SaveDisk,
         Overwrite, PrintOnly, guestVars
<1>2. InputTyped'
  BY DebuggerTakes DEF KeyInv
<1> QED BY <1>1, <1>2 DEF KeyInv

\* A status answers "data" only while something can be read.
LEMMA StatusKeyInv ==
  ASSUME KeyInv, StatusInjected \/ StatusPoll PROVE KeyInv'
<1>1. /\ loop' = "check" /\ UNCHANGED inputVars /\ guest' \in {"app", "test"}
      /\ broke' = (broke /\ answer' # "data")
      /\ UNCHANGED <<queue, term>>
  BY DEF StatusInjected, StatusPoll, StatusReturns, Executed, injectVars,
         Queue!StatusWait, Queue!StatusData
<1>2. answer' = "data" => Available
  <2>1. CASE StatusInjected
    BY <2>1 DEF StatusInjected, Available, Queue!StatusWait, Queue!StatusData
  <2>2. CASE StatusPoll
    BY <2>2 DEF StatusPoll, PollFindsData, Available
  <2> QED BY <2>1, <2>2
<1>3. UNCHANGED Available
  BY <1>1 DEF Available, Readable, inputVars
<1>4. InputTyped'
  BY <1>1 DEF KeyInv, InputTyped, inputVars
<1> QED BY <1>1, <1>2, <1>3, <1>4 DEF KeyInv

LEMMA NextKeyInv == KeyInv /\ [Next]_vars => KeyInv'
<1> SUFFICES ASSUME KeyInv, [Next]_vars PROVE KeyInv'
  OBVIOUS
<1>1. CASE Check
  <2>1. /\ UNCHANGED <<term, injectVars, inputVars, guestVars>> /\ loop' = "run"
    BY <1>1 DEF Check
  <2> QED BY <2>1 DEF KeyInv, InputTyped, Available, Readable, injectVars, inputVars, guestVars
<1>2. CASE OpenDebugger
  <2>1. InputTyped'
    BY <1>2, MadeReadyIsTyped DEF OpenDebugger, KeyInv
  <2> QED BY <1>2, <2>1 DEF OpenDebugger, KeyInv
<1>3. CASE Resume
  BY <1>3 DEF Resume, KeyInv, InputTyped, inputVars, guestVars
<1>4. CASE Debugger
  BY <1>4, DebuggerKeyInv
<1>5. CASE Guest
  <2>1. CASE App \/ QuitCommand
    BY <2>1 DEF App, QuitCommand, Executed, Exit, KeyInv, InputTyped, inputVars, guestVars
  <2>2. CASE ReadFails
    <3>1. /\ UNCHANGED <<inputVars, guestVars>> /\ loop' = "exit" /\ guest = "read"
          /\ queue = <<>> /\ stdio = <<>> /\ Readable = {}
      BY <2>2 DEF ReadFails, Exit
    <3> QED BY <3>1 DEF KeyInv, InputTyped, Available, inputVars, guestVars
  <2>3. CASE StatusInjected \/ StatusPoll
    BY <2>3, StatusKeyInv
  <2>4. CASE Test
    <3>1. /\ UNCHANGED <<term, broke, answer, injectVars, inputVars>> /\ loop' = "check"
          /\ guest = "test" /\ guest' = IF answer = "data" THEN "read" ELSE "conin"
      BY <2>4 DEF Test, Executed
    <3> QED BY <3>1 DEF KeyInv, InputTyped, Available, Readable, injectVars, inputVars
  <2>5. CASE ReadInjected
    BY <2>5 DEF ReadInjected, Executed, KeyInv, InputTyped, inputVars
  <2>6. CASE ReadKey
    <3>1. guest' = "app" /\ loop' = "check" /\ broke' = broke /\ Take(1)
      BY <2>6 DEF ReadKey, Executed
    <3>2. InputTyped'
      BY <3>1, TakeIsTyped DEF KeyInv
    <3> QED BY <3>1, <3>2 DEF KeyInv
  <2> QED BY <1>5, <2>1, <2>2, <2>3, <2>4, <2>5, <2>6 DEF Guest
<1>6. CASE Fill
  <2>1. InputTyped' /\ stdio' # <<>>
    BY <1>6, FillIsTyped DEF KeyInv
  <2> QED BY <1>6, <2>1 DEF Fill, KeyInv, Available, hostVars, guestVars
<1>7. ASSUME NEW k \in Key, Type(k) PROVE KeyInv'
  <2>1. UNCHANGED <<loop, guest, answer, broke>>
    BY <1>7 DEF Type, hostVars, guestVars
  <2>2. InputTyped' /\ (Available => Available')
    BY <1>7, TypeIsTyped DEF KeyInv
  <2> QED BY <2>1, <2>2 DEF KeyInv
<1>8. CASE Close
  BY <1>8 DEF Close, KeyInv, InputTyped, Available, hostVars, injectVars, guestVars
<1>9. CASE Sigint
  <2>1. InputTyped'
    BY <1>9, SigintIsTyped DEF KeyInv
  <2> QED BY <1>9, <2>1 DEF Sigint, KeyInv
<1>10. CASE UNCHANGED vars
  BY <1>10 DEF vars, KeyInv, InputTyped, Available, Readable, hostVars, injectVars, inputVars,
               guestVars
<1> QED BY <1>1, <1>2, <1>3, <1>4, <1>5, <1>6, <1>7, <1>8, <1>9, <1>10 DEF Next, Main

\* Without a break between status and read, console_read() finds a key: only
\* a break can make the read wait, or end the emulator while stdin is open.
THEOREM KeyIsThereHolds == Spec => []KeyIsThere
<1>1. KeyInv => KeyIsThere
  BY DEF KeyInv, KeyIsThere, Available
<1>2. Init => KeyInv
  BY InitInput DEF Init, KeyInv
<1>3. QED BY <1>1, <1>2, NextKeyInv, PTL DEF Spec

(***************************************************************************)
(* What every variable holds.                                              *)
(***************************************************************************)

HostTyped ==
  /\ loop \in {"check", "prompt", "overwrite", "resume", "run", "exit"}
  /\ brk \in BOOLEAN /\ bp \in BOOLEAN
  /\ panicMsg \in {NoPanic, "range", "poll", "breakpoint"}
  /\ term \in {"raw", "cooked"}
  /\ exit \in {"running", "quit", "eof", "again"} /\ (exit = "running" <=> loop # "exit")

GuestTyped ==
  /\ guest \in {"app", "constat", "conin", "test", "read"}
  /\ answer \in Key \cup {"idle", "none", "wait", "data", "ctrl", "bs", "cr"}
  /\ broke \in BOOLEAN

QueueTyped ==
  /\ queue \in Seq(Key \cup {"ctrl"}) /\ Len(queue) <= Capacity
  /\ pause \in 0 .. InjectPause

LEMMA PartsOfTypeOK == TypeOK <=> HostTyped /\ GuestTyped /\ QueueTyped /\ InputTyped
BY DEF TypeOK, HostTyped, GuestTyped, QueueTyped, InputTyped

\* An instruction, and a way out.
LEMMA ExecutedIsTyped ==
  ASSUME HostTyped, NEW p \in {NoPanic, "range", "poll"}, Executed(p)
  PROVE  HostTyped'
<1>1. PICK hit \in BOOLEAN :
        /\ panicMsg' = IF hit THEN "breakpoint" ELSE IF p = NoPanic THEN panicMsg ELSE p
        /\ brk' = (brk \/ hit \/ p # NoPanic)
  BY DEF Executed
<1>2. loop = "run" /\ loop' = "check" /\ term' = term /\ bp' = bp /\ exit' = exit
  BY DEF Executed
<1>3. brk' \in BOOLEAN
  BY <1>1
<1>4. panicMsg' \in {NoPanic, "range", "poll", "breakpoint"}
  BY <1>1 DEF HostTyped
<1> QED BY <1>2, <1>3, <1>4 DEF HostTyped

LEMMA ExitIsTyped ==
  ASSUME HostTyped, NEW why \in {"quit", "eof", "again"}, Exit(why)
  PROVE  HostTyped'
BY DEF Exit, HostTyped

\* One key more in the injection buffer, or none at all.
LEMMA PutIsTyped ==
  ASSUME QueueTyped, NEW v \in Key \cup {"ctrl"}
  PROVE  Queue!Put(queue, v) \in Seq(Key \cup {"ctrl"}) /\ Len(Queue!Put(queue, v)) <= Capacity
<1>1. Len(queue) \in Nat /\ Capacity \in Nat
  BY LenProperties DEF QueueTyped
<1>2. CASE Len(queue) >= Capacity
  <2>1. Queue!Put(queue, v) = <<>> /\ <<>> \in Seq(Key \cup {"ctrl"}) /\ Len(<<>>) = 0
    BY <1>2 DEF Queue!Put
  <2> QED BY <1>1, <2>1
<1>3. CASE ~(Len(queue) >= Capacity)
  <2>1. Queue!Put(queue, v) = Append(queue, v)
    BY <1>3 DEF Queue!Put
  <2> QED BY <1>1, <1>3, <2>1, AppendProperties DEF QueueTyped
<1> QED BY <1>2, <1>3

LEMMA DebuggerIsTyped ==
  ASSUME TypeOK, Debugger
  PROVE  TypeOK'
<1>0. HostTyped /\ GuestTyped /\ QueueTyped /\ InputTyped
  BY PartsOfTypeOK
<1>1. InputTyped'
  BY <1>0, DebuggerTakes
<1>2. CASE Leave
  <2>1. PICK n \in LineEnds : brk' = (Command(n) = "s") /\ Take(n)
    BY <1>2 DEF Leave
  <2>2. HostTyped'
    BY <1>0, <1>2, <2>1 DEF Leave, HostTyped
  <2>3. GuestTyped' /\ QueueTyped'
    BY <1>0, <1>2 DEF Leave, guestVars, injectVars, GuestTyped, QueueTyped
  <2> QED BY <1>1, <2>2, <2>3 DEF TypeOK, HostTyped, GuestTyped, QueueTyped, InputTyped
<1>3. CASE QuitDebugger
  <2>1. HostTyped'
    BY <1>0, <1>3, ExitIsTyped DEF QuitDebugger
  <2>2. GuestTyped' /\ QueueTyped'
    BY <1>0, <1>3 DEF QuitDebugger, guestVars, injectVars, GuestTyped, QueueTyped
  <2> QED BY <1>1, <2>1, <2>2 DEF TypeOK, HostTyped, GuestTyped, QueueTyped, InputTyped
<1>4. CASE SendControl
  <2>1. queue' = Queue!Put(queue, "ctrl") \/ queue' = queue
    BY <1>4, Zenon DEF SendControl
  <2>2. QueueTyped'
    <3>1. pause' = pause
      BY <1>4 DEF SendControl
    <3>2. "ctrl" \in Key \cup {"ctrl"}
      OBVIOUS
    <3> QED BY <1>0, <2>1, <3>1, <3>2, PutIsTyped DEF QueueTyped
  <2>3. HostTyped' /\ GuestTyped'
    BY <1>0, <1>4 DEF SendControl, hostVars, guestVars, HostTyped, GuestTyped
  <2> QED BY <1>1, <2>2, <2>3 DEF TypeOK, HostTyped, GuestTyped, QueueTyped, InputTyped
<1>5. CASE Breakpoint
  <2>1. PICK n \in LineEnds : Take(n) /\ bp' \in IF HasArgument(n) THEN {TRUE, bp} ELSE {FALSE}
    BY <1>5, Zenon DEF Breakpoint
  <2>2. bp' \in BOOLEAN
    <3>1. bp' \in {TRUE, FALSE, bp}
      BY <2>1
    <3> QED BY <1>0, <3>1 DEF HostTyped
  <2>3. HostTyped'
    BY <1>0, <1>5, <2>2 DEF Breakpoint, HostTyped
  <2>4. GuestTyped' /\ QueueTyped'
    BY <1>0, <1>5 DEF Breakpoint, guestVars, injectVars, GuestTyped, QueueTyped
  <2> QED BY <1>1, <2>3, <2>4 DEF TypeOK, HostTyped, GuestTyped, QueueTyped, InputTyped
<1>6. CASE SaveDisk \/ Overwrite \/ PrintOnly
  <2>1. HostTyped' /\ GuestTyped' /\ QueueTyped'
    BY <1>0, <1>6 DEF SaveDisk, Overwrite, PrintOnly, hostVars, guestVars, injectVars,
                      HostTyped, GuestTyped, QueueTyped
  <2> QED BY <1>1, <2>1 DEF TypeOK, HostTyped, GuestTyped, QueueTyped, InputTyped
<1> QED BY <1>2, <1>3, <1>4, <1>5, <1>6 DEF Debugger

LEMMA GuestIsTyped ==
  ASSUME TypeOK, Guest
  PROVE  TypeOK'
<1>0. HostTyped /\ GuestTyped /\ QueueTyped /\ InputTyped
  BY PartsOfTypeOK
<1>1. CASE App \/ Test
  <2>1. HostTyped'
    BY <1>0, <1>1, ExecutedIsTyped DEF App, Test
  <2>2. GuestTyped' /\ QueueTyped' /\ InputTyped'
    BY <1>0, <1>1 DEF App, Test, injectVars, inputVars, GuestTyped, QueueTyped, InputTyped
  <2> QED BY <2>1, <2>2 DEF TypeOK, HostTyped, GuestTyped, QueueTyped, InputTyped
<1>2. CASE QuitCommand \/ ReadFails
  <2>1. HostTyped'
    BY <1>0, <1>2, ExitIsTyped DEF QuitCommand, ReadFails
  <2>2. GuestTyped' /\ QueueTyped' /\ InputTyped'
    BY <1>0, <1>2 DEF QuitCommand, ReadFails, injectVars, inputVars, guestVars,
                      GuestTyped, QueueTyped, InputTyped
  <2> QED BY <2>1, <2>2 DEF TypeOK, HostTyped, GuestTyped, QueueTyped, InputTyped
<1>3. CASE StatusInjected \/ StatusPoll
  <2>1. HostTyped'
    BY <1>0, <1>3, ExecutedIsTyped DEF StatusInjected, StatusPoll
  <2>2. broke' = (broke /\ answer' # "data") /\ guest' \in {"app", "test"} /\ UNCHANGED inputVars
    BY <1>3 DEF StatusInjected, StatusPoll, StatusReturns
  <2>3. answer' \in {"wait", "data", "none"}
    BY <1>3 DEF StatusInjected, StatusPoll, Queue!StatusWait, Queue!StatusData
  <2>4. broke' \in BOOLEAN
    BY <2>2
  <2>5. GuestTyped' /\ InputTyped'
    BY <1>0, <2>2, <2>3, <2>4 DEF GuestTyped, InputTyped, inputVars
  <2>6. QueueTyped'
    <3>1. queue' = queue
      BY <1>3 DEF StatusInjected, StatusPoll, Queue!StatusWait, Queue!StatusData, injectVars
    <3>2. pause' = pause \/ (pause > 0 /\ pause' = pause - 1) \/ pause' = InjectPause
      BY <1>3 DEF StatusInjected, StatusPoll, Queue!StatusWait, Queue!StatusData, injectVars
    <3> QED BY <1>0, <3>1, <3>2 DEF QueueTyped
  <2> QED BY <2>1, <2>5, <2>6 DEF TypeOK, HostTyped, GuestTyped, QueueTyped, InputTyped
<1>4. CASE ReadInjected
  <2>1. HostTyped'
    BY <1>0, <1>4, ExecutedIsTyped DEF ReadInjected
  <2>2. queue # <<>> /\ answer' = Head(queue) /\ queue' = Tail(queue) /\ pause' = pause
        /\ guest' = "app" /\ broke' = broke /\ UNCHANGED inputVars
    BY <1>4 DEF ReadInjected, Queue!Read
  <2>3. Head(queue) \in Key \cup {"ctrl"} /\ Tail(queue) \in Seq(Key \cup {"ctrl"})
        /\ Len(Tail(queue)) = Len(queue) - 1 /\ Len(queue) \in Nat
    BY <1>0, <2>2, HeadTailProperties, LenProperties DEF QueueTyped
  <2>4. QueueTyped'
    BY <1>0, <2>2, <2>3 DEF QueueTyped
  <2>5. GuestTyped' /\ InputTyped'
    BY <1>0, <2>2, <2>3 DEF GuestTyped, InputTyped, inputVars
  <2> QED BY <2>1, <2>4, <2>5 DEF TypeOK, HostTyped, GuestTyped, QueueTyped, InputTyped
<1>5. CASE ReadKey
  <2>1. HostTyped'
    BY <1>0, <1>5, ExecutedIsTyped DEF ReadKey
  <2>2. Take(1) /\ answer' = Convert(Head(stdio)) /\ stdio # <<>> /\ guest' = "app"
        /\ broke' = broke /\ UNCHANGED injectVars
    BY <1>5 DEF ReadKey
  <2>3. InputTyped'
    BY <1>0, <2>2, TakeIsTyped
  <2>4. Head(stdio) \in Key
    BY <1>0, <2>2, HeadTailProperties DEF InputTyped
  <2>5. Convert(Head(stdio)) \in Key \cup {"bs", "cr"}
    BY <2>4 DEF Convert
  <2>6. GuestTyped' /\ QueueTyped'
    BY <1>0, <2>2, <2>5 DEF GuestTyped, QueueTyped, injectVars
  <2> QED BY <2>1, <2>3, <2>6 DEF TypeOK, HostTyped, GuestTyped, QueueTyped, InputTyped
<1> QED BY <1>1, <1>2, <1>3, <1>4, <1>5 DEF Guest

LEMMA InitTypeOK == Init => TypeOK
<1> SUFFICES ASSUME Init
             PROVE  TypeOK
  OBVIOUS
<1>1. queue \in Seq(Key \cup {"ctrl"}) /\ Len(queue) <= Capacity
  <2>1. queue \in Seq(Key) /\ Len(queue) <= Capacity
    BY PreloadedAssumption DEF Init
  <2> QED BY <2>1
<1>2. HostTyped /\ GuestTyped
  BY DEF Init, HostTyped, GuestTyped
<1>3. QueueTyped
  BY <1>1 DEF Init, QueueTyped
<1> QED BY <1>2, <1>3, InitInput, PartsOfTypeOK

LEMMA NextTypeOK == TypeOK /\ [Next]_vars => TypeOK'
<1> SUFFICES ASSUME TypeOK, [Next]_vars
             PROVE  TypeOK'
  OBVIOUS
<1>0. HostTyped /\ GuestTyped /\ QueueTyped /\ InputTyped
  BY PartsOfTypeOK
<1>1. CASE Check \/ Resume
  BY <1>1 DEF Check, Resume, TypeOK, injectVars, inputVars, guestVars
<1>2. CASE OpenDebugger
  <2>1. InputTyped'
    BY <1>0, <1>2, MadeReadyIsTyped DEF OpenDebugger
  <2>2. HostTyped' /\ GuestTyped' /\ QueueTyped'
    BY <1>0, <1>2 DEF OpenDebugger, HostTyped, GuestTyped, QueueTyped, injectVars
  <2> QED BY <2>1, <2>2 DEF TypeOK, HostTyped, GuestTyped, QueueTyped, InputTyped
<1>3. CASE Debugger
  BY <1>3, DebuggerIsTyped
<1>4. CASE Guest
  BY <1>4, GuestIsTyped
<1>5. ASSUME Fill \/ (\E k \in Key : Type(k)) PROVE TypeOK'
  <2>1. InputTyped'
    BY <1>0, <1>5, FillIsTyped, TypeIsTyped
  <2>2. HostTyped' /\ GuestTyped' /\ QueueTyped'
    BY <1>0, <1>5 DEF Fill, Type, HostTyped, GuestTyped, QueueTyped, hostVars, injectVars,
                      guestVars
  <2> QED BY <2>1, <2>2 DEF TypeOK, HostTyped, GuestTyped, QueueTyped, InputTyped
<1>6. CASE Close
  BY <1>6 DEF Close, TypeOK, hostVars, injectVars, guestVars
<1>7. CASE Sigint
  <2>1. InputTyped'
    BY <1>0, <1>7, SigintIsTyped
  <2>2. HostTyped' /\ GuestTyped' /\ QueueTyped'
    BY <1>0, <1>7 DEF Sigint, HostTyped, GuestTyped, QueueTyped, injectVars
  <2> QED BY <2>1, <2>2 DEF TypeOK, HostTyped, GuestTyped, QueueTyped, InputTyped
<1>8. CASE UNCHANGED vars
  BY <1>8 DEF vars, TypeOK, hostVars, injectVars, inputVars, guestVars
<1> QED BY <1>1, <1>2, <1>3, <1>4, <1>5, <1>6, <1>7, <1>8 DEF Next, Main

\* The injection buffer never holds more than its capacity, the guest gets nothing but
\* keys and the answers of the console calls, and exit() is the only way out.
THEOREM TypeOKHolds == Spec => []TypeOK
BY InitTypeOK, NextTypeOK, PTL DEF Spec
==============================================================================

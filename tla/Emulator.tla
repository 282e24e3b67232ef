------------------------------ MODULE Emulator -------------------------------
(***************************************************************************)
(* The emulator as a whole: the loop of main(), the debugger prompt, the   *)
(* terminal mode, SIGINT, stdin with the two places a key can wait in, the *)
(* injection buffer, and the guest, which is the BIOS routine conin and    *)
(* whatever calls it.  One instruction of the guest is one step, and a     *)
(* read() that it or the prompt makes is one more.                         *)
(*                                                                         *)
(* A key is a token.  A line at the debugger prompt is a sequence of them: *)
(* the first is the command and the second its argument.                   *)
(***************************************************************************)
EXTENDS Integers, Sequences

CONSTANTS
  Key,          \* what can be typed; the commands are "c", "s", "q", "z", "b", "f"
  Newline,      \* the key that ends a line
  Preloaded,    \* contents of the injection buffer after -i and -I
  Capacity,     \* keys the injection buffer holds
  InjectPause,  \* CONSOLE_INJECT_PAUSE
  MaxTyped      \* bound: keys typed in a behaviour

ASSUME NewlineAssumption == Newline \in Key
ASSUME InjectAssumption == Capacity \in Nat /\ InjectPause \in Nat
ASSUME PreloadedAssumption == \A q \in Preloaded : q \in Seq(Key) /\ Len(q) <= Capacity
ASSUME MaxTypedAssumption == MaxTyped \in Nat

VARIABLES
  loop,      \* where main() is
  brk,       \* debugger_break
  panicMsg,  \* panic_msg, as the reason it names
  term,      \* terminal: "raw" is also O_NONBLOCK, "cooked" is canonical and blocking
  bp,        \* a breakpoint is set
  exit,      \* why exit() was called
  guest,     \* where the guest is
  answer,    \* d0 after the last trap 15
  queue,     \* the injection buffer
  pause,     \* console_inject_pause
  stdio,     \* bytes in the buffer of stdin
  tty,       \* bytes the kernel holds
  ready,     \* how many of them the change to canonical mode made a line of
  closed,    \* the other end of stdin is closed
  typed,     \* keys typed so far
  broke      \* history: a break came after the last "data" answer

hostVars == <<loop, brk, panicMsg, term, bp, exit>>
injectVars == <<queue, pause>>
inputVars == <<stdio, tty, ready, closed, typed>>
guestVars == <<guest, answer, broke>>
vars == <<hostVars, injectVars, inputVars, guestVars>>

Queue == INSTANCE InjectQueue WITH Byte <- Key \cup {"ctrl"}

NoPanic == "none"

Init ==
  /\ loop = "check" /\ brk \in BOOLEAN     \* -d
  /\ panicMsg = NoPanic /\ term = "raw" /\ bp = FALSE /\ exit = "running"
  /\ guest = "app" /\ answer = "idle" /\ broke = FALSE
  /\ queue \in Preloaded /\ pause = 0
  /\ stdio = <<>> /\ tty = <<>> /\ ready = 0 /\ closed = FALSE /\ typed = 0

\* exit() runs console_pause(), which console_init() gave to atexit(); what the
\* kernel makes of its keys then is for the shell.
Exit(why) ==
  /\ loop' = "exit" /\ exit' = why /\ term' = "cooked"
  /\ UNCHANGED <<brk, panicMsg, bp>>

------------------------------------------------------------------------------
(* Reading stdin. *)

Input == stdio \o tty

\* How long the first line of s is, as a set: empty while it has no end.
FirstLine(s, ended) ==
  {n \in 1 .. Len(s) :
     /\ \A m \in 1 .. n - 1 : s[m] # Newline
     /\ s[n] = Newline \/ (ended /\ n = Len(s))}

\* How many bytes a read() returns.  In raw mode all that the kernel has.  In
\* cooked mode a line, and before that in one piece what was typed raw, if the
\* change of the mode made a line of it.  While the set is empty a read()
\* fails in raw mode, and in cooked mode it waits.
Readable ==
  IF term = "raw" THEN {Len(tty)} \ {0}
  ELSE IF ready > 0 THEN {ready}
  ELSE FirstLine(tty, closed)

\* The keys that console_pause() finds in the kernel: Linux makes them a line,
\* others leave them to wait for a newline.  Cooked already, nothing changes.
MadeReady ==
  IF term = "cooked" THEN ready' = ready ELSE ready' \in {0, Len(tty)}

\* Take n bytes out of the buffer of stdin.
Take(n) ==
  /\ stdio' = SubSeq(stdio, n + 1, Len(stdio))
  /\ UNCHANGED <<tty, ready, closed, typed>>

\* Where the line ends that fgets() returns: the set is empty while it blocks.
LineEnds == FirstLine(stdio, closed /\ tty = <<>>)

\* fgets() has no whole line yet, or fgetc() no byte.
Wants ==
  \/ loop = "prompt" /\ LineEnds = {}
  \/ loop = "overwrite" /\ stdio = <<>>
  \/ loop = "run" /\ guest = "read" /\ queue = <<>> /\ stdio = <<>>

\* A read() into the buffer of stdin.
Fill ==
  /\ Wants
  /\ \E k \in Readable :
       /\ stdio' = stdio \o SubSeq(tty, 1, k)
       /\ tty' = SubSeq(tty, k + 1, Len(tty))
  /\ ready' = 0
  /\ UNCHANGED <<hostVars, injectVars, closed, typed, guestVars>>

Line(n) == SubSeq(stdio, 1, IF stdio[n] = Newline THEN n - 1 ELSE n)

Command(n) == IF Line(n) = <<>> THEN Newline ELSE Head(Line(n))

HasArgument(n) == Len(Line(n)) >= 2

------------------------------------------------------------------------------
(* The loop of main() around the guest. *)

\* Faulty Check: the break is not looked at.
CheckNothing ==
  /\ loop = "check"
  /\ loop' = "run"
  /\ UNCHANGED <<brk, panicMsg, term, bp, exit, injectVars, inputVars, guestVars>>

Check ==
  /\ loop = "check" /\ ~brk
  /\ loop' = "run"
  /\ UNCHANGED <<brk, panicMsg, term, bp, exit, injectVars, inputVars, guestVars>>

\* console_pause(), the panic message, and the prompt.
OpenDebugger ==
  /\ loop = "check" /\ brk
  /\ loop' = "prompt" /\ term' = "cooked" /\ panicMsg' = NoPanic
  /\ MadeReady
  /\ broke' = TRUE
  /\ UNCHANGED <<brk, bp, exit, injectVars, stdio, tty, closed, typed, guest, answer>>

\* Faulty Resume: the terminal stays as the debugger left it.
ResumeCooked ==
  /\ loop = "resume"
  /\ loop' = "run"
  /\ UNCHANGED <<brk, term, panicMsg, bp, exit, injectVars, inputVars, guestVars>>

\* debugger_break takes debugger()'s result, and is read again: a SIGINT
\* between the two keeps the terminal cooked.
Resume ==
  /\ loop = "resume"
  /\ loop' = "run"
  /\ term' = IF brk THEN term ELSE "raw"
  /\ UNCHANGED <<brk, panicMsg, bp, exit, injectVars, inputVars, guestVars>>

\* c and s: debugger() returns.
Leave ==
  /\ loop = "prompt"
  /\ \E n \in LineEnds :
       /\ Command(n) \in {"c", "s"}
       /\ brk' = (Command(n) = "s")
       /\ Take(n)
  /\ loop' = "resume"
  /\ UNCHANGED <<panicMsg, term, bp, exit, injectVars, guestVars>>

\* q, and the end of stdin.
QuitDebugger ==
  /\ loop = "prompt"
  /\ \/ \E n \in LineEnds : Command(n) = "q" /\ Take(n) /\ Exit("quit")
     \/ Input = <<>> /\ closed /\ Exit("eof") /\ UNCHANGED inputVars
  /\ UNCHANGED <<injectVars, guestVars>>

\* z: console_inject() of a control code, if the argument is a letter.
SendControl ==
  /\ loop = "prompt"
  /\ \E n \in LineEnds :
       /\ Command(n) = "z" /\ Take(n)
       /\ \/ HasArgument(n) /\ queue' = Queue!Put(queue, "ctrl")
          \/ queue' = queue
  /\ UNCHANGED <<hostVars, pause, guestVars>>

\* b: sets a breakpoint, or removes it; an argument that is no number changes
\* nothing.
Breakpoint ==
  /\ loop = "prompt"
  /\ \E n \in LineEnds :
       /\ Command(n) = "b" /\ Take(n)
       /\ bp' \in IF HasArgument(n) THEN {TRUE, bp} ELSE {FALSE}
  /\ UNCHANGED <<loop, brk, panicMsg, term, exit, injectVars, guestVars>>

\* f: asks before it writes over a file that exists.
SaveDisk ==
  /\ loop = "prompt"
  /\ \E n \in LineEnds : Command(n) = "f" /\ Take(n)
  /\ loop' \in {"prompt", "overwrite"}
  /\ UNCHANGED <<brk, panicMsg, term, bp, exit, injectVars, guestVars>>

\* The question reads one byte at a time; what follows the answer on its
\* line is left for the prompt.  The end of stdin is a "no".
Overwrite ==
  /\ loop = "overwrite"
  /\ \/ /\ stdio # <<>> /\ Take(1)
        /\ loop' = IF Head(stdio) \in {"y", "n"} THEN "prompt" ELSE "overwrite"
     \/ /\ Input = <<>> /\ closed
        /\ loop' = "prompt"
        /\ UNCHANGED inputVars
  /\ UNCHANGED <<brk, panicMsg, term, bp, exit, injectVars, guestVars>>

\* h, ?, t, d, w, an empty line and anything else only print.
PrintOnly ==
  /\ loop = "prompt"
  /\ \E n \in LineEnds : Command(n) \notin {"c", "s", "q", "z", "b", "f"} /\ Take(n)
  /\ UNCHANGED <<hostVars, injectVars, guestVars>>

Debugger ==
  Leave \/ QuitDebugger \/ SendControl \/ Breakpoint \/ SaveDisk \/ Overwrite \/ PrintOnly

------------------------------------------------------------------------------
(* The guest: one instruction, then the breakpoint. *)

\* Faulty Executed: the breakpoint's test resets the break of a panic.
ExecutedForgets(p) ==
  /\ loop = "run"
  /\ loop' = "check"
  /\ \E hit \in IF bp THEN BOOLEAN ELSE {FALSE} :
       /\ panicMsg' = IF hit THEN "breakpoint" ELSE IF p = NoPanic THEN panicMsg ELSE p
       /\ brk' = hit
  /\ UNCHANGED <<term, bp, exit>>

\* The end of an iteration whose instruction panicked for reason p, or not at
\* all.  The message of a breakpoint replaces that of the instruction.
Executed(p) ==
  /\ loop = "run"
  /\ loop' = "check"
  /\ \E hit \in IF bp THEN BOOLEAN ELSE {FALSE} :
       /\ panicMsg' = IF hit THEN "breakpoint" ELSE IF p = NoPanic THEN panicMsg ELSE p
       /\ brk' = (brk \/ hit \/ p # NoPanic)
  /\ UNCHANGED <<term, bp, exit>>

\* Anything but a console call; the PC or a disk selection can be out of range.
App ==
  /\ guest = "app"
  /\ guest' \in {"app", "constat", "conin"}
  /\ \E p \in {NoPanic, "range"} : Executed(p)
  /\ UNCHANGED <<answer, broke, injectVars, inputVars>>

\* Trap 15, service 14.
QuitCommand ==
  /\ loop = "run" /\ guest = "app"
  /\ Exit("quit")
  /\ UNCHANGED <<injectVars, inputVars, guestVars>>

\* Trap 15, service 1, from constat or from the loop in conin.
StatusReturns ==
  /\ guest \in {"constat", "conin"}
  /\ guest' = IF guest = "constat" THEN "app" ELSE "test"
  /\ broke' = (broke /\ answer' # "data")
  /\ UNCHANGED inputVars

StatusInjected ==
  /\ Queue!StatusWait \/ Queue!StatusData
  /\ Executed(NoPanic)
  /\ StatusReturns

\* What poll() finds is what a read() would: cooked, a line or nothing.
PollFindsData == Readable # {} \/ closed

StatusPoll ==
  /\ queue = <<>>
  /\ \/ PollFindsData /\ answer' = "data" /\ Executed(NoPanic)
     \/ ~PollFindsData /\ answer' = "none" /\ Executed(NoPanic)
     \/ answer' = "none" /\ Executed("poll")
  /\ StatusReturns
  /\ UNCHANGED injectVars

\* Faulty Test: the status is not looked at.
TestNothing ==
  /\ guest = "test"
  /\ guest' = "read"
  /\ Executed(NoPanic)
  /\ UNCHANGED <<answer, broke, injectVars, inputVars>>

\* tst d0 / beq conin.
Test ==
  /\ guest = "test"
  /\ guest' = IF answer = "data" THEN "read" ELSE "conin"
  /\ Executed(NoPanic)
  /\ UNCHANGED <<answer, broke, injectVars, inputVars>>

\* Trap 15, service 2.
ReadInjected ==
  /\ guest = "read" /\ guest' = "app"
  /\ Queue!Read
  /\ Executed(NoPanic)
  /\ UNCHANGED <<broke, inputVars>>

Convert(k) == CASE k = "del" -> "bs" [] k = Newline -> "cr" [] OTHER -> k

ReadKey ==
  /\ guest = "read" /\ guest' = "app"
  /\ queue = <<>> /\ stdio # <<>>
  /\ Take(1)
  /\ answer' = Convert(Head(stdio))
  /\ Executed(NoPanic)
  /\ UNCHANGED <<broke, injectVars>>

\* fgetc() returns EOF at the end of stdin, and raw also when nothing waits.
ReadFails ==
  /\ loop = "run" /\ guest = "read"
  /\ queue = <<>> /\ stdio = <<>> /\ Readable = {}
  /\ \/ closed /\ Exit("eof")
     \/ ~closed /\ term = "raw" /\ Exit("again")
  /\ UNCHANGED <<injectVars, inputVars, guestVars>>

Guest ==
  \/ App \/ QuitCommand \/ StatusInjected \/ StatusPoll
  \/ Test \/ ReadInjected \/ ReadKey \/ ReadFails

Main == Check \/ OpenDebugger \/ Resume \/ Debugger \/ Guest \/ Fill

------------------------------------------------------------------------------
(* The terminal. *)

Type(k) ==
  /\ loop # "exit" /\ ~closed /\ typed < MaxTyped
  /\ tty' = Append(tty, k)
  /\ typed' = typed + 1
  /\ UNCHANGED <<hostVars, injectVars, guestVars, stdio, ready, closed>>

Close ==
  /\ loop # "exit" /\ ~closed
  /\ closed' = TRUE
  /\ UNCHANGED <<hostVars, injectVars, guestVars, stdio, tty, ready, typed>>

\* The handler runs between any two steps.  Typed at the terminal, Ctrl+C
\* also flushes what the kernel holds; sent by kill it does not.
Sigint ==
  /\ loop # "exit"
  /\ brk' = TRUE
  /\ broke' = TRUE
  /\ \/ UNCHANGED <<tty, ready>>
     \/ tty' = <<>> /\ ready' = 0
  /\ UNCHANGED <<loop, panicMsg, term, bp, exit, injectVars, guest, answer,
                 stdio, closed, typed>>

Next == Main \/ (\E k \in Key : Type(k)) \/ Close \/ Sigint

Spec == Init /\ [][Next]_vars

\* main() never waits but in a read() in cooked mode, and while one waits no
\* step of Main is enabled; the user may stop typing, in the middle of a line
\* too, and signals need not come.
FairSpec == Spec /\ WF_vars(Main)

------------------------------------------------------------------------------
TypeOK ==
  /\ loop \in {"check", "prompt", "overwrite", "resume", "run", "exit"}
  /\ brk \in BOOLEAN /\ bp \in BOOLEAN /\ closed \in BOOLEAN /\ broke \in BOOLEAN
  /\ panicMsg \in {NoPanic, "range", "poll", "breakpoint"}
  /\ term \in {"raw", "cooked"}
  /\ exit \in {"running", "quit", "eof", "again"} /\ (exit = "running" <=> loop # "exit")
  /\ guest \in {"app", "constat", "conin", "test", "read"}
  /\ answer \in Key \cup {"idle", "none", "wait", "data", "ctrl", "bs", "cr"}
  /\ queue \in Seq(Key \cup {"ctrl"}) /\ Len(queue) <= Capacity
  /\ pause \in 0 .. InjectPause
  /\ stdio \in Seq(Key) /\ tty \in Seq(Key)
  /\ ready \in 0 .. Len(tty)
  /\ typed \in 0 .. MaxTyped

\* After a panic no further instruction runs before the message is shown and
\* the prompt opened, whatever debugger() and SIGINT do to debugger_break.
PanicStopsGuest == panicMsg # NoPanic => brk /\ loop = "check"

\* The terminal is cooked for the debugger and for the shell after exit, and
\* the guest runs at most one instruction (a step) with it cooked.
TerminalMode ==
  /\ loop \in {"prompt", "overwrite", "exit"} => term = "cooked"
  /\ loop \in {"check", "run"} /\ term = "cooked" => brk

\* conin calls console_read() only when it neither fails nor waits, unless the
\* debugger or a Ctrl+C came between the status and the read: the precondition
\* of a read that does not end the emulator.
KeyIsThere ==
  guest = "read" /\ ~broke => queue # <<>> \/ stdio # <<>> \/ Readable # {} \/ closed

InConin == guest \in {"conin", "test", "read"}

Interrupted == loop \in {"prompt", "overwrite", "exit"}

\* An injected key reaches the program that waits in conin, through all the
\* pauses, unless the debugger is entered first.
InjectedKeyArrives == (queue # <<>> /\ InConin) ~> (guest = "app" \/ Interrupted)

\* console_read() waits in cooked mode, in a step over the read: keys may have
\* been typed, but no line.
BlockedRead ==
  /\ loop = "run" /\ guest = "read" /\ term = "cooked"
  /\ queue = <<>> /\ stdio = <<>> /\ Readable = {} /\ ~closed

\* A break, from a signal, a panic or a breakpoint, opens the prompt, unless a
\* step over a read waits from then on for a line that nobody ends.
BreakOpensPrompt == (brk ~> Interrupted) \/ <>[]BlockedRead

\* emubios.s:68, "Call emulator, key byte in d0 after": the read that follows
\* the status gives the guest a key while stdin is open.
ReadAnswersKey == exit # "again"

\* emubios.s:66, "Wait until key pressed": conin ends when a key was pressed,
\* which in raw mode does not need a line.
TypedKeyArrives == (Input # <<>> /\ InConin /\ term = "raw") ~> (guest = "app" \/ Interrupted)
==============================================================================

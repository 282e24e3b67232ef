----------------------------- MODULE InjectQueue -----------------------------
(***************************************************************************)
(* What the console's injection buffer promises to the rest of the         *)
(* emulator (console.c): the keys given to console_inject() come back from *)
(* console_read() in the order in which they were given, as long as no     *)
(* more than Capacity of them wait.  One key more and all of them are      *)
(* gone: that is what the ring of InjectRing does, and the emulator that   *)
(* composes this module must be correct in spite of it.                    *)
(*                                                                         *)
(* console_status() does not offer every waiting key at once: after each   *)
(* offer it answers "wait" InjectPause times.                              *)
(***************************************************************************)
EXTENDS Naturals, Sequences

CONSTANTS
  Byte,         \* the values a key can have
  Capacity,     \* the keys that can wait: CONSOLE_INJECT_MAX - 1
  InjectPause   \* CONSOLE_INJECT_PAUSE

VARIABLES
  queue,    \* the keys that wait, oldest first
  pause,    \* console_inject_pause
  answer    \* what the last call returned

vars == <<queue, pause, answer>>

\* The answers of console_status() that the queue decides, and those of console_read().
Answer == {"idle", "data", "wait"} \cup Byte

\* Faulty Put: room for one key more than the ring has.
PutOneMore(q, v) == IF Len(q) > Capacity THEN <<>> ELSE Append(q, v)

\* The queue after one more key: a full queue loses everything.
Put(q, v) == IF Len(q) >= Capacity THEN <<>> ELSE Append(q, v)

Init == queue = <<>> /\ pause = 0 /\ answer = "idle"

Inject(v) ==
  /\ queue' = Put(queue, v)
  /\ answer' = "idle"
  /\ UNCHANGED pause

\* Faulty StatusWait: the pause is never counted down.
StatusWaitForever ==
  /\ queue # <<>> /\ pause > 0
  /\ answer' = "wait"
  /\ UNCHANGED <<queue, pause>>

\* console_status() while keys wait: count the pause down, then offer one.
StatusWait ==
  /\ queue # <<>> /\ pause > 0
  /\ pause' = pause - 1
  /\ answer' = "wait"
  /\ UNCHANGED queue

StatusData ==
  /\ queue # <<>> /\ pause = 0
  /\ pause' = InjectPause
  /\ answer' = "data"
  /\ UNCHANGED queue

\* console_read() while keys wait.
Read ==
  /\ queue # <<>>
  /\ answer' = Head(queue)
  /\ queue' = Tail(queue)
  /\ UNCHANGED pause

Next == (\E v \in Byte : Inject(v)) \/ StatusWait \/ StatusData \/ Read

Spec == Init /\ [][Next]_vars
==============================================================================

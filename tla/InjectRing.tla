----------------------------- MODULE InjectRing ------------------------------
(***************************************************************************)
(* The injection buffer of console.c: a ring of InjectMax bytes with a     *)
(* head, where console_inject() writes, and a tail, where console_read()   *)
(* reads.  Nothing compares head with tail when a byte is added.           *)
(***************************************************************************)
EXTENDS Integers, Sequences

CONSTANTS
  Key,          \* the values a key can have
  NoByte,       \* what a cell holds before its first write
  InjectMax,    \* CONSOLE_INJECT_MAX
  InjectPause   \* CONSOLE_INJECT_PAUSE

ASSUME InjectMaxAssumption == InjectMax \in Nat /\ InjectMax >= 2
ASSUME InjectPauseAssumption == InjectPause \in Nat

VARIABLES
  buffer,   \* console_inject_buffer
  head,     \* console_inject_head
  tail,     \* console_inject_tail
  pause,    \* console_inject_pause
  answer,   \* what the last call returned
  quiet     \* history: "wait" answers since the last "data", InjectPause before the first

ringVars == <<buffer, head, tail, pause, answer, quiet>>

Index == 0 .. InjectMax - 1

\* An index that ran off the end starts again at zero.
Wrapped(i) == IF i >= InjectMax THEN 0 ELSE i

HasInjected == tail # head

RingInit ==
  /\ buffer = [i \in Index |-> NoByte]
  /\ head = 0 /\ tail = 0 /\ pause = 0
  /\ answer = "idle"
  /\ quiet = InjectPause

\* Faulty Inject: a new key does not wait for the pause.
InjectAtOnce(v) ==
  /\ buffer' = [buffer EXCEPT ![head] = v]
  /\ head' = Wrapped(head + 1)
  /\ pause' = 0
  /\ answer' = "idle"
  /\ UNCHANGED <<tail, quiet>>

\* console_inject(): from -i, -I and the debugger's z command.
Inject(v) ==
  /\ buffer' = [buffer EXCEPT ![head] = v]
  /\ head' = Wrapped(head + 1)
  /\ answer' = "idle"
  /\ UNCHANGED <<tail, pause, quiet>>

\* console_status() while the ring holds keys; poll() is not reached.
StatusWait ==
  /\ HasInjected /\ pause > 0
  /\ pause' = pause - 1
  /\ answer' = "wait"
  /\ quiet' = quiet + 1
  /\ UNCHANGED <<buffer, head, tail>>

StatusData ==
  /\ HasInjected /\ ~(pause > 0)
  /\ pause' = InjectPause
  /\ answer' = "data"
  /\ quiet' = 0
  /\ UNCHANGED <<buffer, head, tail>>

\* Faulty Read: no test that a key waits.
ReadUnguarded ==
  /\ answer' = buffer[tail]
  /\ tail' = Wrapped(tail + 1)
  /\ UNCHANGED <<buffer, head, pause, quiet>>

\* Faulty Read: the index moves before the byte is taken.
ReadNext ==
  /\ HasInjected
  /\ answer' = buffer[Wrapped(tail + 1)]
  /\ tail' = Wrapped(tail + 1)
  /\ UNCHANGED <<buffer, head, pause, quiet>>

\* console_read() while the ring holds keys; stdin is not read.
Read ==
  /\ HasInjected
  /\ answer' = buffer[tail]
  /\ tail' = Wrapped(tail + 1)
  /\ UNCHANGED <<buffer, head, pause, quiet>>

RingNext == (\E v \in Key : Inject(v)) \/ StatusWait \/ StatusData \/ Read

RingSpec == RingInit /\ [][RingNext]_ringVars

------------------------------------------------------------------------------
(* The queue the ring stands for. *)

Count == IF head >= tail THEN head - tail ELSE head + InjectMax - tail

\* The index of the i-th waiting byte, counted from zero.
Cell(i) == IF tail + i >= InjectMax THEN tail + i - InjectMax ELSE tail + i

Pending == [i \in 1 .. Count |-> buffer[Cell(i - 1)]]

Queue == INSTANCE InjectQueue
           WITH Byte <- Key, Capacity <- InjectMax - 1, queue <- Pending

------------------------------------------------------------------------------
TypeOK ==
  /\ buffer \in [Index -> Key \cup {NoByte}]
  /\ head \in Index /\ tail \in Index
  /\ pause \in 0 .. InjectPause
  /\ answer \in {"idle", "data", "wait"} \cup Key \cup {NoByte}
  /\ quiet \in 0 .. InjectPause

\* A cell that is yet to be read was written: console_read() never returns
\* a byte that nobody injected, whatever the two indices have wrapped to.
PendingWasInjected == \A i \in 1 .. Count : Pending[i] \in Key

\* Two offers of an injected key are at least InjectPause answers of "wait"
\* apart, also when the ring runs empty and is filled again in between.
OffersAreSpaced == pause + quiet = InjectPause

\* The ring implements the queue: the same answers in the same order, with
\* every loss exactly where the queue says that it happens.
RingIsQueue == Queue!Spec
==============================================================================

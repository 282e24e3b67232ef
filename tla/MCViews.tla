------------------------------- MODULE MCViews -------------------------------
(* What the debugger shows: the trace (t) and the memory (d), with what main() *)
(* loaded into it.  A behaviour has either instructions or a file and dumps,   *)
(* which keeps their states apart.                                             *)
EXTENDS TraceRing, Memory

Line(type, pairs) == [type |-> type, pairs |-> pairs]

\* Whole records that overlap, of both types and around the end of the memory; with
\* other lines between them, damaged, cut short and too long for the line buffer.
MCFiles ==
  {<<>>,
   <<Line("1", <<5, 0, 3, 6, 7, 1>>), Line("0", <<3, 0, 0, 1>>), Line("2", <<5, 0, 0, 4, 5, 2>>)>>,
   <<Line("1", <<5, 1, 7, 6, 7, 1>>), Line("1", <<3, 0, 3, 1>>), Line("1", <<5, 0, 3, 6>>)>>,
   <<Line("none", <<5, 0, 0, 2, 2>>), Line("2", <<5, 0, 0, Bad, 5, 2>>), Line("1", <<Bad, 0, 0, 5>>)>>,
   <<Line("1", <<7, 0, 2, 6, 7, 5, 4, 1>>), Line("1", <<4, 0, 3, 3, 1>>), Line("1", <<7>>)>>}

\* In and around the memory, and the highest numbers.
MCNumbers == {0, 1, 3, 4, 6, 12, 15, 16, 40, 59, 60, 63}

MCInit == Init /\ MemInit

Tracing == loaded = <<>> /\ phase = "load" /\ line[1] = 0 /\ Next /\ UNCHANGED memVars
NoTrace == index = 0 /\ ~busy /\ entries = [i \in Slots |-> Zero]
InMemory == NoTrace /\ MemNext /\ UNCHANGED vars

MCSpec ==
  /\ MCInit /\ [][Tracing \/ InMemory]_<<vars, memVars>>
  /\ WF_memVars(NoTrace /\ DumpRow /\ UNCHANGED vars)
  /\ WF_memVars(NoTrace /\ Dumped /\ UNCHANGED vars)
==============================================================================

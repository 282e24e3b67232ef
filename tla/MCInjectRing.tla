---------------------------- MODULE MCInjectRing -----------------------------
(* A ring of four cells and two keys: head and tail wrap many times, and    *)
(* the fourth unread key overruns it.                                       *)
EXTENDS InjectRing
==============================================================================

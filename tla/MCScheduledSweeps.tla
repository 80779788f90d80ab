------------------------- MODULE MCScheduledSweeps -------------------------
(* Small instances of ScheduledSweeps. *)
EXTENDS ScheduledSweeps

CONSTANTS c1, c2, sup, dep, ceo, hr

\* Cases on the path of the CEO alone.
DirectCases == [c \in Cases |-> [sup |-> None, deputy |-> None, ceo |-> ceo]]

\* A case with a supervisor and no deputy, and one of the CEO alone.
NoDeputy ==
  [c \in Cases |-> [sup |-> IF c = c1 THEN sup ELSE None, deputy |-> None, ceo |-> ceo]]
===============================================================================

----------------------------- MODULE MCCaseDesks -----------------------------
(* Constants of the instances of CaseDesks that TLC checks. *)
EXTENDS CaseDesks

CONSTANTS sup, dep, ceo, hr1, hr2, emp, ann, empty, full

Account(role, p) == [role |-> role, active |-> TRUE, person |-> p]

\* ann has an employee's account.
Staff ==
  [u \in Users |->
     CASE u = sup -> Account("unit_supervisor", None)
       [] u = dep -> Account("deputy", None)
       [] u = ceo -> Account("ceo", None)
       [] u = emp -> Account("employee", ann)
       [] OTHER -> Account("hr", None)]

Chain(s, d) == [sup |-> s, deputy |-> d, ceo |-> ceo]

\* Full, a deputy as supervisor and no deputy, manager, CEO alone.
Shapes ==
  {Chain(sup, dep), Chain(dep, None), Chain(None, dep), Chain(None, None)}

Directory(ch) ==
  [personnel |-> [p \in Persons |->
     [active |-> TRUE, manager |-> ch.sup = None /\ ch.deputy # None]],
   access |-> [p \in Persons |-> ch]]

OnePerShape == {Directory(ch) : ch \in Shapes}

\* A period that is opened after the only case has been opened without one is read by
\* no guard and no page: such behaviours are cut there.
PeriodIsRead == \A r \in Records : IsCase(r) /\ ~rec[r].period => period = None
=============================================================================

----------------------------- MODULE MCWorkflow -----------------------------
(***************************************************************************)
(* Constants of the instances TLC checks.  The accounts: a unit            *)
(* supervisor, two deputies, the CEO and two HR users.                     *)
(***************************************************************************)
EXTENDS EvaluationWorkflow

CONSTANTS sup, dep, dep2, ceo, hr1, hr2, ann, empty, full

Account(role) == [role |-> role, active |-> TRUE, person |-> None]

\* Every account has its role and no personnel row is linked yet.
PlainRoster ==
  [u \in Users |->
     CASE u = sup -> Account("unit_supervisor")
       [] u \in {dep, dep2} -> Account("deputy")
       [] u = ceo -> Account("ceo")
       [] OTHER -> Account("hr")]

\* The second HR user is an employee of the organisation: ann.
HrIsEmployeeRoster ==
  [u \in Users |-> [PlainRoster[u] EXCEPT !.person = IF u = hr2 THEN ann ELSE None]]

Chain(s, d) == [sup |-> s, deputy |-> d, ceo |-> ceo]

\* The shapes of a chain: full, a deputy as supervisor, no deputy, manager, direct
\* CEO, CEO as supervisor.
EveryShape ==
  {Chain(sup, dep), Chain(dep, dep2), Chain(sup, None), Chain(None, dep),
   Chain(None, None), Chain(ceo, None)}

\* HR moves a person from the supervisor to the CEO and back.
TwoEvaluators == {Chain(sup, None), Chain(ceo, None)}

\* Everybody employed, with the chain ch; a chain that a deputy heads is a manager's.
Directory(ch) ==
  [personnel |-> [p \in Persons |->
     [active |-> TRUE, manager |-> ch.sup = None /\ ch.deputy # None]],
   access |-> [p \in Persons |-> ch]]

OneInstallationPerShape == {Directory(ch) : ch \in EveryShape}

NoDeputyInstalled == {Directory(Chain(sup, None))}

=============================================================================

------------------------- MODULE EvaluationLifecycle -------------------------
(***************************************************************************)
(* What the system promises about the outcome of a case, without seats,    *)
(* roles or desks: an evaluator proposes an outcome, the outcome stays     *)
(* what it is for as long as it is under review, and closing publishes     *)
(* that very outcome.  A case may be sent back to its evaluator or         *)
(* withdrawn while it is under review; a closed case and a withdrawn one   *)
(* stay so.                                                                *)
(***************************************************************************)
CONSTANTS Records, Outcomes, None

VARIABLES
  phase,    \* phase[r]: where the case stands
  outcome   \* outcome[r]: the outcome under review or published, or None

Phases == {"none", "scoring", "review", "closed", "withdrawn"}

LifecycleTypeOK ==
  /\ phase \in [Records -> Phases]
  /\ outcome \in [Records -> Outcomes \cup {None}]

Init ==
  /\ phase = [r \in Records |-> "none"]
  /\ outcome = [r \in Records |-> None]

Becomes(r, ph, o) ==
  /\ phase' = [phase EXCEPT ![r] = ph]
  /\ outcome' = [outcome EXCEPT ![r] = o]

Open(r) == phase[r] = "none" /\ Becomes(r, "scoring", None)

Propose(r) ==
  /\ phase[r] = "scoring"
  /\ \E o \in Outcomes : Becomes(r, "review", o)

SendBack(r) == phase[r] = "review" /\ Becomes(r, "scoring", None)

Close(r) == phase[r] = "review" /\ Becomes(r, "closed", outcome[r])

Withdraw(r) ==
  /\ phase[r] \in {"scoring", "review"}
  /\ Becomes(r, "withdrawn", None)

Next ==
  \E r \in Records : Open(r) \/ Propose(r) \/ SendBack(r) \/ Close(r) \/ Withdraw(r)

Spec == Init /\ [][Next]_<<phase, outcome>>
===============================================================================

--------------------------- MODULE MCCaseAftermath ---------------------------
(* Small instances of CaseAftermath. *)
EXTENDS CaseAftermath, TLC

CONSTANTS hr, hr2, sup, emp, ann, bob, c1, c2, p1, p2, s1, s2, t1, t2

\* ann is an employee with an account; bob is a unit supervisor, and evaluated too.
Role == [u \in Users |-> CASE u \in {hr, hr2} -> "hr"
                           [] u = sup -> "unit_supervisor"
                           [] OTHER -> "employee"]
Person == [u \in Users |-> CASE u = emp -> ann [] u = sup -> bob [] OTHER -> None]
Subject == [c \in Cases |-> IF c = c1 THEN ann ELSE bob]

\* Plans, calls and texts are interchangeable.
Symmetry ==
  Permutations({p1, p2}) \cup Permutations({s1, s2}) \cup Permutations({t1, t2})
===============================================================================

----------------------------- MODULE MCSessions -----------------------------
(* A small instance of Sessions. *)
EXTENDS Sessions, TLC

CONSTANTS ann, k1, k2, k3, s1, s2

\* All browsers are of the one user there is.
Owner == [b \in Browsers |-> ann]

\* Sessions and calls are interchangeable.
Symmetry == Permutations({k1, k2, k3}) \cup Permutations({s1, s2})
===============================================================================

--------------------------- MODULE MCScoringRules ---------------------------
(* Small instances of ScoringRules. *)
EXTENDS ScoringRules, TLC

CONSTANTS ann, i1, i2, x0, x1, x2, s1, s2, u1, u2

\* Every case is about the one person there is.
Subject == [c \in Cases |-> ann]

\* One of the users writes the drafts and the other one activates them: whether a user
\* may activate a draft depends on the author of that draft alone (BeginActivate).
OneAuthor == \A x \in Schemes : scheme[x].author # u2

\* Calls and drafts are interchangeable.
Symmetry == Permutations({s1, s2}) \cup Permutations({x1, x2})
===============================================================================

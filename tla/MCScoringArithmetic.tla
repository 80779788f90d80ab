------------------------- MODULE MCScoringArithmetic -------------------------
(* Two general questions and a specialized one. *)
EXTENDS ScoringArithmetic

CONSTANTS g1, g2, x1

\* The best comes with evidence; the lowest without, which one scheme asks for.
MCRows ==
  {[score |-> 2, words |-> 0], [score |-> 4, words |-> 0], [score |-> 5, words |-> 3]}

Default == <<[upper |-> 600, label |-> "no"], [upper |-> 750, label |-> "conditional"],
             [upper |-> 900, label |-> "standard"], [upper |-> 1010, label |-> "special"]>>

\* A table that is not in order, which the validation refuses.
Crossed == <<[upper |-> 750, label |-> "conditional"], [upper |-> 600, label |-> "no"],
             [upper |-> 1010, label |-> "special"]>>

Scheme(general, bonusMax, w, bands) ==
  [general |-> general, specialized |-> 10000 - general, required |-> IF w = 3 THEN {1, 2, 5} ELSE {1, 5}, minWords |-> 3,
   maxWords |-> 40, bonusMax |-> bonusMax, bands |-> bands,
   weight |-> [i \in Asked |-> IF i = g1 THEN w ELSE 1]]

\* A table whose last limit is hardly above a hundred.
Tight == <<[upper |-> 750, label |-> "no"], [upper |-> 1001, label |-> "yes"]>>

\* The first scheme, a heavy question with uneven sections, no special score, and weights
\* the columns round up both.
MCInputs ==
  {Scheme(6000, 5000, 1, Default), Scheme(6670, 5000, 7, Default), Scheme(3330, 0, 3, Default),
   Scheme(6665, 1005, 2, Tight), Scheme(6000, 5000, 1, Crossed)}

\* Half of a tenth, a hundredth too many digits, and the limit.
MCBonuses == {0, 50, 2345, 5000}

\* Half to even.
MCTiesUp == {k \in 0..2000 : k % 2 = 1}
===============================================================================

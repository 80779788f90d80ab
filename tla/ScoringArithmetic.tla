-------------------------- MODULE ScoringArithmetic --------------------------
(***************************************************************************)
(* From the score sheet of a case to its result, under the rules of the    *)
(* scheme the case is stamped with, and what a proposed scheme would have  *)
(* made of it (services/evaluation.py, services/scoring_scheme.py,         *)
(* schemas/scoring_scheme.py, the preview of api/routers/                  *)
(* scoring_schemes.py).  Which scheme a case is stamped with is the module *)
(* ScoringRules, who may write to its sheet EvaluationWorkflow.            *)
(*                                                                         *)
(* Units.  Percentages are tenths of a point, bonuses thousandths, weights *)
(* of sections ten-thousandths: what a request may carry, before the       *)
(* columns round it.  Sums and products of floats are exact here; which    *)
(* way a float goes that should stand half-way is TiesUp.                  *)
(***************************************************************************)
EXTENDS Integers, Sequences, FiniteSetsExt

CONSTANTS
  Asked, General,  \* the questions of the case, and those of the general section
  Rows,                 \* what the evaluator may enter for a question
  Inputs,               \* schemes HR may propose (SchemeInput)
  BonusInputs,          \* special scores a request may carry
  TiesUp,               \* the integers k for which k + 1/2 is rounded up
  Null

MaxScore == 5
Full == 1000    \* a hundred per cent
Whole == 10000  \* what the weights of the sections add up to
PreviewDrift == 2

Bands == [upper : Nat, label : STRING]
Rules ==
  [general : 0..Whole, specialized : 0..Whole, required : SUBSET (1..MaxScore),
   minWords : Nat, maxWords : Nat, bonusMax : Nat, bands : Seq(Bands),
   weight : [Asked -> Nat]]
Sheets == [Asked -> Rows]
ResultColumns ==
  [general : Nat, specialized : Nat, base : Nat, bonus : Nat, final : Nat, label : STRING]

ASSUME AskedAssumption == IsFiniteSet(Asked)
ASSUME SheetsAssumption == General \subseteq Asked /\ Rows \subseteq [score : 1..MaxScore, words : Nat]
ASSUME InputsAssumption == Inputs \subseteq Rules /\ BonusInputs \subseteq Nat
ASSUME NullAssumption == Null \notin Sheets \cup ResultColumns \cup Rules

VARIABLES
  rules,   \* the scheme of the case, as its columns hold it; Null before the case
  status,  \* "draft", "submitted" or "finalized"
  sheet,   \* evaluation_scores of the case, Null while incomplete
  bonus,   \* bonus_points
  result   \* the columns compute_result fills, or Null

scoringVars == <<rules, status, sheet, bonus, result>>

-------------------------------------------------------------------------------
(* Rounding *)

\* The integer next to n/d, as round() and a NUMERIC column find it.
Nearest(n, d) ==
  LET k == n \div d
      rest == 2 * (n % d)
  IN IF rest > d \/ (rest = d /\ k \in TiesUp) THEN k + 1 ELSE k

\* A NUMERIC column with fewer digits rounds half away from zero.
Stored(n, unit) == unit * ((2 * n + unit) \div (2 * unit))

-------------------------------------------------------------------------------
(* Rules *)

\* Mutant: the bands may come in any order.
ValidInAnyOrder(r) ==
  /\ r.general + r.specialized = Whole
  /\ r.minWords <= r.maxWords
  /\ r.bands # <<>> /\ r.bands[Len(r.bands)].upper > Full
  /\ \A i \in Asked : r.weight[i] > 0

\* SchemeInput._check
Valid(r) ==
  /\ r.general + r.specialized = Whole
  /\ r.minWords <= r.maxWords
  /\ r.bands # <<>> /\ r.bands[Len(r.bands)].upper > Full
  /\ \A i, j \in DOMAIN r.bands : i < j => r.bands[i].upper < r.bands[j].upper
  /\ \A i \in Asked : r.weight[i] > 0

\* What rules_from reads back: three digits of the weights, two of the bonus.
AsStored(r) ==
  [r EXCEPT !.general = Stored(@, 10), !.specialized = Stored(@, 10), !.bonusMax = Stored(@, 10)]

\* recommendation_for: the first band whose limit lies above the result.
RecommendationFor(r, final) ==
  LET above == {i \in DOMAIN r.bands : final < r.bands[i].upper}
  IN r.bands[IF above = {} THEN Len(r.bands) ELSE Min(above)].label

\* validate_evidence
HasEvidence(r, s) ==
  \A i \in Asked :
    /\ s[i].score \in r.required => s[i].words >= r.minWords
    /\ s[i].words <= r.maxWords

\* validate_bonus; the reason is a text of the right length.
BonusAllowed(r, b) == b <= r.bonusMax

-------------------------------------------------------------------------------
(* compute_result *)

\* What a section has earned, and what it could.
Points(r, s, section) == [i \in section |-> s[i].score * r.weight[i]]
AllPoints(r, section) == [i \in section |-> MaxScore * r.weight[i]]

\* Mutant: the maximum of a section forgets the weights.
SectionPctUnweighted(r, s, section) ==
  IF section = {} THEN 0
  ELSE Nearest(Full * SumFunction(Points(r, s, section)), MaxScore * Cardinality(section))

\* A section's weighted share of what it could reach; an empty section counts nothing.
SectionPct(r, s, section) ==
  IF section = {} THEN 0
  ELSE Nearest(Full * SumFunction(Points(r, s, section)), SumFunction(AllPoints(r, section)))

\* Mutant: a bonus that does not fit under a hundred is left out.
AppliedOrNothing(r, base, b) ==
  LET allowed == Min({b, r.bonusMax})
  IN IF allowed <= 100 * (Full - base) THEN Nearest(allowed, 10) ELSE 0

\* applied_bonus, in hundredths: at most the scheme's limit, and what is left to 100.
Applied(r, base, b) == Nearest(Max({0, Min({b, r.bonusMax, 100 * (Full - base)})}), 10)

ComputeResult(r, s, b) ==
  LET g == SectionPct(r, s, General)
      p == SectionPct(r, s, Asked \ General)
      base == Nearest(g * r.general + p * r.specialized, Whole)
      applied == Applied(r, base, b)
      final == Nearest(10 * base + applied, 10)
  IN [general |-> g, specialized |-> p, base |-> base, bonus |-> applied, final |-> final,
      label |-> RecommendationFor(r, final)]

\* Mutant: the special score of the case is left out of the preview.
PreviewWithoutBonus(r) == ComputeResult(r, sheet, 0)

\* preview_scheme for this case: the proposed rules as they were sent.
Preview(r) == ComputeResult(r, sheet, bonus)

-------------------------------------------------------------------------------
(* The case *)

ScoringInit ==
  /\ rules = Null
  /\ status = "draft"
  /\ sheet = Null
  /\ bonus = 0
  /\ result = Null

\* A scheme is drafted and activated, and the case opened under it.
Open(input) ==
  /\ rules = Null
  /\ Valid(input)
  /\ rules' = AsStored(input)
  /\ UNCHANGED <<status, sheet, bonus, result>>

IsDraft == rules # Null /\ status = "draft"

\* upsert_scores: evidence is not looked at before the submission.
UpsertScores(s) ==
  /\ IsDraft
  /\ sheet' = s
  /\ UNCHANGED <<rules, status, bonus, result>>

\* set_special_score
SetBonus(b) ==
  /\ IsDraft
  /\ BonusAllowed(rules, b)
  /\ bonus' = Stored(b, 10)
  /\ UNCHANGED <<rules, status, sheet, result>>

\* finalize_scoring
FinalizeScoring ==
  /\ IsDraft
  /\ sheet # Null
  /\ HasEvidence(rules, sheet)
  /\ result' = ComputeResult(rules, sheet, bonus)
  /\ status' = "submitted"
  /\ UNCHANGED <<rules, sheet, bonus>>

\* A return keeps the computed result.
ReturnCase ==
  /\ status = "submitted"
  /\ status' = "draft"
  /\ UNCHANGED <<rules, sheet, bonus, result>>

FinalizeCase ==
  /\ status = "submitted"
  /\ status' = "finalized"
  /\ UNCHANGED <<rules, sheet, bonus, result>>

ScoringNext ==
  \/ \E input \in Inputs : Open(input)
  \/ \E s \in Sheets : UpsertScores(s)
  \/ \E b \in BonusInputs : SetBonus(b)
  \/ FinalizeScoring \/ ReturnCase \/ FinalizeCase

ScoringSpec == ScoringInit /\ [][ScoringNext]_scoringVars

-------------------------------------------------------------------------------
(* Properties *)

\* Every question is answered with the highest score.
FullMarks == \A i \in Asked : sheet[i].score = MaxScore

\* compute_result, whatever HR may propose and the columns make of it, and however each
\* number is rounded: the sections are percentages, a special score lowers nothing, and
\* the result exceeds a hundred by a tenth at most.  Where the weights still add up in
\* their columns it never does, and a case that gets every point of the form has a
\* hundred, with or without a special score.
ResultIsAPercentage ==
  result # Null =>
    /\ result.general <= Full /\ result.specialized <= Full
    /\ result.base <= result.final /\ result.final <= Full + 1
    /\ rules.general + rules.specialized = Whole =>
         /\ result.final <= Full
         /\ status # "draft" /\ General \notin {{}, Asked} /\ FullMarks => result.final = Full

Wider(s, t) == \A i \in Asked : s[i].score <= t[i].score

\* A better sheet, or a larger bonus, never lowers the result of a case: neither the
\* cut at a hundred nor the roundings of the sections, of their sum and of the bonus
\* turn two sheets round.
BetterSheetIsNotWorse ==
  [][(rules # Null /\ sheet # Null /\ Wider(sheet, sheet') /\ bonus <= bonus') =>
       ComputeResult(rules, sheet, bonus).final <= ComputeResult(rules, sheet', bonus').final]_scoringVars

\* A result lies in the band it names, half-open as the table reads: no lower limit is
\* above the result, and its own limit is, unless the band is the last one, which takes
\* all that is left (recommendation_for; the validation wants that limit above 100, and
\* the columns may let a result reach it).
LabelIsOfItsBand ==
  result # Null =>
    \E i \in DOMAIN rules.bands :
      /\ rules.bands[i].label = result.label
      /\ result.final < rules.bands[i].upper \/ i = Len(rules.bands)
      /\ \A j \in DOMAIN rules.bands :
           rules.bands[j].upper < rules.bands[i].upper => rules.bands[j].upper <= result.final

\* preview_scheme promises the very computation a case would get under the proposed
\* scheme, but runs it on the numbers as they were typed, not as the columns will hold
\* them.  What HR is shown is at most two tenths of a point away from what the case
\* would get.
PreviewIsClose ==
  status = "finalized" =>
    \A input \in Inputs : Valid(input) =>
      LET shown == Preview(input).final
          got == ComputeResult(AsStored(input), sheet, bonus).final
      IN shown <= got + PreviewDrift /\ got <= shown + PreviewDrift

===============================================================================

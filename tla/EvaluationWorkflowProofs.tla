----------------------- MODULE EvaluationWorkflowProofs -----------------------
(***************************************************************************)
(* The invariants of EvaluationWorkflow, for any number of users, persons  *)
(* and cases.  Every handler that writes a case is shown to write it       *)
(* legally (LegalWrite); all a step can do to the cases is then a legal    *)
(* write of one case or the commit of a new one (StepKinds), and the       *)
(* invariants and the refinement are proved from these kinds of steps.     *)
(* The steps of CaseDesks are then shown to be steps of the cases, and its *)
(* invariants proved from what each kind of step tells and records; the    *)
(* stays of a case are read along one path (PathIsSound).                  *)
(***************************************************************************)
EXTENDS CaseDesks, FiniteSetTheorems, TLAPS

\* The rows an installation begins with are well typed.
LEMMA TypeInit == Init => TypeOK
  BY ConstantsAssumption
     DEF Init, TypeOK, Directories, Days, SignatureRows, NobodySigned

\* A row stays a row whatever column a handler writes.
LEMMA RowWrites ==
  ASSUME NEW c \in CaseRows
  PROVE  /\ \A st \in Statuses, h \in Seats : [c EXCEPT !.status = st, !.hr = h] \in CaseRows
         /\ \A h \in Seats : [c EXCEPT !.hr = h] \in CaseRows
         /\ \A s \in Sheets : [c EXCEPT !.sheet = s] \in CaseRows
         /\ \A b \in Bonuses : [c EXCEPT !.bonus = b] \in CaseRows
         /\ \A u \in Users : [c EXCEPT !.sup = u] \in CaseRows
         /\ \A u \in Users : [c EXCEPT !.deputy = u] \in CaseRows
         /\ \A u \in Users : [c EXCEPT !.ceo = u] \in CaseRows
         /\ \A x \in Extensions : [c EXCEPT !.extension = x] \in CaseRows
         /\ \A d \in Documents : [c EXCEPT !.document = d] \in CaseRows
         /\ \A res \in Results : [c EXCEPT !.result = res] \in CaseRows
<1>1. \A st \in Statuses, h \in Seats : [c EXCEPT !.status = st, !.hr = h] \in CaseRows
  BY DEF CaseRows
<1>2. \A h \in Seats : [c EXCEPT !.hr = h] \in CaseRows
  BY DEF CaseRows
<1>3. \A s \in Sheets : [c EXCEPT !.sheet = s] \in CaseRows
  BY DEF CaseRows
<1>4. \A b \in Bonuses : [c EXCEPT !.bonus = b] \in CaseRows
  BY DEF CaseRows
<1>5. \A u \in Users : [c EXCEPT !.sup = u] \in CaseRows
  BY DEF CaseRows, Seats
<1>6. \A u \in Users : [c EXCEPT !.deputy = u] \in CaseRows
  BY DEF CaseRows, Seats
<1>7. \A u \in Users : [c EXCEPT !.ceo = u] \in CaseRows
  BY DEF CaseRows
<1>8. \A x \in Extensions : [c EXCEPT !.extension = x] \in CaseRows
  BY DEF CaseRows
<1>9. \A d \in Documents : [c EXCEPT !.document = d] \in CaseRows
  BY DEF CaseRows
<1>10. \A res \in Results : [c EXCEPT !.result = res] \in CaseRows
  BY DEF CaseRows
<1>11. QED
  BY <1>1, <1>2, <1>3, <1>4, <1>5, <1>6, <1>7, <1>8, <1>9, <1>10

\* The rows of the transition table.
Actions ==
  {"submit", "manager_submit", "direct_ceo_submit", "hr_approve", "hr_finalize_direct_ceo",
   "hr_approve_manager", "deputy_approve", "ceo_finalize", "hr_return", "deputy_return",
   "ceo_return", "ceo_return_manager", "cancel"}

\* Every step of the table leads from open statuses to a status.
LEMMA TableType ==
  ASSUME NEW a \in Actions
  PROVE  TRANSITIONS[a].from \subseteq OpenStatuses /\ TRANSITIONS[a].to \in Statuses
  BY DEF Actions, TRANSITIONS, Step, OpenStatuses, Statuses

\* Hence a step of the table maps rows to rows.
LEMMA MovedType ==
  ASSUME NEW u \in Users, NEW a \in Actions, NEW c \in CaseRows
  PROVE  Moved(u, a, c) \in CaseRows
<1>1. c.hr \in Seats /\ u \in Seats
  BY DEF CaseRows, Seats
<1>2. QED
  BY <1>1, TableType, RowWrites DEF Moved

LEMMA CaseType ==
  ASSUME TypeOK, NEW r \in Records, IsCase(r)
  PROVE  rec[r] \in CaseRows
  BY DEF TypeOK, IsCase

\* What a step of the table leaves alone.
LEMMA MovedColumns ==
  ASSUME NEW u \in Users, NEW a \in Actions, NEW c \in CaseRows
  PROVE  LET d == Moved(u, a, c)
         IN /\ d.status = TRANSITIONS[a].to
            /\ d.subject = c.subject
            /\ d.sup = c.sup /\ d.deputy = c.deputy /\ d.ceo = c.ceo
            /\ d.sheet = c.sheet /\ d.bonus = c.bonus /\ d.result = c.result
            /\ d.document = c.document
            /\ d.period = c.period /\ d.extension = c.extension
  BY DEF Moved, CaseRows

ReviewStatuses == {"submitted", "hr_approved", "deputy_approved"}

\* From a row c with the signatures s to a row d with the signatures t: what every
\* handler that writes a case does, whichever it is.
Legal(c, s, d, t) ==
  /\ c.status \in OpenStatuses
  /\ d.subject = c.subject
  /\ Reviewed(c, s) => Reviewed(d, t)
  /\ NotRedundant(c) => NotRedundant(d)
  /\ \/ d.status = c.status /\ d.result = c.result
     \/ c.status = "draft" /\ d.status = "submitted"
     \/ c.status \in ReviewStatuses /\ d.status = "draft"
     \/ c.status \in ReviewStatuses /\ d.status \in ReviewStatuses \cup {"finalized"}
        /\ d.result = c.result
     \/ d.status = "cancelled"
  /\ ~WindowOpen(c) => d.sheet = c.sheet /\ d.bonus = c.bonus /\ d.result = c.result

\* Such a handler writes one case and nothing else of the cases.
Writes(r, d, t) ==
  /\ rec' = [rec EXCEPT ![r] = d]
  /\ signed' = [signed EXCEPT ![r] = t]

LegalWrite(r) ==
  /\ IsCase(r)
  /\ \E d \in CaseRows, t \in SignatureRows :
       Writes(r, d, t) /\ Legal(rec[r], signed[r], d, t)

LEMMA UpsertScoresLegal ==
  ASSUME TypeOK, NEW u \in Users, NEW r \in Records, NEW sheet \in Sheets,
         UpsertScores(u, r, sheet)
  PROVE  LegalWrite(r)
<1> DEFINE c == rec[r]
           d == [c EXCEPT !.sheet = sheet]
<1>1. c \in CaseRows /\ signed[r] \in SignatureRows
  BY CaseType DEF UpsertScores, MayEnter, TypeOK
<1>2. d \in CaseRows
  BY <1>1, RowWrites
<1>3. Writes(r, d, signed[r])
  BY DEF UpsertScores, Writes, TypeOK
<1>4. c.status = "draft" /\ WindowOpen(c)
  BY DEF UpsertScores, MayEnter, IsTheScorer
<1>5. /\ d.status = c.status /\ d.subject = c.subject /\ d.result = c.result
      /\ d.sup = c.sup /\ d.deputy = c.deputy /\ d.ceo = c.ceo
  BY <1>1 DEF CaseRows
<1>6. Legal(c, signed[r], d, signed[r])
  BY <1>4, <1>5 DEF Legal, Reviewed, NotRedundant, OpenStatuses, ScoredStatuses
<1>7. QED
  BY <1>1, <1>2, <1>3, <1>6 DEF LegalWrite, UpsertScores, MayEnter

LEMMA SubmitLegal ==
  ASSUME TypeOK, NEW u \in Users, NEW r \in Records, Submit(u, r)
  PROVE  LegalWrite(r)
<1> DEFINE c == rec[r]
           a == SubmitAction(c)
           res == ResultOf(c)
           d == [Moved(u, a, c) EXCEPT !.result = res]
           t == [signed[r] EXCEPT !.scoring = [by |-> u, result |-> res]]
<1>1. c \in CaseRows /\ signed[r] \in SignatureRows
  BY CaseType DEF Submit, TypeOK
<1>2. a \in {"submit", "manager_submit", "direct_ceo_submit"} /\ a \in Actions
  BY DEF SubmitAction, Actions
<1>3. res \in Results
  BY <1>1 DEF ResultOf, Results, CaseRows
<1>4. Moved(u, a, c) \in CaseRows
  BY <1>1, <1>2, MovedType
<1>5. d \in CaseRows
  BY <1>3, <1>4, RowWrites
<1>6. t \in SignatureRows
  BY <1>1, <1>3 DEF SignatureRows, Signatures
<1>7. Writes(r, d, t)
  BY DEF Submit, Writes, TypeOK
<1>8. c.status = "draft" /\ TRANSITIONS[a].to = "submitted"
  BY <1>2 DEF Submit, Allowed, TRANSITIONS, Step
<1>9. /\ d.status = "submitted" /\ d.subject = c.subject /\ d.result = res
      /\ d.sup = c.sup /\ d.deputy = c.deputy /\ d.ceo = c.ceo
      /\ d.sheet = c.sheet /\ d.bonus = c.bonus
  BY <1>1, <1>2, <1>4, <1>8, MovedColumns DEF CaseRows
<1>10. t.scoring # None /\ t.scoring.result = res
  <2>1. [by |-> u, result |-> res] \in Signatures
    BY <1>3 DEF Signatures
  <2>2. t.scoring = [by |-> u, result |-> res]
    BY <1>1 DEF SignatureRows
  <2>3. QED
    BY <2>1, <2>2, NoneAssumption
<1>11. Reviewed(d, t)
  <2>1. ResultOf(d) = res
    BY <1>9 DEF ResultOf
  <2>2. d.sheet \in CompleteSheets
    BY <1>9 DEF Submit
  <2>3. QED
    BY <1>9, <1>10, <2>1, <2>2 DEF Reviewed, SignedOn
<1>12. Legal(c, signed[r], d, t)
  BY <1>8, <1>9, <1>11 DEF Legal, NotRedundant, OpenStatuses, Submit
<1>13. QED
  BY <1>5, <1>6, <1>7, <1>12 DEF LegalWrite, Submit

LEMMA SetSpecialScoreLegal ==
  ASSUME TypeOK, NEW u \in Users, NEW r \in Records, NEW bonus \in Bonuses,
         SetSpecialScore(u, r, bonus)
  PROVE  LegalWrite(r)
<1> DEFINE c == rec[r]
           d == [c EXCEPT !.bonus = bonus]
<1>1. c \in CaseRows /\ signed[r] \in SignatureRows
  BY CaseType DEF SetSpecialScore, MayEnter, TypeOK
<1>2. d \in CaseRows
  BY <1>1, RowWrites
<1>3. Writes(r, d, signed[r])
  BY DEF SetSpecialScore, Writes, TypeOK
<1>4. c.status = "draft" /\ WindowOpen(c)
  BY DEF SetSpecialScore, MayEnter, IsTheScorer
<1>5. /\ d.status = c.status /\ d.subject = c.subject /\ d.result = c.result
      /\ d.sup = c.sup /\ d.deputy = c.deputy /\ d.ceo = c.ceo
  BY <1>1 DEF CaseRows
<1>6. Legal(c, signed[r], d, signed[r])
  BY <1>4, <1>5 DEF Legal, Reviewed, NotRedundant, OpenStatuses, ScoredStatuses
<1>7. QED
  BY <1>1, <1>2, <1>3, <1>6 DEF LegalWrite, SetSpecialScore, MayEnter

\* The document drawn from a row only depends on its seats and its result.
LEMMA SnapshotColumns ==
  ASSUME NEW c \in CaseRows, NEW d \in CaseRows,
         d.sup = c.sup, d.deputy = c.deputy, d.ceo = c.ceo, d.result = c.result
  PROVE  FinalSnapshot(d) = FinalSnapshot(c)
<1>1. ScorerSeat(d) = ScorerSeat(c)
  BY DEF ScorerSeat, IsDirectCeoPath, IsManagerPath
<1>2. d[ScorerSeat(d)] = c[ScorerSeat(c)]
  <2>1. ScorerSeat(c) = "sup" \/ ScorerSeat(c) = "deputy" \/ ScorerSeat(c) = "ceo"
    BY DEF ScorerSeat
  <2>2. QED
    BY <1>1, <2>1
<1>3. QED
  BY <1>2 DEF FinalSnapshot

LEMMA SnapshotType ==
  ASSUME NEW c \in CaseRows, c.result # None
  PROVE  FinalSnapshot(c) \in Documents
<1>1. ScorerSeat(c) = "sup" \/ ScorerSeat(c) = "deputy" \/ ScorerSeat(c) = "ceo"
  BY DEF ScorerSeat
<1>2. c[ScorerSeat(c)] \in Seats
  BY <1>1 DEF CaseRows, Seats
<1>3. c.result \in Results
  BY DEF CaseRows
<1>4. QED
  BY <1>2, <1>3 DEF FinalSnapshot, Documents

\* An approval on the result of a row is a signature on it.
LEMMA SignatureType ==
  ASSUME NEW u \in Users, NEW c \in CaseRows, c.result # None
  PROVE  LET g == [by |-> u, result |-> c.result]
         IN g \in Signatures /\ SignedOn(g, c.result)
<1>1. c.result \in Results
  BY DEF CaseRows
<1>2. [by |-> u, result |-> c.result] \in Signatures
  BY <1>1 DEF Signatures
<1>3. QED
  BY <1>2, NoneAssumption DEF SignedOn

LEMMA DeputyApproveLegal ==
  ASSUME TypeOK, StatusIsSigned, NEW u \in Users, NEW r \in Records, DeputyApprove(u, r)
  PROVE  LegalWrite(r)
<1> DEFINE c == rec[r]
           d == Moved(u, "deputy_approve", c)
           g == [by |-> u, result |-> c.result]
           t == [signed[r] EXCEPT !.deputy = g]
<1>1. c \in CaseRows /\ signed[r] \in SignatureRows
  BY CaseType DEF DeputyApprove, TypeOK
<1>2. "deputy_approve" \in Actions
  BY DEF Actions
<1>3. /\ d \in CaseRows /\ d.status = "deputy_approved" /\ d.subject = c.subject
      /\ d.sup = c.sup /\ d.deputy = c.deputy /\ d.ceo = c.ceo
      /\ d.sheet = c.sheet /\ d.bonus = c.bonus /\ d.result = c.result
  BY <1>1, <1>2, MovedType, MovedColumns DEF TRANSITIONS, Step
<1>4. c.status = "hr_approved"
  BY DEF DeputyApprove, Allowed, TRANSITIONS, Step
<1>5. Reviewed(c, signed[r])
  BY DEF DeputyApprove, StatusIsSigned
<1>6. c.result # None
  <2>1. c.result = ResultOf(c)
    BY <1>4, <1>5 DEF Reviewed, ScoredStatuses
  <2>2. ResultOf(c) \in Results
    BY <1>1 DEF ResultOf, Results, CaseRows
  <2>3. QED
    BY <2>1, <2>2, NoneAssumption
<1>7. g \in Signatures /\ SignedOn(g, c.result)
  BY <1>1, <1>6, SignatureType
<1>8. t \in SignatureRows /\ t.scoring = signed[r].scoring /\ t.hr = signed[r].hr /\ t.deputy = g
  BY <1>1, <1>7 DEF SignatureRows
<1>9. Writes(r, d, t)
  BY DEF DeputyApprove, Writes, TypeOK
<1>10. Reviewed(d, t)
  <2>1. ResultOf(d) = ResultOf(c)
    BY <1>3 DEF ResultOf
  <2>2. QED
    BY <1>3, <1>4, <1>5, <1>7, <1>8, <2>1 DEF Reviewed, ScoredStatuses
<1>11. Legal(c, signed[r], d, t)
  BY <1>3, <1>4, <1>10 DEF Legal, NotRedundant, OpenStatuses, ReviewStatuses
<1>12. QED
  BY <1>3, <1>8, <1>9, <1>11 DEF LegalWrite, DeputyApprove

LEMMA CeoFinalizeLegal ==
  ASSUME TypeOK, StatusIsSigned, NEW u \in Users, NEW r \in Records, CeoFinalize(u, r)
  PROVE  LegalWrite(r)
<1> DEFINE c == rec[r]
           m == Moved(u, "ceo_finalize", c)
           d == [m EXCEPT !.document = FinalSnapshot(c)]
           g == [by |-> u, result |-> c.result]
           t == [signed[r] EXCEPT !.closing = g]
<1>1. c \in CaseRows /\ signed[r] \in SignatureRows
  BY CaseType DEF CeoFinalize, TypeOK
<1>2. "ceo_finalize" \in Actions
  BY DEF Actions
<1>3. c.result # None
  BY DEF CeoFinalize, Allowed, ClosesWithResult, TRANSITIONS, Step
<1>4. m \in CaseRows /\ FinalSnapshot(c) \in Documents
  BY <1>1, <1>2, <1>3, MovedType, SnapshotType
<1>5. d \in CaseRows
  BY <1>4, RowWrites
<1>6. m.status = "finalized"
  BY <1>1, <1>2, MovedColumns DEF TRANSITIONS, Step
<1>7. /\ d.status = "finalized" /\ d.subject = c.subject
      /\ d.sup = c.sup /\ d.deputy = c.deputy /\ d.ceo = c.ceo
      /\ d.sheet = c.sheet /\ d.bonus = c.bonus /\ d.result = c.result
      /\ d.document = FinalSnapshot(c)
  BY <1>1, <1>2, <1>4, <1>6, MovedColumns DEF CaseRows
<1>8. /\ c.status \in {"deputy_approved", "hr_approved"}
      /\ c.status = "hr_approved" => c.deputy = None
  BY DEF CeoFinalize, Allowed, Guard, TRANSITIONS, Step
<1>9. Reviewed(c, signed[r])
  BY DEF CeoFinalize, StatusIsSigned
<1>10. g \in Signatures /\ SignedOn(g, c.result)
  BY <1>1, <1>3, SignatureType
<1>11. /\ t \in SignatureRows /\ t.scoring = signed[r].scoring /\ t.hr = signed[r].hr
       /\ t.deputy = signed[r].deputy /\ t.closing = g
  BY <1>1, <1>10 DEF SignatureRows
<1>12. Writes(r, d, t)
  BY DEF CeoFinalize, Writes, TypeOK
<1>13. Reviewed(d, t)
  <2>1. ResultOf(d) = ResultOf(c)
    BY <1>7 DEF ResultOf
  <2>2. FinalSnapshot(d) = FinalSnapshot(c)
    BY <1>1, <1>5, <1>7, SnapshotColumns
  <2>3. QED
    BY <1>7, <1>8, <1>9, <1>10, <1>11, <2>1, <2>2 DEF Reviewed, ScoredStatuses
<1>14. Legal(c, signed[r], d, t)
  BY <1>7, <1>8, <1>13 DEF Legal, NotRedundant, OpenStatuses, ReviewStatuses
<1>15. QED
  BY <1>5, <1>11, <1>12, <1>14 DEF LegalWrite, CeoFinalize

\* The result of a case under review is the one computed from its row.
LEMMA ReviewedResult ==
  ASSUME NEW c \in CaseRows, NEW s, Reviewed(c, s), c.status \in ScoredStatuses
  PROVE  c.result # None
<1>1. c.result = ResultOf(c)
  BY DEF Reviewed
<1>2. ResultOf(c) \in Results
  BY DEF ResultOf, Results, CaseRows
<1>3. QED
  BY <1>1, <1>2, NoneAssumption

LEMMA HrApproveLegal ==
  ASSUME TypeOK, StatusIsSigned, NEW u \in Users, NEW r \in Records, HrApprove(u, r)
  PROVE  LegalWrite(r)
<1> DEFINE c == rec[r]
           a == HrApproveAction(c)
           m == Moved(u, a, c)
           g == [by |-> u, result |-> c.result]
<1>1. c \in CaseRows /\ signed[r] \in SignatureRows
  BY CaseType DEF HrApprove, TypeOK
<1>2. a \in {"hr_finalize_direct_ceo", "hr_approve_manager", "hr_approve"} /\ a \in Actions
  BY DEF HrApproveAction, Actions
<1>3. c.status = "submitted"
  BY <1>2 DEF HrApprove, Allowed, TRANSITIONS, Step
<1>4. Reviewed(c, signed[r])
  BY DEF HrApprove, StatusIsSigned
<1>5. c.result # None
  BY <1>1, <1>3, <1>4, ReviewedResult DEF ScoredStatuses
<1>6. g \in Signatures /\ SignedOn(g, c.result)
  BY <1>1, <1>5, SignatureType
<1>7. m \in CaseRows
  BY <1>1, <1>2, MovedType
<1>8. CASE IsDirectCeoPath(c)
  <2> DEFINE d == [m EXCEPT !.document = FinalSnapshot(c)]
             t == [signed[r] EXCEPT !.hr = g, !.closing = g]
  <2>1. TRANSITIONS[a].to = "finalized"
    BY <1>8 DEF HrApproveAction, TRANSITIONS, Step
  <2>2. FinalSnapshot(c) \in Documents
    BY <1>1, <1>5, SnapshotType
  <2>3. d \in CaseRows
    BY <1>7, <2>2, RowWrites
  <2>4. /\ d.status = "finalized" /\ d.subject = c.subject
        /\ d.sup = c.sup /\ d.deputy = c.deputy /\ d.ceo = c.ceo
        /\ d.sheet = c.sheet /\ d.bonus = c.bonus /\ d.result = c.result
        /\ d.document = FinalSnapshot(c)
    BY <1>1, <1>2, <1>7, <2>1, MovedColumns DEF CaseRows
  <2>5. /\ t \in SignatureRows /\ t.scoring = signed[r].scoring /\ t.hr = g /\ t.closing = g
    BY <1>1, <1>6 DEF SignatureRows
  <2>6. Writes(r, d, t)
    BY <1>8 DEF HrApprove, Writes, TypeOK
  <2>7. Reviewed(d, t)
    <3>1. ResultOf(d) = ResultOf(c)
      BY <2>4 DEF ResultOf
    <3>2. FinalSnapshot(d) = FinalSnapshot(c)
      BY <1>1, <2>3, <2>4, SnapshotColumns
    <3>3. d.sup = None
      BY <1>8, <2>4 DEF IsDirectCeoPath
    <3>4. QED
      BY <1>3, <1>4, <1>6, <2>4, <2>5, <3>1, <3>2, <3>3 DEF Reviewed, ScoredStatuses
  <2>8. Legal(c, signed[r], d, t)
    BY <1>3, <2>4, <2>7 DEF Legal, NotRedundant, OpenStatuses, ReviewStatuses
  <2>9. QED
    BY <2>3, <2>5, <2>6, <2>8 DEF LegalWrite, HrApprove
<1>9. CASE ~IsDirectCeoPath(c)
  <2> DEFINE t == [signed[r] EXCEPT !.hr = g]
  <2>1. /\ TRANSITIONS[a].to \in {"hr_approved", "deputy_approved"}
        /\ TRANSITIONS[a].to = "deputy_approved" => c.sup = None
    BY <1>9 DEF HrApproveAction, TRANSITIONS, Step, IsManagerPath
  <2>2. /\ m.status = TRANSITIONS[a].to /\ m.subject = c.subject
        /\ m.sup = c.sup /\ m.deputy = c.deputy /\ m.ceo = c.ceo
        /\ m.sheet = c.sheet /\ m.bonus = c.bonus /\ m.result = c.result
    BY <1>1, <1>2, MovedColumns
  <2>3. t \in SignatureRows /\ t.scoring = signed[r].scoring /\ t.hr = g
    BY <1>1, <1>6 DEF SignatureRows
  <2>4. Writes(r, m, t)
    <3>1. rec' = [rec EXCEPT ![r] = m]
      BY <1>9 DEF HrApprove
    <3>2. signed' = [signed EXCEPT ![r] = t]
      BY <1>9 DEF HrApprove, TypeOK, SignatureRows
    <3>3. QED
      BY <3>1, <3>2 DEF Writes
  <2>5. Reviewed(m, t)
    <3>1. ResultOf(m) = ResultOf(c)
      BY <2>2 DEF ResultOf
    <3>2. QED
      BY <1>3, <1>4, <1>6, <2>1, <2>2, <2>3, <3>1 DEF Reviewed, ScoredStatuses
  <2>6. Legal(c, signed[r], m, t)
    BY <1>3, <2>1, <2>2, <2>5 DEF Legal, NotRedundant, OpenStatuses, ReviewStatuses
  <2>7. QED
    BY <1>7, <2>3, <2>4, <2>6 DEF LegalWrite, HrApprove
<1>10. QED
  BY <1>8, <1>9

\* The departure cancels a case by the same step of the table.
LEMMA CancelLegal ==
  ASSUME TypeOK, NEW u \in Users, NEW r \in Records, IsCase(r), Allowed(u, "cancel", rec[r]),
         Writes(r, Moved(u, "cancel", rec[r]), signed[r])
  PROVE  LegalWrite(r)
<1> DEFINE c == rec[r]
           d == Moved(u, "cancel", c)
<1>1. c \in CaseRows /\ signed[r] \in SignatureRows
  BY CaseType DEF TypeOK
<1>2. "cancel" \in Actions
  BY DEF Actions
<1>3. c.status \in OpenStatuses
  BY DEF Allowed, TRANSITIONS, Step
<1>4. /\ d \in CaseRows /\ d.status = "cancelled" /\ d.subject = c.subject
      /\ d.sup = c.sup /\ d.deputy = c.deputy /\ d.ceo = c.ceo
      /\ d.sheet = c.sheet /\ d.bonus = c.bonus /\ d.result = c.result
  BY <1>1, <1>2, MovedType, MovedColumns DEF TRANSITIONS, Step
<1>5. Legal(c, signed[r], d, signed[r])
  BY <1>3, <1>4 DEF Legal, Reviewed, NotRedundant, ScoredStatuses
<1>6. QED
  BY <1>1, <1>4, <1>5 DEF LegalWrite

LEMMA ReturnLegal ==
  ASSUME TypeOK, StatusIsSigned, NEW u \in Users, NEW r \in Records, Return(u, r)
  PROVE  LegalWrite(r)
<1> DEFINE c == rec[r]
           a == ReturnAction(users[u].role, c)
           d == Moved(u, a, c)
<1>1. c \in CaseRows /\ signed[r] \in SignatureRows
  BY CaseType DEF Return, TypeOK
<1>2. /\ a \in {"hr_return", "deputy_return", "ceo_return", "ceo_return_manager"}
      /\ a \in Actions
  BY DEF Return, ReturnAction, Actions
<1>3. /\ c.status \in TRANSITIONS[a].from
      /\ Writes(r, d, signed[r])
  BY DEF Return, Allowed, Writes, TypeOK
<1>4. \/ c.status = "submitted" /\ TRANSITIONS[a].to = "draft"
      \/ c.status = "hr_approved" /\ TRANSITIONS[a].to = "submitted"
      \/ c.status = "deputy_approved" /\ TRANSITIONS[a].to \in {"hr_approved", "submitted"}
  BY <1>2, <1>3 DEF TRANSITIONS, Step
<1>5. Reviewed(c, signed[r])
  BY DEF Return, StatusIsSigned
<1>6. /\ d \in CaseRows /\ d.status = TRANSITIONS[a].to /\ d.subject = c.subject
      /\ d.sup = c.sup /\ d.deputy = c.deputy /\ d.ceo = c.ceo
      /\ d.sheet = c.sheet /\ d.bonus = c.bonus /\ d.result = c.result
  BY <1>1, <1>2, MovedType, MovedColumns
<1>7. Reviewed(d, signed[r])
  <2>1. ResultOf(d) = ResultOf(c)
    BY <1>6 DEF ResultOf
  <2>2. QED
    BY <1>4, <1>5, <1>6, <2>1 DEF Reviewed, ScoredStatuses
<1>8. Legal(c, signed[r], d, signed[r])
  BY <1>4, <1>6, <1>7 DEF Legal, NotRedundant, OpenStatuses, ReviewStatuses
<1>9. QED
  BY <1>1, <1>3, <1>6, <1>8 DEF LegalWrite, Return

\* hr_claim, hr_handover and extend_submission_window write a column that neither the
\* review nor the seats depend on.
LEMMA SideColumnLegal ==
  ASSUME TypeOK, NEW r \in Records, IsOpen(r), NEW d \in CaseRows,
         d.status = rec[r].status, d.subject = rec[r].subject,
         d.sup = rec[r].sup, d.deputy = rec[r].deputy, d.ceo = rec[r].ceo,
         d.sheet = rec[r].sheet, d.bonus = rec[r].bonus, d.result = rec[r].result,
         Writes(r, d, signed[r])
  PROVE  LegalWrite(r)
<1>1. signed[r] \in SignatureRows
  BY DEF TypeOK
<1>2. Reviewed(rec[r], signed[r]) => Reviewed(d, signed[r])
  <2>1. ResultOf(d) = ResultOf(rec[r])
    BY DEF ResultOf
  <2>2. QED
    BY <2>1 DEF Reviewed, IsOpen, OpenStatuses
<1>3. Legal(rec[r], signed[r], d, signed[r])
  BY <1>2 DEF Legal, NotRedundant, IsOpen
<1>4. QED
  BY <1>1, <1>3 DEF LegalWrite, IsOpen

LEMMA ClaimLegal ==
  ASSUME TypeOK, NEW u \in Users, NEW r \in Records,
         HrClaim(u, r) \/ \E v \in Users : HrHandover(u, r, v)
  PROVE  LegalWrite(r)
<1>1. PICK v \in Users : IsOpen(r) /\ Writes(r, [rec[r] EXCEPT !.hr = v], signed[r])
  BY DEF HrClaim, HrHandover, Writes, TypeOK
<1>2. rec[r] \in CaseRows /\ v \in Seats
  BY <1>1, CaseType DEF IsOpen, Seats
<1>3. [rec[r] EXCEPT !.hr = v] \in CaseRows
  BY <1>2, RowWrites
<1>4. QED
  BY <1>1, <1>2, <1>3, SideColumnLegal DEF CaseRows

LEMMA ExtendLegal ==
  ASSUME TypeOK, NEW u \in Users, NEW r \in Records, NEW until \in Extensions,
         Extend(u, r, until)
  PROVE  LegalWrite(r)
<1>1. IsOpen(r) /\ Writes(r, [rec[r] EXCEPT !.extension = until], signed[r])
  BY DEF Extend, Writes, TypeOK, IsOpen, OpenStatuses
<1>2. rec[r] \in CaseRows
  BY <1>1, CaseType DEF IsOpen
<1>3. [rec[r] EXCEPT !.extension = until] \in CaseRows
  BY <1>2, RowWrites
<1>4. QED
  BY <1>1, <1>2, <1>3, SideColumnLegal DEF CaseRows

LEMMA ReassignLegal ==
  ASSUME TypeOK, NEW u \in Users, NEW r \in Records, NEW seat \in {"sup", "deputy", "ceo"},
         NEW v \in Users, Reassign(u, r, seat, v)
  PROVE  LegalWrite(r)
<1> DEFINE c == rec[r]
           d == Reseated(c, seat, v)
<1>1. c \in CaseRows /\ signed[r] \in SignatureRows
  BY CaseType DEF Reassign, IsOpen, TypeOK
<1>2. IsOpen(r) /\ c[seat] # None /\ NotRedundant(d)
  BY DEF Reassign, Admissible
<1>3. Writes(r, d, signed[r])
  BY DEF Reassign, Writes, TypeOK
<1>4. d \in CaseRows
  BY <1>1, RowWrites DEF Reseated
<1>5. /\ d.status = c.status /\ d.subject = c.subject
      /\ d.sheet = c.sheet /\ d.bonus = c.bonus /\ d.result = c.result
      /\ c.sup = None => d.sup = None
      /\ c.deputy = None => d.deputy = None
  BY <1>1, <1>2 DEF Reseated, CaseRows
<1>6. Reviewed(c, signed[r]) => Reviewed(d, signed[r])
  <2>1. ResultOf(d) = ResultOf(c)
    BY <1>5 DEF ResultOf
  <2>2. QED
    BY <1>2, <1>5, <2>1 DEF Reviewed, IsOpen, OpenStatuses
<1>7. Legal(c, signed[r], d, signed[r])
  BY <1>2, <1>5, <1>6 DEF Legal, IsOpen
<1>8. QED
  BY <1>1, <1>2, <1>3, <1>4, <1>7 DEF LegalWrite, IsOpen

-------------------------------------------------------------------------------
(* The steps by what they do to the cases *)

\* A handler of evaluations.py writes one case legally, or is a step of a creation.
LEMMA CaseStepKinds ==
  ASSUME TypeOK, StatusIsSigned, NEW u \in Users, NEW r \in Records, CaseStep(u, r)
  PROVE  \/ LegalWrite(r) /\ UNCHANGED others
         \/ InsertCase(u, r)
         \/ CommitCreate(u, r)
<1>1. CASE \E sheet \in Sheets : UpsertScores(u, r, sheet)
  BY <1>1, UpsertScoresLegal DEF UpsertScores
<1>2. CASE \E bonus \in Bonuses : SetSpecialScore(u, r, bonus)
  BY <1>2, SetSpecialScoreLegal DEF SetSpecialScore
<1>3. CASE Submit(u, r)
  BY <1>3, SubmitLegal DEF Submit
<1>4. CASE HrApprove(u, r)
  BY <1>4, HrApproveLegal DEF HrApprove
<1>5. CASE DeputyApprove(u, r)
  BY <1>5, DeputyApproveLegal DEF DeputyApprove
<1>6. CASE CeoFinalize(u, r)
  BY <1>6, CeoFinalizeLegal DEF CeoFinalize
<1>7. CASE Return(u, r)
  BY <1>7, ReturnLegal DEF Return
<1>8. CASE Cancel(u, r)
  <2>1. Writes(r, Moved(u, "cancel", rec[r]), signed[r])
    BY <1>8 DEF Cancel, Writes, TypeOK
  <2>2. QED
    BY <1>8, <2>1, CancelLegal DEF Cancel
<1>9. CASE HrClaim(u, r) \/ \E v \in Users : HrHandover(u, r, v)
  BY <1>9, ClaimLegal DEF HrClaim, HrHandover
<1>10. CASE \E seat \in {"sup", "deputy", "ceo"}, v \in Users : Reassign(u, r, seat, v)
  BY <1>10, ReassignLegal DEF Reassign
<1>11. CASE \E until \in Extensions : Extend(u, r, until)
  BY <1>11, ExtendLegal DEF Extend
<1>12. QED
  BY <1>1, <1>2, <1>3, <1>4, <1>5, <1>6, <1>7, <1>8, <1>9, <1>10, <1>11 DEF CaseStep

\* Whoever records a departure cancels one case legally, or none.
LEMMA DepartWrites ==
  ASSUME TypeOK, NEW a \in Users, NEW p \in Persons, Depart(a, p)
  PROVE  UNCHANGED caseVars \/ \E r \in Records : LegalWrite(r)
<1>1. CASE rec' = rec
  BY <1>1 DEF Depart, caseVars
<1>2. CASE \E r \in Records : /\ IsOpen(r)
                              /\ Allowed(a, "cancel", rec[r])
                              /\ rec' = [rec EXCEPT ![r] = Moved(a, "cancel", rec[r])]
  <2>1. PICK r \in Records : /\ IsOpen(r)
                             /\ Allowed(a, "cancel", rec[r])
                             /\ rec' = [rec EXCEPT ![r] = Moved(a, "cancel", rec[r])]
    BY <1>2
  <2>2. Writes(r, Moved(a, "cancel", rec[r]), signed[r])
    BY <2>1 DEF Depart, Writes, TypeOK
  <2>3. QED
    BY <2>1, <2>2, CancelLegal DEF IsOpen
<1>3. QED
  BY <1>1, <1>2 DEF Depart

\* All a step can do to the cases.
LEMMA StepKinds ==
  ASSUME TypeOK, StatusIsSigned, [Next]_vars
  PROVE  \/ UNCHANGED caseVars
         \/ \E r \in Records : LegalWrite(r)
         \/ \E u \in Users, r \in Records : CommitCreate(u, r)
<1>1. CASE \E u \in Users, r \in Records : CaseStep(u, r)
  BY <1>1, CaseStepKinds DEF InsertCase
<1>2. CASE \E u \in Users, p \in Persons : PersonStep(u, p)
  <2>1. PICK u \in Users, p \in Persons : PersonStep(u, p)
    BY <1>2
  <2>2. CASE Depart(u, p)
    BY <2>2, DepartWrites
  <2>3. CASE \E chain \in Chains : UpsertAccess(u, p, chain) \/ OvertakenUpsert(u, p, chain)
    BY <2>3 DEF UpsertAccess, OvertakenUpsert
  <2>4. CASE \/ BeginCreate(u, p) \/ BeginBulkCreate(u, p)
             \/ \E b \in ManagerFlags : SetManager(u, p, b)
             \/ Rejoin(u, p) \/ EditPersonnel(u, p)
    BY <2>4 DEF BeginCreate, BeginBulkCreate, SetManager, Rejoin, EditPersonnel
  <2>5. QED
    BY <2>1, <2>2, <2>3, <2>4 DEF PersonStep
<1>3. CASE \E u \in Users : AccountStep(u) \/ PeriodStep(u)
  BY <1>3 DEF AccountStep, PeriodStep, RollbackCreate, SetActive, SetRole, LinkPerson,
              OpenPeriod, MovePeriodEnd, ClosePeriod
<1>4. CASE NextDay \/ UNCHANGED vars
  BY <1>4 DEF NextDay, vars, caseVars
<1>5. QED
  BY <1>1, <1>2, <1>3, <1>4 DEF Next

-------------------------------------------------------------------------------
(* Types *)

LEMMA NewCaseType ==
  ASSUME NEW k \in Creations
  PROVE  NewCase(k) \in CaseRows
  BY ConstantsAssumption DEF Creations, NewCase, CaseRows, Statuses, OpenStatuses, Seats

LEMMA CaseTypes ==
  ASSUME TypeOK, StatusIsSigned, [Next]_vars
  PROVE  rec' \in [Records -> CaseRows \cup {None}] /\ signed' \in [Records -> SignatureRows]
<1>1. CASE UNCHANGED caseVars
  BY <1>1 DEF caseVars, TypeOK
<1>2. CASE \E r \in Records : LegalWrite(r)
  BY <1>2 DEF LegalWrite, Writes, TypeOK
<1>3. CASE \E u \in Users, r \in Records : CommitCreate(u, r)
  <2>1. PICK u \in Users, r \in Records : CommitCreate(u, r)
    BY <1>3
  <2>2. NewCase(creating[u]) \in CaseRows
    BY <2>1, NewCaseType DEF CommitCreate, TypeOK
  <2>3. NobodySigned \in SignatureRows
    BY DEF NobodySigned, SignatureRows
  <2>4. QED
    BY <2>1, <2>2, <2>3 DEF CommitCreate, TypeOK
<1>4. QED
  BY <1>1, <1>2, <1>3, StepKinds

\* What a creation reads is a chain with a person, whoever begins it.
LEMMA ReadsType ==
  ASSUME TypeOK, NEW p \in Persons, access[p] # None
  PROVE  Reads(p) \in Creations
<1>1. access[p] \in ChainRows
  BY DEF TypeOK
<1>2. ChainFor(p) \in ChainRows
  BY <1>1 DEF ChainFor, ChainRows, Seats
<1>3. (period # None /\ period.open) \in BOOLEAN
  BY DEF TypeOK, Periods
<1>4. QED
  BY <1>2, <1>3 DEF Reads, Creations, ChainRows

LEMMA SupervisorClearedType ==
  ASSUME TypeOK, NEW p \in Persons
  PROVE  SupervisorCleared(p) \in [Persons -> ChainRows \cup {None}]
<1>1. CASE personnel'[p].manager /\ access[p] # None
  <2>1. access[p] \in ChainRows
    BY <1>1 DEF TypeOK
  <2>2. [access[p] EXCEPT !.sup = None] \in ChainRows
    BY <2>1 DEF ChainRows, Seats
  <2>3. SupervisorCleared(p) = [access EXCEPT ![p] = [access[p] EXCEPT !.sup = None]]
    BY <1>1 DEF SupervisorCleared
  <2>4. QED
    BY <2>2, <2>3 DEF TypeOK
<1>2. CASE ~(personnel'[p].manager /\ access[p] # None)
  BY <1>2 DEF SupervisorCleared, TypeOK
<1>3. QED
  BY <1>1, <1>2

\* An account stays an account whatever column an administrator writes.
LEMMA UserWrites ==
  ASSUME TypeOK, NEW u \in Users
  PROVE  /\ \A b \in BOOLEAN : [users EXCEPT ![u].active = b] \in [Users -> UserRows]
         /\ \A role \in Roles : [users EXCEPT ![u].role = role] \in [Users -> UserRows]
         /\ \A p \in Persons \cup {None} :
              [users EXCEPT ![u].person = p] \in [Users -> UserRows]
<1>1. \A b \in BOOLEAN : [users EXCEPT ![u].active = b] \in [Users -> UserRows]
  BY DEF TypeOK, UserRows
<1>2. \A role \in Roles : [users EXCEPT ![u].role = role] \in [Users -> UserRows]
  BY DEF TypeOK, UserRows
<1>3. \A p \in Persons \cup {None} : [users EXCEPT ![u].person = p] \in [Users -> UserRows]
  BY DEF TypeOK, UserRows
<1>4. QED
  BY <1>1, <1>2, <1>3

\* The variables that are not cases, by the actions that write them.
OtherTypes ==
  /\ users \in [Users -> UserRows]
  /\ personnel \in [Persons -> PersonnelRows]
  /\ access \in [Persons -> ChainRows \cup {None}]
  /\ period \in Periods \cup {None}
  /\ today \in Days
  /\ creating \in [Users -> Creations \cup {None}]

LEMMA OtherTypesNext ==
  ASSUME TypeOK, StatusIsSigned, [Next]_vars
  PROVE  OtherTypes'
<1> OtherTypes
  BY DEF TypeOK, OtherTypes
<1>1. CASE \E u \in Users, r \in Records : CaseStep(u, r)
  <2>1. PICK u \in Users, r \in Records : CaseStep(u, r)
    BY <1>1
  <2>2. CASE UNCHANGED others
    BY <2>2 DEF others, OtherTypes
  <2>3. CASE InsertCase(u, r)
    <3>1. creating[u] \in Creations
      BY <2>3 DEF InsertCase, OtherTypes
    <3>2. [creating[u] EXCEPT !.row = r] \in Creations
      BY <3>1 DEF Creations
    <3>3. creating' = [creating EXCEPT ![u] = [creating[u] EXCEPT !.row = r]]
      BY <2>3 DEF InsertCase
    <3>4. QED
      BY <2>3, <3>2, <3>3 DEF InsertCase, OtherTypes
  <2>4. CASE CommitCreate(u, r)
    BY <2>4 DEF CommitCreate, OtherTypes
  <2>5. QED
    BY <2>1, <2>2, <2>3, <2>4, CaseStepKinds
<1>2. CASE \E u \in Users, p \in Persons : PersonStep(u, p)
  <2>1. PICK u \in Users, p \in Persons : PersonStep(u, p)
    BY <1>2
  <2>2. CASE BeginCreate(u, p) \/ BeginBulkCreate(u, p)
    <3>1. Reads(p) \in Creations
      BY <2>2, ReadsType DEF BeginCreate, BeginBulkCreate, MayOpenCase
    <3>2. QED
      BY <2>2, <3>1 DEF BeginCreate, BeginBulkCreate, OtherTypes
  <2>3. CASE \E chain \in Chains : UpsertAccess(u, p, chain)
    BY <2>3, ConstantsAssumption DEF UpsertAccess, OtherTypes
  <2>9. CASE \E chain \in Chains : OvertakenUpsert(u, p, chain)
    <3>1. PICK chain \in Chains : OvertakenUpsert(u, p, chain)
      BY <2>9
    <3>2. personnel' \in [Persons -> PersonnelRows]
      BY <3>1 DEF OvertakenUpsert, OtherTypes, PersonnelRows
    <3>3. access' \in [Persons -> ChainRows \cup {None}]
      BY <3>1, ConstantsAssumption DEF OvertakenUpsert, OtherTypes
    <3>4. QED
      BY <3>1, <3>2, <3>3 DEF OvertakenUpsert, OtherTypes
  <2>4. CASE \E b \in ManagerFlags : SetManager(u, p, b)
    <3>1. PICK b \in ManagerFlags : SetManager(u, p, b)
      BY <2>4
    <3>2. personnel' \in [Persons -> PersonnelRows]
      BY <3>1, ConstantsAssumption DEF SetManager, OtherTypes, PersonnelRows
    <3>3. QED
      BY <3>1, <3>2, SupervisorClearedType DEF SetManager, OtherTypes
  <2>5. CASE Depart(u, p)
    <3>1. personnel' \in [Persons -> PersonnelRows]
      BY <2>5 DEF Depart, OtherTypes, PersonnelRows
    <3>2. users' \in [Users -> UserRows]
      <4>1. CASE users' = users
        BY <4>1 DEF OtherTypes
      <4>2. CASE \E v \in Users : users' = [users EXCEPT ![v].active = FALSE]
        BY <4>2, UserWrites
      <4>3. QED
        BY <2>5, <4>1, <4>2 DEF Depart
    <3>3. access' \in [Persons -> ChainRows \cup {None}]
      BY <2>5, SupervisorClearedType DEF Depart
    <3>4. UNCHANGED <<period, today, creating>>
      BY <2>5 DEF Depart
    <3>5. QED
      BY <3>1, <3>2, <3>3, <3>4 DEF OtherTypes
  <2>6. CASE Rejoin(u, p)
    <3>1. personnel' \in [Persons -> PersonnelRows]
      BY <2>6 DEF Rejoin, OtherTypes, PersonnelRows
    <3>2. QED
      BY <2>6, <3>1, SupervisorClearedType DEF Rejoin, OtherTypes
  <2>7. CASE EditPersonnel(u, p)
    BY <2>7, SupervisorClearedType DEF EditPersonnel, OtherTypes
  <2>8. QED
    BY <2>1, <2>2, <2>3, <2>4, <2>5, <2>6, <2>7, <2>9 DEF PersonStep
<1>3. CASE \E u \in Users : AccountStep(u)
  <2>1. PICK u \in Users : AccountStep(u)
    BY <1>3
  <2>2. CASE RollbackCreate(u)
    BY <2>2 DEF RollbackCreate, OtherTypes
  <2>3. CASE \E v \in Editable, b \in BOOLEAN : SetActive(u, v, b)
    BY <2>3, UserWrites, ConstantsAssumption DEF SetActive, OtherTypes
  <2>4. CASE \E v \in Editable, role \in AssignableRoles : SetRole(u, v, role)
    BY <2>4, UserWrites, ConstantsAssumption DEF SetRole, OtherTypes
  <2>5. CASE \E v \in Editable, p \in Persons \cup {None} : LinkPerson(u, v, p)
    <3>1. PICK v \in Editable, p \in Persons \cup {None} : LinkPerson(u, v, p)
      BY <2>5
    <3>2. users' \in [Users -> UserRows]
      BY <3>1, UserWrites, ConstantsAssumption DEF LinkPerson
    <3>3. QED
      BY <3>1, <3>2 DEF LinkPerson, OtherTypes
  <2>6. QED
    BY <2>1, <2>2, <2>3, <2>4, <2>5 DEF AccountStep
<1>4. CASE \E u \in Users : PeriodStep(u)
  <2>1. period' \in Periods \cup {None}
    <3>1. CASE \E u \in Users, d \in PeriodEnds : OpenPeriod(u, d)
      BY <3>1 DEF OpenPeriod, Periods
    <3>2. CASE \E u \in Users, d \in PeriodEnds : MovePeriodEnd(u, d)
      BY <3>2 DEF MovePeriodEnd, OtherTypes, Periods
    <3>3. CASE \E u \in Users, d \in PeriodEnds : ClosePeriod(u, d)
      BY <3>3 DEF ClosePeriod, OtherTypes, Periods
    <3>4. QED
      BY <1>4, <3>1, <3>2, <3>3 DEF PeriodStep
  <2>2. UNCHANGED <<users, personnel, access, today, creating>>
    BY <1>4 DEF PeriodStep, OpenPeriod, MovePeriodEnd, ClosePeriod
  <2>3. QED
    BY <2>1, <2>2 DEF OtherTypes
<1>5. CASE NextDay
  BY <1>5, ConstantsAssumption DEF NextDay, OtherTypes, Days
<1>6. CASE UNCHANGED vars
  BY <1>6 DEF vars, OtherTypes
<1>7. QED
  BY <1>1, <1>2, <1>3, <1>4, <1>5, <1>6 DEF Next

LEMMA TypeNext ==
  ASSUME TypeOK, StatusIsSigned, [Next]_vars
  PROVE  TypeOK'
  BY CaseTypes, OtherTypesNext DEF TypeOK, OtherTypes

-------------------------------------------------------------------------------
(* The review *)

LEMMA ReviewInit == Init => StatusIsSigned
  BY DEF Init, StatusIsSigned, IsCase

LEMMA ReviewNext ==
  ASSUME TypeOK, StatusIsSigned, [Next]_vars
  PROVE  StatusIsSigned'
<1>1. CASE UNCHANGED caseVars
  BY <1>1 DEF caseVars, StatusIsSigned, IsCase
<1>2. CASE \E r \in Records : LegalWrite(r)
  <2>1. PICK r \in Records : LegalWrite(r)
    BY <1>2
  <2>2. PICK d \in CaseRows, t \in SignatureRows :
          Writes(r, d, t) /\ Legal(rec[r], signed[r], d, t)
    BY <2>1 DEF LegalWrite
  <2>3. Reviewed(rec[r], signed[r])
    BY <2>1 DEF LegalWrite, StatusIsSigned
  <2>4. Reviewed(d, t)
    BY <2>2, <2>3 DEF Legal
  <2>5. rec'[r] = d /\ signed'[r] = t
    BY <2>2 DEF Writes, TypeOK
  <2>6. \A q \in Records \ {r} : rec'[q] = rec[q] /\ signed'[q] = signed[q]
    BY <2>2 DEF Writes, TypeOK
  <2>7. QED
    BY <2>4, <2>5, <2>6 DEF StatusIsSigned, IsCase
<1>3. CASE \E u \in Users, r \in Records : CommitCreate(u, r)
  <2>1. PICK u \in Users, r \in Records : CommitCreate(u, r)
    BY <1>3
  <2>2. rec'[r].status = "draft"
    BY <2>1 DEF CommitCreate, NewCase, TypeOK
  <2>3. Reviewed(rec'[r], signed'[r])
    BY <2>2 DEF Reviewed, ScoredStatuses
  <2>4. \A q \in Records \ {r} : rec'[q] = rec[q] /\ signed'[q] = signed[q]
    BY <2>1 DEF CommitCreate, TypeOK
  <2>5. QED
    BY <2>3, <2>4 DEF StatusIsSigned, IsCase
<1>4. QED
  BY <1>1, <1>2, <1>3, StepKinds

\* What the inductive invariant says of every reachable state: each handler keeps the
\* rows well typed and the signatures that the statuses stand for.
THEOREM ReviewInvariant == Spec => [](TypeOK /\ StatusIsSigned)
<1>1. Init => TypeOK /\ StatusIsSigned
  BY TypeInit, ReviewInit
<1>2. TypeOK /\ StatusIsSigned /\ [Next]_vars => (TypeOK /\ StatusIsSigned)'
  BY TypeNext, ReviewNext
<1>3. QED
  BY <1>1, <1>2, PTL DEF Spec

\* The types of the database's rows, for any number of users, persons and cases.
THEOREM TypeCorrect == Spec => []TypeOK
  BY ReviewInvariant, PTL

\* A result under review or published belongs to the scores stored with it.
THEOREM ResultsMatchScores == Spec => []ResultMatchesScores
<1>1. TypeOK /\ StatusIsSigned => ResultMatchesScores
  BY DEF StatusIsSigned, Reviewed, ResultMatchesScores
<1>2. QED
  BY <1>1, ReviewInvariant, PTL

\* Every finalized case got all its approvals on the result it closed with.
THEOREM FinalizedCasesWereReviewed == Spec => []FinalizedWasReviewed
<1>1. TypeOK /\ StatusIsSigned => FinalizedWasReviewed
  BY DEF StatusIsSigned, Reviewed, FinalizedWasReviewed, ScoredStatuses
<1>2. QED
  BY <1>1, ReviewInvariant, PTL

\* The document of a finalized case is drawn from the case as it stands.
THEOREM DocumentsMatchCases == Spec => []DocumentMatchesCase
<1>1. TypeOK /\ StatusIsSigned => DocumentMatchesCase
  BY DEF StatusIsSigned, Reviewed, DocumentMatchesCase
<1>2. QED
  BY <1>1, ReviewInvariant, PTL

\* In every status some desk can take the case a step forward.
THEOREM OpenCasesAreServed == Spec => []SomeDeskServesOpenCase
<1>1. TypeOK => SomeDeskServesOpenCase
  <2> SUFFICES ASSUME TypeOK, NEW r \in Records, IsOpen(r)
               PROVE  \E a \in ForwardActions :
                        /\ rec[r].status \in TRANSITIONS[a].from
                        /\ Guard(a, rec[r])
                        /\ TRANSITIONS[a].seat = "hr" \/ rec[r][TRANSITIONS[a].seat] # None
    BY DEF SomeDeskServesOpenCase
  <2> DEFINE c == rec[r]
  <2>1. c \in CaseRows /\ c.ceo # None
    <3>1. c \in CaseRows
      BY CaseType DEF IsOpen
    <3>2. QED
      BY <3>1, NoneAssumption DEF CaseRows
  <2>2. CASE c.status = "draft"
    <3>1. CASE ~IsManagerPath(c)
      <4>1. Guard("submit", c)
        BY <2>2, <3>1 DEF Guard, IsDirectCeoPath
      <4>2. TRANSITIONS["submit"].seat = "sup" /\ c.status \in TRANSITIONS["submit"].from
        BY <2>2 DEF TRANSITIONS, Step
      <4>3. QED
        BY <3>1, <4>1, <4>2 DEF ForwardActions, IsManagerPath
    <3>2. CASE IsManagerPath(c) /\ ~IsDirectCeoPath(c)
      <4>1. Guard("manager_submit", c)
        BY <2>2, <3>2 DEF Guard
      <4>2. /\ TRANSITIONS["manager_submit"].seat = "deputy"
            /\ c.status \in TRANSITIONS["manager_submit"].from
        BY <2>2 DEF TRANSITIONS, Step
      <4>3. QED
        BY <3>2, <4>1, <4>2 DEF ForwardActions, IsManagerPath, IsDirectCeoPath
    <3>3. CASE IsDirectCeoPath(c)
      <4>1. Guard("direct_ceo_submit", c)
        BY <2>2, <3>3 DEF Guard
      <4>2. /\ TRANSITIONS["direct_ceo_submit"].seat = "ceo"
            /\ c.status \in TRANSITIONS["direct_ceo_submit"].from
        BY <2>2 DEF TRANSITIONS, Step
      <4>3. QED
        BY <2>1, <4>1, <4>2 DEF ForwardActions
    <3>4. QED
      BY <3>1, <3>2, <3>3
  <2>3. CASE c.status = "submitted"
    <3>1. CASE ~IsManagerPath(c)
      <4>1. Guard("hr_approve", c)
        BY <2>3, <3>1 DEF Guard
      <4>2. TRANSITIONS["hr_approve"].seat = "hr" /\ c.status \in TRANSITIONS["hr_approve"].from
        BY <2>3 DEF TRANSITIONS, Step
      <4>3. QED
        BY <4>1, <4>2 DEF ForwardActions
    <3>2. CASE IsManagerPath(c)
      <4>1. Guard("hr_approve_manager", c)
        BY <2>3, <3>2 DEF Guard
      <4>2. /\ TRANSITIONS["hr_approve_manager"].seat = "hr"
            /\ c.status \in TRANSITIONS["hr_approve_manager"].from
        BY <2>3 DEF TRANSITIONS, Step
      <4>3. QED
        BY <4>1, <4>2 DEF ForwardActions
    <3>3. QED
      BY <3>1, <3>2
  <2>4. CASE c.status = "hr_approved" /\ c.deputy # None
    <3>1. Guard("deputy_approve", c)
      BY <2>4 DEF Guard
    <3>2. /\ TRANSITIONS["deputy_approve"].seat = "deputy"
          /\ c.status \in TRANSITIONS["deputy_approve"].from
      BY <2>4 DEF TRANSITIONS, Step
    <3>3. QED
      BY <2>4, <3>1, <3>2 DEF ForwardActions
  <2>5. CASE c.status = "deputy_approved" \/ (c.status = "hr_approved" /\ c.deputy = None)
    <3>1. Guard("ceo_finalize", c)
      BY <2>5 DEF Guard
    <3>2. /\ TRANSITIONS["ceo_finalize"].seat = "ceo"
          /\ c.status \in TRANSITIONS["ceo_finalize"].from
      BY <2>5 DEF TRANSITIONS, Step
    <3>3. QED
      BY <2>1, <3>1, <3>2 DEF ForwardActions
  <2>6. QED
    BY <2>2, <2>3, <2>4, <2>5 DEF IsOpen, OpenStatuses
<1>2. QED
  BY <1>1, TypeCorrect, PTL

-------------------------------------------------------------------------------
(* One open case for a person *)

CreationInvariant == OneOpenCasePerPerson /\ CreationsDoNotCollide

LEMMA CreationInit == Init => CreationInvariant
  BY NoneAssumption
     DEF Init, CreationInvariant, OneOpenCasePerPerson, CreationsDoNotCollide, IsOpen, IsCase,
         Inserted

\* A step that opens no case and inserts no row keeps the invariant.
LEMMA NothingOpens ==
  ASSUME TypeOK, CreationInvariant,
         \A r \in Records : IsOpen(r)' => IsOpen(r) /\ rec'[r].subject = rec[r].subject,
         \A r \in Records : IsCase(r)' => IsCase(r),
         \A u \in Users : Inserted(u)' => Inserted(u) /\ creating'[u] = creating[u]
  PROVE  CreationInvariant'
<1>1. OneOpenCasePerPerson'
  BY DEF CreationInvariant, OneOpenCasePerPerson
<1>2. CreationsDoNotCollide'
  <2> SUFFICES ASSUME NEW u \in Users, Inserted(u)'
               PROVE  /\ ~IsCase(creating[u].row)'
                      /\ ~HasOpenCase(creating[u].subject)'
                      /\ \A v \in Users \ {u} : Inserted(v)' =>
                           /\ creating'[v].row # creating'[u].row
                           /\ creating'[v].subject # creating'[u].subject
    BY DEF CreationsDoNotCollide
  <2>1. Inserted(u) /\ creating'[u] = creating[u]
    OBVIOUS
  <2>2. ~HasOpenCase(creating[u].subject)'
    BY <2>1 DEF CreationInvariant, CreationsDoNotCollide, HasOpenCase
  <2>3. ~IsCase(creating[u].row)'
    <3>1. creating[u].row \in Records
      BY <2>1 DEF TypeOK, Creations, Inserted
    <3>2. ~IsCase(creating[u].row)
      BY <2>1 DEF CreationInvariant, CreationsDoNotCollide
    <3>3. \A r \in Records : ~IsCase(r) => rec'[r] = None
      BY DEF IsCase
    <3>4. rec'[creating[u].row] = None
      BY <3>1, <3>2, <3>3
    <3>5. QED
      BY <2>1, <3>4 DEF IsCase
  <2>4. QED
    BY <2>1, <2>2, <2>3 DEF CreationInvariant, CreationsDoNotCollide
<1>3. QED
  BY <1>1, <1>2 DEF CreationInvariant

LEMMA CreationNext ==
  ASSUME TypeOK, StatusIsSigned, CreationInvariant, [Next]_vars
  PROVE  CreationInvariant'
<1>1. ASSUME NEW r \in Records, LegalWrite(r), UNCHANGED creating
      PROVE  CreationInvariant'
  <2>1. PICK d \in CaseRows, t \in SignatureRows :
          Writes(r, d, t) /\ Legal(rec[r], signed[r], d, t)
    BY <1>1 DEF LegalWrite
  <2>2. rec'[r] = d /\ IsOpen(r) /\ d.subject = rec[r].subject
    BY <1>1, <2>1 DEF Writes, TypeOK, Legal, LegalWrite, IsOpen
  <2>3. \A q \in Records \ {r} : rec'[q] = rec[q]
    BY <2>1 DEF Writes, TypeOK
  <2>4. \A q \in Records : IsOpen(q)' => IsOpen(q) /\ rec'[q].subject = rec[q].subject
    BY <2>2, <2>3 DEF IsOpen, IsCase
  <2>5. \A q \in Records : IsCase(q)' => IsCase(q)
    BY <2>2, <2>3 DEF IsOpen, IsCase
  <2>6. \A u \in Users : Inserted(u)' => Inserted(u) /\ creating'[u] = creating[u]
    BY <1>1 DEF Inserted
  <2>7. QED
    BY <2>4, <2>5, <2>6, NothingOpens
<1>2. ASSUME UNCHANGED rec,
             \A u \in Users : Inserted(u)' => Inserted(u) /\ creating'[u] = creating[u]
      PROVE  CreationInvariant'
  <2>1. \A q \in Records : IsOpen(q)' => IsOpen(q) /\ rec'[q].subject = rec[q].subject
    BY <1>2 DEF IsOpen, IsCase
  <2>2. \A q \in Records : IsCase(q)' => IsCase(q)
    BY <1>2 DEF IsCase
  <2>3. QED
    BY <1>2, <2>1, <2>2, NothingOpens
<1>3. ASSUME NEW u \in Users, NEW r \in Records, InsertCase(u, r)
      PROVE  CreationInvariant'
  <2> DEFINE p == creating[u].subject
  <2>1. creating[u] \in Creations
    BY <1>3 DEF InsertCase, TypeOK
  <2>2. creating' = [creating EXCEPT ![u] = [creating[u] EXCEPT !.row = r]]
    BY <1>3 DEF InsertCase
  <2>3. creating'[u].row = r /\ creating'[u].subject = p
    BY <2>1, <2>2 DEF Creations, TypeOK
  <2>4. \A v \in Users \ {u} : creating'[v] = creating[v]
    BY <2>2 DEF TypeOK
  <2>5. UNCHANGED rec
    BY <1>3 DEF InsertCase, caseVars
  <2>6. ~IsCase(r) /\ ~HasOpenCase(p)
    BY <1>3 DEF InsertCase, OpenCaseIndexAdmits, HasOpenCase, IsOpen, OpenStatuses
  <2>7. \A v \in Users \ {u} : Inserted(v) => creating[v].row # r /\ creating[v].subject # p
    BY <1>3 DEF InsertCase, OpenCaseIndexAdmits
  <2>8. OneOpenCasePerPerson'
    BY <2>5 DEF CreationInvariant, OneOpenCasePerPerson, IsOpen, IsCase
  <2>9. ASSUME NEW v \in Users, Inserted(v)'
        PROVE  /\ ~IsCase(creating[v].row)'
               /\ ~HasOpenCase(creating[v].subject)'
               /\ \A w \in Users \ {v} : Inserted(w)' =>
                    /\ creating'[w].row # creating'[v].row
                    /\ creating'[w].subject # creating'[v].subject
    <3>1. CASE v = u
      <4>1. ~IsCase(creating[v].row)' /\ ~HasOpenCase(creating[v].subject)'
        BY <2>3, <2>5, <2>6, <3>1 DEF IsCase, HasOpenCase, IsOpen
      <4>2. QED
        BY <2>3, <2>4, <2>7, <3>1, <4>1 DEF Inserted
    <3>2. CASE v # u
      <4>1. Inserted(v) /\ creating'[v] = creating[v]
        BY <2>4, <2>9, <3>2 DEF Inserted
      <4>2. ~IsCase(creating[v].row) /\ ~HasOpenCase(creating[v].subject)
        BY <4>1 DEF CreationInvariant, CreationsDoNotCollide
      <4>3. ~IsCase(creating[v].row)' /\ ~HasOpenCase(creating[v].subject)'
        BY <2>5, <4>1, <4>2 DEF IsCase, HasOpenCase, IsOpen
      <4>4. \A w \in Users \ {v} : Inserted(w)' =>
              /\ creating'[w].row # creating'[v].row
              /\ creating'[w].subject # creating'[v].subject
        BY <2>3, <2>4, <2>7, <3>2, <4>1
           DEF Inserted, CreationInvariant, CreationsDoNotCollide
      <4>5. QED
        BY <4>3, <4>4
    <3>3. QED
      BY <3>1, <3>2
  <2>10. QED
    BY <2>8, <2>9 DEF CreationInvariant, CreationsDoNotCollide
<1>4. ASSUME NEW u \in Users, NEW r \in Records, CommitCreate(u, r)
      PROVE  CreationInvariant'
  <2> DEFINE p == creating[u].subject
  <2>1. Inserted(u) /\ creating[u].row = r
    BY <1>4, NoneAssumption DEF CommitCreate, Inserted
  <2>2. /\ ~HasOpenCase(p)
        /\ \A v \in Users \ {u} : Inserted(v) => creating[v].row # r /\ creating[v].subject # p
    BY <2>1 DEF CreationInvariant, CreationsDoNotCollide
  <2>3. rec'[r].subject = p /\ \A q \in Records \ {r} : rec'[q] = rec[q]
    BY <1>4 DEF CommitCreate, TypeOK, NewCase
  <2>4. \A v \in Users : Inserted(v)' => v # u /\ Inserted(v) /\ creating'[v] = creating[v]
    BY <1>4 DEF CommitCreate, Inserted, TypeOK
  <2>5. \A q \in Records \ {r} : IsOpen(q)' => IsOpen(q) /\ rec'[q].subject = rec[q].subject
    BY <2>3 DEF IsOpen, IsCase
  <2>6. OneOpenCasePerPerson'
    <3>1. \A q \in Records \ {r} : IsOpen(q)' => rec'[q].subject # p
      BY <2>2, <2>5 DEF HasOpenCase
    <3>2. QED
      BY <2>3, <2>5, <3>1 DEF OneOpenCasePerPerson, CreationInvariant
  <2>7. ASSUME NEW v \in Users, Inserted(v)'
        PROVE  /\ ~IsCase(creating[v].row)'
               /\ ~HasOpenCase(creating[v].subject)'
               /\ \A w \in Users \ {v} : Inserted(w)' =>
                    /\ creating'[w].row # creating'[v].row
                    /\ creating'[w].subject # creating'[v].subject
    <3>1. v # u /\ Inserted(v) /\ creating'[v] = creating[v]
      BY <2>4, <2>7
    <3>2. creating[v].row \in Records \ {r} /\ creating[v].subject # p
      BY <2>2, <3>1 DEF TypeOK, Creations, Inserted
    <3>3. ~IsCase(creating[v].row) /\ ~HasOpenCase(creating[v].subject)
      BY <3>1 DEF CreationInvariant, CreationsDoNotCollide
    <3>4. ~IsCase(creating[v].row)'
      BY <2>3, <3>1, <3>2, <3>3 DEF IsCase
    <3>5. ~HasOpenCase(creating[v].subject)'
      BY <2>3, <2>5, <3>1, <3>2, <3>3 DEF HasOpenCase
    <3>6. QED
      BY <2>4, <3>1, <3>4, <3>5 DEF CreationInvariant, CreationsDoNotCollide
  <2>8. QED
    BY <2>6, <2>7 DEF CreationInvariant, CreationsDoNotCollide
<1>5. CASE \E u \in Users, r \in Records : CaseStep(u, r)
  BY <1>1, <1>3, <1>4, <1>5, CaseStepKinds DEF others
<1>6. CASE \E u \in Users, p \in Persons : PersonStep(u, p)
  <2>1. PICK u \in Users, p \in Persons : PersonStep(u, p)
    BY <1>6
  <2>2. CASE BeginCreate(u, p) \/ BeginBulkCreate(u, p)
    <3>1. UNCHANGED rec /\ creating' = [creating EXCEPT ![u] = Reads(p)]
      BY <2>2 DEF BeginCreate, BeginBulkCreate, caseVars
    <3>2. \A v \in Users : Inserted(v)' => Inserted(v) /\ creating'[v] = creating[v]
      BY <3>1 DEF Inserted, Reads, TypeOK
    <3>3. QED
      BY <1>2, <3>1, <3>2
  <2>3. CASE Depart(u, p)
    <3>1. UNCHANGED creating
      BY <2>3 DEF Depart
    <3>2. CASE UNCHANGED caseVars
      BY <1>2, <3>1, <3>2 DEF caseVars, Inserted
    <3>3. QED
      BY <1>1, <2>3, <3>1, <3>2, DepartWrites
  <2>4. CASE UNCHANGED <<caseVars, creating>>
    BY <1>2, <2>4 DEF caseVars, Inserted
  <2>5. QED
    BY <2>1, <2>2, <2>3, <2>4
       DEF PersonStep, UpsertAccess, OvertakenUpsert, SetManager, Rejoin, EditPersonnel
<1>7. CASE \E u \in Users : RollbackCreate(u)
  <2>1. PICK u \in Users : RollbackCreate(u)
    BY <1>7
  <2>2. \A v \in Users : Inserted(v)' => Inserted(v) /\ creating'[v] = creating[v]
    BY <2>1 DEF RollbackCreate, Inserted, TypeOK
  <2>3. QED
    BY <1>2, <2>1, <2>2 DEF RollbackCreate, caseVars
<1>8. CASE UNCHANGED <<rec, creating>>
  BY <1>2, <1>8 DEF Inserted
<1>9. QED
  BY <1>5, <1>6, <1>7, <1>8
     DEF Next, AccountStep, PeriodStep, SetActive, SetRole, LinkPerson, OpenPeriod,
         MovePeriodEnd, ClosePeriod, NextDay, caseVars, vars

\* At any number of concurrent requests to open a case, each person has at most one
\* open case, and no two requests are left holding rows that collide.
THEOREM OneOpenCase == Spec => []OneOpenCasePerPerson
<1>1. Init => TypeOK /\ StatusIsSigned /\ CreationInvariant
  BY TypeInit, ReviewInit, CreationInit
<1>2. TypeOK /\ StatusIsSigned /\ CreationInvariant /\ [Next]_vars =>
        (TypeOK /\ StatusIsSigned /\ CreationInvariant)'
  BY TypeNext, ReviewNext, CreationNext
<1>3. CreationInvariant => OneOpenCasePerPerson
  BY DEF CreationInvariant
<1>4. QED
  BY <1>1, <1>2, <1>3, PTL DEF Spec

-------------------------------------------------------------------------------
(* Seats *)

\* The chains entered by HR, the copies held by requests and the cases.
SeatInvariant ==
  /\ SeatsNotRedundant
  /\ \A u \in Users : creating[u] # None => NotRedundant(creating[u])
  /\ NobodyInOwnChain

LEMMA SeatInit == Init => SeatInvariant
<1> SUFFICES ASSUME Init PROVE SeatInvariant
  OBVIOUS
<1>1. PICK i \in Installations : access = i.access
  BY DEF Init
<1>2. QED
  BY <1>1, InstallationAssumption
     DEF Init, SeatInvariant, SeatsNotRedundant, NobodyInOwnChain, SubjectNotSeated, IsCase

\* Emptying the supervisor's seat makes no chain worse.
LEMMA ClearedChain ==
  ASSUME NEW k \in ChainRows, NEW p, NotRedundant(k), SubjectNotSeated(k, p)
  PROVE  LET d == [k EXCEPT !.sup = None] IN NotRedundant(d) /\ SubjectNotSeated(d, p)
<1> DEFINE d == [k EXCEPT !.sup = None]
<1>1. d.sup = None /\ d.deputy = k.deputy /\ d.ceo = k.ceo
  BY DEF ChainRows
<1>2. QED
  BY <1>1 DEF NotRedundant, SubjectNotSeated, Occupants

ChainsAreSound ==
  \A p \in Persons : access[p] # None => NotRedundant(access[p]) /\ SubjectNotSeated(access[p], p)

LEMMA ChainsSound == SeatInvariant => ChainsAreSound
  BY DEF SeatInvariant, SeatsNotRedundant, NobodyInOwnChain, ChainsAreSound

\* update_personnel keeps the chains sound.
LEMMA SupervisorClearedSound ==
  ASSUME TypeOK, ChainsAreSound, NEW p \in Persons, access' = SupervisorCleared(p),
         \A u \in Users : users'[u].person = users[u].person
  PROVE  ChainsAreSound'
<1>1. \A q \in Persons : access[q] # None => access[q] \in ChainRows
  BY DEF TypeOK
<1>2. ASSUME NEW q \in Persons, access[q] # None
      PROVE  \A u \in Occupants(access[q]) : users'[u].person # q
  <2>1. Occupants(access[q]) \subseteq Users
    BY <1>1, <1>2 DEF Occupants, ChainRows, Seats
  <2>2. QED
    BY <1>2, <2>1 DEF ChainsAreSound, SubjectNotSeated
<1>3. ASSUME NEW q \in Persons, access'[q] # None, access'[q] = access[q]
      PROVE  NotRedundant(access'[q]) /\ SubjectNotSeated(access[q], q)'
  <2>1. NotRedundant(access[q])
    BY <1>3 DEF ChainsAreSound
  <2>2. \A u \in Occupants(access'[q]) : users'[u].person # q
    BY <1>2, <1>3
  <2>3. QED
    BY <1>3, <2>1, <2>2 DEF SubjectNotSeated
<1>4. CASE personnel'[p].manager /\ access[p] # None
  <2>1. access' = [access EXCEPT ![p].sup = None]
    BY <1>4 DEF SupervisorCleared
  <2>2. /\ \A q \in Persons \ {p} : access'[q] = access[q]
        /\ access'[p] = [access[p] EXCEPT !.sup = None]
    BY <2>1 DEF TypeOK
  <2>3. NotRedundant(access'[p])
    BY <1>1, <1>4, <2>2, ClearedChain DEF ChainsAreSound
  <2>4. Occupants(access'[p]) \subseteq Occupants(access[p])
    BY <1>1, <1>4, <2>2 DEF Occupants, ChainRows
  <2>5. \A u \in Occupants(access'[p]) : users'[u].person # p
    BY <1>2, <1>4, <2>4
  <2>6. SubjectNotSeated(access[p], p)'
    BY <2>5 DEF SubjectNotSeated
  <2>7. QED
    BY <1>3, <2>2, <2>3, <2>6 DEF ChainsAreSound
<1>5. CASE ~(personnel'[p].manager /\ access[p] # None)
  <2>1. access' = access
    BY <1>5 DEF SupervisorCleared
  <2>2. QED
    BY <1>3, <2>1 DEF ChainsAreSound
<1>6. QED
  BY <1>4, <1>5

\* Nor does any other step harm them.
LEMMA ChainsNext ==
  ASSUME TypeOK, ChainsAreSound, StatusIsSigned, [Next]_vars
  PROVE  ChainsAreSound'
<1>1. ASSUME UNCHANGED access, \A u \in Users : users'[u].person = users[u].person
      PROVE  ChainsAreSound'
  <2>1. \A q \in Persons : access[q] # None => Occupants(access[q]) \subseteq Users
    BY DEF TypeOK, Occupants, ChainRows, Seats
  <2>2. QED
    BY <1>1, <2>1 DEF ChainsAreSound, SubjectNotSeated
<1>2. CASE \E u \in Users, p \in Persons : PersonStep(u, p)
  <2>1. PICK u \in Users, p \in Persons : PersonStep(u, p)
    BY <1>2
  <2>2. CASE \E chain \in Chains : UpsertAccess(u, p, chain) \/ OvertakenUpsert(u, p, chain)
    <3>1. PICK chain \in Chains : UpsertAccess(u, p, chain) \/ OvertakenUpsert(u, p, chain)
      BY <2>2
    <3>2. NotRedundant(chain) /\ SubjectNotSeated(chain, p)
      BY <3>1 DEF UpsertAccess, OvertakenUpsert, ChainOffered, Admissible
    <3>3. /\ \A q \in Persons \ {p} : access'[q] = access[q]
          /\ access'[p] = chain /\ users' = users
      BY <3>1 DEF UpsertAccess, OvertakenUpsert, TypeOK
    <3>4. QED
      BY <3>2, <3>3 DEF ChainsAreSound, SubjectNotSeated
  <2>3. CASE (\E b \in ManagerFlags : SetManager(u, p, b)) \/ Rejoin(u, p) \/ EditPersonnel(u, p)
    BY <2>3, SupervisorClearedSound DEF SetManager, Rejoin, EditPersonnel
  <2>4. CASE Depart(u, p)
    <3>1. \A v \in Users : users'[v].person = users[v].person
      BY <2>4 DEF Depart, TypeOK, UserRows
    <3>2. QED
      BY <2>4, <3>1, SupervisorClearedSound DEF Depart
  <2>5. CASE UNCHANGED <<users, access>>
    BY <1>1, <2>5
  <2>6. QED
    BY <2>1, <2>2, <2>3, <2>4, <2>5
       DEF PersonStep, BeginCreate, BeginBulkCreate
<1>3. CASE \E u \in Users : AccountStep(u)
  <2>1. PICK u \in Users : AccountStep(u)
    BY <1>3
  <2>2. CASE \E v \in Editable, p \in Persons \cup {None} : LinkPerson(u, v, p)
    <3>1. PICK v \in Editable, p \in Persons \cup {None} : LinkPerson(u, v, p)
      BY <2>2
    <3>2. /\ v \in Users /\ users'[v].person = p /\ access' = access
          /\ \A w \in Users \ {v} : users'[w] = users[w]
      BY <3>1, ConstantsAssumption DEF LinkPerson, TypeOK, UserRows
    <3>3. p # None => (access[p] # None => v \notin Occupants(access[p]))
      BY <3>1 DEF LinkPerson, EvaluatesPerson
    <3>4. \A q \in Persons : access[q] # None => Occupants(access[q]) \subseteq Users
      BY DEF TypeOK, Occupants, ChainRows, Seats
    <3>5. ASSUME NEW q \in Persons, access[q] # None
          PROVE  SubjectNotSeated(access[q], q)'
      <4>1. SubjectNotSeated(access[q], q) /\ q # None
        BY <3>5, NoneAssumption DEF ChainsAreSound
      <4>2. v \in Occupants(access[q]) => p # q
        BY <3>3, <3>5, <4>1
      <4>3. \A w \in Occupants(access[q]) : users'[w].person # q
        BY <3>2, <3>4, <3>5, <4>1, <4>2 DEF SubjectNotSeated
      <4>4. QED
        BY <3>2, <4>3 DEF SubjectNotSeated
    <3>6. QED
      BY <3>2, <3>5 DEF ChainsAreSound
  <2>3. CASE \E v \in Editable, b \in BOOLEAN : SetActive(u, v, b)
    BY <1>1, <2>3, ConstantsAssumption DEF SetActive, TypeOK, UserRows
  <2>4. CASE \E v \in Editable, role \in AssignableRoles : SetRole(u, v, role)
    BY <1>1, <2>4, ConstantsAssumption DEF SetRole, TypeOK, UserRows
  <2>5. CASE RollbackCreate(u)
    BY <1>1, <2>5 DEF RollbackCreate
  <2>6. QED
    BY <2>1, <2>2, <2>3, <2>4, <2>5 DEF AccountStep
<1>4. CASE \E u \in Users, r \in Records : CaseStep(u, r)
  BY <1>1, <1>4, CaseStepKinds DEF others, InsertCase, CommitCreate
<1>5. CASE (\E u \in Users : PeriodStep(u)) \/ NextDay \/ UNCHANGED vars
  BY <1>1, <1>5 DEF PeriodStep, OpenPeriod, MovePeriodEnd, ClosePeriod, NextDay, vars
<1>6. QED
  BY <1>2, <1>3, <1>4, <1>5 DEF Next

LEMMA SeatNext ==
  ASSUME TypeOK, StatusIsSigned, SeatInvariant, [Next]_vars
  PROVE  SeatInvariant'
<1>1. ChainsAreSound'
  BY ChainsSound, ChainsNext
<1>2. \A u \in Users : creating'[u] # None => NotRedundant(creating'[u])
  <2> SUFFICES ASSUME NEW v \in Users, creating'[v] # None
               PROVE  NotRedundant(creating'[v])
    OBVIOUS
  <2>1. CASE creating'[v] = creating[v]
    BY <2>1 DEF SeatInvariant
  <2>2. ASSUME NEW r \in Records, InsertCase(v, r)
        PROVE  NotRedundant(creating'[v])
    <3>1. creating[v] \in Creations /\ NotRedundant(creating[v])
      BY <2>2 DEF InsertCase, TypeOK, SeatInvariant
    <3>2. creating'[v] = [creating[v] EXCEPT !.row = r]
      BY <2>2 DEF InsertCase, TypeOK
    <3>3. /\ creating'[v].sup = creating[v].sup /\ creating'[v].deputy = creating[v].deputy
          /\ creating'[v].ceo = creating[v].ceo
      BY <3>1, <3>2 DEF Creations
    <3>4. QED
      BY <3>1, <3>3 DEF NotRedundant
  <2>3. ASSUME NEW p \in Persons, BeginCreate(v, p) \/ BeginBulkCreate(v, p)
        PROVE  NotRedundant(creating'[v])
    <3>1. access[p] # None /\ access[p] \in ChainRows
      BY <2>3 DEF BeginCreate, BeginBulkCreate, MayOpenCase, TypeOK
    <3>2. NotRedundant(access[p])
      BY <3>1 DEF SeatInvariant, SeatsNotRedundant
    <3>3. NotRedundant(ChainFor(p))
      <4>1. CASE personnel[p].manager
        <5>1. ChainFor(p) = [access[p] EXCEPT !.sup = None]
          BY <4>1 DEF ChainFor
        <5>2. ChainFor(p).deputy = access[p].deputy /\ ChainFor(p).ceo = access[p].ceo
              /\ ChainFor(p).sup = None
          BY <3>1, <5>1 DEF ChainRows
        <5>3. QED
          BY <3>2, <5>2 DEF NotRedundant
      <4>2. CASE ~personnel[p].manager
        BY <3>2, <4>2 DEF ChainFor
      <4>3. QED
        BY <4>1, <4>2
    <3>4. creating'[v] = Reads(p)
      BY <2>3 DEF BeginCreate, BeginBulkCreate, TypeOK
    <3>5. QED
      BY <3>3, <3>4 DEF Reads, NotRedundant
  <2>4. CASE \E u \in Users, r \in Records : CaseStep(u, r)
    <3>1. PICK u \in Users, r \in Records : CaseStep(u, r)
      BY <2>4
    <3>2. CASE InsertCase(u, r)
      BY <2>1, <2>2, <3>2 DEF InsertCase, TypeOK
    <3>3. CASE CommitCreate(u, r)
      BY <2>1, <3>3 DEF CommitCreate, TypeOK
    <3>4. CASE UNCHANGED others
      BY <2>1, <3>4 DEF others
    <3>5. QED
      BY <3>1, <3>2, <3>3, <3>4, CaseStepKinds
  <2>5. CASE \E u \in Users, p \in Persons : PersonStep(u, p)
    <3>1. PICK u \in Users, p \in Persons : PersonStep(u, p)
      BY <2>5
    <3>2. CASE BeginCreate(u, p) \/ BeginBulkCreate(u, p)
      BY <2>1, <2>3, <3>2 DEF BeginCreate, BeginBulkCreate, TypeOK
    <3>3. CASE UNCHANGED creating
      BY <2>1, <3>3
    <3>4. QED
      BY <3>1, <3>2, <3>3
         DEF PersonStep, UpsertAccess, OvertakenUpsert, SetManager, Depart, Rejoin,
             EditPersonnel
  <2>6. CASE \E u \in Users : AccountStep(u)
    <3>1. PICK u \in Users : AccountStep(u)
      BY <2>6
    <3>2. CASE RollbackCreate(u)
      BY <2>1, <3>2 DEF RollbackCreate, TypeOK
    <3>3. CASE UNCHANGED creating
      BY <2>1, <3>3
    <3>4. QED
      BY <3>1, <3>2, <3>3 DEF AccountStep, SetActive, SetRole, LinkPerson
  <2>7. CASE (\E u \in Users : PeriodStep(u)) \/ NextDay \/ UNCHANGED vars
    BY <2>1, <2>7 DEF PeriodStep, OpenPeriod, MovePeriodEnd, ClosePeriod, NextDay, vars
  <2>8. QED
    BY <2>4, <2>5, <2>6, <2>7 DEF Next
<1>3. ASSUME NEW q \in Records, IsCase(q)'
      PROVE  NotRedundant(rec'[q])
  <2>1. CASE rec'[q] = rec[q]
    BY <1>3, <2>1 DEF SeatInvariant, SeatsNotRedundant, IsCase
  <2>2. CASE \E r \in Records : LegalWrite(r)
    <3>1. PICK r \in Records, d \in CaseRows, t \in SignatureRows :
            IsCase(r) /\ Writes(r, d, t) /\ Legal(rec[r], signed[r], d, t)
      BY <2>2 DEF LegalWrite
    <3>2. NotRedundant(d)
      BY <3>1 DEF Legal, SeatInvariant, SeatsNotRedundant
    <3>3. QED
      BY <2>1, <3>1, <3>2 DEF Writes, TypeOK
  <2>3. CASE \E u \in Users, r \in Records : CommitCreate(u, r)
    <3>1. PICK u \in Users, r \in Records : CommitCreate(u, r)
      BY <2>3
    <3>2. NotRedundant(creating[u])
      BY <3>1 DEF CommitCreate, SeatInvariant
    <3>3. NotRedundant(NewCase(creating[u]))
      BY <3>2 DEF NewCase, NotRedundant
    <3>4. QED
      BY <2>1, <3>1, <3>3 DEF CommitCreate, TypeOK
  <2>4. CASE UNCHANGED caseVars
    BY <2>1, <2>4 DEF caseVars
  <2>5. QED
    BY <2>2, <2>3, <2>4, StepKinds
<1>4. QED
  BY <1>1, <1>2, <1>3 DEF SeatInvariant, SeatsNotRedundant, NobodyInOwnChain, ChainsAreSound

SafetyInvariant == TypeOK /\ StatusIsSigned /\ CreationInvariant /\ SeatInvariant

\* The row that a creation commits was nobody's before.
LEMMA CommitsNewRow ==
  ASSUME SafetyInvariant, NEW u \in Users, NEW r \in Records, CommitCreate(u, r)
  PROVE  ~IsCase(r)
<1>1. Inserted(u)
  BY NoneAssumption DEF CommitCreate, Inserted
<1>2. QED
  BY <1>1 DEF CommitCreate, SafetyInvariant, CreationInvariant, CreationsDoNotCollide

\* All the invariants together.
THEOREM Safety == Spec => []SafetyInvariant
<1>1. Init => SafetyInvariant
  BY TypeInit, ReviewInit, CreationInit, SeatInit DEF SafetyInvariant
<1>2. SafetyInvariant /\ [Next]_vars => SafetyInvariant'
  BY TypeNext, ReviewNext, CreationNext, SeatNext DEF SafetyInvariant
<1>3. QED
  BY <1>1, <1>2, PTL DEF Spec

\* The uncommitted rows of create_evaluation and of a bulk run collide neither with
\* each other nor with a committed open case.
THEOREM CreationsStayApart == Spec => []CreationsDoNotCollide
<1>1. SafetyInvariant => CreationsDoNotCollide
  BY DEF SafetyInvariant, CreationInvariant
<1>2. QED
  BY <1>1, Safety, PTL

\* Whatever HR enters and reassigns, nobody holds two adjoining seats.
THEOREM SeatsStayDistinct == Spec => []SeatsNotRedundant
<1>1. SafetyInvariant => SeatsNotRedundant
  BY DEF SafetyInvariant, SeatInvariant
<1>2. QED
  BY <1>1, Safety, PTL

\* Whoever is linked to whom, nobody sits in the chain of their own personnel row.
THEOREM ChainsExcludeTheirSubject == Spec => []NobodyInOwnChain
<1>1. SafetyInvariant => NobodyInOwnChain
  BY DEF SafetyInvariant, SeatInvariant
<1>2. QED
  BY <1>1, Safety, PTL

-------------------------------------------------------------------------------
(* The deadline *)

\* After the deadline of a case nobody changes its scores, its bonus or its result.
THEOREM NothingLate == Spec => NothingEntersALateCase
<1> DEFINE Frozen(r) == IsCase(r) /\ ~WindowOpen(rec[r]) =>
                          /\ rec'[r].sheet = rec[r].sheet
                          /\ rec'[r].bonus = rec[r].bonus
                          /\ rec'[r].result = rec[r].result
<1>1. SafetyInvariant /\ [Next]_vars => \A r \in Records : Frozen(r)
  <2> SUFFICES ASSUME SafetyInvariant, [Next]_vars, NEW q \in Records PROVE Frozen(q)
    OBVIOUS
  <2>1. CASE rec'[q] = rec[q]
    BY <2>1
  <2>2. CASE \E r \in Records : LegalWrite(r)
    <3>1. PICK r \in Records, d \in CaseRows, t \in SignatureRows :
            IsCase(r) /\ Writes(r, d, t) /\ Legal(rec[r], signed[r], d, t)
      BY <2>2 DEF LegalWrite
    <3>2. CASE q = r
      BY <3>1, <3>2 DEF Writes, Legal, SafetyInvariant, TypeOK
    <3>3. CASE q # r
      BY <2>1, <3>1, <3>3 DEF Writes, SafetyInvariant, TypeOK
    <3>4. QED
      BY <3>2, <3>3
  <2>3. CASE \E u \in Users, r \in Records : CommitCreate(u, r)
    <3>1. PICK u \in Users, r \in Records : CommitCreate(u, r)
      BY <2>3
    <3>2. ~IsCase(r) /\ (q # r => rec'[q] = rec[q])
      BY <3>1, CommitsNewRow DEF CommitCreate, SafetyInvariant, TypeOK
    <3>3. QED
      BY <2>1, <3>2
  <2>4. CASE UNCHANGED caseVars
    BY <2>1, <2>4 DEF caseVars
  <2>5. QED
    BY <2>2, <2>3, <2>4, StepKinds DEF SafetyInvariant
<1>2. (\A r \in Records : Frozen(r)) =>
        \A r \in Records :
          IsCase(r) /\ ~WindowOpen(rec[r]) =>
            /\ rec'[r].sheet = rec[r].sheet
            /\ rec'[r].bonus = rec[r].bonus
            /\ rec'[r].result = rec[r].result
  OBVIOUS
<1>3. QED
  BY <1>1, <1>2, Safety, PTL DEF Spec, NothingEntersALateCase

-------------------------------------------------------------------------------
(* The lifecycle *)

\* The phase and the outcome of a row.
RowPhase(c) ==
  CASE c.status = "draft"     -> "scoring"
    [] c.status = "finalized" -> "closed"
    [] c.status = "cancelled" -> "withdrawn"
    [] OTHER -> "review"

RowOutcome(c) == IF RowPhase(c) \in {"review", "closed"} THEN c.result ELSE None

LEMMA RowsPhase ==
  ASSUME NEW r \in Records, IsCase(r)
  PROVE  PhaseOf(r) = RowPhase(rec[r]) /\ OutcomeOf(r) = RowOutcome(rec[r])
<1>1. PhaseOf(r) = RowPhase(rec[r])
  BY DEF PhaseOf, RowPhase
<1>2. QED
  BY <1>1 DEF OutcomeOf, RowOutcome
\* A legal write takes a case along an edge of the lifecycle, or nowhere.
LEMMA LegalEdge ==
  ASSUME NEW c \in CaseRows, NEW d \in CaseRows, NEW s, NEW t,
         Reviewed(c, s), Legal(c, s, d, t)
  PROVE  \/ RowPhase(d) = RowPhase(c) /\ RowOutcome(d) = RowOutcome(c)
         \/ RowPhase(c) = "scoring" /\ RowPhase(d) = "review" /\ RowOutcome(d) \in Results
         \/ RowPhase(c) = "review" /\ RowPhase(d) = "scoring" /\ RowOutcome(d) = None
         \/ RowPhase(c) = "review" /\ RowPhase(d) = "closed" /\ RowOutcome(d) = RowOutcome(c)
         \/ RowPhase(c) \in {"scoring", "review"} /\ RowPhase(d) = "withdrawn"
            /\ RowOutcome(d) = None
<1>1. Reviewed(d, t)
  BY DEF Legal
<1>2. CASE d.status = c.status /\ d.result = c.result
  BY <1>2 DEF RowPhase, RowOutcome
<1>3. CASE c.status = "draft" /\ d.status = "submitted"
  <2>1. d.result \in Results
    BY <1>1, <1>3 DEF Reviewed, ScoredStatuses, ResultOf, Results, CaseRows
  <2>2. QED
    BY <1>3, <2>1 DEF RowPhase, RowOutcome
<1>4. CASE c.status \in ReviewStatuses /\ d.status = "draft"
  BY <1>4 DEF RowPhase, RowOutcome, ReviewStatuses
<1>5. CASE /\ c.status \in ReviewStatuses /\ d.status \in ReviewStatuses \cup {"finalized"}
           /\ d.result = c.result
  BY <1>5 DEF RowPhase, RowOutcome, ReviewStatuses
<1>6. CASE d.status = "cancelled"
  BY <1>6 DEF Legal, OpenStatuses, RowPhase, RowOutcome
<1>7. QED
  BY <1>2, <1>3, <1>4, <1>5, <1>6 DEF Legal

\* A step that writes one row writes one phase and one outcome.
LEMMA RowBecomes ==
  ASSUME NEW r \in Records, \A q \in Records \ {r} : rec'[q] = rec[q], IsCase(r)'
  PROVE  Lifecycle!Becomes(r, RowPhase(rec'[r]), RowOutcome(rec'[r]))
<1>1. PhaseOf(r)' = RowPhase(rec'[r]) /\ OutcomeOf(r)' = RowOutcome(rec'[r])
  BY DEF PhaseOf, OutcomeOf, RowPhase, RowOutcome
<1>2. \A q \in Records \ {r} : PhaseOf(q)' = PhaseOf(q) /\ OutcomeOf(q)' = OutcomeOf(q)
  BY DEF PhaseOf, OutcomeOf, IsCase
<1>3. [q \in Records |-> PhaseOf(q)]'
        = [[q \in Records |-> PhaseOf(q)] EXCEPT ![r] = RowPhase(rec'[r])]
  BY <1>1, <1>2
<1>4. [q \in Records |-> OutcomeOf(q)]'
        = [[q \in Records |-> OutcomeOf(q)] EXCEPT ![r] = RowOutcome(rec'[r])]
  BY <1>1, <1>2
<1>5. QED
  BY <1>3, <1>4 DEF Lifecycle!Becomes

\* No step changes anything of the lifecycle unless it writes a case.
LEMMA RowsStutter ==
  ASSUME \A q \in Records : PhaseOf(q)' = PhaseOf(q) /\ OutcomeOf(q)' = OutcomeOf(q)
  PROVE  UNCHANGED <<[r \in Records |-> PhaseOf(r)], [r \in Records |-> OutcomeOf(r)]>>
  OBVIOUS

LEMMA LifecycleInit == Init => Lifecycle!Init
  BY DEF Init, Lifecycle!Init, PhaseOf, OutcomeOf, IsCase

LEMMA LifecycleNext ==
  ASSUME SafetyInvariant, [Next]_vars
  PROVE  \/ Lifecycle!Next
         \/ UNCHANGED <<[r \in Records |-> PhaseOf(r)], [r \in Records |-> OutcomeOf(r)]>>
<1>1. CASE UNCHANGED caseVars
  <2>1. \A q \in Records : PhaseOf(q)' = PhaseOf(q) /\ OutcomeOf(q)' = OutcomeOf(q)
    BY <1>1 DEF caseVars, PhaseOf, OutcomeOf, IsCase
  <2>2. QED
    BY <2>1, RowsStutter
<1>2. CASE \E r \in Records : LegalWrite(r)
  <2>1. PICK r \in Records, d \in CaseRows, t \in SignatureRows :
          IsCase(r) /\ Writes(r, d, t) /\ Legal(rec[r], signed[r], d, t)
    BY <1>2 DEF LegalWrite
  <2> DEFINE c == rec[r]
  <2>2. c \in CaseRows /\ Reviewed(c, signed[r])
    BY <2>1, CaseType DEF SafetyInvariant, StatusIsSigned
  <2>3. rec'[r] = d /\ \A q \in Records \ {r} : rec'[q] = rec[q]
    BY <2>1 DEF Writes, SafetyInvariant, TypeOK
  <2>4. IsCase(r)'
    BY <2>3, NoneAssumption DEF IsCase
  <2>5. PhaseOf(r) = RowPhase(c) /\ OutcomeOf(r) = RowOutcome(c)
    BY <2>1, RowsPhase
  <2>6. Lifecycle!Becomes(r, RowPhase(d), RowOutcome(d))
    BY <2>3, <2>4, RowBecomes
  <2>7. CASE RowPhase(d) = RowPhase(c) /\ RowOutcome(d) = RowOutcome(c)
    <3>1. \A q \in Records \ {r} : PhaseOf(q)' = PhaseOf(q) /\ OutcomeOf(q)' = OutcomeOf(q)
      BY <2>3 DEF PhaseOf, OutcomeOf, IsCase
    <3>2. PhaseOf(r)' = RowPhase(d) /\ OutcomeOf(r)' = RowOutcome(d)
      BY <2>3, <2>4 DEF PhaseOf, OutcomeOf, RowPhase, RowOutcome
    <3>3. QED
      BY <2>5, <2>7, <3>1, <3>2, RowsStutter
  <2>8. CASE RowPhase(c) = "scoring" /\ RowPhase(d) = "review" /\ RowOutcome(d) \in Results
    BY <2>5, <2>6, <2>8 DEF Lifecycle!Propose, Lifecycle!Next
  <2>9. CASE RowPhase(c) = "review" /\ RowPhase(d) = "scoring" /\ RowOutcome(d) = None
    BY <2>5, <2>6, <2>9 DEF Lifecycle!SendBack, Lifecycle!Next
  <2>10. CASE RowPhase(c) = "review" /\ RowPhase(d) = "closed" /\ RowOutcome(d) = RowOutcome(c)
    BY <2>5, <2>6, <2>10 DEF Lifecycle!Close, Lifecycle!Next
  <2>11. CASE /\ RowPhase(c) \in {"scoring", "review"} /\ RowPhase(d) = "withdrawn"
              /\ RowOutcome(d) = None
    BY <2>5, <2>6, <2>11 DEF Lifecycle!Withdraw, Lifecycle!Next
  <2>12. QED
    BY <2>1, <2>2, <2>7, <2>8, <2>9, <2>10, <2>11, LegalEdge
<1>3. CASE \E u \in Users, r \in Records : CommitCreate(u, r)
  <2>1. PICK u \in Users, r \in Records : CommitCreate(u, r)
    BY <1>3
  <2>2. ~IsCase(r)
    BY <2>1, CommitsNewRow
  <2> DEFINE d == NewCase(creating[u])
  <2>3. d \in CaseRows
    BY <2>1, NewCaseType DEF CommitCreate, SafetyInvariant, TypeOK
  <2>4. rec'[r] = d /\ \A q \in Records \ {r} : rec'[q] = rec[q]
    BY <2>1 DEF CommitCreate, SafetyInvariant, TypeOK
  <2>5. IsCase(r)'
    BY <2>3, <2>4, NoneAssumption DEF IsCase
  <2>6. Lifecycle!Becomes(r, RowPhase(d), RowOutcome(d))
    BY <2>4, <2>5, RowBecomes
  <2>7. RowPhase(d) = "scoring" /\ RowOutcome(d) = None
    BY DEF NewCase, RowPhase, RowOutcome
  <2>8. PhaseOf(r) = "none"
    BY <2>2 DEF PhaseOf
  <2>9. QED
    BY <2>6, <2>7, <2>8 DEF Lifecycle!Open, Lifecycle!Next
<1>4. QED
  BY <1>1, <1>2, <1>3, StepKinds DEF SafetyInvariant

\* The handlers implement the lifecycle of EvaluationLifecycle: what is proposed is
\* what is closed, and what is closed or withdrawn stays so.
THEOREM Refinement == Spec => ImplementsLifecycle
<1>1. SafetyInvariant /\ [Next]_vars =>
        [Lifecycle!Next]_<<[r \in Records |-> PhaseOf(r)], [r \in Records |-> OutcomeOf(r)]>>
  BY LifecycleNext
<1>2. QED
  BY <1>1, LifecycleInit, Safety, PTL DEF Spec, ImplementsLifecycle, Lifecycle!Spec
-------------------------------------------------------------------------------
(* The desks.  Their steps are the steps of the cases, with notices and rows of *)
(* the audit log beside; so everything above holds of them.                     *)

LEMMA DeskStepIsStep == DeskNext => Next
<1> SUFFICES ASSUME DeskNext PROVE Next
  OBVIOUS
<1>1. CASE \E u \in Users, r \in Records : MoveStep(u, r)
  BY <1>1 DEF MoveStep, Next, CaseStep
<1>2. CASE \E u \in HrUsers, r \in Records : CustodyStep(u, r)
  <2>1. PICK u \in Users, r \in Records : CustodyStep(u, r)
    BY <1>2 DEF HrUsers
  <2>2. CaseStep(u, r)
    <3>1. CASE \E v \in Users : HrHandover(u, r, v) /\ Tells(r, {v})
      BY <3>1 DEF CaseStep
    <3>2. CASE \E seat \in {"sup", "deputy", "ceo"}, v \in Users : Reassign(u, r, seat, v) /\ Tells(r, {v})
      BY <3>2 DEF CaseStep
    <3>3. CASE \E until \in Extensions : Extend(u, r, until) /\ Tells(r, ToldOfExtension(rec[r]))
      BY <3>3 DEF CaseStep
    <3>4. QED
      BY <2>1, <3>1, <3>2, <3>3 DEF CustodyStep
  <2>3. QED
    BY <2>2 DEF Next
<1>3. CASE \E u \in Users, r \in Records : QuietStep(u, r) /\ UNCHANGED deskVars
  BY <1>3 DEF QuietStep, Next, CaseStep
<1>4. CASE \E u \in Users, p \in Leavers : DepartureStep(u, p)
  BY <1>4, ConstantsAssumption DEF DepartureStep, Next, PersonStep
<1>5. CASE \E u \in Users, p \in Persons : SettingStep(u, p) /\ UNCHANGED deskVars
  BY <1>5 DEF SettingStep, Next, PersonStep
<1>6. CASE \/ \E u \in Users : (AccountStep(u) \/ PeriodStep(u)) /\ UNCHANGED deskVars
           \/ NextDay /\ UNCHANGED deskVars
  BY <1>6 DEF Next
<1>7. QED
  BY <1>1, <1>2, <1>3, <1>4, <1>5, <1>6 DEF DeskNext

\* Each step at the desks is a step of the cases, so the cases keep what they promise.
THEOREM DesksKeepTheCases == DeskSpec => Spec
<1>1. DeskInit => Init
  BY DEF DeskInit
<1>2. [DeskNext]_<<vars, deskVars>> => [Next]_vars
  BY DeskStepIsStep
<1>3. QED
  BY <1>1, <1>2, PTL DEF DeskSpec, Spec
-------------------------------------------------------------------------------
(* The steps by what they do at the desks *)

SameSeats(c, d) ==
  /\ d.subject = c.subject /\ d.sup = c.sup /\ d.deputy = c.deputy /\ d.ceo = c.ceo

\* Who comes to own a case is of HR.
OwnedByHr(c, d) == d.hr = c.hr \/ users[d.hr].role = "hr"

OnlyRow(r) == \A q \in Records \ {r} : rec'[q] = rec[q]

\* What a move leaves behind it: only a departure may have begun before the opening.
Left(r, a) == Leaves(r, a, opened[r]) \/ (a = "cancel" /\ Leaves(r, a, 0))

\* A case moves by a step of the table, which tells and records it.
Moving(r, a) ==
  /\ IsCase(r)
  /\ \E u \in Users : Allowed(u, a, rec[r]) /\ rec'[r].hr \in {rec[r].hr, u}
  /\ rec'[r] \in CaseRows /\ SameSeats(rec[r], rec'[r]) /\ OwnedByHr(rec[r], rec'[r])
  /\ rec'[r].status = TRANSITIONS[a].to
  /\ OnlyRow(r) /\ Left(r, a)
  /\ users' = users \/ a = "cancel"
  /\ today' = today

\* A case that is written legally stays a case.
LEMMA LegalStays ==
  ASSUME TypeOK, NEW r \in Records, LegalWrite(r)
  PROVE  rec'[r] # None
  BY NoneAssumption DEF LegalWrite, Writes, TypeOK

LEMMA MovedOwner ==
  ASSUME NEW u \in Users, NEW a \in Actions, NEW c \in CaseRows, Allowed(u, a, c)
  PROVE  OwnedByHr(c, Moved(u, a, c))
<1>1. MayActAt(users[u].role, TRANSITIONS[a].role)
  BY DEF Allowed
<1>2. TRANSITIONS[a].claimable => TRANSITIONS[a].role = "hr"
  BY DEF Actions, TRANSITIONS, Step
<1>3. Moved(u, a, c).hr = IF TRANSITIONS[a].claimable /\ c.hr = None THEN u ELSE c.hr
  BY DEF Moved, CaseRows
<1>4. TRANSITIONS[a].claimable => users[u].role = "hr"
  BY <1>1, <1>2 DEF MayActAt, ChainRoles
<1>5. QED
  BY <1>3, <1>4 DEF OwnedByHr

LEMMA MovesAreTransitions ==
  ASSUME TypeOK, TypeOK', StatusIsSigned, NEW u \in Users, NEW r \in Records, MoveStep(u, r)
  PROVE  \/ CommitCreate(u, r) /\ Opens(u, r)
         \/ \E a \in Actions : Moving(r, a)
<1>1. ASSUME NEW a \in Actions, IsCase(r), Allowed(u, a, rec[r]), Leaves(r, a, opened[r]),
             OnlyRow(r), UNCHANGED others, rec'[r] # None,
             LET d == Moved(u, a, rec[r])
             IN rec'[r].status = d.status /\ SameSeats(d, rec'[r]) /\ rec'[r].hr = d.hr
      PROVE  Moving(r, a)
  <2>1. rec[r] \in CaseRows /\ rec'[r] \in CaseRows
    BY <1>1 DEF TypeOK, IsCase
  <2>2. SameSeats(rec[r], rec'[r]) /\ rec'[r].status = TRANSITIONS[a].to
    BY <1>1, <2>1, MovedColumns DEF SameSeats
  <2>3. rec'[r].hr \in {rec[r].hr, u}
    BY <1>1, <2>1 DEF Moved, CaseRows
  <2>4. OwnedByHr(rec[r], rec'[r])
    BY <1>1, <2>1, MovedOwner DEF OwnedByHr
  <2>5. QED
    BY <1>1, <2>1, <2>2, <2>3, <2>4 DEF Moving, Left, others
<1>2. rec \in [Records -> CaseRows \cup {None}]
  BY DEF TypeOK
<1>3. CASE Submit(u, r) /\ Leaves(r, SubmitAction(rec[r]), opened[r])
  <2>1. SubmitAction(rec[r]) \in Actions
    BY DEF SubmitAction, Actions
  <2>2. rec[r] \in CaseRows /\ Moved(u, SubmitAction(rec[r]), rec[r]) \in CaseRows
    BY <1>3, <2>1, CaseType, MovedType DEF Submit, TypeOK
  <2>3. PICK m \in CaseRows : m = Moved(u, SubmitAction(rec[r]), rec[r])
    BY <2>2
  <2>4. rec' = [rec EXCEPT ![r] = [m EXCEPT !.result = ResultOf(rec[r])]]
    BY <1>3, <2>3 DEF Submit
  <2>5. /\ rec'[r].status = m.status /\ SameSeats(m, rec'[r]) /\ rec'[r].hr = m.hr
        /\ OnlyRow(r)
    BY <1>2, <2>4 DEF SameSeats, OnlyRow, CaseRows
  <2>6. rec'[r] # None
    BY <1>3, LegalStays, SubmitLegal DEF Submit
  <2>7. QED
    BY <1>1, <1>3, <2>1, <2>3, <2>5, <2>6 DEF Submit
<1>4. CASE HrApprove(u, r) /\ Leaves(r, HrApproveAction(rec[r]), opened[r])
  <2>1. HrApproveAction(rec[r]) \in Actions
    BY DEF HrApproveAction, Actions
  <2>2. rec[r] \in CaseRows /\ Moved(u, HrApproveAction(rec[r]), rec[r]) \in CaseRows
    BY <1>4, <2>1, CaseType, MovedType DEF HrApprove, TypeOK
  <2>3. PICK m \in CaseRows : m = Moved(u, HrApproveAction(rec[r]), rec[r])
    BY <2>2
  <2>4. rec' = [rec EXCEPT ![r] = IF IsDirectCeoPath(rec[r])
                                THEN [m EXCEPT !.document = FinalSnapshot(rec[r])] ELSE m]
    BY <1>4, <2>3 DEF HrApprove
  <2>5. /\ rec'[r].status = m.status /\ SameSeats(m, rec'[r]) /\ rec'[r].hr = m.hr
        /\ OnlyRow(r)
    BY <1>2, <2>4 DEF SameSeats, OnlyRow, CaseRows
  <2>6. rec'[r] # None
    BY <1>4, LegalStays, HrApproveLegal DEF HrApprove
  <2>7. QED
    BY <1>1, <1>4, <2>1, <2>3, <2>5, <2>6 DEF HrApprove
<1>5. CASE DeputyApprove(u, r) /\ Leaves(r, "deputy_approve", opened[r])
  <2>1. "deputy_approve" \in Actions
    BY DEF Actions
  <2>2. rec[r] \in CaseRows /\ Moved(u, "deputy_approve", rec[r]) \in CaseRows
    BY <1>5, <2>1, CaseType, MovedType DEF DeputyApprove, TypeOK
  <2>3. QED
    BY <1>1, <1>2, <1>5, <2>1, <2>2, NoneAssumption DEF DeputyApprove, SameSeats, OnlyRow
<1>6. CASE CeoFinalize(u, r) /\ Leaves(r, "ceo_finalize", opened[r])
  <2>1. "ceo_finalize" \in Actions
    BY DEF Actions
  <2>2. rec[r] \in CaseRows /\ Moved(u, "ceo_finalize", rec[r]) \in CaseRows
    BY <1>6, <2>1, CaseType, MovedType DEF CeoFinalize, TypeOK
  <2>3. PICK m \in CaseRows : m = Moved(u, "ceo_finalize", rec[r])
    BY <2>2
  <2>4. rec' = [rec EXCEPT ![r] = [m EXCEPT !.document = FinalSnapshot(rec[r])]]
    BY <1>6, <2>3 DEF CeoFinalize
  <2>5. /\ rec'[r].status = m.status /\ SameSeats(m, rec'[r]) /\ rec'[r].hr = m.hr
        /\ OnlyRow(r)
    BY <1>2, <2>4 DEF SameSeats, OnlyRow, CaseRows
  <2>6. rec'[r] # None
    BY <1>6, LegalStays, CeoFinalizeLegal DEF CeoFinalize
  <2>7. QED
    BY <1>1, <1>6, <2>1, <2>3, <2>5, <2>6 DEF CeoFinalize
<1>7. CASE Return(u, r) /\ Leaves(r, ReturnAction(users[u].role, rec[r]), opened[r])
  <2>1. ReturnAction(users[u].role, rec[r]) \in Actions
    BY <1>7 DEF Return, ReturnAction, Actions
  <2>2. rec[r] \in CaseRows /\ Moved(u, ReturnAction(users[u].role, rec[r]), rec[r]) \in CaseRows
    BY <1>7, <2>1, CaseType, MovedType DEF Return, TypeOK
  <2>3. QED
    BY <1>1, <1>2, <1>7, <2>1, <2>2, NoneAssumption DEF Return, SameSeats, OnlyRow
<1>8. CASE Cancel(u, r) /\ Leaves(r, "cancel", opened[r])
  <2>1. "cancel" \in Actions
    BY DEF Actions
  <2>2. rec[r] \in CaseRows /\ Moved(u, "cancel", rec[r]) \in CaseRows
    BY <1>8, <2>1, CaseType, MovedType DEF Cancel, TypeOK
  <2>3. QED
    BY <1>1, <1>2, <1>8, <2>1, <2>2, NoneAssumption DEF Cancel, SameSeats, OnlyRow
<1>9. QED
  BY <1>3, <1>4, <1>5, <1>6, <1>7, <1>8 DEF MoveStep

LEMMA DepartureMoves ==
  ASSUME TypeOK, TypeOK', NEW u \in Users, NEW p \in Persons, DepartureStep(u, p)
  PROVE  \/ rec' = rec /\ today' = today /\ UNCHANGED deskVars
         \/ \E r \in Records : Moving(r, "cancel")
<1>1. CASE rec' = rec /\ UNCHANGED deskVars
  BY <1>1 DEF DepartureStep, Depart
<1>2. ASSUME NEW q \in Records, rec'[q] # rec[q], Leaves(q, "cancel", 0)
      PROVE  Moving(q, "cancel")
  <2>1. PICK r \in Records : /\ IsOpen(r) /\ Allowed(u, "cancel", rec[r])
                             /\ rec' = [rec EXCEPT ![r] = Moved(u, "cancel", rec[r])]
    BY <1>2 DEF DepartureStep, Depart
  <2>2. r = q
    BY <1>2, <2>1 DEF TypeOK
  <2>3. "cancel" \in Actions
    BY DEF Actions
  <2>4. rec[q] \in CaseRows /\ Moved(u, "cancel", rec[q]) \in CaseRows
    BY <2>1, <2>2, <2>3, CaseType, MovedType DEF IsOpen
  <2>5. /\ rec'[q] = Moved(u, "cancel", rec[q]) /\ OnlyRow(q)
    BY <2>1, <2>2 DEF TypeOK, OnlyRow
  <2>6. SameSeats(rec[q], rec'[q]) /\ rec'[q].status = TRANSITIONS["cancel"].to
    BY <2>3, <2>4, <2>5, MovedColumns DEF SameSeats
  <2>7. rec'[q].hr \in {rec[q].hr, u}
    BY <2>4, <2>5 DEF Moved, CaseRows
  <2>8. OwnedByHr(rec[q], rec'[q])
    BY <2>1, <2>2, <2>3, <2>4, <2>5, MovedOwner
  <2>9. QED
    BY <1>2, <2>1, <2>2, <2>4, <2>5, <2>6, <2>7, <2>8 DEF Moving, Left, DepartureStep, Depart, IsOpen
<1>3. QED
  BY <1>1, <1>2 DEF DepartureStep

\* Who comes to a seat has its role, and the subject comes to none.
SeatsRefilled(c, d) ==
  /\ d.sup = c.sup \/ users[d.sup].role = "unit_supervisor"
  /\ d.deputy = c.deputy \/ users[d.deputy].role = "deputy"
  /\ d.ceo = c.ceo \/ users[d.ceo].role = "ceo"
  /\ TriggerAdmits(d)

\* HR tends a case where it stands: it keeps its status, and who comes to a seat is told.
Tended(r, who) ==
  /\ IsCase(r) /\ rec'[r] \in CaseRows /\ OnlyRow(r)
  /\ rec'[r].status = rec[r].status /\ rec'[r].subject = rec[r].subject
  /\ rec'[r].sup = rec[r].sup \/ (rec[r].sup # None /\ rec'[r].sup \in who)
  /\ rec'[r].deputy = rec[r].deputy \/ (rec[r].deputy # None /\ rec'[r].deputy \in who)
  /\ rec'[r].ceo = rec[r].ceo \/ rec'[r].ceo \in who
  /\ SameSeats(rec[r], rec'[r]) \/ SeatsRefilled(rec[r], rec'[r])
  /\ OwnedByHr(rec[r], rec'[r])
  /\ who \subseteq Users
  /\ Tells(r, who)
  /\ users' = users /\ today' = today

LEMMA CustodyTends ==
  ASSUME TypeOK, NEW u \in Users, NEW r \in Records, CustodyStep(u, r)
  PROVE  \E who : Tended(r, who)
<1>1. ASSUME NEW v \in Users, HrHandover(u, r, v), Tells(r, {v})
      PROVE  Tended(r, {v})
  <2>1. rec[r] \in CaseRows /\ [rec[r] EXCEPT !.hr = v] \in CaseRows
    BY <1>1, CaseType, RowWrites DEF HrHandover, IsOpen, Seats
  <2>2. rec'[r] = [rec[r] EXCEPT !.hr = v] /\ OnlyRow(r)
    BY <1>1 DEF HrHandover, TypeOK, OnlyRow
  <2>3. SameSeats(rec[r], rec'[r]) /\ OwnedByHr(rec[r], rec'[r])
    BY <1>1, <2>1, <2>2 DEF SameSeats, OwnedByHr, HrHandover, CaseRows
  <2>4. QED
    BY <1>1, <2>1, <2>2, <2>3 DEF Tended, HrHandover, IsOpen, others, CaseRows
<1>2. ASSUME NEW seat \in {"sup", "deputy", "ceo"}, NEW v \in Users, Reassign(u, r, seat, v),
             Tells(r, {v})
      PROVE  Tended(r, {v})
  <2>1. rec[r] \in CaseRows
    BY <1>2, CaseType DEF Reassign, IsOpen
  <2>2. Reseated(rec[r], seat, v) \in CaseRows
    BY <2>1, RowWrites DEF Reseated
  <2>3. rec'[r] = Reseated(rec[r], seat, v) /\ OnlyRow(r) /\ rec[r][seat] # None
    BY <1>2 DEF Reassign, TypeOK, OnlyRow
  <2>a. OwnedByHr(rec[r], rec'[r])
    BY <2>1, <2>3 DEF OwnedByHr, Reseated, CaseRows
  <2>b. SeatsRefilled(rec[r], rec'[r])
    <3>1. users[v].role = SeatRole[seat] /\ TriggerAdmits(rec'[r])
      BY <1>2, <2>3 DEF Reassign, Admissible, TriggerAdmits
    <3>2. QED
      BY <2>1, <2>3, <3>1 DEF SeatsRefilled, Reseated, SeatRole, CaseRows
  <2>4. CASE seat = "sup"
    BY <1>2, <2>1, <2>2, <2>3, <2>4, <2>a, <2>b DEF Reseated, Tended, Reassign, IsOpen, others, CaseRows
  <2>5. CASE seat = "deputy"
    BY <1>2, <2>1, <2>2, <2>3, <2>5, <2>a, <2>b DEF Reseated, Tended, Reassign, IsOpen, others, CaseRows
  <2>6. CASE seat = "ceo"
    BY <1>2, <2>1, <2>2, <2>3, <2>6, <2>a, <2>b DEF Reseated, Tended, Reassign, IsOpen, others, CaseRows
  <2>7. QED
    BY <2>4, <2>5, <2>6
<1>3. ASSUME NEW until \in Extensions, Extend(u, r, until), Tells(r, ToldOfExtension(rec[r]))
      PROVE  Tended(r, ToldOfExtension(rec[r]))
  <2>1. rec[r] \in CaseRows /\ [rec[r] EXCEPT !.extension = until] \in CaseRows
    BY <1>3, CaseType, RowWrites DEF Extend
  <2>2. rec'[r] = [rec[r] EXCEPT !.extension = until] /\ OnlyRow(r)
    BY <1>3 DEF Extend, TypeOK, OnlyRow
  <2>3. ToldOfExtension(rec[r]) \subseteq Users
    BY <2>1 DEF ToldOfExtension, CaseRows, Seats
  <2>4. SameSeats(rec[r], rec'[r]) /\ OwnedByHr(rec[r], rec'[r])
    BY <2>1, <2>2 DEF SameSeats, OwnedByHr, CaseRows
  <2>5. QED
    BY <1>3, <2>1, <2>2, <2>3, <2>4 DEF Tended, Extend, others, CaseRows
<1>4. QED
  BY <1>1, <1>2, <1>3 DEF CustodyStep

\* Every other step leaves the desks as they are, and each case in its place.
Staying ==
  /\ UNCHANGED deskVars
  /\ today' = today \/ today' = today + 1
  /\ \A q \in Records :
       \/ rec'[q] = rec[q]
       \/ /\ IsCase(q) /\ rec'[q] \in CaseRows
          /\ rec'[q].status = rec[q].status
          /\ SameSeats(rec[q], rec'[q]) /\ OwnedByHr(rec[q], rec'[q])

LEMMA QuietStays ==
  ASSUME TypeOK, NEW u \in Users, NEW r \in Records, QuietStep(u, r), UNCHANGED deskVars
  PROVE  Staying
<1>1. ASSUME NEW d \in CaseRows, IsCase(r), rec' = [rec EXCEPT ![r] = d], today' = today,
             d.status = rec[r].status, SameSeats(rec[r], d), OwnedByHr(rec[r], d)
      PROVE  Staying
  BY <1>1 DEF Staying, TypeOK
<1>2. CASE InsertCase(u, r)
  BY <1>2 DEF InsertCase, Staying, caseVars
<1>3. ASSUME NEW sheet \in Sheets, UpsertScores(u, r, sheet)
      PROVE  Staying
  <2>1. PICK d : d = [rec[r] EXCEPT !.sheet = sheet]
    OBVIOUS
  <2>2. rec[r] \in CaseRows /\ d \in CaseRows
    BY <1>3, <2>1, CaseType, RowWrites DEF UpsertScores, MayEnter
  <2>3. d.status = rec[r].status /\ SameSeats(rec[r], d) /\ OwnedByHr(rec[r], d)
    BY <2>1, <2>2 DEF SameSeats, OwnedByHr, CaseRows
  <2>4. QED
    BY <1>1, <1>3, <2>1, <2>2, <2>3 DEF UpsertScores, MayEnter, others
<1>4. ASSUME NEW bonus \in Bonuses, SetSpecialScore(u, r, bonus)
      PROVE  Staying
  <2>1. PICK d : d = [rec[r] EXCEPT !.bonus = bonus]
    OBVIOUS
  <2>2. rec[r] \in CaseRows /\ d \in CaseRows
    BY <1>4, <2>1, CaseType, RowWrites DEF SetSpecialScore, MayEnter
  <2>3. d.status = rec[r].status /\ SameSeats(rec[r], d) /\ OwnedByHr(rec[r], d)
    BY <2>1, <2>2 DEF SameSeats, OwnedByHr, CaseRows
  <2>4. QED
    BY <1>1, <1>4, <2>1, <2>2, <2>3 DEF SetSpecialScore, MayEnter, others
<1>5. CASE HrClaim(u, r)
  <2>1. PICK d : d = [rec[r] EXCEPT !.hr = u]
    OBVIOUS
  <2>2. rec[r] \in CaseRows /\ d \in CaseRows
    BY <1>5, <2>1, CaseType, RowWrites DEF HrClaim, IsOpen, Seats
  <2>3. d.status = rec[r].status /\ SameSeats(rec[r], d) /\ OwnedByHr(rec[r], d)
    BY <1>5, <2>1, <2>2 DEF SameSeats, OwnedByHr, HrClaim, CaseRows
  <2>4. QED
    BY <1>1, <1>5, <2>1, <2>2, <2>3 DEF HrClaim, IsOpen, others
<1>6. QED
  BY <1>2, <1>3, <1>4, <1>5 DEF QuietStep

\* All a step can do at the desks.
LEMMA DeskStepKinds ==
  ASSUME SafetyInvariant, TypeOK', [DeskNext]_<<vars, deskVars>>
  PROVE  \/ Staying
         \/ \E u \in Users, r \in Records : CommitCreate(u, r) /\ Opens(u, r)
         \/ \E r \in Records, a \in Actions : Moving(r, a)
         \/ \E r \in Records : \E who : Tended(r, who)
<1> USE DEF SafetyInvariant
<1>1. CASE \E u \in Users, r \in Records : MoveStep(u, r)
  BY <1>1, MovesAreTransitions
<1>2. CASE \E u \in HrUsers, r \in Records : CustodyStep(u, r)
  BY <1>2, CustodyTends DEF HrUsers
<1>3. CASE \E u \in Users, r \in Records : QuietStep(u, r) /\ UNCHANGED deskVars
  BY <1>3, QuietStays
<1>4. CASE \E u \in Users, p \in Leavers : DepartureStep(u, p)
  <2>1. PICK u \in Users, p \in Persons : DepartureStep(u, p)
    BY <1>4, ConstantsAssumption
  <2>2. \/ rec' = rec /\ today' = today /\ UNCHANGED deskVars
        \/ \E r \in Records : Moving(r, "cancel")
    BY <2>1, DepartureMoves
  <2>3. "cancel" \in Actions
    BY DEF Actions
  <2>4. QED
    BY <2>2, <2>3 DEF Staying
<1>5. CASE \E u \in Users, p \in Persons : SettingStep(u, p) /\ UNCHANGED deskVars
  <2>1. PICK u \in Users, p \in Persons : SettingStep(u, p)
    BY <1>5
  <2>2. UNCHANGED caseVars /\ today' = today
    <3>1. CASE \E chain \in Chains : UpsertAccess(u, p, chain) \/ OvertakenUpsert(u, p, chain)
      BY <3>1 DEF UpsertAccess, OvertakenUpsert
    <3>2. CASE \E b \in ManagerFlags : SetManager(u, p, b)
      BY <3>2 DEF SetManager
    <3>3. CASE BeginCreate(u, p) \/ BeginBulkCreate(u, p) \/ Rejoin(u, p) \/ EditPersonnel(u, p)
      BY <3>3 DEF BeginCreate, BeginBulkCreate, Rejoin, EditPersonnel
    <3>4. QED
      BY <2>1, <3>1, <3>2, <3>3 DEF SettingStep
  <2>3. QED
    BY <1>5, <2>2 DEF Staying, caseVars
<1>6. CASE \E u \in Users : (AccountStep(u) \/ PeriodStep(u)) /\ UNCHANGED deskVars
  BY <1>6 DEF AccountStep, PeriodStep, RollbackCreate, SetActive, SetRole, LinkPerson,
     OpenPeriod, MovePeriodEnd, ClosePeriod, Staying, caseVars
<1>7. CASE NextDay /\ UNCHANGED deskVars
  BY <1>7 DEF NextDay, Staying, caseVars
<1>8. CASE UNCHANGED <<vars, deskVars>>
  BY <1>8 DEF Staying, vars
<1>9. QED
  BY <1>1, <1>2, <1>3, <1>4, <1>5, <1>6, <1>7, <1>8 DEF DeskNext

-------------------------------------------------------------------------------
(* Notices *)

DeskTypeOK ==
  /\ told \in [Records -> SUBSET Seats]
  /\ trail \in [Records -> Seq(Moves)]
  /\ opened \in [Records -> Days]
  /\ entered \in [Records -> Days]
  /\ returned \in SUBSET Records

LEMMA ScorerIsSeated ==
  ASSUME NEW c \in CaseRows
  PROVE  /\ c[ScorerSeat(c)] \in Seats
         /\ c[ScorerSeat(c)] = IF c.sup # None THEN c.sup
                               ELSE IF c.deputy # None THEN c.deputy ELSE c.ceo
  BY DEF ScorerSeat, IsDirectCeoPath, IsManagerPath, CaseRows, Seats

LEMMA RecipientsType ==
  ASSUME NEW a \in Actions, NEW c \in CaseRows
  PROVE  Recipients(a, c) \in SUBSET Seats
<1>1. c[ScorerSeat(c)] \in Seats
  BY ScorerIsSeated
<1>2. AfterHr(c) \in Seats /\ c.ceo \in Seats /\ Occupants(c) \in SUBSET Seats
  BY DEF AfterHr, CaseRows, Seats, Occupants
<1>3. HrUsers \in SUBSET Seats /\ SubjectsAccounts(c) \in SUBSET Seats
  BY DEF HrUsers, SubjectsAccounts, Seats
<1>4. QED
  BY <1>1, <1>2, <1>3 DEF Recipients

LEMMA DeskTypesInit == DeskInit => DeskTypeOK
  BY ConstantsAssumption DEF DeskInit, DeskTypeOK, Days

\* A row is put between the rows before and after it.
LEMMA InsertAtElements ==
  ASSUME NEW S, NEW s \in Seq(S), NEW m \in S, NEW place \in 1 .. Len(s) + 1
  PROVE  /\ InsertAt(s, place, m) \in Seq(S) /\ Len(InsertAt(s, place, m)) = Len(s) + 1
         /\ \A i \in 1 .. Len(s) + 1 :
              InsertAt(s, place, m)[i] =
                IF i < place THEN s[i] ELSE IF i = place THEN m ELSE s[i - 1]
<1>0. PICK n \in Nat : n = Len(s)
  OBVIOUS
<1>1. PICK head : head = SubSeq(s, 1, place - 1)
  OBVIOUS
<1>2. PICK tail : tail = SubSeq(s, place, n)
  OBVIOUS
<1>3. /\ head \in Seq(S) /\ Len(head) = place - 1
      /\ \A i \in 1 .. place - 1 : head[i] = s[i]
  BY <1>0, <1>1
<1>4. /\ tail \in Seq(S) /\ Len(tail) = n + 1 - place
      /\ \A i \in 1 .. n + 1 - place : tail[i] = s[place + i - 1]
  BY <1>0, <1>2
<1>5. PICK upto : upto = head \o <<m>>
  OBVIOUS
<1>6. /\ upto \in Seq(S) /\ Len(upto) = place /\ upto[place] = m
      /\ \A i \in 1 .. place - 1 : upto[i] = s[i]
  BY <1>3, <1>5
<1>7. InsertAt(s, place, m) = upto \o tail
  BY <1>0, <1>1, <1>2, <1>5 DEF InsertAt
<1>8. /\ upto \o tail \in Seq(S) /\ Len(upto \o tail) = n + 1
      /\ \A i \in 1 .. n + 1 : (upto \o tail)[i] = IF i <= place THEN upto[i] ELSE tail[i - place]
  BY <1>0, <1>4, <1>6
<1>9. ASSUME NEW i \in 1 .. n + 1, place < i
      PROVE  tail[i - place] = s[i - 1]
  <2>1. i - place \in 1 .. n + 1 - place /\ place + (i - place) - 1 = i - 1
    BY <1>0, <1>9
  <2>2. QED
    BY <1>4, <2>1
<1>10. QED
  BY <1>0, <1>6, <1>7, <1>8, <1>9

\* The row of a move, and the order of the log around it.
LEMMA LoggedMove ==
  ASSUME DeskTypeOK, TypeOK, NEW r \in Records, NEW a \in Actions, Moving(r, a)
  PROVE  /\ trail' = [trail EXCEPT ![r] = trail'[r]]
         /\ trail'[r] \in Seq(Moves) /\ Len(trail'[r]) = Len(trail[r]) + 1
         /\ \E began \in Days : \E place \in 1 .. Len(trail[r]) + 1 :
              /\ began <= today /\ (opened[r] <= began \/ a = "cancel")
              /\ \A i \in 1 .. Len(trail[r]) :
                   IF i < place THEN trail[r][i].at <= began ELSE began <= trail[r][i].at
              /\ trail'[r][place] = [at |-> began, from |-> rec[r].status, to |-> TRANSITIONS[a].to]
              /\ \A i \in 1 .. place - 1 : trail'[r][i] = trail[r][i]
              /\ \A i \in place .. Len(trail[r]) : trail'[r][i + 1] = trail[r][i]
<1>t1. today \in Days
  BY DEF TypeOK
<1>t2. trail \in [Records -> Seq(Moves)] /\ opened \in [Records -> Days]
  BY DEF DeskTypeOK
<1>t. today \in Days /\ opened[r] \in Days /\ trail[r] \in Seq(Moves) /\ trail \in [Records -> Seq(Moves)]
  BY <1>t1, <1>t2
<1>1. PICK since \in Days : Leaves(r, a, since) /\ (since = opened[r] \/ a = "cancel")
  BY <1>t, ConstantsAssumption DEF Moving, Left, Days
<1>2. PICK began \in since .. today : \E place \in 1 .. Len(trail[r]) + 1 : Logs(r, a, began, place)
  BY <1>1 DEF Leaves
<1>3. PICK place \in 1 .. Len(trail[r]) + 1 : Logs(r, a, began, place)
  BY <1>2
<1>4. began \in Days /\ began <= today /\ (opened[r] <= began \/ a = "cancel")
  BY <1>t, <1>1, ConstantsAssumption DEF Days
<1>5. rec[r].status \in Statuses
  BY CaseType DEF Moving, CaseRows
<1>6. PICK m \in Moves : m = [at |-> began, from |-> rec[r].status, to |-> TRANSITIONS[a].to]
  BY <1>4, <1>5, TableType DEF Moves
<1>7. trail' = [trail EXCEPT ![r] = InsertAt(trail[r], place, m)]
  BY <1>3, <1>6 DEF Logs
<1>8. PICK new : new = InsertAt(trail[r], place, m)
  OBVIOUS
<1>9. /\ new \in Seq(Moves) /\ Len(new) = Len(trail[r]) + 1
      /\ \A i \in 1 .. Len(trail[r]) + 1 :
           new[i] = IF i < place THEN trail[r][i] ELSE IF i = place THEN m ELSE trail[r][i - 1]
  BY <1>t, <1>8, InsertAtElements
<1>10. trail'[r] = new /\ trail' = [trail EXCEPT ![r] = new]
  BY <1>t, <1>7, <1>8
<1>11. PICK n \in Nat : n = Len(trail[r]) /\ DOMAIN trail[r] = 1 .. n
  BY <1>t
<1>12. new[place] = m /\ \A i \in 1 .. place - 1 : new[i] = trail[r][i]
  <2>1. place \in 1 .. n + 1 /\ place \in Int /\ 1 .. place - 1 \subseteq 1 .. n + 1
    BY <1>11
  <2>2. \A i \in 1 .. place - 1 : i < place
    BY <2>1
  <2>3. ~(place < place)
    BY <2>1
  <2>4. QED
    BY <1>9, <1>11, <2>1, <2>2, <2>3
<1>13. \A i \in place .. n : new[i + 1] = trail[r][i]
  <2> SUFFICES ASSUME NEW i \in place .. n PROVE new[i + 1] = trail[r][i]
    OBVIOUS
  <2>1. i + 1 \in 1 .. n + 1 /\ ~(i + 1 < place) /\ i + 1 # place /\ (i + 1) - 1 = i
    BY <1>11
  <2>2. QED
    BY <1>9, <1>11, <2>1
<1>14. \A i \in 1 .. n : IF i < place THEN trail[r][i].at <= began ELSE began <= trail[r][i].at
  BY <1>3, <1>11 DEF Logs
<1>15. QED
  BY <1>4, <1>6, <1>9, <1>10, <1>11, <1>12, <1>13, <1>14

LEMMA OtherTrails ==
  ASSUME NEW r \in Records, NEW a \in Actions, Left(r, a), DeskTypeOK,
         NEW q \in Records, q # r
  PROVE  trail'[q] = trail[q]
<1>1. \E since : Leaves(r, a, since)
  BY DEF Left
<1>2. \E began, place : Logs(r, a, began, place)
  BY <1>1 DEF Leaves
<1>3. \E new : trail' = [trail EXCEPT ![r] = new]
  BY <1>2 DEF Logs
<1>4. QED
  BY <1>3 DEF DeskTypeOK

LEMMA DeskTypesNext ==
  ASSUME DeskTypeOK, SafetyInvariant, TypeOK', [DeskNext]_<<vars, deskVars>>
  PROVE  DeskTypeOK'
<1> USE DEF DeskTypeOK
<1>t. today \in Days /\ today' \in Days
  BY DEF SafetyInvariant, TypeOK
<1>1. CASE Staying
  BY <1>1 DEF Staying, deskVars
<1>2. ASSUME NEW u \in Users, NEW r \in Records, CommitCreate(u, r), Opens(u, r)
      PROVE  DeskTypeOK'
  <2>1. rec'[r] \in CaseRows
    <3>1. rec'[r] = NewCase(creating[u]) /\ creating[u] \in Creations
      BY <1>2 DEF CommitCreate, SafetyInvariant, TypeOK
    <3>2. QED
      BY <3>1, NewCaseType
  <2>2. PICK who \in SUBSET Seats : told' = [told EXCEPT ![r] = who]
    <3>1. rec'[r][ScorerSeat(rec'[r])] \in Seats
      BY <2>1, ScorerIsSeated
    <3>2. QED
      BY <1>2, <3>1 DEF Opens
  <2>3. <<>> \in Seq(Moves) /\ 0 .. today \subseteq Days
    BY <1>t, ConstantsAssumption DEF Days
  <2>4. QED
    BY <1>2, <2>2, <2>3 DEF Opens
<1>3. ASSUME NEW r \in Records, NEW a \in Actions, Moving(r, a)
      PROVE  DeskTypeOK'
  <2>1. rec[r] \in CaseRows /\ rec'[r] \in CaseRows
    BY <1>3, CaseType DEF Moving, SafetyInvariant
  <2>2. Recipients(a, rec'[r]) \in SUBSET Seats
    BY <2>1, RecipientsType
  <2>a. TypeOK /\ DeskTypeOK
    BY DEF SafetyInvariant
  <2>3. trail'[r] \in Seq(Moves) /\ trail' = [trail EXCEPT ![r] = trail'[r]]
    BY <1>3, <2>a, LoggedMove
  <2>4. QED
    BY <1>3, <1>t, <2>2, <2>3 DEF Moving, Left, Leaves
<1>4. ASSUME NEW r \in Records, NEW who, Tended(r, who)
      PROVE  DeskTypeOK'
  <2>1. who \in SUBSET Seats
    BY <1>4 DEF Tended, Seats
  <2>2. QED
    BY <1>4, <2>1 DEF Tended, Tells
<1>5. QED
  BY <1>1, <1>2, <1>3, <1>4, DeskStepKinds

\* What the next holder has been told, by the status: the scorer gets the case back,
\* the deputy or the CEO what HR has approved, the CEO what the deputy has.
HolderIsTold(r) ==
  IsOpen(r) /\ trail[r] # <<>> =>
    /\ rec[r].status = "draft" => rec[r][ScorerSeat(rec[r])] \in told[r]
    /\ rec[r].status = "hr_approved" => AfterHr(rec[r]) \in told[r]
    /\ rec[r].status = "deputy_approved" => rec[r].ceo \in told[r]

\* A case before HR was announced to every account HR had.
HrIsTold(r) ==
  IsOpen(r) /\ trail[r] # <<>> /\ rec[r].status = "submitted" => HrUsers \subseteq told[r]

\* Where each step of the table leads, and whom it tells.
LEMMA MovesTell ==
  ASSUME NEW a \in Actions, NEW u \in Users, NEW c \in CaseRows, Allowed(u, a, c),
         NEW d \in CaseRows, SameSeats(c, d), d.status = TRANSITIONS[a].to
  PROVE  /\ d.status = "draft" => d[ScorerSeat(d)] \in Recipients(a, d)
         /\ d.status = "submitted" => Recipients(a, d) = HrUsers
         /\ d.status = "hr_approved" => AfterHr(d) \in Recipients(a, d)
         /\ d.status = "deputy_approved" => d.ceo \in Recipients(a, d)
<1>1. d.status = "draft" => a = "hr_return"
  BY DEF Actions, TRANSITIONS, Step
<1>2. d.status = "submitted" => a \in ToHr
  BY DEF Actions, TRANSITIONS, Step, ToHr
<1>3. d.status = "hr_approved" => a \in {"hr_approve", "ceo_return"}
  BY DEF Actions, TRANSITIONS, Step
<1>4. d.status = "deputy_approved" => a \in {"hr_approve_manager", "deputy_approve"}
  BY DEF Actions, TRANSITIONS, Step
<1>5. QED
  BY <1>1, <1>2, <1>3, <1>4 DEF Recipients, ToHr

LEMMA HolderIsToldNext ==
  ASSUME DeskTypeOK, SafetyInvariant, TypeOK', [DeskNext]_<<vars, deskVars>>,
         \A r \in Records : HolderIsTold(r)
  PROVE  \A r \in Records : HolderIsTold(r)'
<1> SUFFICES ASSUME NEW q \in Records PROVE HolderIsTold(q)'
  OBVIOUS
<1> USE DEF DeskTypeOK
<1>q. HolderIsTold(q)
  OBVIOUS
<1>0. ASSUME rec'[q] = rec[q], told'[q] = told[q], trail'[q] = trail[q]
      PROVE  HolderIsTold(q)'
  BY <1>0, <1>q DEF HolderIsTold, IsOpen, IsCase
<1>1. CASE Staying
  <2>1. told' = told /\ trail' = trail
    BY <1>1 DEF Staying, deskVars
  <2>2. ASSUME IsCase(q), rec'[q] \in CaseRows, rec'[q].status = rec[q].status,
               SameSeats(rec[q], rec'[q])
        PROVE  HolderIsTold(q)'
    <3>1. rec[q] \in CaseRows
      BY <2>2, CaseType DEF SafetyInvariant
    <3>2. rec'[q][ScorerSeat(rec'[q])] = rec[q][ScorerSeat(rec[q])] /\ AfterHr(rec'[q]) = AfterHr(rec[q])
      BY <2>2, <3>1, ScorerIsSeated DEF SameSeats, AfterHr
    <3>3. QED
      BY <1>q, <2>1, <2>2, <3>2 DEF HolderIsTold, IsOpen, IsCase, SameSeats
  <2>3. QED
    BY <1>0, <1>1, <2>1, <2>2 DEF Staying
<1>2. ASSUME NEW u \in Users, NEW r \in Records, CommitCreate(u, r), Opens(u, r)
      PROVE  HolderIsTold(q)'
  <2>1. CASE q = r
    BY <1>2, <2>1 DEF Opens, HolderIsTold
  <2>2. CASE q # r
    <3>1. rec'[q] = rec[q]
      BY <1>2, <2>2 DEF CommitCreate, SafetyInvariant, TypeOK
    <3>2. told'[q] = told[q] /\ trail'[q] = trail[q]
      BY <1>2, <2>2 DEF Opens
    <3>3. QED
      BY <1>0, <3>1, <3>2
  <2>3. QED
    BY <2>1, <2>2
<1>3. ASSUME NEW r \in Records, NEW a \in Actions, Moving(r, a)
      PROVE  HolderIsTold(q)'
  <2>1. CASE q = r
    <3>1. rec[q] \in CaseRows /\ rec'[q] \in CaseRows
      BY <1>3, <2>1, CaseType DEF Moving, SafetyInvariant
    <3>2. told'[q] = Recipients(a, rec'[q])
      BY <1>3, <2>1 DEF Moving, Left, Leaves
    <3>3. QED
      BY <1>3, <2>1, <3>1, <3>2, MovesTell DEF Moving, HolderIsTold
  <2>2. CASE q # r
    <3>1. rec'[q] = rec[q] /\ told'[q] = told[q] /\ trail'[q] = trail[q]
      BY <1>3, <2>2, OtherTrails DEF Moving, OnlyRow, Left, Leaves
    <3>2. QED
      BY <1>0, <3>1
  <2>3. QED
    BY <2>1, <2>2
<1>4. ASSUME NEW r \in Records, NEW who, Tended(r, who)
      PROVE  HolderIsTold(q)'
  <2>1. CASE q = r
    <3>1. rec[q] \in CaseRows /\ rec'[q] \in CaseRows
      BY <1>4, <2>1, CaseType DEF Tended, SafetyInvariant
    <3>2. told'[q] = told[q] \cup who /\ trail'[q] = trail[q]
      BY <1>4, <2>1 DEF Tended, Tells
    <3>3. None \notin who
      BY <1>4, NoneAssumption DEF Tended
    <3>4. \/ rec'[q][ScorerSeat(rec'[q])] = rec[q][ScorerSeat(rec[q])]
          \/ rec'[q][ScorerSeat(rec'[q])] \in who
      BY <1>4, <2>1, <3>1, <3>3, ScorerIsSeated DEF Tended
    <3>5. AfterHr(rec'[q]) = AfterHr(rec[q]) \/ AfterHr(rec'[q]) \in who
      BY <1>4, <2>1, <3>3 DEF Tended, AfterHr
    <3>6. QED
      BY <1>4, <1>q, <2>1, <3>2, <3>4, <3>5 DEF Tended, HolderIsTold, IsOpen, IsCase
  <2>2. CASE q # r
    <3>1. rec'[q] = rec[q] /\ told'[q] = told[q] /\ trail'[q] = trail[q]
      BY <1>4, <2>2 DEF Tended, OnlyRow, Tells
    <3>2. QED
      BY <1>0, <3>1
  <2>3. QED
    BY <2>1, <2>2
<1>5. QED
  BY <1>1, <1>2, <1>3, <1>4, DeskStepKinds

\* No account of HR is among those an administrator edits: nobody is made HR's again
\* between a submission and its approval.
HrStays == \A u \in Editable : Roster[u].role # "hr"

HrIsNotEdited == \A u \in Editable : users[u].role # "hr"

LEMMA HrNext ==
  ASSUME TypeOK, HrIsNotEdited, [Next]_vars
  PROVE  HrUsers' \subseteq HrUsers /\ HrIsNotEdited'
<1>0. users \in [Users -> UserRows] /\ Editable \subseteq Users
  BY ConstantsAssumption DEF TypeOK
<1>1. CASE users' = users
  BY <1>1 DEF HrUsers, HrIsNotEdited
<1>2. ASSUME NEW v \in Users, NEW b \in BOOLEAN, users' = [users EXCEPT ![v].active = b],
             b = FALSE \/ users[v].role # "hr"
      PROVE  HrUsers' \subseteq HrUsers /\ HrIsNotEdited'
  <2>1. \A w \in Users : users'[w].role = users[w].role
    BY <1>0, <1>2 DEF UserRows
  <2>2. \A w \in Users : users'[w].active /\ users'[w].role = "hr" => users[w].active
    <3>1. \A w \in Users \ {v} : users'[w] = users[w]
      BY <1>0, <1>2
    <3>2. users'[v].active = b
      BY <1>0, <1>2 DEF UserRows
    <3>3. QED
      BY <1>2, <2>1, <3>1, <3>2
  <2>3. QED
    BY <1>0, <2>1, <2>2 DEF HrUsers, HrIsNotEdited
<1>3. ASSUME NEW v \in Editable, NEW role \in AssignableRoles, users' = [users EXCEPT ![v].role = role]
      PROVE  HrUsers' \subseteq HrUsers /\ HrIsNotEdited'
  <2>1. role # "hr" /\ v \in Users
    BY <1>0, ConstantsAssumption
  <2>2. /\ \A w \in Users \ {v} : users'[w] = users[w]
        /\ users'[v].role = role
    BY <1>0, <1>3, <2>1 DEF UserRows
  <2>3. QED
    BY <1>0, <2>1, <2>2 DEF HrUsers, HrIsNotEdited
<1>4. ASSUME NEW v \in Users, NEW p, users' = [users EXCEPT ![v].person = p]
      PROVE  HrUsers' \subseteq HrUsers /\ HrIsNotEdited'
  <2>1. \A w \in Users : users'[w].role = users[w].role /\ users'[w].active = users[w].active
    BY <1>0, <1>4 DEF UserRows
  <2>2. QED
    BY <1>0, <2>1 DEF HrUsers, HrIsNotEdited
<1>5. CASE \E u \in Users, r \in Records : CaseStep(u, r)
  <2>1. PICK u \in Users, r \in Records : CaseStep(u, r)
    BY <1>5
  <2>2. users' = users
    BY <2>1 DEF CaseStep, InsertCase, CommitCreate, UpsertScores, SetSpecialScore, Submit, HrApprove,
       DeputyApprove, CeoFinalize, Return, Cancel, HrClaim, HrHandover, Reassign, Extend, others
  <2>3. QED
    BY <1>1, <2>2
<1>6. CASE \E u \in Users, p \in Persons : PersonStep(u, p)
  <2>1. PICK u \in Users, p \in Persons : PersonStep(u, p)
    BY <1>6
  <2>2. CASE Depart(u, p)
    <3>1. users' = users \/ \E v \in Users : users' = [users EXCEPT ![v].active = FALSE]
      BY <2>2 DEF Depart
    <3>2. QED
      BY <1>1, <1>2, <3>1
  <2>3. CASE ~Depart(u, p)
    <3>1. users' = users
      BY <2>1, <2>3 DEF PersonStep, BeginCreate, BeginBulkCreate, UpsertAccess, OvertakenUpsert,
         SetManager, Rejoin, EditPersonnel
    <3>2. QED
      BY <1>1, <3>1
  <2>4. QED
    BY <2>2, <2>3
<1>7. CASE \E u \in Users : AccountStep(u)
  <2>1. PICK u \in Users : AccountStep(u)
    BY <1>7
  <2>2. CASE RollbackCreate(u)
    BY <1>1, <2>2 DEF RollbackCreate
  <2>3. ASSUME NEW v \in Editable, NEW b \in BOOLEAN, SetActive(u, v, b)
        PROVE  HrUsers' \subseteq HrUsers /\ HrIsNotEdited'
    <3>1. v \in Users /\ users[v].role # "hr"
      BY <1>0 DEF HrIsNotEdited
    <3>2. QED
      BY <1>2, <2>3, <3>1 DEF SetActive
  <2>4. CASE \E v \in Editable, role \in AssignableRoles : SetRole(u, v, role)
    BY <1>3, <2>4 DEF SetRole
  <2>5. ASSUME NEW v \in Editable, NEW p \in Persons \cup {None}, LinkPerson(u, v, p)
        PROVE  HrUsers' \subseteq HrUsers /\ HrIsNotEdited'
    <3>1. v \in Users
      BY <1>0
    <3>2. QED
      BY <1>4, <2>5, <3>1 DEF LinkPerson
  <2>6. QED
    BY <2>1, <2>2, <2>3, <2>4, <2>5 DEF AccountStep
<1>8. CASE \/ \E u \in Users : PeriodStep(u)
           \/ NextDay \/ UNCHANGED vars
  BY <1>1, <1>8 DEF PeriodStep, OpenPeriod, MovePeriodEnd, ClosePeriod, NextDay, vars
<1>9. QED
  BY <1>5, <1>6, <1>7, <1>8 DEF Next

LEMMA HrIsToldNext ==
  ASSUME DeskTypeOK, SafetyInvariant, TypeOK', [DeskNext]_<<vars, deskVars>>,
         HrUsers' \subseteq HrUsers, \A r \in Records : HrIsTold(r)
  PROVE  \A r \in Records : HrIsTold(r)'
<1> SUFFICES ASSUME NEW q \in Records PROVE HrIsTold(q)'
  OBVIOUS
<1> USE DEF DeskTypeOK
<1>q. HrIsTold(q)
  OBVIOUS
<1>0. ASSUME told[q] \subseteq told'[q], trail'[q] = trail[q],
             rec'[q] = rec[q] \/ (IsCase(q) /\ rec'[q].status = rec[q].status)
      PROVE  HrIsTold(q)'
  BY <1>0, <1>q DEF HrIsTold, IsOpen, IsCase
<1>1. CASE Staying
  BY <1>0, <1>1 DEF Staying, deskVars
<1>2. ASSUME NEW u \in Users, NEW r \in Records, CommitCreate(u, r), Opens(u, r)
      PROVE  HrIsTold(q)'
  <2>1. CASE q = r
    BY <1>2, <2>1 DEF Opens, HrIsTold
  <2>2. CASE q # r
    <3>1. rec'[q] = rec[q]
      BY <1>2, <2>2 DEF CommitCreate, SafetyInvariant, TypeOK
    <3>2. told'[q] = told[q] /\ trail'[q] = trail[q]
      BY <1>2, <2>2 DEF Opens
    <3>3. QED
      BY <1>0, <3>1, <3>2
  <2>3. QED
    BY <2>1, <2>2
<1>3. ASSUME NEW r \in Records, NEW a \in Actions, Moving(r, a)
      PROVE  HrIsTold(q)'
  <2>1. CASE q = r
    <3>1. rec[q] \in CaseRows /\ rec'[q] \in CaseRows
      BY <1>3, <2>1, CaseType DEF Moving, SafetyInvariant
    <3>2. told'[q] = Recipients(a, rec'[q])
      BY <1>3, <2>1 DEF Moving, Left, Leaves
    <3>3. rec'[q].status = "submitted" => told'[q] = HrUsers
      BY <1>3, <2>1, <3>1, <3>2, MovesTell DEF Moving
    <3>4. QED
      BY <3>3 DEF HrIsTold
  <2>2. CASE q # r
    <3>1. rec'[q] = rec[q] /\ told'[q] = told[q] /\ trail'[q] = trail[q]
      BY <1>3, <2>2, OtherTrails DEF Moving, OnlyRow, Left, Leaves
    <3>2. QED
      BY <1>0, <3>1
  <2>3. QED
    BY <2>1, <2>2
<1>4. ASSUME NEW r \in Records, NEW who, Tended(r, who)
      PROVE  HrIsTold(q)'
  <2>1. trail'[q] = trail[q] /\ told[q] \subseteq told'[q]
    BY <1>4 DEF Tended, Tells
  <2>2. rec'[q] = rec[q] \/ (IsCase(q) /\ rec'[q].status = rec[q].status)
    BY <1>4 DEF Tended, OnlyRow
  <2>3. QED
    BY <1>0, <2>1, <2>2
<1>5. QED
  BY <1>1, <1>2, <1>3, <1>4, DeskStepKinds

\* The seat whose holder a status waits for; before HR it is every account of HR.
LEMMA SendersAreHolders ==
  ASSUME SafetyInvariant, NEW r \in Records, IsOpen(r), NEW u \in Users, MaySendOn(u, rec[r])
  PROVE  \/ rec[r].status = "draft" /\ u = rec[r][ScorerSeat(rec[r])]
         \/ rec[r].status = "submitted" /\ u \in HrUsers
         \/ rec[r].status = "hr_approved" /\ u = AfterHr(rec[r])
         \/ rec[r].status = "deputy_approved" /\ u = rec[r].ceo
<1>1. rec[r] \in CaseRows
  BY CaseType DEF SafetyInvariant, IsOpen
<1>2. PICK a \in ForwardActions : Allowed(u, a, rec[r])
  BY DEF MaySendOn
<1>3. u # None
  BY NoneAssumption
<1>s. /\ rec[r].status \in TRANSITIONS[a].from /\ Guard(a, rec[r]) /\ Assigned(u, a, rec[r])
      /\ MayActAt(users[u].role, TRANSITIONS[a].role)
  BY <1>2 DEF Allowed
<1>c. rec[r][ScorerSeat(rec[r])] = IF rec[r].sup # None THEN rec[r].sup
                                   ELSE IF rec[r].deputy # None THEN rec[r].deputy ELSE rec[r].ceo
  BY <1>1, ScorerIsSeated
<1>4. CASE a \in {"submit", "manager_submit", "direct_ceo_submit"}
  BY <1>3, <1>4, <1>s, <1>c DEF TRANSITIONS, Step, Guard, Assigned, IsManagerPath, IsDirectCeoPath
<1>5. CASE a \in {"hr_approve", "hr_approve_manager", "hr_finalize_direct_ceo"}
  <2>1. rec[r].status = "submitted" /\ MayActAt(users[u].role, "hr")
    BY <1>5, <1>s DEF TRANSITIONS, Step
  <2>2. u \in HrUsers
    BY <2>1 DEF MayActAt, ChainRoles, HrUsers, MaySendOn
  <2>3. QED
    BY <2>1, <2>2
<1>6. CASE a \in {"deputy_approve", "ceo_finalize"}
  BY <1>3, <1>6, <1>s DEF TRANSITIONS, Step, Guard, Assigned, AfterHr
<1>7. QED
  BY <1>4, <1>5, <1>6 DEF ForwardActions

\* What is true of the desks in every reachable state.
DeskInvariant == SafetyInvariant /\ DeskTypeOK /\ \A r \in Records : HolderIsTold(r)

LEMMA DeskInvariantHolds == DeskSpec => []DeskInvariant
<1>1. DeskInit => DeskTypeOK /\ \A r \in Records : HolderIsTold(r)
  BY DeskTypesInit DEF DeskInit, HolderIsTold
<1>2. SafetyInvariant /\ TypeOK' /\ DeskInvariant /\ [DeskNext]_<<vars, deskVars>>
        => (DeskTypeOK /\ \A r \in Records : HolderIsTold(r))'
  BY DeskTypesNext, HolderIsToldNext DEF DeskInvariant
<1>3. SafetyInvariant => TypeOK
  BY DEF SafetyInvariant
<1>4. DeskSpec => []SafetyInvariant
  BY DesksKeepTheCases, Safety, PTL
<1>5. QED
  BY <1>1, <1>2, <1>3, <1>4, PTL DEF DeskSpec, DeskInvariant

\* The types of the notices and of the log of the moves.
THEOREM DeskTypes == DeskSpec => []DeskTypeOK
<1>1. DeskInvariant => DeskTypeOK
  BY DEF DeskInvariant
<1>2. QED
  BY <1>1, DeskInvariantHolds, PTL

\* Whoever sits where a case waits was told of it since it came there, whatever
\* accounts are edited and seats reassigned meanwhile.
SeatedHoldersAreTold ==
  \A r \in Records : IsOpen(r) /\ trail[r] # <<>> /\ rec[r].status # "submitted" =>
    \A u \in Users \ told[r] : ~MaySendOn(u, rec[r])

THEOREM SeatsAreTold == DeskSpec => []SeatedHoldersAreTold
<1>1. DeskInvariant => SeatedHoldersAreTold
  BY SendersAreHolders DEF DeskInvariant, SeatedHoldersAreTold, HolderIsTold
<1>2. QED
  BY <1>1, DeskInvariantHolds, PTL

\* And before HR every account of HR was, if none of them came (back) to HR since.
THEOREM HoldersAreTold ==
  ASSUME HrStays
  PROVE  DeskSpec => []NextHolderIsTold
<1> DEFINE I == HrIsNotEdited /\ \A r \in Records : HrIsTold(r)
<1>1. DeskInit => I
  BY DEF DeskInit, Init, HrStays, HrIsNotEdited, HrIsTold
<1>2. DeskInvariant /\ TypeOK' /\ I /\ [DeskNext]_<<vars, deskVars>> => I'
  <2> SUFFICES ASSUME DeskInvariant, TypeOK', I, [DeskNext]_<<vars, deskVars>> PROVE I'
    OBVIOUS
  <2>1. [Next]_vars
    BY DeskStepIsStep
  <2>2. HrUsers' \subseteq HrUsers /\ HrIsNotEdited'
    BY <2>1, HrNext DEF DeskInvariant, SafetyInvariant
  <2>3. \A r \in Records : HrIsTold(r)'
    BY <2>2, HrIsToldNext DEF DeskInvariant
  <2>4. QED
    BY <2>2, <2>3
<1>3. DeskInvariant /\ I => NextHolderIsTold
  <2> SUFFICES ASSUME DeskInvariant, I, NEW r \in Records, IsOpen(r), trail[r] # <<>>,
                      NEW u \in Users \ told[r], MaySendOn(u, rec[r])
               PROVE  FALSE
    BY DEF NextHolderIsTold
  <2>1. HolderIsTold(r) /\ HrIsTold(r)
    BY DEF DeskInvariant
  <2>2. QED
    BY <2>1, SendersAreHolders DEF DeskInvariant, HolderIsTold, HrIsTold
<1>4. DeskInvariant => TypeOK
  BY DEF DeskInvariant, SafetyInvariant
<1>5. QED
  BY <1>1, <1>2, <1>3, <1>4, DeskInvariantHolds, PTL DEF DeskSpec

\* The deadline holds at the desks as it does for the cases.
THEOREM DesksEnterNothingLate == DeskSpec => NothingEntersALateCase
  BY DesksKeepTheCases, NothingLate, PTL

-------------------------------------------------------------------------------
(* The stays of a case.  The rows of the log come in the order in which their   *)
(* requests began, so that they need not follow each other; but together they   *)
(* are the moves the case made, along which only a return leads back.           *)

\* The stage of the i-th stay.
Stage(r, i) == IF i <= Len(trail[r]) THEN trail[r][i].from ELSE rec[r].status

\* The moment from which the log counts on.
Moment(r, i) == IF i = 0 THEN opened[r] ELSE trail[r][i].at

Stays(r) == 1 .. Len(trail[r]) + 1

\* How far a status is from the opening of a case; a withdrawn case goes no further.
Rank == [draft |-> 0, submitted |-> 1, hr_approved |-> 2, deputy_approved |-> 3,
         finalized |-> 4, cancelled |-> 5]

TimesFit(r) ==
  IsCase(r) =>
    /\ opened[r] <= entered[r] /\ entered[r] <= today
    /\ \A i \in 1 .. Len(trail[r]) : trail[r][i].at <= entered[r]
    /\ \A i, j \in 1 .. Len(trail[r]) : i < j => trail[r][i].at <= trail[r][j].at
    /\ rec[r].status # "cancelled" => \A i \in 1 .. Len(trail[r]) : opened[r] <= trail[r][i].at

\* The stages a case on its way has passed, by the seats it has.
StagesPassed(r) ==
  IsCase(r) =>
    /\ \E i \in Stays(r) : Stage(r, i) = "draft"
    /\ rec[r].status \in {"hr_approved", "deputy_approved"} =>
         \E i \in Stays(r) : Stage(r, i) = "submitted"
    /\ rec[r].status = "deputy_approved" /\ rec[r].sup # None =>
         \E i \in Stays(r) : Stage(r, i) = "hr_approved"

\* Without a return the stages rise; a return leads to a stage a case has been at.
OnlyReturnsRepeat(r) ==
  /\ IsCase(r) /\ r \notin returned =>
       /\ \A i \in 1 .. Len(trail[r]) : Rank[Stage(r, i)] < Rank[rec[r].status]
       /\ \A i, j \in Stays(r) : i # j => Stage(r, i) # Stage(r, j)
  /\ r \in returned =>
       /\ IsCase(r)
       /\ \E i, j \in Stays(r) : i # j /\ Stage(r, i) = Stage(r, j) /\ Stage(r, i) \in STAGE_ORDER

PathIsSound(r) == TimesFit(r) /\ StagesPassed(r) /\ OnlyReturnsRepeat(r)

\* A step that does not move a case.
Unmoved(q) ==
  /\ trail'[q] = trail[q] /\ opened'[q] = opened[q] /\ entered'[q] = entered[q]
  /\ q \in returned' <=> q \in returned
  /\ today' = today \/ today' = today + 1
  /\ IsCase(q)' <=> IsCase(q)
  /\ IsCase(q) => rec'[q].status = rec[q].status /\ (rec'[q].sup # None => rec[q].sup # None)

LEMMA TrailType ==
  ASSUME DeskTypeOK, TypeOK, NEW r \in Records
  PROVE  /\ Len(trail[r]) \in Nat
         /\ \A i \in 1 .. Len(trail[r]) :
              trail[r][i].at \in Days /\ trail[r][i].from \in Statuses /\ trail[r][i].to \in Statuses
         /\ opened[r] \in Days /\ entered[r] \in Days /\ today \in Days
         /\ \A d \in Days : d \in Int
<1>1. trail[r] \in Seq(Moves)
  BY DEF DeskTypeOK
<1>2. \A i \in 1 .. Len(trail[r]) : trail[r][i] \in Moves
  BY <1>1
<1>3. QED
  BY <1>1, <1>2, ConstantsAssumption DEF DeskTypeOK, TypeOK, Moves, Days

LEMMA UnmovedPath ==
  ASSUME DeskTypeOK, TypeOK, NEW q \in Records, PathIsSound(q), Unmoved(q)
  PROVE  PathIsSound(q)'
<1>t. /\ Len(trail[q]) \in Nat /\ today \in Int /\ entered[q] \in Int
  BY TrailType
<1>1. IsCase(q) => \A i : Stage(q, i)' = Stage(q, i)
  BY DEF Unmoved, Stage
<1>2. Stays(q)' = Stays(q)
  BY DEF Unmoved, Stays
<1>3. TimesFit(q)'
  BY <1>t DEF PathIsSound, TimesFit, Unmoved
<1>4. StagesPassed(q)'
  BY <1>1, <1>2 DEF PathIsSound, StagesPassed, Unmoved
<1>5. OnlyReturnsRepeat(q)'
  BY <1>1, <1>2 DEF PathIsSound, OnlyReturnsRepeat, Unmoved
<1>6. QED
  BY <1>3, <1>4, <1>5 DEF PathIsSound

\* A move forward rises, a return goes back to a stage that was passed.
LEMMA TableDirection ==
  ASSUME NEW a \in Actions, NEW u \in Users, NEW c \in CaseRows, Allowed(u, a, c)
  PROVE  /\ a \notin Returns => Rank[c.status] < Rank[TRANSITIONS[a].to]
         /\ a \in Returns =>
              \/ TRANSITIONS[a].to = "draft"
              \/ TRANSITIONS[a].to = "submitted" /\ c.status \in {"hr_approved", "deputy_approved"}
              \/ TRANSITIONS[a].to = "hr_approved" /\ c.status = "deputy_approved" /\ c.sup # None
         /\ TRANSITIONS[a].to \in {"hr_approved", "deputy_approved"} =>
              c.status \in {"submitted", "hr_approved", "deputy_approved"}
         /\ TRANSITIONS[a].to = "deputy_approved" /\ c.sup # None => c.status = "hr_approved"
<1>1. c.status \in TRANSITIONS[a].from /\ Guard(a, c)
  BY DEF Allowed
<1>2. CASE a \in {"submit", "manager_submit", "direct_ceo_submit", "hr_approve", "hr_finalize_direct_ceo"}
  BY <1>1, <1>2 DEF TRANSITIONS, Step, Returns, Rank
<1>3. CASE a \in {"hr_approve_manager", "deputy_approve"}
  BY <1>1, <1>3 DEF TRANSITIONS, Step, Returns, Rank, Guard, IsManagerPath
<1>4. CASE a \in {"ceo_finalize", "cancel"}
  <2>1. TRANSITIONS[a].to \in {"finalized", "cancelled"} /\ c.status \in OpenStatuses /\ a \notin Returns
    BY <1>1, <1>4 DEF TRANSITIONS, Step, Returns, OpenStatuses
  <2>2. QED
    BY <2>1 DEF Rank, OpenStatuses
<1>5. CASE a \in {"hr_return", "deputy_return"}
  <2>1. \/ TRANSITIONS[a].to = "draft" /\ c.status = "submitted"
        \/ TRANSITIONS[a].to = "submitted" /\ c.status = "hr_approved"
    BY <1>1, <1>5 DEF TRANSITIONS, Step
  <2>2. QED
    BY <1>5, <2>1 DEF Returns
<1>6. CASE a \in {"ceo_return", "ceo_return_manager"}
  BY <1>1, <1>6 DEF TRANSITIONS, Step, Returns, Guard, IsManagerPath
<1>7. QED
  BY <1>2, <1>3, <1>4, <1>5, <1>6 DEF Actions

\* Every move leaves an open status.
LEMMA TableLeavesOpen ==
  \A a \in Actions : TRANSITIONS[a].from \subseteq OpenStatuses
  BY DEF Actions, TRANSITIONS, Step, OpenStatuses

LEMMA RankType == \A s \in Statuses : Rank[s] \in Int
  BY DEF Rank, Statuses, OpenStatuses

LEMMA MovingPath ==
  ASSUME DeskTypeOK, TypeOK, NEW r \in Records, NEW a \in Actions, PathIsSound(r), Moving(r, a)
  PROVE  PathIsSound(r)'
<1>t. /\ Len(trail[r]) \in Nat /\ today \in Int /\ entered[r] \in Int
      /\ \A i \in 1 .. Len(trail[r]) : trail[r][i].at \in Int /\ trail[r][i].from \in Statuses
      /\ opened[r] \in Int /\ \A d \in Days : d \in Int
  BY TrailType
<1>c. /\ IsCase(r) /\ IsCase(r)' /\ rec[r] \in CaseRows /\ rec[r].status \in Statuses
      /\ (rec'[r].sup # None <=> rec[r].sup # None)
  BY CaseType, NoneAssumption DEF Moving, SameSeats, IsCase, CaseRows
<1>0. PICK n \in Nat : n = Len(trail[r])
  BY <1>t
<1>1. PICK began \in Days : \E place \in 1 .. n + 1 :
        /\ began <= today /\ (opened[r] <= began \/ a = "cancel")
        /\ \A i \in 1 .. n :
             IF i < place THEN trail[r][i].at <= began ELSE began <= trail[r][i].at
        /\ trail'[r][place] = [at |-> began, from |-> rec[r].status, to |-> TRANSITIONS[a].to]
        /\ \A i \in 1 .. place - 1 : trail'[r][i] = trail[r][i]
        /\ \A i \in place .. n : trail'[r][i + 1] = trail[r][i]
  <2>1. \E began \in Days : \E place \in 1 .. Len(trail[r]) + 1 :
          /\ began <= today /\ (opened[r] <= began \/ a = "cancel")
          /\ \A i \in 1 .. Len(trail[r]) :
               IF i < place THEN trail[r][i].at <= began ELSE began <= trail[r][i].at
          /\ trail'[r][place] = [at |-> began, from |-> rec[r].status, to |-> TRANSITIONS[a].to]
          /\ \A i \in 1 .. place - 1 : trail'[r][i] = trail[r][i]
          /\ \A i \in place .. Len(trail[r]) : trail'[r][i + 1] = trail[r][i]
    BY LoggedMove
  <2>2. QED
    BY <1>0, <2>1, Zenon
<1>2. PICK place \in 1 .. n + 1 :
        /\ began <= today /\ (opened[r] <= began \/ a = "cancel")
        /\ \A i \in 1 .. n :
             IF i < place THEN trail[r][i].at <= began ELSE began <= trail[r][i].at
        /\ trail'[r][place] = [at |-> began, from |-> rec[r].status, to |-> TRANSITIONS[a].to]
        /\ \A i \in 1 .. place - 1 : trail'[r][i] = trail[r][i]
        /\ \A i \in place .. n : trail'[r][i + 1] = trail[r][i]
  BY <1>1
<1>3. /\ opened'[r] = opened[r] /\ entered'[r] = today /\ today' = today
      /\ rec'[r].status = TRANSITIONS[a].to
      /\ r \in returned' <=> (r \in returned \/ a \in Returns)
      /\ Len(trail'[r]) = n + 1
  <2>1. Leaves(r, a, opened[r]) \/ Leaves(r, a, 0)
    BY DEF Moving, Left
  <2>2. /\ opened' = opened /\ entered' = [entered EXCEPT ![r] = today]
        /\ returned' = IF a \in Returns THEN returned \cup {r} ELSE returned
    BY <2>1 DEF Leaves
  <2>3. today' = today /\ rec'[r].status = TRANSITIONS[a].to
    BY DEF Moving
  <2>4. Len(trail'[r]) = n + 1
    BY <1>0, LoggedMove
  <2>5. QED
    BY <2>2, <2>3, <2>4 DEF DeskTypeOK
<1>m. PICK m \in Statuses : m = TRANSITIONS[a].to
  BY TableType
<1>b. began \in Int
  BY <1>t
\* Where each row of the log was before the move, and where each of those is after it.
<1> DEFINE before(j) == IF j < place THEN j ELSE IF j = place THEN n + 1 ELSE j - 1
<1> DEFINE after(i) == IF i < place THEN i ELSE IF i = n + 1 THEN place ELSE i + 1
<1>4. /\ \A j \in 1 .. n + 1 : before(j) \in 1 .. n + 1
      /\ \A j, k \in 1 .. n + 1 : j # k => before(j) # before(k)
      /\ \A i \in 1 .. n + 1 : after(i) \in 1 .. n + 1 /\ before(after(i)) = i
      /\ \A i, k \in 1 .. n + 1 : i # k => after(i) # after(k)
  OBVIOUS
<1>5. ASSUME NEW j \in 1 .. n + 1
      PROVE  /\ j # place => before(j) \in 1 .. n /\ trail'[r][j] = trail[r][before(j)]
             /\ j = place => before(j) = n + 1
             /\ Stage(r, j)' = Stage(r, before(j))
  <2>1. CASE j < place
    <3>1. j \in 1 .. place - 1 /\ before(j) = j /\ j \in 1 .. n
      BY <2>1
    <3>2. trail'[r][j] = trail[r][j]
      BY <1>2, <3>1
    <3>3. QED
      BY <1>0, <1>3, <2>1, <3>1, <3>2 DEF Stage
  <2>2. CASE j = place
    <3>1. before(j) = n + 1
      BY <2>2
    <3>2. trail'[r][j].from = rec[r].status
      BY <1>2, <2>2
    <3>3. QED
      BY <1>0, <1>3, <2>2, <3>1, <3>2 DEF Stage
  <2>3. CASE place < j
    <3>1. j - 1 \in place .. n /\ before(j) = j - 1 /\ (j - 1) + 1 = j /\ j - 1 \in 1 .. n
      BY <2>3
    <3>2. trail'[r][j] = trail[r][j - 1]
      BY <1>2, <3>1
    <3>3. QED
      BY <1>0, <1>3, <2>3, <3>1, <3>2 DEF Stage
  <2>4. QED
    BY <2>1, <2>2, <2>3
<1>6. /\ Stage(r, n + 1) = rec[r].status /\ Stage(r, n + 2)' = m
      /\ Stays(r) = 1 .. n + 1 /\ Stays(r)' = 1 .. n + 2
      /\ \A i \in 1 .. n + 1 : Stage(r, i) \in Statuses
  BY <1>0, <1>3, <1>c, <1>m, <1>t DEF Stage, Stays
<1>7. ASSUME NEW i \in 1 .. n + 1
      PROVE  after(i) \in 1 .. n + 1 /\ Stage(r, after(i))' = Stage(r, i)
  BY <1>4, <1>5
<1>q. \A i, k \in 1 .. n + 1 : i # k => after(i) # after(k)
  BY <1>4
<1>p. /\ trail'[r][place].at = began
      /\ \A i \in 1 .. n : IF i < place THEN trail[r][i].at <= began ELSE began <= trail[r][i].at
      /\ began <= today /\ (opened[r] <= began \/ a = "cancel")
  BY <1>2
<1>r. ASSUME NEW j \in 1 .. n + 1
      PROVE  /\ before(j) \in 1 .. n + 1
             /\ j < place => before(j) = j /\ j \in 1 .. n
             /\ place < j => before(j) = j - 1 /\ j - 1 \in 1 .. n
             /\ j # place => before(j) \in 1 .. n /\ trail'[r][j] = trail[r][before(j)]
  BY <1>4, <1>5
<1> HIDE DEF before, after
<1>8. TimesFit(r)'
  <2>0. /\ opened[r] <= entered[r] /\ entered[r] <= today
        /\ \A i \in 1 .. n : trail[r][i].at \in Int /\ trail[r][i].at <= today
        /\ \A i, j \in 1 .. n : i < j => trail[r][i].at <= trail[r][j].at
        /\ rec[r].status # "cancelled" => \A i \in 1 .. n : opened[r] <= trail[r][i].at
    BY <1>0, <1>c, <1>t DEF PathIsSound, TimesFit
  <2>1. opened[r] <= today
    BY <1>t, <2>0
  <2>2. \A j \in 1 .. n + 1 : trail'[r][j].at <= today
    BY <1>p, <1>r, <2>0
  <2>3. ASSUME NEW j \in 1 .. n + 1, NEW k \in 1 .. n + 1, j < k
        PROVE  trail'[r][j].at <= trail'[r][k].at
    <3>1. CASE j = place
      BY <1>p, <1>r, <2>3, <3>1
    <3>2. CASE k = place
      BY <1>p, <1>r, <2>3, <3>2
    <3>3. CASE j # place /\ k # place
      <4>1. before(j) < before(k) /\ before(j) \in 1 .. n /\ before(k) \in 1 .. n
        BY <1>r, <2>3, <3>3
      <4>2. QED
        BY <1>r, <2>0, <3>3, <4>1
    <3>4. QED
      BY <3>1, <3>2, <3>3
  <2>4. ASSUME rec'[r].status # "cancelled", NEW j \in 1 .. n + 1
        PROVE  opened[r] <= trail'[r][j].at
    <3>1. a # "cancel"
      BY <1>3, <2>4 DEF TRANSITIONS, Step
    <3>2. rec[r].status # "cancelled"
      <4>1. rec[r].status \in TRANSITIONS[a].from
        BY DEF Moving, Allowed
      <4>2. QED
        BY <4>1, TableLeavesOpen DEF OpenStatuses
    <3>3. QED
      BY <1>p, <1>r, <2>0, <3>1, <3>2
  <2>5. /\ opened'[r] <= entered'[r] /\ entered'[r] <= today'
        /\ \A j \in 1 .. n + 1 : trail'[r][j].at <= entered'[r]
    BY <1>3, <1>t, <2>1, <2>2
  <2>6. rec'[r].status # "cancelled" => \A j \in 1 .. n + 1 : opened'[r] <= trail'[r][j].at
    BY <1>3, <2>4
  <2>7. QED
    BY <1>3, <2>3, <2>5, <2>6 DEF TimesFit
<1>9. \A s : (\E i \in Stays(r) : Stage(r, i) = s) => \E i \in 1 .. n + 1 : Stage(r, i)' = s
  BY <1>6, <1>7
<1>10. PICK u \in Users : Allowed(u, a, rec[r])
  BY DEF Moving
<1>11. /\ a \notin Returns => Rank[rec[r].status] < Rank[m]
       /\ a \in Returns =>
            \/ m = "draft"
            \/ m = "submitted" /\ rec[r].status \in {"hr_approved", "deputy_approved"}
            \/ m = "hr_approved" /\ rec[r].status = "deputy_approved" /\ rec[r].sup # None
       /\ m \in {"hr_approved", "deputy_approved"} =>
            rec[r].status \in {"submitted", "hr_approved", "deputy_approved"}
       /\ m = "deputy_approved" /\ rec[r].sup # None => rec[r].status = "hr_approved"
  BY <1>m, <1>10, <1>c, TableDirection
<1>12. StagesPassed(r)'
  <2>0. \E i \in Stays(r) : Stage(r, i) = rec[r].status
    BY <1>6
  <2>1. ASSUME m \in {"hr_approved", "deputy_approved"}
        PROVE  \E i \in Stays(r) : Stage(r, i) = "submitted"
    BY <1>c, <1>11, <2>0, <2>1 DEF PathIsSound, StagesPassed
  <2>2. ASSUME m = "deputy_approved", rec[r].sup # None
        PROVE  \E i \in Stays(r) : Stage(r, i) = "hr_approved"
    BY <1>11, <2>0, <2>2
  <2>d. \E i \in Stays(r) : Stage(r, i) = "draft"
    BY <1>c DEF PathIsSound, StagesPassed
  <2>3. Stays(r)' = 1 .. n + 2 /\ 1 .. n + 1 \subseteq 1 .. n + 2
    BY <1>6
  <2>4. rec'[r].status = m
    BY <1>3, <1>m
  <2>5. QED
    BY <1>9, <1>c, <2>1, <2>2, <2>3, <2>4, <2>d DEF StagesPassed
<1>13. ASSUME r \notin returned'
       PROVE  /\ \A i \in 1 .. n + 1 : Rank[Stage(r, i)'] < Rank[m]
              /\ \A i, j \in Stays(r)' : i # j => Stage(r, i)' # Stage(r, j)'
  <2>0. /\ \A i \in 1 .. n : Rank[Stage(r, i)] < Rank[rec[r].status]
        /\ \A i, j \in 1 .. n + 1 : i # j => Stage(r, i) # Stage(r, j)
    BY <1>0, <1>3, <1>6, <1>13, <1>c DEF PathIsSound, OnlyReturnsRepeat
  <2>1. Rank[rec[r].status] < Rank[m]
    BY <1>3, <1>13, <1>11
  <2>2. ASSUME NEW i \in 1 .. n + 1
        PROVE  Rank[Stage(r, i)] < Rank[m]
    <3>1. Rank[Stage(r, i)] \in Int /\ Rank[rec[r].status] \in Int /\ Rank[m] \in Int
      BY <1>6, <1>c, RankType
    <3>2. i = n + 1 \/ Rank[Stage(r, i)] < Rank[rec[r].status]
      BY <2>0
    <3>3. QED
      BY <1>6, <2>1, <3>1, <3>2
  <2>3. ASSUME NEW i \in 1 .. n + 1
        PROVE  Rank[Stage(r, i)'] < Rank[m] /\ Stage(r, i)' # m
    <3>1. Rank[Stage(r, i)'] < Rank[m]
      BY <1>4, <1>5, <2>2
    <3>2. Rank[m] \in Int
      BY RankType
    <3>3. QED
      BY <3>1, <3>2
  <2>4. ASSUME NEW i \in 1 .. n + 1, NEW j \in 1 .. n + 1, i # j
        PROVE  Stage(r, i)' # Stage(r, j)'
    BY <1>4, <1>5, <2>0, <2>4
  <2>5. QED
    BY <1>6, <2>3, <2>4
<1>14. ASSUME r \in returned'
       PROVE  \E i, j \in Stays(r)' :
                i # j /\ Stage(r, i)' = Stage(r, j)' /\ Stage(r, i)' \in STAGE_ORDER
  <2>1. CASE r \in returned
    <3>1. PICK i \in 1 .. n + 1, j \in 1 .. n + 1 :
            i # j /\ Stage(r, i) = Stage(r, j) /\ Stage(r, i) \in STAGE_ORDER
      BY <1>6, <2>1 DEF PathIsSound, OnlyReturnsRepeat
    <3>2. after(i) \in 1 .. n + 2 /\ after(j) \in 1 .. n + 2
      BY <1>7
    <3>3. after(i) # after(j) /\ after(i) \in Stays(r)' /\ after(j) \in Stays(r)'
      BY <1>6, <1>q, <3>1, <3>2
    <3>4. QED
      BY <1>7, <3>1, <3>3
  <2>2. CASE a \in Returns
    <3>1. m \in STAGE_ORDER
      BY <1>11, <2>2 DEF STAGE_ORDER
    <3>2. \E i \in Stays(r) : Stage(r, i) = m
      BY <1>c, <1>11, <2>2 DEF PathIsSound, StagesPassed
    <3>3. PICK i \in 1 .. n + 1 : Stage(r, i)' = m
      BY <1>9, <3>2
    <3>4. i \in Stays(r)' /\ n + 2 \in Stays(r)' /\ i # n + 2
      BY <1>6
    <3>5. QED
      BY <1>6, <3>1, <3>3, <3>4
  <2>3. QED
    BY <1>3, <1>14, <2>1, <2>2
<1>15. OnlyReturnsRepeat(r)'
  <2>1. rec'[r].status = m
    BY <1>3, <1>m
  <2>2. QED
    BY <1>3, <1>13, <1>14, <1>c, <2>1 DEF OnlyReturnsRepeat
<1>16. QED
  BY <1>8, <1>12, <1>15 DEF PathIsSound

LEMMA OpenedPath ==
  ASSUME DeskTypeOK, SafetyInvariant, NEW u \in Users, NEW r \in Records, CommitCreate(u, r),
         Opens(u, r), PathIsSound(r)
  PROVE  PathIsSound(r)'
<1>0. PICK began \in 0 .. today :
        opened' = [opened EXCEPT ![r] = began] /\ entered' = [entered EXCEPT ![r] = began]
  BY DEF Opens
<1>1. trail'[r] = <<>> /\ opened'[r] = began /\ entered'[r] = began /\ today' = today
  BY <1>0 DEF Opens, CommitCreate, DeskTypeOK, caseVars
<1>2. ~IsCase(r)
  BY CommitsNewRow
<1>3. r \notin returned'
  BY <1>2 DEF Opens, PathIsSound, OnlyReturnsRepeat
<1>4. rec'[r].status = "draft"
  BY DEF CommitCreate, NewCase, SafetyInvariant, TypeOK
<1>5. Len(trail'[r]) = 0
  BY <1>1
<1>6. today \in Int
  BY TrailType DEF SafetyInvariant
<1>7. TimesFit(r)'
  BY <1>1, <1>5, <1>6 DEF TimesFit
<1>8. StagesPassed(r)'
  BY <1>4, <1>5 DEF StagesPassed, Stays, Stage
<1>9. OnlyReturnsRepeat(r)'
  BY <1>3, <1>5 DEF OnlyReturnsRepeat, Stays
<1>10. QED
  BY <1>7, <1>8, <1>9 DEF PathIsSound

LEMMA PathNext ==
  ASSUME DeskTypeOK, SafetyInvariant, TypeOK', [DeskNext]_<<vars, deskVars>>,
         \A r \in Records : PathIsSound(r)
  PROVE  \A r \in Records : PathIsSound(r)'
<1> SUFFICES ASSUME NEW q \in Records PROVE PathIsSound(q)'
  OBVIOUS
<1>q. PathIsSound(q)
  OBVIOUS
<1>u. Unmoved(q) => PathIsSound(q)'
  BY <1>q, UnmovedPath DEF SafetyInvariant
<1>1. CASE Staying
  BY <1>u, <1>1, NoneAssumption DEF Staying, deskVars, Unmoved, IsCase, SameSeats
<1>2. ASSUME NEW u \in Users, NEW r \in Records, CommitCreate(u, r), Opens(u, r)
      PROVE  PathIsSound(q)'
  <2>1. CASE q = r
    BY <1>2, <1>q, <2>1, OpenedPath
  <2>2. CASE q # r
    <3>1. rec'[q] = rec[q] /\ today' = today
      BY <1>2, <2>2 DEF CommitCreate, SafetyInvariant, TypeOK, caseVars
    <3>2. /\ trail'[q] = trail[q] /\ opened'[q] = opened[q] /\ entered'[q] = entered[q]
          /\ returned' = returned
      BY <1>2, <2>2 DEF Opens, DeskTypeOK
    <3>3. QED
      BY <1>u, <3>1, <3>2 DEF Unmoved, IsCase
  <2>3. QED
    BY <2>1, <2>2
<1>3. ASSUME NEW r \in Records, NEW a \in Actions, Moving(r, a)
      PROVE  PathIsSound(q)'
  <2>1. CASE q = r
    BY <1>3, <1>q, <2>1, MovingPath DEF SafetyInvariant
  <2>2. CASE q # r
    <3>1. rec'[q] = rec[q] /\ today' = today
      BY <1>3, <2>2 DEF Moving, OnlyRow
    <3>2. /\ trail'[q] = trail[q] /\ opened'[q] = opened[q] /\ entered'[q] = entered[q]
          /\ q \in returned' <=> q \in returned
      BY <1>3, <2>2, OtherTrails DEF Moving, Left, Leaves, DeskTypeOK
    <3>3. QED
      BY <1>u, <3>1, <3>2 DEF Unmoved, IsCase
  <2>3. QED
    BY <2>1, <2>2
<1>4. ASSUME NEW r \in Records, NEW who, Tended(r, who)
      PROVE  PathIsSound(q)'
  <2>1. CASE q = r
    <3>1. IsCase(q) /\ IsCase(q)'
      BY <1>4, <2>1, NoneAssumption DEF Tended, IsCase
    <3>2. QED
      BY <1>4, <1>u, <2>1, <3>1 DEF Tended, Tells, Unmoved
  <2>2. CASE q # r
    BY <1>4, <1>u, <2>2 DEF Tended, Tells, Unmoved, OnlyRow, IsCase
  <2>3. QED
    BY <2>1, <2>2
<1>5. QED
  BY <1>1, <1>2, <1>3, <1>4, DeskStepKinds

LEMMA PathsAreSound == DeskSpec => [](\A r \in Records : PathIsSound(r))
<1>1. DeskInit => \A r \in Records : PathIsSound(r)
  BY DEF DeskInit, Init, PathIsSound, TimesFit, StagesPassed, OnlyReturnsRepeat, IsCase
<1>2. DeskInvariant /\ TypeOK' /\ (\A r \in Records : PathIsSound(r)) /\ [DeskNext]_<<vars, deskVars>>
        => (\A r \in Records : PathIsSound(r))'
  BY PathNext DEF DeskInvariant
<1>3. DeskInvariant => TypeOK
  BY DEF DeskInvariant, SafetyInvariant
<1>4. QED
  BY <1>1, <1>2, <1>3, DeskInvariantHolds, PTL DEF DeskSpec

\* The stays as stage_stats puts them together from the log and from the row.
LEMMA VisitsAreStays ==
  ASSUME DeskTypeOK, TypeOK, NEW r \in Records, IsCase(r)
  PROVE  /\ Len(Visits(r)) = Len(trail[r]) + 1 /\ DOMAIN Visits(r) = Stays(r)
         /\ \A i \in Stays(r) :
              /\ Visits(r)[i].status = Stage(r, i)
              /\ Visits(r)[i].current = (i = Len(trail[r]) + 1)
              /\ Visits(r)[i].days = IF i = Len(trail[r]) + 1 THEN today - entered[r]
                                     ELSE Moment(r, i) - Moment(r, i - 1)
<1>t. /\ Len(trail[r]) \in Nat /\ today \in Int /\ entered[r] \in Int
      /\ \A i \in 1 .. Len(trail[r]) : trail[r][i].at \in Int
      /\ opened[r] \in Int
  BY TrailType
<1>0. PICK n \in Nat : n = Len(trail[r])
  BY <1>t
<1>1. PICK past : past = [i \in 1 .. n |->
        [status |-> trail[r][i].from,
         days |-> trail[r][i].at - (IF i = 1 THEN opened[r] ELSE trail[r][i - 1].at),
         current |-> FALSE]]
  OBVIOUS
<1>2. PICK last : last = [status |-> rec[r].status, days |-> today - entered[r], current |-> TRUE]
  OBVIOUS
<1>3. Visits(r) = past \o <<last>>
  BY <1>0, <1>1, <1>2 DEF Visits
<1>k. PICK kinds : kinds = [status : Statuses, days : Int, current : BOOLEAN]
  OBVIOUS
<1>a. ASSUME NEW i \in 1 .. n
      PROVE  /\ past[i] \in kinds /\ past[i].status = trail[r][i].from /\ past[i].current = FALSE
             /\ past[i].days = trail[r][i].at - (IF i = 1 THEN opened[r] ELSE trail[r][i - 1].at)
  <2>1. past[i] = [status |-> trail[r][i].from,
                   days |-> trail[r][i].at - (IF i = 1 THEN opened[r] ELSE trail[r][i - 1].at),
                   current |-> FALSE]
    BY <1>1
  <2>2. trail[r][i].from \in Statuses
    BY <1>0, TrailType
  <2>3. i # 1 => i - 1 \in 1 .. n
    OBVIOUS
  <2>4. trail[r][i].at - (IF i = 1 THEN opened[r] ELSE trail[r][i - 1].at) \in Int
    BY <1>0, <1>t, <2>3
  <2>5. QED
    BY <1>k, <2>1, <2>2, <2>4
<1>b. last \in kinds
  <2>1. rec[r].status \in Statuses
    BY CaseType DEF CaseRows
  <2>2. QED
    BY <1>2, <1>k, <1>t, <2>1
<1>4. past \in Seq(kinds) /\ Len(past) = n
  <2>1. past \in [1 .. n -> kinds]
    BY <1>1, <1>a
  <2>2. QED
    BY <1>1, <2>1
<1>5. /\ Len(Visits(r)) = n + 1 /\ DOMAIN Visits(r) = 1 .. n + 1
      /\ \A i \in 1 .. n : Visits(r)[i] = past[i]
      /\ Visits(r)[n + 1] = last
  BY <1>3, <1>4, <1>b
<1>6. ASSUME NEW i \in 1 .. n
      PROVE  /\ past[i].status = Stage(r, i) /\ past[i].current = (i = n + 1)
             /\ past[i].days = Moment(r, i) - Moment(r, i - 1)
  <2>1. Moment(r, i) = trail[r][i].at
    BY <1>0 DEF Moment
  <2>2. Moment(r, i - 1) = IF i = 1 THEN opened[r] ELSE trail[r][i - 1].at
    BY <1>0 DEF Moment
  <2>a. past[i].status = trail[r][i].from
    BY <1>a
  <2>b. past[i].current = FALSE
    BY <1>a
  <2>c. i # n + 1 /\ i <= Len(trail[r])
    BY <1>0
  <2>3. past[i].status = Stage(r, i)
    BY <2>a, <2>c DEF Stage
  <2>4. past[i].current = FALSE /\ i # n + 1
    BY <2>b, <2>c
  <2>5. past[i].days = Moment(r, i) - Moment(r, i - 1)
    BY <1>a, <2>1, <2>2
  <2>6. (i = n + 1) = FALSE
    BY <2>4
  <2>7. QED
    BY <2>3, <2>4, <2>5, <2>6
<1>7. /\ last.status = Stage(r, n + 1) /\ last.current = (n + 1 = n + 1)
      /\ last.days = today - entered[r]
  <2>2. Stage(r, n + 1) = rec[r].status
    BY <1>0 DEF Stage
  <2>3. last.status = rec[r].status /\ last.days = today - entered[r] /\ last.current = TRUE
    BY <1>2
  <2>4. (n + 1 = n + 1) = TRUE
    OBVIOUS
  <2>5. QED
    BY <2>2, <2>3, <2>4
<1>8. QED
  BY <1>0, <1>5, <1>6, <1>7 DEF Stays

LEMMA StaysFit ==
  ASSUME DeskTypeOK, TypeOK, \A r \in Records : PathIsSound(r)
  PROVE  VisitsFitTheLife
<1> SUFFICES ASSUME NEW r \in Records, IsCase(r)
             PROVE  /\ \A i \in DOMAIN Visits(r) :
                         Visits(r)[i].days >= 0 \/ (i = 1 /\ rec[r].status = "cancelled")
                    /\ \E clock \in [0 .. Len(Visits(r)) -> Days] :
                         /\ clock[0] = opened[r] /\ clock[Len(Visits(r))] <= today
                         /\ \A i \in DOMAIN Visits(r) :
                              clock[i] = clock[i - 1] + Visits(r)[i].days
  BY DEF VisitsFitTheLife
<1>t. /\ Len(trail[r]) \in Nat /\ today \in Days /\ trail[r] \in Seq(Moves)
      /\ \A i \in 1 .. Len(trail[r]) : trail[r][i].at \in Days
      /\ opened[r] \in Days /\ entered[r] \in Days /\ \A d \in Days : d \in Int
  BY TrailType DEF DeskTypeOK
<1>0. PICK n \in Nat : n = Len(trail[r])
  BY <1>t
<1>1. /\ Len(Visits(r)) = n + 1 /\ DOMAIN Visits(r) = 1 .. n + 1
      /\ \A i \in 1 .. n : Visits(r)[i].days = Moment(r, i) - Moment(r, i - 1)
      /\ Visits(r)[n + 1].days = today - entered[r]
  BY <1>0, VisitsAreStays DEF Stays
<1>2. \A i \in 0 .. n : Moment(r, i) \in Days /\ Moment(r, i) \in Int
  BY <1>0, <1>t DEF Moment
<1>3. /\ opened[r] <= entered[r] /\ entered[r] <= today
      /\ \A i \in 1 .. n : trail[r][i].at <= entered[r]
      /\ \A i, j \in 1 .. n : i < j => trail[r][i].at <= trail[r][j].at
      /\ rec[r].status # "cancelled" => \A i \in 1 .. n : opened[r] <= trail[r][i].at
  BY <1>0 DEF PathIsSound, TimesFit
<1>4. Moment(r, n) <= entered[r]
  BY <1>3 DEF Moment
<1>5. ASSUME NEW i \in 1 .. n
      PROVE  Visits(r)[i].days >= 0 \/ (i = 1 /\ rec[r].status = "cancelled")
  <2>1. i - 1 \in 0 .. n /\ Moment(r, i) \in Int /\ Moment(r, i - 1) \in Int
    BY <1>2
  <2>2. Moment(r, i - 1) <= Moment(r, i) \/ (i = 1 /\ rec[r].status = "cancelled")
    <3>1. CASE i = 1
      BY <1>3, <3>1 DEF Moment
    <3>2. CASE i # 1
      <4>1. i - 1 \in 1 .. n /\ i - 1 < i
        BY <3>2
      <4>2. trail[r][i - 1].at <= trail[r][i].at
        BY <1>3, <4>1
      <4>3. QED
        BY <3>2, <4>1, <4>2 DEF Moment
    <3>3. QED
      BY <3>1, <3>2
  <2>3. QED
    BY <1>1, <2>1, <2>2
<1>6. today - entered[r] >= 0
  BY <1>3, <1>t
<1>7. PICK end : end = Moment(r, n) + (today - entered[r])
  OBVIOUS
<1>8. end \in Days /\ end <= today
  <2>1. Moment(r, n) \in 0 .. LastDay /\ today \in 0 .. LastDay /\ entered[r] \in 0 .. LastDay
    BY <1>2, <1>t DEF Days
  <2>2. QED
    BY <1>4, <1>6, <1>7, <2>1, ConstantsAssumption DEF Days
<1>9. PICK clock : clock = [i \in 0 .. n + 1 |-> IF i = n + 1 THEN end ELSE Moment(r, i)]
  OBVIOUS
<1>10. clock \in [0 .. n + 1 -> Days]
  <2>1. \A i \in 0 .. n + 1 : i = n + 1 \/ i \in 0 .. n
    OBVIOUS
  <2>2. QED
    BY <1>2, <1>8, <1>9, <2>1
<1>11. clock[0] = opened[r] /\ clock[n + 1] <= today
  BY <1>8, <1>9 DEF Moment
<1>12. ASSUME NEW i \in 1 .. n + 1
       PROVE  clock[i] = clock[i - 1] + Visits(r)[i].days
  <2>1. clock[i - 1] = Moment(r, i - 1) /\ i - 1 \in 0 .. n
    BY <1>9
  <2>2. CASE i = n + 1
    BY <1>1, <1>7, <1>9, <2>1, <2>2
  <2>3. CASE i # n + 1
    <3>1. clock[i] = Moment(r, i) /\ i \in 1 .. n /\ i \in 0 .. n
      BY <1>9, <2>3
    <3>2. QED
      BY <1>1, <1>2, <2>1, <3>1
  <2>4. QED
    BY <2>2, <2>3
<1>13. QED
  BY <1>1, <1>5, <1>6, <1>10, <1>11, <1>12

\* However long the requests waited for a case, no time is counted for it twice: the
\* stays, laid end to end from its opening, never reach beyond today.
THEOREM StaysFitTheLife == DeskSpec => []VisitsFitTheLife
<1>1. DeskInvariant /\ (\A r \in Records : PathIsSound(r)) => VisitsFitTheLife
  BY StaysFit DEF DeskInvariant, SafetyInvariant
<1>2. QED
  BY <1>1, DeskInvariantHolds, PathsAreSound, PTL

-------------------------------------------------------------------------------
(* Passes *)

Stay(r, i) == [case |-> r, nth |-> i, status |-> Stage(r, i), current |-> (i = Len(trail[r]) + 1)]

LEMMA AllStays ==
  ASSUME DeskTypeOK, TypeOK, \A r \in Records : PathIsSound(r), NEW v
  PROVE  v \in AllVisits <=> \E r \in Records : IsCase(r) /\ \E i \in Stays(r) : v = Stay(r, i)
<1>1. ASSUME NEW r \in Records, IsCase(r)
      PROVE  LET visits == Visits(r)
             IN {[case |-> r, nth |-> i, status |-> visits[i].status, current |-> visits[i].current] :
                  i \in DOMAIN visits} = {Stay(r, i) : i \in Stays(r)}
  <2>1. /\ DOMAIN Visits(r) = Stays(r)
        /\ \A i \in Stays(r) : /\ Visits(r)[i].status = Stage(r, i)
                               /\ Visits(r)[i].current = (i = Len(trail[r]) + 1)
    BY <1>1, VisitsAreStays DEF PathIsSound
  <2>2. \A i \in Stays(r) :
          [case |-> r, nth |-> i, status |-> Visits(r)[i].status, current |-> Visits(r)[i].current]
            = Stay(r, i)
    BY <2>1 DEF Stay
  <2>3. QED
    BY <2>1, <2>2
<1>2. AllVisits = UNION {{Stay(r, i) : i \in Stays(r)} : r \in {q \in Records : IsCase(q)}}
  BY <1>1 DEF AllVisits
<1>3. QED
  BY <1>2

LEMMA StaysAreFinite ==
  ASSUME DeskTypeOK, TypeOK, \A r \in Records : PathIsSound(r)
  PROVE  IsFiniteSet(AllVisits)
<1>1. PICK cases : cases = {q \in Records : IsCase(q)}
  OBVIOUS
<1>2. IsFiniteSet(cases)
  BY <1>1, RecordsAssumption, FS_Subset
<1>3. PICK of : of = [r \in cases |-> {Stay(r, i) : i \in Stays(r)}]
  OBVIOUS
<1>4. PICK sets : sets = {of[r] : r \in cases}
  OBVIOUS
<1>5. of \in Surjection(cases, sets)
  BY <1>3, <1>4 DEF Surjection
<1>6. IsFiniteSet(sets)
  BY <1>2, <1>5, FS_Surjection
<1>7. ASSUME NEW r \in cases
      PROVE  IsFiniteSet(of[r])
  <2>1. PICK at : at = [i \in Stays(r) |-> Stay(r, i)]
    OBVIOUS
  <2>2. at \in Surjection(Stays(r), of[r])
    BY <1>3, <2>1 DEF Surjection
  <2>3. IsFiniteSet(Stays(r))
    <3>1. Len(trail[r]) + 1 \in Int /\ 1 \in Int
      BY <1>1, TrailType
    <3>2. QED
      BY <3>1, FS_Interval DEF Stays
  <2>4. QED
    BY <2>2, <2>3, FS_Surjection
<1>8. IsFiniteSet(UNION sets)
  BY <1>4, <1>6, <1>7, FS_UNION
<1>9. \A v : v \in AllVisits <=> v \in UNION sets
  BY <1>1, <1>3, <1>4, AllStays
<1>10. AllVisits = UNION sets
  BY <1>9
<1>11. QED
  BY <1>8, <1>10

\* A stage counts more passes than cases when a case stayed there twice.
LEMMA PassesOverTotal ==
  ASSUME NEW all, IsFiniteSet(all), NEW s
  PROVE  Bucket(all, s).passes > Bucket(all, s).total
           <=> \E v, w \in all : v # w /\ v.status = s /\ w.status = s /\ v.case = w.case
<1>1. PICK here : here = {v \in all : v.status = s}
  OBVIOUS
<1>2. PICK cases : cases = {v.case : v \in here}
  OBVIOUS
<1>3. PICK of : of = [v \in here |-> v.case]
  OBVIOUS
<1>4. IsFiniteSet(here)
  BY <1>1, FS_Subset
<1>5. of \in Surjection(here, cases)
  BY <1>2, <1>3 DEF Surjection
<1>6. /\ IsFiniteSet(cases) /\ Cardinality(cases) <= Cardinality(here)
      /\ Cardinality(cases) = Cardinality(here) <=> of \in Injection(here, cases)
  BY <1>4, <1>5, FS_Surjection
<1>7. Cardinality(cases) \in Nat /\ Cardinality(here) \in Nat
  BY <1>4, <1>6, FS_CardinalityType
<1>8. of \in Injection(here, cases) <=> ~\E v, w \in here : v # w /\ v.case = w.case
  <2>1. of \in [here -> cases]
    BY <1>2, <1>3
  <2>2. of \in Injection(here, cases) <=> \A v, w \in here : of[v] = of[w] => v = w
    BY <2>1 DEF Injection, IsInjective
  <2>3. QED
    BY <1>3, <2>2
<1>9. Bucket(all, s).passes = Cardinality(here) /\ Bucket(all, s).total = Cardinality(cases)
  BY <1>1, <1>2 DEF Bucket
<1>10. QED
  BY <1>1, <1>6, <1>7, <1>8, <1>9

LEMMA PresentIsPipeline ==
  ASSUME DeskTypeOK, TypeOK, \A r \in Records : PathIsSound(r), NEW s
  PROVE  Bucket(AllVisits, s).active = Pipeline(s).count
<1>1. PICK here : here = {v \in {w \in AllVisits : w.status = s} : v.current}
  OBVIOUS
<1>2. PICK cases : cases = {r \in Records : IsCase(r) /\ rec[r].status = s}
  OBVIOUS
<1>3. IsFiniteSet(cases)
  BY <1>2, RecordsAssumption, FS_Subset
<1>4. PICK of : of = [r \in cases |-> Stay(r, Len(trail[r]) + 1)]
  OBVIOUS
<1>5. ASSUME NEW r \in Records
      PROVE  /\ Len(trail[r]) + 1 \in Stays(r)
             /\ Stage(r, Len(trail[r]) + 1) = rec[r].status
  BY TrailType DEF Stays, Stage
<1>6. \A r \in cases : of[r] \in here
  <2> SUFFICES ASSUME NEW r \in cases PROVE of[r] \in here
    OBVIOUS
  <2>1. of[r] = Stay(r, Len(trail[r]) + 1)
    BY <1>4
  <2>2. of[r] \in AllVisits
    BY <1>2, <1>5, <2>1, AllStays
  <2>3. of[r].status = s /\ of[r].current
    <3>1. of[r].status = Stage(r, Len(trail[r]) + 1)
      BY <2>1 DEF Stay
    <3>2. of[r].current = (Len(trail[r]) + 1 = Len(trail[r]) + 1)
      BY <2>1 DEF Stay
    <3>3. Stage(r, Len(trail[r]) + 1) = s
      BY <1>2, <1>5
    <3>4. QED
      BY <3>1, <3>2, <3>3
  <2>4. QED
    BY <1>1, <2>2, <2>3
<1>7. ASSUME NEW v \in here PROVE \E r \in cases : of[r] = v
  <2>0. v \in AllVisits /\ v.status = s /\ v.current
    BY <1>1
  <2>r. PICK r \in Records : IsCase(r) /\ \E i \in Stays(r) : v = Stay(r, i)
    BY <2>0, AllStays
  <2>1. PICK i \in Stays(r) : IsCase(r) /\ v = Stay(r, i)
    BY <2>r
  <2>2. i = Len(trail[r]) + 1 /\ Stage(r, i) = s
    BY <2>0, <2>1 DEF Stay
  <2>3. QED
    BY <1>2, <1>4, <1>5, <2>1, <2>2
<1>8. of \in [cases -> here] /\ \A q, r \in cases : of[q] = of[r] => q = r
  BY <1>4, <1>6 DEF Stay
<1>9. of \in Bijection(cases, here)
  BY <1>7, <1>8 DEF Bijection, Injection, Surjection, IsInjective
<1>10. Cardinality(here) = Cardinality(cases)
  BY <1>3, <1>9, FS_Bijection DEF ExistsBijection
<1>11. Bucket(AllVisits, s).active = Cardinality(here)
  BY <1>1 DEF Bucket
<1>12. QED
  BY <1>2, <1>10, <1>11 DEF Pipeline

LEMMA PassesFromPaths ==
  ASSUME DeskTypeOK, TypeOK, \A r \in Records : PathIsSound(r)
  PROVE  PassesTellReturns
<1>1. \A s : Bucket(AllVisits, s).passes > Bucket(AllVisits, s).total
         <=> \E v, w \in AllVisits : v # w /\ v.status = s /\ w.status = s /\ v.case = w.case
  BY StaysAreFinite, PassesOverTotal
<1>2. ASSUME NEW s \in STAGE_ORDER, Bucket(AllVisits, s).passes > Bucket(AllVisits, s).total
      PROVE  returned # {}
  <2>1. PICK v \in AllVisits, w \in AllVisits :
          v # w /\ v.status = s /\ w.status = s /\ v.case = w.case
    BY <1>1, <1>2
  <2>r. PICK r \in Records : IsCase(r) /\ \E i \in Stays(r) : v = Stay(r, i)
    BY AllStays
  <2>2. PICK i \in Stays(r) : IsCase(r) /\ v = Stay(r, i)
    BY <2>r
  <2>q. PICK q \in Records : IsCase(q) /\ \E j \in Stays(q) : w = Stay(q, j)
    BY AllStays
  <2>3. PICK j \in Stays(q) : IsCase(q) /\ w = Stay(q, j)
    BY <2>q
  <2>4. q = r /\ i # j /\ Stage(r, i) = s /\ Stage(r, j) = s
    BY <2>1, <2>2, <2>3 DEF Stay
  <2>5. Len(trail[r]) \in Nat
    BY TrailType
  <2>6. i \in Int /\ j \in Int /\ j \in Stays(r)
    BY <2>3, <2>4, <2>5 DEF Stays
  <2>8. r \in returned
    <3> SUFFICES ASSUME r \notin returned PROVE FALSE
      OBVIOUS
    <3>1. \A k, l \in Stays(r) : k # l => Stage(r, k) # Stage(r, l)
      BY <2>2 DEF PathIsSound, OnlyReturnsRepeat
    <3>2. QED
      BY <2>4, <2>6, <3>1
  <2>9. QED
    BY <2>8
<1>3. ASSUME NEW r \in returned
      PROVE  \E s \in STAGE_ORDER : Bucket(AllVisits, s).passes > Bucket(AllVisits, s).total
  <2>1. r \in Records
    BY DEF DeskTypeOK
  <2>2. IsCase(r)
    BY <2>1 DEF PathIsSound, OnlyReturnsRepeat
  <2>3. PICK i \in Stays(r), j \in Stays(r) :
          i # j /\ Stage(r, i) = Stage(r, j) /\ Stage(r, i) \in STAGE_ORDER
    BY <2>1 DEF PathIsSound, OnlyReturnsRepeat
  <2>4. Stay(r, i) \in AllVisits /\ Stay(r, j) \in AllVisits
    BY <2>1, <2>2, AllStays
  <2>6. i # j
    BY <2>3
  <2>7. /\ Stay(r, i) # Stay(r, j) /\ Stay(r, i).case = Stay(r, j).case
        /\ Stay(r, i).status = Stage(r, i) /\ Stay(r, j).status = Stage(r, i)
    BY <2>3, <2>6 DEF Stay
  <2>8. QED
    BY <1>1, <2>3, <2>4, <2>7
<1>4. \A s \in STAGE_ORDER : Bucket(AllVisits, s).active = Pipeline(s).count
  BY PresentIsPipeline
<1>5. QED
  BY <1>2, <1>3, <1>4 DEF PassesTellReturns

\* A stage counts more passes than cases exactly when some case was sent back, however
\* many cases there are and whatever seats they have; what it counts as present is what
\* the pipeline shows.
THEOREM PassesCountReturns == DeskSpec => []PassesTellReturns
<1>1. DeskInvariant /\ (\A r \in Records : PathIsSound(r)) => PassesTellReturns
  BY PassesFromPaths DEF DeskInvariant, SafetyInvariant
<1>2. QED
  BY <1>1, DeskInvariantHolds, PathsAreSound, PTL

-------------------------------------------------------------------------------
(* What the pages offer.  A tile, the list and a handler read the seats of a    *)
(* case alike as long as the accounts in those seats stay as they were when     *)
(* they were seated.                                                            *)

\* Each seat is held by an account of its role or of a superior one.
SeatsFit(c) ==
  /\ c.sup # None => MayActAt(Roster[c.sup].role, "unit_supervisor")
  /\ c.deputy # None => MayActAt(Roster[c.deputy].role, "deputy")
  /\ MayActAt(Roster[c.ceo].role, "ceo")

SubjectApart(c) == \A u \in Occupants(c) : Roster[u].person # c.subject

\* No role or link of an account is edited after it was seated, no account of HR
\* is anybody's subject, the chains an installation begins with name accounts that fit,
\* and a framework has indicators.
AccountsAreSettled ==
  /\ Editable = {}
  /\ \A u \in Users : Roster[u].role = "hr" => Roster[u].person = None
  /\ \A i \in Installations : \A p \in Persons : i.access[p] # None => SeatsFit(i.access[p])
  /\ EmptySheet \notin CompleteSheets

AccountsStay ==
  \A u \in Users : users[u].role = Roster[u].role /\ users[u].person = Roster[u].person

ChainsFit == \A p \in Persons : access[p] # None => SeatsFit(access[p])

CreationsFit ==
  \A u \in Users : creating[u] # None =>
    SeatsFit(creating[u]) /\ (creating[u].row # None => SubjectApart(creating[u]))

CaseFits(c) == SeatsFit(c) /\ SubjectApart(c) /\ (c.hr # None => Roster[c.hr].role = "hr")

CasesFit == \A r \in Records : IsCase(r) => CaseFits(rec[r])

Settled == AccountsStay /\ ChainsFit /\ CreationsFit /\ CasesFit

LEMMA AccountsNext ==
  ASSUME TypeOK, Editable = {}, AccountsStay, [Next]_vars
  PROVE  AccountsStay'
<1>0. users \in [Users -> UserRows]
  BY DEF TypeOK
<1>1. CASE users' = users
  BY <1>1 DEF AccountsStay
<1>2. CASE \E u \in Users, r \in Records : CaseStep(u, r)
  <2>1. users' = users
    BY <1>2 DEF CaseStep, InsertCase, CommitCreate, UpsertScores, SetSpecialScore, Submit, HrApprove,
       DeputyApprove, CeoFinalize, Return, Cancel, HrClaim, HrHandover, Reassign, Extend, others
  <2>2. QED
    BY <1>1, <2>1
<1>3. CASE \E u \in Users, p \in Persons : PersonStep(u, p)
  <2>1. PICK u \in Users, p \in Persons : PersonStep(u, p)
    BY <1>3
  <2>2. CASE Depart(u, p)
    <3>1. users' = users \/ \E v \in Users : users' = [users EXCEPT ![v].active = FALSE]
      BY <2>2 DEF Depart
    <3>2. \A w \in Users : users'[w].role = users[w].role /\ users'[w].person = users[w].person
      BY <1>0, <3>1 DEF UserRows
    <3>3. QED
      BY <3>2 DEF AccountsStay
  <2>3. CASE ~Depart(u, p)
    <3>1. users' = users
      BY <2>1, <2>3 DEF PersonStep, BeginCreate, BeginBulkCreate, UpsertAccess, OvertakenUpsert,
         SetManager, Rejoin, EditPersonnel
    <3>2. QED
      BY <1>1, <3>1
  <2>4. QED
    BY <2>2, <2>3
<1>4. CASE \E u \in Users : AccountStep(u)
  BY <1>1, <1>4 DEF AccountStep, RollbackCreate
<1>5. CASE (\E u \in Users : PeriodStep(u)) \/ NextDay \/ UNCHANGED vars
  BY <1>1, <1>5 DEF PeriodStep, OpenPeriod, MovePeriodEnd, ClosePeriod, NextDay, vars
<1>6. QED
  BY <1>2, <1>3, <1>4, <1>5 DEF Next

\* An empty supervisor's seat fits.
LEMMA ClearedFits ==
  ASSUME NEW k \in ChainRows, SeatsFit(k)
  PROVE  SeatsFit([k EXCEPT !.sup = None])
<1>1. PICK d : d = [k EXCEPT !.sup = None]
  OBVIOUS
<1>2. d.sup = None /\ d.deputy = k.deputy /\ d.ceo = k.ceo
  BY <1>1 DEF ChainRows
<1>3. SeatsFit(d)
  BY <1>2 DEF SeatsFit
<1>4. QED
  BY <1>1, <1>3

LEMMA ClearedChainsFit ==
  ASSUME TypeOK, ChainsFit, NEW p \in Persons, access' = SupervisorCleared(p)
  PROVE  ChainsFit'
<1>1. CASE personnel'[p].manager /\ access[p] # None
  <2>1. access' = [access EXCEPT ![p].sup = None]
    BY <1>1 DEF SupervisorCleared
  <2>2. access[p] \in ChainRows /\ SeatsFit(access[p])
    BY <1>1 DEF TypeOK, ChainsFit
  <2>3. SeatsFit([access[p] EXCEPT !.sup = None])
    BY <2>2, ClearedFits
  <2>4. /\ \A q \in Persons \ {p} : access'[q] = access[q]
        /\ access'[p] = [access[p] EXCEPT !.sup = None]
    BY <2>1 DEF TypeOK
  <2>5. QED
    BY <2>3, <2>4 DEF ChainsFit
<1>2. CASE ~(personnel'[p].manager /\ access[p] # None)
  BY <1>2 DEF SupervisorCleared, ChainsFit
<1>3. QED
  BY <1>1, <1>2

\* What upsert_access writes fits.
LEMMA OfferedFits ==
  ASSUME AccountsStay, NEW a \in Users, NEW p \in Persons, NEW chain \in ChainRows,
         ChainOffered(a, p, chain)
  PROVE  SeatsFit(chain)
<1>1. \A seat \in {"sup", "deputy", "ceo"} :
        chain[seat] # None => MayActAt(users[chain[seat]].role, SeatRole[seat])
  BY DEF ChainOffered
<1>2. /\ chain.sup # None => MayActAt(users[chain.sup].role, SeatRole["sup"])
      /\ chain.deputy # None => MayActAt(users[chain.deputy].role, SeatRole["deputy"])
      /\ chain.ceo # None => MayActAt(users[chain.ceo].role, SeatRole["ceo"])
  BY <1>1
<1>3. /\ SeatRole["sup"] = "unit_supervisor" /\ SeatRole["deputy"] = "deputy"
      /\ SeatRole["ceo"] = "ceo"
  BY DEF SeatRole
<1>4. /\ chain.sup \in Seats /\ chain.deputy \in Seats /\ chain.ceo \in Users
      /\ chain.ceo # None
  BY NoneAssumption DEF ChainRows
<1>5. \A u \in Seats : u # None => users[u].role = Roster[u].role
  BY DEF AccountsStay, Seats
<1>6. users[chain.ceo].role = Roster[chain.ceo].role
  BY <1>4 DEF AccountsStay
<1>7. QED
  BY <1>2, <1>3, <1>4, <1>5, <1>6 DEF SeatsFit

LEMMA ChainsFitNext ==
  ASSUME TypeOK, StatusIsSigned, AccountsStay, ChainsFit, [Next]_vars
  PROVE  ChainsFit'
<1>1. CASE access' = access
  BY <1>1 DEF ChainsFit
<1>2. CASE \E u \in Users, p \in Persons : PersonStep(u, p)
  <2>1. PICK u \in Users, p \in Persons : PersonStep(u, p)
    BY <1>2
  <2>2. CASE \E chain \in Chains : UpsertAccess(u, p, chain) \/ OvertakenUpsert(u, p, chain)
    <3>1. PICK chain \in Chains : UpsertAccess(u, p, chain) \/ OvertakenUpsert(u, p, chain)
      BY <2>2
    <3>2. SeatsFit(chain)
      BY <3>1, OfferedFits, ConstantsAssumption DEF UpsertAccess, OvertakenUpsert
    <3>3. /\ \A q \in Persons \ {p} : access'[q] = access[q]
          /\ access'[p] = chain
      BY <3>1 DEF UpsertAccess, OvertakenUpsert, TypeOK
    <3>4. QED
      BY <3>2, <3>3 DEF ChainsFit
  <2>3. CASE \/ \E b \in ManagerFlags : SetManager(u, p, b)
             \/ Rejoin(u, p) \/ EditPersonnel(u, p) \/ Depart(u, p)
    BY <2>3, ClearedChainsFit DEF SetManager, Rejoin, EditPersonnel, Depart
  <2>4. CASE BeginCreate(u, p) \/ BeginBulkCreate(u, p)
    BY <1>1, <2>4 DEF BeginCreate, BeginBulkCreate
  <2>5. QED
    BY <2>1, <2>2, <2>3, <2>4 DEF PersonStep
<1>3. CASE \E u \in Users, r \in Records : CaseStep(u, r)
  BY <1>1, <1>3, CaseStepKinds DEF others, InsertCase, CommitCreate
<1>4. CASE \E u \in Users : AccountStep(u)
  BY <1>1, <1>4 DEF AccountStep, RollbackCreate, SetActive, SetRole, LinkPerson
<1>5. CASE (\E u \in Users : PeriodStep(u)) \/ NextDay \/ UNCHANGED vars
  BY <1>1, <1>5 DEF PeriodStep, OpenPeriod, MovePeriodEnd, ClosePeriod, NextDay, vars
<1>6. QED
  BY <1>2, <1>3, <1>4, <1>5 DEF Next

\* The chain a new case gets fits if the chain of the person does.
LEMMA ReadsFit ==
  ASSUME TypeOK, ChainsFit, NEW p \in Persons, access[p] # None
  PROVE  SeatsFit(Reads(p)) /\ Reads(p).row = None
<1>1. access[p] \in ChainRows /\ SeatsFit(access[p])
  BY DEF TypeOK, ChainsFit
<1>2. SeatsFit(ChainFor(p))
  <2>1. SeatsFit([access[p] EXCEPT !.sup = None])
    BY <1>1, ClearedFits
  <2>2. QED
    BY <1>1, <2>1 DEF ChainFor
<1>3. PICK k : k = ChainFor(p)
  OBVIOUS
<1>4. SeatsFit(k)
  BY <1>2, <1>3
<1>5. /\ Reads(p).sup = k.sup /\ Reads(p).deputy = k.deputy /\ Reads(p).ceo = k.ceo
      /\ Reads(p).row = None
  BY <1>3 DEF Reads
<1>6. QED
  BY <1>4, <1>5 DEF SeatsFit

LEMMA CreationsFitNext ==
  ASSUME TypeOK, StatusIsSigned, AccountsStay, ChainsFit, CreationsFit, [Next]_vars
  PROVE  CreationsFit'
<1> DEFINE Fit(k) == k # None => SeatsFit(k) /\ (k.row # None => SubjectApart(k))
<1>0. \A u \in Users : Fit(creating[u])
  BY DEF CreationsFit
<1>1. CASE \A u \in Users : creating'[u] = creating[u]
  BY <1>0, <1>1 DEF CreationsFit
<1>2. ASSUME NEW u \in Users, \A v \in Users \ {u} : creating'[v] = creating[v],
             Fit(creating'[u])
      PROVE  CreationsFit'
  BY <1>0, <1>2 DEF CreationsFit
<1>3. Fit(None)
  OBVIOUS
<1>4. CASE \E u \in Users, r \in Records : CaseStep(u, r)
  <2>1. PICK u \in Users, r \in Records : CaseStep(u, r)
    BY <1>4
  <2>2. CASE InsertCase(u, r)
    <3>1. creating[u] \in Creations /\ SeatsFit(creating[u])
      BY <2>2, <1>0 DEF InsertCase, TypeOK
    <3>2. /\ creating'[u] = [creating[u] EXCEPT !.row = r]
          /\ \A v \in Users \ {u} : creating'[v] = creating[v]
      BY <2>2 DEF InsertCase, TypeOK
    <3>3. PICK k : k = [creating[u] EXCEPT !.row = r]
      OBVIOUS
    <3>4. /\ k.sup = creating[u].sup /\ k.deputy = creating[u].deputy
          /\ k.ceo = creating[u].ceo /\ k.subject = creating[u].subject
      BY <3>1, <3>3 DEF Creations
    <3>5. SeatsFit(k)
      BY <3>1, <3>4 DEF SeatsFit
    <3>6. Occupants(k) = Occupants(creating[u]) /\ Occupants(creating[u]) \subseteq Users
      BY <3>1, <3>4 DEF Occupants, Creations, Seats
    <3>7. SubjectApart(k)
      BY <2>2, <3>4, <3>6 DEF InsertCase, SubjectNotSeated, SubjectApart, AccountsStay
    <3>8. Fit(creating'[u])
      BY <3>2, <3>3, <3>5, <3>7
    <3>9. QED
      BY <1>2, <3>2, <3>8
  <2>3. CASE CommitCreate(u, r)
    <3>1. creating'[u] = None /\ \A v \in Users \ {u} : creating'[v] = creating[v]
      BY <2>3 DEF CommitCreate, TypeOK
    <3>2. QED
      BY <1>2, <1>3, <3>1
  <2>4. CASE UNCHANGED others
    BY <1>1, <2>4 DEF others
  <2>5. QED
    BY <2>1, <2>2, <2>3, <2>4, CaseStepKinds
<1>5. CASE \E u \in Users, p \in Persons : PersonStep(u, p)
  <2>1. PICK u \in Users, p \in Persons : PersonStep(u, p)
    BY <1>5
  <2>2. CASE BeginCreate(u, p) \/ BeginBulkCreate(u, p)
    <3>1. access[p] # None
      BY <2>2 DEF BeginCreate, BeginBulkCreate, MayOpenCase
    <3>2. creating'[u] = Reads(p) /\ \A v \in Users \ {u} : creating'[v] = creating[v]
      BY <2>2 DEF BeginCreate, BeginBulkCreate, TypeOK
    <3>3. Fit(Reads(p))
      BY <3>1, ReadsFit
    <3>4. QED
      BY <1>2, <3>2, <3>3
  <2>3. CASE UNCHANGED creating
    BY <1>1, <2>3
  <2>4. QED
    BY <2>1, <2>2, <2>3
       DEF PersonStep, UpsertAccess, OvertakenUpsert, SetManager, Depart, Rejoin, EditPersonnel
<1>6. CASE \E u \in Users : AccountStep(u)
  <2>1. PICK u \in Users : AccountStep(u)
    BY <1>6
  <2>2. CASE RollbackCreate(u)
    <3>1. creating'[u] = None /\ \A v \in Users \ {u} : creating'[v] = creating[v]
      BY <2>2 DEF RollbackCreate, TypeOK
    <3>2. QED
      BY <1>2, <1>3, <3>1
  <2>3. CASE UNCHANGED creating
    BY <1>1, <2>3
  <2>4. QED
    BY <2>1, <2>2, <2>3 DEF AccountStep, SetActive, SetRole, LinkPerson
<1>7. CASE (\E u \in Users : PeriodStep(u)) \/ NextDay \/ UNCHANGED vars
  BY <1>1, <1>7 DEF PeriodStep, OpenPeriod, MovePeriodEnd, ClosePeriod, NextDay, vars
<1>8. QED
  BY <1>4, <1>5, <1>6, <1>7 DEF Next

\* The accounts of a case whose seats stay keep fitting, and so do those of one HR
\* has given another holder.
LEMMA FitStays ==
  ASSUME AccountsStay, NEW c \in CaseRows, NEW d \in CaseRows, CaseFits(c),
         OwnedByHr(c, d), d.subject = c.subject,
         SameSeats(c, d) \/ SeatsRefilled(c, d)
  PROVE  CaseFits(d)
<1>1. /\ c.sup \in Seats /\ c.deputy \in Seats /\ c.ceo \in Users /\ c.hr \in Seats
      /\ d.sup \in Seats /\ d.deputy \in Seats /\ d.ceo \in Users /\ d.hr \in Seats
  BY DEF CaseRows
<1>2. \A u \in Seats : u # None =>
        users[u].role = Roster[u].role /\ users[u].person = Roster[u].person
  BY DEF AccountsStay, Seats
<1>3. d.hr # None => Roster[d.hr].role = "hr"
  BY <1>1, <1>2 DEF OwnedByHr, CaseFits
<1>4. CASE SameSeats(c, d)
  <2>1. SeatsFit(d) /\ Occupants(d) = Occupants(c)
    BY <1>4 DEF CaseFits, SeatsFit, SameSeats, Occupants
  <2>2. SubjectApart(d)
    BY <2>1 DEF SubjectApart, CaseFits
  <2>3. QED
    BY <1>3, <2>1, <2>2 DEF CaseFits
<1>5. CASE SeatsRefilled(c, d)
  <2>1. /\ MayActAt("unit_supervisor", "unit_supervisor") /\ MayActAt("deputy", "deputy")
        /\ MayActAt("ceo", "ceo")
    BY DEF MayActAt, ChainRoles, ChainRank
  <2>2. /\ d.sup # None => MayActAt(Roster[d.sup].role, "unit_supervisor")
        /\ d.deputy # None => MayActAt(Roster[d.deputy].role, "deputy")
    BY <1>1, <1>2, <1>5, <2>1 DEF SeatsRefilled, CaseFits, SeatsFit
  <2>3. MayActAt(Roster[d.ceo].role, "ceo")
    <3>1. users[d.ceo].role = Roster[d.ceo].role
      BY <1>1 DEF AccountsStay
    <3>2. QED
      BY <1>5, <2>1, <3>1 DEF SeatsRefilled, CaseFits, SeatsFit
  <2>4. Occupants(d) \subseteq Users
    BY <1>1 DEF Occupants, Seats
  <2>5. SubjectApart(d)
    BY <1>5, <2>4 DEF SeatsRefilled, TriggerAdmits, SubjectNotSeated, SubjectApart, AccountsStay
  <2>6. QED
    BY <1>3, <2>2, <2>3, <2>5 DEF CaseFits, SeatsFit
<1>6. QED
  BY <1>4, <1>5

LEMMA CasesFitNext ==
  ASSUME SafetyInvariant, TypeOK', AccountsStay, CreationsFit, CasesFit,
         [DeskNext]_<<vars, deskVars>>
  PROVE  CasesFit'
<1>0. TypeOK
  BY DEF SafetyInvariant
<1>q. SUFFICES ASSUME NEW q \in Records, IsCase(q)' PROVE CaseFits(rec'[q])
  BY DEF CasesFit
<1>1. rec'[q] \in CaseRows
  BY <1>q DEF TypeOK, IsCase
<1>2. ASSUME IsCase(q), OwnedByHr(rec[q], rec'[q]), rec'[q].subject = rec[q].subject,
             SameSeats(rec[q], rec'[q]) \/ SeatsRefilled(rec[q], rec'[q])
      PROVE  CaseFits(rec'[q])
  <2>1. rec[q] \in CaseRows /\ CaseFits(rec[q])
    BY <1>0, <1>2 DEF TypeOK, IsCase, CasesFit
  <2>2. QED
    BY <1>1, <1>2, <2>1, FitStays
<1>3. CASE rec'[q] = rec[q]
  BY <1>q, <1>3 DEF CasesFit, IsCase
<1>4. CASE Staying
  BY <1>2, <1>3, <1>4 DEF Staying, SameSeats
<1>5. ASSUME NEW u \in Users, NEW r \in Records, CommitCreate(u, r)
      PROVE  CaseFits(rec'[q])
  <2>1. /\ creating[u] \in Creations /\ creating[u].row # None
        /\ rec'[r] = NewCase(creating[u]) /\ \A p \in Records \ {r} : rec'[p] = rec[p]
    BY <1>0, <1>5, NoneAssumption DEF CommitCreate, TypeOK
  <2>2. SeatsFit(creating[u]) /\ SubjectApart(creating[u])
    BY <1>5, <2>1 DEF CreationsFit, CommitCreate
  <2>3. PICK d : d = NewCase(creating[u])
    OBVIOUS
  <2>4. /\ d.sup = creating[u].sup /\ d.deputy = creating[u].deputy /\ d.ceo = creating[u].ceo
        /\ d.subject = creating[u].subject /\ d.hr = None
    BY <2>3 DEF NewCase
  <2>5. Occupants(d) = Occupants(creating[u])
    BY <2>4 DEF Occupants
  <2>6. CaseFits(d)
    BY <2>2, <2>4, <2>5 DEF CaseFits, SeatsFit, SubjectApart
  <2>7. QED
    BY <1>3, <2>1, <2>3, <2>6
<1>6. ASSUME NEW r \in Records, NEW a \in Actions, Moving(r, a)
      PROVE  CaseFits(rec'[q])
  <2>1. IsCase(r) /\ SameSeats(rec[r], rec'[r]) /\ OwnedByHr(rec[r], rec'[r]) /\ OnlyRow(r)
    BY <1>6 DEF Moving
  <2>2. QED
    BY <1>2, <1>3, <2>1 DEF OnlyRow, SameSeats
<1>7. ASSUME NEW r \in Records, NEW who, Tended(r, who)
      PROVE  CaseFits(rec'[q])
  <2>1. /\ IsCase(r) /\ OwnedByHr(rec[r], rec'[r]) /\ OnlyRow(r)
        /\ rec'[r].subject = rec[r].subject
        /\ SameSeats(rec[r], rec'[r]) \/ SeatsRefilled(rec[r], rec'[r])
    BY <1>7 DEF Tended
  <2>2. QED
    BY <1>2, <1>3, <2>1 DEF OnlyRow
<1>8. QED
  BY <1>4, <1>5, <1>6, <1>7, DeskStepKinds

LEMMA SettledHolds ==
  ASSUME AccountsAreSettled
  PROVE  DeskSpec => []Settled
<1>1. DeskInit => Settled
  <2> SUFFICES ASSUME DeskInit PROVE Settled
    OBVIOUS
  <2>1. PICK i \in Installations : access = i.access
    BY DEF DeskInit, Init
  <2>2. ChainsFit
    BY <2>1 DEF AccountsAreSettled, ChainsFit
  <2>3. QED
    BY <2>2 DEF DeskInit, Init, Settled, AccountsStay, CreationsFit, CasesFit, IsCase
<1>2. DeskInvariant /\ TypeOK' /\ Settled /\ [DeskNext]_<<vars, deskVars>> => Settled'
  <2> SUFFICES ASSUME DeskInvariant, TypeOK', Settled, [DeskNext]_<<vars, deskVars>>
               PROVE  Settled'
    OBVIOUS
  <2>1. [Next]_vars
    BY DeskStepIsStep
  <2>2. SafetyInvariant /\ TypeOK /\ StatusIsSigned
    BY DEF DeskInvariant, SafetyInvariant
  <2>3. AccountsStay' /\ ChainsFit' /\ CreationsFit'
    BY <2>1, <2>2, AccountsNext, ChainsFitNext, CreationsFitNext DEF Settled, AccountsAreSettled
  <2>4. CasesFit'
    BY <2>2, CasesFitNext DEF Settled
  <2>5. QED
    BY <2>3, <2>4 DEF Settled
<1>3. DeskInvariant => TypeOK
  BY DEF DeskInvariant, SafetyInvariant
<1>4. QED
  BY <1>1, <1>2, <1>3, DeskInvariantHolds, PTL DEF DeskSpec

\* The account a stage waits for has the case open to it, and may send it on.
LEMMA HoldersMaySendOn ==
  ASSUME AccountsAreSettled, SafetyInvariant, Settled, NEW r \in Records, IsCase(r),
         NEW u \in Users, users[u].active,
         \/ rec[r].status = "draft" /\ rec[r].sup = u
         \/ rec[r].status = "hr_approved" /\ rec[r].deputy = u
         \/ rec[r].status = "deputy_approved" /\ rec[r].ceo = u
  PROVE  MayView(u, rec[r]) /\ MaySendOn(u, rec[r])
<1> DEFINE c == rec[r]
<1>0. c \in CaseRows /\ u # None
  BY CaseType, NoneAssumption DEF SafetyInvariant
<1>1. CaseFits(c) /\ users[u].role = Roster[u].role /\ users[u].person = Roster[u].person
  BY DEF Settled, CasesFit, AccountsStay
<1>2. u \in Occupants(c) /\ Occupants(c) \subseteq Users
  BY <1>0 DEF Occupants, CaseRows, Seats
<1>3. NotOwnCase(u, c)
  BY <1>1, <1>2 DEF NotOwnCase, CaseFits, SubjectApart
<1>4. TriggerAdmits(c)
  BY <1>1, <1>2 DEF TriggerAdmits, SubjectNotSeated, CaseFits, SubjectApart, Settled, AccountsStay
<1>5. CASE c.status = "draft" /\ c.sup = u
  <2>1. MayActAt(users[u].role, "unit_supervisor")
    BY <1>0, <1>1, <1>5 DEF CaseFits, SeatsFit
  <2>2. /\ TRANSITIONS["submit"].from = {"draft"} /\ TRANSITIONS["submit"].to = "submitted"
        /\ TRANSITIONS["submit"].role = "unit_supervisor" /\ TRANSITIONS["submit"].seat = "sup"
    BY DEF TRANSITIONS, Step
  <2>3. Guard("submit", c) /\ Assigned(u, "submit", c) /\ ClosesWithResult("submit", c)
    BY <1>0, <1>5, <2>2 DEF Guard, IsManagerPath, Assigned, ClosesWithResult
  <2>4. Allowed(u, "submit", c)
    BY <1>4, <1>5, <2>1, <2>2, <2>3 DEF Allowed
  <2>5. QED
    BY <1>2, <1>3, <2>4 DEF MayView, MaySendOn, ForwardActions
<1>6. CASE c.status = "hr_approved" /\ c.deputy = u
  <2>1. MayActAt(users[u].role, "deputy")
    BY <1>0, <1>1, <1>6 DEF CaseFits, SeatsFit
  <2>2. /\ TRANSITIONS["deputy_approve"].from = {"hr_approved"}
        /\ TRANSITIONS["deputy_approve"].to = "deputy_approved"
        /\ TRANSITIONS["deputy_approve"].role = "deputy"
        /\ TRANSITIONS["deputy_approve"].seat = "deputy"
    BY DEF TRANSITIONS, Step
  <2>3. /\ Guard("deputy_approve", c) /\ Assigned(u, "deputy_approve", c)
        /\ ClosesWithResult("deputy_approve", c)
    BY <1>6, <2>2 DEF Guard, Assigned, ClosesWithResult
  <2>4. Allowed(u, "deputy_approve", c)
    BY <1>4, <1>6, <2>1, <2>2, <2>3 DEF Allowed
  <2>5. QED
    BY <1>2, <1>3, <2>4 DEF MayView, MaySendOn, ForwardActions
<1>7. CASE c.status = "deputy_approved" /\ c.ceo = u
  <2>1. MayActAt(users[u].role, "ceo")
    BY <1>1, <1>7 DEF CaseFits, SeatsFit
  <2>2. /\ TRANSITIONS["ceo_finalize"].from = {"deputy_approved", "hr_approved"}
        /\ TRANSITIONS["ceo_finalize"].role = "ceo"
        /\ TRANSITIONS["ceo_finalize"].seat = "ceo"
    BY DEF TRANSITIONS, Step
  <2>3. c.result # None /\ c.sheet # EmptySheet
    <3>1. Reviewed(c, signed[r])
      BY DEF SafetyInvariant, StatusIsSigned
    <3>2. c.result = ResultOf(c) /\ c.sheet \in CompleteSheets
      BY <1>7, <3>1 DEF Reviewed, ScoredStatuses
    <3>3. ResultOf(c) \in Results
      BY <1>0 DEF ResultOf, Results, CaseRows
    <3>4. QED
      BY <3>2, <3>3, NoneAssumption DEF AccountsAreSettled
  <2>4. /\ Guard("ceo_finalize", c) /\ Assigned(u, "ceo_finalize", c)
        /\ ClosesWithResult("ceo_finalize", c)
    BY <1>7, <2>2, <2>3 DEF Guard, Assigned, ClosesWithResult
  <2>5. Allowed(u, "ceo_finalize", c)
    BY <1>4, <1>7, <2>1, <2>2, <2>4 DEF Allowed
  <2>6. QED
    BY <1>2, <1>3, <2>5 DEF MayView, MaySendOn, ForwardActions
<1>8. QED
  BY <1>5, <1>6, <1>7

\* What the tiles of an evaluator count as work of their own, and what any tile counts.
LEMMA TilesBySeat ==
  ASSUME TypeOK, NEW u \in Users
  PROVE  /\ \A r \in OwnWork(Tiles(u)) :
              /\ r \in Records /\ IsCase(r)
              /\ \/ rec[r].status = "draft" /\ rec[r].sup = u
                 \/ rec[r].status = "hr_approved" /\ rec[r].deputy = u
                 \/ rec[r].status = "deputy_approved" /\ rec[r].ceo = u
         /\ UNION {Tiles(u)[k] : k \in DOMAIN Tiles(u)} \subseteq
              {r \in Records : IsCase(r) /\ Listed(u, rec[r])}
<1> DEFINE T == Tiles(u)
           M == Mine(u)
<1>0. users[u].role \in Roles
  BY DEF TypeOK, UserRows
<1>1. M \subseteq {r \in Records : IsCase(r)}
  BY DEF Mine
<1>2. CASE users[u].role = "unit_supervisor"
  <2>1. /\ DOMAIN T = {"drafts", "finalized", "in_review"}
        /\ T.drafts = Having(M, {"draft"}) /\ T.finalized = Having(M, {"finalized"})
        /\ T.in_review = Having(M, {"submitted", "hr_approved", "deputy_approved"})
    BY <1>2 DEF Tiles
  <2>2. \A r \in M : rec[r].sup = u
    BY <1>2 DEF Mine
  <2>3. UNION {T[k] : k \in DOMAIN T} \subseteq M
    BY <2>1 DEF Having
  <2>4. OwnWork(T) = Having(M, {"draft"})
    BY <2>1 DEF OwnWork
  <2>5. QED
    BY <1>1, <1>2, <2>2, <2>3, <2>4 DEF Having, Listed
<1>3. CASE users[u].role = "deputy"
  <2>1. /\ DOMAIN T = {"awaiting_me", "finalized", "manager_scoring"}
        /\ T.awaiting_me = Having({r \in M : rec[r].sup # None}, {"hr_approved"})
        /\ T.finalized = Having(M, {"finalized"})
        /\ T.manager_scoring = Having(M \ {r \in M : rec[r].sup # None}, {"hr_approved"})
    BY <1>3 DEF Tiles
  <2>2. \A r \in M : rec[r].deputy = u
    BY <1>3 DEF Mine
  <2>3. UNION {T[k] : k \in DOMAIN T} \subseteq M
    BY <2>1 DEF Having
  <2>4. OwnWork(T) \subseteq Having(M, {"hr_approved"})
    BY <2>1 DEF OwnWork, Having
  <2>5. QED
    BY <1>1, <1>3, <2>2, <2>3, <2>4 DEF Having, Listed
<1>4. CASE users[u].role = "ceo"
  <2>1. /\ DOMAIN T = {"awaiting_me", "finalized", "total"}
        /\ T.awaiting_me = Having(M, {"deputy_approved"})
        /\ T.finalized = Having(M, {"finalized"}) /\ T.total = M
    BY <1>4 DEF Tiles
  <2>2. \A r \in M : rec[r].ceo = u
    BY <1>4 DEF Mine
  <2>3. UNION {T[k] : k \in DOMAIN T} \subseteq M
    BY <2>1 DEF Having
  <2>4. OwnWork(T) = Having(M, {"deputy_approved"})
    BY <2>1 DEF OwnWork
  <2>5. QED
    BY <1>1, <1>4, <2>2, <2>3, <2>4 DEF Having, Listed
<1>5. CASE users[u].role = "hr"
  <2>1. /\ DOMAIN T = {"awaiting_hr", "finalized"}
        /\ T.awaiting_hr = Having(M, {"submitted"}) /\ T.finalized = Having(M, {"finalized"})
    BY <1>5 DEF Tiles
  <2>2. UNION {T[k] : k \in DOMAIN T} \subseteq M /\ OwnWork(T) = {}
    BY <2>1 DEF Having, OwnWork
  <2>3. QED
    BY <1>1, <1>5, <2>2 DEF Listed
<1>6. CASE users[u].role = "employee"
  <2>1. DOMAIN T = {"finalized"} /\ T.finalized = Having(M, {"finalized"})
    BY <1>6 DEF Tiles
  <2>2. \A r \in M : rec[r].subject = users[u].person
    BY <1>6 DEF Mine
  <2>3. UNION {T[k] : k \in DOMAIN T} \subseteq Having(M, {"finalized"}) /\ OwnWork(T) = {}
    BY <2>1 DEF OwnWork
  <2>4. QED
    BY <1>1, <1>6, <2>2, <2>3 DEF Having, Listed
<1>7. CASE users[u].role = "support"
  <2>1. T = <<>>
    BY <1>7 DEF Tiles
  <2>2. DOMAIN T = {}
    BY <2>1
  <2>3. QED
    BY <2>2 DEF OwnWork
<1>8. QED
  BY <1>0, <1>2, <1>3, <1>4, <1>5, <1>6, <1>7 DEF Roles, ChainRoles

\* The profile of a person shows one case at most.
LEMMA OneInProgress ==
  ASSUME OneOpenCasePerPerson, NEW p \in Persons
  PROVE  Cardinality(InProgress(p)) <= 1
<1> DEFINE row(r) == [case |-> r, status |-> rec[r].status, was_returned |-> r \in returned]
<1>1. InProgress(p) = {row(r) : r \in {q \in Records : IsOpen(q) /\ rec[q].subject = p}}
  BY DEF InProgress
<1>2. CASE {q \in Records : IsOpen(q) /\ rec[q].subject = p} = {}
  <2>1. InProgress(p) = {}
    BY <1>1, <1>2
  <2>2. Cardinality({}) = 0
    BY FS_EmptySet
  <2>3. QED
    BY <2>1, <2>2
<1>3. CASE \E r \in Records : IsOpen(r) /\ rec[r].subject = p
  <2>1. PICK r \in Records : IsOpen(r) /\ rec[r].subject = p
    BY <1>3
  <2>2. {q \in Records : IsOpen(q) /\ rec[q].subject = p} = {r}
    BY <2>1 DEF OneOpenCasePerPerson
  <2>3. InProgress(p) = {row(r)}
    BY <1>1, <2>2
  <2>4. Cardinality({row(r)}) = 1
    BY FS_Singleton
  <2>5. QED
    BY <2>3, <2>4
<1>4. QED
  BY <1>2, <1>3

\* Where the accounts are settled, what the home page, the list, the statistics and the
\* profile say of a case is what the handlers then do, for any number of cases and chains.
THEOREM AwaitedCasesAreHandled ==
  ASSUME AccountsAreSettled
  PROVE  DeskSpec => []AwaitedCasesCanBeHandled
<1>1. DeskInvariant /\ Settled => AwaitedCasesCanBeHandled
  <2> SUFFICES ASSUME DeskInvariant, Settled PROVE AwaitedCasesCanBeHandled
    OBVIOUS
  <2>0. SafetyInvariant /\ TypeOK /\ OneOpenCasePerPerson
    BY DEF DeskInvariant, SafetyInvariant, CreationInvariant
  <2>1. ASSUME NEW u \in Users, users[u].active
        PROVE  LET tiles == Tiles(u)
               IN /\ UNION {tiles[k] : k \in DOMAIN tiles} \subseteq Page(u, Statuses, BOOLEAN)
                  /\ \A r \in OwnWork(tiles) : MayView(u, rec[r]) /\ MaySendOn(u, rec[r])
    <3>1. {r \in Records : IsCase(r) /\ Listed(u, rec[r])} \subseteq Page(u, Statuses, BOOLEAN)
      <4>1. \A r \in Records : IsCase(r) => rec[r].status \in Statuses
        BY <2>0, CaseType DEF CaseRows
      <4>2. QED
        BY <4>1 DEF Page
    <3>2. UNION {Tiles(u)[k] : k \in DOMAIN Tiles(u)} \subseteq Page(u, Statuses, BOOLEAN)
      BY <2>0, <3>1, TilesBySeat
    <3>3. \A r \in OwnWork(Tiles(u)) : MayView(u, rec[r]) /\ MaySendOn(u, rec[r])
      BY <2>0, <2>1, TilesBySeat, HoldersMaySendOn
    <3>4. QED
      BY <3>2, <3>3
  <2>2. ASSUME NEW r \in Records, IsOpen(r),
               NEW u \in {StageOwner(rec[r], rec[r].status)} \ {None}, users[u].active
        PROVE  MayView(u, rec[r]) /\ (users[u].role # "hr" => MaySendOn(u, rec[r]))
    <3>1. IsCase(r) /\ rec[r] \in CaseRows /\ CaseFits(rec[r])
      BY <2>0, <2>2, CaseType DEF IsOpen, IsCase, Settled, CasesFit
    <3>2. u \in Users
      BY <2>2, <3>1 DEF StageOwner, CaseRows, Seats
    <3>3. CASE rec[r].status = "submitted"
      <4>1. u = rec[r].hr
        BY <2>2, <3>3 DEF StageOwner
      <4>2. users[u].role = "hr" /\ users[u].person = None
        BY <2>2, <3>1, <3>2, <4>1 DEF CaseFits, AccountsAreSettled, Settled, AccountsStay
      <4>3. QED
        BY <4>2 DEF MayView, NotOwnCase
    <3>4. CASE rec[r].status # "submitted"
      <4>1. \/ rec[r].status = "draft" /\ rec[r].sup = u
            \/ rec[r].status = "hr_approved" /\ rec[r].deputy = u
            \/ rec[r].status = "deputy_approved" /\ rec[r].ceo = u
        BY <2>2, <3>4 DEF StageOwner, IsOpen, OpenStatuses
      <4>2. QED
        BY <2>0, <2>2, <3>1, <3>2, <4>1, HoldersMaySendOn
    <3>5. QED
      BY <3>3, <3>4
  <2>3. \A p \in Persons : Cardinality(InProgress(p)) <= 1
    BY <2>0, OneInProgress
  <2>4. QED
    BY <2>1, <2>2, <2>3 DEF AwaitedCasesCanBeHandled
<1>2. QED
  BY <1>1, DeskInvariantHolds, SettledHolds, PTL

===============================================================================

-------------------------- MODULE EvaluationWorkflow --------------------------
(***************************************************************************)
(* The evaluation case: services/workflow.py (the transition table and     *)
(* apply_transition), the handlers of api/routers/evaluations.py that move *)
(* a case or write to it, and the handlers of personnel.py, users.py,      *)
(* periods.py and evaluation_access.py whose writes those handlers read.   *)
(*                                                                         *)
(* Granularity.  A handler that reads its case with SELECT ... FOR UPDATE  *)
(* keeps the row locked until it commits, so it is one action.  Every      *)
(* handler also takes the lock of the audit chain in log_event, holds it   *)
(* until it commits, and flushes its writes under it (autoflush is off):   *)
(* what a handler writes there, and what the triggers check there, is one  *)
(* action too.  The departure of an employee reads the open case after     *)
(* that point.  Creating a case does not: it reads the chain, flushes its  *)
(* INSERT and only then takes the lock, so it is three actions, and what   *)
(* it has read and inserted without committing is kept in creating.        *)
(*                                                                         *)
(* Data.  A score sheet is a member of Sheets; a result is the sheet and   *)
(* the bonus it was computed from.  The users' sessions, the notifications *)
(* and the comments are left out.                                          *)
(***************************************************************************)
EXTENDS Integers, FiniteSets

CONSTANTS
  Users,           \* rows of users
  Admins,          \* accounts holding manage_users and manage_personnel, throughout
  Roster,          \* the accounts as they are when the run begins
  Installations,   \* personnel and chains a run may begin with
  Persons,         \* rows of personnel
  Records,         \* ids available to evaluation_records
  Sheets,          \* what the table evaluation_scores may hold for one case
  CompleteSheets,  \* the sheets finalize_scoring accepts
  EmptySheet,      \* no row at all
  Bonuses,         \* special scores validate_bonus accepts
  NoBonus,
  Chains,          \* chains HR may enter in evaluation_access during a run
  ManagerFlags,    \* values HR may enter in is_manager during a run
  Leavers,         \* persons who may leave the organisation during a run
  AssignableRoles, \* roles an administrator may give during a run; hr is not among
                   \* them, it comes with capabilities
  Editable,        \* accounts an administrator may edit during a run
  LastDay,         \* bound on the calendar
  PeriodEnds,      \* days HR may enter as the end of a period
  Extensions,      \* days HR may enter as an extension
  None

ChainRoles == {"unit_supervisor", "deputy", "ceo"}
Roles == ChainRoles \cup {"hr", "employee", "support"}
Days == 0 .. LastDay
Seats == Users \cup {None}
UserRows == [role : Roles, active : BOOLEAN, person : Persons \cup {None}]
ChainRows == [sup : Seats, deputy : Seats, ceo : Users]

PersonnelRows == [active : BOOLEAN, manager : BOOLEAN]
Directories ==
  [personnel : [Persons -> PersonnelRows], access : [Persons -> ChainRows \cup {None}]]

ASSUME ConstantsAssumption ==
  /\ Admins \subseteq Users
  /\ Roster \in [Users -> UserRows]
  /\ CompleteSheets \subseteq Sheets
  /\ EmptySheet \in Sheets
  /\ NoBonus \in Bonuses
  /\ Installations \subseteq Directories
  /\ Chains \subseteq ChainRows
  /\ ManagerFlags \subseteq BOOLEAN
  /\ Leavers \subseteq Persons
  /\ Editable \subseteq Users
  /\ AssignableRoles \subseteq Roles \ {"hr"}
  /\ LastDay \in Nat
  /\ PeriodEnds \subseteq Days
  /\ Extensions \subseteq Days


OpenStatuses == {"draft", "submitted", "hr_approved", "deputy_approved"}
Statuses == OpenStatuses \cup {"finalized", "cancelled"}

Results == [sheet : Sheets, bonus : Bonuses]
Signatures == [by : Users, result : Results]
Documents == [evaluator : Seats, singleDecider : BOOLEAN, result : Results]

CaseRows ==
  [subject : Persons, status : Statuses, sup : Seats, deputy : Seats, ceo : Users,
   hr : Seats, period : BOOLEAN, extension : Extensions \cup {None},
   sheet : Sheets, bonus : Bonuses, result : Results \cup {None},
   document : Documents \cup {None}]

Periods == [open : BOOLEAN, ends : PeriodEnds]

Creations ==
  [subject : Persons, sup : Seats, deputy : Seats, ceo : Users, period : BOOLEAN,
   row : Records \cup {None}]

ASSUME NoneAssumption ==
  /\ None \notin Users \cup Records \cup Persons \cup Days
  /\ None \notin ChainRows
  /\ None \notin CaseRows
  /\ None \notin Results
  /\ None \notin Signatures
  /\ None \notin Documents
  /\ None \notin Periods
  /\ None \notin Creations

VARIABLES
  users,      \* users[u]     : role, is_active, linked personnel row
  personnel,  \* personnel[p] : status = active, is_manager
  access,     \* access[p]    : the chain HR entered, or None
  period,     \* the evaluation period, or None: open or closed, ends_on
  today,      \* date.today()
  rec,        \* rec[r]       : the row of evaluation_records, or None
  signed,     \* signed[r]    : who last submitted, approved and closed the case,
              \*                and on what result (its rows in audit_log)
  creating    \* creating[u] : what u's request to open a case has read, and the
              \*               row it has inserted but not committed

caseVars == <<rec, signed>>
vars == <<users, personnel, access, period, today, rec, signed, creating>>

-------------------------------------------------------------------------------
(* Chains and the paths a case can take *)

\* is_manager_path: nobody in the supervisor's seat, the deputy scores.
IsManagerPath(c) == c.sup = None

\* is_direct_ceo_path: the CEO scores and HR closes.
IsDirectCeoPath(c) == c.sup = None /\ c.deputy = None

\* The seat whose holder scores the case (_is_the_scorer, build_final_snapshot).
ScorerSeat(c) ==
  IF IsDirectCeoPath(c) THEN "ceo" ELSE IF IsManagerPath(c) THEN "deputy" ELSE "sup"

SeatRole == [sup |-> "unit_supervisor", deputy |-> "deputy", ceo |-> "ceo"]

ChainRank == [unit_supervisor |-> 1, deputy |-> 2, ceo |-> 3]

\* may_act_at: a superior may sit in a lower seat; nobody stands in for HR.
MayActAt(role, stage) ==
  \/ stage = "hr" /\ role = "hr"
  \/ stage \in ChainRoles /\ role \in ChainRoles /\ ChainRank[role] >= ChainRank[stage]

Occupants(c) == {c.sup, c.deputy, c.ceo} \ {None}

\* ensure_chain_stages_are_not_redundant, and the CHECKs of the migrated tables: the
\* supervisor may be the CEO (the models declare a third CHECK no migration creates).
NotRedundant(c) ==
  /\ c.sup = None \/ c.sup # c.deputy
  /\ c.deputy = None \/ c.deputy # c.ceo

\* ensure_evaluators_are_not_the_subject, and the triggers of the database.
SubjectNotSeated(c, p) == \A u \in Occupants(c) : users[u].person # p

\* The trigger on evaluation_records: no UPDATE of a case whose subject sits in it.
TriggerAdmits(c) == SubjectNotSeated(c, c.subject)

\* What upsert_access and reassign_stage_owner ask of the seats they write.
\* Mutant: the redundancy check is forgotten.
AdmissibleIfOthers(c, p) == SubjectNotSeated(c, p)

Admissible(c, p) == SubjectNotSeated(c, p) /\ NotRedundant(c)

\* ensure_not_deciding_about_oneself
NotOwnCase(u, c) == users[u].person = None \/ users[u].person # c.subject

\* The directory a run begins with obeys what upsert_access and the database ask of it.
ASSUME InstallationAssumption ==
  \A i \in Installations : \A p \in Persons :
    i.access[p] # None =>
      /\ NotRedundant(i.access[p])
      /\ \A u \in Occupants(i.access[p]) : Roster[u].person # p

-------------------------------------------------------------------------------
(* The transition table *)

Step(from, to, role, seat, claimable) ==
  [from |-> from, to |-> to, role |-> role, seat |-> seat, claimable |-> claimable]

TRANSITIONS == [
  submit             |-> Step({"draft"}, "submitted", "unit_supervisor", "sup", FALSE),
  manager_submit     |-> Step({"draft"}, "submitted", "deputy", "deputy", FALSE),
  direct_ceo_submit  |-> Step({"draft"}, "submitted", "ceo", "ceo", FALSE),
  hr_approve         |-> Step({"submitted"}, "hr_approved", "hr", "hr", TRUE),
  hr_finalize_direct_ceo |-> Step({"submitted"}, "finalized", "hr", "hr", TRUE),
  hr_approve_manager |-> Step({"submitted"}, "deputy_approved", "hr", "hr", TRUE),
  deputy_approve     |-> Step({"hr_approved"}, "deputy_approved", "deputy", "deputy", FALSE),
  ceo_finalize       |-> Step({"deputy_approved", "hr_approved"}, "finalized", "ceo", "ceo", FALSE),
  hr_return          |-> Step({"submitted"}, "draft", "hr", "hr", TRUE),
  deputy_return      |-> Step({"hr_approved"}, "submitted", "deputy", "deputy", FALSE),
  ceo_return         |-> Step({"deputy_approved"}, "hr_approved", "ceo", "ceo", FALSE),
  ceo_return_manager |-> Step({"deputy_approved"}, "submitted", "ceo", "ceo", FALSE),
  cancel             |-> Step(OpenStatuses, "cancelled", "hr", "nobody", FALSE)]

\* Mutant: the CEO may finalize before the deputy approves.
GuardSkippingDeputy(a, c) ==
  /\ a \in {"submit", "hr_approve", "ceo_return"} => ~IsManagerPath(c)
  /\ a \in {"manager_submit", "hr_approve_manager", "ceo_return_manager"} => IsManagerPath(c)
  /\ a \in {"direct_ceo_submit", "hr_finalize_direct_ceo"} => IsDirectCeoPath(c)

\* Mutant: the CEO may finalize only after a deputy.
GuardWaitingForDeputy(a, c) ==
  GuardSkippingDeputy(a, c) /\ (a = "ceo_finalize" => c.status # "hr_approved")

\* The guard column of the table.
Guard(a, c) ==
  /\ a \in {"submit", "hr_approve", "ceo_return"} => ~IsManagerPath(c)
  /\ a \in {"manager_submit", "hr_approve_manager", "ceo_return_manager"} => IsManagerPath(c)
  /\ a \in {"direct_ceo_submit", "hr_finalize_direct_ceo"} => IsDirectCeoPath(c)
  /\ a = "ceo_finalize" => c.status # "hr_approved" \/ c.deputy = None

\* The assignee column: the seat's holder, or anybody while HR has no owner.
Assigned(u, a, c) ==
  LET t == TRANSITIONS[a]
  IN \/ t.seat = "nobody"
     \/ t.seat = "sup" /\ c.sup = u
     \/ t.seat = "deputy" /\ c.deputy = u
     \/ t.seat = "ceo" /\ c.ceo = u
     \/ t.seat = "hr" /\ (c.hr = u \/ (c.hr = None /\ t.claimable))

\* A case closes only with a computed result and stored scores.
ClosesWithResult(a, c) ==
  TRANSITIONS[a].to = "finalized" => c.result # None /\ c.sheet # EmptySheet

\* Mutant: the status a case comes from is not compared with the table.
AllowedFromAnywhere(u, a, c) ==
  /\ MayActAt(users[u].role, TRANSITIONS[a].role)
  /\ Guard(a, c)
  /\ Assigned(u, a, c)
  /\ ClosesWithResult(a, c)
  /\ TriggerAdmits(c)

\* ensure_transition_allowed, the checks at the head of apply_transition and the
\* trigger that its UPDATE fires.
Allowed(u, a, c) ==
  /\ c.status \in TRANSITIONS[a].from
  /\ MayActAt(users[u].role, TRANSITIONS[a].role)
  /\ Guard(a, c)
  /\ Assigned(u, a, c)
  /\ ClosesWithResult(a, c)
  /\ TriggerAdmits(c)

\* What apply_transition writes: the status, and the implicit claim by HR.
Moved(u, a, c) ==
  [c EXCEPT !.status = TRANSITIONS[a].to,
            !.hr = IF TRANSITIONS[a].claimable /\ @ = None THEN u ELSE @]

\* What compute_result is given: the stored sheet and the bonus.
ResultOf(c) == [sheet |-> c.sheet, bonus |-> c.bonus]

\* build_final_snapshot: the evaluator is read from the seat, not from the log.
FinalSnapshot(c) ==
  [evaluator |-> c[ScorerSeat(c)],
   singleDecider |-> c.sup # None /\ c.sup = c.ceo,
   result |-> c.result]

-------------------------------------------------------------------------------
(* The submission window *)

\* window_for: an extension counts when it is later than the period's end, or
\* when the case has no period.  None: no deadline.
ClosesOn(c) ==
  LET ends == IF c.period THEN period.ends ELSE None
  IN IF c.extension # None /\ (ends = None \/ c.extension > ends)
     THEN c.extension ELSE ends

WindowOpen(c) == ClosesOn(c) # None => today <= ClosesOn(c)

-------------------------------------------------------------------------------
(* State *)

SignatureRows ==
  [scoring : Signatures \cup {None}, hr : Signatures \cup {None},
   deputy : Signatures \cup {None}, closing : Signatures \cup {None}]

NobodySigned == [scoring |-> None, hr |-> None, deputy |-> None, closing |-> None]

IsCase(r) == rec[r] # None

\* Mutant: a finalized case counts as open.
IsOpenOrClosed(r) == IsCase(r) /\ rec[r].status # "cancelled"

IsOpen(r) == IsCase(r) /\ rec[r].status \in OpenStatuses

\* IS_OPEN_RECORD, as create_evaluation and update_personnel ask for it.
HasOpenCase(p) == \E r \in Records : IsOpen(r) /\ rec[r].subject = p

\* An installation before its first case.
Init ==
  /\ users = Roster
  /\ \E i \in Installations : personnel = i.personnel /\ access = i.access
  /\ period = None
  /\ today = 0
  /\ rec = [r \in Records |-> None]
  /\ signed = [r \in Records |-> NobodySigned]
  /\ creating = [u \in Users |-> None]

others == <<users, personnel, access, period, today, creating>>

-------------------------------------------------------------------------------
(* Opening a case *)

\* inactive_seat_labels
SeatsActive(c) == \A u \in Occupants(c) : users[u].active

\* The seats a new case gets: a manager's case has no supervisor.
ChainFor(p) ==
  IF personnel[p].manager THEN [access[p] EXCEPT !.sup = None] ELSE access[p]

\* What both ways of opening a case ask of the person and the chain.
MayOpenCase(p) ==
  /\ personnel[p].active
  /\ access[p] # None
  /\ SeatsActive(access[p])
  /\ ~HasOpenCase(p)

\* What a request to open a case has read when it is about to insert.
Reads(p) ==
  LET chain == ChainFor(p)
  IN [subject |-> p, sup |-> chain.sup, deputy |-> chain.deputy, ceo |-> chain.ceo,
      period |-> period # None /\ period.open, row |-> None]

\* create_evaluation up to the lookup of an open case: the scorer opens the case.
\* A person whose chain names a deputy but no supervisor is refused unless marked
\* as a manager.
BeginCreate(u, p) ==
  /\ users[u].active
  /\ MayActAt(users[u].role, "unit_supervisor")
  /\ creating[u] = None
  /\ MayOpenCase(p)
  /\ ~IsDirectCeoPath(access[p]) =>
       IF personnel[p].manager THEN access[p].deputy # None ELSE access[p].sup # None
  /\ LET chain == ChainFor(p)
         seat == ScorerSeat(chain)
     IN chain[seat] = u /\ MayActAt(users[u].role, SeatRole[seat])
  /\ creating' = [creating EXCEPT ![u] = Reads(p)]
  /\ UNCHANGED <<caseVars, users, personnel, access, period, today>>

\* bulk_evaluation.plan: HR opens the case.  A manager without a deputy is not
\* refused here.  One person of the cohort; a run of the code holds a row for each.
BeginBulkCreate(u, p) ==
  /\ users[u].active
  /\ users[u].role = "hr"
  /\ creating[u] = None
  /\ MayOpenCase(p)
  /\ personnel[p].manager \/ access[p].sup # None \/ IsDirectCeoPath(access[p])
  /\ creating' = [creating EXCEPT ![u] = Reads(p)]
  /\ UNCHANGED <<caseVars, users, personnel, access, period, today>>

Inserted(u) == creating[u] # None /\ creating[u].row # None

\* Mutant: no index, only the lookup made by BeginCreate.
NoIndex(p) == TRUE

\* uq_open_evaluation_per_personnel: the partial unique index.  It waits for an
\* uncommitted row with the same key.
OpenCaseIndexAdmits(p) ==
  /\ \A r \in Records : ~(IsCase(r) /\ rec[r].subject = p
                          /\ rec[r].status \notin {"finalized", "cancelled"})
  /\ \A v \in Users : Inserted(v) => creating[v].subject # p

\* The INSERT: the index and the trigger against self-evaluation see what other
\* requests have committed since the chain was read.
InsertCase(u, r) ==
  /\ creating[u] # None
  /\ creating[u].row = None
  /\ ~IsCase(r)
  /\ \A v \in Users : Inserted(v) => creating[v].row # r
  /\ OpenCaseIndexAdmits(creating[u].subject)
  /\ SubjectNotSeated(creating[u], creating[u].subject)
  /\ creating' = [creating EXCEPT ![u].row = r]
  /\ UNCHANGED <<caseVars, users, personnel, access, period, today>>

NewCase(k) ==
  [subject |-> k.subject, status |-> "draft", sup |-> k.sup, deputy |-> k.deputy,
   ceo |-> k.ceo, hr |-> None, period |-> k.period, extension |-> None,
   sheet |-> EmptySheet, bonus |-> NoBonus, result |-> None, document |-> None]

\* log_event and the commit: the row is there for everybody.
CommitCreate(u, r) ==
  /\ creating[u] # None
  /\ creating[u].row = r
  /\ rec' = [rec EXCEPT ![r] = NewCase(creating[u])]
  /\ signed' = [signed EXCEPT ![r] = NobodySigned]
  /\ creating' = [creating EXCEPT ![u] = None]
  /\ UNCHANGED <<users, personnel, access, period, today>>

\* The INSERT fails (IntegrityError, trigger) or the request dies: rollback.
RollbackCreate(u) ==
  /\ creating[u] # None
  /\ creating' = [creating EXCEPT ![u] = None]
  /\ UNCHANGED <<caseVars, users, personnel, access, period, today>>

-------------------------------------------------------------------------------
(* Scoring *)

\* Mutant: the scorer may write in any status.
IsTheScorerAnytime(u, c) ==
  /\ c[ScorerSeat(c)] = u
  /\ MayActAt(users[u].role, SeatRole[ScorerSeat(c)])

\* _is_the_scorer
IsTheScorer(u, c) ==
  /\ c.status = "draft"
  /\ c[ScorerSeat(c)] = u
  /\ MayActAt(users[u].role, SeatRole[ScorerSeat(c)])

\* Mutant: the deadline is not looked at.
MayEnterLate(u, r) ==
  /\ users[u].active
  /\ IsCase(r)
  /\ IsTheScorer(u, rec[r])

\* What the three handlers that write to a draft check.
MayEnter(u, r) ==
  /\ users[u].active
  /\ IsCase(r)
  /\ WindowOpen(rec[r])
  /\ IsTheScorer(u, rec[r])

\* upsert_scores replaces every row; an incomplete sheet may be saved.
UpsertScores(u, r, sheet) ==
  /\ MayEnter(u, r)
  /\ rec' = [rec EXCEPT ![r].sheet = sheet]
  /\ UNCHANGED <<signed, others>>

\* set_special_score
SetSpecialScore(u, r, bonus) ==
  /\ MayEnter(u, r)
  /\ TriggerAdmits(rec[r])
  /\ rec' = [rec EXCEPT ![r].bonus = bonus]
  /\ UNCHANGED <<signed, others>>

SubmitAction(c) ==
  IF IsDirectCeoPath(c) THEN "direct_ceo_submit"
  ELSE IF IsManagerPath(c) THEN "manager_submit" ELSE "submit"

\* submit_evaluation: finalize_scoring computes the result of the stored sheet.
Submit(u, r) ==
  LET c == rec[r]
      a == SubmitAction(c)
  IN /\ users[u].active
     /\ MayActAt(users[u].role, "unit_supervisor")
     /\ IsCase(r)
     /\ WindowOpen(c)
     /\ Allowed(u, a, c)
     /\ c.sheet \in CompleteSheets
     /\ rec' = [rec EXCEPT ![r] = [Moved(u, a, c) EXCEPT !.result = ResultOf(c)]]
     /\ signed' = [signed EXCEPT ![r].scoring = [by |-> u, result |-> ResultOf(c)]]
     /\ UNCHANGED others

-------------------------------------------------------------------------------
(* Review *)

HrApproveAction(c) ==
  IF IsDirectCeoPath(c) THEN "hr_finalize_direct_ceo"
  ELSE IF IsManagerPath(c) THEN "hr_approve_manager" ELSE "hr_approve"

\* hr_approve; on the direct CEO path it also closes the case.
HrApprove(u, r) ==
  LET c == rec[r]
      a == HrApproveAction(c)
  IN /\ users[u].active
     /\ users[u].role = "hr"
     /\ IsCase(r)
     /\ NotOwnCase(u, c)
     /\ Allowed(u, a, c)
     /\ rec' = [rec EXCEPT ![r] =
                  IF IsDirectCeoPath(c)
                  THEN [Moved(u, a, c) EXCEPT !.document = FinalSnapshot(c)]
                  ELSE Moved(u, a, c)]
     /\ signed' = [signed EXCEPT
          ![r].hr = [by |-> u, result |-> c.result],
          ![r].closing = IF IsDirectCeoPath(c) THEN [by |-> u, result |-> c.result] ELSE @]
     /\ UNCHANGED others

\* deputy_approve
DeputyApprove(u, r) ==
  /\ users[u].active
  /\ IsCase(r)
  /\ Allowed(u, "deputy_approve", rec[r])
  /\ rec' = [rec EXCEPT ![r] = Moved(u, "deputy_approve", rec[r])]
  /\ signed' = [signed EXCEPT ![r].deputy = [by |-> u, result |-> rec[r].result]]
  /\ UNCHANGED others

\* ceo_finalize
CeoFinalize(u, r) ==
  LET c == rec[r]
  IN /\ users[u].active
     /\ IsCase(r)
     /\ Allowed(u, "ceo_finalize", c)
     /\ rec' = [rec EXCEPT ![r] =
                  [Moved(u, "ceo_finalize", c) EXCEPT !.document = FinalSnapshot(c)]]
     /\ signed' = [signed EXCEPT ![r].closing = [by |-> u, result |-> c.result]]
     /\ UNCHANGED others

\* return_evaluation picks the action by the caller's role, not by the seat.
ReturnAction(role, c) ==
  CASE role = "hr"     -> "hr_return"
    [] role = "deputy" -> "deputy_return"
    [] role = "ceo"    -> IF IsManagerPath(c) THEN "ceo_return_manager" ELSE "ceo_return"

\* return_evaluation keeps scores, bonus and the computed result.
Return(u, r) ==
  /\ users[u].active
  /\ users[u].role \in {"hr", "deputy", "ceo"}
  /\ IsCase(r)
  /\ users[u].role = "deputy" => ~IsManagerPath(rec[r])
  /\ LET a == ReturnAction(users[u].role, rec[r])
     IN /\ Allowed(u, a, rec[r])
        /\ rec' = [rec EXCEPT ![r] = Moved(u, a, rec[r])]
  /\ UNCHANGED <<signed, others>>

\* cancel_evaluation
Cancel(u, r) ==
  /\ users[u].active
  /\ users[u].role = "hr"
  /\ IsCase(r)
  /\ NotOwnCase(u, rec[r])
  /\ Allowed(u, "cancel", rec[r])
  /\ rec' = [rec EXCEPT ![r] = Moved(u, "cancel", rec[r])]
  /\ UNCHANGED <<signed, others>>

-------------------------------------------------------------------------------
(* Custody of a case: owner, seats, deadline *)

\* hr_claim
HrClaim(u, r) ==
  /\ users[u].active
  /\ users[u].role = "hr"
  /\ IsOpen(r)
  /\ NotOwnCase(u, rec[r])
  /\ rec[r].hr = None
  /\ TriggerAdmits(rec[r])
  /\ rec' = [rec EXCEPT ![r].hr = u]
  /\ UNCHANGED <<signed, others>>

\* hr_handover: any HR account may hand any open case to another one.
HrHandover(u, r, owner) ==
  /\ users[u].active
  /\ users[u].role = "hr"
  /\ IsOpen(r)
  /\ NotOwnCase(u, rec[r])
  /\ users[owner].active
  /\ users[owner].role = "hr"
  /\ owner # rec[r].hr
  /\ NotOwnCase(owner, rec[r])
  /\ TriggerAdmits(rec[r])
  /\ rec' = [rec EXCEPT ![r].hr = owner]
  /\ UNCHANGED <<signed, others>>

\* The case with another holder in one of its occupied seats.
Reseated(c, seat, u) ==
  CASE seat = "sup"    -> [c EXCEPT !.sup = u]
    [] seat = "deputy" -> [c EXCEPT !.deputy = u]
    [] seat = "ceo"    -> [c EXCEPT !.ceo = u]

\* reassign_stage_owner asks for the exact role, and does not ask whether the
\* caller is the subject; the redundancy check looks at the seats as they are now.
Reassign(u, r, seat, holder) ==
  /\ users[u].active
  /\ users[u].role = "hr"
  /\ IsOpen(r)
  /\ rec[r][seat] # None
  /\ users[holder].active
  /\ users[holder].role = SeatRole[seat]
  /\ users[holder].person # rec[r].subject
  /\ LET c == Reseated(rec[r], seat, holder)
     IN /\ Admissible(c, c.subject)
        /\ rec' = [rec EXCEPT ![r] = c]
  /\ UNCHANGED <<signed, others>>

\* extend_submission_window overwrites an earlier extension.
Extend(u, r, until) ==
  /\ users[u].active
  /\ users[u].role = "hr"
  /\ IsCase(r)
  /\ NotOwnCase(u, rec[r])
  /\ rec[r].status = "draft"
  /\ TriggerAdmits(rec[r])
  /\ rec' = [rec EXCEPT ![r].extension = until]
  /\ UNCHANGED <<signed, others>>

-------------------------------------------------------------------------------
(* What HR and the administrators change around the cases *)

\* require_role_or_capability(hr, manage_personnel)
MayManagePersonnel(u) == users[u].active /\ (users[u].role = "hr" \/ u \in Admins)

\* The chain a call of upsert_access may write; one that is stored already is a stutter.
ChainOffered(a, p, chain) ==
  /\ MayManagePersonnel(a)
  /\ chain # access[p]
  /\ SeatsActive(chain)
  /\ \A seat \in {"sup", "deputy", "ceo"} :
        chain[seat] # None => MayActAt(users[chain[seat]].role, SeatRole[seat])
  /\ Admissible(chain, p)

\* upsert_access
UpsertAccess(a, p, chain) ==
  /\ ChainOffered(a, p, chain)
  /\ personnel[p].manager => chain.sup = None
  /\ access' = [access EXCEPT ![p] = chain]
  /\ UNCHANGED <<caseVars, users, personnel, period, today, creating>>

\* upsert_access has read is_manager before it took the audit lock, and the flag was
\* set, with the supervisor cleared, in between: it writes the seats that differ from
\* the chain it has read.
OvertakenUpsert(a, p, chain) ==
  /\ ChainOffered(a, p, chain)
  /\ ~personnel[p].manager /\ TRUE \in ManagerFlags
  /\ ~HasOpenCase(p)
  /\ chain.sup # None
  /\ access[p] # None => chain.sup # access[p].sup
  /\ personnel' = [personnel EXCEPT ![p].manager = TRUE]
  /\ access' = [access EXCEPT ![p] = chain]
  /\ UNCHANGED <<caseVars, users, period, today, creating>>

\* What every update_personnel ends with: a manager's chain has no supervisor.
SupervisorCleared(p) ==
  IF personnel'[p].manager /\ access[p] # None
  THEN [access EXCEPT ![p].sup = None] ELSE access

\* update_personnel, field is_manager: refused while a case of the person is open.
SetManager(a, p, b) ==
  /\ MayManagePersonnel(a)
  /\ personnel[p].manager # b
  /\ ~HasOpenCase(p)
  /\ personnel' = [personnel EXCEPT ![p].manager = b]
  /\ access' = SupervisorCleared(p)
  /\ UNCHANGED <<caseVars, users, period, today, creating>>

\* update_personnel with none of the fields above still clears the supervisor.
EditPersonnel(a, p) ==
  /\ MayManagePersonnel(a)
  /\ access[p] # None /\ personnel[p].manager /\ access[p].sup # None
  /\ personnel' = personnel
  /\ access' = SupervisorCleared(p)
  /\ UNCHANGED <<caseVars, users, period, today, creating>>

\* update_personnel, status inactive: the person and one of the accounts linked to
\* them leave, and the open case that the handler finds is cancelled.  Who may not
\* cancel that case (any account but HR's) may not record the departure either.
Depart(a, p) ==
  LET open == {r \in Records : IsOpen(r) /\ rec[r].subject = p}
      linked == {u \in Users : users[u].person = p}
  IN /\ MayManagePersonnel(a)
     /\ personnel[p].active
     /\ \/ open = {} /\ rec' = rec
        \/ \E r \in open :
             /\ Allowed(a, "cancel", rec[r])
             /\ rec' = [rec EXCEPT ![r] = Moved(a, "cancel", rec[r])]
     /\ personnel' = [personnel EXCEPT ![p].active = FALSE]
     /\ \/ linked = {} /\ users' = users
        \/ \E u \in linked : users' = [users EXCEPT ![u].active = FALSE]
     /\ access' = SupervisorCleared(p)
     /\ UNCHANGED <<signed, period, today, creating>>

\* update_personnel, status back to active.
Rejoin(a, p) ==
  /\ MayManagePersonnel(a)
  /\ ~personnel[p].active
  /\ personnel' = [personnel EXCEPT ![p].active = TRUE]
  /\ access' = SupervisorCleared(p)
  /\ UNCHANGED <<caseVars, users, period, today, creating>>

MayManageUsers(a) == users[a].active /\ a \in Admins

\* update_user, field is_active: nobody deactivates their own account.
SetActive(a, u, b) ==
  /\ MayManageUsers(a)
  /\ users[u].active # b
  /\ a = u => b
  /\ users' = [users EXCEPT ![u].active = b]
  /\ UNCHANGED <<caseVars, personnel, access, period, today, creating>>

\* update_user, field role: seats and cases of the account are not looked at.
SetRole(a, u, role) ==
  /\ MayManageUsers(a)
  /\ a # u
  /\ users[u].role # role
  /\ role = "employee" => users[u].person # None
  /\ users' = [users EXCEPT ![u].role = role]
  /\ UNCHANGED <<caseVars, personnel, access, period, today, creating>>

\* Mutant: the link is compared with the cases only.
EvaluatesInACase(u, p) ==
  \E r \in Records : IsCase(r) /\ rec[r].subject = p /\ u \in Occupants(rec[r])

\* ensure_user_link_is_not_self_evaluation, and its trigger.  Owning a case as
\* its HR user is no obstacle.
EvaluatesPerson(u, p) ==
  \/ access[p] # None /\ u \in Occupants(access[p])
  \/ \E r \in Records : IsCase(r) /\ rec[r].subject = p /\ u \in Occupants(rec[r])

\* update_user, field personnel_id.
LinkPerson(a, u, p) ==
  /\ MayManageUsers(a)
  /\ users[u].person # p
  /\ p # None => ~EvaluatesPerson(u, p)
  /\ users[u].role = "employee" => p # None
  /\ users' = [users EXCEPT ![u].person = p]
  /\ UNCHANGED <<caseVars, personnel, access, period, today, creating>>

-------------------------------------------------------------------------------
(* The period and the calendar *)

HrActive(u) == users[u].active /\ users[u].role = "hr"

\* create_period; one period in a run.
OpenPeriod(u, d) ==
  /\ HrActive(u)
  /\ period = None
  /\ period' = [open |-> TRUE, ends |-> d]
  /\ UNCHANGED <<caseVars, users, personnel, access, today, creating>>

\* update_period, field ends_on: allowed for a closed period too.
MovePeriodEnd(u, d) ==
  /\ HrActive(u)
  /\ period # None
  /\ period.ends # d
  /\ period' = [period EXCEPT !.ends = d]
  /\ UNCHANGED <<caseVars, users, personnel, access, today, creating>>

\* close_period, with force when cases are open: no deadline moves.
ClosePeriod(u, d) ==
  /\ HrActive(u)
  /\ period # None /\ period.open /\ period.ends = d
  /\ period' = [period EXCEPT !.open = FALSE]
  /\ UNCHANGED <<caseVars, users, personnel, access, today, creating>>

NextDay ==
  /\ today < LastDay
  /\ today' = today + 1
  /\ UNCHANGED <<caseVars, users, personnel, access, period, creating>>

-------------------------------------------------------------------------------
CaseStep(u, r) ==
  \/ InsertCase(u, r)
  \/ CommitCreate(u, r)
  \/ \E sheet \in Sheets : UpsertScores(u, r, sheet)
  \/ \E bonus \in Bonuses : SetSpecialScore(u, r, bonus)
  \/ Submit(u, r)
  \/ HrApprove(u, r)
  \/ DeputyApprove(u, r)
  \/ CeoFinalize(u, r)
  \/ Return(u, r)
  \/ Cancel(u, r)
  \/ HrClaim(u, r)
  \/ \E v \in Users : HrHandover(u, r, v)
  \/ \E seat \in {"sup", "deputy", "ceo"}, v \in Users : Reassign(u, r, seat, v)
  \/ \E until \in Extensions : Extend(u, r, until)

PersonStep(u, p) ==
  \/ BeginCreate(u, p)
  \/ BeginBulkCreate(u, p)
  \/ \E chain \in Chains : UpsertAccess(u, p, chain) \/ OvertakenUpsert(u, p, chain)
  \/ \E b \in ManagerFlags : SetManager(u, p, b)
  \/ p \in Leavers /\ Depart(u, p)
  \/ Rejoin(u, p)
  \/ EditPersonnel(u, p)

AccountStep(u) ==
  \/ RollbackCreate(u)
  \/ \E v \in Editable, b \in BOOLEAN : SetActive(u, v, b)
  \/ \E v \in Editable, role \in AssignableRoles : SetRole(u, v, role)
  \/ \E v \in Editable, p \in Persons \cup {None} : LinkPerson(u, v, p)

PeriodStep(u) ==
  \E d \in PeriodEnds : OpenPeriod(u, d) \/ MovePeriodEnd(u, d) \/ ClosePeriod(u, d)

Next ==
  \/ \E u \in Users, r \in Records : CaseStep(u, r)
  \/ \E u \in Users, p \in Persons : PersonStep(u, p)
  \/ \E u \in Users : AccountStep(u) \/ PeriodStep(u)
  \/ NextDay

Spec == Init /\ [][Next]_vars

-------------------------------------------------------------------------------
(* Properties *)

TypeOK ==
  /\ users \in [Users -> UserRows]
  /\ personnel \in [Persons -> PersonnelRows]
  /\ access \in [Persons -> ChainRows \cup {None}]
  /\ period \in Periods \cup {None}
  /\ today \in Days
  /\ rec \in [Records -> CaseRows \cup {None}]
  /\ signed \in [Records -> SignatureRows]
  /\ creating \in [Users -> Creations \cup {None}]

ScoredStatuses == {"submitted", "hr_approved", "deputy_approved", "finalized"}

\* The percentages stored on a case that has left draft are those of the scores
\* and the bonus stored with it: no interleaving of the autosave, submit, return
\* and resubmit leaves a result that does not belong to the scores.
ResultMatchesScores ==
  \A r \in Records :
    IsCase(r) /\ rec[r].status \in ScoredStatuses =>
      rec[r].result = ResultOf(rec[r]) /\ rec[r].sheet \in CompleteSheets

SignedOn(s, result) == s # None /\ s.result = result

\* Whatever returns and resubmissions it went through, a finalized case was
\* scored, approved by HR and, if a deputy stands above the scorer, approved by
\* the deputy, each on the very result it closed with.
FinalizedWasReviewed ==
  \A r \in Records :
    IsCase(r) /\ rec[r].status = "finalized" =>
      /\ SignedOn(signed[r].scoring, rec[r].result)
      /\ SignedOn(signed[r].hr, rec[r].result)
      /\ SignedOn(signed[r].closing, rec[r].result)
      /\ rec[r].sup # None /\ rec[r].deputy # None =>
           SignedOn(signed[r].deputy, rec[r].result)

\* The inductive invariant of the review: what each status says about who signed
\* the result the case carries now, and the document of a finalized case.
Reviewed(c, s) ==
  /\ c.status \in ScoredStatuses =>
       /\ c.result = ResultOf(c)
       /\ c.sheet \in CompleteSheets
       /\ SignedOn(s.scoring, c.result)
  /\ c.status \in {"hr_approved", "deputy_approved", "finalized"} => SignedOn(s.hr, c.result)
  /\ c.status \in {"deputy_approved", "finalized"} /\ c.sup # None /\ c.deputy # None =>
       SignedOn(s.deputy, c.result)
  /\ c.status = "finalized" =>
       SignedOn(s.closing, c.result) /\ c.document = FinalSnapshot(c)

\* Every return, resubmission, reassignment and departure keeps the signatures that
\* the status of a case stands for: a case never shows an approval it did not get
\* on its present result.
StatusIsSigned == \A r \in Records : IsCase(r) => Reviewed(rec[r], signed[r])

ForwardActions ==
  {"submit", "manager_submit", "direct_ceo_submit", "hr_approve", "hr_approve_manager",
   "hr_finalize_direct_ceo", "deputy_approve", "ceo_finalize"}

\* No case reaches a status that nobody's desk serves: whatever path it is on
\* and whatever was returned or reassigned, some forward step of the table fits
\* its status, its guard holds and its seat is occupied or open to every HR user.
SomeDeskServesOpenCase ==
  \A r \in Records : IsOpen(r) =>
    \E a \in ForwardActions :
      /\ rec[r].status \in TRANSITIONS[a].from
      /\ Guard(a, rec[r])
      /\ TRANSITIONS[a].seat = "hr" \/ rec[r][TRANSITIONS[a].seat] # None

\* The document of a finalized case was drawn from the case as it stands: its
\* seats and its result have not changed since.
DocumentMatchesCase ==
  \A r \in Records :
    IsCase(r) /\ rec[r].status = "finalized" => rec[r].document = FinalSnapshot(rec[r])

\* The partial unique index: at most one open case for a person, although two
\* evaluators' requests may both have seen none (create_evaluation).
OneOpenCasePerPerson ==
  \A q, r \in Records :
    IsOpen(q) /\ IsOpen(r) /\ rec[q].subject = rec[r].subject => q = r

\* The inductive invariant behind it: the rows inserted and not committed yet are
\* for different persons, none of whom has an open case, and have ids of their own.
CreationsDoNotCollide ==
  \A u \in Users : Inserted(u) =>
    /\ ~IsCase(creating[u].row)
    /\ ~HasOpenCase(creating[u].subject)
    /\ \A v \in Users \ {u} : Inserted(v) =>
         creating[v].row # creating[u].row /\ creating[v].subject # creating[u].subject

\* P0-10, the chains: nobody sits in the chain of their own personnel row,
\* whichever of the seat (upsert_access, update_personnel) and of the link between
\* account and person (update_user) came first.
NobodyInOwnChain ==
  \A p \in Persons : access[p] # None => SubjectNotSeated(access[p], p)

\* Nobody holds two adjoining seats of a chain or of a case, reassignments and
\* stale copies of the chain included.
SeatsNotRedundant ==
  /\ \A p \in Persons : access[p] # None => NotRedundant(access[p])
  /\ \A r \in Records : IsCase(r) => NotRedundant(rec[r])

\* evaluation_window.py: once the deadline of a case has passed, its scores, its
\* bonus and its result stay as they are until HR moves the deadline.
NothingEntersALateCase ==
  [][\A r \in Records :
       IsCase(r) /\ ~WindowOpen(rec[r]) =>
         /\ rec'[r].sheet = rec[r].sheet
         /\ rec'[r].bonus = rec[r].bonus
         /\ rec'[r].result = rec[r].result]_vars

-------------------------------------------------------------------------------
(* The case as its lifecycle: what the table of statuses amounts to *)

PhaseOf(r) ==
  IF ~IsCase(r) THEN "none"
  ELSE IF rec[r].status = "draft" THEN "scoring"
  ELSE IF rec[r].status = "finalized" THEN "closed"
  ELSE IF rec[r].status = "cancelled" THEN "withdrawn" ELSE "review"

OutcomeOf(r) ==
  IF PhaseOf(r) \in {"review", "closed"} THEN rec[r].result ELSE None

Lifecycle == INSTANCE EvaluationLifecycle WITH
  Outcomes <- Results,
  phase    <- [r \in Records |-> PhaseOf(r)],
  outcome  <- [r \in Records |-> OutcomeOf(r)]

\* The handlers implement the lifecycle: between a submission and the closing or
\* the return to draft no step of anyone changes the result of a case, closing
\* publishes the result that was reviewed, and no closed case is sent back.
ImplementsLifecycle == Lifecycle!Spec

===============================================================================

------------------------------ MODULE CaseDesks ------------------------------
(***************************************************************************)
(* What the desks know of the cases of EvaluationWorkflow: who is told     *)
(* when a case moves (services/notifications.py), the time it has spent    *)
(* with each desk (services/stage_stats.py), and what the home page and    *)
(* the list count as waiting for an evaluator (api/routers/dashboard.py,   *)
(* evaluations.py).  apply_transition writes the status, the moment it was *)
(* entered, the audit row and the notices in one transaction, so each move *)
(* stays one action.  Its audit row, though, carries the moment at which   *)
(* the transaction began (server_default now() in models/audit_log.py),    *)
(* before any wait for the lock of the case.                               *)
(*                                                                         *)
(* Data.  A moment is a day, on one clock for the database and the         *)
(* application.  The audit log is kept to its rows status_changed with an  *)
(* old value; of a notice, to whom it went since the last move.            *)
(***************************************************************************)
EXTENDS EvaluationWorkflow, SequencesExt

CONSTANT MaxMoves  \* bound on the moves of one case

ASSUME MovesAssumption == MaxMoves \in Nat

\* The ids of a table are numbers of a fixed width.
ASSUME RecordsAssumption == IsFiniteSet(Records)

VARIABLES
  told,     \* told[r]    : the accounts told of the case since it entered its status
  trail,    \* trail[r]   : its rows status_changed in audit_log, ordered by created_at
  opened,   \* opened[r]  : created_at
  entered,  \* entered[r] : stage_entered_at
  returned  \* the cases with a row evaluation_returned in audit_log

deskVars == <<told, trail, opened, entered, returned>>

Moves == [at : Days, from : Statuses, to : Statuses]

DeskInit ==
  /\ Init
  /\ told = [r \in Records |-> {}]
  /\ trail = [r \in Records |-> <<>>]
  /\ opened = [r \in Records |-> 0]
  /\ entered = [r \in Records |-> 0]
  /\ returned = {}

-------------------------------------------------------------------------------
(* Notices *)

\* _active_user_ids_with_role
HrUsers == {u \in Users : users[u].active /\ users[u].role = "hr"}

\* A chain may lack a deputy; then the CEO follows HR.
AfterHr(c) == IF c.deputy # None THEN c.deputy ELSE c.ceo

\* Accounts through which the subject reads the result of a finalized case.
SubjectsAccounts(c) ==
  {u \in Users : users[u].active /\ users[u].role = "employee" /\ users[u].person = c.subject}

ToHr == {"submit", "manager_submit", "direct_ceo_submit", "deputy_return", "ceo_return_manager"}

\* Mutant: a returned case is announced to the supervisor's seat only.
RecipientsBySupervisor(a, c) ==
  IF a \in ToHr THEN HrUsers
  ELSE IF a \in {"hr_approve", "ceo_return"} THEN {AfterHr(c)}
  ELSE IF a \in {"hr_approve_manager", "deputy_approve"} THEN {c.ceo}
  ELSE {c.sup} \ {None}

\* notify_for_workflow_action, called with the case as the move leaves it.
Recipients(a, c) ==
  IF a \in ToHr THEN HrUsers
  ELSE IF a \in {"hr_approve", "ceo_return"} THEN {AfterHr(c)}
  ELSE IF a \in {"hr_approve_manager", "deputy_approve"} THEN {c.ceo}
  ELSE IF a = "hr_finalize_direct_ceo" THEN {c.ceo} \cup SubjectsAccounts(c)
  ELSE IF a = "ceo_finalize" THEN {c[ScorerSeat(c)]} \cup SubjectsAccounts(c)
  ELSE IF a = "hr_return" THEN {c[ScorerSeat(c)]}
  ELSE Occupants(c)

\* Mutant: a return of the CEO on the manager's path is not logged as one.
ReturnsOfTheChain == {"hr_return", "deputy_return", "ceo_return"}

Returns == {"hr_return", "deputy_return", "ceo_return", "ceo_return_manager"}

\* The audit row of a move by a request that began on a day of its own.  Rows of one
\* day lie in either order.
Logs(r, a, began, place) ==
  /\ \A i \in DOMAIN trail[r] :
       IF i < place THEN trail[r][i].at <= began ELSE began <= trail[r][i].at
  /\ trail' = [trail EXCEPT
       ![r] = InsertAt(@, place, [at |-> began, from |-> rec[r].status, to |-> TRANSITIONS[a].to])]

\* Mutant: stage_entered_at is not written.
LeavesUnstamped(r, a, since) ==
  /\ Len(trail[r]) < MaxMoves
  /\ told' = [told EXCEPT ![r] = Recipients(a, rec'[r])]
  /\ \E began \in since .. today, place \in 1 .. Len(trail[r]) + 1 : Logs(r, a, began, place)
  /\ returned' = IF a \in Returns THEN returned \cup {r} ELSE returned
  /\ UNCHANGED <<opened, entered>>

\* The rest of apply_transition: its audit rows, stage_entered_at and the notices.
\* since is the day before which the request cannot have begun.
Leaves(r, a, since) ==
  /\ Len(trail[r]) < MaxMoves
  /\ told' = [told EXCEPT ![r] = Recipients(a, rec'[r])]
  /\ \E began \in since .. today, place \in 1 .. Len(trail[r]) + 1 : Logs(r, a, began, place)
  /\ entered' = [entered EXCEPT ![r] = today]
  /\ returned' = IF a \in Returns THEN returned \cup {r} ELSE returned
  /\ UNCHANGED opened

\* A notice outside a move: notify_stage_owner_reassigned, or that of an extension.
Tells(r, who) ==
  /\ told' = [told EXCEPT ![r] = @ \cup who]
  /\ UNCHANGED <<trail, opened, entered, returned>>

\* created_at and stage_entered_at of a new row are the moment its transaction began.
\* The evaluator opens a case and is told nothing.  The bulk creation of HR tells
\* the scorer in a second transaction, which may never commit.
Opens(u, r) ==
  /\ \E who \in {{}} \cup (IF users[u].role = "hr" THEN {{rec'[r][ScorerSeat(rec'[r])]}} ELSE {}) :
       told' = [told EXCEPT ![r] = who]
  /\ trail' = [trail EXCEPT ![r] = <<>>]
  /\ \E began \in 0 .. today :
       /\ opened' = [opened EXCEPT ![r] = began]
       /\ entered' = [entered EXCEPT ![r] = began]
  /\ UNCHANGED returned

\* Who extend_submission_window tells: on the path of the CEO alone, nobody.
ToldOfExtension(c) ==
  IF c.sup # None THEN {c.sup} ELSE IF c.deputy # None THEN {c.deputy} ELSE {}

-------------------------------------------------------------------------------
\* A request that names a case began after the case was opened: its number is known
\* only once it is committed.
MoveStep(u, r) ==
  \/ CommitCreate(u, r) /\ Opens(u, r)
  \/ Submit(u, r) /\ Leaves(r, SubmitAction(rec[r]), opened[r])
  \/ HrApprove(u, r) /\ Leaves(r, HrApproveAction(rec[r]), opened[r])
  \/ DeputyApprove(u, r) /\ Leaves(r, "deputy_approve", opened[r])
  \/ CeoFinalize(u, r) /\ Leaves(r, "ceo_finalize", opened[r])
  \/ Return(u, r) /\ Leaves(r, ReturnAction(users[u].role, rec[r]), opened[r])
  \/ Cancel(u, r) /\ Leaves(r, "cancel", opened[r])

\* What HR does with a case beside judging it.
CustodyStep(u, r) ==
  \/ \E v \in Users : HrHandover(u, r, v) /\ Tells(r, {v})
  \/ \E seat \in {"sup", "deputy", "ceo"}, v \in Users : Reassign(u, r, seat, v) /\ Tells(r, {v})
  \/ \E until \in Extensions : Extend(u, r, until) /\ Tells(r, ToldOfExtension(rec[r]))

\* hr_claim and the writes to a draft tell nobody.
QuietStep(u, r) ==
  \/ InsertCase(u, r)
  \/ \E sheet \in Sheets : UpsertScores(u, r, sheet)
  \/ \E bonus \in Bonuses : SetSpecialScore(u, r, bonus)
  \/ HrClaim(u, r)

\* The departure of the subject cancels through apply_transition too.  It names the
\* person, so it may have begun before the case it finds was opened.
DepartureStep(u, p) ==
  /\ Depart(u, p)
  /\ \/ rec' = rec /\ UNCHANGED deskVars
     \/ \E r \in Records : rec'[r] # rec[r] /\ Leaves(r, "cancel", 0)

SettingStep(u, p) ==
  \/ BeginCreate(u, p) \/ BeginBulkCreate(u, p)
  \/ \E chain \in Chains : UpsertAccess(u, p, chain) \/ OvertakenUpsert(u, p, chain)
  \/ \E b \in ManagerFlags : SetManager(u, p, b)
  \/ Rejoin(u, p) \/ EditPersonnel(u, p)

DeskNext ==
  \/ \E u \in Users, r \in Records : MoveStep(u, r)
  \/ \E u \in HrUsers, r \in Records : CustodyStep(u, r)
  \/ \E u \in Users, r \in Records : QuietStep(u, r) /\ UNCHANGED deskVars
  \/ \E u \in Users, p \in Leavers : DepartureStep(u, p)
  \/ \E u \in Users, p \in Persons : SettingStep(u, p) /\ UNCHANGED deskVars
  \/ \E u \in Users : (AccountStep(u) \/ PeriodStep(u)) /\ UNCHANGED deskVars
  \/ NextDay /\ UNCHANGED deskVars

DeskSpec == DeskInit /\ [][DeskNext]_<<vars, deskVars>>

-------------------------------------------------------------------------------
(* What the pages show *)

\* _stage_visits: the finished stays from the log, the present one from the row.
Visits(r) ==
  [i \in 1 .. Len(trail[r]) |->
     [status |-> trail[r][i].from,
      days |-> trail[r][i].at - (IF i = 1 THEN opened[r] ELSE trail[r][i - 1].at),
      current |-> FALSE]]
  \o <<[status |-> rec[r].status, days |-> today - entered[r], current |-> TRUE]>>

STAGE_ORDER == {"draft", "submitted", "hr_approved", "deputy_approved", "finalized"}

\* _OWNER_FIELD: the account under whose name a stage of a case is counted.
StageOwner(c, s) ==
  IF s = "draft" THEN c.sup
  ELSE IF s = "submitted" THEN c.hr
  ELSE IF s = "hr_approved" THEN c.deputy
  ELSE IF s = "deputy_approved" THEN c.ceo ELSE None

\* stage_stats: the stays of all cases, and what is counted of them for a stage.
AllVisits ==
  UNION {LET visits == Visits(r)
         IN {[case |-> r, nth |-> i, status |-> visits[i].status, current |-> visits[i].current] :
               i \in DOMAIN visits} :
           r \in {q \in Records : IsCase(q)}}

\* _Bucket
Bucket(visits, s) ==
  LET here == {v \in visits : v.status = s}
  IN [passes |-> Cardinality(here), total |-> Cardinality({v.case : v \in here}),
      active |-> Cardinality({v \in here : v.current}),
      closed |-> Cardinality({v \in here : ~v.current})]

\* pipeline: the cases of a status, and when the oldest of them was opened.
Pipeline(s) ==
  LET cases == {r \in Records : IsCase(r) /\ rec[r].status = s}
  IN [count |-> Cardinality(cases),
      oldest |-> IF cases = {} THEN None
                 ELSE opened[CHOOSE r \in cases : \A q \in cases : opened[r] <= opened[q]]]

\* personnel_in_progress: the stage the profile of a person shows.
InProgress(p) ==
  {[case |-> r, status |-> rec[r].status, was_returned |-> r \in returned] :
     r \in {q \in Records : IsOpen(q) /\ rec[q].subject = p}}

Having(cases, statuses) == {r \in cases : rec[r].status \in statuses}

\* The cases role_overview looks at for an account.
Mine(u) ==
  {r \in Records : IsCase(r) /\
     CASE users[u].role = "unit_supervisor" -> rec[r].sup = u
       [] users[u].role = "deputy" -> rec[r].deputy = u
       [] users[u].role = "ceo" -> rec[r].ceo = u
       [] users[u].role = "employee" -> rec[r].subject = users[u].person
       [] OTHER -> users[u].role = "hr"}

\* Mutant: what HR has approved waits for the CEO as well.
TilesOfAnyDesk(u) ==
  LET mine == Mine(u)
  IN CASE users[u].role = "unit_supervisor" -> [drafts |-> Having(mine, {"draft"})]
       [] users[u].role = "deputy" -> [awaiting_me |-> Having(mine, {"hr_approved"})]
       [] users[u].role = "ceo" ->
            [awaiting_me |-> Having(mine, {"hr_approved", "deputy_approved"})]
       [] OTHER -> [finalized |-> Having(mine, {"finalized"})]

\* role_overview: the tiles of the home page, each as the cases it counts; none for
\* support.  The averages, percentages and counts of people are left out.
Tiles(u) ==
  LET mine == Mine(u)
      seated == {r \in mine : rec[r].sup # None}
      done == Having(mine, {"finalized"})
  IN CASE users[u].role = "unit_supervisor" ->
            [drafts |-> Having(mine, {"draft"}), finalized |-> done,
             in_review |-> Having(mine, {"submitted", "hr_approved", "deputy_approved"})]
       [] users[u].role = "deputy" ->
            [awaiting_me |-> Having(seated, {"hr_approved"}), finalized |-> done,
             manager_scoring |-> Having(mine \ seated, {"hr_approved"})]
       [] users[u].role = "ceo" ->
            [awaiting_me |-> Having(mine, {"deputy_approved"}), finalized |-> done,
             total |-> mine]
       [] users[u].role = "hr" ->
            [awaiting_hr |-> Having(mine, {"submitted"}), finalized |-> done]
       [] users[u].role = "employee" -> [finalized |-> done]
       [] OTHER -> <<>>

\* The tiles an evaluator reads as work of their own.
OwnWork(tiles) ==
  UNION {tiles[k] : k \in DOMAIN tiles \cap {"drafts", "awaiting_me", "manager_scoring"}}

\* scope_evaluations_for_role
Listed(u, c) ==
  \/ users[u].role = "hr"
  \/ users[u].role = "unit_supervisor" /\ c.sup = u
  \/ users[u].role = "deputy" /\ c.deputy = u
  \/ users[u].role = "ceo" /\ c.ceo = u
  \/ users[u].role = "employee" /\ users[u].person = c.subject /\ c.status = "finalized"

\* The filters of the list and of export.xlsx, as far as the cases tell them apart.
Page(u, statuses, was_returned) ==
  {r \in Records : /\ IsCase(r) /\ Listed(u, rec[r])
                   /\ rec[r].status \in statuses
                   /\ (r \in returned) \in was_returned}

\* _ensure_can_view
MayView(u, c) == NotOwnCase(u, c) /\ (users[u].role = "hr" \/ u \in Occupants(c))

-------------------------------------------------------------------------------
(* Properties *)

MaySendOn(u, c) ==
  users[u].active /\ NotOwnCase(u, c) /\ \E a \in ForwardActions : Allowed(u, a, c)

\* notify_for_workflow_action and notify_stage_owner_reassigned: whatever path a case
\* is on and however it was sent back, handed over or reassigned, each account that
\* may send it on has been told of it since it came to its desk.
NextHolderIsTold ==
  \A r \in Records : IsOpen(r) /\ trail[r] # <<>> =>
    \A u \in Users \ told[r] : ~MaySendOn(u, rec[r])

\* stage_stats.py: the two sources it puts together count no time twice, however the
\* requests waited for the case.  No stay is shorter than nothing, except the first of
\* a case withdrawn by a departure; and laid end to end from the opening the stays,
\* finished and present, never reach beyond today.
VisitsFitTheLife ==
  \A r \in Records : IsCase(r) =>
    LET visits == Visits(r)
    IN /\ \A i \in DOMAIN visits :
            visits[i].days >= 0 \/ (i = 1 /\ rec[r].status = "cancelled")
       /\ \E clock \in [0 .. Len(visits) -> Days] :
            /\ clock[0] = opened[r] /\ clock[Len(visits)] <= today
            /\ \A i \in DOMAIN visits : clock[i] = clock[i - 1] + visits[i].days

\* stage_stats.py: a stage counts more passes than cases exactly when a case it counts
\* was sent back, whatever way it took since; and what it counts as present is what
\* the pipeline shows there.
PassesTellReturns ==
  LET all == AllVisits
      buckets == [s \in STAGE_ORDER |-> Bucket(all, s)]
  IN /\ (\E s \in STAGE_ORDER : buckets[s].passes > buckets[s].total) <=> returned # {}
     /\ \A s \in STAGE_ORDER : buckets[s].active = Pipeline(s).count

\* The home page, the list and the handlers read the seats alike: a case the home
\* page counts is in the list of that account; one it counts as waiting for an
\* evaluator opens, and lets them send it on; the statistics name an owner only
\* when the case waits for them; and the profile shows the case all desks mean.
AwaitedCasesCanBeHandled ==
  /\ \A u \in Users : users[u].active =>
       LET tiles == Tiles(u)
       IN /\ UNION {tiles[k] : k \in DOMAIN tiles} \subseteq Page(u, Statuses, BOOLEAN)
          /\ \A r \in OwnWork(tiles) : MayView(u, rec[r]) /\ MaySendOn(u, rec[r])
  /\ \A r \in Records : IsOpen(r) =>
       \A u \in {StageOwner(rec[r], rec[r].status)} \ {None} : users[u].active =>
         /\ MayView(u, rec[r])
         /\ users[u].role # "hr" => MaySendOn(u, rec[r])
  /\ \A p \in Persons : Cardinality(InProgress(p)) <= 1

===============================================================================

# DbsPulse: a verification of the evaluation backend

DbsPulse is a FastAPI and PostgreSQL backend (`src/backend/app`) with a React client. It
carries one decision of a human-resources department: whether a contract is renewed. An
*evaluation case* about one person is scored by an evaluator, checked by HR, approved by a
deputy, closed by the CEO, and becomes a document with a hash.

This directory holds TLA+ models of the backend, the TLC configurations that check them
and the proofs that TLAPS checks. `PROJECT.json` maps every definition to its lines.
Paths below are relative to `src/backend/app` unless they say otherwise.

## 1. The system

| Part | State | Operations | Correct when |
|---|---|---|---|
| Case workflow (`services/workflow.py`, `api/routers/evaluations.py`) | `evaluation_records`, `evaluation_scores` | create, score, special score, submit, HR/deputy/CEO approval, return, cancel, claim, handover, reassign, extend | a closed case was scored and approved on the result it shows; one open case per person; no dead end |
| Submission window (`services/evaluation_window.py`) | period end, extension, date | guard of the three writes | nothing is entered late |
| Self-evaluation guards (`services/self_evaluation.py`, triggers) | links of accounts to persons, chains, seats | guards on chain, link, reassignment | nobody evaluates themselves, nobody holds two adjoining seats |
| Desks: notices, statistics, pages (`services/notifications.py`, `stage_stats.py`, `routers/dashboard.py`) | `notifications`, `audit_log`, `stage_entered_at` | tell the next holder, tiles, pipeline, list | whoever may send a case on knows of it, and all pages mean the same case |
| What follows a closed case (`routers/me.py`, `improvement_plans.py`) | columns of the case, plans, goals | acknowledge, object, answer; create, hand over, tick, close | one objection inside its window, answered once; no change is lost |
| Indicators, frameworks, schemes, self-assessment | versions, drafts, forms | activate, retire, delete, bump, rebind, stamp, answer | one active set and one active scheme; scores and answers keep their questions, results their rules |
| Scoring arithmetic (`services/evaluation.py`) | none | compute, validate, preview | a percentage of the points, monotone, in the band it names |
| Audit chain (`services/audit.py`) | `audit_log` | append under an advisory lock, verify | the committed log verifies and only grows at its end |
| Sessions, lockout (`services/sessions.py`, `login_guard.py`, `routers/auth.py`) | `auth_sessions`, `login_attempts` | log in, rotate, detect reuse, revoke, count, lock | nobody is thrown out who rotated in order; a lock is earned |
| Accounts, capabilities, settings (`routers/users.py`, `administration.py`) | `users`, `user_capabilities`, `module_settings`, `integration_settings` | create, update, delete, grant, toggle, save | no row refers to one that is gone |
| People, chains, import, units (`routers/personnel.py`, `org_units.py`, `services/personnel_import.py`) | `personnel`, `evaluation_access`, `org_units` | edit, leave, return, import a file, rename a unit | the same |
| Scheduler (`core/scheduler.py`, `services/scheduler_lock.py`, `scheduled.py`) | advisory lock, runs | the sweeps | one run at a time; owners are reminded, once per window; a document is archived in the end |
| Outbox (`services/delivery.py`) | `notification_deliveries` | enqueue, sweep, retry, give up | a row is settled in the end; calls are bounded |
| Documents (`services/documents.py`) | `evaluation_documents` | archive from three paths, serve | one document per case, every copy is that one |

`PROJECT.json` lists these and the parts that are not modelled (section 6).

The parts interact through the database. There is no queue in memory and no actor: a
request is a transaction, the sweeps are one transaction each, and what one handler leaves
in a row another reads later. The hard behaviours are those of concurrent transactions:
what is read before a lock and used after it, which triggers and indexes see an
uncommitted row, which lock is taken in which order, which rows a long life of returns,
reassignments, departures and role changes can produce. `PROJECT.json` lists them as
hazards, each at its line.

## 2. Modules

| Module | Contents | Extends or instantiates |
|---|---|---|
| `EvaluationWorkflow` | The case and everything whose writes its handlers read. | |
| `EvaluationLifecycle` | Abstract: a case is proposed, under review unchanged, published or sent back. | implemented by `EvaluationWorkflow` (`PhaseOf`, `OutcomeOf`) |
| `CaseDesks` | Who is told of a case, the time it spends with each desk, the pages of each role. | `EvaluationWorkflow`, whose actions it conjoins with its own variables |
| `CaseAftermath` | Acknowledgement, objection and answer, improvement plans and goals. | |
| `ScoringRules` | Indicators, frameworks, schemes, stamps of cases, forms of employees. | |
| `ScoringArithmetic` | From a score sheet to a result; validation and preview of a scheme. | |
| `AuditChain` | Transactions that log: locks, flushes, rollback, deadlock, verification. | |
| `EventLog` | Abstract: a log that grows at its end, by all entries of one call at once. | implemented by `AuditChain` (`Entries`) |
| `Sessions` | Browsers, refresh tokens, passwords and the lockout. | |
| `Accounts` | Accounts, capabilities, sections, settings, first administrators. | |
| `Directory` | People, chains, the import, units, composed with the accounts. | `Accounts` |
| `ScheduledSweeps` | The runs of the scheduler over all replicas: leader lock, reminders, documents and whoever else archives them. | |
| `DeliveryOutbox` | The part of a run that hands messages to the channels. | |
| `EvaluationWorkflowProofs`, `ScoringRulesProofs`, `AuditChainProofs`, `SessionsProofs`, `ScheduledSweepsProofs`, `DeliveryOutboxProofs`, `CaseAftermathProofs`, `DirectoryProofs` | Theorems and proofs; the first one's are about `CaseDesks` too, the second one's about `ScoringArithmetic`. | their module (`CaseDesks`, `ScoringArithmetic`), `TLAPS` |
| `MC...` | Values of the constants of the instances TLC checks. | their module |

Why these cuts. A sweep reads of a case only its stage and never writes one, so
`ScheduledSweeps` keeps the stage (`Moves` are the rows of `TRANSITIONS` that fit its
chain). `DeliveryOutbox` models one run after another, which is what the leader lock gives
it; that two runs never overlap is part of `SweepsInvariant`. The handlers of
`CaseAftermath` act on finalized cases, which no handler of the workflow touches any more.
`ScoringRules` needs of the workflow only whether a case is draft, submitted or closed.
`Sessions` uses of an account its activity and password, which `Accounts` leaves out.

### Correspondence

| Variable | In the system |
|---|---|
| `EvaluationWorkflow`: `users`, `personnel`, `access`, `period`, `today` | the columns of these tables that a case handler or a guard reads; `date.today()` |
| `rec[r]` | a row of `evaluation_records` with its scores; `None` before its commit |
| `signed[r]` | who submitted, approved and closed a case, on which result: a history read by no guard |
| `creating[u]` | the transaction of a request that opens a case: what it has read, and its uncommitted row |
| `CaseDesks`: `told[r]` | the accounts with a notice of the case since its last move |
| `trail[r]`, `returned` | its rows `status_changed` in `audit_log`, ordered by `created_at`; whether it has one `evaluation_returned` |
| `opened[r]`, `entered[r]` | `created_at`, `stage_entered_at` |
| `CaseAftermath`: `case`, `plan`, `goal`, `log`, `told` | the columns of the objection, the rows of plans and goals, the events, the notices |
| `ScoringRules`: `indicator`, `frameworks`, `scheme`, `case`, `form` | rows of the five tables; a framework is the set of its members |
| `AuditChain`: `rows`, `nextId`, `chainLock`, `locks`, `tx` | `audit_log` with uncommitted rows, its sequence, the advisory lock, the row locks on cases, the position of each transaction. A hash is the sequence of everything it covers, so two hashes are equal exactly when they cover the same rows. |
| `Sessions`: `session`, `attempts`, `account` | `auth_sessions`, `login_attempts`, the columns of `users` a token depends on |
| `jar[b]` | the cookie and the access token of a browser |
| `lost`, `failures` | histories: answers that never arrived, failures counted since the last undisturbed login |
| `Accounts`, `Directory`: `account`, `grants`, `person`, `access`, `unit`, `off`, `stored` | the tables; `actors` are the accounts `audit_log` names, `effect[r]` the settings a process holds |
| `ScheduledSweeps`: `stage`, `stalled`, `closedAt`, `due`, `active` | `status`; whether `stage_entered_at` is past the SLA; the order of `finalized_at`; contracts and plans near their date; `is_active` |
| `notes[a]`, `docs[c]`, `leader`, `pc`, `drafts`, `backlog` | notifications inside their window, the archived document, the holder of the advisory lock, a call of `run_sweeps_once` with what it has not committed |
| `rendering`, `inserted`, `served` | background tasks and downloads in `archive_final_pdf`, uncommitted documents, copies given out (history) |
| `DeliveryOutbox`: `box`, `mine`, `written`, `configured`, `tries` | the rows as committed and as the run has written them, `channels.available()`, calls per row (history) |
| `call[s]` (five modules) | a request in flight with everything it has read; `Begin...` is its reads and checks, the action named like the handler its writes and commit, `Rollback` its failure |

An action that is one step bears the handler's name. The table `TRANSITIONS` has the rows,
guards, assignees and claims of `workflow.TRANSITIONS`; `Allowed` is
`ensure_transition_allowed` with the closing check of `apply_transition` and the trigger
its UPDATE fires, `Moved` is what `apply_transition` writes.

### What is one step

Every handler that writes calls `log_event`, which takes one transaction-wide advisory
lock (`services/audit.py:85`) and holds it to the commit; the session does not autoflush
(`db/session.py:17`), so the UPDATEs of a handler, and the triggers they fire, run inside
`log_event`, under that lock. `AuditChain` models exactly this machinery; the other modules
rely on it: writes of two calls are serialised, and what is left to interleave is what a
call has read before. Hence three shapes of actions:

- A handler that reads its case with `SELECT ... FOR UPDATE`, or whose checks are repeated
  by a trigger, is one action: the transitions of the workflow, the answer to an objection.
- A handler that reads without a lock is two actions, its reads and its commit. An UPDATE
  names only the columns whose value differs from the one read; `Updated`, `Unmerged` and
  `Differing` are that rule.
- The submission of a form is three: it locks the row of the person and pins the form to the
  latest framework, reads the latest framework again for the questions, and commits.
- A handler that sends rows before it logs is three: opening a case (read, INSERT, commit)
  and a change of the indicators (read, flush, publish). The unique indexes wait for
  uncommitted rows, the triggers do not see them, and both are modelled so.

Specific to the desks: a move is one action, but its row of the log carries the moment its
transaction began (`server_default now()`), before the wait for the lock of the case, and
`stage_stats` orders by that. `Logs` therefore puts the row at any moment from the opening
of the case to today, among the others by that moment, in either order where it is the
same. A request that names a case began after it was opened, since its number is known only
after the commit; a departure names the person and may have begun before. The clocks of
the database and the application are taken as one.

Specific to the workflow: `upsert_access` reads `is_manager` before the lock, and
`OvertakenUpsert` is the run in which the flag is set in between. A departure calls
`log_event` before it looks for the open case, so its look and its cancellation are one
action. Every request reads the account of its caller when it begins; that a caller is
demoted during the request is left out.

In the sweeps the reminders of one run are one step, because nothing a concurrent
transaction can commit meanwhile makes them wrong: the deduplication reads only rows that
runs write. Everything up to the commit is one transaction, so `RunFails`, `Crash` and
`Rollback` lose all of it except the calls the channels have had. A conflict on the unique
index of `evaluation_documents` is as PostgreSQL has it: an INSERT waits for an uncommitted
row of the same case (`MayInsert`) and fails beside a committed one (`Conflicts`), after
which the savepoint gives the existing document out.

### Abstractions

A score sheet of the workflow is an element of `Sheets`, and a result is the sheet and
bonus it was computed from, so two results are equal exactly when they were computed from
equal inputs; `ScoringArithmetic` has the numbers. A PATCH of several fields is a sequence
of PATCHes of one in the workflow, and one body in `Directory`. Time is a day where dates
are compared, and otherwise an event (`GraceEnds`, `WindowPasses`, `BackoffEnds`). In
`Sessions` tokens do not expire by age: an expired one is refused like a missing one. Sums
and products of floats are exact in `ScoringArithmetic`; which way a value goes that lies
half-way is the constant `TiesUp`. A row of a spreadsheet is `readable` or not; how a cell
is read is left out. A constant roster of accounts is used in the workflow; `Accounts` and
`Directory` create and delete them.

## 3. Runs

| Run | Instance | Checks |
|---|---|---|
| `Review` | 6 accounts (one linked to the subject), 1 person, 1 case, each of the 6 shapes of a chain, 2 sheets, 2 bonuses, departure | `ResultMatchesScores`, `FinalizedWasReviewed`, `SomeDeskServesOpenCase`, `DocumentMatchesCase`, `SeatsNotRedundant`, `ImplementsLifecycle` |
| `Races` | 3 accounts, 2 case rows for 1 person; chain, manager flag, role, activity and link of the evaluator edited; departure | `OneOpenCasePerPerson`, `NobodyInOwnChain` |
| `Desks` | 5 accounts, 1 case, 4 shapes of a chain, a period that ends on the first of 2 days, an extension, 3 moves | `NextHolderIsTold`, `VisitsFitTheLife`, `PassesTellReturns`, `AwaitedCasesCanBeHandled`, `NothingEntersALateCase` |
| `Aftermath` | 1 low result, HR, an owner, the employee; 2 calls in flight, 2 plans, 1 goal, 2 texts, 3 days with a window of 1 | `ObjectionInItsWindow`, `AnsweredOnce`, `OwnersAreTold`, `GoalsKeepLastChange` |
| `Rules` | 2 HR users, of whom one writes the drafts (`OneAuthor`), 2 indicators, 3 schemes, 1 person with a form and a case, 2 calls in flight, 2 frameworks | `LatestIsActiveSet`, `AnswersHaveQuestions`, `OneActiveScheme`, `ResultsKeepTheirScheme` |
| `Arithmetic` | 3 questions in 2 sections, 3 answers, 5 proposed schemes (one of weights their columns round up, one refused), 4 special scores | `ResultIsAPercentage`, `LabelIsOfItsBand`, `PreviewIsClose`, `BetterSheetIsNotWorse` |
| `Audit` | 2 transactions of up to 2 events on 1 case, behind one row from before the chain | `ChainVerifies`, `ImplementsLog`, `CallsEnd` |
| `Sessions` | 1 user, 1 browser, 3 sessions, 2 calls in flight, a lock after 2 failures, 1 change of the password | `ReuseIsReal`, `LocksAreEarned` |
| `Directory` | 3 accounts in use and 2 ids to come, 3 people, 2 units, 2 files, 3 calls of which 2 overlap | `TypeOK`, `NothingDangles`, `DeletionIsHarmless` |
| `Sweeps` | 1 loop, the manual request, 1 background task or download, 2 cases of the CEO alone, a batch of 1, the CEO's account switched off and on, 1 crash or failed run | `NoDoubleReminder`, `CopiesAgree`, `OwnersAreReminded`, `DocumentsAreArchived` |
| `Outbox` | 2 SMS, whose channel is switched off and on and may raise on the oldest, and 1 younger e-mail; batches of 2 among 2 candidates, 2 attempts, 1 rollback | `TriesAreBounded`, `SettledStaysSettled`, `RowsAreSettled` |
| `PoisonedSweep` | 1 loop, a case with a supervisor and no deputy, and one of the CEO alone | `DocumentsAreArchived`, violated |

What they show, beyond the names:

- `FinalizedWasReviewed`: a closed case carries the result it was submitted and approved
  with, through every return and resubmission. `SomeDeskServesOpenCase`: no chain, return,
  reassignment or departure leaves an open case without a forward step for the holder of a
  seat or for HR.
- `NextHolderIsTold`: whoever may send a case on was told of it since it came to their
  desk. It begins with the first move (the notices of a bulk creation follow in a second
  transaction and may be lost) and holds for accounts that keep their role.
- `VisitsFitTheLife`: finished stays (from the audit log, by the moments their requests
  began) and the present one (from the row, by the moment of the move) come from two
  sources and two clock readings, and still count no time of the life of a case twice. That
  they *tile* it in the order of the case is not so: what the last request waited is in no
  stay, and section 4 has the order. `PassesTellReturns`: a stage counts more passes than
  cases exactly when a case was returned. `AwaitedCasesCanBeHandled`: tiles, list,
  statistics, profile and handlers, which each read status and seats by rules of their own,
  agree as long as the accounts stay as they were when they were seated.
- `GoalsKeepLastChange`: every field of a goal shows the last change logged for it, so a
  tick of the owner never brings back a text that HR has replaced. It holds because an
  UPDATE names changed columns only. `ObjectionInItsWindow` and `AnsweredOnce` hold though
  `acknowledge` and `file_objection` take no lock.
- `LatestIsActiveSet`: two overlapping changes of the indicators never publish a set that
  misses one of them; the unique version makes the later one fail. `AnswersHaveQuestions`:
  `delete_indicator` asks for scores only, and before it deletes; the foreign keys do the
  rest. The answers of a form are complete for one version, which is the one the form names
  or, as section 4 says, a later one. `ResultsKeepTheirScheme`: the foreign key stops the
  deletion of a draft that was activated and used meanwhile.
- `ChainVerifies`, `ImplementsLog`: no fork, no gap, no entry that surfaces before one
  that was there. `CallsEnd`: the handlers take the lock of a case and that of the chain in
  different orders, and the database ends the deadlocks this makes.
- `ReuseIsReal`: what is taken for the reuse of a stolen token is a session that was ended,
  or one whose successor never reached the browser. Overlapping refreshes within the grace
  throw nobody out. `LocksAreEarned`: a lock stands on enough failures since the last
  undisturbed login, whatever overlapping attempts write.
- `DeletionIsHarmless`: `delete_user` also removes the capabilities the account gave; since
  an account that has acted cannot be deleted, nobody loses one by it.
- The arithmetic is checked for whatever the validation admits, the rounding of its columns
  included. `BetterSheetIsNotWorse`: four roundings and a cut never turn two sheets round.
  `ResultIsAPercentage`: a result exceeds a hundred by a tenth at most, and never where the
  stored weights still add up. `LabelIsOfItsBand`: a label is that of the band the result
  lies in, above the limit of the last band too. `PreviewIsClose`: the preview computes with
  the numbers as typed, a case with the numbers as stored; they are at most two tenths of a
  point apart. The bound is reached: sections of 90 % each under weights of 0.6665 and
  0.3335, and a special score of 1.05 under a limit of 1.045 that is kept as 1.05, give 91.0
  in the preview and 91.2 in a case.

The bounds. One case is enough for the review and the desks: no handler that moves a case
reads another. Two bonuses and two sheets tell an approval of the present result from one
of an earlier one. Six accounts give every seat a holder, a second deputy to reassign to
and a second HR user to hand over to; the six chains are the four paths and the two in
which a superior sits lower. Two case rows and three accounts give two concurrent creations
and a creation after a closed one. Two calls in flight give every pair of handlers in every
order; three sessions give one, its successor and a rival; `MaxMoves`, `MaxEvents`,
`MaxVersions`, `MaxVersion`, `MaxFailures`, `MaxCalls`, `LastDay` and `MaxFaults` bound
what would grow for ever. Three moves take a case to the desk of the CEO on the longest
path and to its end on the others, or to a return and back; the theorems of the desks have
no such bound. A period that is opened after a case without one is read by
nothing any more, so the constraint `PeriodIsRead` of `Desks` cuts these behaviours. The
constraint `OneAuthor` of `Rules` has one user write the drafts and the other activate
them: whether a user may activate a draft depends on the author of that draft alone. One
end of the period is enough for the desks; that it may be *moved* is covered by the theorem
`NothingLate` only. Any two replicas or
requests compete for the leader lock alike; `Sweeps` has a loop and the manual request. Two
cases and a batch of one make a backlog that one run does not empty. In `Outbox` the row
that misbehaves is the oldest, where it does the most harm, and the rows of the channel
that may be off fill a batch. The code reads four times the batch as candidates; `Outbox`
has as many as the batch, so that the limit cuts. The instance of `Sweeps` has no HR user,
so that the reminders addressed to HR have no recipient; the theorem `RemindersAreSingle`
covers them.

Deadlock is checked where nothing may stop, in the sweeps and the outbox. Elsewhere a
small instance ends: a finished case, calls used up.

### Fairness

None is assumed and no liveness claimed for the workflow: every step forward is the
decision of a person, and nothing obliges that person to take it. What can be said is
`SomeDeskServesOpenCase`. The sweeps run by themselves:

- `_scheduler_loop` catches every exception of a run and starts the next one after its
  interval: weak fairness of `Acquire` for the loops, none for the manual requests.
- A run that has begun goes on, as any thread does. Its INSERT may have to wait for a
  background task or download again and again; PostgreSQL wakes the waiting transaction
  when the other ends, hence strong fairness of the steps of a run. A rendering ends, in
  one way or the other: weak fairness.
- A container that died is started again (`restart: unless-stopped` in
  `docker-compose.yml`): weak fairness of `Restart`.
- Time passes: weak fairness of `BackoffEnds`. In the outbox the run as a whole is weakly
  fair, which is what the three points above give it.

In `AuditChain` a call that has begun goes on when its statements are answered, and
PostgreSQL breaks a cycle of waits after `deadlock_timeout`: weak fairness of `Step` and
`BreakDeadlock`. Failures (`Fail`) and new calls (`Begin`) are under none.

Nothing obliges the world to move cases, configure channels or leave accounts alone.
`OwnersAreReminded` therefore asks for the reminder only while the case stays in its stage
and the account remains its owner, and `RowsAreSettled` speaks of rows whose channel
nobody switches off, and asks that in the end the rows nothing settles (of a channel that is
off, or raising an unexpected exception) are fewer than a batch: otherwise it fails, as
section 4 says.

## 4. What the code does not keep

`PoisonedSweep` checks what `services/scheduled.py:235` says of the document sweep, that it
guarantees that a document is built in the end, and finds it violated: a case with a
supervisor and no deputy waits for the CEO in `hr_approved` past the SLA, its reminder is
addressed to no user, the INSERT fails, and every run rolls back whole. The passing runs of
the same property have chains on the path of the CEO alone, which never enter
`hr_approved`.

Met on the way, by reading or by an instance that was tried, and of which no run is kept:

Cases
- `create_evaluation` reads the status of the person at `evaluations.py:288` and does not
  ask again; a departure that commits in between leaves an open case of a leaver, which
  `personnel.py:521` means to prevent. `NobodyInOwnChain` speaks of chains; a link set while
  the INSERT of a case is uncommitted leaves an account in a case about itself, and the
  trigger then refuses every UPDATE of that case until a seat is reassigned.
- `return_evaluation` (`evaluations.py:878`) does not ask whether the caller is the
  subject; on the shared queue of HR it also claims the case. Its action follows from the
  role, not from the seat, so a deputy in the supervisor's seat cannot return as the deputy.
- Whether one person decided alone (`models/evaluation.py:272`) compares the seats at
  closing; a reassignment after scoring hides it.
- A second, earlier extension shuts the window the first had opened (`evaluations.py:957`).
  Without a deputy the CEO can finalize a case in `hr_approved` and not return it. The
  orphan sweep skips a submitted case whose HR owner is inactive (`scheduled.py:157`) and
  reports one the CEO serves.
- A bulk creation opens a direct CEO case for a manager with a supervisor and no deputy,
  whom the single handler refuses. Its notices are a second transaction.
- `stage_stats` orders the rows of a case by `created_at` (`stage_stats.py:176`), the start
  of the transaction (`models/audit_log.py:21`); the present stay begins at the move itself
  (`workflow.py:304`). A request that waited for the lock of the case comes before the move
  it waited for, and a finished stay is followed by one in a status the case did not go to,
  against `stage_stats.py:106` («the log tells when a case went from where to where»). In
  the instance of `Desks` two moves of one case are enough. What remains true is
  `VisitsFitTheLife` and `PassesTellReturns`.
- A submission pins the form to the latest framework (`me.py:276`) and reads the latest
  framework again, without a lock, for the questions (`self_assessment.py:83`). In the
  instance of `Rules` a framework published in between leaves a form that names one version
  and holds complete answers to the next, against `me.py:275` («Pin the version at
  submission»). What remains true is the last part of `AnswersHaveQuestions`.
- A case takes the framework of an open form, a form the one of the day it is submitted
  (`evaluations.py:381`, `me.py:275`): whether a case asks what its subject has answered
  depends on the order.
- `resolve_objection` tells only accounts of the role employee, while any linked account
  may object. An objection refiled after its answer keeps the old answer (`me.py:430`).

Rules and numbers
- Section weights must add up to 1 at six digits (`schemas/scoring_scheme.py:48`, «or the
  final score is no percentage») and are stored with three: 0.6665 and 0.3335 become 0.667
  and 0.334, and a full sheet of the fourth scheme of `Arithmetic` gets 100.1 %, outside the
  range `evaluation.py:165` counts on. `ResultIsAPercentage` bounds the excess. The weights
  of the models have up to four digits; a sum that differs from 1 by less than half a
  millionth also passes the validation, and is not modelled.
- The rebinding of cases nobody has written in (`indicator_framework.py:147`) reads them
  before the commit; a case scored meanwhile moves with the others. A draft that was just
  activated and not yet used can be deleted. Version numbers of deleted drafts come again.
- The preview of numbers with more digits than the columns have shows other rules than
  those that take effect (`PreviewIsClose` says by how much). The comment «form plus bonus
  is the result» of `compute_result` fails for a bonus with two decimals.

Sessions and accounts
- A password reset by HR that overlaps the user's own change leaves `must_change_password`
  false with the temporary password. A refresh that overlaps a change of the password
  opens a session after it. A login that succeeds deletes a lock set meanwhile.
- The last holder of `manage_capabilities` can be deactivated by a holder of
  `manage_users`, lose it on becoming HR, or leave; two holders can remove each other
  (`users.py:166`). An employee who was HR keeps rows of capabilities that
  `set_capabilities` refuses to remove.
- Two accounts linked to one person: a departure closes one. Two replicas starting at once
  can make two administrators. Accounts made by the scripts are not logged.
- A setting works before its commit, in its own process only, and stays if the commit
  fails; two overlapping saves leave the first without effect.
- `SoleCeo` of the import counts CEOs with a full name; a concurrent duplicate fails the
  whole file. Without a site two units may share a name, and a unit can be deleted while a
  person is entered for it.

Pages, queue, locks
- Rows of a channel that is not configured are skipped as they are, stay due, and count in
  the batch (`delivery.py:141-149`); when the oldest fill it, no younger row is handed out
  for as long as the channel stays off, against `delivery.py:172` and
  `src/backend/tests/test_notification_delivery.py:280` (one bad channel must not stop the
  rest). In the instance of `Outbox` the two SMS do it, and with eight candidates too. The
  premise of `RowsAreSettled` excludes exactly this.
- The list hides a case from a deputy or CEO who sits lower; the CEO's tile of what waits
  omits cases in `hr_approved` without a deputy; the tile for drafts of a manager is
  always 0; statistics give past visits to the present holders. HR's completion rate counts
  leavers in the numerator only. An HR user who is the subject is told of their case.
- A delivery on which the channel raises an unexpected exception is tried for ever
  (`delivery.py:186`), which `TriesAreBounded` excepts. A download waits for another
  document while it holds the lock of the chain (`evaluations.py:1342`). A deadlock that
  PostgreSQL breaks is answered with a 500.

## 5. Proofs

For every value of the constants that satisfies the named assumptions (TLC evaluates them
in every run). Each proof has one inductive invariant; the module names what in it is more
than the property.

- `EvaluationWorkflowProofs`: all invariants of `Review` and `Races`, type correctness,
  `NothingEntersALateCase` and the refinement of `EvaluationLifecycle`. The invariant is
  built in layers. What `FinalizedWasReviewed` says is not inductive, since approvals are
  given earlier and returns go back; `StatusIsSigned` says of each status which signatures
  stand on the result the case carries now, and each handler is a *legal write* of a row
  (lemmas `...Legal`). One open case per person needs what is said of uncommitted rows
  (`CreationsDoNotCollide`). Seats need the copies of chains that requests hold. The
  refinement maps each legal write to an edge of the lifecycle or a stutter.
- `ScoringRulesProofs`: the four properties of `Rules`. The invariant adds what is still
  true of what a call has read (`Sound`): if nobody has published since its flush, the
  members it has computed are those its own change leaves active; a scheme a creation has
  read has been active; the answers a submission is about to store are those to a version
  not older than the one it has pinned.
- The desks, in the same module. Every step of `CaseDesks` is one of the cases
  (`DesksKeepTheCases`), so all of the above holds with them. `StaysFitTheLife` and
  `PassesCountReturns` need `PathIsSound`, which says nothing of the order of the moves: the
  rows of the log lie in the order of their moments, between the opening and the present
  stay (`TimesFit`); a stage a case has passed is behind it (`StagesPassed`); and without a
  return no stage comes twice (`OnlyReturnsRepeat`). `SeatsAreTold` follows from `HolderIsTold`,
  which no edit of an account and no reassignment disturbs, for all desks but the shared
  queue of HR. `HoldersAreTold` adds that queue under the hypothesis `HrStays` (no account
  of HR is edited): an account that is made HR's or switched on after a submission serves
  the queue and has had no notice.
- `AwaitedCasesAreHandled` has the hypothesis `AccountsAreSettled`, and each part of it
  excludes a disagreement of the pages that the code allows: after a change of a role or
  link the holder of a seat sees the case and is refused; an account of HR that is linked
  to a person claims its own case by returning it; the chains of an installation are as
  `upsert_access` would have them; and of a framework without indicators the empty sheet
  would be complete. `Settled` is the invariant: roles and links are those of the roster, and
  chains, rows of requests and cases name accounts that fit their seats and are not the
  subject's.
- The arithmetic, in the same module. A sum of the questions of a section is a fold over a
  set, which is a chosen recursive function on its subsets. That there is one, that two
  agree where both are defined, and that sums grow with their terms is shown on a smallest
  set where it fails (strict inclusion of finite sets is well-founded), which needs no
  induction theorem. A rounded quotient grows with its numerator whichever ties go up
  (`NearestGrows`), and a special score that is cut is cut to what is left to a hundred. So
  `BetterSheetsAreNotWorse` holds for whatever HR may propose. The invariants hold as widely:
  the stored weights of a valid scheme add up to at most a thousandth more than 1
  (`StoredRules`), hence the tenth of `ResultsArePercentages`; and a base changes by at most
  a tenth with the weights and a bonus by less than a tenth with its limit
  (`BaseIsClose`, `TotalIsClose`), hence the two tenths of `PreviewsAreClose`.
- `AuditChainProofs`: `ChainVerifies`; `LogGrowsBehind`: a committed row stays and
  later commits add greater ids only; and `ChainImplementsLog`, the refinement of
  `EventLog`. Rows that are not committed are all of the holder of the lock and lie behind
  the committed ones (`Own`, `Behind`), so the row a call has read as the last is the last
  of all (`Prev`), and a rollback takes rows off the end only. The refinement maps a row to
  its place in the log by counting the rows below it (`Numbered`): committed rows have the
  places from 1 on, and a commit fills the next ones.
- `SessionsProofs`: both properties of `Sessions`. A session on its way to a browser is
  nowhere else (`OneWay`), a session is in one browser and the calls about it are that
  browser's (`OneBrowser`), a rotated one still in its browser waits for a successor that
  is under way or lost (`Awaited`), and so what is used past its grace is what has lost its
  successor (`PastUse`).
- `ScheduledSweepsProofs`: `NoDoubleReminder` and `CopiesAgree`. A run reads `notes` and
  commits later; the invariant adds that whoever works in a run is the `leader`
  (`LockHeld`), that what it is about to commit is still fresh (`DraftsAreFresh`), and that
  an uncommitted document is the only one of its case (`InsertedIsFirst`).
- `DeliveryOutboxProofs`: `TriesAreBounded` and `SettledStaysSettled`. A rollback forgets
  attempts that were made; the invariant counts them (`CallsAreCounted`), because a run
  takes a row at most once (`OncePerRun`).
- `CaseAftermathProofs`: the four properties of `Aftermath`. A call commits what it has
  decided on rows it read earlier; `Sound` says of each kind of call what is still true of
  that when it commits (the day of an objection is still in a window the log holds, the row
  an update read was a row of its table), and `CallsKept` that no step of another call takes
  it away. `CasesLogged` ties the columns of a case to its events.
- `DirectoryProofs`: all that `Directory` checks. A call that resolves names, checks a
  row or looks for a trace of an account acts on it later; `CallsAreBacked` says what it may
  still rely on at its commit (whoever makes it has acted and the person it names is there),
  because no account the log names and no person ever goes away (`NothingIsLost`), and the
  foreign keys keep what chains and units refer to.

Besides the assumptions on the constants, two theorems have the hypotheses named above
(`HrStays`, `AccountsAreSettled`); the run `Desks` satisfies them. Finite sets of ids
(`RecordsAssumption`) are assumed where cases are counted. Each of the eight modules proves
type correctness, which the runs therefore do not repeat; that of `Directory`, where
bodies, files and rows of several tables meet, is checked by its run too.

Only model-checked are the liveness properties `OwnersAreReminded`, `DocumentsAreArchived`,
`RowsAreSettled` and `CallsEnd`, which need fairness and ENABLED, out of the prover's reach.
No module uses a RECURSIVE operator.

## 6. Not modelled

- The assistant: its router is not registered and migration `a4f6c8e91b20` drops its
  tables; the files left over cannot run.
- Rate limits, metrics and logging: counters of a process without effect on a case.
- The web client: it keeps no authoritative state, every rule is checked again by the
  handlers.
- Of reports and dashboards: averages, rankings, charts and exports, which are queries.
- Of documents: the bytes, the hash and the public page of verification.
- Of the channels: SMTP, SMS and console; only their outcomes.
- Of the scheduler: the rows of `scheduler_runs`, and a connection that loses the lock
  while its run goes on. (The purge of login attempts is `Purge` of `Sessions`.)
- The thread of comments, `evaluator_comment`, the progress page of a period, reordering
  and rewording of indicators, titles and dates of plans and people: no modelled guard
  reads them.

## 7. Order of work

The workflow came first, then what runs by itself (sweeps, outbox), then the machinery all
rely on (`AuditChain`), what follows a case (`CaseAftermath`), the rules it is measured by
(`ScoringRules`, `ScoringArithmetic`), sessions, the directory, and the desks. What would
come next: the rows of `scheduler_runs` and a broken lock connection in `ScheduledSweeps`,
and the page of a period's progress in `CaseDesks`.

--------------------------- MODULE ScheduledSweeps ---------------------------
(***************************************************************************)
(* The scheduled work of the system: every replica of the backend runs a   *)
(* loop that tries an advisory lock of the database, and the one that gets *)
(* it sends the reminders, archives the documents the background tasks     *)
(* left out, commits once and lets the lock go.  A request of HR may start *)
(* the same run.  Beside the runs, background tasks and downloads archive  *)
(* documents on their own, handlers move the cases, and processes crash.   *)
(* Sources: services/scheduler_lock.py, services/scheduled.py,             *)
(* services/notifications.py (notify_once), services/documents.py.         *)
(* The outgoing messages of a run are the module DeliveryOutbox.           *)
(***************************************************************************)
EXTENDS Naturals, FiniteSets

CONSTANTS
  Loops,      \* the scheduler loops, one per replica
  Requests,   \* the requests of POST /admin/run-scheduled-jobs
  Renderers,  \* background tasks and downloads that archive a document
  Cases,      \* evaluation records
  Seats,      \* Seats[c]: the chain of c, a record [sup, deputy, ceo]
  Users, Hr,  \* the accounts, and those of HR
  Leavers,    \* the accounts that may be deactivated and activated
  Topics,     \* subjects of the reminders about contracts and improvement plans
  Backfill,   \* _DOCUMENT_BACKFILL_BATCH
  MaxFaults,  \* bound on the crashes, failed runs and failed renderings
  None

Runners == Loops \cup Requests
Makers  == Runners \cup Renderers

ASSUME RunnersAssumption == Loops \cap Requests = {} /\ Runners \cap Renderers = {}
ASSUME CasesAssumption == IsFiniteSet(Cases)
ASSUME PeopleAssumption == Hr \subseteq Users /\ Leavers \subseteq Users
ASSUME NoneAssumption == None \notin Users \cup Makers \cup Cases
ASSUME SeatsAssumption ==
  Seats \in [Cases -> [sup : Users \cup {None}, deputy : Users \cup {None}, ceo : Users]]
ASSUME BoundsAssumption == Backfill \in Nat \ {0} /\ MaxFaults \in Nat

VARIABLES
  stage,      \* stage[c]: the status of the case, "none" before it is opened
  stalled,    \* the cases whose stage_entered_at is past the SLA
  closedAt,   \* closedAt[c]: the place of c in the order of finalized_at
  due,        \* the topics whose reminder is due
  active,     \* the active accounts
  notes,      \* notes[a]: committed reminders a still inside the dedup window
  docs,       \* docs[c]: who made the archived document of c, or None
  leader,     \* the runner whose connection holds the advisory lock, or None
  pc,         \* pc[r]: how far the run of r has come
  drafts,     \* drafts[r]: the reminders r has inserted and not committed
  backlog,    \* backlog[r]: the cases the run of r still has to archive
  rendering,  \* rendering[m]: the case a background task or download renders
  inserted,   \* inserted[m]: the documents m has inserted and not committed
  served,     \* <<c, m>>: the document made by m was given out for c
  faults      \* crashes and failures so far

world   == <<stage, stalled, closedAt, due, active>>
runs    == <<leader, pc, drafts, backlog>>
archive == <<docs, rendering, inserted, served>>
vars    == <<world, notes, runs, archive, faults>>

OpenStages == {"draft", "submitted", "hr_approved", "deputy_approved"}
Stages == OpenStages \cup {"none", "finalized", "cancelled"}

\* The dedup_key of the reminders.
Keys == ({"sla", "orphaned"} \X Cases \X OpenStages) \cup ({"topic"} \X Topics)
Alerts == Users \X Keys

\* Inside a run the lock is held.
Working == {"sweeping", "archiving", "unlocking"}

TypeOK ==
  /\ stage \in [Cases -> Stages]
  /\ stalled \subseteq Cases
  /\ closedAt \in [Cases -> Nat]
  /\ due \subseteq Topics
  /\ active \subseteq Users
  /\ notes \in [Alerts -> Nat]
  /\ docs \in [Cases -> Makers \cup {None}]
  /\ leader \in Runners \cup {None}
  /\ pc \in [Runners -> Working \cup {"idle", "down"}]
  /\ drafts \in [Runners -> SUBSET Alerts]
  /\ backlog \in [Runners -> SUBSET Cases]
  /\ rendering \in [Renderers -> Cases \cup {None}]
  /\ inserted \in [Makers -> SUBSET Cases]
  /\ served \subseteq Cases \X Makers
  /\ faults \in 0..MaxFaults

Init ==
  /\ stage = [c \in Cases |-> "none"]
  /\ closedAt = [c \in Cases |-> 0]
  /\ stalled = {} /\ due = {} /\ active = Users
  /\ notes = [a \in Alerts |-> 0]
  /\ docs = [c \in Cases |-> None]
  /\ leader = None
  /\ pc = [r \in Runners |-> "idle"]
  /\ drafts = [r \in Runners |-> {}]
  /\ backlog = [r \in Runners |-> {}]
  /\ rendering = [m \in Renderers |-> None]
  /\ inserted = [m \in Makers |-> {}]
  /\ served = {} /\ faults = 0

-------------------------------------------------------------------------------
(* The cases, as the handlers move them, and time *)

IsManagerPath(c) == Seats[c].sup = None
IsDirectCeoPath(c) == IsManagerPath(c) /\ Seats[c].deputy = None

\* The rows of TRANSITIONS that fit the chain of c, and the creation of c.
Moves(c) ==
  {<<"none", "draft">>, <<"draft", "submitted">>, <<"submitted", "draft">>}
  \cup (OpenStages \X {"cancelled"})
  \cup CASE IsDirectCeoPath(c) ->
              {<<"submitted", "finalized">>}
         [] IsManagerPath(c) /\ ~IsDirectCeoPath(c) ->
              {<<"submitted", "deputy_approved">>, <<"deputy_approved", "submitted">>,
               <<"deputy_approved", "finalized">>}
         [] ~IsManagerPath(c) /\ Seats[c].deputy = None ->
              {<<"submitted", "hr_approved">>, <<"hr_approved", "finalized">>}
         [] OTHER ->
              {<<"submitted", "hr_approved">>, <<"hr_approved", "submitted">>,
               <<"hr_approved", "deputy_approved">>, <<"deputy_approved", "hr_approved">>,
               <<"deputy_approved", "finalized">>}

Finalized == {c \in Cases : stage[c] = "finalized"}

\* apply_transition: the case enters its new stage now.
Move(c) ==
  \E s \in Stages :
    /\ <<stage[c], s>> \in Moves(c)
    /\ stage' = [stage EXCEPT ![c] = s]
    /\ stalled' = stalled \ {c}
    /\ closedAt' = IF s = "finalized"
                   THEN [closedAt EXCEPT ![c] = Cardinality(Finalized)] ELSE closedAt
    /\ UNCHANGED <<due, active, notes, runs, archive, faults>>

\* sla_reminder_days pass while the case stands where it is.
Stall(c) ==
  /\ stage[c] \in OpenStages
  /\ stalled' = stalled \cup {c}
  /\ UNCHANGED <<stage, closedAt, due, active, notes, runs, archive, faults>>

\* A contract comes near its end, a review date approaches, or either is dealt with.
TopicChanges(t) ==
  /\ due' = IF t \in due THEN due \ {t} ELSE due \cup {t}
  /\ UNCHANGED <<stage, stalled, closedAt, active, notes, runs, archive, faults>>

\* update_user deactivates an account or activates it.
ActivityChanges(u) ==
  /\ active' = IF u \in active THEN active \ {u} ELSE active \cup {u}
  /\ UNCHANGED <<stage, stalled, closedAt, due, notes, runs, archive, faults>>

\* A committed reminder grows older than the window of notify_once.
DedupElapses(a) ==
  /\ notes[a] > 0
  /\ notes' = [notes EXCEPT ![a] = @ - 1]
  /\ UNCHANGED <<world, runs, archive, faults>>

-------------------------------------------------------------------------------
(* What the sweeps read *)

ActiveHr == Hr \cap active

\* Who scores the case: the holder of the lowest seat of its chain.
Scorer(c) ==
  IF ~IsManagerPath(c) THEN Seats[c].sup
  ELSE IF IsDirectCeoPath(c) THEN Seats[c].ceo ELSE Seats[c].deputy

\* _current_owner_ids.  In hr_approved the owner is the deputy's seat, which is
\* None for a chain without a deputy.
Owners(c) ==
  CASE stage[c] = "draft" -> {Scorer(c)}
    [] stage[c] = "submitted" -> ActiveHr
    [] stage[c] = "hr_approved" -> {Seats[c].deputy}
    [] stage[c] = "deputy_approved" -> {Seats[c].ceo}
    [] OTHER -> {}

\* run_sla_sweep
SlaAlerts ==
  UNION {Owners(c) \X {<<"sla", c, stage[c]>>} : c \in {d \in stalled : stage[d] \in OpenStages}}

IsOrphaned(c) ==
  /\ stage[c] \in OpenStages \ {"submitted"}
  /\ Owners(c) \cap active = {}

\* run_orphaned_case_sweep
OrphanAlerts ==
  UNION {ActiveHr \X {<<"orphaned", c, stage[c]>>} : c \in {d \in Cases : IsOrphaned(d)}}

\* run_contract_expiry_sweep and run_improvement_review_sweep
TopicAlerts == ActiveHr \X ({"topic"} \X due)

AlertsDue == SlaAlerts \cup OrphanAlerts \cup TopicAlerts

\* notify_once: no reminder of this key to this user inside the window.
Fresh(alerts) == {a \in alerts : notes[a] = 0}

\* Notification.user_id is NOT NULL: the flush of such a row raises.
Raises(alerts) == \E a \in alerts : a[1] = None

\* get_document
HasDocument(c) == docs[c] # None

\* Mutant: the subquery has_document is dropped.
EverythingClosed == Finalized

Undocumented == {c \in Finalized : ~HasDocument(c)}

\* The query of run_document_backfill_sweep: the oldest, up to its LIMIT.
NextToArchive ==
  {c \in Undocumented :
     Cardinality({d \in Undocumented : closedAt[d] < closedAt[c]}) < Backfill}

-------------------------------------------------------------------------------
(* The run of a runner: run_sweeps_once around run_all_sweeps *)

\* Mutant: the result of pg_try_advisory_lock is not looked at.
LockIgnored == TRUE

LockFree == leader = None

\* pg_try_advisory_lock; without the lock the run ends as skipped_locked.
Acquire(r) ==
  /\ pc[r] = "idle"
  /\ LockFree
  /\ leader' = r
  /\ pc' = [pc EXCEPT ![r] = "sweeping"]
  /\ UNCHANGED <<world, notes, drafts, backlog, archive, faults>>

\* The rollback of a failed run; its lock is still to be released.
RolledBack(r) ==
  /\ pc' = [pc EXCEPT ![r] = "unlocking"]
  /\ drafts' = [drafts EXCEPT ![r] = {}]
  /\ backlog' = [backlog EXCEPT ![r] = {}]
  /\ inserted' = [inserted EXCEPT ![r] = {}]
  /\ UNCHANGED <<world, notes, leader, docs, rendering, served>>

\* The four sweeps of reminders, and the query of run_document_backfill_sweep.
Remind(r) ==
  /\ pc[r] = "sweeping"
  /\ IF Raises(AlertsDue)
     THEN RolledBack(r)
     ELSE /\ pc' = [pc EXCEPT ![r] = "archiving"]
          /\ drafts' = [drafts EXCEPT ![r] = Fresh(AlertsDue)]
          /\ backlog' = [backlog EXCEPT ![r] = NextToArchive]
          /\ UNCHANGED <<world, notes, leader, archive>>
  /\ UNCHANGED faults

\* The unique index on evaluation_record_id: an INSERT waits for one that is
\* not committed, and fails beside one that is.
MayInsert(m, c) == \A n \in Makers \ {m} : c \notin inserted[n]

\* Mutant: no unique index on evaluation_record_id.
NoConflict(c) == FALSE

Conflicts(c) == HasDocument(c)

\* archive_final_pdf for a case of the backlog.
Archive(r) ==
  /\ pc[r] = "archiving"
  /\ \E c \in backlog[r] :
       /\ MayInsert(r, c)
       /\ inserted' = IF Conflicts(c) THEN inserted
                      ELSE [inserted EXCEPT ![r] = @ \cup {c}]
       /\ backlog' = [backlog EXCEPT ![r] = @ \ {c}]
  /\ UNCHANGED <<world, notes, leader, pc, drafts, docs, rendering, served, faults>>

\* The rendering raises RuntimeError: archive_final_pdf returns None.
ArchiveFails(r) ==
  /\ pc[r] = "archiving" /\ faults < MaxFaults
  /\ faults' = faults + 1
  /\ \E c \in backlog[r] : backlog' = [backlog EXCEPT ![r] = @ \ {c}]
  /\ UNCHANGED <<world, notes, leader, pc, drafts, archive>>

\* The commit at the end of run_all_sweeps.
Commit(r) ==
  /\ pc[r] = "archiving" /\ backlog[r] = {}
  /\ pc' = [pc EXCEPT ![r] = "unlocking"]
  /\ notes' = [a \in Alerts |-> IF a \in drafts[r] THEN notes[a] + 1 ELSE notes[a]]
  /\ docs' = [c \in Cases |-> IF c \in inserted[r] THEN r ELSE docs[c]]
  /\ drafts' = [drafts EXCEPT ![r] = {}]
  /\ inserted' = [inserted EXCEPT ![r] = {}]
  /\ UNCHANGED <<world, leader, backlog, rendering, served, faults>>

\* pg_advisory_unlock, in the outer finally.
Unlock(r) ==
  /\ pc[r] = "unlocking"
  /\ leader' = None
  /\ pc' = [pc EXCEPT ![r] = "idle"]
  /\ UNCHANGED <<world, notes, drafts, backlog, archive, faults>>

\* Any exception of a sweep: rollback, a failed run on record, then the unlock.
RunFails(r) ==
  /\ pc[r] \in {"sweeping", "archiving"} /\ faults < MaxFaults
  /\ faults' = faults + 1
  /\ RolledBack(r)

\* Mutant: a lock row in a table, which a crash leaves behind.
LockRowStays(r) == leader

\* The lock belongs to the connection: the server frees it with the process.
LockAfterCrash(r) == IF leader = r THEN None ELSE leader

Crash(r) ==
  /\ pc[r] # "down" /\ faults < MaxFaults
  /\ faults' = faults + 1
  /\ leader' = LockAfterCrash(r)
  /\ pc' = [pc EXCEPT ![r] = "down"]
  /\ drafts' = [drafts EXCEPT ![r] = {}]
  /\ backlog' = [backlog EXCEPT ![r] = {}]
  /\ inserted' = [inserted EXCEPT ![r] = {}]
  /\ UNCHANGED <<world, notes, docs, rendering, served>>

\* The container is started again.
Restart(r) ==
  /\ pc[r] = "down"
  /\ pc' = [pc EXCEPT ![r] = "idle"]
  /\ UNCHANGED <<world, notes, leader, drafts, backlog, archive, faults>>

-------------------------------------------------------------------------------
(* Background tasks after a finalization, and downloads *)

\* A document that exists is given out.
Serve(m, c) ==
  /\ rendering[m] = None /\ HasDocument(c)
  /\ served' = served \cup {<<c, docs[c]>>}
  /\ UNCHANGED <<world, notes, runs, docs, rendering, inserted, faults>>

\* archive_final_pdf finds no document and renders one.
StartRendering(m, c) ==
  /\ rendering[m] = None /\ stage[c] = "finalized" /\ ~HasDocument(c)
  /\ rendering' = [rendering EXCEPT ![m] = c]
  /\ UNCHANGED <<world, notes, runs, docs, inserted, served, faults>>

\* The INSERT in a savepoint; after a conflict the document that won is given out.
Insert(m) ==
  LET c == rendering[m]
  IN /\ c # None /\ c \notin inserted[m]
     /\ MayInsert(m, c)
     /\ IF Conflicts(c)
        THEN /\ served' = served \cup {<<c, docs[c]>>}
             /\ rendering' = [rendering EXCEPT ![m] = None]
             /\ UNCHANGED inserted
        ELSE /\ inserted' = [inserted EXCEPT ![m] = {c}]
             /\ UNCHANGED <<served, rendering>>
     /\ UNCHANGED <<world, notes, runs, docs, faults>>

\* The commit of the request or task, then its response.
CommitDocument(m) ==
  /\ rendering[m] \in inserted[m]
  /\ docs' = [docs EXCEPT ![rendering[m]] = m]
  /\ served' = served \cup {<<rendering[m], m>>}
  /\ rendering' = [rendering EXCEPT ![m] = None]
  /\ inserted' = [inserted EXCEPT ![m] = {}]
  /\ UNCHANGED <<world, notes, runs, faults>>

\* The rendering fails, or the process dies with it: nothing is kept.
RenderingLost(m) ==
  /\ rendering[m] # None
  /\ rendering' = [rendering EXCEPT ![m] = None]
  /\ inserted' = [inserted EXCEPT ![m] = {}]
  /\ UNCHANGED <<world, notes, runs, docs, served, faults>>

-------------------------------------------------------------------------------
RunStep(r) == Remind(r) \/ Archive(r) \/ Commit(r) \/ Unlock(r)

Next ==
  \/ \E c \in Cases : Move(c) \/ Stall(c)
  \/ \E t \in Topics : TopicChanges(t)
  \/ \E u \in Leavers : ActivityChanges(u)
  \/ \E a \in Alerts : DedupElapses(a)
  \/ \E r \in Runners :
       \/ Acquire(r) \/ Remind(r) \/ Archive(r) \/ ArchiveFails(r)
       \/ Commit(r) \/ Unlock(r) \/ RunFails(r) \/ Crash(r) \/ Restart(r)
  \/ \E m \in Renderers :
       \/ \E c \in Cases : Serve(m, c) \/ StartRendering(m, c)
       \/ Insert(m) \/ CommitDocument(m) \/ RenderingLost(m)

\* A loop tries again after every interval and a container that died is started
\* again; a run that has begun goes on, and a request in flight ends.  An INSERT
\* that waits for another transaction is woken when that one ends, before the
\* next request can insert: strong fairness.
Fairness ==
  /\ \A r \in Loops : WF_vars(Acquire(r))
  /\ \A r \in Runners : SF_vars(RunStep(r)) /\ WF_vars(Restart(r))
  /\ \A m \in Renderers : WF_vars(Insert(m) \/ CommitDocument(m) \/ RenderingLost(m))

Spec == Init /\ [][Next]_vars /\ Fairness
-------------------------------------------------------------------------------
\* Whatever the replicas and HR start at once, nobody is reminded twice of one
\* thing inside the window: the reading of notify_once and its commit are apart,
\* and only the advisory lock keeps another run out in between.
NoDoubleReminder == \A a \in Alerts : notes[a] <= 1

\* Every copy of a document that was ever given out is the archived one.
CopiesAgree == \A copy \in served : docs[copy[1]] = copy[2]

\* Who has to act on a case has not been told that it has stood too long at this stage.
Unreminded(c, u) ==
  c \in stalled /\ u \in Owners(c) /\ notes[<<u, <<"sla", c, stage[c]>>>>] = 0

\* A case that has stood too long is pointed out to whoever has to act on it, if
\* it stays where it is, whichever replica dies in the middle of a run.
OwnersAreReminded ==
  \A c \in Cases, u \in Users : Unreminded(c, u) ~> ~Unreminded(c, u)

\* A finalized case gets its document even if every background task is lost: the
\* guarantee run_document_backfill_sweep claims.
DocumentsAreArchived ==
  \A c \in Cases : (stage[c] = "finalized") ~> HasDocument(c)
===============================================================================

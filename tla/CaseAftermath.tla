---------------------------- MODULE CaseAftermath ----------------------------
(***************************************************************************)
(* What follows a finalized case: its subject acknowledges the result and  *)
(* may object, HR answers; for a low result HR keeps an improvement plan,  *)
(* whose owner ticks its goals.  All but one of these handlers read their  *)
(* rows without a lock and write them later, under the lock of the audit   *)
(* chain: a call is in flight between the two.  An UPDATE names only the   *)
(* columns whose new value differs from the one the call has read.         *)
(* Sources: api/routers/me.py, improvement_plans.py, evaluations.py.       *)
(***************************************************************************)
EXTENDS Naturals, Sequences, FiniteSets

CONSTANTS
  None,
  Users,
  RoleOf,      \* RoleOf[u]: the role of an account
  PersonOf,    \* PersonOf[u]: the personnel row it is linked to, or None
  Cases,       \* finalized cases
  SubjectOf,   \* SubjectOf[c]: the person a case is about
  LowScored,   \* the cases whose percentage is below improvement_plan_max_pct
  Plans, Goals,
  Texts,       \* the texts of a goal
  Leavers,     \* the accounts that may be deactivated
  Slots,       \* how many calls can be in flight
  Window,      \* objection_window_days
  LastDay,     \* bound on the days that pass
  MaxEvents    \* bound on the events of the log and the calls in flight

ASSUME NumbersAssumption == Window \in Nat /\ LastDay \in Nat /\ MaxEvents \in Nat
ASSUME AccountsAssumption ==
  RoleOf \in [Users -> {"hr", "unit_supervisor", "deputy", "ceo", "employee"}]
ASSUME NoneAssumption ==
  None \notin Users \cup Cases \cup Plans \cup Goals \cup Texts \cup (0..LastDay)

VARIABLES
  today,
  active,   \* the accounts that are active
  case,     \* case[c]: the columns of the objection of a case
  plan,     \* plan[p]: a row of improvement_plans, None before its commit
  goal,     \* goal[g]: a row of improvement_plan_goals, None before its commit
  call,     \* call[s]: the call in flight in a slot, with what it has read
  log,      \* audit_log: the events of these handlers in the order of their ids
  told      \* the notifications: who was told what about what

vars == <<today, active, case, plan, goal, call, log, told>>

Days == 0..LastDay
CaseRows == [acknowledged : Days \cup {None}, objected : Days \cup {None}, resolved : BOOLEAN]
PlanRows == [case : Cases, status : {"open", "completed", "cancelled"},
             owner : Users \cup {None}, followUp : Cases \cup {None}]
GoalRows == [plan : Plans, text : Texts, done : BOOLEAN, deleted : BOOLEAN]

ASSUME RowsAssumption == None \notin PlanRows \cup GoalRows

TypeOK ==
  /\ today \in Days
  /\ active \subseteq Users
  /\ case \in [Cases -> CaseRows]
  /\ plan \in [Plans -> PlanRows \cup {None}]
  /\ goal \in [Goals -> GoalRows \cup {None}]

Init ==
  /\ today = 0
  /\ active = Users
  /\ case = [c \in Cases |-> [acknowledged |-> None, objected |-> None, resolved |-> FALSE]]
  /\ plan = [p \in Plans |-> None]
  /\ goal = [g \in Goals |-> None]
  /\ call = [s \in Slots |-> None]
  /\ log = <<>>
  /\ told = {}

Hr == {u \in Users : RoleOf[u] = "hr"}
PlanRoles == {"hr", "unit_supervisor", "deputy", "ceo"}

-------------------------------------------------------------------------------
(* Calls *)

InFlight == {s \in Slots : call[s] # None}

\* The part of a handler before its writes: what it has checked holds now.
Begins(s, op, u, x, saw, new) ==
  /\ call[s] = None /\ u \in active
  /\ Len(log) + Cardinality(InFlight) < MaxEvents
  /\ call' = [call EXCEPT ![s] = [op |-> op, by |-> u, on |-> x, saw |-> saw, new |-> new]]
  /\ UNCHANGED <<today, active, case, plan, goal, log, told>>

\* log_event, the writes and the commit of the call in s.
Commits(s, op) ==
  /\ call[s] # None /\ call[s].op = op
  /\ call' = [call EXCEPT ![s] = None]
  /\ log' = Append(log, [type |-> op, by |-> call[s].by, on |-> call[s].on,
                         old |-> call[s].saw, new |-> call[s].new])
  /\ UNCHANGED <<today, active>>

\* An error, a refusal of the database or the death of the process.
Rollback(s) ==
  /\ call[s] # None
  /\ call' = [call EXCEPT ![s] = None]
  /\ UNCHANGED <<today, active, case, plan, goal, log, told>>

\* Mutant: the UPDATE names every column of the row the call has read.
WholeRow(row, saw, new) == [f \in DOMAIN row |-> IF f \in DOMAIN new THEN new[f] ELSE saw[f]]

\* The fields of a PATCH that an UPDATE names.
Changed(saw, new) == {f \in DOMAIN new : new[f] # saw[f]}

\* The row after the UPDATE.
Updated(row, saw, new) ==
  [f \in DOMAIN row |-> IF f \in Changed(saw, new) THEN new[f] ELSE row[f]]

\* The bodies of a PATCH: some of the fields, each with one of its values.
Patches(row, fields) ==
  UNION {{patch \in [F -> UNION {row[f] : f \in F}] : \A f \in F : patch[f] \in row[f]} :
           F \in SUBSET fields \ {{}}}

Notified(type, us, x) == {<<type, u, x>> : u \in us}

-------------------------------------------------------------------------------
(* Acknowledgement and objection: me.py *)

\* _my_record_or_404
Mine(u, c) == PersonOf[u] # None /\ PersonOf[u] = SubjectOf[c]

BeginAcknowledge(s, u, c) ==
  /\ Mine(u, c) /\ case[c].acknowledged = None
  /\ Begins(s, "acknowledge", u, c, None, today)

Acknowledge(s) ==
  /\ Commits(s, "acknowledge")
  /\ case' = [case EXCEPT ![call[s].on].acknowledged = call[s].new]
  /\ told' = told \cup Notified("evaluation_acknowledged", Hr \cap active, call[s].on)
  /\ UNCHANGED <<plan, goal>>

\* Mutant: an acknowledgement is enough, whenever it was.
EverObjectable(c) ==
  case[c].acknowledged # None /\ case[c].objected = None

MayObject(c) ==
  /\ case[c].acknowledged # None /\ case[c].objected = None
  /\ today <= case[c].acknowledged + Window

BeginObjection(s, u, c) ==
  /\ Mine(u, c) /\ MayObject(c)
  /\ Begins(s, "object", u, c, None, today)

FileObjection(s) ==
  /\ Commits(s, "object")
  /\ case' = [case EXCEPT ![call[s].on].objected = call[s].new]
  /\ told' = told \cup Notified("evaluation_objection_filed", Hr \cap active, call[s].on)
  /\ UNCHANGED <<plan, goal>>

\* Mutant: the test for an earlier answer is dropped.
Objected(c) == case[c].objected # None

Answerable(c) == case[c].objected # None /\ ~case[c].resolved

\* The accounts of the subject that are told of the answer.
Objectors(c) == {u \in active : RoleOf[u] = "employee" /\ Mine(u, c)}

\* resolve_objection: the row is locked from the read to the commit.
ResolveObjection(u, c) ==
  /\ u \in Hr \cap active /\ ~Mine(u, c)
  /\ Answerable(c)
  /\ case' = [case EXCEPT ![c].resolved = TRUE]
  /\ log' = Append(log, [type |-> "resolve", by |-> u, on |-> c, old |-> None, new |-> None])
  /\ told' = told \cup Notified("evaluation_objection_resolved", Objectors(c), c)
  /\ UNCHANGED <<today, active, plan, goal, call>>

-------------------------------------------------------------------------------
(* Improvement plans *)

\* The committed rows.
Existing == {p \in Plans : plan[p] # None}

\* _ensure_owner_is_valid
OwnerIsValid(u) == u = None \/ u \in active

\* The unique index on evaluation_record_id, which waits for uncommitted rows.
UniqueAdmits(c) == \A p \in Existing : plan[p].case # c

\* create_plan up to its INSERT.
BeginCreatePlan(s, u, p, c, owner) ==
  /\ u \in Hr /\ c \in LowScored /\ plan[p] = None
  /\ \A r \in InFlight : call[r].op = "create_plan" => call[r].on # p
  /\ OwnerIsValid(owner)
  /\ Begins(s, "create_plan", u, p, None,
            [case |-> c, status |-> "open", owner |-> owner, followUp |-> None])

\* The owner, unless there is none.
Owner(row) == {row.owner} \ {None}

NewGoal(p, text) == [plan |-> p, text |-> text, done |-> FALSE, deleted |-> FALSE]

\* The INSERT, with at most one first goal, the event and the commit.
CreatePlan(s, g) ==
  /\ Commits(s, "create_plan")
  /\ UniqueAdmits(call[s].new.case)
  /\ plan' = [plan EXCEPT ![call[s].on] = call[s].new]
  /\ \/ goal' = goal
     \/ /\ goal[g] = None
        /\ \E text \in Texts : goal' = [goal EXCEPT ![g] = NewGoal(call[s].on, text)]
  /\ told' = told \cup
       Notified("improvement_plan_assigned", Owner(call[s].new), call[s].on)
  /\ UNCHANGED case

\* ImprovementPlanUpdate; title, summary and review date are left out.
PlanFields == [owner |-> Users \cup {None}, followUp |-> Cases \cup {None}]

\* update_plan up to its writes; it does not ask whether the plan is open.
BeginUpdatePlan(s, u, p) ==
  /\ u \in Hr /\ plan[p] # None
  /\ \E patch \in Patches(PlanFields, DOMAIN PlanFields) :
       /\ "owner" \in DOMAIN patch => OwnerIsValid(patch.owner)
       /\ "followUp" \in DOMAIN patch /\ patch.followUp # None =>
            SubjectOf[patch.followUp] = SubjectOf[plan[p].case]
       /\ Begins(s, "update_plan", u, p, plan[p], patch)

\* Mutant: an owner who takes over from another one is not told.
FirstOwner(saw, new) == IF saw.owner = None THEN Owner(Updated(saw, saw, new)) ELSE {}

\* The owner an update gives the plan to, as far as the call can tell.
NewOwner(saw, new) == Owner(Updated(saw, saw, new)) \ {saw.owner}

UpdatePlan(s) ==
  /\ Commits(s, "update_plan")
  /\ LET c == call[s]
     IN /\ plan' = [plan EXCEPT ![c.on] = Updated(@, c.saw, c.new)]
        /\ told' = told \cup Notified("improvement_plan_assigned", NewOwner(c.saw, c.new), c.on)
  /\ UNCHANGED <<case, goal>>

\* complete_plan and cancel_plan
Closings == {"completed", "cancelled"}

BeginClosePlan(s, u, p, closing) ==
  /\ u \in Hr /\ plan[p] # None /\ plan[p].status = "open"
  /\ Begins(s, "close_plan", u, p, plan[p], [status |-> closing])

ClosePlan(s) ==
  /\ Commits(s, "close_plan")
  /\ plan' = [plan EXCEPT ![call[s].on].status = call[s].new.status]
  /\ UNCHANGED <<case, goal, told>>

-------------------------------------------------------------------------------
(* Goals *)

\* _ensure_plan_open
PlanIsOpen(p) == plan[p] # None /\ plan[p].status = "open"

Live(g) == goal[g] # None /\ ~goal[g].deleted

\* _ensure_can_view, under require_plan_role
MayView(u, p) == RoleOf[u] = "hr" \/ (RoleOf[u] \in PlanRoles /\ plan[p].owner = u)

BeginAddGoal(s, u, g, p) ==
  /\ u \in Hr /\ PlanIsOpen(p) /\ goal[g] = None
  /\ \A r \in InFlight : call[r].op = "add_goal" => call[r].on # g
  /\ \E text \in Texts : Begins(s, "add_goal", u, g, None, NewGoal(p, text))

AddGoal(s) ==
  /\ Commits(s, "add_goal")
  /\ goal[call[s].on] = None
  /\ goal' = [goal EXCEPT ![call[s].on] = call[s].new]
  /\ UNCHANGED <<case, plan, told>>

\* GoalUpdate
GoalFields == [text |-> Texts, done |-> BOOLEAN]

\* What a caller may set: the owner ticks, HR also rewrites.
Settable(u) == IF RoleOf[u] = "hr" THEN {"text", "done"} ELSE {"done"}

BeginUpdateGoal(s, u, g) ==
  /\ Live(g) /\ PlanIsOpen(goal[g].plan) /\ MayView(u, goal[g].plan)
  /\ \E patch \in Patches(GoalFields, Settable(u)) :
       Begins(s, "update_goal", u, g, goal[g], patch)

\* An UPDATE of a row that is gone fails; one without columns is not sent.
UpdateGoal(s) ==
  /\ Commits(s, "update_goal")
  /\ LET c == call[s]
     IN /\ Changed(c.saw, c.new) = {} \/ Live(c.on)
        /\ goal' = [goal EXCEPT ![c.on] = Updated(@, c.saw, c.new)]
  /\ UNCHANGED <<case, plan, told>>

BeginDeleteGoal(s, u, g) ==
  /\ u \in Hr /\ Live(g) /\ PlanIsOpen(goal[g].plan)
  /\ Begins(s, "delete_goal", u, g, goal[g], None)

DeleteGoal(s) ==
  /\ Commits(s, "delete_goal")
  /\ goal' = [goal EXCEPT ![call[s].on].deleted = TRUE]
  /\ UNCHANGED <<case, plan, told>>

-------------------------------------------------------------------------------
(* Around the handlers *)

NextDay ==
  /\ today < LastDay
  /\ today' = today + 1
  /\ UNCHANGED <<active, case, plan, goal, call, log, told>>

\* update_user deactivates an account.
Deactivate(u) ==
  /\ u \in active
  /\ active' = active \ {u}
  /\ UNCHANGED <<today, case, plan, goal, call, log, told>>

Next ==
  \/ NextDay
  \/ \E u \in Leavers : Deactivate(u)
  \/ \E u \in Users, c \in Cases : ResolveObjection(u, c)
  \/ \E s \in Slots, u \in Users :
       \/ \E c \in Cases : BeginAcknowledge(s, u, c) \/ BeginObjection(s, u, c)
       \/ \E p \in Plans, c \in Cases, owner \in Users \cup {None} :
            BeginCreatePlan(s, u, p, c, owner)
       \/ \E p \in Plans : BeginUpdatePlan(s, u, p)
       \/ \E p \in Plans, closing \in Closings : BeginClosePlan(s, u, p, closing)
       \/ \E g \in Goals, p \in Plans : BeginAddGoal(s, u, g, p)
       \/ \E g \in Goals : BeginUpdateGoal(s, u, g) \/ BeginDeleteGoal(s, u, g)
  \/ \E s \in Slots :
       \/ Rollback(s) \/ Acknowledge(s) \/ FileObjection(s)
       \/ UpdatePlan(s) \/ ClosePlan(s)
       \/ AddGoal(s) \/ UpdateGoal(s) \/ DeleteGoal(s)
       \/ \E g \in Goals : CreatePlan(s, g)

Spec == Init /\ [][Next]_vars

-------------------------------------------------------------------------------
\* The events of one type about one thing, as places in the log.
Events(type, x) == {i \in DOMAIN log : log[i].type = type /\ log[i].on = x}

\* However calls overlap, the objection a case shows was filed within the window of
\* an acknowledgement the log holds, and not before it (file_objection).
ObjectionInItsWindow ==
  \A c \in Cases : case[c].objected # None =>
    \E i \in Events("acknowledge", c) :
      /\ log[i].new <= case[c].objected
      /\ case[c].objected <= log[i].new + Window

\* An objection is answered once, after it was filed, and the row of the case and
\* the log agree on whether it was (resolve_objection).
AnsweredOnce ==
  \A c \in Cases :
    /\ case[c].resolved <=> Events("resolve", c) # {}
    /\ \A i, j \in Events("resolve", c) : i = j
    /\ \A i \in Events("resolve", c) : \E j \in Events("object", c) : j < i

\* Whoever is responsible for a plan has been told so, through every overlap of the
\* updates that hand it over (create_plan, update_plan).
OwnersAreTold ==
  \A p \in Existing :
    \A u \in Owner(plan[p]) : <<"improvement_plan_assigned", u, p>> \in told

\* The events that changed a field of a goal, by their own account.
Changes(g, f) == {i \in Events("update_goal", g) : f \in Changed(log[i].old, log[i].new)}

\* A goal shows for each field the last change the log holds of it, and HR alone has
\* changed its text: a tick of the owner does not bring back a text that HR has
\* replaced meanwhile (update_goal).
GoalsKeepLastChange ==
  \A g \in Goals : goal[g] # None =>
    \A f \in DOMAIN GoalFields :
      \A i \in Changes(g, f) :
        /\ (\A j \in Changes(g, f) : j <= i) => goal[g][f] = log[i].new[f]
        /\ f = "text" => log[i].by \in Hr

===============================================================================

------------------------ MODULE CaseAftermathProofs ------------------------
(***************************************************************************)
(* Proofs about CaseAftermath, for any number of cases, plans, goals and   *)
(* calls in flight.  A call commits what it has decided on rows it read    *)
(* earlier; Sound says what is still true of that when it commits.         *)
(***************************************************************************)
EXTENDS CaseAftermath, SequenceTheorems, TLAPS

\* A day within the window of some acknowledgement the log holds.
InWindow(c, d) ==
  \E i \in Events("acknowledge", c) : log[i].new <= d /\ d <= log[i].new + Window

AckSound(c) == c.op = "acknowledge" => c.on \in Cases /\ c.new \in Days /\ c.new <= today
ObjectSound(c) ==
  c.op = "object" => c.on \in Cases /\ c.new \in Days /\ InWindow(c.on, c.new)
CreateSound(c) == c.op = "create_plan" => c.on \in Plans /\ c.new \in PlanRows
UpdatePlanSound(c) ==
  c.op = "update_plan" =>
    /\ c.on \in Plans /\ plan[c.on] # None
    /\ DOMAIN c.new \subseteq DOMAIN PlanFields
    /\ \A f \in DOMAIN c.new : c.new[f] \in PlanFields[f]
    /\ c.saw \in PlanRows
CloseSound(c) ==
  c.op = "close_plan" => c.on \in Plans /\ plan[c.on] # None /\ c.new.status \in Closings
AddGoalSound(c) == c.op = "add_goal" => c.on \in Goals /\ c.new \in GoalRows
UpdateGoalSound(c) ==
  c.op = "update_goal" =>
    /\ c.on \in Goals /\ goal[c.on] # None
    /\ DOMAIN c.new \subseteq DOMAIN GoalFields
    /\ \A f \in DOMAIN c.new : c.new[f] \in GoalFields[f]
    /\ "text" \in DOMAIN c.new => c.by \in Hr
DeleteGoalSound(c) == c.op = "delete_goal" => c.on \in Goals /\ goal[c.on] # None

Sound(c) ==
  /\ AckSound(c) /\ ObjectSound(c) /\ CreateSound(c) /\ UpdatePlanSound(c) /\ CloseSound(c)
  /\ AddGoalSound(c) /\ UpdateGoalSound(c) /\ DeleteGoalSound(c)

CallsSound ==
  /\ call = [s \in Slots |-> call[s]]
  /\ \A s \in Slots : call[s] # None => Sound(call[s])

LogIsSequence == \E S : log \in Seq(S)

\* What a case shows, the log holds.
CasesLogged ==
  \A c \in Cases :
    /\ case[c].acknowledged # None =>
         /\ case[c].acknowledged <= today
         /\ \E i \in Events("acknowledge", c) : log[i].new = case[c].acknowledged
    /\ case[c].objected # None => Events("object", c) # {}

\* Nobody has changed a goal before it was there.
GoalsFirst == \A g \in Goals : goal[g] = None => Events("update_goal", g) = {}

Inv ==
  /\ TypeOK /\ LogIsSequence /\ CallsSound /\ CasesLogged /\ GoalsFirst
  /\ ObjectionInItsWindow /\ AnsweredOnce /\ OwnersAreTold /\ GoalsKeepLastChange

USE NumbersAssumption, NoneAssumption, RowsAssumption

-------------------------------------------------------------------------------
(* Lemmas *)

LEMMA UpdatedPlan ==
  ASSUME NEW row \in PlanRows, NEW saw, NEW new, DOMAIN new \subseteq DOMAIN PlanFields,
         \A f \in DOMAIN new : new[f] \in PlanFields[f]
  PROVE /\ Updated(row, saw, new) \in PlanRows
        /\ Updated(row, saw, new).owner =
             IF "owner" \in Changed(saw, new) THEN new["owner"] ELSE row.owner
<1>1. DOMAIN row = {"case", "status", "owner", "followUp"}
  BY DEF PlanRows
<1>2. PICK u : u = Updated(row, saw, new)
  OBVIOUS
<1>3. u = [f \in {"case", "status", "owner", "followUp"} |->
             IF f \in Changed(saw, new) THEN new[f] ELSE row[f]]
  BY <1>1, <1>2 DEF Updated
<1>4. Changed(saw, new) \subseteq {"owner", "followUp"}
  BY DEF Changed, PlanFields
<1>5. /\ u = [case |-> u.case, status |-> u.status, owner |-> u.owner, followUp |-> u.followUp]
  BY <1>3
<1>6. u.case = row.case /\ u.status = row.status
  BY <1>3, <1>4
<1>7. u.owner = IF "owner" \in Changed(saw, new) THEN new["owner"] ELSE row.owner
  BY <1>3
<1>8. u.followUp = IF "followUp" \in Changed(saw, new) THEN new["followUp"] ELSE row.followUp
  BY <1>3
<1>9. u.owner \in Users \cup {None} /\ u.followUp \in Cases \cup {None}
  BY <1>7, <1>8 DEF Changed, PlanFields, PlanRows
<1>10. u.case \in Cases /\ u.status \in {"open", "completed", "cancelled"}
  BY <1>6 DEF PlanRows
<1> QED BY <1>2, <1>5, <1>7, <1>9, <1>10 DEF PlanRows

LEMMA UpdatedGoal ==
  ASSUME NEW row \in GoalRows, NEW saw, NEW new, DOMAIN new \subseteq DOMAIN GoalFields,
         \A f \in DOMAIN new : new[f] \in GoalFields[f]
  PROVE /\ Updated(row, saw, new) \in GoalRows
        /\ \A f \in DOMAIN GoalFields : Updated(row, saw, new)[f] =
             IF f \in Changed(saw, new) THEN new[f] ELSE row[f]
<1>1. DOMAIN row = {"plan", "text", "done", "deleted"}
  BY DEF GoalRows
<1>2. PICK u : u = Updated(row, saw, new)
  OBVIOUS
<1>3. u = [f \in {"plan", "text", "done", "deleted"} |->
             IF f \in Changed(saw, new) THEN new[f] ELSE row[f]]
  BY <1>1, <1>2 DEF Updated
<1>4. Changed(saw, new) \subseteq {"text", "done"}
  BY DEF Changed, GoalFields
<1>5. u = [plan |-> u.plan, text |-> u.text, done |-> u.done, deleted |-> u.deleted]
  BY <1>3
<1>6. u.plan = row.plan /\ u.deleted = row.deleted
  BY <1>3, <1>4
<1>7. u.text = IF "text" \in Changed(saw, new) THEN new["text"] ELSE row.text
  BY <1>3
<1>8. u.done = IF "done" \in Changed(saw, new) THEN new["done"] ELSE row.done
  BY <1>3
<1>9. u.text \in Texts /\ u.done \in BOOLEAN
  BY <1>7, <1>8 DEF Changed, GoalFields, GoalRows
<1>10. u.plan \in Plans /\ u.deleted \in BOOLEAN
  BY <1>6 DEF GoalRows
<1>11. \A f \in {"text", "done"} : u[f] = IF f \in Changed(saw, new) THEN new[f] ELSE row[f]
  BY <1>3
<1> QED BY <1>2, <1>5, <1>9, <1>10, <1>11 DEF GoalRows, GoalFields

LEMMA ResolvedRow ==
  ASSUME NEW row \in CaseRows, NEW v \in BOOLEAN
  PROVE [row EXCEPT !.resolved = v] \in CaseRows
BY DEF CaseRows

LEMMA DeletedRow ==
  ASSUME NEW row \in GoalRows, NEW v \in BOOLEAN
  PROVE /\ [row EXCEPT !.deleted = v] \in GoalRows
        /\ \A f \in DOMAIN GoalFields : [row EXCEPT !.deleted = v][f] = row[f]
BY DEF GoalRows, GoalFields

LEMMA PatchFields ==
  ASSUME NEW row, NEW fields, NEW patch \in Patches(row, fields)
  PROVE DOMAIN patch \subseteq fields /\ \A f \in DOMAIN patch : patch[f] \in row[f]
BY DEF Patches

\* The log after one more event.
LEMMA Logged ==
  ASSUME LogIsSequence, NEW e, log' = Append(log, e)
  PROVE /\ Len(log) \in Nat /\ DOMAIN log = 1..Len(log) /\ DOMAIN log' = 1..(Len(log) + 1)
        /\ \A i \in DOMAIN log : log'[i] = log[i]
        /\ log'[Len(log) + 1] = e
        /\ LogIsSequence'
<1>1. PICK S : log \in Seq(S)
  BY DEF LogIsSequence
<1>2. log \in Seq(S \cup {e}) /\ e \in S \cup {e}
  BY <1>1
<1>3. log' \in Seq(S \cup {e})
  BY <1>2
<1>4. LogIsSequence'
  BY <1>3 DEF LogIsSequence
<1> QED BY <1>2, <1>3, <1>4

\* The events of a type about a thing after one more event.
LEMMA EventsAfter ==
  ASSUME LogIsSequence, NEW e, log' = Append(log, e), NEW type, NEW x
  PROVE Events(type, x)' =
          Events(type, x) \cup (IF e.type = type /\ e.on = x THEN {Len(log) + 1} ELSE {})
<1>1. /\ Len(log) \in Nat /\ DOMAIN log = 1..Len(log) /\ DOMAIN log' = 1..(Len(log) + 1)
      /\ \A i \in DOMAIN log : log'[i] = log[i]
      /\ log'[Len(log) + 1] = e
  BY Logged
<1>2. DOMAIN log' = DOMAIN log \cup {Len(log) + 1}
  BY <1>1
<1> QED BY <1>1, <1>2 DEF Events

\* What a call in flight relies on stays true.
LEMMA CallsKept ==
  ASSUME CallsSound, today' >= today, today \in Days, today' \in Days,
         \A p \in Plans : plan[p] # None => plan'[p] # None,
         \A g \in Goals : goal[g] # None => goal'[g] # None,
         \A i \in DOMAIN log : i \in DOMAIN log' /\ log'[i] = log[i],
         call' = [s \in Slots |-> call'[s]],
         \A s \in Slots : call'[s] \in {call[s], None}
  PROVE CallsSound'
<1> SUFFICES ASSUME NEW s \in Slots, call'[s] # None
             PROVE Sound(call[s])'
  BY DEF CallsSound
<1>1. call'[s] = call[s] /\ Sound(call[s])
  BY DEF CallsSound
<1>2. AckSound(call[s])' /\ CreateSound(call[s])' /\ AddGoalSound(call[s])'
  BY <1>1 DEF Sound, AckSound, CreateSound, AddGoalSound, Days
<1>3. ObjectSound(call[s])'
  BY <1>1 DEF Sound, ObjectSound, InWindow, Events
<1>4. UpdatePlanSound(call[s])' /\ CloseSound(call[s])'
  BY <1>1 DEF Sound, UpdatePlanSound, CloseSound
<1>5. UpdateGoalSound(call[s])' /\ DeleteGoalSound(call[s])'
  BY <1>1 DEF Sound, UpdateGoalSound, DeleteGoalSound, Hr
<1> QED BY <1>2, <1>3, <1>4, <1>5 DEF Sound

\* A call that begins changes nothing else.
LEMMA BeginKeeps ==
  ASSUME Inv, NEW s \in Slots, UNCHANGED <<today, active, case, plan, goal, log, told>>,
         call' = [call EXCEPT ![s] = call'[s]], Sound(call'[s])
  PROVE Inv'
<1>1. call' = [r \in Slots |-> call'[r]] /\ \A r \in Slots \ {s} : call'[r] = call[r]
  BY DEF Inv, CallsSound
<1>2. ASSUME NEW r \in Slots, Sound(call'[r])
      PROVE Sound(call[r])'
  BY <1>2 DEF Sound, AckSound, ObjectSound, InWindow, Events, CreateSound, UpdatePlanSound,
              CloseSound, AddGoalSound, UpdateGoalSound, DeleteGoalSound, Hr
<1>3. ASSUME NEW r \in Slots, call'[r] # None
      PROVE Sound(call'[r])
  BY <1>1, <1>3 DEF Inv, CallsSound
<1>4. CallsSound'
  BY <1>1, <1>2, <1>3 DEF CallsSound
<1>5. TypeOK' /\ LogIsSequence'
  BY DEF Inv, TypeOK, LogIsSequence
<1>6. CasesLogged' /\ GoalsFirst' /\ ObjectionInItsWindow' /\ AnsweredOnce'
  BY DEF Inv, CasesLogged, GoalsFirst, ObjectionInItsWindow, AnsweredOnce, Events
<1>7. OwnersAreTold'
  BY DEF Inv, OwnersAreTold, Existing, Owner
<1>8. GoalsKeepLastChange'
  BY DEF Inv, GoalsKeepLastChange, Changes, Changed, Events, Hr
<1> QED BY <1>4, <1>5, <1>6, <1>7, <1>8 DEF Inv

\* A commit that leaves cases and their events alone keeps what is said of them.
LEMMA CasesKept ==
  ASSUME Inv, UNCHANGED case, today' >= today, today \in Days, today' \in Days,
         \A c \in Cases : /\ Events("acknowledge", c)' = Events("acknowledge", c)
                          /\ Events("object", c)' = Events("object", c)
                          /\ Events("resolve", c)' = Events("resolve", c),
         \A i \in DOMAIN log : log'[i] = log[i]
  PROVE CasesLogged' /\ ObjectionInItsWindow' /\ AnsweredOnce'
<1>1. \A c \in Cases : \A i \in Events("acknowledge", c) : log'[i].new = log[i].new
  BY DEF Events
<1>2. \A c \in Cases : case[c] \in CaseRows
  BY DEF Inv, TypeOK
<1>3. CasesLogged'
  BY <1>1, <1>2 DEF Inv, CasesLogged, CaseRows, Days
<1>4. ObjectionInItsWindow'
  BY <1>1 DEF Inv, ObjectionInItsWindow
<1>5. AnsweredOnce'
  BY DEF Inv, AnsweredOnce
<1> QED BY <1>3, <1>4, <1>5

\* A commit that leaves the goals that are there and their events alone keeps what is
\* said of them.
LEMMA GoalsKept ==
  ASSUME Inv, \A g \in Goals : goal[g] # None => goal'[g] = goal[g],
         \A g \in Goals : Events("update_goal", g)' = Events("update_goal", g),
         \A i \in DOMAIN log : log'[i] = log[i]
  PROVE GoalsFirst' /\ GoalsKeepLastChange'
<1>1. GoalsFirst'
  BY DEF Inv, GoalsFirst
<1>2. \A g \in Goals : \A i \in Events("update_goal", g) : log'[i] = log[i]
  BY DEF Events
<1>3. \A g \in Goals, f \in DOMAIN GoalFields : Changes(g, f)' = Changes(g, f)
  BY <1>2 DEF Changes, Changed
<1>4. ASSUME NEW g \in Goals, goal'[g] # None, NEW f \in DOMAIN GoalFields,
             NEW i \in Changes(g, f)'
      PROVE /\ (\A j \in Changes(g, f)' : j <= i) => goal'[g][f] = log'[i].new[f]
            /\ f = "text" => log'[i].by \in Hr
  <2>1. i \in Changes(g, f) /\ i \in Events("update_goal", g) /\ log'[i] = log[i]
    BY <1>2, <1>3, <1>4 DEF Changes
  <2>2. goal[g] # None /\ goal'[g] = goal[g]
    BY <2>1 DEF Inv, GoalsFirst
  <2>3. /\ (\A j \in Changes(g, f) : j <= i) => goal[g][f] = log[i].new[f]
        /\ f = "text" => log[i].by \in Hr
    BY <2>1, <2>2 DEF Inv, GoalsKeepLastChange
  <2> QED BY <2>1, <2>2, <2>3, <1>3
<1>5. Hr' = Hr
  BY DEF Hr
<1>6. GoalsKeepLastChange'
  BY <1>4, <1>5 DEF GoalsKeepLastChange
<1> QED BY <1>1, <1>6

\* Plans that stay keep their owners told.
LEMMA OwnersKept ==
  ASSUME Inv, UNCHANGED plan, told \subseteq told'
  PROVE OwnersAreTold'
BY DEF Inv, OwnersAreTold, Existing, Owner

\* What every commit of a call does: d is what the call is about, n the new event.
LEMMA CommitFacts ==
  ASSUME Inv, NEW s \in Slots, NEW op, Commits(s, op),
         NEW d, d = call[s].on, NEW n, n = Len(log) + 1
  PROVE /\ call[s] # None /\ call[s].op = op /\ Sound(call[s])
        /\ today' = today /\ active' = active
        /\ Len(log) \in Nat /\ DOMAIN log = 1..Len(log) /\ DOMAIN log' = 1..n
        /\ \A i \in DOMAIN log : i \in DOMAIN log' /\ i < n /\ log'[i] = log[i]
        /\ LogIsSequence'
        /\ log'[n] = [type |-> op, by |-> call[s].by, on |-> d,
                      old |-> call[s].saw, new |-> call[s].new]
        /\ Events(op, d)' = Events(op, d) \cup {n}
        /\ \A type, x : type # op \/ x # d => Events(type, x)' = Events(type, x)
<1> DEFINE e == [type |-> op, by |-> call[s].by, on |-> d,
                 old |-> call[s].saw, new |-> call[s].new]
<1>1. /\ call[s] # None /\ call[s].op = op
      /\ log' = Append(log, e) /\ today' = today /\ active' = active
  BY DEF Commits
<1>2. Sound(call[s])
  BY <1>1 DEF Inv, CallsSound
<1>3. LogIsSequence
  BY DEF Inv
<1>4. e.type = op /\ e.on = d
  OBVIOUS
<1> HIDE DEF e
<1>5. /\ Len(log) \in Nat /\ DOMAIN log = 1..Len(log) /\ DOMAIN log' = 1..(Len(log) + 1)
      /\ \A i \in DOMAIN log : log'[i] = log[i]
      /\ log'[Len(log) + 1] = e
      /\ LogIsSequence'
  BY <1>1, <1>3, Logged
<1>6. \A type, x : Events(type, x)' =
        Events(type, x) \cup (IF op = type /\ d = x THEN {n} ELSE {})
  BY <1>1, <1>3, <1>4, EventsAfter
<1>7. Events(op, d)' = Events(op, d) \cup {n}
  BY <1>6
<1>8. \A type, x : type # op \/ x # d => Events(type, x)' = Events(type, x)
  BY <1>6
<1> QED BY <1>1, <1>2, <1>5, <1>7, <1>8 DEF e

\* The other calls keep what they rely on, if no row goes.
LEMMA CommitCalls ==
  ASSUME Inv, NEW s \in Slots, NEW op, Commits(s, op),
         \A p \in Plans : plan[p] # None => plan'[p] # None,
         \A g \in Goals : goal[g] # None => goal'[g] # None
  PROVE CallsSound'
<1>1. PICK d, n : d = call[s].on /\ n = Len(log) + 1
  OBVIOUS
<1>2. /\ today' = today
      /\ \A i \in DOMAIN log : i \in DOMAIN log' /\ log'[i] = log[i]
  BY <1>1, CommitFacts
<1>3. today \in Days /\ today \in Nat /\ CallsSound
  BY DEF Inv, TypeOK, Days
<1>4. call' = [call EXCEPT ![s] = None]
  BY DEF Commits
<1>5. call' = [r \in Slots |-> call'[r]] /\ \A r \in Slots : call'[r] \in {call[r], None}
  BY <1>3, <1>4 DEF CallsSound
<1>6. today' >= today /\ today' \in Days
  BY <1>2, <1>3
<1> QED BY <1>2, <1>3, <1>5, <1>6, CallsKept

\* A commit of a call about a plan or a goal.
LEMMA CommitKeeps ==
  ASSUME Inv, NEW s \in Slots, NEW op, Commits(s, op),
         op \notin {"acknowledge", "object", "resolve"},
         UNCHANGED case, TypeOK', OwnersAreTold', GoalsFirst' /\ GoalsKeepLastChange',
         \A p \in Plans : plan[p] # None => plan'[p] # None,
         \A g \in Goals : goal[g] # None => goal'[g] # None
  PROVE Inv'
<1>1. PICK d, n : d = call[s].on /\ n = Len(log) + 1
  OBVIOUS
<1>2. /\ today' = today /\ LogIsSequence'
      /\ \A i \in DOMAIN log : i \in DOMAIN log' /\ i < n /\ log'[i] = log[i]
      /\ log'[n] = [type |-> op, by |-> call[s].by, on |-> d,
                    old |-> call[s].saw, new |-> call[s].new]
      /\ Events(op, d)' = Events(op, d) \cup {n}
      /\ \A type, x : type # op \/ x # d => Events(type, x)' = Events(type, x)
  BY <1>1, CommitFacts
<1>3. \A c \in Cases : /\ Events("acknowledge", c)' = Events("acknowledge", c)
                       /\ Events("object", c)' = Events("object", c)
                       /\ Events("resolve", c)' = Events("resolve", c)
  BY <1>2
<1>4. today \in Days /\ today' \in Days /\ today' >= today
  BY <1>2 DEF Inv, TypeOK, Days
<1>5. CasesLogged' /\ ObjectionInItsWindow' /\ AnsweredOnce'
  BY <1>2, <1>3, <1>4, CasesKept
<1>6. CallsSound'
  BY CommitCalls
<1> QED BY <1>2, <1>5, <1>6 DEF Inv

\* A commit of a call about a plan that leaves the goals that are there alone.
LEMMA PlanCommits ==
  ASSUME Inv, NEW s \in Slots, NEW op \in {"create_plan", "update_plan", "close_plan", "add_goal"},
         Commits(s, op), UNCHANGED case, TypeOK', OwnersAreTold',
         \A p \in Plans : plan[p] # None => plan'[p] # None,
         \A g \in Goals : goal[g] # None => goal'[g] = goal[g]
  PROVE Inv'
<1>1. PICK d, n : d = call[s].on /\ n = Len(log) + 1
  OBVIOUS
<1>2. /\ \A i \in DOMAIN log : i \in DOMAIN log' /\ i < n /\ log'[i] = log[i]
      /\ log'[n] = [type |-> op, by |-> call[s].by, on |-> d,
                    old |-> call[s].saw, new |-> call[s].new]
      /\ Events(op, d)' = Events(op, d) \cup {n}
      /\ \A type, x : type # op \/ x # d => Events(type, x)' = Events(type, x)
  BY <1>1, CommitFacts
<1>3. \A g \in Goals : Events("update_goal", g)' = Events("update_goal", g)
  BY <1>2
<1>4. GoalsFirst' /\ GoalsKeepLastChange'
  BY <1>2, <1>3, GoalsKept
<1>5. op \notin {"acknowledge", "object", "resolve"}
  OBVIOUS
<1> QED BY <1>4, <1>5, CommitKeeps

-------------------------------------------------------------------------------
LEMMA InitInv == Init => Inv
<1> SUFFICES ASSUME Init PROVE Inv
  OBVIOUS
<1>1. TypeOK
  BY DEF Init, TypeOK, CaseRows, Days
<1>2. log \in Seq({}) /\ DOMAIN log = {}
  BY DEF Init
<1>3. LogIsSequence
  BY <1>2 DEF LogIsSequence
<1>4. \A type, x : Events(type, x) = {}
  BY <1>2 DEF Events
<1>5. CallsSound
  BY DEF Init, CallsSound
<1>6. CasesLogged /\ ObjectionInItsWindow /\ AnsweredOnce
  BY <1>4 DEF Init, CasesLogged, ObjectionInItsWindow, AnsweredOnce
<1>7. GoalsFirst /\ GoalsKeepLastChange /\ OwnersAreTold
  BY <1>4 DEF Init, GoalsFirst, GoalsKeepLastChange, OwnersAreTold, Existing
<1> QED BY <1>1, <1>3, <1>5, <1>6, <1>7 DEF Inv

\* The steps of me.py.
LEMMA ObjectionSteps ==
  ASSUME Inv, NEW s \in Slots,
         \/ \E u \in Users, c \in Cases : BeginAcknowledge(s, u, c) \/ BeginObjection(s, u, c)
         \/ Acknowledge(s) \/ FileObjection(s)
  PROVE Inv'
<1>t. /\ today \in Nat /\ today \in Days
      /\ case \in [Cases -> CaseRows]
      /\ \A d \in Cases : /\ case[d].acknowledged \in Days \cup {None}
                          /\ case[d].objected \in Days \cup {None}
                          /\ case[d].resolved \in BOOLEAN
  BY DEF Inv, TypeOK, CaseRows, Days
<1>1. ASSUME NEW u \in Users, NEW c \in Cases, BeginAcknowledge(s, u, c) PROVE Inv'
  <2>1. /\ UNCHANGED <<today, active, case, plan, goal, log, told>>
        /\ call' = [call EXCEPT ![s] = [op |-> "acknowledge", by |-> u, on |-> c,
                                        saw |-> None, new |-> today]]
    BY <1>1 DEF BeginAcknowledge, Begins
  <2>2. call'[s] = [op |-> "acknowledge", by |-> u, on |-> c, saw |-> None, new |-> today]
    BY <2>1 DEF Inv, CallsSound
  <2>3. Sound(call'[s])
    BY <2>2, <1>t DEF Sound, AckSound, ObjectSound, CreateSound, UpdatePlanSound, CloseSound,
                      AddGoalSound, UpdateGoalSound, DeleteGoalSound
  <2> QED BY <2>1, <2>2, <2>3, BeginKeeps
<1>2. ASSUME NEW u \in Users, NEW c \in Cases, BeginObjection(s, u, c) PROVE Inv'
  <2>1. /\ UNCHANGED <<today, active, case, plan, goal, log, told>>
        /\ call' = [call EXCEPT ![s] = [op |-> "object", by |-> u, on |-> c,
                                        saw |-> None, new |-> today]]
    BY <1>2 DEF BeginObjection, Begins
  <2>2. call'[s] = [op |-> "object", by |-> u, on |-> c, saw |-> None, new |-> today]
    BY <2>1 DEF Inv, CallsSound
  <2>3. InWindow(c, today)
    <3>1. /\ case[c].acknowledged # None
          /\ today <= case[c].acknowledged + Window
      BY <1>2 DEF BeginObjection, MayObject
    <3>2. PICK i \in Events("acknowledge", c) : log[i].new = case[c].acknowledged
      BY <3>1 DEF Inv, CasesLogged
    <3>3. case[c].acknowledged <= today
      BY <3>1 DEF Inv, CasesLogged
    <3> QED BY <3>1, <3>2, <3>3 DEF InWindow
  <2>4. Sound(call'[s])
    BY <2>2, <2>3, <1>t DEF Sound, AckSound, ObjectSound, CreateSound, UpdatePlanSound,
                            CloseSound, AddGoalSound, UpdateGoalSound, DeleteGoalSound
  <2> QED BY <2>1, <2>2, <2>4, BeginKeeps
<1>3. ASSUME Acknowledge(s) PROVE Inv'
  <2>0. PICK d, n : d = call[s].on /\ n = Len(log) + 1
    OBVIOUS
  <2>1. /\ Commits(s, "acknowledge") /\ UNCHANGED <<plan, goal>>
        /\ case' = [case EXCEPT ![d].acknowledged = call[s].new]
        /\ told \subseteq told'
    BY <1>3, <2>0 DEF Acknowledge
  <2>2. /\ call[s].op = "acknowledge" /\ Sound(call[s])
        /\ today' = today /\ active' = active /\ LogIsSequence'
        /\ \A i \in DOMAIN log : i \in DOMAIN log' /\ i < n /\ log'[i] = log[i]
        /\ log'[n] = [type |-> "acknowledge", by |-> call[s].by, on |-> d,
                      old |-> call[s].saw, new |-> call[s].new]
        /\ Events("acknowledge", d)' = Events("acknowledge", d) \cup {n}
        /\ \A type, x : type # "acknowledge" \/ x # d => Events(type, x)' = Events(type, x)
    BY <2>0, <2>1, CommitFacts
  <2>3. d \in Cases /\ call[s].new \in Days /\ call[s].new <= today /\ log'[n].new = call[s].new
    BY <2>0, <2>2 DEF Sound, AckSound
  <2>4. CallsSound'
    BY <2>1, CommitCalls
  <2>5. TypeOK'
    BY <2>1, <2>2, <2>3, <1>t DEF Inv, TypeOK, CaseRows
  <2>6. /\ \A e \in Cases : /\ case'[e].objected = case[e].objected
                            /\ case'[e].resolved = case[e].resolved
                            /\ e # d => case'[e].acknowledged = case[e].acknowledged
        /\ case'[d].acknowledged = call[s].new
    BY <2>1, <2>3, <1>t DEF CaseRows
  <2>7. \A e \in Cases : /\ Events("acknowledge", e) \subseteq Events("acknowledge", e)'
                         /\ \A i \in Events("acknowledge", e) : log'[i].new = log[i].new
    BY <2>2 DEF Events
  <2>8. n \in Events("acknowledge", d)'
    BY <2>2
  <2>9. \A e \in Cases : /\ Events("object", e)' = Events("object", e)
                         /\ Events("resolve", e)' = Events("resolve", e)
    BY <2>2
  <2>10. CasesLogged'
    <3>1. ASSUME NEW e \in Cases, case'[e].acknowledged # None
          PROVE /\ case'[e].acknowledged <= today'
                /\ \E i \in Events("acknowledge", e)' : log'[i].new = case'[e].acknowledged
      <4>1. CASE e = d
        BY <4>1, <2>2, <2>3, <2>6, <2>8
      <4>2. CASE e # d
        BY <3>1, <4>2, <2>2, <2>6, <2>7 DEF Inv, CasesLogged
      <4> QED BY <4>1, <4>2
    <3>2. \A e \in Cases : case'[e].objected # None => Events("object", e)' # {}
      BY <2>6, <2>9 DEF Inv, CasesLogged
    <3> QED BY <3>1, <3>2 DEF CasesLogged
  <2>11. ObjectionInItsWindow'
    BY <2>6, <2>7 DEF Inv, ObjectionInItsWindow
  <2>12. AnsweredOnce'
    BY <2>6, <2>9 DEF Inv, AnsweredOnce
  <2>13. \A g \in Goals : Events("update_goal", g)' = Events("update_goal", g)
    BY <2>2
  <2>14. GoalsFirst' /\ GoalsKeepLastChange'
    BY <2>1, <2>2, <2>13, GoalsKept
  <2>15. OwnersAreTold'
    BY <2>1, OwnersKept
  <2> QED BY <2>2, <2>4, <2>5, <2>10, <2>11, <2>12, <2>14, <2>15 DEF Inv
<1>4. ASSUME FileObjection(s) PROVE Inv'
  <2>0. PICK d, n : d = call[s].on /\ n = Len(log) + 1
    OBVIOUS
  <2>1. /\ Commits(s, "object") /\ UNCHANGED <<plan, goal>>
        /\ case' = [case EXCEPT ![d].objected = call[s].new]
        /\ told \subseteq told'
    BY <1>4, <2>0 DEF FileObjection
  <2>2. /\ call[s].op = "object" /\ Sound(call[s])
        /\ today' = today /\ active' = active /\ LogIsSequence'
        /\ \A i \in DOMAIN log : i \in DOMAIN log' /\ i < n /\ log'[i] = log[i]
        /\ log'[n] = [type |-> "object", by |-> call[s].by, on |-> d,
                      old |-> call[s].saw, new |-> call[s].new]
        /\ Events("object", d)' = Events("object", d) \cup {n}
        /\ \A type, x : type # "object" \/ x # d => Events(type, x)' = Events(type, x)
    BY <2>0, <2>1, CommitFacts
  <2>3. d \in Cases /\ call[s].new \in Days /\ InWindow(d, call[s].new)
    BY <2>0, <2>2 DEF Sound, ObjectSound
  <2>4. CallsSound'
    BY <2>1, CommitCalls
  <2>5. TypeOK'
    BY <2>1, <2>2, <2>3, <1>t DEF Inv, TypeOK, CaseRows
  <2>6. /\ \A e \in Cases : /\ case'[e].acknowledged = case[e].acknowledged
                            /\ case'[e].resolved = case[e].resolved
                            /\ e # d => case'[e].objected = case[e].objected
        /\ case'[d].objected = call[s].new
    BY <2>1, <2>3, <1>t DEF CaseRows
  <2>7. \A e \in Cases : /\ Events("acknowledge", e)' = Events("acknowledge", e)
                         /\ Events("resolve", e)' = Events("resolve", e)
    BY <2>2
  <2>8. \A e \in Cases : \A i \in Events("acknowledge", e) : log'[i].new = log[i].new
    BY <2>2 DEF Events
  <2>9. /\ \A e \in Cases : Events("object", e) \subseteq Events("object", e)'
        /\ Events("object", d)' # {}
    <3>1. ASSUME NEW e \in Cases PROVE Events("object", e) \subseteq Events("object", e)'
      BY <2>2
    <3> QED BY <3>1, <2>2
  <2>10. CasesLogged'
    <3>1. ASSUME NEW e \in Cases, case'[e].acknowledged # None
          PROVE /\ case'[e].acknowledged <= today'
                /\ \E i \in Events("acknowledge", e)' : log'[i].new = case'[e].acknowledged
      BY <3>1, <2>2, <2>6, <2>7, <2>8 DEF Inv, CasesLogged
    <3>2. ASSUME NEW e \in Cases, case'[e].objected # None PROVE Events("object", e)' # {}
      <4>1. CASE e = d
        BY <4>1, <2>9
      <4>2. CASE e # d
        BY <3>2, <4>2, <2>6, <2>9 DEF Inv, CasesLogged
      <4> QED BY <4>1, <4>2
    <3> QED BY <3>1, <3>2 DEF CasesLogged
  <2>11. ObjectionInItsWindow'
    <3>1. ASSUME NEW e \in Cases, case'[e].objected # None
          PROVE \E i \in Events("acknowledge", e)' :
                  /\ log'[i].new <= case'[e].objected
                  /\ case'[e].objected <= log'[i].new + Window
      <4>1. CASE e = d
        BY <4>1, <2>3, <2>6, <2>7, <2>8 DEF InWindow
      <4>2. CASE e # d
        BY <3>1, <4>2, <2>6, <2>7, <2>8 DEF Inv, ObjectionInItsWindow
      <4> QED BY <4>1, <4>2
    <3> QED BY <3>1 DEF ObjectionInItsWindow
  <2>12. AnsweredOnce'
    <3>1. ASSUME NEW e \in Cases, NEW i \in Events("resolve", e)'
          PROVE \E j \in Events("object", e)' : j < i
      BY <3>1, <2>7, <2>9 DEF Inv, AnsweredOnce
    <3>2. \A e \in Cases : /\ case'[e].resolved <=> Events("resolve", e)' # {}
                           /\ \A i, j \in Events("resolve", e)' : i = j
      BY <2>6, <2>7 DEF Inv, AnsweredOnce
    <3> QED BY <3>1, <3>2 DEF AnsweredOnce
  <2>13. \A g \in Goals : Events("update_goal", g)' = Events("update_goal", g)
    BY <2>2
  <2>14. GoalsFirst' /\ GoalsKeepLastChange'
    BY <2>1, <2>2, <2>13, GoalsKept
  <2>15. OwnersAreTold'
    BY <2>1, OwnersKept
  <2> QED BY <2>2, <2>4, <2>5, <2>10, <2>11, <2>12, <2>14, <2>15 DEF Inv
<1> QED BY <1>1, <1>2, <1>3, <1>4

\* The step of resolve_objection.
LEMMA ResolveKeeps ==
  ASSUME Inv, NEW u \in Users, NEW c \in Cases, ResolveObjection(u, c)
  PROVE Inv'
<1>t. /\ today \in Nat /\ today \in Days
      /\ case \in [Cases -> CaseRows]
      /\ \A d \in Cases : /\ case[d].acknowledged \in Days \cup {None}
                          /\ case[d].objected \in Days \cup {None}
                          /\ case[d].resolved \in BOOLEAN
  BY DEF Inv, TypeOK, CaseRows, Days
<1>0. PICK e, n : /\ e = [type |-> "resolve", by |-> u, on |-> c, old |-> None, new |-> None]
                  /\ n = Len(log) + 1
  OBVIOUS
<1>1. /\ case[c].objected # None /\ ~case[c].resolved
      /\ case' = [case EXCEPT ![c].resolved = TRUE]
      /\ log' = Append(log, e) /\ told \subseteq told'
      /\ UNCHANGED <<today, active, plan, goal, call>>
  BY <1>0 DEF ResolveObjection, Answerable
<1>2. /\ Len(log) \in Nat /\ DOMAIN log = 1..Len(log) /\ DOMAIN log' = 1..n
      /\ \A i \in DOMAIN log : log'[i] = log[i]
      /\ LogIsSequence'
  BY <1>0, <1>1, Logged DEF Inv
<1>3. \A type, x : Events(type, x)' =
        Events(type, x) \cup (IF "resolve" = type /\ c = x THEN {n} ELSE {})
  <2>1. e.type = "resolve" /\ e.on = c
    BY <1>0
  <2> QED BY <2>1, <1>0, <1>1, EventsAfter DEF Inv
<1>4. CallsSound'
  <2>1. \A i \in DOMAIN log : i \in DOMAIN log' /\ log'[i] = log[i]
    BY <1>0, <1>2
  <2>2. CallsSound /\ call' = [r \in Slots |-> call'[r]]
    BY <1>1 DEF Inv, CallsSound
  <2>3. \A r \in Slots : call'[r] \in {call[r], None}
    BY <1>1
  <2>4. today' >= today /\ today' \in Days /\ plan' = plan /\ goal' = goal
    BY <1>1, <1>t
  <2> QED BY <2>1, <2>2, <2>3, <2>4, <1>t, CallsKept
<1>5. TypeOK'
  <2>3. [case[c] EXCEPT !.resolved = TRUE] \in CaseRows
    BY <1>t, ResolvedRow
  <2>4. case' \in [Cases -> CaseRows]
    BY <1>1, <2>3, <1>t
  <2> QED BY <2>4, <1>1, <1>t DEF Inv, TypeOK
<1>6. /\ \A d \in Cases : /\ case'[d].acknowledged = case[d].acknowledged
                          /\ case'[d].objected = case[d].objected
                          /\ d # c => case'[d].resolved = case[d].resolved
      /\ case'[c].resolved
  BY <1>1, <1>t DEF CaseRows
<1>7. /\ \A type, x : type # "resolve" \/ x # c => Events(type, x)' = Events(type, x)
      /\ Events("resolve", c)' = Events("resolve", c) \cup {n}
  <2>1. ASSUME NEW type, NEW x, type # "resolve" \/ x # c
        PROVE Events(type, x)' = Events(type, x)
    BY <1>3, <2>1
  <2>2. Events("resolve", c)' = Events("resolve", c) \cup {n}
    BY <1>3
  <2> QED BY <2>1, <2>2
<1>8. \A d \in Cases : /\ Events("acknowledge", d)' = Events("acknowledge", d)
                       /\ Events("object", d)' = Events("object", d)
                       /\ d # c => Events("resolve", d)' = Events("resolve", d)
  BY <1>7
<1>9. \A d \in Cases : \A i \in Events("acknowledge", d) : log'[i].new = log[i].new
  BY <1>2 DEF Events
<1>10. Events("resolve", c)' = {n} /\ \E j \in Events("object", c) : j < n
  <2>1. Events("resolve", c) = {}
    BY <1>1 DEF Inv, AnsweredOnce
  <2>2. PICK j \in Events("object", c) : TRUE
    BY <1>1 DEF Inv, CasesLogged
  <2>3. j < n
    BY <2>2, <1>0, <1>2 DEF Events
  <2> QED BY <2>1, <2>2, <2>3, <1>7
<1>11. CasesLogged' /\ ObjectionInItsWindow'
  <2>1. ASSUME NEW d \in Cases, case'[d].acknowledged # None
        PROVE /\ case'[d].acknowledged <= today'
              /\ \E i \in Events("acknowledge", d)' : log'[i].new = case'[d].acknowledged
    <3>1. case[d].acknowledged # None /\ case'[d].acknowledged = case[d].acknowledged
      BY <2>1, <1>6
    <3>2. PICK i \in Events("acknowledge", d) : log[i].new = case[d].acknowledged
      BY <3>1 DEF Inv, CasesLogged
    <3>3. case[d].acknowledged <= today /\ today' = today
      BY <3>1, <1>1 DEF Inv, CasesLogged
    <3> QED BY <3>1, <3>2, <3>3, <1>8, <1>9
  <2>2. \A d \in Cases : case'[d].objected # None => Events("object", d)' # {}
    BY <1>6, <1>8 DEF Inv, CasesLogged
  <2>3. ObjectionInItsWindow'
    BY <1>6, <1>8, <1>9 DEF Inv, ObjectionInItsWindow
  <2> QED BY <2>1, <2>2, <2>3 DEF CasesLogged
<1>12. AnsweredOnce'
  <2>1. ASSUME NEW d \in Cases, d # c
        PROVE /\ case'[d].resolved <=> Events("resolve", d)' # {}
              /\ \A i, j \in Events("resolve", d)' : i = j
              /\ \A i \in Events("resolve", d)' : \E j \in Events("object", d)' : j < i
    BY <2>1, <1>6, <1>8 DEF Inv, AnsweredOnce
  <2>2. /\ case'[c].resolved <=> Events("resolve", c)' # {}
        /\ \A i, j \in Events("resolve", c)' : i = j
        /\ \A i \in Events("resolve", c)' : \E j \in Events("object", c)' : j < i
    BY <1>6, <1>8, <1>10
  <2> QED BY <2>1, <2>2 DEF AnsweredOnce
<1>13. \A g \in Goals : Events("update_goal", g)' = Events("update_goal", g)
  BY <1>7
<1>14. GoalsFirst' /\ GoalsKeepLastChange'
  BY <1>1, <1>2, <1>13, GoalsKept
<1>15. OwnersAreTold'
  BY <1>1, OwnersKept
<1> QED BY <1>2, <1>4, <1>5, <1>11, <1>12, <1>14, <1>15 DEF Inv

\* The steps of the plans.
LEMMA PlanSteps ==
  ASSUME Inv, NEW s \in Slots,
         \/ \E u \in Users, p \in Plans :
              \/ \E c \in Cases, owner \in Users \cup {None} : BeginCreatePlan(s, u, p, c, owner)
              \/ BeginUpdatePlan(s, u, p)
              \/ \E closing \in Closings : BeginClosePlan(s, u, p, closing)
         \/ (\E g \in Goals : CreatePlan(s, g)) \/ UpdatePlan(s) \/ ClosePlan(s)
  PROVE Inv'
<1>t. /\ plan \in [Plans -> PlanRows \cup {None}]
      /\ goal \in [Goals -> GoalRows \cup {None}]
      /\ \A q \in Plans : plan[q] # None => plan[q] \in PlanRows
  BY DEF Inv, TypeOK
<1>1. ASSUME NEW u \in Users, NEW p \in Plans, NEW c \in Cases, NEW owner \in Users \cup {None},
             BeginCreatePlan(s, u, p, c, owner)
      PROVE Inv'
  <2>0. PICK row : row = [case |-> c, status |-> "open", owner |-> owner, followUp |-> None]
    OBVIOUS
  <2>1. /\ UNCHANGED <<today, active, case, plan, goal, log, told>>
        /\ call' = [call EXCEPT ![s] = [op |-> "create_plan", by |-> u, on |-> p,
                                        saw |-> None, new |-> row]]
    BY <1>1, <2>0 DEF BeginCreatePlan, Begins
  <2>2. call'[s] = [op |-> "create_plan", by |-> u, on |-> p, saw |-> None, new |-> row]
    BY <2>1 DEF Inv, CallsSound
  <2>3. row \in PlanRows
    BY <2>0 DEF PlanRows
  <2>4. Sound(call'[s])
    BY <2>2, <2>3 DEF Sound, AckSound, ObjectSound, CreateSound, UpdatePlanSound, CloseSound,
                      AddGoalSound, UpdateGoalSound, DeleteGoalSound
  <2> QED BY <2>1, <2>2, <2>4, BeginKeeps
<1>2. ASSUME NEW u \in Users, NEW p \in Plans, BeginUpdatePlan(s, u, p) PROVE Inv'
  <2>1. PICK patch \in Patches(PlanFields, DOMAIN PlanFields) :
          Begins(s, "update_plan", u, p, plan[p], patch)
    BY <1>2 DEF BeginUpdatePlan
  <2>2. /\ UNCHANGED <<today, active, case, plan, goal, log, told>>
        /\ call' = [call EXCEPT ![s] = [op |-> "update_plan", by |-> u, on |-> p,
                                        saw |-> plan[p], new |-> patch]]
    BY <2>1 DEF Begins
  <2>3. call'[s] = [op |-> "update_plan", by |-> u, on |-> p, saw |-> plan[p], new |-> patch]
    BY <2>2 DEF Inv, CallsSound
  <2>4. /\ DOMAIN patch \subseteq DOMAIN PlanFields
        /\ \A f \in DOMAIN patch : patch[f] \in PlanFields[f]
    BY PatchFields
  <2>5. plan[p] # None /\ plan[p] \in PlanRows
    BY <1>2, <1>t DEF BeginUpdatePlan
  <2>6. Sound(call'[s])
    BY <2>3, <2>4, <2>5 DEF Sound, AckSound, ObjectSound, CreateSound, UpdatePlanSound,
                            CloseSound, AddGoalSound, UpdateGoalSound, DeleteGoalSound
  <2> QED BY <2>2, <2>3, <2>6, BeginKeeps
<1>3. ASSUME NEW u \in Users, NEW p \in Plans, NEW closing \in Closings,
             BeginClosePlan(s, u, p, closing)
      PROVE Inv'
  <2>0. PICK row : row = [status |-> closing]
    OBVIOUS
  <2>1. /\ plan[p] # None
        /\ UNCHANGED <<today, active, case, plan, goal, log, told>>
        /\ call' = [call EXCEPT ![s] = [op |-> "close_plan", by |-> u, on |-> p,
                                        saw |-> plan[p], new |-> row]]
    BY <1>3, <2>0 DEF BeginClosePlan, Begins
  <2>2. call'[s] = [op |-> "close_plan", by |-> u, on |-> p, saw |-> plan[p], new |-> row]
    BY <2>1 DEF Inv, CallsSound
  <2>3. Sound(call'[s])
    BY <2>0, <2>1, <2>2 DEF Sound, AckSound, ObjectSound, CreateSound, UpdatePlanSound,
                            CloseSound, AddGoalSound, UpdateGoalSound, DeleteGoalSound
  <2> QED BY <2>1, <2>2, <2>3, BeginKeeps
<1>4. ASSUME NEW g \in Goals, CreatePlan(s, g) PROVE Inv'
  <2>0. PICK d, row : d = call[s].on /\ row = call[s].new
    OBVIOUS
  <2>1. /\ Commits(s, "create_plan") /\ UNCHANGED case
        /\ plan' = [plan EXCEPT ![d] = row]
        /\ told' = told \cup Notified("improvement_plan_assigned", Owner(row), d)
        /\ \/ goal' = goal
           \/ /\ goal[g] = None
              /\ \E text \in Texts : goal' = [goal EXCEPT ![g] = NewGoal(d, text)]
    BY <1>4, <2>0 DEF CreatePlan
  <2>2. Sound(call[s]) /\ call[s].op = "create_plan" /\ today' = today /\ active' = active
    <3>1. PICK n : n = Len(log) + 1
      OBVIOUS
    <3> QED BY <3>1, <2>0, <2>1, CommitFacts
  <2>3. d \in Plans /\ row \in PlanRows
    BY <2>0, <2>2 DEF Sound, CreateSound
  <2>4. plan' \in [Plans -> PlanRows \cup {None}]
    BY <2>1, <2>3, <1>t
  <2>5. /\ goal' \in [Goals -> GoalRows \cup {None}]
        /\ \A h \in Goals : goal[h] # None => goal'[h] = goal[h]
    <3>1. CASE goal' = goal
      BY <3>1, <1>t
    <3>2. CASE /\ goal[g] = None
               /\ \E text \in Texts : goal' = [goal EXCEPT ![g] = NewGoal(d, text)]
      <4>1. PICK text \in Texts : goal' = [goal EXCEPT ![g] = NewGoal(d, text)]
        BY <3>2
      <4>2. NewGoal(d, text) \in GoalRows
        BY <2>3 DEF NewGoal, GoalRows
      <4> HIDE DEF NewGoal
      <4> QED BY <3>2, <4>1, <4>2, <1>t
    <3> QED BY <2>1, <3>1, <3>2
  <2>6. TypeOK'
    BY <2>1, <2>2, <2>4, <2>5 DEF Inv, TypeOK
  <2>7. /\ \A q \in Plans : plan[q] # None => plan'[q] # None
        /\ plan'[d] = row
        /\ \A q \in Plans : q # d => plan'[q] = plan[q]
    BY <2>1, <2>3, <1>t
  <2>8. OwnersAreTold'
    <3>1. ASSUME NEW q \in Plans, plan'[q] # None, NEW v \in Owner(plan'[q])
          PROVE <<"improvement_plan_assigned", v, q>> \in told'
      <4>1. CASE q = d
        BY <2>1, <2>7, <3>1, <4>1 DEF Notified
      <4>2. CASE q # d
        BY <2>1, <2>7, <3>1, <4>2 DEF Inv, OwnersAreTold, Existing
      <4> QED BY <4>1, <4>2
    <3> QED BY <3>1 DEF OwnersAreTold, Existing, Owner
  <2> QED BY <2>1, <2>5, <2>6, <2>7, <2>8, PlanCommits
<1>5. ASSUME UpdatePlan(s) PROVE Inv'
  <2>0. PICK d, saw, new : d = call[s].on /\ saw = call[s].saw /\ new = call[s].new
    OBVIOUS
  <2>1. /\ Commits(s, "update_plan") /\ UNCHANGED <<case, goal>>
        /\ plan' = [plan EXCEPT ![d] = Updated(plan[d], saw, new)]
        /\ told' = told \cup Notified("improvement_plan_assigned", NewOwner(saw, new), d)
    BY <1>5, <2>0 DEF UpdatePlan
  <2>2. Sound(call[s]) /\ call[s].op = "update_plan" /\ today' = today /\ active' = active
    <3>1. PICK n : n = Len(log) + 1
      OBVIOUS
    <3> QED BY <3>1, <2>0, <2>1, CommitFacts
  <2>3. /\ d \in Plans /\ plan[d] # None /\ saw \in PlanRows
        /\ DOMAIN new \subseteq DOMAIN PlanFields
        /\ \A f \in DOMAIN new : new[f] \in PlanFields[f]
    BY <2>0, <2>2 DEF Sound, UpdatePlanSound
  <2>4. PICK row : row = Updated(plan[d], saw, new)
    OBVIOUS
  <2>5. /\ row \in PlanRows
        /\ row.owner = IF "owner" \in Changed(saw, new) THEN new["owner"] ELSE plan[d].owner
    BY <2>3, <2>4, <1>t, UpdatedPlan
  <2>6. /\ plan' \in [Plans -> PlanRows \cup {None}]
        /\ \A q \in Plans : plan[q] # None => plan'[q] # None
        /\ plan'[d] = row
        /\ \A q \in Plans : q # d => plan'[q] = plan[q]
    BY <2>1, <2>3, <2>4, <2>5, <1>t
  <2>7. TypeOK'
    BY <2>1, <2>2, <2>6 DEF Inv, TypeOK
  <2>8. OwnersAreTold'
    <3>1. ASSUME NEW q \in Plans, plan'[q] # None, NEW v \in Owner(plan'[q])
          PROVE <<"improvement_plan_assigned", v, q>> \in told'
      <4>1. CASE q = d /\ "owner" \in Changed(saw, new)
        <5>1. PICK r : r = Updated(saw, saw, new)
          OBVIOUS
        <5>2. r.owner = new["owner"]
          BY <2>3, <4>1, <5>1, UpdatedPlan
        <5>3. v = new["owner"] /\ v # None /\ v # saw.owner
          BY <2>5, <2>6, <3>1, <4>1 DEF Owner, Changed
        <5>4. v \in NewOwner(saw, new)
          BY <5>1, <5>2, <5>3 DEF NewOwner, Owner
        <5> QED BY <2>1, <4>1, <5>4 DEF Notified
      <4>2. CASE q = d /\ "owner" \notin Changed(saw, new)
        <5>1. v \in Owner(plan[d])
          BY <2>5, <2>6, <3>1, <4>2 DEF Owner
        <5> QED BY <2>1, <2>3, <4>2, <5>1 DEF Inv, OwnersAreTold, Existing
      <4>3. CASE q # d
        BY <2>1, <2>6, <3>1, <4>3 DEF Inv, OwnersAreTold, Existing
      <4> QED BY <4>1, <4>2, <4>3
    <3> QED BY <3>1 DEF OwnersAreTold, Existing, Owner
  <2> QED BY <2>1, <2>6, <2>7, <2>8, PlanCommits
<1>6. ASSUME ClosePlan(s) PROVE Inv'
  <2>0. PICK d, new : d = call[s].on /\ new = call[s].new.status
    OBVIOUS
  <2>1. /\ Commits(s, "close_plan") /\ UNCHANGED <<case, goal, told>>
        /\ plan' = [plan EXCEPT ![d].status = new]
    BY <1>6, <2>0 DEF ClosePlan
  <2>2. Sound(call[s]) /\ call[s].op = "close_plan" /\ today' = today /\ active' = active
    <3>1. PICK n : n = Len(log) + 1
      OBVIOUS
    <3> QED BY <3>1, <2>0, <2>1, CommitFacts
  <2>3. d \in Plans /\ plan[d] # None /\ new \in Closings
    BY <2>0, <2>2 DEF Sound, CloseSound
  <2>4. PICK row : row = [plan[d] EXCEPT !.status = new]
    OBVIOUS
  <2>5. row \in PlanRows /\ row.owner = plan[d].owner
    BY <2>3, <2>4, <1>t DEF PlanRows, Closings
  <2>6. /\ plan' \in [Plans -> PlanRows \cup {None}]
        /\ \A q \in Plans : plan[q] # None => plan'[q] # None
        /\ plan'[d] = row
        /\ \A q \in Plans : q # d => plan'[q] = plan[q]
    BY <2>1, <2>3, <2>4, <2>5, <1>t
  <2>7. TypeOK'
    BY <2>1, <2>2, <2>6 DEF Inv, TypeOK
  <2>8. OwnersAreTold'
    <3>1. ASSUME NEW q \in Plans, plan'[q] # None, NEW v \in Owner(plan'[q])
          PROVE <<"improvement_plan_assigned", v, q>> \in told'
      <4>1. plan[q] # None /\ v \in Owner(plan[q])
        BY <2>3, <2>5, <2>6, <3>1 DEF Owner
      <4> QED BY <2>1, <4>1 DEF Inv, OwnersAreTold, Existing
    <3> QED BY <3>1 DEF OwnersAreTold, Existing, Owner
  <2> QED BY <2>1, <2>6, <2>7, <2>8, PlanCommits
<1> QED BY <1>1, <1>2, <1>3, <1>4, <1>5, <1>6

\* The steps of the goals.
LEMMA GoalSteps ==
  ASSUME Inv, NEW s \in Slots,
         \/ \E u \in Users, g \in Goals :
              \/ \E p \in Plans : BeginAddGoal(s, u, g, p)
              \/ BeginUpdateGoal(s, u, g) \/ BeginDeleteGoal(s, u, g)
         \/ AddGoal(s) \/ UpdateGoal(s) \/ DeleteGoal(s)
  PROVE Inv'
<1>t. /\ goal \in [Goals -> GoalRows \cup {None}]
      /\ \A h \in Goals : goal[h] # None => goal[h] \in GoalRows
  BY DEF Inv, TypeOK
<1>1. ASSUME NEW u \in Users, NEW g \in Goals, NEW p \in Plans, BeginAddGoal(s, u, g, p)
      PROVE Inv'
  <2>1. PICK text \in Texts : Begins(s, "add_goal", u, g, None, NewGoal(p, text))
    BY <1>1 DEF BeginAddGoal
  <2>2. PICK row : row = NewGoal(p, text)
    OBVIOUS
  <2>3. /\ UNCHANGED <<today, active, case, plan, goal, log, told>>
        /\ call' = [call EXCEPT ![s] = [op |-> "add_goal", by |-> u, on |-> g,
                                        saw |-> None, new |-> row]]
    BY <2>1, <2>2 DEF Begins
  <2>4. call'[s] = [op |-> "add_goal", by |-> u, on |-> g, saw |-> None, new |-> row]
    BY <2>3 DEF Inv, CallsSound
  <2>5. row \in GoalRows
    BY <2>2 DEF NewGoal, GoalRows
  <2>6. Sound(call'[s])
    BY <2>4, <2>5 DEF Sound, AckSound, ObjectSound, CreateSound, UpdatePlanSound, CloseSound,
                      AddGoalSound, UpdateGoalSound, DeleteGoalSound
  <2> QED BY <2>3, <2>4, <2>6, BeginKeeps
<1>2. ASSUME NEW u \in Users, NEW g \in Goals, BeginUpdateGoal(s, u, g) PROVE Inv'
  <2>1. PICK patch \in Patches(GoalFields, Settable(u)) :
          Begins(s, "update_goal", u, g, goal[g], patch)
    BY <1>2 DEF BeginUpdateGoal
  <2>2. /\ UNCHANGED <<today, active, case, plan, goal, log, told>>
        /\ call' = [call EXCEPT ![s] = [op |-> "update_goal", by |-> u, on |-> g,
                                        saw |-> goal[g], new |-> patch]]
    BY <2>1 DEF Begins
  <2>3. call'[s] = [op |-> "update_goal", by |-> u, on |-> g, saw |-> goal[g], new |-> patch]
    BY <2>2 DEF Inv, CallsSound
  <2>4. DOMAIN patch \subseteq Settable(u) /\ \A f \in DOMAIN patch : patch[f] \in GoalFields[f]
    BY PatchFields
  <2>5. /\ DOMAIN patch \subseteq DOMAIN GoalFields
        /\ "text" \in DOMAIN patch => u \in Hr
    BY <2>4 DEF Settable, GoalFields, Hr
  <2>6. goal[g] # None
    BY <1>2 DEF BeginUpdateGoal, Live
  <2>7. Sound(call'[s])
    BY <2>3, <2>4, <2>5, <2>6 DEF Sound, AckSound, ObjectSound, CreateSound, UpdatePlanSound,
                                  CloseSound, AddGoalSound, UpdateGoalSound, DeleteGoalSound
  <2> QED BY <2>2, <2>3, <2>7, BeginKeeps
<1>3. ASSUME NEW u \in Users, NEW g \in Goals, BeginDeleteGoal(s, u, g) PROVE Inv'
  <2>1. /\ goal[g] # None
        /\ UNCHANGED <<today, active, case, plan, goal, log, told>>
        /\ call' = [call EXCEPT ![s] = [op |-> "delete_goal", by |-> u, on |-> g,
                                        saw |-> goal[g], new |-> None]]
    BY <1>3 DEF BeginDeleteGoal, Begins, Live
  <2>2. call'[s] = [op |-> "delete_goal", by |-> u, on |-> g, saw |-> goal[g], new |-> None]
    BY <2>1 DEF Inv, CallsSound
  <2>3. Sound(call'[s])
    BY <2>1, <2>2 DEF Sound, AckSound, ObjectSound, CreateSound, UpdatePlanSound, CloseSound,
                      AddGoalSound, UpdateGoalSound, DeleteGoalSound
  <2> QED BY <2>1, <2>2, <2>3, BeginKeeps
<1>4. ASSUME AddGoal(s) PROVE Inv'
  <2>0. PICK d, row : d = call[s].on /\ row = call[s].new
    OBVIOUS
  <2>1. /\ Commits(s, "add_goal") /\ UNCHANGED <<case, plan, told>>
        /\ goal[d] = None /\ goal' = [goal EXCEPT ![d] = row]
    BY <1>4, <2>0 DEF AddGoal
  <2>2. Sound(call[s]) /\ call[s].op = "add_goal" /\ today' = today /\ active' = active
    <3>1. PICK n : n = Len(log) + 1
      OBVIOUS
    <3> QED BY <3>1, <2>0, <2>1, CommitFacts
  <2>3. d \in Goals /\ row \in GoalRows
    BY <2>0, <2>2 DEF Sound, AddGoalSound
  <2>4. /\ goal' \in [Goals -> GoalRows \cup {None}]
        /\ \A h \in Goals : goal[h] # None => goal'[h] = goal[h]
    BY <2>1, <2>3, <1>t
  <2>5. TypeOK'
    BY <2>1, <2>2, <2>4 DEF Inv, TypeOK
  <2>6. OwnersAreTold'
    BY <2>1, OwnersKept
  <2> QED BY <2>1, <2>4, <2>5, <2>6, PlanCommits
<1>5. ASSUME UpdateGoal(s) PROVE Inv'
  <2>0. PICK d, n, saw, new, by : /\ d = call[s].on /\ n = Len(log) + 1
                                  /\ saw = call[s].saw /\ new = call[s].new /\ by = call[s].by
    OBVIOUS
  <2>1. /\ Commits(s, "update_goal") /\ UNCHANGED <<case, plan, told>>
        /\ goal' = [goal EXCEPT ![d] = Updated(goal[d], saw, new)]
    BY <1>5, <2>0 DEF UpdateGoal
  <2>2. /\ call[s].op = "update_goal" /\ Sound(call[s])
        /\ today' = today /\ active' = active
        /\ \A i \in DOMAIN log : i \in DOMAIN log' /\ i < n /\ log'[i] = log[i]
        /\ log'[n] = [type |-> "update_goal", by |-> call[s].by, on |-> d,
                      old |-> call[s].saw, new |-> call[s].new]
        /\ Events("update_goal", d)' = Events("update_goal", d) \cup {n}
        /\ \A type, x : type # "update_goal" \/ x # d => Events(type, x)' = Events(type, x)
    BY <2>0, <2>1, CommitFacts
  <2>3. /\ d \in Goals /\ goal[d] # None
        /\ DOMAIN new \subseteq DOMAIN GoalFields
        /\ \A f \in DOMAIN new : new[f] \in GoalFields[f]
        /\ "text" \in DOMAIN new => by \in Hr
    BY <2>0, <2>2 DEF Sound, UpdateGoalSound
  <2>4. PICK row : row = Updated(goal[d], saw, new)
    OBVIOUS
  <2>5. /\ row \in GoalRows
        /\ \A f \in DOMAIN GoalFields :
             row[f] = IF f \in Changed(saw, new) THEN new[f] ELSE goal[d][f]
    BY <2>3, <2>4, <1>t, UpdatedGoal
  <2>6. /\ goal' \in [Goals -> GoalRows \cup {None}]
        /\ \A h \in Goals : goal[h] # None => goal'[h] # None
        /\ goal'[d] = row
        /\ \A h \in Goals : h # d => goal'[h] = goal[h]
    BY <2>1, <2>3, <2>4, <2>5, <1>t
  <2>7. TypeOK'
    BY <2>1, <2>2, <2>6 DEF Inv, TypeOK
  <2>8. OwnersAreTold'
    BY <2>1, OwnersKept
  <2>9. \A h \in Goals : h # d => Events("update_goal", h)' = Events("update_goal", h)
    BY <2>2
  <2>10. GoalsFirst'
    BY <2>3, <2>6, <2>9 DEF Inv, GoalsFirst
  <2>11. log'[n].old = saw /\ log'[n].new = new /\ log'[n].by = by
    BY <2>0, <2>2
  <2>12. \A h \in Goals : \A i \in Events("update_goal", h) : i < n /\ log'[i] = log[i]
    BY <2>2 DEF Events
  <2>13. GoalsKeepLastChange'
    <3>1. ASSUME NEW h \in Goals, goal'[h] # None, NEW f \in DOMAIN GoalFields,
                 NEW i \in Changes(h, f)'
          PROVE /\ (\A j \in Changes(h, f)' : j <= i) => goal'[h][f] = log'[i].new[f]
                /\ f = "text" => log'[i].by \in Hr
      <4>1. CASE h # d
        <5>1. Changes(h, f)' = Changes(h, f)
          BY <2>9, <2>12, <4>1 DEF Changes, Changed
        <5>2. i \in Changes(h, f) /\ log'[i] = log[i]
          BY <2>12, <3>1, <5>1 DEF Changes
        <5> QED BY <2>6, <3>1, <4>1, <5>1, <5>2 DEF Inv, GoalsKeepLastChange
      <4>2. CASE h = d /\ i = n
        <5>1. f \in Changed(saw, new)
          BY <2>11, <3>1, <4>2 DEF Changes, Changed
        <5>2. goal'[h][f] = new[f]
          BY <2>5, <2>6, <4>2, <5>1
        <5>3. f = "text" => by \in Hr
          BY <2>3, <5>1 DEF Changed
        <5> QED BY <2>11, <4>2, <5>2, <5>3
      <4>3. CASE h = d /\ i # n
        <5>1. i \in Events("update_goal", d) /\ i \in Changes(d, f) /\ log'[i] = log[i]
          BY <2>2, <2>12, <2>3, <3>1, <4>3 DEF Changes, Changed
        <5>2. f = "text" => log'[i].by \in Hr
          BY <2>3, <5>1 DEF Inv, GoalsKeepLastChange
        <5>3. ASSUME \A j \in Changes(d, f)' : j <= i PROVE goal'[d][f] = log'[i].new[f]
          <6>1. i < n /\ i \in Nat /\ n \in Nat
            BY <2>0, <2>3, <2>12, <5>1, Logged DEF Inv, Commits, Events
          <6>2. n \notin Changes(d, f)'
            BY <5>3, <6>1
          <6>3. f \notin Changed(saw, new)
            BY <2>2, <2>11, <6>2 DEF Changes, Changed
          <6>4. \A j \in Changes(d, f) : j \in Changes(d, f)'
            BY <2>2, <2>3, <2>12 DEF Changes, Changed
          <6>5. \A j \in Changes(d, f) : j <= i
            BY <5>3, <6>4
          <6>6. goal[d][f] = log[i].new[f]
            BY <2>3, <5>1, <6>5 DEF Inv, GoalsKeepLastChange
          <6> QED BY <2>5, <2>6, <5>1, <6>3, <6>6
        <5> QED BY <4>3, <5>2, <5>3
      <4> QED BY <4>1, <4>2, <4>3
    <3>2. Hr' = Hr
      BY DEF Hr
    <3> QED BY <3>1, <3>2 DEF GoalsKeepLastChange
  <2>14. \A q \in Plans : plan[q] # None => plan'[q] # None
    BY <2>1
  <2> QED BY <2>1, <2>6, <2>7, <2>8, <2>10, <2>13, <2>14, CommitKeeps
<1>6. ASSUME DeleteGoal(s) PROVE Inv'
  <2>0. PICK d, n : d = call[s].on /\ n = Len(log) + 1
    OBVIOUS
  <2>1. /\ Commits(s, "delete_goal") /\ UNCHANGED <<case, plan, told>>
        /\ goal' = [goal EXCEPT ![d].deleted = TRUE]
    BY <1>6, <2>0 DEF DeleteGoal
  <2>2. /\ call[s].op = "delete_goal" /\ Sound(call[s])
        /\ today' = today /\ active' = active
        /\ \A i \in DOMAIN log : i \in DOMAIN log' /\ i < n /\ log'[i] = log[i]
        /\ log'[n] = [type |-> "delete_goal", by |-> call[s].by, on |-> d,
                      old |-> call[s].saw, new |-> call[s].new]
        /\ Events("delete_goal", d)' = Events("delete_goal", d) \cup {n}
        /\ \A type, x : type # "delete_goal" \/ x # d => Events(type, x)' = Events(type, x)
    BY <2>0, <2>1, CommitFacts
  <2>3. d \in Goals /\ goal[d] # None /\ goal[d] \in GoalRows
    BY <2>0, <2>2, <1>t DEF Sound, DeleteGoalSound
  <2>4. PICK row : row = [goal[d] EXCEPT !.deleted = TRUE]
    OBVIOUS
  <2>5. row \in GoalRows /\ \A f \in DOMAIN GoalFields : row[f] = goal[d][f]
    BY <2>3, <2>4, DeletedRow
  <2>6. /\ goal' \in [Goals -> GoalRows \cup {None}]
        /\ \A h \in Goals : goal[h] # None => goal'[h] # None
        /\ goal'[d] = row
        /\ \A h \in Goals : h # d => goal'[h] = goal[h]
    BY <2>1, <2>3, <2>4, <2>5, <1>t
  <2>7. TypeOK'
    BY <2>1, <2>2, <2>6 DEF Inv, TypeOK
  <2>8. OwnersAreTold'
    BY <2>1, OwnersKept
  <2>9. \A h \in Goals : Events("update_goal", h)' = Events("update_goal", h)
    BY <2>2
  <2>10. GoalsFirst'
    BY <2>3, <2>6, <2>9 DEF Inv, GoalsFirst
  <2>11. \A h \in Goals : \A i \in Events("update_goal", h) : log'[i] = log[i]
    BY <2>2 DEF Events
  <2>12. GoalsKeepLastChange'
    <3>1. ASSUME NEW h \in Goals, goal'[h] # None, NEW f \in DOMAIN GoalFields,
                 NEW i \in Changes(h, f)'
          PROVE /\ (\A j \in Changes(h, f)' : j <= i) => goal'[h][f] = log'[i].new[f]
                /\ f = "text" => log'[i].by \in Hr
      <4>1. Changes(h, f)' = Changes(h, f)
        BY <2>9, <2>11 DEF Changes, Changed
      <4>2. i \in Changes(h, f) /\ log'[i] = log[i]
        BY <2>11, <3>1, <4>1 DEF Changes
      <4>3. goal[h] # None /\ goal'[h][f] = goal[h][f]
        BY <2>3, <2>5, <2>6, <3>1
      <4> QED BY <4>1, <4>2, <4>3 DEF Inv, GoalsKeepLastChange
    <3>2. Hr' = Hr
      BY DEF Hr
    <3> QED BY <3>1, <3>2 DEF GoalsKeepLastChange
  <2>13. \A q \in Plans : plan[q] # None => plan'[q] # None
    BY <2>1
  <2> QED BY <2>1, <2>6, <2>7, <2>8, <2>10, <2>12, <2>13, CommitKeeps
<1> QED BY <1>1, <1>2, <1>3, <1>4, <1>5, <1>6

\* A step that writes no row: the day, an account, the end of a call without a commit.
LEMMA AroundSteps ==
  ASSUME Inv, UNCHANGED <<case, plan, goal, log, told>>,
         \/ NextDay
         \/ \E u \in Leavers : Deactivate(u)
         \/ \E s \in Slots : Rollback(s)
         \/ UNCHANGED vars
  PROVE Inv'
<1>1. /\ today \in Days /\ today' \in Days /\ today' >= today /\ today \in Nat
      /\ active' \subseteq Users
  BY DEF Inv, TypeOK, Days, NextDay, Deactivate, Rollback, vars
<1>2. /\ call' = [s \in Slots |-> call'[s]]
      /\ \A s \in Slots : call'[s] \in {call[s], None}
  BY DEF Inv, CallsSound, NextDay, Deactivate, Rollback, vars
<1>3. CallsSound
  BY DEF Inv
<1>4. CallsSound'
  BY <1>1, <1>2, <1>3, CallsKept
<1>5. TypeOK' /\ LogIsSequence'
  BY <1>1 DEF Inv, TypeOK, LogIsSequence
<1>6. \A type, x : Events(type, x)' = Events(type, x)
  BY DEF Events
<1>7. CasesLogged' /\ ObjectionInItsWindow' /\ AnsweredOnce'
  BY <1>1, <1>6, CasesKept
<1>8. GoalsFirst' /\ GoalsKeepLastChange'
  BY <1>6, GoalsKept
<1>9. OwnersAreTold'
  BY OwnersKept
<1> QED BY <1>4, <1>5, <1>7, <1>8, <1>9 DEF Inv

LEMMA StepInv == Inv /\ [Next]_vars => Inv'
<1> SUFFICES ASSUME Inv, [Next]_vars PROVE Inv'
  OBVIOUS
<1>1. CASE NextDay
  BY <1>1, AroundSteps DEF NextDay
<1>2. ASSUME NEW u \in Leavers, Deactivate(u) PROVE Inv'
  BY <1>2, AroundSteps DEF Deactivate
<1>3. ASSUME NEW s \in Slots, Rollback(s) PROVE Inv'
  BY <1>3, AroundSteps DEF Rollback
<1>4. CASE UNCHANGED vars
  BY <1>4, AroundSteps DEF vars
<1>5. ASSUME NEW u \in Users, NEW c \in Cases, ResolveObjection(u, c) PROVE Inv'
  BY <1>5, ResolveKeeps
<1>6. ASSUME NEW s \in Slots, NEW u \in Users, NEW c \in Cases,
             BeginAcknowledge(s, u, c) \/ BeginObjection(s, u, c)
      PROVE Inv'
  BY <1>6, ObjectionSteps
<1>7. ASSUME NEW s \in Slots, Acknowledge(s) \/ FileObjection(s) PROVE Inv'
  BY <1>7, ObjectionSteps
<1>8. ASSUME NEW s \in Slots, NEW u \in Users, NEW p \in Plans,
             \/ \E c \in Cases, owner \in Users \cup {None} : BeginCreatePlan(s, u, p, c, owner)
             \/ BeginUpdatePlan(s, u, p)
             \/ \E closing \in Closings : BeginClosePlan(s, u, p, closing)
      PROVE Inv'
  BY <1>8, PlanSteps
<1>9. ASSUME NEW s \in Slots,
             (\E g \in Goals : CreatePlan(s, g)) \/ UpdatePlan(s) \/ ClosePlan(s)
      PROVE Inv'
  BY <1>9, PlanSteps
<1>10. ASSUME NEW s \in Slots, NEW u \in Users, NEW g \in Goals,
              \/ \E p \in Plans : BeginAddGoal(s, u, g, p)
              \/ BeginUpdateGoal(s, u, g) \/ BeginDeleteGoal(s, u, g)
       PROVE Inv'
  BY <1>10, GoalSteps
<1>11. ASSUME NEW s \in Slots, AddGoal(s) \/ UpdateGoal(s) \/ DeleteGoal(s) PROVE Inv'
  BY <1>11, GoalSteps
<1> QED BY <1>1, <1>2, <1>3, <1>4, <1>5, <1>6, <1>7, <1>8, <1>9, <1>10, <1>11 DEF Next

LEMMA SpecInv == Spec => []Inv
BY InitInv, StepInv, PTL DEF Spec

-------------------------------------------------------------------------------
\* The rows keep their types, and no UPDATE with what an older read has decided makes
\* a row of columns that do not belong to it.
THEOREM TypeCorrect == Spec => []TypeOK
<1>1. Inv => TypeOK
  BY DEF Inv
<1> QED BY <1>1, SpecInv, PTL

\* An objection a case shows lies in the window of an acknowledgement of the log,
\* however many of the unlocked calls overlap.
THEOREM ObjectionsInTheirWindow == Spec => []ObjectionInItsWindow
<1>1. Inv => ObjectionInItsWindow
  BY DEF Inv
<1> QED BY <1>1, SpecInv, PTL

\* The locked answer comes once and after the objection; the log agrees with the row.
THEOREM ObjectionsAnsweredOnce == Spec => []AnsweredOnce
<1>1. Inv => AnsweredOnce
  BY DEF Inv
<1> QED BY <1>1, SpecInv, PTL

\* The owner of a plan has been told, however the updates of the plan overlap.
THEOREM PlanOwnersAreTold == Spec => []OwnersAreTold
<1>1. Inv => OwnersAreTold
  BY DEF Inv
<1> QED BY <1>1, SpecInv, PTL

\* A goal shows the last logged change of each of its fields, and the owner of a plan
\* never the author of a text.
THEOREM GoalsShowTheLastChange == Spec => []GoalsKeepLastChange
<1>1. Inv => GoalsKeepLastChange
  BY DEF Inv
<1> QED BY <1>1, SpecInv, PTL

====

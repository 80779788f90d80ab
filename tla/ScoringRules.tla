----------------------------- MODULE ScoringRules -----------------------------
(***************************************************************************)
(* What a case is measured with.  The set of active indicators is kept in  *)
(* numbered frameworks, the weights and thresholds in scoring schemes; a   *)
(* case is stamped with one of each when it is opened, and the employee    *)
(* answers the questions of a framework too.  A handler that changes the   *)
(* set of indicators reads, sends its change (the flush, which locks the   *)
(* rows), publishes the next framework and moves the open cases nobody has *)
(* written in, and commits; others run in between.  Reordering and         *)
(* rewording do not change the set and are left out.                       *)
(* Sources: services/indicator_framework.py, services/scoring_scheme.py,   *)
(* services/self_assessment.py, api/routers/indicators.py,                 *)
(* scoring_schemes.py, me.py, evaluations.py.                              *)
(***************************************************************************)
EXTENDS Naturals, Sequences

CONSTANTS
  None,
  Users,         \* the holders of manage_scoring
  Indicators,    \* ids of indicators
  Seeded,        \* the indicators the migrations insert
  Schemes,       \* ids of scoring schemes
  FirstScheme,   \* the scheme the migration activates
  People,
  Cases,
  SubjectOf,     \* SubjectOf[c]: the person a case is about
  Slots,         \* how many calls can be in flight
  MaxVersions    \* bound on the frameworks

ASSUME SeedAssumption == Seeded \subseteq Indicators /\ FirstScheme \in Schemes
ASSUME SubjectAssumption == SubjectOf \in [Cases -> People]
ASSUME NoneAssumption == None \notin Users \cup Schemes
ASSUME BoundAssumption == MaxVersions \in Nat

VARIABLES
  indicator,   \* indicator[i]: "none", "active", "inactive" or "deleted"
  frameworks,  \* the members of each framework, in the order of their versions
  scheme,      \* scheme[x]: a row of scoring_schemes
  case,        \* case[c]: a row of evaluation_records, None before its commit
  form,        \* form[p]: the self-assessment for the contract of p, or None
  call         \* call[s]: the call in flight in a slot, with what it has read

vars == <<indicator, frameworks, scheme, case, form, call>>

Versions == 1..Len(frameworks)
Active == {i \in Indicators : indicator[i] = "active"}
Existing == {i \in Indicators : indicator[i] \in {"active", "inactive"}}

SchemeRows == [status : {"none", "draft", "active", "retired", "deleted"},
               author : Users \cup {None}, by : Users \cup {None}]
Results == [scheme : Schemes \cup {None}, on : SUBSET Indicators]
CaseRows == [status : {"draft", "submitted", "closed"}, framework : Nat,
             scheme : Schemes \cup {None}, scores : SUBSET Indicators,
             result : Results \cup {None}]
Forms == [framework : Nat, submitted : BOOLEAN, answers : SUBSET Indicators]

ASSUME RowsAssumption == None \notin CaseRows

TypeOK ==
  /\ indicator \in [Indicators -> {"none", "active", "inactive", "deleted"}]
  /\ frameworks \in Seq(SUBSET Indicators) /\ Len(frameworks) > 0
  /\ scheme \in [Schemes -> SchemeRows]
  /\ case \in [Cases -> CaseRows \cup {None}]
  /\ form \in [People -> Forms \cup {None}]
  /\ \A c \in Cases : case[c] # None => case[c].framework \in Versions
  /\ \A p \in People : form[p] # None => form[p].framework \in Versions

Init ==
  /\ indicator = [i \in Indicators |-> IF i \in Seeded THEN "active" ELSE "none"]
  /\ frameworks = <<Seeded>>
  /\ scheme = [x \in Schemes |-> [status |-> IF x = FirstScheme THEN "active" ELSE "none",
                                  author |-> None, by |-> None]]
  /\ case = [c \in Cases |-> None]
  /\ form = [p \in People |-> None]
  /\ call = [s \in Slots |-> None]

-------------------------------------------------------------------------------
(* Calls *)

Begins(s, c) ==
  /\ call[s] = None
  /\ call' = [call EXCEPT ![s] = c]

Ends(s, op) ==
  /\ call[s] # None /\ call[s].op = op
  /\ call' = [call EXCEPT ![s] = None]

\* The calls at one point of their way.
InFlight(op) == {call[s] : s \in {r \in Slots : call[r] # None /\ call[r].op = op}}

\* An error, a refusal of the database, a deadlock or the death of the process.
Rollback(s) ==
  /\ call[s] # None
  /\ call' = [call EXCEPT ![s] = None]
  /\ UNCHANGED <<indicator, frameworks, scheme, case, form>>

-------------------------------------------------------------------------------
(* Indicators and their frameworks *)

\* An employee has opened the form of the contract, or the evaluator has scored.
Untouched(c) == case[c].scores = {} /\ form[SubjectOf[c]] = None

\* The cases rebind_untouched_open_records finds.
Movable ==
  {c \in Cases : case[c] # None /\ case[c].status # "closed" /\ Untouched(c)}

\* _scored_count: the scores of evaluators, not the answers of employees.
IsScored(i) == \E c \in Cases : case[c] # None /\ i \in case[c].scores

\* Mutant: no foreign key from the answers of employees.
ScoreRefers(i) == IsScored(i)

\* The rows whose foreign key holds an indicator.
Referenced(i) == IsScored(i) \/ \E p \in People : form[p] # None /\ i \in form[p].answers

\* The changes of create_indicator, delete_indicator, update_indicator (activation
\* and deactivation) and replace_indicator, with what the handler checks first.
Change(on, off, gone) == [on |-> on, off |-> off, gone |-> gone]
Changes ==
  {Change({i}, {}, {}) : i \in {j \in Indicators : indicator[j] # "deleted"} \ Active}
  \cup {Change({}, {i}, {}) : i \in Active}
  \cup {Change({}, {}, {i}) : i \in {j \in Existing : ~IsScored(j)}}
  \cup {Change({j}, {i}, {}) : i \in Active, j \in {k \in Indicators : indicator[k] = "none"}}

Touches(change) == change.on \cup change.off \cup change.gone

BeginChange(s) ==
  /\ Len(frameworks) < MaxVersions
  /\ \E change \in Changes : Begins(s, [op |-> "change", change |-> change])
  /\ UNCHANGED <<indicator, frameworks, scheme, case, form>>

\* The rows a flushed change has locked, and those it has deleted.
Locked == UNION {Touches(c.change) : c \in InFlight("publish")}
Going == UNION {c.change.gone : c \in InFlight("publish")}

\* The flush, and what bump and rebind_untouched_open_records read after it.  A row
\* that is gone cannot be changed, and a referenced one not deleted.
Flush(s) ==
  /\ call[s] # None /\ call[s].op = "change"
  /\ LET change == call[s].change
     IN /\ Touches(change) \cap Locked = {}
        /\ \A i \in Touches(change) : indicator[i] # "deleted"
        /\ \A i \in change.gone : ~Referenced(i)
        /\ call' = [call EXCEPT ![s] =
             [op |-> "publish", change |-> change, version |-> Len(frameworks),
              members |-> (Active \ (change.off \cup change.gone)) \cup change.on,
              movable |-> Movable]]
  /\ UNCHANGED <<indicator, frameworks, scheme, case, form>>

\* Mutant: the column version is not unique.
AnyVersion(version) == TRUE

\* The unique index: nobody else has published that version meanwhile.
NewVersion(version) == version = Len(frameworks)

Publish(s) ==
  /\ Ends(s, "publish")
  /\ NewVersion(call[s].version)
  /\ frameworks' = Append(frameworks, call[s].members)
  /\ indicator' = [i \in Indicators |->
       IF i \in call[s].change.on THEN "active"
       ELSE IF i \in call[s].change.off THEN "inactive"
       ELSE IF i \in call[s].change.gone THEN "deleted" ELSE indicator[i]]
  /\ case' = [c \in Cases |->
       IF c \in call[s].movable
       THEN [case[c] EXCEPT !.framework = Len(frameworks) + 1] ELSE case[c]]
  /\ UNCHANGED <<scheme, form>>

\* ensure_framework: a latest version that is not the active set is followed by one
\* that is.
Ensured ==
  IF frameworks[Len(frameworks)] = Active THEN frameworks ELSE Append(frameworks, Active)

-------------------------------------------------------------------------------
(* Scoring schemes *)

ActiveSchemes == {x \in Schemes : scheme[x].status = "active"}

\* active_scheme
ActiveScheme == IF ActiveSchemes = {} THEN None ELSE CHOOSE x \in ActiveSchemes : TRUE

CreateDraft(u, x) ==
  /\ scheme[x].status = "none"
  /\ scheme' = [scheme EXCEPT ![x] = [status |-> "draft", author |-> u, by |-> None]]
  /\ UNCHANGED <<indicator, frameworks, case, form, call>>

\* activate_scheme up to its first UPDATE; the author may not be the one.
BeginActivate(s, u, x) ==
  /\ scheme[x].status = "draft" /\ scheme[x].author # u
  /\ Begins(s, [op |-> "activate", on |-> x, by |-> u, previous |-> ActiveScheme])
  /\ UNCHANGED <<indicator, frameworks, scheme, case, form>>

\* Mutant: the partial unique index on the status is missing.
MayBeActive(x, previous) == scheme[x].status # "deleted"

\* uq_single_active_scheme, after the previous scheme has been retired; the row of
\* the draft is still there.
MayActivate(x, previous) ==
  scheme[x].status # "deleted" /\ ActiveSchemes \subseteq {x, previous}

Activate(s) ==
  /\ Ends(s, "activate")
  /\ LET c == call[s]
     IN /\ MayActivate(c.on, c.previous)
        /\ scheme' = [x \in Schemes |->
             CASE x = c.on -> [scheme[x] EXCEPT !.status = "active", !.by = c.by]
               [] x = c.previous /\ x # c.on /\ scheme[x].status # "deleted" ->
                    [scheme[x] EXCEPT !.status = "retired"]
               [] OTHER -> scheme[x]]
  /\ UNCHANGED <<indicator, frameworks, case, form>>

BeginDeleteDraft(s, x) ==
  /\ scheme[x].status = "draft"
  /\ Begins(s, [op |-> "delete_draft", on |-> x])
  /\ UNCHANGED <<indicator, frameworks, scheme, case, form>>

\* Mutant: no foreign key from the cases.
NeverStamped(x) == TRUE

\* The foreign key of evaluation_records.
Unstamped(x) == \A c \in Cases : case[c] # None => case[c].scheme # x

\* The DELETE asks for the id alone.
DeleteDraft(s) ==
  /\ Ends(s, "delete_draft")
  /\ Unstamped(call[s].on)
  /\ scheme' = [scheme EXCEPT ![call[s].on].status = "deleted"]
  /\ UNCHANGED <<indicator, frameworks, case, form>>

-------------------------------------------------------------------------------
(* Cases *)

\* create_evaluation and bulk_evaluation.execute up to the INSERT: the scheme and
\* the framework a new case is stamped with.
BeginCreate(s, c) ==
  /\ case[c] = None
  /\ \A d \in InFlight("create") : d.on # c
  /\ LET p == SubjectOf[c]
     IN Begins(s, [op |-> "create", on |-> c, scheme |-> ActiveScheme,
                   framework |-> IF form[p] # None THEN form[p].framework ELSE Len(Ensured)])
  /\ UNCHANGED <<indicator, frameworks, scheme, case, form>>

\* uq_open_evaluation_per_person
NoOpenCase(p) ==
  \A c \in Cases : SubjectOf[c] = p /\ case[c] # None => case[c].status = "closed"

Create(s) ==
  /\ Ends(s, "create")
  /\ LET new == call[s]
     IN /\ NoOpenCase(SubjectOf[new.on])
        /\ new.scheme # None => scheme[new.scheme].status # "deleted"
        /\ frameworks' = IF new.framework \in Versions THEN frameworks ELSE Ensured
        /\ case' = [case EXCEPT ![new.on] =
             [status |-> "draft", framework |-> new.framework, scheme |-> new.scheme,
              scores |-> {}, result |-> None]]
  /\ UNCHANGED <<indicator, scheme, form>>

IsIn(c, status) == case[c] # None /\ case[c].status = status

\* indicators_for_record
Questions(c) == frameworks[case[c].framework] \cap Existing

\* upsert_scores: the row of the case is locked, the rows of the scores are replaced.
SaveScores(c, scored) ==
  /\ IsIn(c, "draft")
  /\ scored \subseteq Questions(c) /\ scored \cap Going = {}
  /\ case' = [case EXCEPT ![c].scores = scored]
  /\ UNCHANGED <<indicator, frameworks, scheme, form, call>>

\* Mutant: the rules of the day.
RulesOfToday(c) == ActiveScheme

\* rules_for_record; None stands for LEGACY_RULES.
RulesFor(c) == IF case[c].scheme # None THEN case[c].scheme ELSE ActiveScheme

\* submit with finalize_scoring: every question of the case is scored.
Submit(c) ==
  /\ IsIn(c, "draft")
  /\ case[c].scores = Questions(c)
  /\ case' = [case EXCEPT ![c].status = "submitted",
                          ![c].result = [scheme |-> RulesFor(c), on |-> case[c].scores]]
  /\ UNCHANGED <<indicator, frameworks, scheme, form, call>>

\* The chain returns a case, finalizes it, or HR cancels it.
Return(c) ==
  /\ IsIn(c, "submitted")
  /\ case' = [case EXCEPT ![c].status = "draft"]
  /\ UNCHANGED <<indicator, frameworks, scheme, form, call>>

Close(c) ==
  /\ case[c] # None /\ case[c].status # "closed"
  /\ case' = [case EXCEPT ![c].status = "closed"]
  /\ UNCHANGED <<indicator, frameworks, scheme, form, call>>

-------------------------------------------------------------------------------
(* Self-assessment *)

\* The framework of a case of the person, for a tab with the old URL, or the latest.
OpeningVersions(p) ==
  {Len(Ensured)} \cup {case[c].framework : c \in {d \in Cases : case[d] # None /\ SubjectOf[d] = p}}

\* The persons whose row a submission has locked.
Submitting == {c.by : c \in InFlight("check") \cup InFlight("answer")}

\* Opening the form, and invite, insert its row, which waits for the row of the person.
OpenForm(p) ==
  /\ form[p] = None /\ p \notin Submitting
  /\ \E v \in OpeningVersions(p) :
       form' = [form EXCEPT ![p] = [framework |-> v, submitted |-> FALSE, answers |-> {}]]
  /\ frameworks' = Ensured
  /\ UNCHANGED <<indicator, scheme, case, call>>

\* submit_current_self_assessment locks the row of the person and pins the form to the
\* latest version (ensure_framework).
BeginSubmitForm(s, p) ==
  /\ p \notin Submitting
  /\ form[p] # None => ~form[p].submitted
  /\ Begins(s, [op |-> "check", by |-> p, framework |-> Len(Ensured)])
  /\ UNCHANGED <<indicator, frameworks, scheme, case, form>>

\* indicator_ids_for_assessment reads the latest version (current_framework) once more:
\* the answers have to be those to all its questions.
CheckForm(s) ==
  /\ call[s] # None /\ call[s].op = "check"
  /\ LET c == call[s]
         known == IF c.framework \in Versions THEN frameworks ELSE Ensured
         answers == known[Len(known)]
     IN /\ answers # {}
        /\ call' = [call EXCEPT ![s] = [op |-> "answer", by |-> c.by, framework |-> c.framework,
                                        answers |-> answers]]
  /\ UNCHANGED <<indicator, frameworks, scheme, case, form>>

\* The answers are inserted and the form is committed; their questions have to be
\* there (the foreign key).
SubmitForm(s) ==
  /\ Ends(s, "answer")
  /\ LET c == call[s]
     IN /\ c.answers \subseteq Existing \ Going
        /\ form' = [form EXCEPT ![c.by] = [framework |-> c.framework, submitted |-> TRUE,
                                           answers |-> c.answers]]
        /\ frameworks' = IF c.framework \in Versions THEN frameworks ELSE Ensured
  /\ UNCHANGED <<indicator, scheme, case>>

-------------------------------------------------------------------------------
Next ==
  \/ \E s \in Slots :
       \/ BeginChange(s) \/ Flush(s) \/ Publish(s) \/ Rollback(s)
       \/ \E x \in Schemes : BeginDeleteDraft(s, x) \/ \E u \in Users : BeginActivate(s, u, x)
       \/ Activate(s) \/ DeleteDraft(s)
       \/ \E c \in Cases : BeginCreate(s, c)
       \/ Create(s)
       \/ \E p \in People : BeginSubmitForm(s, p)
       \/ CheckForm(s) \/ SubmitForm(s)
  \/ \E u \in Users, x \in Schemes : CreateDraft(u, x)
  \/ \E c \in Cases : Submit(c) \/ Return(c) \/ Close(c)
  \/ \E c \in Cases, scored \in SUBSET Indicators : SaveScores(c, scored)
  \/ \E p \in People : OpenForm(p)

Spec == Init /\ [][Next]_vars

-------------------------------------------------------------------------------
\* However the changes of HR overlap, the latest framework lists exactly the active
\* indicators: no case is opened under a set that never was (bump, ensure_framework).
LatestIsActiveSet == frameworks[Len(frameworks)] = Active

\* The questions of every score and of every answer are still there, though
\* delete_indicator asks for the scores of evaluators alone and asks before it deletes;
\* and whatever is published during a submission, its answers are complete for one
\* version, the one the form is pinned to or a later one.
AnswersHaveQuestions ==
  /\ \A c \in Cases : case[c] # None => case[c].scores \subseteq Existing
  /\ \A p \in People : form[p] # None /\ form[p].submitted =>
       /\ form[p].answers \subseteq Existing
       /\ \E v \in form[p].framework .. Len(frameworks) : form[p].answers = frameworks[v]

\* Two HR users may activate two drafts at once: one scheme at most is active, and
\* nobody's draft took effect by the hand of its author alone (activate).
OneActiveScheme ==
  /\ \A x, y \in ActiveSchemes : x = y
  /\ \A x \in ActiveSchemes \ {FirstScheme} : scheme[x].by \notin {None, scheme[x].author}

\* A result was computed by the scheme its case was stamped with, whatever has been
\* activated since, and that scheme can still be looked up (rules_for_record,
\* delete_draft: "cases are stamped with it").
ResultsKeepTheirScheme ==
  \A c \in Cases : case[c] # None /\ case[c].scheme # None =>
    /\ case[c].result # None => case[c].result.scheme = case[c].scheme
    /\ scheme[case[c].scheme].status \in {"active", "retired"}

===============================================================================

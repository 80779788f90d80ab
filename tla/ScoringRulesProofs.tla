-------------------------- MODULE ScoringRulesProofs --------------------------
(***************************************************************************)
(* Proofs about ScoringRules, for any number of indicators, schemes, cases *)
(* and calls in flight, and about ScoringArithmetic, for any questions,    *)
(* schemes and sheets.                                                     *)
(*                                                                         *)
(* Of the rules: what a call has read may be out of date when it commits;  *)
(* Sound says what is still true of it, and for a change of the indicators *)
(* that is: if nobody has published since its flush, the members it has    *)
(* computed are those its own change leaves active.                        *)
(*                                                                         *)
(* Of the arithmetic, in the second part: sums and rounded quotients grow  *)
(* with what they are made of, whichever way a tie goes, and a special     *)
(* score that is cut is cut to what is left to a hundred.                  *)
(***************************************************************************)
EXTENDS ScoringRules, ScoringArithmetic, FiniteSetTheorems, TLAPS

ChangeSets == [on : SUBSET Indicators, off : SUBSET Indicators, gone : SUBSET Indicators]

\* The active set once a change is committed.
Result(change) == (Active \ (change.off \cup change.gone)) \cup change.on

\* The statuses of a scheme that has been active.
Past == {"active", "retired", "deleted"}

ChangeSound(c) == c.op = "change" => c.change \in ChangeSets

PublishSound(c) ==
  c.op = "publish" =>
    /\ c.change \in ChangeSets
    /\ c.version \in Nat /\ c.version <= Len(frameworks)
    /\ c.members \subseteq Indicators
    /\ \A d \in c.movable : d \in Cases => case[d] # None
    /\ c.version = Len(frameworks) => c.members = Result(c.change)
    /\ \A i \in c.change.gone : ~Referenced(i)

ActivateSound(c) ==
  c.op = "activate" =>
    /\ c.on \in Schemes /\ c.by \in Users /\ c.previous \in Schemes \cup {None}
    /\ scheme[c.on].author # c.by /\ scheme[c.on].status # "none"

DeleteSound(c) == c.op = "delete_draft" => c.on \in Schemes /\ scheme[c.on].status # "none"

CreateSound(c) ==
  c.op = "create" =>
    /\ c.on \in Cases /\ c.framework \in Versions /\ c.scheme \in Schemes \cup {None}
    /\ c.scheme # None => scheme[c.scheme].status \in Past

CheckSound(c) == c.op = "check" => c.by \in People /\ c.framework \in Versions

AnswerSound(c) ==
  c.op = "answer" =>
    /\ c.by \in People /\ c.framework \in Versions /\ c.answers \subseteq Indicators
    /\ \E v \in c.framework .. Len(frameworks) : c.answers = frameworks[v]

FormSound(c) == CheckSound(c) /\ AnswerSound(c)

Sound(c) ==
  /\ ChangeSound(c) /\ PublishSound(c) /\ ActivateSound(c) /\ DeleteSound(c) /\ CreateSound(c)
  /\ FormSound(c)

CallsSound ==
  /\ call = [s \in Slots |-> call[s]]
  /\ \A s \in Slots : call[s] # None => Sound(call[s])

Inv ==
  /\ TypeOK /\ CallsSound
  /\ LatestIsActiveSet /\ AnswersHaveQuestions /\ OneActiveScheme /\ ResultsKeepTheirScheme

USE SeedAssumption, SubjectAssumption, NoneAssumption

-------------------------------------------------------------------------------
LEMMA InitInv == Init => Inv
<1> SUFFICES ASSUME Init PROVE Inv
  OBVIOUS
<1>1. TypeOK
  BY DEF Init, TypeOK, SchemeRows
<1>2. CallsSound
  BY DEF Init, CallsSound
<1>3. LatestIsActiveSet
  BY DEF Init, LatestIsActiveSet, Active
<1>4. AnswersHaveQuestions
  BY DEF Init, AnswersHaveQuestions
<1>5. OneActiveScheme
  BY DEF Init, OneActiveScheme, ActiveSchemes
<1>6. ResultsKeepTheirScheme
  BY DEF Init, ResultsKeepTheirScheme
<1>7. QED
  BY <1>1, <1>2, <1>3, <1>4, <1>5, <1>6 DEF Inv

\* The branch of ensure_framework that publishes is never needed.
LEMMA NothingToEnsure == ASSUME Inv PROVE Ensured = frameworks
  BY DEF Inv, LatestIsActiveSet, Ensured

\* A step that changes the calls alone needs its new call to be sound.
LEMMA CallStep ==
  ASSUME Inv, NEW s \in Slots, NEW c, c # None => Sound(c),
         call' = [call EXCEPT ![s] = c],
         UNCHANGED <<indicator, frameworks, scheme, case, form>>
  PROVE  Inv'
<1>1. \A d : Sound(d)' <=> Sound(d)
  BY DEF Sound, ChangeSound, PublishSound, ActivateSound, DeleteSound, CreateSound,
         FormSound, CheckSound, AnswerSound, Result, Active, Referenced, IsScored, Versions
<1>2. CallsSound'
  BY <1>1 DEF Inv, CallsSound
<1>3. TypeOK' /\ LatestIsActiveSet' /\ AnswersHaveQuestions' /\ OneActiveScheme'
        /\ ResultsKeepTheirScheme'
  BY DEF Inv, TypeOK, LatestIsActiveSet, AnswersHaveQuestions, OneActiveScheme,
         ResultsKeepTheirScheme, Versions, Active, Existing, ActiveSchemes
<1>4. QED
  BY <1>2, <1>3 DEF Inv

LEMMA RollbackStep ==
  ASSUME Inv, NEW s \in Slots, Rollback(s)
  PROVE  Inv'
  BY CallStep DEF Rollback

LEMMA BeginChangeStep ==
  ASSUME Inv, NEW s \in Slots, BeginChange(s)
  PROVE  Inv'
<1>1. PICK change \in Changes :
        call' = [call EXCEPT ![s] = [op |-> "change", change |-> change]]
  BY DEF BeginChange, Begins
<1>2. change \in ChangeSets
  BY DEF Changes, Change, ChangeSets, Active, Existing
<1>3. Sound([op |-> "change", change |-> change])
  BY <1>2 DEF Sound, ChangeSound, PublishSound, ActivateSound, DeleteSound, CreateSound,
              FormSound, CheckSound, AnswerSound
<1>4. QED
  BY <1>1, <1>3, CallStep DEF BeginChange

LEMMA FlushStep ==
  ASSUME Inv, NEW s \in Slots, Flush(s)
  PROVE  Inv'
<1> DEFINE change == call[s].change
           c == [op |-> "publish", change |-> change, version |-> Len(frameworks),
                 members |-> (Active \ (change.off \cup change.gone)) \cup change.on,
                 movable |-> Movable]
<1>1. call' = [call EXCEPT ![s] = c]
  BY DEF Flush
<1>2. change \in ChangeSets
  BY DEF Flush, Inv, CallsSound, Sound, ChangeSound
<1>3. Len(frameworks) \in Nat
  BY DEF Inv, TypeOK
<1>4. c.members \subseteq Indicators /\ c.members = Result(change)
  BY <1>2 DEF ChangeSets, Active, Result
<1>5. PublishSound(c)
  BY <1>2, <1>3, <1>4 DEF PublishSound, Flush, Movable
<1>6. Sound(c)
  BY <1>5 DEF Sound, ChangeSound, ActivateSound, DeleteSound, CreateSound,
              FormSound, CheckSound, AnswerSound
<1>7. QED
  BY <1>1, <1>6, CallStep DEF Flush

\* A scheme that has the status active is a scheme.
LEMMA ActiveSchemeType ==
  /\ ActiveScheme \in Schemes \cup {None}
  /\ ActiveScheme # None => scheme[ActiveScheme].status = "active"
<1>1. CASE ActiveSchemes = {}
  BY <1>1 DEF ActiveScheme
<1>2. CASE ActiveSchemes # {}
  <2>1. ActiveScheme \in ActiveSchemes
    BY <1>2 DEF ActiveScheme
  <2>2. QED
    BY <2>1 DEF ActiveSchemes
<1>3. QED
  BY <1>1, <1>2

LEMMA BeginSchemeStep ==
  ASSUME Inv, NEW s \in Slots, NEW x \in Schemes,
         BeginDeleteDraft(s, x) \/ \E u \in Users : BeginActivate(s, u, x)
  PROVE  Inv'
<1>1. CASE BeginDeleteDraft(s, x)
  <2>1. Sound([op |-> "delete_draft", on |-> x])
    BY <1>1 DEF BeginDeleteDraft, Sound, ChangeSound, PublishSound, ActivateSound, DeleteSound,
                CreateSound, FormSound, CheckSound, AnswerSound
  <2>2. QED
    BY <1>1, <2>1, CallStep DEF BeginDeleteDraft, Begins
<1>2. ASSUME NEW u \in Users, BeginActivate(s, u, x)
      PROVE  Inv'
  <2> DEFINE c == [op |-> "activate", on |-> x, by |-> u, previous |-> ActiveScheme]
  <2>1. ActivateSound(c)
    BY <1>2, ActiveSchemeType DEF ActivateSound, BeginActivate
  <2>2. Sound(c)
    BY <2>1 DEF Sound, ChangeSound, PublishSound, DeleteSound, CreateSound,
                FormSound, CheckSound, AnswerSound
  <2>3. QED
    BY <1>2, <2>2, CallStep DEF BeginActivate, Begins
<1>3. QED
  BY <1>1, <1>2

LEMMA BeginCreateStep ==
  ASSUME Inv, NEW s \in Slots, NEW k \in Cases, BeginCreate(s, k)
  PROVE  Inv'
<1> DEFINE p == SubjectOf[k]
           v == IF form[p] # None THEN form[p].framework ELSE Len(Ensured)
           c == [op |-> "create", on |-> k, scheme |-> ActiveScheme, framework |-> v]
<1>1. call' = [call EXCEPT ![s] = c]
  BY DEF BeginCreate, Begins
<1>2. v \in Versions
  BY NothingToEnsure DEF Inv, TypeOK, Versions
<1>3. CreateSound(c)
  BY <1>2, ActiveSchemeType DEF CreateSound, Past
<1>4. Sound(c)
  BY <1>3 DEF Sound, ChangeSound, PublishSound, ActivateSound, DeleteSound,
              FormSound, CheckSound, AnswerSound
<1>5. QED
  BY <1>1, <1>4, CallStep DEF BeginCreate

LEMMA BeginSubmitFormStep ==
  ASSUME Inv, NEW s \in Slots, NEW p \in People, BeginSubmitForm(s, p)
  PROVE  Inv'
<1> DEFINE c == [op |-> "check", by |-> p, framework |-> Len(Ensured)]
<1>1. call' = [call EXCEPT ![s] = c]
  BY DEF BeginSubmitForm, Begins
<1>2. Len(Ensured) \in Versions
  BY NothingToEnsure DEF Inv, TypeOK, Versions
<1>3. Sound(c)
  BY <1>2 DEF Sound, ChangeSound, PublishSound, ActivateSound, DeleteSound, CreateSound,
              FormSound, CheckSound, AnswerSound
<1>4. QED
  BY <1>1, <1>3, CallStep DEF BeginSubmitForm

\* The answers are those of the version the second read has found.
LEMMA CheckFormStep ==
  ASSUME Inv, NEW s \in Slots, CheckForm(s)
  PROVE  Inv'
<1> DEFINE v == call[s].framework
           answers == frameworks[Len(frameworks)]
           c == [op |-> "answer", by |-> call[s].by, framework |-> v, answers |-> answers]
<1>1. call[s].by \in People /\ v \in Versions
  BY DEF CheckForm, Inv, CallsSound, Sound, FormSound, CheckSound
<1>2. call' = [call EXCEPT ![s] = c]
  BY <1>1 DEF CheckForm
<1>3. Len(frameworks) \in v .. Len(frameworks) /\ answers \subseteq Indicators
  BY <1>1 DEF Inv, TypeOK, Versions
<1>4. AnswerSound(c)
  BY <1>1, <1>3 DEF AnswerSound
<1>5. Sound(c)
  BY <1>4 DEF Sound, ChangeSound, PublishSound, ActivateSound, DeleteSound, CreateSound,
              FormSound, CheckSound
<1>6. QED
  BY <1>2, <1>5, CallStep DEF CheckForm

-------------------------------------------------------------------------------
\* The calls that go on have to stay sound.
LEMMA OtherCalls ==
  ASSUME Inv, call' = call \/ \E s \in Slots : call' = [call EXCEPT ![s] = None],
         \A c : (\E s \in Slots : call[s] = c) /\ c # None /\ Sound(c) => Sound(c)'
  PROVE  CallsSound'
<1>1. call' = [s \in Slots |-> call'[s]]
  BY DEF Inv, CallsSound
<1>2. \A s \in Slots : call'[s] \in {call[s], None}
  BY DEF Inv, CallsSound
<1>3. ASSUME NEW s \in Slots, call'[s] # None
      PROVE  Sound(call[s])' 
  <2>1. PICK c : c = call[s]
    OBVIOUS
  <2>2. Sound(c)'
    BY <1>2, <1>3, <2>1 DEF Inv, CallsSound
  <2>3. call'[s] = c
    BY <1>2, <1>3, <2>1
  <2>4. QED
    BY <2>2, <2>3
<1>4. QED
  BY <1>1, <1>3 DEF CallsSound

\* A change that is committed: the members it has computed are the new active set,
\* and nothing refers to what it deletes.
LEMMA PublishStep ==
  ASSUME Inv, NEW s \in Slots, Publish(s)
  PROVE  Inv'
<1> DEFINE c == call[s]
           change == c.change
<1>1. /\ c.op = "publish" /\ c.version = Len(frameworks)
      /\ frameworks' = Append(frameworks, c.members)
      /\ UNCHANGED <<scheme, form>>
  BY DEF Publish, Ends, NewVersion
<1>2. PublishSound(c)
  BY DEF Publish, Ends, Inv, CallsSound, Sound
<1>3. change \in ChangeSets /\ c.members = Result(change) /\ c.members \subseteq Indicators
  BY <1>1, <1>2 DEF PublishSound
<1>4. /\ frameworks \in Seq(SUBSET Indicators) /\ frameworks' \in Seq(SUBSET Indicators)
      /\ Len(frameworks) \in Nat /\ Len(frameworks') = Len(frameworks) + 1
      /\ \A v \in Versions : frameworks'[v] = frameworks[v]
      /\ frameworks'[Len(frameworks')] = c.members
  BY <1>1, <1>3 DEF Inv, TypeOK, Versions
<1>5. \A i \in Indicators : indicator'[i] = 
       IF i \in change.on THEN "active" ELSE IF i \in change.off THEN "inactive"
       ELSE IF i \in change.gone THEN "deleted" ELSE indicator[i]
  BY DEF Publish
<1>6. Active' = Result(change)
  <2>1. \A i \in Indicators : indicator'[i] = "active" <=>
          i \in change.on \/ (indicator[i] = "active" /\ i \notin change.off \cup change.gone)
    BY <1>5
  <2>2. QED
    BY <1>3, <2>1 DEF Active, Result, ChangeSets
<1>7. LatestIsActiveSet'
  BY <1>3, <1>4, <1>6 DEF LatestIsActiveSet
<1>8. \A i \in Existing \ change.gone : i \in Existing'
  BY <1>5 DEF Existing
<1>9. \A i \in change.gone : ~Referenced(i)
  BY <1>1, <1>2 DEF PublishSound
<1>10. \A k \in Cases :
         /\ case'[k] = None <=> case[k] = None
         /\ case[k] # None =>
              /\ case'[k].status = case[k].status /\ case'[k].scheme = case[k].scheme
              /\ case'[k].scores = case[k].scores /\ case'[k].result = case[k].result
              /\ case'[k] \in CaseRows
              /\ case'[k].framework \in 1..Len(frameworks')
  <2> SUFFICES ASSUME NEW k \in Cases
               PROVE  /\ case'[k] = None <=> case[k] = None
                      /\ case[k] # None =>
                           /\ case'[k].status = case[k].status
                           /\ case'[k].scheme = case[k].scheme
                           /\ case'[k].scores = case[k].scores
                           /\ case'[k].result = case[k].result
                           /\ case'[k] \in CaseRows
                           /\ case'[k].framework \in 1..Len(frameworks')
    OBVIOUS
  <2>1. case'[k] = IF k \in c.movable
                   THEN [case[k] EXCEPT !.framework = Len(frameworks) + 1] ELSE case[k]
    BY DEF Publish
  <2>2. CASE k \in c.movable
    <3>1. case[k] # None /\ case[k] \in CaseRows
      BY <1>1, <1>2, <2>2 DEF PublishSound, Inv, TypeOK
    <3>2. case'[k] = [case[k] EXCEPT !.framework = Len(frameworks) + 1]
      BY <2>1, <2>2
    <3>3. case'[k] \in CaseRows /\ case'[k].framework = Len(frameworks) + 1
      BY <1>4, <3>1, <3>2 DEF CaseRows
    <3>4. case'[k] # None
      BY <3>3, RowsAssumption
    <3>5. /\ case'[k].status = case[k].status /\ case'[k].scheme = case[k].scheme
          /\ case'[k].scores = case[k].scores /\ case'[k].result = case[k].result
      BY <3>1, <3>2 DEF CaseRows
    <3>6. QED
      BY <1>4, <3>1, <3>3, <3>4, <3>5
  <2>3. CASE k \notin c.movable
    BY <1>4, <2>1, <2>3 DEF Inv, TypeOK, Versions
  <2>4. QED
    BY <2>2, <2>3
<1>11. TypeOK'
  <2>1. indicator' \in [Indicators -> {"none", "active", "inactive", "deleted"}]
    BY <1>5 DEF Publish, Inv, TypeOK
  <2>2. case' \in [Cases -> CaseRows \cup {None}]
    BY <1>10 DEF Publish
  <2>3. \A p \in People : form[p] # None => form[p].framework \in 1..Len(frameworks')
    BY <1>4 DEF Inv, TypeOK, Versions
  <2>4. QED
    BY <1>1, <1>4, <1>10, <2>1, <2>2, <2>3 DEF Inv, TypeOK, Versions
<1>12. AnswersHaveQuestions'
  <2>1. \A k \in Cases : case'[k] # None => case'[k].scores \subseteq Existing'
    BY <1>8, <1>9, <1>10 DEF Inv, AnswersHaveQuestions, Referenced, IsScored
  <2>2. ASSUME NEW p \in People, form[p] # None, form[p].submitted
        PROVE  /\ form[p].answers \subseteq Existing'
               /\ \E v \in form[p].framework .. Len(frameworks') : form[p].answers = frameworks'[v]
    <3>1. form[p].framework \in Versions
      BY <2>2 DEF Inv, TypeOK
    <3>2. form[p].answers \subseteq Existing
      BY <2>2 DEF Inv, AnswersHaveQuestions
    <3>3. PICK v \in form[p].framework .. Len(frameworks) : form[p].answers = frameworks[v]
      BY <2>2 DEF Inv, AnswersHaveQuestions
    <3>4. v \in Versions /\ v \in form[p].framework .. Len(frameworks')
      BY <1>4, <3>1 DEF Versions
    <3>5. QED
      BY <1>4, <1>8, <1>9, <2>2, <3>2, <3>3, <3>4 DEF Referenced
  <2>3. QED
    BY <1>1, <2>1, <2>2 DEF AnswersHaveQuestions
<1>13. OneActiveScheme' /\ ResultsKeepTheirScheme'
  <2>1. ActiveSchemes' = ActiveSchemes
    BY <1>1 DEF ActiveSchemes
  <2>2. OneActiveScheme'
    BY <1>1, <2>1 DEF Inv, OneActiveScheme
  <2>3. ResultsKeepTheirScheme'
    BY <1>1, <1>10 DEF Inv, ResultsKeepTheirScheme
  <2>4. QED
    BY <2>2, <2>3
<1>14. CallsSound'
  <2>1. ASSUME NEW d, Sound(d)
        PROVE  Sound(d)'
    <3>1. \A i : Referenced(i)' <=> Referenced(i)
      BY <1>1, <1>10 DEF Referenced, IsScored
    <3>2. PublishSound(d)'
      BY <1>4, <1>10, <2>1, <3>1 DEF Sound, PublishSound
    <3>3. CreateSound(d)'
      BY <1>1, <1>4, <2>1 DEF Sound, CreateSound, Versions
    <3>4. ASSUME d.op = "answer"
          PROVE  \E v \in d.framework .. Len(frameworks') : d.answers = frameworks'[v]
      <4>1. d.framework \in Versions
        BY <2>1, <3>4 DEF Sound, FormSound, AnswerSound
      <4>2. PICK v \in d.framework .. Len(frameworks) : d.answers = frameworks[v]
        BY <2>1, <3>4 DEF Sound, FormSound, AnswerSound
      <4>3. v \in Versions /\ v \in d.framework .. Len(frameworks')
        BY <1>4, <4>1 DEF Versions
      <4>4. QED
        BY <1>4, <4>2, <4>3
    <3>5. FormSound(d)'
      BY <1>4, <2>1, <3>4 DEF Sound, FormSound, CheckSound, AnswerSound, Versions
    <3>6. QED
      BY <1>1, <2>1, <3>2, <3>3, <3>5 DEF Sound, ChangeSound, ActivateSound, DeleteSound
  <2>2. QED
    BY <2>1, OtherCalls DEF Publish, Ends
<1>15. QED
  BY <1>7, <1>11, <1>12, <1>13, <1>14 DEF Inv

-------------------------------------------------------------------------------
\* A step that changes the schemes alone.
LEMMA SchemeStep ==
  ASSUME Inv, UNCHANGED <<indicator, frameworks, case, form>>,
         call' = call \/ \E s \in Slots : call' = [call EXCEPT ![s] = None],
         scheme' \in [Schemes -> SchemeRows],
         \A x \in Schemes :
           /\ scheme[x].status # "none" =>
                scheme'[x].status # "none" /\ scheme'[x].author = scheme[x].author
           /\ scheme[x].status \in Past => scheme'[x].status \in Past,
         OneActiveScheme',
         \A c \in Cases : case[c] # None /\ case[c].scheme # None =>
           scheme'[case[c].scheme].status \in {"active", "retired"}
  PROVE  Inv'
<1>1. ASSUME NEW d, Sound(d)
      PROVE  Sound(d)'
  <2>1. PublishSound(d)' /\ ChangeSound(d)'
    BY <1>1 DEF Sound, PublishSound, ChangeSound, Result, Active, Referenced, IsScored
  <2>2. ActivateSound(d)' /\ DeleteSound(d)'
    BY <1>1 DEF Sound, ActivateSound, DeleteSound
  <2>3. CreateSound(d)' /\ FormSound(d)'
    BY <1>1 DEF Sound, CreateSound, FormSound, CheckSound, AnswerSound, Versions
  <2>4. QED
    BY <2>1, <2>2, <2>3 DEF Sound
<1>2. CallsSound'
  BY <1>1, OtherCalls
<1>3. TypeOK' /\ LatestIsActiveSet' /\ AnswersHaveQuestions' /\ ResultsKeepTheirScheme'
  BY DEF Inv, TypeOK, LatestIsActiveSet, AnswersHaveQuestions, ResultsKeepTheirScheme,
         Versions, Active, Existing
<1>4. QED
  BY <1>2, <1>3 DEF Inv

\* What a stamped case carries is a scheme.
LEMMA StampType ==
  ASSUME Inv, NEW c \in Cases, case[c] # None, case[c].scheme # None
  PROVE  case[c].scheme \in Schemes /\ scheme[case[c].scheme].status \in {"active", "retired"}
  BY DEF Inv, TypeOK, CaseRows, ResultsKeepTheirScheme

LEMMA CreateDraftStep ==
  ASSUME Inv, NEW u \in Users, NEW x \in Schemes, CreateDraft(u, x)
  PROVE  Inv'
<1> DEFINE row == [status |-> "draft", author |-> u, by |-> None]
<1>1. /\ scheme[x].status = "none" /\ scheme' = [scheme EXCEPT ![x] = row]
      /\ UNCHANGED <<indicator, frameworks, case, form, call>>
  BY DEF CreateDraft
<1>2. row \in SchemeRows
  BY DEF SchemeRows
<1>3. /\ scheme' \in [Schemes -> SchemeRows]
      /\ \A y \in Schemes : scheme'[y] = IF y = x THEN row ELSE scheme[y]
  BY <1>1, <1>2 DEF Inv, TypeOK
<1>4. ActiveSchemes' = ActiveSchemes /\ x \notin ActiveSchemes
  BY <1>1, <1>3 DEF ActiveSchemes
<1>5. OneActiveScheme'
  <2>1. \A y \in ActiveSchemes : scheme'[y] = scheme[y]
    BY <1>3, <1>4 DEF ActiveSchemes
  <2>2. QED
    BY <1>4, <2>1 DEF Inv, OneActiveScheme
<1>6. QED
  BY <1>1, <1>3, <1>5, StampType, SchemeStep DEF Past

LEMMA ActivateStep ==
  ASSUME Inv, NEW s \in Slots, Activate(s)
  PROVE  Inv'
<1> DEFINE c == call[s]
<1>1. /\ c # None /\ c.op = "activate" /\ call' = [call EXCEPT ![s] = None]
      /\ UNCHANGED <<indicator, frameworks, case, form>>
      /\ MayActivate(c.on, c.previous)
  BY DEF Activate, Ends
<1>2. /\ c.on \in Schemes /\ c.by \in Users
      /\ scheme[c.on].author # c.by /\ scheme[c.on].status # "none"
  BY <1>1 DEF Inv, CallsSound, Sound, ActivateSound
<1>3. /\ scheme[c.on].status # "deleted" /\ ActiveSchemes \subseteq {c.on, c.previous}
  BY <1>1 DEF MayActivate
<1>4. ASSUME NEW x \in Schemes
      PROVE  /\ scheme'[x] \in SchemeRows /\ scheme'[x].author = scheme[x].author
             /\ x = c.on => scheme'[x].status = "active" /\ scheme'[x].by = c.by
             /\ x # c.on => \/ scheme'[x] = scheme[x]
                            \/ scheme'[x].status = "retired"
             /\ x # c.on /\ x = c.previous => scheme'[x].status # "active"
  <2>1. scheme[x] \in SchemeRows
    BY DEF Inv, TypeOK
  <2>2. CASE x = c.on
    <3>1. scheme'[x] = [scheme[x] EXCEPT !.status = "active", !.by = c.by]
      BY <2>2 DEF Activate
    <3>2. QED
      BY <1>2, <2>1, <2>2, <3>1 DEF SchemeRows
  <2>3. CASE x = c.previous /\ x # c.on /\ scheme[x].status # "deleted"
    <3>1. scheme'[x] = [scheme[x] EXCEPT !.status = "retired"]
      BY <2>3 DEF Activate
    <3>2. QED
      BY <2>1, <2>3, <3>1 DEF SchemeRows
  <2>4. CASE x # c.on /\ ~(x = c.previous /\ scheme[x].status # "deleted")
    <3>1. scheme'[x] = scheme[x]
      BY <2>4 DEF Activate
    <3>2. QED
      BY <2>1, <2>4, <3>1
  <2>5. QED
    BY <2>2, <2>3, <2>4
<1>5. scheme' \in [Schemes -> SchemeRows]
  BY <1>4 DEF Activate
<1>6. ActiveSchemes' \subseteq {c.on}
  BY <1>3, <1>4 DEF ActiveSchemes
<1>7. OneActiveScheme'
  BY <1>2, <1>4, <1>6 DEF OneActiveScheme
<1>8. \A k \in Cases : case[k] # None /\ case[k].scheme # None =>
        scheme'[case[k].scheme].status \in {"active", "retired"}
  BY <1>4, StampType
<1>9. \A x \in Schemes :
        /\ scheme[x].status # "none" =>
             scheme'[x].status # "none" /\ scheme'[x].author = scheme[x].author
        /\ scheme[x].status \in Past => scheme'[x].status \in Past
  BY <1>4 DEF Past
<1>10. QED
  BY <1>1, <1>5, <1>7, <1>8, <1>9, SchemeStep

LEMMA DeleteDraftStep ==
  ASSUME Inv, NEW s \in Slots, DeleteDraft(s)
  PROVE  Inv'
<1> DEFINE x == call[s].on
<1>1. /\ call[s] # None /\ call[s].op = "delete_draft" /\ call' = [call EXCEPT ![s] = None]
      /\ UNCHANGED <<indicator, frameworks, case, form>>
      /\ Unstamped(x) /\ scheme' = [scheme EXCEPT ![x].status = "deleted"]
  BY DEF DeleteDraft, Ends
<1>2. x \in Schemes
  BY <1>1 DEF Inv, CallsSound, Sound, DeleteSound
<1>3. /\ scheme' \in [Schemes -> SchemeRows]
      /\ \A y \in Schemes : /\ y # x => scheme'[y] = scheme[y]
                            /\ scheme'[y].author = scheme[y].author
                            /\ scheme'[y].by = scheme[y].by
                            /\ y = x => scheme'[y].status = "deleted"
  BY <1>1, <1>2 DEF Inv, TypeOK, SchemeRows
<1>4. ActiveSchemes' \subseteq ActiveSchemes
  BY <1>3 DEF ActiveSchemes
<1>5. OneActiveScheme'
  BY <1>3, <1>4 DEF Inv, OneActiveScheme, ActiveSchemes
<1>6. \A k \in Cases : case[k] # None /\ case[k].scheme # None =>
        scheme'[case[k].scheme].status \in {"active", "retired"}
  BY <1>1, <1>3, StampType DEF Unstamped
<1>7. QED
  BY <1>1, <1>3, <1>5, <1>6, SchemeStep DEF Past

-------------------------------------------------------------------------------
\* A step that rewrites the row of one case.
LEMMA CaseStep ==
  ASSUME Inv, NEW k \in Cases, NEW row, row \in CaseRows, row.framework \in Versions,
         row.scores \subseteq Existing \ Going,
         row.scheme # None =>
           /\ row.result # None => row.result.scheme = row.scheme
           /\ scheme[row.scheme].status \in {"active", "retired"},
         case' = [case EXCEPT ![k] = row],
         call' = call \/ \E s \in Slots : call' = [call EXCEPT ![s] = None],
         UNCHANGED <<indicator, frameworks, scheme, form>>
  PROVE  Inv'
<1>1. case' \in [Cases -> CaseRows \cup {None}]
  BY DEF Inv, TypeOK
<1>2. \A c \in Cases : case'[c] = IF c = k THEN row ELSE case[c]
  BY DEF Inv, TypeOK
<1>3. row # None
  BY RowsAssumption
<1>4. TypeOK'
  BY <1>1, <1>2 DEF Inv, TypeOK, Versions
<1>5. AnswersHaveQuestions'
  BY <1>2 DEF Inv, AnswersHaveQuestions, Existing
<1>6. ResultsKeepTheirScheme'
  BY <1>2 DEF Inv, ResultsKeepTheirScheme
<1>7. LatestIsActiveSet' /\ OneActiveScheme'
  BY DEF Inv, LatestIsActiveSet, Active, OneActiveScheme, ActiveSchemes
<1>8. ASSUME NEW d, NEW s \in Slots, d = call[s], d # None, Sound(d)
      PROVE  Sound(d)'
  <2>1. ASSUME d.op = "publish"
        PROVE  \A i \in d.change.gone : ~Referenced(i)'
    <3>1. d.change.gone \subseteq Going
      BY <1>8, <2>1 DEF Going, InFlight
    <3>2. \A i \in d.change.gone : ~Referenced(i)
      BY <1>8, <2>1 DEF Sound, PublishSound
    <3>3. QED
      BY <1>2, <3>1, <3>2 DEF Referenced, IsScored
  <2>2. PublishSound(d)'
    BY <1>2, <1>3, <1>8, <2>1 DEF Sound, PublishSound, Result, Active
  <2>3. CreateSound(d)' /\ ChangeSound(d)' /\ ActivateSound(d)' /\ DeleteSound(d)'
    BY <1>8 DEF Sound, CreateSound, Versions, ChangeSound, ActivateSound, DeleteSound
  <2>4. FormSound(d)'
    BY <1>8 DEF Sound, FormSound, CheckSound, AnswerSound, Versions
  <2>5. QED
    BY <2>2, <2>3, <2>4 DEF Sound
<1>9. CallsSound'
  BY <1>8, OtherCalls
<1>10. QED
  BY <1>4, <1>5, <1>6, <1>7, <1>9 DEF Inv

\* The row of a case that is there.
LEMMA RowType ==
  ASSUME Inv, NEW k \in Cases, case[k] # None
  PROVE  /\ case[k] \in CaseRows /\ case[k].framework \in Versions
         /\ case[k].scores \subseteq Existing \ Going
         /\ case[k].scheme # None =>
              /\ case[k].result # None => case[k].result.scheme = case[k].scheme
              /\ scheme[case[k].scheme].status \in {"active", "retired"}
<1>1. case[k] \in CaseRows /\ case[k].framework \in Versions /\ case[k].scores \subseteq Existing
  BY DEF Inv, TypeOK, AnswersHaveQuestions
<1>2. ASSUME NEW i \in case[k].scores, i \in Going
      PROVE  FALSE
  <2>1. PICK s \in Slots : call[s] # None /\ call[s].op = "publish" /\ i \in call[s].change.gone
    BY <1>2 DEF Going, InFlight
  <2>2. ~Referenced(i)
    BY <2>1 DEF Inv, CallsSound, Sound, PublishSound
  <2>3. QED
    BY <1>2, <2>2 DEF Referenced, IsScored
<1>3. QED
  BY <1>1, <1>2 DEF Inv, ResultsKeepTheirScheme

LEMMA CreateStep ==
  ASSUME Inv, NEW s \in Slots, Create(s)
  PROVE  Inv'
<1> DEFINE new == call[s]
           row == [status |-> "draft", framework |-> new.framework, scheme |-> new.scheme,
                   scores |-> {}, result |-> None]
<1>1. /\ new # None /\ new.op = "create" /\ call' = [call EXCEPT ![s] = None]
      /\ new.scheme # None => scheme[new.scheme].status # "deleted"
      /\ frameworks' = IF new.framework \in Versions THEN frameworks ELSE Ensured
      /\ case' = [case EXCEPT ![new.on] = row]
      /\ UNCHANGED <<indicator, scheme, form>>
  BY DEF Create, Ends
<1>2. /\ new.on \in Cases /\ new.framework \in Versions /\ new.scheme \in Schemes \cup {None}
      /\ new.scheme # None => scheme[new.scheme].status \in Past
  BY <1>1 DEF Inv, CallsSound, Sound, CreateSound
<1>3. row \in CaseRows /\ row.framework \in Versions
  BY <1>2 DEF CaseRows, Versions, Inv, TypeOK
<1>4. row.scheme # None => scheme[row.scheme].status \in {"active", "retired"}
  BY <1>1, <1>2 DEF Past
<1>5. QED
  BY <1>1, <1>2, <1>3, <1>4, CaseStep

LEMMA SaveScoresStep ==
  ASSUME Inv, NEW k \in Cases, NEW scored \in SUBSET Indicators, SaveScores(k, scored)
  PROVE  Inv'
<1> DEFINE row == [case[k] EXCEPT !.scores = scored]
<1>1. case' = [case EXCEPT ![k] = row] /\ case[k] # None
  BY DEF SaveScores, IsIn
<1>2. row \in CaseRows /\ row.framework = case[k].framework /\ row.scheme = case[k].scheme
        /\ row.result = case[k].result /\ row.scores = scored
  BY <1>1, RowType DEF CaseRows
<1>3. scored \subseteq Existing \ Going
  BY DEF SaveScores, Questions
<1>4. QED
  BY <1>1, <1>2, <1>3, RowType, CaseStep DEF SaveScores

LEMMA SubmitStep ==
  ASSUME Inv, NEW k \in Cases, Submit(k)
  PROVE  Inv'
<1> DEFINE res == [scheme |-> RulesFor(k), on |-> case[k].scores]
           row == [case[k] EXCEPT !.status = "submitted", !.result = res]
<1>1. case' = [case EXCEPT ![k] = row] /\ case[k] # None
  BY DEF Submit, IsIn, Inv, TypeOK
<1>2. case[k] \in CaseRows
  BY <1>1, RowType
<1>3. res \in Results
  BY <1>2, ActiveSchemeType DEF Results, RulesFor, CaseRows
<1>4. row \in CaseRows /\ row.framework = case[k].framework /\ row.scheme = case[k].scheme
        /\ row.result = res /\ row.scores = case[k].scores
  BY <1>2, <1>3 DEF CaseRows
<1>5. row.scheme # None => row.result.scheme = row.scheme
  BY <1>4 DEF RulesFor
<1>6. QED
  BY <1>1, <1>4, <1>5, RowType, CaseStep DEF Submit

LEMMA MoveStep ==
  ASSUME Inv, NEW k \in Cases, Return(k) \/ Close(k)
  PROVE  Inv'
<1>1. PICK to \in {"draft", "closed"} : case' = [case EXCEPT ![k].status = to]
  BY DEF Return, Close
<1> DEFINE row == [case[k] EXCEPT !.status = to]
<1>2. case' = [case EXCEPT ![k] = row] /\ case[k] # None
  BY <1>1 DEF Return, Close, IsIn
<1>3. row \in CaseRows /\ row.framework = case[k].framework /\ row.scheme = case[k].scheme
        /\ row.result = case[k].result /\ row.scores = case[k].scores
  BY <1>2, RowType DEF CaseRows
<1>4. UNCHANGED <<indicator, frameworks, scheme, form, call>>
  BY DEF Return, Close
<1>5. QED
  BY <1>2, <1>3, <1>4, RowType, CaseStep

-------------------------------------------------------------------------------
\* A step that rewrites the form of one person.
LEMMA FormStep ==
  ASSUME Inv, NEW p \in People, NEW f \in Forms, f.framework \in Versions,
         f.answers \subseteq Existing \ Going,
         f.submitted => \E v \in f.framework .. Len(frameworks) : f.answers = frameworks[v],
         form' = [form EXCEPT ![p] = f],
         call' = call \/ \E s \in Slots : call' = [call EXCEPT ![s] = None],
         UNCHANGED <<indicator, frameworks, scheme, case>>
  PROVE  Inv'
<1>1. /\ form' \in [People -> Forms \cup {None}]
      /\ \A q \in People : form'[q] = IF q = p THEN f ELSE form[q]
  BY DEF Inv, TypeOK
<1>2. TypeOK'
  BY <1>1 DEF Inv, TypeOK, Versions
<1>3. AnswersHaveQuestions'
  BY <1>1 DEF Inv, AnswersHaveQuestions, Existing
<1>4. LatestIsActiveSet' /\ OneActiveScheme' /\ ResultsKeepTheirScheme'
  BY DEF Inv, LatestIsActiveSet, Active, OneActiveScheme, ActiveSchemes, ResultsKeepTheirScheme
<1>5. ASSUME NEW d, NEW s \in Slots, d = call[s], d # None, Sound(d)
      PROVE  Sound(d)'
  <2>1. ASSUME d.op = "publish"
        PROVE  \A i \in d.change.gone : ~Referenced(i)'
    <3>1. d.change.gone \subseteq Going
      BY <1>5, <2>1 DEF Going, InFlight
    <3>2. \A i \in d.change.gone : ~Referenced(i)
      BY <1>5, <2>1 DEF Sound, PublishSound
    <3>3. QED
      BY <1>1, <3>1, <3>2 DEF Referenced, IsScored
  <2>2. PublishSound(d)'
    BY <1>5, <2>1 DEF Sound, PublishSound, Result, Active
  <2>3. CreateSound(d)' /\ ChangeSound(d)' /\ ActivateSound(d)' /\ DeleteSound(d)'
    BY <1>5 DEF Sound, CreateSound, Versions, ChangeSound, ActivateSound, DeleteSound
  <2>4. FormSound(d)'
    BY <1>5 DEF Sound, FormSound, CheckSound, AnswerSound, Versions
  <2>5. QED
    BY <2>2, <2>3, <2>4 DEF Sound
<1>6. CallsSound'
  BY <1>5, OtherCalls
<1>7. QED
  BY <1>2, <1>3, <1>4, <1>6 DEF Inv

LEMMA OpenFormStep ==
  ASSUME Inv, NEW p \in People, OpenForm(p)
  PROVE  Inv'
<1>1. PICK v \in OpeningVersions(p) :
        form' = [form EXCEPT ![p] = [framework |-> v, submitted |-> FALSE, answers |-> {}]]
  BY DEF OpenForm
<1>2. v \in Versions
  BY <1>1, NothingToEnsure DEF OpeningVersions, Inv, TypeOK, Versions
<1>3. [framework |-> v, submitted |-> FALSE, answers |-> {}] \in Forms
  BY <1>2 DEF Forms, Versions, Inv, TypeOK
<1>4. UNCHANGED <<indicator, frameworks, scheme, case, call>>
  BY NothingToEnsure DEF OpenForm
<1>5. QED
  BY <1>1, <1>2, <1>3, <1>4, FormStep

LEMMA SubmitFormStep ==
  ASSUME Inv, NEW s \in Slots, SubmitForm(s)
  PROVE  Inv'
<1> DEFINE c == call[s]
           f == [framework |-> c.framework, submitted |-> TRUE, answers |-> c.answers]
<1>1. /\ c.by \in People /\ c.framework \in Versions /\ c.answers \subseteq Indicators
      /\ \E v \in c.framework .. Len(frameworks) : c.answers = frameworks[v]
  BY DEF SubmitForm, Ends, Inv, CallsSound, Sound, FormSound, AnswerSound
<1>2. /\ c.answers \subseteq Existing \ Going /\ form' = [form EXCEPT ![c.by] = f]
      /\ call' = [call EXCEPT ![s] = None]
      /\ UNCHANGED <<indicator, frameworks, scheme, case>>
  BY <1>1 DEF SubmitForm, Ends
<1>3. f \in Forms
  BY <1>1 DEF Forms, Versions, Inv, TypeOK
<1>4. QED
  BY <1>1, <1>2, <1>3, FormStep

-------------------------------------------------------------------------------
LEMMA NextInv == Inv /\ [Next]_vars => Inv'
<1> SUFFICES ASSUME Inv, [Next]_vars PROVE Inv'
  OBVIOUS
<1>1. ASSUME NEW s \in Slots,
             \/ BeginChange(s) \/ Flush(s) \/ Publish(s) \/ Rollback(s)
             \/ \E x \in Schemes : BeginDeleteDraft(s, x) \/ \E u \in Users : BeginActivate(s, u, x)
             \/ Activate(s) \/ DeleteDraft(s)
             \/ \E c \in Cases : BeginCreate(s, c)
             \/ Create(s)
             \/ \E p \in People : BeginSubmitForm(s, p)
             \/ CheckForm(s) \/ SubmitForm(s)
      PROVE  Inv'
  BY <1>1, BeginChangeStep, FlushStep, PublishStep, RollbackStep, BeginSchemeStep, ActivateStep,
     DeleteDraftStep, BeginCreateStep, CreateStep, BeginSubmitFormStep, CheckFormStep, SubmitFormStep
<1>2. ASSUME NEW u \in Users, NEW x \in Schemes, CreateDraft(u, x)
      PROVE  Inv'
  BY <1>2, CreateDraftStep
<1>3. ASSUME NEW c \in Cases, Submit(c) \/ Return(c) \/ Close(c)
      PROVE  Inv'
  BY <1>3, SubmitStep, MoveStep
<1>4. ASSUME NEW c \in Cases, NEW scored \in SUBSET Indicators, SaveScores(c, scored)
      PROVE  Inv'
  BY <1>4, SaveScoresStep
<1>5. ASSUME NEW p \in People, OpenForm(p)
      PROVE  Inv'
  BY <1>5, OpenFormStep
<1>6. ASSUME UNCHANGED vars
      PROVE  Inv'
  BY <1>6 DEF vars, Inv, TypeOK, CallsSound, Sound, ChangeSound, PublishSound, ActivateSound,
              DeleteSound, CreateSound, FormSound, CheckSound, AnswerSound, Result, Active, Referenced, IsScored, Versions,
              LatestIsActiveSet, AnswersHaveQuestions, OneActiveScheme,
              ResultsKeepTheirScheme, Existing, ActiveSchemes
<1>7. QED
  BY <1>1, <1>2, <1>3, <1>4, <1>5, <1>6 DEF Next

LEMMA Invariance == Spec => []Inv
  BY InitInv, NextInv, PTL DEF Spec

\* Every variable keeps its type, and the versions that cases and forms carry exist.
THEOREM TypeCorrect == Spec => []TypeOK
<1>1. Inv => TypeOK
  BY DEF Inv
<1>2. QED
  BY <1>1, Invariance, PTL

\* However many changes overlap, the latest framework is the active set: a change
\* that has not seen the last version is refused by the unique index, and one that
\* has computed the set its own change leaves.
THEOREM FrameworkIsActiveSet == Spec => []LatestIsActiveSet
<1>1. Inv => LatestIsActiveSet
  BY DEF Inv
<1>2. QED
  BY <1>1, Invariance, PTL

\* Every score and every answer refers to a question that is still there, and the
\* answers of a form are complete for one version, not older than the one it is
\* pinned to, whatever is published between the two reads of a submission.
THEOREM NoDanglingAnswers == Spec => []AnswersHaveQuestions
<1>1. Inv => AnswersHaveQuestions
  BY DEF Inv
<1>2. QED
  BY <1>1, Invariance, PTL

\* Two activations at once leave one active scheme at most, activated by somebody
\* other than its author.
THEOREM SingleActiveScheme == Spec => []OneActiveScheme
<1>1. Inv => OneActiveScheme
  BY DEF Inv
<1>2. QED
  BY <1>1, Invariance, PTL

\* A stamped case is computed by its stamp, and the stamp can be looked up.
THEOREM StampsDecideResults == Spec => []ResultsKeepTheirScheme
<1>1. Inv => ResultsKeepTheirScheme
  BY DEF Inv
<1>2. QED
  BY <1>1, Invariance, PTL

-------------------------------------------------------------------------------
(* Sums.  A sum is a fold over a set, and a fold chooses a recursive function.  *)
(* That there is one, that any two agree where both are defined, and that sums  *)
(* grow with their terms, is shown each time on a smallest set where it fails.  *)

Picked(s) == CHOOSE x \in s : TRUE

\* What a step of a sum over s makes of the sums g over smaller sets.
Added(f, g, s) == IF s = {} THEN 0 ELSE f[Picked(s)] + g[s \ {Picked(s)}]

AddsUp(g, f, T) == g = [s \in SUBSET T |-> Added(f, g, s)]

Sums(f, T) == CHOOSE g : AddsUp(g, f, T)

LEMMA SumIsFold ==
  ASSUME NEW f, NEW T
  PROVE  SumFunctionOnSet(f, T) = Sums(f, T)[T]
  BY DEF SumFunctionOnSet, FoldFunctionOnSet, MapThenFoldSet, Sums, AddsUp, Added, Picked

LEMMA SmallestSet ==
  ASSUME NEW T, IsFiniteSet(T), NEW S \in SUBSET SUBSET T, S # {}
  PROVE  \E t \in S : \A s \in S : s \subseteq t => s = t
<1>1. IsWellFoundedOn(StrictSubsetOrdering(T), SUBSET T)
  <2>1. IsWellFoundedOn(StrictSubsetOrdering(T), FiniteSubsetsOf(T))
    BY FS_StrictSubsetOrderingWellFounded
  <2>2. FiniteSubsetsOf(T) = SUBSET T
    BY FS_FiniteSubsetsOfFinite
  <2>3. QED
    BY <2>1, <2>2, Zenon
<1>2. PICK t \in S : \A s \in S : ~(<<s, t>> \in StrictSubsetOrdering(T))
  BY <1>1, WFMin
<1>3. QED
  BY <1>2 DEF StrictSubsetOrdering

LEMMA SumsAgree ==
  ASSUME NEW f, NEW T, IsFiniteSet(T), NEW U, T \subseteq U,
         NEW g, NEW h, AddsUp(g, f, T), AddsUp(h, f, U)
  PROVE  \A s \in SUBSET T : g[s] = h[s]
<1> DEFINE Bad == {s \in SUBSET T : g[s] # h[s]}
<1> SUFFICES ASSUME Bad # {} PROVE FALSE
  OBVIOUS
<1>1. PICK t \in Bad : \A s \in Bad : s \subseteq t => s = t
  <2>1. Bad \in SUBSET SUBSET T
    OBVIOUS
  <2> HIDE DEF Bad
  <2>2. QED
    BY <2>1, SmallestSet
<1>2. g[t] = Added(f, g, t) /\ h[t] = Added(f, h, t)
  BY <1>1 DEF AddsUp
<1>3. CASE t = {}
  BY <1>1, <1>2, <1>3 DEF Added
<1>4. CASE t # {}
  <2>1. Picked(t) \in t
    BY <1>4 DEF Picked
  <2>2. t \ {Picked(t)} \notin Bad /\ t \ {Picked(t)} \in SUBSET T
    BY <1>1, <2>1
  <2>3. QED
    BY <1>1, <1>2, <1>4, <2>2 DEF Added
<1>5. QED
  BY <1>3, <1>4

\* On a smallest set without one, the sums over its subsets would make one.
LEMMA SumExists ==
  ASSUME NEW f, NEW T, IsFiniteSet(T)
  PROVE  AddsUp(Sums(f, T), f, T)
<1> DEFINE Bad == {s \in SUBSET T : ~ \E g : AddsUp(g, f, s)}
<1> SUFFICES ASSUME Bad # {} PROVE FALSE
  BY DEF Sums
<1>1. PICK t \in Bad : \A s \in Bad : s \subseteq t => s = t
  <2>1. Bad \in SUBSET SUBSET T
    OBVIOUS
  <2> HIDE DEF Bad
  <2>2. QED
    BY <2>1, SmallestSet
<1> DEFINE Rest(s) == s \ {Picked(s)}
           g == [s \in SUBSET t |->
                   IF s = {} THEN 0 ELSE f[Picked(s)] + Sums(f, Rest(s))[Rest(s)]]
<1>2. \A s \in SUBSET t : s # t => AddsUp(Sums(f, s), f, s)
  BY <1>1 DEF Sums
<1>3. ASSUME NEW s \in SUBSET t, s # t
      PROVE  g[s] = Sums(f, s)[s]
  <2>1. AddsUp(Sums(f, s), f, s)
    BY <1>2, <1>3
  <2>2. Sums(f, s)[s] = Added(f, Sums(f, s), s)
    BY <2>1 DEF AddsUp
  <2>3. CASE s = {}
    BY <2>2, <2>3 DEF Added
  <2>4. CASE s # {}
    <3> DEFINE u == Rest(s)
    <3>1. u \subseteq s /\ u \subseteq t /\ u # t /\ IsFiniteSet(u)
      BY <1>1, <1>3, <2>4, FS_Subset DEF Picked
    <3>2. AddsUp(Sums(f, u), f, u)
      BY <1>2, <3>1
    <3>3. Sums(f, u)[u] = Sums(f, s)[u]
      <4> HIDE DEF u
      <4> QED
        BY <2>1, <3>1, <3>2, SumsAgree
    <3>4. QED
      BY <2>2, <2>4, <3>3 DEF Added
  <2>5. QED
    BY <2>3, <2>4
<1>4. \A s \in SUBSET t : g[s] = Added(f, g, s)
  <2> SUFFICES ASSUME NEW s \in SUBSET t, s # {} PROVE g[s] = Added(f, g, s)
    BY DEF Added
  <2>1. Rest(s) \in SUBSET t /\ Rest(s) # t
    BY DEF Picked
  <2>2. QED
    BY <1>3, <2>1 DEF Added
<1>5. AddsUp(g, f, t)
  <2>1. g = [s \in SUBSET t |-> g[s]]
    OBVIOUS
  <2> HIDE DEF g
  <2>2. QED
    BY <2>1, <1>4 DEF AddsUp
<1>6. QED
  BY <1>1, <1>5

LEMMA SumSteps ==
  ASSUME NEW f, NEW T, IsFiniteSet(T), NEW s \in SUBSET T
  PROVE  Sums(f, T)[s] = Added(f, Sums(f, T), s)
<1>1. AddsUp(Sums(f, T), f, T)
  BY SumExists
<1>2. QED
  BY <1>1 DEF AddsUp

LEMMA SumsGrow ==
  ASSUME NEW T, IsFiniteSet(T), NEW f \in [T -> Nat], NEW h \in [T -> Nat],
         \A i \in T : f[i] <= h[i]
  PROVE  \A s \in SUBSET T : /\ Sums(f, T)[s] \in Nat /\ Sums(h, T)[s] \in Nat
                             /\ Sums(f, T)[s] <= Sums(h, T)[s]
<1> DEFINE Good(s) == /\ Sums(f, T)[s] \in Nat /\ Sums(h, T)[s] \in Nat
                      /\ Sums(f, T)[s] <= Sums(h, T)[s]
           Bad == {s \in SUBSET T : ~ Good(s)}
<1> SUFFICES ASSUME Bad # {} PROVE FALSE
  OBVIOUS
<1>1. PICK t \in Bad : \A s \in Bad : s \subseteq t => s = t
  <2>1. Bad \in SUBSET SUBSET T
    OBVIOUS
  <2> HIDE DEF Bad
  <2>2. QED
    BY <2>1, SmallestSet
<1>2. Sums(f, T)[t] = Added(f, Sums(f, T), t) /\ Sums(h, T)[t] = Added(h, Sums(h, T), t)
  BY <1>1, SumSteps
<1>3. CASE t = {}
  BY <1>1, <1>2, <1>3 DEF Added
<1>4. CASE t # {}
  <2>1. Picked(t) \in t /\ Picked(t) \in T
    BY <1>1, <1>4 DEF Picked
  <2>2. Good(t \ {Picked(t)})
    BY <1>1, <2>1
  <2>3. f[Picked(t)] \in Nat /\ h[Picked(t)] \in Nat /\ f[Picked(t)] <= h[Picked(t)]
    BY <2>1
  <2>4. Good(t)
    BY <1>2, <1>4, <2>2, <2>3 DEF Added
  <2>5. QED
    BY <1>1, <2>4
<1>5. QED
  BY <1>3, <1>4

LEMMA SumGrows ==
  ASSUME NEW T, IsFiniteSet(T), NEW f \in [T -> Nat], NEW h \in [T -> Nat],
         \A i \in T : f[i] <= h[i]
  PROVE  /\ SumFunction(f) \in Nat /\ SumFunction(h) \in Nat
         /\ SumFunction(f) <= SumFunction(h)
<1>1. SumFunction(f) = Sums(f, T)[T] /\ SumFunction(h) = Sums(h, T)[T]
  BY SumIsFold DEF SumFunction
<1>2. QED
  BY <1>1, SumsGrow

LEMMA SumIsPositive ==
  ASSUME NEW T, IsFiniteSet(T), T # {}, NEW f \in [T -> Nat], \A i \in T : f[i] > 0
  PROVE  SumFunction(f) > 0
<1>1. Picked(T) \in T
  BY DEF Picked
<1>2. Sums(f, T)[T] = f[Picked(T)] + Sums(f, T)[T \ {Picked(T)}]
  BY SumSteps DEF Added
<1>3. Sums(f, T)[T \ {Picked(T)}] \in Nat
  <2>1. \A i \in T : f[i] <= f[i]
    OBVIOUS
  <2>2. QED
    BY <2>1, SumsGrow
<1>4. SumFunction(f) = Sums(f, T)[T]
  BY SumIsFold DEF SumFunction
<1>5. QED
  BY <1>1, <1>2, <1>3, <1>4

-------------------------------------------------------------------------------
(* Rounding and limits *)

LEMMA Quotient ==
  ASSUME NEW n \in Nat, NEW d \in Nat, d > 0
  PROVE  \E k, r \in Nat : k = n \div d /\ r = n % d /\ r < d /\ n = d * k + r
<1>1. n \div d \in Int /\ n \div d >= 0 /\ n % d \in 0 .. (d - 1)
  OBVIOUS
<1>2. ASSUME NEW k \in Int, k = n \div d
      PROVE  n % d = n - d * k
  BY <1>2
<1>3. QED
  BY <1>1, <1>2

LEMMA QuotientGrows ==
  ASSUME NEW n \in Nat, NEW m \in Nat, NEW d \in Nat, d > 0, n <= m
  PROVE  n \div d <= m \div d /\ (n \div d = m \div d => n % d <= m % d)
<1>1. PICK a, r \in Nat : a = n \div d /\ r = n % d /\ r < d /\ n = d * a + r
  BY Quotient
<1>2. PICK b, q \in Nat : b = m \div d /\ q = m % d /\ q < d /\ m = d * b + q
  BY Quotient
<1>3. a <= b
  <2> SUFFICES ASSUME b + 1 <= a PROVE FALSE
    OBVIOUS
  <2>1. d * (b + 1) <= d * a /\ d * (b + 1) = d * b + d
    OBVIOUS
  <2>2. PICK x \in Nat, y \in Nat : x = d * a /\ y = d * b
    OBVIOUS
  <2>3. n = x + r /\ m = y + q /\ y + d <= x
    BY <1>1, <1>2, <2>1, <2>2
  <2>4. QED
    BY <1>2, <2>3
<1>4. a = b => r <= q
  <2> SUFFICES ASSUME a = b PROVE r <= q
    OBVIOUS
  <2>1. PICK x \in Nat : x = d * a
    OBVIOUS
  <2>2. n = x + r /\ m = x + q
    BY <1>1, <1>2, <2>1
  <2>3. QED
    BY <2>2
<1>5. QED
  BY <1>1, <1>2, <1>3, <1>4

\* However ties go, rounding turns no two numbers round.
LEMMA NearestGrows ==
  ASSUME NEW n \in Nat, NEW m \in Nat, NEW d \in Nat, d > 0, n <= m
  PROVE  Nearest(n, d) \in Nat /\ Nearest(m, d) \in Nat /\ Nearest(n, d) <= Nearest(m, d)
<1>1. /\ n \div d \in Nat /\ m \div d \in Nat /\ n % d \in Nat /\ m % d \in Nat
      /\ n \div d <= m \div d /\ (n \div d = m \div d => n % d <= m % d)
  BY Quotient, QuotientGrows
<1>2. \/ n \div d = m \div d /\ n % d = m % d
      \/ n \div d < m \div d
      \/ n \div d = m \div d /\ n % d < m % d
  BY <1>1
<1>3. QED
  BY <1>1, <1>2 DEF Nearest

LEMMA NearestExact ==
  ASSUME NEW k \in Nat, NEW d \in Nat, d > 0
  PROVE  Nearest(k * d, d) = k
<1>1. PICK n \in Nat : n = k * d
  OBVIOUS
<1>2. PICK q, r \in Nat : q = n \div d /\ r = n % d /\ r < d /\ n = d * q + r
  BY Quotient
<1>3. PICK x \in Nat : x = d * q
  OBVIOUS
<1>4. q <= k
  <2> SUFFICES ASSUME k + 1 <= q PROVE FALSE
    OBVIOUS
  <2>1. d * (k + 1) <= d * q /\ d * (k + 1) = k * d + d
    OBVIOUS
  <2>2. QED
    BY <1>1, <1>2, <1>3, <2>1
<1>5. k <= q
  <2> SUFFICES ASSUME q + 1 <= k PROVE FALSE
    OBVIOUS
  <2>1. d * (q + 1) <= k * d /\ d * (q + 1) = d * q + d
    OBVIOUS
  <2>2. QED
    BY <1>1, <1>2, <1>3, <2>1
<1>6. q = k /\ r = 0
  BY <1>1, <1>2, <1>4, <1>5
<1>7. QED
  BY <1>1, <1>2, <1>6 DEF Nearest

\* Numbers less than a unit apart are rounded one apart at most.
LEMMA NearestIsClose ==
  ASSUME NEW n \in Nat, NEW m \in Nat, NEW d \in Nat, d > 0, m < n + d
  PROVE  Nearest(m, d) <= Nearest(n, d) + 1
<1>1. PICK k, q \in Nat : k = n \div d /\ q = n % d /\ q < d /\ n = d * k + q
  BY Quotient
<1>2. PICK l, r \in Nat : l = m \div d /\ r = m % d /\ r < d /\ m = d * l + r
  BY Quotient
<1>3. PICK x \in Nat, y \in Nat : x = d * k /\ y = d * l
  OBVIOUS
<1>4. l <= k + 1
  <2> SUFFICES ASSUME k + 2 <= l PROVE FALSE
    OBVIOUS
  <2>1. d * (k + 2) <= d * l /\ d * (k + 2) = d * k + d + d
    OBVIOUS
  <2>2. QED
    BY <1>1, <1>2, <1>3, <2>1
<1>5. l = k + 1 => r < q
  <2> SUFFICES ASSUME l = k + 1 PROVE r < q
    OBVIOUS
  <2>1. d * l = d * k + d
    OBVIOUS
  <2>2. QED
    BY <1>1, <1>2, <1>3, <2>1
<1>6. QED
  BY <1>1, <1>2, <1>4, <1>5 DEF Nearest

LEMMA Extremes ==
  /\ \A a, b \in Int : Max({a, b}) = (IF a <= b THEN b ELSE a)
  /\ \A a, b, c \in Int :
       Min({a, b, c}) = (IF a <= b /\ a <= c THEN a ELSE IF b <= c THEN b ELSE c)
  BY DEF Min, Max

LEMMA Smallest ==
  ASSUME NEW S \in SUBSET Nat, S # {}
  PROVE  Min(S) \in S /\ \A i \in S : Min(S) <= i
<1>1. PICK n \in S : TRUE
  OBVIOUS
<1> DEFINE T == 0 .. n
           Below == {0 .. i : i \in S \cap T}
<1>2. PICK t \in Below : \A s \in Below : s \subseteq t => s = t
  <2>1. IsFiniteSet(T)
    BY <1>1, FS_Interval
  <2>2. n \in S \cap T
    BY <1>1
  <2>3. T \in Below
    BY <2>2
  <2>4. \A s \in Below : s \subseteq T
    OBVIOUS
  <2> HIDE DEF Below, T
  <2>5. QED
    BY <2>1, <2>3, <2>4, SmallestSet
<1>3. PICK m \in S : t = 0 .. m /\ m <= n
  BY <1>2
<1>4. \A i \in S : m <= i
  <2> SUFFICES ASSUME NEW i \in S, i < m PROVE FALSE
    OBVIOUS
  <2>1. 0 .. i \in Below /\ 0 .. i \subseteq t /\ m \in t /\ m \notin 0 .. i
    BY <1>1, <1>3
  <2>2. QED
    BY <1>2, <2>1
<1>5. QED
  BY <1>4 DEF Min

-------------------------------------------------------------------------------
(* compute_result *)

\* What the validation and the columns leave of the rules of a scheme.
Fair(r) ==
  /\ r \in Rules
  /\ \A i \in Asked : r.weight[i] > 0
  /\ r.general + r.specialized <= Whole + 10
  /\ r.bands # <<>>
  /\ \A i, j \in DOMAIN r.bands : i < j => r.bands[i].upper < r.bands[j].upper

LEMMA RuleFields ==
  ASSUME NEW r \in Rules
  PROVE  /\ r.general \in Nat /\ r.specialized \in Nat /\ r.bonusMax \in Nat
         /\ r.general <= Whole /\ r.specialized <= Whole
         /\ r.weight \in [Asked -> Nat] /\ r.bands \in Seq(Bands)
<1>1. /\ r.general \in 0 .. Whole /\ r.specialized \in 0 .. Whole /\ r.bonusMax \in Nat
      /\ r.weight \in [Asked -> Nat] /\ r.bands \in Seq(Bands)
  BY DEF Rules
<1>2. Whole \in Nat
  BY DEF Whole
<1>3. QED
  BY <1>1, <1>2

LEMMA StoredRules ==
  ASSUME NEW input \in Rules, Valid(input)
  PROVE  Fair(AsStored(input))
<1> DEFINE r == AsStored(input)
<1>1. r = [input EXCEPT !.general = Stored(input.general, 10),
                        !.specialized = Stored(input.specialized, 10),
                        !.bonusMax = Stored(input.bonusMax, 10)]
  BY DEF AsStored
<1>2. \A n \in Nat : /\ Stored(n, 10) \in Nat /\ Stored(n, 10) <= n + 5
                     /\ n <= Whole => Stored(n, 10) <= Whole
  BY DEF Stored, Whole
<1>3. /\ Stored(input.general, 10) \in 0 .. Whole /\ Stored(input.specialized, 10) \in 0 .. Whole
      /\ Stored(input.bonusMax, 10) \in Nat
      /\ Stored(input.general, 10) + Stored(input.specialized, 10) <= Whole + 10
  <2>1. PICK g \in Nat, p \in Nat, m \in Nat :
          /\ g = input.general /\ p = input.specialized /\ m = input.bonusMax
          /\ g <= Whole /\ p <= Whole /\ g + p = Whole
    BY RuleFields DEF Valid
  <2>2. /\ Stored(g, 10) \in Nat /\ Stored(p, 10) \in Nat /\ Stored(m, 10) \in Nat
        /\ Stored(g, 10) <= Whole /\ Stored(p, 10) <= Whole
        /\ Stored(g, 10) + Stored(p, 10) <= Whole + 10
    BY <1>2, <2>1
  <2>3. Whole \in Nat
    BY DEF Whole
  <2>4. QED
    BY <2>1, <2>2, <2>3
<1> HIDE DEF r
<1>4. r \in Rules
  BY <1>1, <1>3 DEF Rules
<1>5. /\ r.general = Stored(input.general, 10) /\ r.specialized = Stored(input.specialized, 10)
      /\ r.weight = input.weight /\ r.bands = input.bands
  BY <1>1 DEF Rules
<1>6. QED
  BY <1>3, <1>4, <1>5 DEF r, Fair, Valid

\* The share of a section is a percentage, a hundred for all points, and grows with
\* the sheet.
LEMMA SectionShare ==
  ASSUME NEW r, Fair(r), NEW s \in Sheets, NEW t \in Sheets, Wider(s, t),
         NEW section \in SUBSET Asked
  PROVE  /\ SectionPct(r, s, section) \in Nat /\ SectionPct(r, t, section) \in Nat
         /\ SectionPct(r, t, section) <= Full
         /\ SectionPct(r, s, section) <= SectionPct(r, t, section)
         /\ section # {} /\ (\A i \in section : s[i].score = MaxScore) =>
              SectionPct(r, s, section) = Full
<1>1. CASE section = {}
  BY <1>1 DEF SectionPct, Full
<1>2. CASE section # {}
  <2> DEFINE a == SumFunction(Points(r, s, section))
             b == SumFunction(Points(r, t, section))
             d == SumFunction(AllPoints(r, section))
  <2>1. IsFiniteSet(section)
    BY AskedAssumption, FS_Subset
  <2>2. \A i \in section :
          /\ s[i].score \in 1 .. MaxScore /\ t[i].score \in 1 .. MaxScore
          /\ s[i].score <= t[i].score
          /\ r.weight[i] \in Nat /\ r.weight[i] > 0
    BY SheetsAssumption, RuleFields DEF Sheets, Fair, Wider
  <2>3. \A i \in section :
          /\ s[i].score * r.weight[i] \in Nat /\ t[i].score * r.weight[i] \in Nat
          /\ MaxScore * r.weight[i] \in Nat /\ MaxScore * r.weight[i] > 0
          /\ s[i].score * r.weight[i] <= t[i].score * r.weight[i]
          /\ t[i].score * r.weight[i] <= MaxScore * r.weight[i]
    <3> SUFFICES ASSUME NEW i \in section, NEW w \in Nat, w > 0,
                        NEW x \in 1 .. MaxScore, NEW y \in 1 .. MaxScore, x <= y
                 PROVE  /\ x * w \in Nat /\ y * w \in Nat /\ MaxScore * w \in Nat /\ MaxScore * w > 0
                        /\ x * w <= y * w /\ y * w <= MaxScore * w
      BY <2>2
    <3>1. QED
      BY DEF MaxScore
  <2>4. /\ Points(r, s, section) \in [section -> Nat] /\ Points(r, t, section) \in [section -> Nat]
        /\ AllPoints(r, section) \in [section -> Nat]
    BY <2>3 DEF Points, AllPoints
  <2>5. a \in Nat /\ b \in Nat /\ a <= b
    <3>1. \A i \in section : Points(r, s, section)[i] <= Points(r, t, section)[i]
      BY <2>3 DEF Points
    <3>2. QED
      BY <2>1, <2>4, <3>1, SumGrows
  <2>6. d \in Nat /\ b <= d
    <3>1. \A i \in section : Points(r, t, section)[i] <= AllPoints(r, section)[i]
      BY <2>3 DEF Points, AllPoints
    <3>2. QED
      BY <2>1, <2>4, <3>1, SumGrows
  <2>7. d > 0
    <3>1. \A i \in section : AllPoints(r, section)[i] > 0
      BY <2>3 DEF AllPoints
    <3>2. QED
      BY <1>2, <2>1, <2>4, <3>1, SumIsPositive
  <2>8. (\A i \in section : s[i].score = MaxScore) => a = d
    <3> SUFFICES ASSUME \A i \in section : s[i].score = MaxScore PROVE a = d
      OBVIOUS
    <3>1. Points(r, s, section) = AllPoints(r, section)
      BY DEF Points, AllPoints
    <3>2. QED
      BY <3>1
  <2>9. /\ SectionPct(r, s, section) = Nearest(Full * a, d)
        /\ SectionPct(r, t, section) = Nearest(Full * b, d)
    BY <1>2 DEF SectionPct
  <2> HIDE DEF a, b, d
  <2>10. Full * a \in Nat /\ Full * b \in Nat /\ Full * d \in Nat /\ Full * a <= Full * b /\ Full * b <= Full * d
    BY <2>5, <2>6 DEF Full
  <2>11. Nearest(Full * d, d) = Full
    BY <2>6, <2>7, NearestExact DEF Full
  <2>12. QED
    <3>1. /\ Nearest(Full * a, d) \in Nat /\ Nearest(Full * b, d) \in Nat
          /\ Nearest(Full * a, d) <= Nearest(Full * b, d)
      BY <2>6, <2>7, <2>10, NearestGrows
    <3>2. Nearest(Full * b, d) <= Nearest(Full * d, d)
      BY <2>6, <2>7, <2>10, NearestGrows
    <3>3. QED
      BY <2>8, <2>9, <2>11, <3>1, <3>2 DEF Full
<1>3. QED
  BY <1>1, <1>2

\* The sections together, and the sections with the special score.
Base(r, g, p) == Nearest(g * r.general + p * r.specialized, Whole)
Total(r, base, b) == Nearest(10 * base + Applied(r, base, b), 10)

LEMMA BaseShare ==
  ASSUME NEW r, Fair(r), NEW g \in Nat, NEW p \in Nat, NEW h \in Nat, NEW q \in Nat,
         g <= h, p <= q, h <= Full, q <= Full
  PROVE  /\ Base(r, g, p) \in Nat /\ Base(r, h, q) \in Nat
         /\ Base(r, g, p) <= Base(r, h, q) /\ Base(r, h, q) <= Full + 1
         /\ r.general + r.specialized = Whole =>
              Base(r, h, q) <= Full /\ Base(r, Full, Full) = Full
<1>1. PICK G \in Nat, P \in Nat : G = r.general /\ P = r.specialized /\ G + P <= Whole + 10
  BY RuleFields DEF Fair
<1>2. /\ g * G \in Nat /\ p * P \in Nat /\ h * G \in Nat /\ q * P \in Nat
      /\ g * G <= h * G /\ p * P <= q * P
    OBVIOUS
<1>3. h * G <= Full * G /\ q * P <= Full * P /\ Full * G \in Nat /\ Full * P \in Nat
  BY DEF Full
<1>4. PICK x \in Nat, y \in Nat : x = g * G + p * P /\ y = h * G + q * P /\ x <= y
  BY <1>2
<1>5. y <= Full * (G + P)
  BY <1>2, <1>3, <1>4 DEF Full
<1>6. Base(r, g, p) = Nearest(x, Whole) /\ Base(r, h, q) = Nearest(y, Whole)
  BY <1>1, <1>4 DEF Base
<1>7. Nearest((Full + 1) * Whole, Whole) = Full + 1 /\ Nearest(Full * Whole, Whole) = Full
  BY DEF Nearest, Full, Whole
<1>8. /\ Nearest(x, Whole) \in Nat /\ Nearest(y, Whole) \in Nat
      /\ Nearest(x, Whole) <= Nearest(y, Whole)
  BY <1>4, NearestGrows DEF Whole
<1>9. Nearest(y, Whole) <= Full + 1
  <2>1. y <= (Full + 1) * Whole /\ (Full + 1) * Whole \in Nat
    BY <1>1, <1>5 DEF Full, Whole
  <2>2. Nearest(y, Whole) <= Nearest((Full + 1) * Whole, Whole)
    BY <2>1, NearestGrows DEF Whole
  <2>3. QED
    BY <1>7, <2>2
<1>10. ASSUME r.general + r.specialized = Whole
       PROVE  Base(r, h, q) <= Full /\ Base(r, Full, Full) = Full
  <2>1. Full * (G + P) = Full * Whole /\ Full * G + Full * P = Full * Whole
    BY <1>1, <1>10 DEF Full, Whole
  <2>2. y <= Full * Whole /\ Full * Whole \in Nat
    BY <1>5, <2>1 DEF Full, Whole
  <2>3. Nearest(y, Whole) <= Nearest(Full * Whole, Whole)
    BY <2>2, NearestGrows DEF Whole
  <2>4. Base(r, Full, Full) = Nearest(Full * Whole, Whole)
    BY <1>1, <2>1 DEF Base
  <2>5. QED
    BY <1>6, <1>7, <2>3, <2>4
<1>11. QED
  BY <1>6, <1>8, <1>9, <1>10

\* The special score fills up to a hundred and lowers nothing.
LEMMA TotalIsCut ==
  ASSUME NEW r, Fair(r), NEW x \in Nat, NEW b \in Nat
  PROVE  /\ Applied(r, x, b) \in Nat /\ Total(r, x, b) \in Nat
         /\ x <= Total(r, x, b)
         /\ x <= Full => Total(r, x, b) <= Full
         /\ x > Full => Total(r, x, b) = x
<1>1. PICK limit \in Nat : limit = r.bonusMax
  BY RuleFields DEF Fair
<1>2. PICK a \in Nat :
        /\ a = Max({0, Min({b, limit, 100 * (Full - x)})})
        /\ a = 0 \/ a <= 100 * (Full - x)
  BY Extremes DEF Full
<1>3. Applied(r, x, b) = Nearest(a, 10)
  BY <1>1, <1>2 DEF Applied
<1>4. PICK n \in Nat : n = Nearest(a, 10) /\ (n = 0 \/ n <= 10 * (Full - x)) /\ (a = 0 => n = 0)
  BY <1>2 DEF Nearest, Full
<1>5. Total(r, x, b) = Nearest(10 * x + n, 10)
  BY <1>3, <1>4 DEF Total
<1>6. /\ Nearest(10 * x + n, 10) \in Nat /\ x <= Nearest(10 * x + n, 10)
      /\ x <= Full => Nearest(10 * x + n, 10) <= Full
      /\ x > Full => Nearest(10 * x + n, 10) = x
  BY <1>4 DEF Nearest, Full
<1>7. QED
  BY <1>3, <1>4, <1>5, <1>6

\* What the columns make of a rule is half of their last digit away from it.
LEMMA StoredFields ==
  ASSUME NEW input \in Rules
  PROVE  \A field \in {"general", "specialized", "bonusMax"} :
           /\ AsStored(input)[field] = Stored(input[field], 10)
           /\ AsStored(input)[field] <= input[field] + 5
           /\ input[field] <= AsStored(input)[field] + 5
<1> DEFINE kept == [input EXCEPT !.general = Stored(input.general, 10),
                                 !.specialized = Stored(input.specialized, 10),
                                 !.bonusMax = Stored(input.bonusMax, 10)]
<1>1. AsStored(input) = kept
  BY DEF AsStored
<1>2. \A n \in Nat : Stored(n, 10) <= n + 5 /\ n <= Stored(n, 10) + 5
  BY DEF Stored
<1>3. /\ kept.general = Stored(input.general, 10)
      /\ kept.specialized = Stored(input.specialized, 10)
      /\ kept.bonusMax = Stored(input.bonusMax, 10)
  BY DEF Rules
<1> HIDE DEF kept
<1>4. input.general \in Nat /\ input.specialized \in Nat /\ input.bonusMax \in Nat
  BY RuleFields
<1>5. QED
  BY <1>1, <1>2, <1>3, <1>4

\* The sections together, with the weights as typed and as kept: unless both sections
\* are full, the sums are less than a unit apart.
LEMMA BaseIsClose ==
  ASSUME NEW input \in Rules, Valid(input), NEW g \in Nat, NEW p \in Nat, g <= Full, p <= Full
  PROVE  /\ Base(input, g, p) \in Nat /\ Base(AsStored(input), g, p) \in Nat
         /\ Base(input, g, p) <= Base(AsStored(input), g, p) + 1
         /\ Base(AsStored(input), g, p) <= Base(input, g, p) + 1
<1>1. PICK G \in Nat, P \in Nat, H \in Nat, Q \in Nat :
        /\ G = input.general /\ P = input.specialized /\ G + P = Whole
        /\ H = AsStored(input).general /\ Q = AsStored(input).specialized
        /\ H <= G + 5 /\ G <= H + 5 /\ Q <= P + 5 /\ P <= Q + 5
  <2>1. AsStored(input) \in Rules
    BY StoredRules DEF Fair
  <2>2. QED
    BY <2>1, RuleFields, StoredFields DEF Valid
<1>2. PICK a \in Nat, b \in Nat, c \in Nat, d \in Nat : a = g * G /\ b = p * P /\ c = g * H /\ d = p * Q
  OBVIOUS
<1>3. /\ Base(input, g, p) = Nearest(a + b, Whole)
      /\ Base(AsStored(input), g, p) = Nearest(c + d, Whole)
  BY <1>1, <1>2 DEF Base
<1>4. c <= a + 5 * g /\ a <= c + 5 * g /\ d <= b + 5 * p /\ b <= d + 5 * p
  <2>1. ASSUME NEW z \in Nat, NEW u \in Nat, NEW v \in Nat, u <= v + 5
        PROVE  z * u <= z * v + 5 * z
    <3>1. z * u <= z * (v + 5) /\ z * (v + 5) = z * v + 5 * z
      BY <2>1
    <3>2. QED
      BY <3>1
  <2>2. QED
    BY <1>1, <1>2, <2>1
<1>5. Nearest(a + b, Whole) \in Nat /\ Nearest(c + d, Whole) \in Nat
  <2>1. Whole \in Nat /\ Whole > 0 /\ a + b \in Nat /\ c + d \in Nat
    BY DEF Whole
  <2>2. a + b <= a + b /\ c + d <= c + d
    OBVIOUS
  <2>3. QED
    BY <2>1, <2>2, NearestGrows
<1>6. CASE g = Full /\ p = Full
  <2>1. a + b = Full * Whole /\ (Full - 1) * Whole <= c + d /\ c + d <= (Full + 1) * Whole
    BY <1>1, <1>2, <1>6 DEF Full, Whole
  <2>2. /\ Nearest(Full * Whole, Whole) = Full /\ Nearest((Full - 1) * Whole, Whole) = Full - 1
        /\ Nearest((Full + 1) * Whole, Whole) = Full + 1
    BY DEF Nearest, Full, Whole
  <2>3. Full - 1 <= Nearest(c + d, Whole)
    <3>1. (Full - 1) * Whole \in Nat /\ c + d \in Nat /\ Whole \in Nat /\ Whole > 0
      BY DEF Full, Whole
    <3>2. QED
      BY <2>1, <2>2, <3>1, NearestGrows
  <2>4. Nearest(c + d, Whole) <= Full + 1
    <3>1. (Full + 1) * Whole \in Nat /\ c + d \in Nat /\ Whole \in Nat /\ Whole > 0
      BY DEF Full, Whole
    <3>2. QED
      BY <2>1, <2>2, <3>1, NearestGrows
  <2>5. QED
    BY <1>3, <1>5, <2>1, <2>2, <2>3, <2>4 DEF Full
<1>7. CASE ~(g = Full /\ p = Full)
  <2>1. c + d < (a + b) + Whole /\ a + b < (c + d) + Whole
    BY <1>4, <1>7 DEF Full, Whole
  <2>2. Whole \in Nat /\ Whole > 0 /\ a + b \in Nat /\ c + d \in Nat
    BY DEF Whole
  <2>3. Nearest(c + d, Whole) <= Nearest(a + b, Whole) + 1
    BY <2>1, <2>2, NearestIsClose
  <2>4. Nearest(a + b, Whole) <= Nearest(c + d, Whole) + 1
    BY <2>1, <2>2, NearestIsClose
  <2>5. QED
    BY <1>3, <1>5, <2>3, <2>4
<1>8. QED
  BY <1>6, <1>7

\* A tenth more from the sections and a limit hardly higher are worth two tenths.
LEMMA TotalIsClose ==
  ASSUME NEW r, Fair(r), NEW t, Fair(t), NEW x \in Nat, NEW y \in Nat, NEW b \in Nat,
         y <= x + 1, t.bonusMax <= r.bonusMax + 5
  PROVE  Total(t, y, b) <= Total(r, x, b) + 2
<1>1. PICK k \in Nat, l \in Nat : k = r.bonusMax /\ l = t.bonusMax /\ l <= k + 5
  BY RuleFields DEF Fair
<1>2. /\ Total(r, x, b) \in Nat /\ x <= Total(r, x, b) /\ Total(t, y, b) \in Nat
      /\ y <= Full => Total(t, y, b) <= Full
      /\ y > Full => Total(t, y, b) = y
  BY TotalIsCut
<1>3. CASE x > Full \/ y > Full
  BY <1>2, <1>3 DEF Full
<1>4. CASE x <= Full /\ y <= Full
  <2> DEFINE Cut(z, limit) == Max({0, Min({b, limit, 100 * (Full - z)})})
  <2>1. Applied(r, x, b) = Nearest(Cut(x, k), 10) /\ Applied(t, y, b) = Nearest(Cut(y, l), 10)
    BY <1>1 DEF Applied
  <2>2. CASE Cut(x, k) = 100 * (Full - x)
    <3>1. Nearest(Cut(x, k), 10) = 10 * (Full - x)
      BY <1>4, <2>2 DEF Nearest, Full
    <3>2. Total(r, x, b) = Full
      BY <1>4, <2>1, <3>1 DEF Total, Nearest, Full
    <3>3. QED
      BY <1>2, <1>4, <3>2 DEF Full
  <2>3. CASE Cut(x, k) # 100 * (Full - x)
    <3>1. Cut(x, k) \in Nat /\ Cut(y, l) \in Nat /\ Cut(y, l) <= Cut(x, k) + 5
      <4>1. PICK u \in Nat, v \in Nat : u = 100 * (Full - x) /\ v = 100 * (Full - y)
        BY <1>4 DEF Full
      <4>2. /\ Min({b, k, u}) = (IF b <= k /\ b <= u THEN b ELSE IF k <= u THEN k ELSE u)
            /\ Min({b, l, v}) = (IF b <= l /\ b <= v THEN b ELSE IF l <= v THEN l ELSE v)
        BY Extremes
      <4>3. PICK i \in Nat, j \in Nat : i = Min({b, k, u}) /\ j = Min({b, l, v})
        BY <4>2
      <4>4. Cut(x, k) = i /\ Cut(y, l) = j
        <5>1. Max({0, i}) = i /\ Max({0, j}) = j
          BY Extremes
        <5>2. QED
          BY <4>1, <4>3, <5>1
      <4>5. i # u
        BY <2>3, <4>1, <4>4
      <4>6. QED
        BY <1>1, <4>2, <4>3, <4>4, <4>5
    <3> HIDE DEF Cut
    <3>2. PICK v \in Nat, w \in Nat : v = Cut(x, k) /\ w = Cut(y, l) /\ w <= v + 5
      BY <3>1
    <3>3. PICK m \in Nat, n \in Nat : m = Nearest(v, 10) /\ n = Nearest(w, 10) /\ n <= m + 1
      <4>1. Nearest(v, 10) \in Nat /\ Nearest(w, 10) \in Nat
        <5>1. v <= v /\ w <= w
          OBVIOUS
        <5>2. QED
          BY <5>1, NearestGrows
      <4>2. Nearest(w, 10) <= Nearest(v, 10) + 1
        <5>1. w < v + 10
          BY <3>2
        <5>2. QED
          BY <5>1, NearestIsClose
      <4>3. QED
        BY <4>1, <4>2
    <3>4. PICK X \in Nat, Y \in Nat : X = 10 * x + m /\ Y = 10 * y + n /\ Y <= X + 11
      BY <3>3
    <3>5. Nearest(X + 9, 10) <= Nearest(X, 10) + 1
      <4>1. X + 9 \in Nat /\ X + 9 < X + 10
        OBVIOUS
      <4>2. QED
        BY <4>1, NearestIsClose
    <3>6. Nearest(Y, 10) <= Nearest(X + 9, 10) + 1
      <4>1. X + 9 \in Nat /\ Y < (X + 9) + 10
        BY <3>4
      <4>2. QED
        BY <4>1, NearestIsClose
    <3>7. Total(r, x, b) = Nearest(X, 10) /\ Total(t, y, b) = Nearest(Y, 10)
      BY <2>1, <3>2, <3>3, <3>4 DEF Total
    <3>8. Nearest(X + 9, 10) \in Nat
      <4>1. X + 9 \in Nat /\ X + 9 <= X + 9
        OBVIOUS
      <4>2. QED
        BY <4>1, NearestGrows
    <3>9. QED
      BY <1>2, <3>5, <3>6, <3>7, <3>8
  <2>4. QED
    BY <2>2, <2>3
<1>5. QED
  BY <1>3, <1>4 DEF Full

\* Where the cut takes from a special score, a hundred is reached.
LEMMA TotalGrows ==
  ASSUME NEW r, Fair(r), NEW x \in Nat, NEW y \in Nat, NEW b \in Nat, NEW c \in Nat,
         x <= y, b <= c
  PROVE  Total(r, x, b) <= Total(r, y, c)
<1>1. PICK limit \in Nat : limit = r.bonusMax
  BY RuleFields DEF Fair
<1>2. CASE y > Full
  <2>1. Total(r, y, c) = y
    BY <1>2, TotalIsCut
  <2>2. (x <= Full => Total(r, x, b) <= Full) /\ (x > Full => Total(r, x, b) = x)
    BY TotalIsCut
  <2>3. Total(r, x, b) \in Nat
    BY TotalIsCut
  <2>4. QED
    BY <1>2, <2>1, <2>2, <2>3 DEF Full
<1>3. CASE y <= Full
  <2> DEFINE Cut(z, e) == Max({0, Min({e, limit, 100 * (Full - z)})})
  <2>1. Applied(r, x, b) = Nearest(Cut(x, b), 10) /\ Applied(r, y, c) = Nearest(Cut(y, c), 10)
    BY <1>1 DEF Applied
  <2>2. CASE Cut(y, c) = 100 * (Full - y)
    <3>1. Nearest(Cut(y, c), 10) = 10 * (Full - y)
      BY <1>3, <2>2 DEF Nearest, Full
    <3>2. Total(r, y, c) = Full
      BY <1>3, <2>1, <3>1 DEF Total, Nearest, Full
    <3>3. QED
      BY <1>3, <3>2, TotalIsCut
  <2>3. CASE Cut(y, c) # 100 * (Full - y)
    <3>1. Cut(x, b) \in Nat /\ Cut(y, c) \in Nat /\ Cut(x, b) <= Cut(y, c)
      BY <1>3, <2>3, Extremes DEF Full
    <3> HIDE DEF Cut
    <3>2. PICK v \in Nat, w \in Nat : v = Cut(x, b) /\ w = Cut(y, c) /\ v <= w
      BY <3>1
    <3>3. PICK m \in Nat, n \in Nat : m = Nearest(v, 10) /\ n = Nearest(w, 10) /\ m <= n
      <4>1. v \in Nat /\ w \in Nat /\ v <= w
        BY <3>2
      <4>2. /\ Nearest(v, 10) \in Nat /\ Nearest(w, 10) \in Nat
            /\ Nearest(v, 10) <= Nearest(w, 10)
        BY <4>1, NearestGrows
      <4>3. QED
        BY <4>2
    <3>4. Nearest(10 * x + m, 10) <= Nearest(10 * y + n, 10)
      <4>1. 10 * x + m \in Nat /\ 10 * y + n \in Nat /\ 10 * x + m <= 10 * y + n
        BY <3>3
      <4>2. QED
        BY <4>1, NearestGrows
    <3>5. QED
      BY <2>1, <3>2, <3>3, <3>4 DEF Total
  <2>4. QED
    BY <2>2, <2>3
<1>4. QED
  BY <1>2, <1>3 DEF Full

\* The columns of a result.
LEMMA ResultColumnsOf ==
  ASSUME NEW r, Fair(r), NEW s \in Sheets, NEW b \in Nat
  PROVE  LET c == ComputeResult(r, s, b)
         IN /\ c \in ResultColumns
            /\ c.general <= Full /\ c.specialized <= Full
            /\ c.base <= c.final /\ c.final <= Full + 1
            /\ r.general + r.specialized = Whole =>
                 /\ c.base <= Full /\ c.final <= Full
                 /\ General \notin {{}, Asked} /\ (\A i \in Asked : s[i].score = MaxScore) =>
                      c.final = Full
            /\ c.label = RecommendationFor(r, c.final)
<1> DEFINE g == SectionPct(r, s, General)
           p == SectionPct(r, s, Asked \ General)
           x == Base(r, g, p)
           f == Total(r, x, b)
           a == Applied(r, x, b)
<1>1. ComputeResult(r, s, b) =
        [general |-> g, specialized |-> p, base |-> x, bonus |-> a, final |-> f,
         label |-> RecommendationFor(r, f)]
  BY DEF ComputeResult, Base, Total
<1>2. Wider(s, s)
  BY SheetsAssumption DEF Wider, Sheets
<1>3. General \in SUBSET Asked /\ Asked \ General \in SUBSET Asked
  BY SheetsAssumption
<1>4. g \in Nat /\ g <= Full /\ p \in Nat /\ p <= Full
  BY <1>2, <1>3, SectionShare
<1>5. /\ General # {} /\ (\A i \in General : s[i].score = MaxScore) => g = Full
      /\ Asked \ General # {} /\ (\A i \in Asked \ General : s[i].score = MaxScore) => p = Full
  BY <1>2, <1>3, SectionShare
<1> HIDE DEF g, p
<1>6. /\ x \in Nat /\ x <= Full + 1
      /\ r.general + r.specialized = Whole => x <= Full /\ Base(r, Full, Full) = Full
  <2>1. g <= g /\ p <= p
    BY <1>4
  <2>2. QED
    BY <1>4, <2>1, BaseShare
<1> HIDE DEF x
<1>7. /\ a \in Nat /\ f \in Nat /\ x <= f
      /\ x <= Full => f <= Full
      /\ x > Full => f = x
  BY <1>6, TotalIsCut
<1> HIDE DEF f, a
<1>8. RecommendationFor(r, f) \in STRING
  <2>1. Len(r.bands) \in Nat /\ Len(r.bands) > 0 /\ DOMAIN r.bands = 1 .. Len(r.bands)
    BY RuleFields DEF Fair
  <2>2. \A i \in 1 .. Len(r.bands) : r.bands[i].label \in STRING
    <3>1. \A i \in 1 .. Len(r.bands) : r.bands[i] \in Bands
      BY RuleFields DEF Fair
    <3>2. QED
      BY <3>1 DEF Bands
  <2> DEFINE above == {i \in DOMAIN r.bands : f < r.bands[i].upper}
  <2>3. above # {} => Min(above) \in 1 .. Len(r.bands)
    <3>1. above \in SUBSET Nat /\ above \subseteq 1 .. Len(r.bands)
      BY <2>1
    <3> HIDE DEF above
    <3>2. QED
      BY <3>1, Smallest
  <2>4. RecommendationFor(r, f) = r.bands[IF above = {} THEN Len(r.bands) ELSE Min(above)].label
    BY DEF RecommendationFor
  <2> HIDE DEF above
  <2>5. QED
    BY <2>1, <2>2, <2>3, <2>4
<1>9. ASSUME r.general + r.specialized = Whole, General \notin {{}, Asked},
             \A i \in Asked : s[i].score = MaxScore
      PROVE  f = Full
  <2>1. g = Full /\ p = Full
    BY <1>3, <1>5, <1>9
  <2>2. x = Full
    BY <1>6, <1>9, <2>1 DEF x
  <2>3. QED
    BY <1>7, <2>2 DEF Full
<1>10. ComputeResult(r, s, b) \in ResultColumns
  BY <1>1, <1>4, <1>6, <1>7, <1>8 DEF ResultColumns
<1>11. f <= Full + 1
  BY <1>6, <1>7 DEF Full
<1>12. QED
  BY <1>1, <1>4, <1>6, <1>7, <1>9, <1>10, <1>11

LEMMA ResultsGrow ==
  ASSUME NEW r, Fair(r), NEW s \in Sheets, NEW t \in Sheets, Wider(s, t),
         NEW b \in Nat, NEW c \in Nat, b <= c
  PROVE  ComputeResult(r, s, b).final <= ComputeResult(r, t, c).final
<1>1. PICK g, h, p, q \in Nat :
        /\ g = SectionPct(r, s, General) /\ h = SectionPct(r, t, General)
        /\ p = SectionPct(r, s, Asked \ General) /\ q = SectionPct(r, t, Asked \ General)
        /\ g <= h /\ h <= Full /\ p <= q /\ q <= Full
  <2>1. General \in SUBSET Asked /\ Asked \ General \in SUBSET Asked
    BY SheetsAssumption
  <2>2. QED
    BY <2>1, SectionShare
<1>2. PICK x, y \in Nat : x = Base(r, g, p) /\ y = Base(r, h, q) /\ x <= y
  BY <1>1, BaseShare
<1>3. /\ ComputeResult(r, s, b).final = Total(r, x, b)
      /\ ComputeResult(r, t, c).final = Total(r, y, c)
  BY <1>1, <1>2 DEF ComputeResult, Base, Total
<1>4. QED
  BY <1>2, <1>3, TotalGrows

\* What the rules of a scheme give as typed and as kept.
LEMMA ResultsAreClose ==
  ASSUME NEW input \in Rules, Valid(input), NEW s \in Sheets, NEW b \in Nat
  PROVE  LET typed == ComputeResult(input, s, b).final
             kept == ComputeResult(AsStored(input), s, b).final
         IN typed <= kept + PreviewDrift /\ kept <= typed + PreviewDrift
<1> DEFINE r == AsStored(input)
<1>1. Fair(input)
  BY RuleFields DEF Fair, Valid, Whole
<1>2. Fair(r)
  BY StoredRules
<1>3. r.weight = input.weight
  BY DEF AsStored, Rules
<1>4. /\ SectionPct(r, s, General) = SectionPct(input, s, General)
      /\ SectionPct(r, s, Asked \ General) = SectionPct(input, s, Asked \ General)
  BY <1>3 DEF SectionPct, Points, AllPoints
<1>5. PICK g \in Nat, p \in Nat :
        /\ g = SectionPct(input, s, General) /\ p = SectionPct(input, s, Asked \ General)
        /\ g <= Full /\ p <= Full
  <2>1. Wider(s, s)
    BY SheetsAssumption DEF Wider, Sheets
  <2>2. General \in SUBSET Asked /\ Asked \ General \in SUBSET Asked
    BY SheetsAssumption
  <2>3. QED
    BY <1>1, <2>1, <2>2, SectionShare
<1>6. PICK x \in Nat, y \in Nat :
        x = Base(input, g, p) /\ y = Base(r, g, p) /\ x <= y + 1 /\ y <= x + 1
  BY <1>5, BaseIsClose
<1>7. r.bonusMax <= input.bonusMax + 5 /\ input.bonusMax <= r.bonusMax + 5
  BY StoredFields
<1> HIDE DEF r
<1>8. /\ ComputeResult(input, s, b).final = Total(input, x, b)
      /\ ComputeResult(r, s, b).final = Total(r, y, b)
  BY <1>4, <1>5, <1>6 DEF ComputeResult, Base, Total
<1>9. Total(r, y, b) <= Total(input, x, b) + 2
  BY <1>1, <1>2, <1>6, <1>7, TotalIsClose
<1>10. Total(input, x, b) <= Total(r, y, b) + 2
  BY <1>1, <1>2, <1>6, <1>7, TotalIsClose
<1>11. QED
  BY <1>8, <1>9, <1>10 DEF r, PreviewDrift

LEMMA BandOf ==
  ASSUME NEW r, Fair(r), NEW f \in Nat
  PROVE  \E i \in DOMAIN r.bands :
           /\ r.bands[i].label = RecommendationFor(r, f)
           /\ f < r.bands[i].upper \/ i = Len(r.bands)
           /\ \A j \in DOMAIN r.bands :
                r.bands[j].upper < r.bands[i].upper => r.bands[j].upper <= f
<1> DEFINE n == Len(r.bands)
           above == {i \in DOMAIN r.bands : f < r.bands[i].upper}
<1>1. n \in Nat /\ n > 0 /\ DOMAIN r.bands = 1 .. n
  BY RuleFields DEF Fair
<1>2. \A i \in 1 .. n : r.bands[i].upper \in Nat
  <2>1. \A i \in 1 .. n : r.bands[i] \in Bands
    BY RuleFields DEF Fair
  <2>2. QED
    BY <2>1 DEF Bands
<1>3. \A i, j \in 1 .. n : i < j => r.bands[i].upper < r.bands[j].upper
  BY <1>1 DEF Fair
<1>4. PICK i \in 1 .. n :
        /\ RecommendationFor(r, f) = r.bands[i].label
        /\ f < r.bands[i].upper \/ i = n
        /\ \A j \in 1 .. n : j < i => ~(f < r.bands[j].upper)
  <2>1. CASE above = {}
    <3>1. RecommendationFor(r, f) = r.bands[n].label
      BY <2>1 DEF RecommendationFor
    <3>2. \A j \in 1 .. n : ~(f < r.bands[j].upper)
      BY <1>1, <2>1
    <3>3. n \in 1 .. n
      BY <1>1
    <3>4. QED
      BY <3>1, <3>2, <3>3
  <2>2. CASE above # {}
    <3>1. above \in SUBSET Nat /\ above \subseteq 1 .. n
      BY <1>1
    <3>2. RecommendationFor(r, f) = r.bands[Min(above)].label
      BY <2>2 DEF RecommendationFor
    <3>3. Min(above) \in above /\ \A j \in above : Min(above) <= j
      <4> HIDE DEF above
      <4> QED
        BY <2>2, <3>1, Smallest
    <3>4. \A j \in 1 .. n : j < Min(above) => j \notin above
      <4> HIDE DEF above
      <4>1. Min(above) \in Nat
        BY <3>1, <3>3
      <4>2. QED
        BY <3>1, <3>3, <4>1
    <3>5. QED
      BY <1>1, <3>1, <3>2, <3>3, <3>4
  <2>3. QED
    BY <2>1, <2>2
<1> HIDE DEF above
<1>5. ASSUME NEW j \in 1 .. n, r.bands[j].upper < r.bands[i].upper
      PROVE  r.bands[j].upper <= f
  <2>1. ~(i <= j)
    <3> SUFFICES ASSUME i <= j PROVE FALSE
      OBVIOUS
    <3>1. i = j \/ r.bands[i].upper < r.bands[j].upper
      BY <1>1, <1>3
    <3>2. QED
      BY <1>2, <1>5, <3>1
  <2>2. ~(f < r.bands[j].upper)
    BY <1>1, <1>4, <2>1
  <2>3. QED
    BY <1>2, <2>2
<1>6. QED
  BY <1>1, <1>4, <1>5

-------------------------------------------------------------------------------
(* The case under its rules *)

ScoringTypeOK ==
  /\ rules \in Rules \cup {Null}
  /\ status \in {"draft", "submitted", "finalized"}
  /\ sheet \in Sheets \cup {Null}
  /\ bonus \in Nat
  /\ result \in ResultColumns \cup {Null}

\* The rules of a case passed the validation, a result was computed under them, and
\* outside of the drafts from the sheet and the special score the case has.
ScoringInvariant ==
  /\ ScoringTypeOK
  /\ rules # Null => \E input \in Inputs : Valid(input) /\ rules = AsStored(input)
  /\ result # Null =>
       rules # Null /\ \E s \in Sheets, b \in Nat : result = ComputeResult(rules, s, b)
  /\ status # "draft" =>
       rules # Null /\ sheet # Null /\ result = ComputeResult(rules, sheet, bonus)

LEMMA RulesAreFair ==
  ASSUME ScoringInvariant, rules # Null
  PROVE  Fair(rules)
<1>1. PICK input \in Inputs : Valid(input) /\ rules = AsStored(input)
  BY DEF ScoringInvariant
<1>2. QED
  BY <1>1, InputsAssumption, StoredRules

LEMMA ScoringStep ==
  ASSUME ScoringInvariant, [ScoringNext]_scoringVars
  PROVE  ScoringInvariant'
<1> USE DEF ScoringInvariant, ScoringTypeOK
<1>1. ASSUME NEW input \in Inputs, Open(input) PROVE ScoringInvariant'
  <2>1. AsStored(input) \in Rules
    BY <1>1, InputsAssumption, StoredRules DEF Open, Fair
  <2>2. result = Null /\ status = "draft"
    BY <1>1 DEF Open
  <2>3. QED
    BY <1>1, <2>1, <2>2 DEF Open
<1>2. ASSUME NEW s \in Sheets, UpsertScores(s) PROVE ScoringInvariant'
  BY <1>2 DEF UpsertScores, IsDraft
<1>3. ASSUME NEW b \in BonusInputs, SetBonus(b) PROVE ScoringInvariant'
  <2>1. Stored(b, 10) \in Nat
    BY InputsAssumption DEF Stored
  <2>2. QED
    BY <1>3, <2>1 DEF SetBonus, IsDraft
<1>4. ASSUME FinalizeScoring PROVE ScoringInvariant'
  <2>1. rules # Null /\ sheet \in Sheets
    BY <1>4 DEF FinalizeScoring, IsDraft
  <2>2. ComputeResult(rules, sheet, bonus) \in ResultColumns
    BY <2>1, RulesAreFair, ResultColumnsOf
  <2>3. QED
    BY <1>4, <2>1, <2>2 DEF FinalizeScoring
<1>5. ASSUME ReturnCase PROVE ScoringInvariant'
  BY <1>5 DEF ReturnCase
<1>6. ASSUME FinalizeCase PROVE ScoringInvariant'
  BY <1>6 DEF FinalizeCase
<1>7. CASE UNCHANGED scoringVars
  BY <1>7 DEF scoringVars
<1>8. QED
  BY <1>1, <1>2, <1>3, <1>4, <1>5, <1>6, <1>7 DEF ScoringNext

LEMMA ScoringInvariantHolds == ScoringSpec => []ScoringInvariant
<1>1. ScoringInit => ScoringInvariant
  BY DEF ScoringInit, ScoringInvariant, ScoringTypeOK
<1>2. ScoringInvariant /\ [ScoringNext]_scoringVars => ScoringInvariant'
  BY ScoringStep
<1>3. QED
  BY <1>1, <1>2, PTL DEF ScoringSpec

\* compute_result and rules_from: the case, its rules and its result have their types.
THEOREM ScoringTypes == ScoringSpec => []ScoringTypeOK
<1>1. ScoringInvariant => ScoringTypeOK
  BY DEF ScoringInvariant
<1>2. QED
  BY <1>1, ScoringInvariantHolds, PTL

\* compute_result, whatever HR may propose and the columns make of it: the sections are
\* percentages, a special score lowers nothing, a result exceeds a hundred by a tenth at
\* most and not at all where the kept weights add up; full marks are then a hundred.
THEOREM ResultsArePercentages == ScoringSpec => []ResultIsAPercentage
<1>1. ScoringInvariant => ResultIsAPercentage
  <2> SUFFICES ASSUME ScoringInvariant, result # Null
               PROVE  /\ result.general <= Full /\ result.specialized <= Full
                      /\ result.base <= result.final /\ result.final <= Full + 1
                      /\ rules.general + rules.specialized = Whole =>
                           /\ result.final <= Full
                           /\ status # "draft" /\ General \notin {{}, Asked} /\ FullMarks =>
                                result.final = Full
    BY DEF ResultIsAPercentage
  <2>1. PICK s \in Sheets, b \in Nat : result = ComputeResult(rules, s, b)
    BY DEF ScoringInvariant
  <2>2. /\ Fair(rules)
        /\ status # "draft" =>
             sheet \in Sheets /\ bonus \in Nat /\ result = ComputeResult(rules, sheet, bonus)
    BY RulesAreFair DEF ScoringInvariant, ScoringTypeOK
  <2>3. /\ result.general <= Full /\ result.specialized <= Full
        /\ result.base <= result.final /\ result.final <= Full + 1
        /\ rules.general + rules.specialized = Whole => result.final <= Full
    BY <2>1, <2>2, ResultColumnsOf
  <2>4. ASSUME rules.general + rules.specialized = Whole,
               status # "draft", General \notin {{}, Asked}, FullMarks
        PROVE  result.final = Full
    BY <2>2, <2>4, ResultColumnsOf DEF FullMarks
  <2>5. QED
    BY <2>3, <2>4
<1>2. QED
  BY <1>1, ScoringInvariantHolds, PTL

\* recommendation_for: a result lies in the band it names, also where the columns have
\* let it exceed a hundred.
THEOREM LabelsAreOfTheirBands == ScoringSpec => []LabelIsOfItsBand
<1>1. ScoringInvariant => LabelIsOfItsBand
  <2> SUFFICES ASSUME ScoringInvariant, result # Null
               PROVE  \E i \in DOMAIN rules.bands :
                        /\ rules.bands[i].label = result.label
                        /\ result.final < rules.bands[i].upper \/ i = Len(rules.bands)
                        /\ \A j \in DOMAIN rules.bands :
                             rules.bands[j].upper < rules.bands[i].upper =>
                               rules.bands[j].upper <= result.final
    BY DEF LabelIsOfItsBand
  <2>1. PICK s \in Sheets, b \in Nat : result = ComputeResult(rules, s, b)
    BY DEF ScoringInvariant
  <2>2. Fair(rules) /\ result \in ResultColumns
    BY RulesAreFair DEF ScoringInvariant, ScoringTypeOK
  <2>3. result.label = RecommendationFor(rules, result.final)
    BY <2>1, <2>2, ResultColumnsOf
  <2>4. result.final \in Nat
    BY <2>2 DEF ResultColumns
  <2>5. QED
    BY <2>2, <2>3, <2>4, BandOf
<1>2. QED
  BY <1>1, ScoringInvariantHolds, PTL

\* preview_scheme: what HR is shown of a closed case is two tenths of a point at most
\* from what the proposed scheme would give it once the columns hold it.
THEOREM PreviewsAreClose == ScoringSpec => []PreviewIsClose
<1>1. ScoringInvariant => PreviewIsClose
  <2> SUFFICES ASSUME ScoringInvariant, status = "finalized", NEW input \in Inputs, Valid(input)
               PROVE  LET shown == Preview(input).final
                          got == ComputeResult(AsStored(input), sheet, bonus).final
                      IN shown <= got + PreviewDrift /\ got <= shown + PreviewDrift
    BY DEF PreviewIsClose
  <2>1. sheet \in Sheets /\ bonus \in Nat /\ input \in Rules
    BY InputsAssumption DEF ScoringInvariant, ScoringTypeOK
  <2>2. QED
    BY <2>1, ResultsAreClose DEF Preview
<1>2. QED
  BY <1>1, ScoringInvariantHolds, PTL

\* compute_result: a better sheet or a larger special score never lowers a result.
THEOREM BetterSheetsAreNotWorse == ScoringSpec => BetterSheetIsNotWorse
<1> DEFINE Grown == rules # Null /\ sheet # Null /\ Wider(sheet, sheet') /\ bonus <= bonus' =>
             ComputeResult(rules, sheet, bonus).final <= ComputeResult(rules, sheet', bonus').final
<1>1. ScoringInvariant /\ ScoringInvariant' /\ [ScoringNext]_scoringVars => [Grown]_scoringVars
  <2> SUFFICES ASSUME ScoringInvariant, ScoringInvariant', [ScoringNext]_scoringVars,
                      rules # Null, sheet # Null, Wider(sheet, sheet'), bonus <= bonus'
               PROVE  ComputeResult(rules, sheet, bonus).final
                        <= ComputeResult(rules, sheet', bonus').final
    OBVIOUS
  <2>1. sheet \in Sheets /\ bonus \in Nat /\ bonus' \in Nat
    BY DEF ScoringInvariant, ScoringTypeOK
  <2>2. sheet' \in Sheets
    <3>1. sheet' = sheet \/ \E s \in Sheets : sheet' = s
      BY DEF ScoringNext, scoringVars, Open, UpsertScores, SetBonus, FinalizeScoring, ReturnCase, FinalizeCase
    <3>2. QED
      BY <2>1, <3>1
  <2>3. QED
    BY <2>1, <2>2, RulesAreFair, ResultsGrow
<1>2. QED
  BY <1>1, ScoringInvariantHolds, PTL DEF ScoringSpec, BetterSheetIsNotWorse

=============================================================================

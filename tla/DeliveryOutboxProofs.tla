------------------------- MODULE DeliveryOutboxProofs -------------------------
(***************************************************************************)
(* Proofs about DeliveryOutbox, for any number of rows, channels, batches  *)
(* and attempts.  The counts of calls and of attempts are kept in step by  *)
(* the fact that a run takes a row at most once: a rollback then loses at  *)
(* most one attempt of each row.                                           *)
(***************************************************************************)
EXTENDS DeliveryOutbox, TLAPS

OpenStatuses == {"pending", "failed"}

\* What every row satisfies, committed or not.
Sound(r, row) ==
  /\ row.status = "absent" => row.attempts = 0
  /\ row.backoff => row.status = "failed"
  /\ row.status \in OpenStatuses /\ r \notin Unsendable => row.attempts < MaxAttempts

RowsAreSound == \A r \in Rows : Sound(r, box[r]) /\ (r \in written => Sound(r, mine[r]))

\* A run writes open rows and new ones, and takes each of them once.
OncePerRun ==
  \A r \in Rows :
    /\ r \in written => /\ box[r].status \notin Settled
                        /\ mine[r].attempts <= box[r].attempts + 1
                        /\ mine[r].status # "absent"
    /\ r \in batch => /\ View(r).status \in OpenStatuses
                      /\ View(r).attempts <= box[r].attempts
    /\ pc = "idle" => r \notin written /\ r \notin batch
    /\ pc = "reminding" => /\ r \notin batch
                           /\ r \in written => mine[r].attempts <= box[r].attempts

\* No call is made without an attempt on the row, but for those that were lost.
CallsAreCounted ==
  \A r \in Rows \ Unsendable : tries[r] <= View(r).attempts + faults

Inv == TypeOK /\ RowsAreSound /\ OncePerRun /\ CallsAreCounted

USE CountsAssumption, ChannelsAssumption

-------------------------------------------------------------------------------
LEMMA InitInv == Init => Inv
  BY DEF Init, Inv, TypeOK, OutboxRows, NewRow, Statuses, Cap, RowsAreSound, Sound, OncePerRun,
         CallsAreCounted, View, OpenStatuses, Rows, Settled

\* A row that is visible to the run is a row.
LEMMA ViewType ==
  ASSUME Inv, NEW r \in Rows
  PROVE  View(r) \in OutboxRows /\ Sound(r, View(r))
  BY DEF Inv, TypeOK, View, RowsAreSound

\* A call is one more, or the count has reached its bound.
LEMMA CountType ==
  ASSUME NEW n \in 0..Cap
  PROVE  Count(n) \in 0..Cap /\ Count(n) <= n + 1
  BY DEF Count, Cap

\* Every outcome leaves a status; a row that may be tried again has attempts left.
LEMMA AfterType ==
  ASSUME NEW r \in Rows, NEW outcome \in OutcomesOf(r), NEW attempts \in Nat
  PROVE  /\ After(outcome, attempts) \in {"sent", "abandoned", "failed"}
         /\ After(outcome, attempts) = "failed" /\ r \notin Unsendable => attempts < MaxAttempts
<1>1. CASE outcome = "ok"
  BY <1>1 DEF After
<1>2. CASE outcome = "refused"
  BY <1>2 DEF After
<1>3. CASE outcome = "failed"
  <2>1. After(outcome, attempts) = IF Spent(attempts) THEN "abandoned" ELSE "failed"
    BY <1>3 DEF After
  <2>2. QED
    BY <2>1 DEF Spent
<1>4. CASE outcome = "raised" /\ r \in Unsendable
  <2>1. After(outcome, attempts) = "failed"
    BY <1>4 DEF After
  <2>2. QED
    BY <1>4, <2>1
<1>5. QED
  BY <1>1, <1>2, <1>3, <1>4 DEF OutcomesOf

-------------------------------------------------------------------------------
LEMMA EnqueueStep ==
  ASSUME Inv, NEW r \in Rows, Enqueue(r)
  PROVE  Inv'
<1>1. /\ box' = [box EXCEPT ![r] = NewRow("pending")]
      /\ UNCHANGED <<mine, written, pc, batch, configured, tries, faults>>
      /\ View(r).status = "absent"
  BY DEF Enqueue
<1>2. r \notin written /\ r \notin batch /\ box[r].status = "absent" /\ box[r].attempts = 0
  BY <1>1 DEF Inv, OncePerRun, View, RowsAreSound, Sound, OpenStatuses
<1>3. NewRow("pending") \in OutboxRows /\ Sound(r, NewRow("pending"))
  BY DEF NewRow, OutboxRows, Statuses, Sound, OpenStatuses
<1>4. \A q \in Rows : box'[q] = IF q = r THEN NewRow("pending") ELSE box[q]
  BY <1>1 DEF Inv, TypeOK
<1>5. TypeOK' /\ RowsAreSound'
  BY <1>1, <1>3, <1>4 DEF Inv, TypeOK, RowsAreSound
<1>6. OncePerRun' /\ CallsAreCounted'
  BY <1>1, <1>2, <1>4 DEF Inv, OncePerRun, CallsAreCounted, View, NewRow
<1>7. QED
  BY <1>5, <1>6 DEF Inv

LEMMA BackoffStep ==
  ASSUME Inv, NEW r \in Rows, BackoffEnds(r)
  PROVE  Inv'
<1>1. /\ box' = [box EXCEPT ![r].backoff = FALSE]
      /\ UNCHANGED <<mine, written, pc, batch, configured, tries, faults>>
  BY DEF BackoffEnds
<1>2. box' \in [Rows -> OutboxRows]
  BY <1>1 DEF Inv, TypeOK, OutboxRows
<1>3. \A q \in Rows : /\ box'[q].status = box[q].status /\ box'[q].attempts = box[q].attempts
                      /\ q # r => box'[q] = box[q]
                      /\ q = r => box'[q].backoff = FALSE
  BY <1>1 DEF Inv, TypeOK, OutboxRows
<1>4. TypeOK' /\ RowsAreSound'
  BY <1>1, <1>2, <1>3 DEF Inv, TypeOK, RowsAreSound, Sound
<1>5. \A q \in Rows : /\ View(q)'.status = View(q).status
                      /\ View(q)'.attempts = View(q).attempts
  BY <1>1, <1>3 DEF View
<1>6. OncePerRun' /\ CallsAreCounted'
  BY <1>1, <1>3, <1>5 DEF Inv, OncePerRun, CallsAreCounted
<1>7. QED
  BY <1>4, <1>6 DEF Inv

\* Settings, the beginning of a run and a skipped row write nothing.
LEMMA QuietStep ==
  ASSUME Inv, \/ \E k \in Switchable : Switch(k)
              \/ Begin
              \/ \E r \in Rows : Skip(r)
  PROVE  Inv'
<1>1. UNCHANGED <<box, mine, written, tries, faults>>
  BY DEF Switch, Begin, Skip
<1>2. batch' \subseteq batch /\ configured' \subseteq Channels
  BY DEF Switch, Begin, Skip, Inv, TypeOK
<1>3. \/ pc' = pc
      \/ pc = "idle" /\ pc' = "reminding"
  BY DEF Switch, Begin, Skip
<1>4. TypeOK' /\ RowsAreSound' /\ CallsAreCounted'
  BY <1>1, <1>2, <1>3 DEF Inv, TypeOK, RowsAreSound, CallsAreCounted, View
<1>5. OncePerRun'
  BY <1>1, <1>2, <1>3 DEF Inv, OncePerRun, View
<1>6. QED
  BY <1>4, <1>5 DEF Inv

LEMMA ReminderStep ==
  ASSUME Inv, NEW r \in Rows, EnqueueReminder(r)
  PROVE  Inv'
<1>1. /\ mine' = [mine EXCEPT ![r] = NewRow("pending")] /\ written' = written \cup {r}
      /\ UNCHANGED <<box, pc, batch, configured, tries, faults>>
      /\ View(r).status = "absent" /\ pc = "reminding"
  BY DEF EnqueueReminder
<1>2. r \notin written /\ box[r].status = "absent" /\ box[r].attempts = 0
  BY <1>1 DEF Inv, OncePerRun, View, RowsAreSound, Sound
<1>3. NewRow("pending") \in OutboxRows /\ Sound(r, NewRow("pending"))
  BY DEF NewRow, OutboxRows, Statuses, Sound, OpenStatuses
<1>4. \A q \in Rows : mine'[q] = IF q = r THEN NewRow("pending") ELSE mine[q]
  BY <1>1 DEF Inv, TypeOK
<1>5. TypeOK' /\ RowsAreSound'
  BY <1>1, <1>3, <1>4 DEF Inv, TypeOK, RowsAreSound
<1>6. OncePerRun'
  BY <1>1, <1>2, <1>4 DEF Inv, OncePerRun, NewRow, Settled
<1>7. CallsAreCounted'
  BY <1>1, <1>2, <1>4 DEF Inv, CallsAreCounted, View, NewRow
<1>8. QED
  BY <1>5, <1>6, <1>7 DEF Inv

LEMMA ReadStep ==
  ASSUME Inv, ReadBatch
  PROVE  Inv'
<1>1. /\ pc = "reminding" /\ pc' = "sending" /\ batch' \subseteq Open
      /\ UNCHANGED <<box, mine, written, configured, tries, faults>>
  BY DEF ReadBatch, NextBatch, Oldest
<1>2. \A r \in batch' : r \in Rows /\ View(r).status \in OpenStatuses
  BY <1>1 DEF Open, OpenStatuses
<1>3. \A r \in Rows : View(r).attempts <= box[r].attempts
  BY <1>1 DEF Inv, OncePerRun, View, TypeOK, OutboxRows
<1>4. TypeOK' /\ RowsAreSound' /\ CallsAreCounted'
  BY <1>1, <1>2 DEF Inv, TypeOK, RowsAreSound, CallsAreCounted, View
<1>5. OncePerRun'
  BY <1>1, <1>2, <1>3 DEF Inv, OncePerRun, View
<1>6. QED
  BY <1>4, <1>5 DEF Inv

\* An attempt: one call more, one attempt more, and the row leaves the batch.
LEMMA AttemptStep ==
  ASSUME Inv, NEW r \in Rows, Attempt(r)
  PROVE  Inv'
<1> DEFINE n == View(r).attempts + 1
           m == IF n < MaxAttempts THEN n ELSE MaxAttempts
<1>1. PICK outcome \in OutcomesOf(r) :
        mine' = [mine EXCEPT ![r] = [status |-> After(outcome, n), attempts |-> m,
                                     backoff |-> After(outcome, n) = "failed"]]
  BY DEF Attempt
<1>2. /\ pc = "sending" /\ r \in batch
      /\ tries' = [tries EXCEPT ![r] = Count(@)] /\ written' = written \cup {r}
      /\ batch' = batch \ {r}
      /\ UNCHANGED <<box, pc, configured, faults>>
  BY DEF Attempt, NextRow
<1> DEFINE row == [status |-> After(outcome, n), attempts |-> m,
                   backoff |-> After(outcome, n) = "failed"]
<1>3. View(r) \in OutboxRows /\ Sound(r, View(r)) /\ View(r).status \in OpenStatuses
      /\ View(r).attempts <= box[r].attempts /\ box[r] \in OutboxRows
  BY <1>2, ViewType DEF Inv, OncePerRun, TypeOK
<1>4. n \in Nat /\ m \in 0..MaxAttempts /\ m <= box[r].attempts + 1
      /\ (r \notin Unsendable => m = n)
  BY <1>3 DEF OutboxRows, Sound
<1>5. /\ After(outcome, n) \in {"sent", "abandoned", "failed"}
      /\ After(outcome, n) = "failed" /\ r \notin Unsendable => n < MaxAttempts
  BY <1>4, AfterType
<1>6. row \in OutboxRows /\ Sound(r, row)
  <2> DEFINE st == After(outcome, n)
  <2>1. row.status = st /\ row.attempts = m /\ row.backoff = (st = "failed")
    OBVIOUS
  <2>2. row \in OutboxRows
    BY <1>4, <1>5 DEF OutboxRows, Statuses
  <2>3. QED
    BY <2>1, <2>2, <1>4, <1>5 DEF Sound, OpenStatuses
<1>7. \A q \in Rows : mine'[q] = IF q = r THEN row ELSE mine[q]
  BY <1>1 DEF Inv, TypeOK
<1>8. \A q \in Rows : /\ tries'[q] \in 0..Cap
                      /\ tries'[q] <= IF q = r THEN tries[q] + 1 ELSE tries[q]
  BY <1>2, CountType DEF Inv, TypeOK, Cap
<1>9. TypeOK'
  <2>1. mine' \in [Rows -> OutboxRows]
    BY <1>1, <1>6 DEF Inv, TypeOK
  <2>2. tries' \in [Rows -> 0..Cap]
    BY <1>2, <1>8 DEF Inv, TypeOK
  <2>3. QED
    BY <1>2, <2>1, <2>2 DEF Inv, TypeOK
<1>10. RowsAreSound'
  BY <1>2, <1>6, <1>7 DEF Inv, RowsAreSound
<1>11. OncePerRun'
  <2>1. box[r].status \notin Settled
    BY <1>2, <1>3 DEF Inv, OncePerRun, View, OpenStatuses, Settled
  <2>2. row.status # "absent" /\ row.attempts = m
    BY <1>5
  <2>3. QED
    BY <1>2, <1>4, <1>7, <2>1, <2>2 DEF Inv, OncePerRun, View
<1>12. CallsAreCounted'
  <2>1. ASSUME NEW q \in Rows \ Unsendable PROVE (tries[q] <= View(q).attempts + faults)'
    <3>1. CASE q = r
      <4>1. View(q)' = row /\ row.attempts = n
        BY <1>2, <1>4, <1>7, <2>1, <3>1 DEF View
      <4>2. tries[q] <= View(q).attempts + faults
        BY <2>1 DEF Inv, CallsAreCounted
      <4>3. tries'[q] <= tries[q] + 1 /\ tries'[q] \in Nat /\ tries[q] \in Nat
        BY <1>8, <3>1 DEF Inv, TypeOK, Cap
      <4>4. View(q).attempts \in Nat /\ faults \in Nat
        BY <1>3, <3>1 DEF OutboxRows, Inv, TypeOK
      <4>5. QED
        BY <1>2, <3>1, <4>1, <4>2, <4>3, <4>4
    <3>2. CASE q # r
      <4>1. View(q)' = View(q)
        BY <1>2, <1>7, <3>2 DEF View
      <4>2. tries'[q] = tries[q]
        BY <1>2, <3>2 DEF Inv, TypeOK
      <4>3. QED
        BY <1>2, <2>1, <4>1, <4>2 DEF Inv, CallsAreCounted
    <3>3. QED
      BY <3>1, <3>2
  <2>2. QED
    BY <2>1 DEF CallsAreCounted
<1>13. QED
  BY <1>9, <1>10, <1>11, <1>12 DEF Inv

\* What is left of a run that is over.
LEMMA Forgotten ==
  ASSUME Forget
  PROVE  /\ mine' \in [Rows -> OutboxRows] /\ written' = {} /\ batch' = {} /\ pc' = "idle"
         /\ \A r \in Rows : View(r)' = box'[r]
  BY DEF Forget, NewRow, OutboxRows, Statuses, View

LEMMA CommitStep ==
  ASSUME Inv, Commit
  PROVE  Inv'
<1>1. /\ box' = [r \in Rows |-> View(r)] /\ UNCHANGED <<configured, tries, faults>>
  BY DEF Commit
<1>2. TypeOK' /\ RowsAreSound'
  BY <1>1, ViewType, Forgotten DEF Commit, Inv, TypeOK, RowsAreSound
<1>3. OncePerRun'
  BY Forgotten DEF Commit, OncePerRun
<1>4. CallsAreCounted'
  BY <1>1, Forgotten DEF Commit, Inv, CallsAreCounted
<1>5. QED
  BY <1>2, <1>3, <1>4 DEF Inv

LEMMA RollbackStep ==
  ASSUME Inv, Rollback
  PROVE  Inv'
<1>1. UNCHANGED <<box, configured, tries>> /\ faults' = faults + 1 /\ faults' \in 0..MaxFaults
  BY DEF Rollback, Inv, TypeOK
<1>2. TypeOK' /\ RowsAreSound'
  BY <1>1, Forgotten DEF Rollback, Inv, TypeOK, RowsAreSound
<1>3. OncePerRun'
  BY Forgotten DEF Rollback, OncePerRun
<1>4. CallsAreCounted'
  <2>1. ASSUME NEW r \in Rows \ Unsendable PROVE tries[r] <= box[r].attempts + faults + 1
    <3>1. View(r).attempts <= box[r].attempts + 1
      BY DEF Inv, OncePerRun, View, TypeOK, OutboxRows
    <3>2. View(r).attempts \in Nat /\ box[r].attempts \in Nat /\ tries[r] \in Nat /\ faults \in Nat
      BY ViewType DEF Inv, TypeOK, OutboxRows, Cap
    <3>3. QED
      BY <3>1, <3>2 DEF Inv, CallsAreCounted
  <2>2. QED
    BY <1>1, <2>1, Forgotten DEF Rollback, CallsAreCounted, Inv, TypeOK, OutboxRows
<1>5. QED
  BY <1>2, <1>3, <1>4 DEF Inv

-------------------------------------------------------------------------------
(* The theorems *)

LEMMA NextInv == Inv /\ [Next]_vars => Inv'
<1>1. ASSUME Inv, Next PROVE Inv'
  <2>1. CASE Begin \/ (\E k \in Switchable : Switch(k)) \/ (\E r \in Rows : Skip(r))
    BY <1>1, <2>1, QuietStep
  <2>2. CASE ReadBatch
    BY <1>1, <2>2, ReadStep
  <2>3. CASE Commit
    BY <1>1, <2>3, CommitStep
  <2>4. CASE Rollback
    BY <1>1, <2>4, RollbackStep
  <2>5. ASSUME NEW r \in Rows, Enqueue(r) PROVE Inv'
    BY <1>1, <2>5, EnqueueStep
  <2>6. ASSUME NEW r \in Rows, BackoffEnds(r) PROVE Inv'
    BY <1>1, <2>6, BackoffStep
  <2>7. ASSUME NEW r \in Rows, EnqueueReminder(r) PROVE Inv'
    BY <1>1, <2>7, ReminderStep
  <2>8. ASSUME NEW r \in Rows, Attempt(r) PROVE Inv'
    BY <1>1, <2>8, AttemptStep
  <2>9. QED
    BY <1>1, <2>1, <2>2, <2>3, <2>4, <2>5, <2>6, <2>7, <2>8 DEF Next
<1>2. ASSUME Inv, UNCHANGED vars PROVE Inv'
  BY <1>2 DEF vars, Inv, TypeOK, RowsAreSound, OncePerRun, CallsAreCounted, View
<1>3. QED
  BY <1>1, <1>2

\* A run takes every row once, and a call leaves its attempt on the row.
THEOREM OutboxInvariant == Spec => []Inv
<1>1. QED
  BY InitInv, NextInv, PTL DEF Spec

\* Every reachable state of the outbox is well typed.
THEOREM OutboxTypeCorrect == Spec => []TypeOK
<1>1. Inv => TypeOK
  BY DEF Inv
<1>2. QED
  BY <1>1, OutboxInvariant, PTL

\* A channel is called for a row at most delivery_max_attempts times, and once
\* more for each run that was rolled back.
THEOREM TriesStayBounded == Spec => []TriesAreBounded
<1>1. Inv => TriesAreBounded
  <2>1. SUFFICES ASSUME Inv, NEW r \in Rows \ Unsendable PROVE tries[r] <= MaxAttempts + faults
    BY DEF TriesAreBounded
  <2>2. View(r).attempts \in 0..MaxAttempts
    BY <2>1, ViewType DEF OutboxRows
  <2>3. tries[r] \in Nat /\ faults \in Nat
    BY <2>1 DEF Inv, TypeOK, Cap
  <2>4. tries[r] <= View(r).attempts + faults
    BY <2>1 DEF Inv, CallsAreCounted
  <2>5. QED
    BY <2>2, <2>3, <2>4
<1>2. QED
  BY <1>1, OutboxInvariant, PTL

\* No step, crashes and commits included, touches a row that was sent or given up.
THEOREM SettledRowsStay == Spec => SettledStaysSettled
<1> DEFINE Stays == \A r \in Rows : box[r].status \in Settled =>
                      box'[r] = box[r] /\ tries'[r] = tries[r]
<1>1. Inv /\ [Next]_vars => [Stays]_vars
  <2>1. SUFFICES ASSUME Inv, Next, NEW q \in Rows, box[q].status \in Settled
                 PROVE  box'[q] = box[q] /\ tries'[q] = tries[q]
    BY DEF vars
  <2>2. q \notin written /\ q \notin batch /\ View(q) = box[q]
        /\ ~box[q].backoff /\ box[q].status # "absent"
    BY <2>1 DEF Inv, OncePerRun, View, RowsAreSound, Sound, Settled, OpenStatuses
  <2>3. ASSUME NEW r \in Rows, Enqueue(r) \/ BackoffEnds(r) PROVE box'[q] = box[q] /\ tries'[q] = tries[q]
    BY <2>1, <2>2, <2>3 DEF Enqueue, BackoffEnds, Inv, TypeOK
  <2>4. ASSUME NEW r \in Rows, EnqueueReminder(r) \/ Skip(r) PROVE box'[q] = box[q] /\ tries'[q] = tries[q]
    BY <2>4 DEF EnqueueReminder, Skip
  <2>5. ASSUME NEW r \in Rows, Attempt(r) PROVE box'[q] = box[q] /\ tries'[q] = tries[q]
    <3>1. r \in batch /\ box' = box /\ tries' = [tries EXCEPT ![r] = Count(@)]
      BY <2>5 DEF Attempt, NextRow
    <3>2. QED
      BY <2>1, <2>2, <3>1 DEF Inv, TypeOK
  <2>6. CASE Commit
    BY <2>2, <2>6 DEF Commit
  <2>7. CASE Begin \/ ReadBatch \/ Rollback \/ \E k \in Switchable : Switch(k)
    BY <2>7 DEF Begin, ReadBatch, Rollback, Switch
  <2>8. QED
    BY <2>1, <2>3, <2>4, <2>5, <2>6, <2>7 DEF Next
<1>2. QED
  BY <1>1, OutboxInvariant, PTL DEF Spec, SettledStaysSettled
===============================================================================

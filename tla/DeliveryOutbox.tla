---------------------------- MODULE DeliveryOutbox ----------------------------
(***************************************************************************)
(* The outbox of the messages that leave the system.  A handler queues a   *)
(* row in the transaction of its event; the run that holds the lock of     *)
(* ScheduledSweeps queues the rows of its reminders, reads the oldest      *)
(* rows, hands them to the channels one after another and commits all of   *)
(* it at the end.  A message is out when its provider has it, whatever     *)
(* becomes of the transaction.  Time is the end of a row's backoff.        *)
(* Sources: services/delivery.py, services/channels.                       *)
(***************************************************************************)
EXTENDS Naturals, FiniteSets

CONSTANTS
  N,           \* the rows are 1..N in the order of created_at
  Channels,    \* email and SMS
  ChannelOf,   \* ChannelOf[r]: the channel of a row
  Switchable,  \* the channels somebody switches on and off in the panel
  Unsendable,  \* rows on which a channel raises something else than DeliveryError
  Batch,       \* delivery_batch_size
  Candidates,  \* the LIMIT of the query, four batches in the code
  MaxAttempts, \* delivery_max_attempts
  MaxFaults    \* bound on the crashes and rollbacks of a run

Rows == 1..N

ASSUME CountsAssumption ==
  /\ N \in Nat /\ MaxFaults \in Nat
  /\ Batch \in Nat \ {0} /\ Candidates \in Nat \ {0} /\ MaxAttempts \in Nat \ {0}
ASSUME ChannelsAssumption ==
  /\ ChannelOf \in [Rows -> Channels]
  /\ Switchable \subseteq Channels /\ Unsendable \subseteq Rows

VARIABLES
  box,         \* box[r]: the row as committed
  mine,        \* mine[r]: the row as the running sweep has written it
  written,     \* the rows the running sweep has written and not committed
  pc,          \* how far the run has come
  batch,       \* the rows it still has to hand out
  configured,  \* the channels with complete settings
  tries,       \* tries[r]: how often a channel was called for r
  faults       \* crashes and rollbacks so far

vars == <<box, mine, written, pc, batch, configured, tries, faults>>

Statuses == {"absent", "pending", "failed", "sent", "abandoned"}
Settled  == {"sent", "abandoned"}

\* backoff: last_attempt_at plus _retry_delay is still ahead.  The count of
\* attempts is compared with MaxAttempts only and stops there.
OutboxRows == [status : Statuses, attempts : 0..MaxAttempts, backoff : BOOLEAN]
NewRow(status) == [status |-> status, attempts |-> 0, backoff |-> FALSE]

\* Where the count of the calls stops.
Cap == MaxAttempts + MaxFaults + 1
Count(n) == IF n < Cap THEN n + 1 ELSE n

TypeOK ==
  /\ box \in [Rows -> OutboxRows]
  /\ mine \in [Rows -> OutboxRows]
  /\ written \subseteq Rows
  /\ pc \in {"idle", "reminding", "sending"}
  /\ batch \subseteq Rows
  /\ configured \subseteq Channels
  /\ tries \in [Rows -> 0..Cap]
  /\ faults \in 0..MaxFaults

Init ==
  /\ box = [r \in Rows |-> NewRow("absent")]
  /\ mine = box
  /\ written = {} /\ pc = "idle" /\ batch = {}
  /\ configured = Channels
  /\ tries = [r \in Rows |-> 0]
  /\ faults = 0

\* What the running sweep reads: its own writes, and what others committed.
View(r) == IF r \in written THEN mine[r] ELSE box[r]

-------------------------------------------------------------------------------
(* Around the sweep *)

\* enqueue_for in the transaction of a handler; only for a configured channel.
Enqueue(r) ==
  /\ View(r).status = "absent" /\ ChannelOf[r] \in configured
  /\ box' = [box EXCEPT ![r] = NewRow("pending")]
  /\ UNCHANGED <<mine, written, pc, batch, configured, tries, faults>>

\* _retry_delay has passed since the last attempt.
BackoffEnds(r) ==
  /\ box[r].backoff
  /\ box' = [box EXCEPT ![r].backoff = FALSE]
  /\ UNCHANGED <<mine, written, pc, batch, configured, tries, faults>>

\* The settings of a channel are completed or cleared in the panel.
Switch(k) ==
  /\ configured' = IF k \in configured THEN configured \ {k} ELSE configured \cup {k}
  /\ UNCHANGED <<box, mine, written, pc, batch, tries, faults>>

-------------------------------------------------------------------------------
(* The sweep *)

\* The run has the lock and begins with the reminders.
Begin ==
  /\ pc = "idle"
  /\ pc' = "reminding"
  /\ UNCHANGED <<box, mine, written, batch, configured, tries, faults>>

\* A reminder queues its row in the transaction of the run.
EnqueueReminder(r) ==
  /\ pc = "reminding"
  /\ View(r).status = "absent" /\ ChannelOf[r] \in configured
  /\ mine' = [mine EXCEPT ![r] = NewRow("pending")]
  /\ written' = written \cup {r}
  /\ UNCHANGED <<box, pc, batch, configured, tries, faults>>

\* Mutant: the filter on status is dropped.
EveryRow == {r \in Rows : View(r).status # "absent"}

Open == {r \in Rows : View(r).status \in {"pending", "failed"}}

\* The n oldest of a set of rows.
Oldest(S, n) == {r \in S : Cardinality({q \in S : q < r}) < n}

\* Mutant: the backoff is compared the other way round.
DueInBackoff(r) == View(r).attempts = 0 \/ View(r).backoff

\* _is_due
Due(r) == ~View(r).backoff

\* The query with its LIMIT, the filter on the backoff, then the batch.
NextBatch == Oldest({r \in Oldest(Open, Candidates) : Due(r)}, Batch)

\* The head of run_delivery_sweep; without any channel it returns at once.
ReadBatch ==
  /\ pc = "reminding"
  /\ pc' = "sending"
  /\ batch' = IF configured = {} THEN {} ELSE NextBatch
  /\ UNCHANGED <<box, mine, written, configured, tries, faults>>

\* The loop takes the batch in its order.
NextRow(r) == /\ pc = "sending" /\ r \in batch
              /\ \A q \in batch : r <= q

\* channel_for is None: the row is left as it is.
Skip(r) ==
  /\ NextRow(r) /\ ChannelOf[r] \notin configured
  /\ batch' = batch \ {r}
  /\ UNCHANGED <<box, mine, written, pc, configured, tries, faults>>

\* Mutant: one attempt too many.
SpentTooLate(attempts) == attempts > MaxAttempts

\* attempts >= delivery_max_attempts
Spent(attempts) == attempts >= MaxAttempts

\* What the outcome of channel.send makes of the row.  After "failed", and after
\* an exception of another kind than DeliveryError, the provider may still have
\* taken the message: its answer can be lost.
After(outcome, attempts) ==
  CASE outcome = "ok" -> "sent"
    [] outcome = "refused" -> "abandoned"
    [] outcome = "failed" -> IF Spent(attempts) THEN "abandoned" ELSE "failed"
    [] outcome = "raised" -> "failed"

\* The outcomes a channel can have for a row.
OutcomesOf(r) ==
  {"ok", "refused", "failed"} \cup (IF r \in Unsendable THEN {"raised"} ELSE {})

\* One pass of the loop of run_delivery_sweep.
Attempt(r) ==
  /\ NextRow(r) /\ ChannelOf[r] \in configured
  /\ \E outcome \in OutcomesOf(r) :
       LET attempts == View(r).attempts + 1
           status == After(outcome, attempts)
       IN mine' = [mine EXCEPT ![r] =
                     [status |-> status,
                      attempts |-> IF attempts < MaxAttempts THEN attempts ELSE MaxAttempts,
                      backoff |-> status = "failed"]]
  /\ tries' = [tries EXCEPT ![r] = Count(@)]
  /\ written' = written \cup {r}
  /\ batch' = batch \ {r}
  /\ UNCHANGED <<box, pc, configured, faults>>

\* What is kept of the writes of the run: mine is used where written says so.
Forget ==
  /\ mine' = [r \in Rows |-> NewRow("absent")]
  /\ written' = {} /\ batch' = {} /\ pc' = "idle"

\* The commit at the end of run_all_sweeps.
Commit ==
  /\ pc = "sending" /\ batch = {}
  /\ box' = [r \in Rows |-> View(r)]
  /\ Forget
  /\ UNCHANGED <<configured, tries, faults>>

\* The process dies or the run rolls back: the calls it has made stay made.
Rollback ==
  /\ pc # "idle" /\ faults < MaxFaults
  /\ faults' = faults + 1
  /\ Forget
  /\ UNCHANGED <<box, configured, tries>>

-------------------------------------------------------------------------------
SweepStep ==
  \/ Begin \/ ReadBatch \/ Commit
  \/ \E r \in Rows : Skip(r) \/ Attempt(r)

Next ==
  \/ Begin \/ ReadBatch \/ Commit \/ Rollback
  \/ \E r \in Rows :
       Enqueue(r) \/ BackoffEnds(r) \/ EnqueueReminder(r) \/ Skip(r) \/ Attempt(r)
  \/ \E k \in Switchable : Switch(k)

\* Runs follow one another and go on once begun (ScheduledSweeps), and time passes.
Fairness ==
  /\ WF_vars(SweepStep)
  /\ \A r \in Rows : WF_vars(BackoffEnds(r))

Spec == Init /\ [][Next]_vars /\ Fairness

-------------------------------------------------------------------------------
\* Once its row is committed as sent or abandoned, no channel is called for a
\* message again, and the row stays what it is.
SettledStaysSettled ==
  [][\A r \in Rows : box[r].status \in Settled =>
       box'[r] = box[r] /\ tries'[r] = tries[r]]_vars

\* Short of an unexpected exception a channel is called for a row no more often
\* than the settings allow, and once more for every run that was rolled back.
TriesAreBounded ==
  \A r \in Rows \ Unsendable : tries[r] <= MaxAttempts + faults

\* Rows that stay in the queue untouched, or tried again for ever.
Clogging ==
  {r \in Rows : /\ box[r].status \in {"pending", "failed"}
                /\ ChannelOf[r] \notin configured \/ r \in Unsendable}

IsSettled(r) == box[r].status \in {"pending", "failed"} ~> box[r].status \in Settled

\* run_delivery_sweep: a queued row of a channel that stays on is sent or given up in
\* the end, for all the failures, backoffs and younger or older rows around it, once
\* the rows that nothing settles no longer fill a batch.  While they do, they are taken
\* first and the others never.
RowsAreSettled ==
  <>[](Cardinality(Clogging) < Batch) =>
    \A r \in Rows \ Unsendable : ChannelOf[r] \notin Switchable => IsSettled(r)
===============================================================================

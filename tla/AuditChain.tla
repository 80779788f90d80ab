------------------------------ MODULE AuditChain ------------------------------
(***************************************************************************)
(* Calls that write the audit log.  A call is one transaction: it may lock *)
(* its case first (the transitions do) or only read it, changes cases in   *)
(* memory, and logs.  Logging takes a lock of the database that is held to *)
(* the end of the transaction, reads the last row and sends what the call  *)
(* has pending: the cases it has changed, then the row, whose hash covers  *)
(* the hash of the row before it.  A hash is the sequence of everything it *)
(* covers.  Sources: services/audit.py, models/audit_log.py, migration     *)
(* e8f4b127d905, db/session.py.                                            *)
(***************************************************************************)
EXTENDS Naturals, Sequences, FiniteSets

CONSTANTS
  None,
  Transactions,  \* the calls
  Cases,
  Legacy,        \* the events logged before the migration, in their order
  MaxEvents      \* bound on the events of one call

Events == [tx : Transactions \cup {None}, about : Cases \cup {None}]

ASSUME NoneAssumption == None \notin Transactions \cup Cases
ASSUME LegacyAssumption == Legacy \in Seq([tx : {None}, about : Cases \cup {None}])
ASSUME BoundAssumption == MaxEvents \in Nat

VARIABLES
  rows,       \* the rows of audit_log, those of open transactions too
  nextId,     \* the sequence that numbers them; nothing turns it back
  chainLock,  \* the transaction that holds the lock of the chain, or None
  locks,      \* the locks on rows of evaluation_records
  tx          \* tx[t]: how far a transaction is

vars == <<rows, nextId, chainLock, locks, tx>>

Hashes == Seq(Events)
Genesis == <<>>
compute_hash(event, prev) == Append(prev, event)

Rows == [id : Nat, event : Events, prev : Hashes, hash : Hashes]
Locks == [tx : Transactions, case : Cases, mode : {"update", "no key", "key share"}]
Phases == {"idle", "open", "lock", "chain", "read", "flush", "commit", "done", "aborted"}

\* about: the case a statement or an event is about; prev: the hash read;
\* dirty: changed cases that are not sent; events: how many it has logged.
Handlers == [phase : Phases, about : Cases \cup {None}, prev : Hashes,
             dirty : SUBSET Cases, events : Nat]

Ended(t) == tx[t].phase \in {"done", "aborted"}
Open(t) == tx[t].phase \notin {"idle", "done", "aborted"}

TypeOK ==
  /\ rows \in SUBSET Rows
  /\ nextId \in Nat
  /\ chainLock # None => chainLock \in Transactions /\ Open(chainLock)
  /\ locks \in SUBSET Locks
  /\ tx \in [Transactions -> Handlers]

\* The migration chains the rows there are, in the order of their ids.
Backfilled ==
  {[id |-> n, event |-> Legacy[n], prev |-> SubSeq(Legacy, 1, n - 1),
    hash |-> SubSeq(Legacy, 1, n)] : n \in 1..Len(Legacy)}

Init ==
  /\ rows = Backfilled
  /\ nextId = Len(Legacy) + 1
  /\ chainLock = None
  /\ locks = {}
  /\ tx = [t \in Transactions |->
             [phase |-> "idle", about |-> None, prev |-> Genesis, dirty |-> {}, events |-> 0]]

-------------------------------------------------------------------------------
(* The database *)

\* Rows are visible to their own transaction, and to all when it has committed.
Committed == {r \in rows : r.event.tx = None \/ tx[r.event.tx].phase = "done"}
Visible(t) == Committed \cup {r \in rows : r.event.tx = t}

\* The statement in flight asks for a lock on a row: SELECT FOR UPDATE, the UPDATE
\* of a changed case, or the foreign key of the new row of the log.
Asks(t) ==
  IF tx[t].phase = "lock" THEN [tx |-> t, case |-> tx[t].about, mode |-> "update"]
  ELSE IF tx[t].dirty = {} THEN [tx |-> t, case |-> tx[t].about, mode |-> "key share"]
  ELSE [tx |-> t, case |-> CHOOSE c \in tx[t].dirty : TRUE, mode |-> "no key"]

Conflict(m, n) ==
  \/ "update" \in {m, n}
  \/ m = "no key" /\ n = "no key"

\* Those a transaction waits for.
Blockers(t) ==
  IF tx[t].phase = "chain" THEN {chainLock} \ {None, t}
  ELSE IF tx[t].phase \in {"lock", "flush", "commit"}
       THEN {l.tx : l \in {k \in locks : /\ k.tx # t
                                         /\ k.case = Asks(t).case
                                         /\ Conflict(k.mode, Asks(t).mode)}}
       ELSE {}

\* A set of transactions each of which waits for another of the set.
Knot(S) == S # {} /\ \A t \in S : Blockers(t) \cap S # {}

\* On a cycle of waits: a knot that holds no smaller one.
Deadlocked(t) ==
  \E S \in SUBSET Transactions :
    t \in S /\ Knot(S) /\ \A R \in SUBSET S : Knot(R) => R = S

\* Mutant: log_event without the lock.
AnyChain(t) == TRUE

\* pg_advisory_xact_lock: who asks gets it when it is free or already theirs.
MayChain(t) == chainLock \in {None, t}

\* Mutant: pg_advisory_lock, which a session keeps beyond its transaction.
KeptBySession(t) == chainLock

\* What the end of a transaction leaves of the lock.
Freed(t) == IF chainLock = t THEN None ELSE chainLock

\* Mutant: the lock is given back when log_event returns.
GivenBack(t) == IF chainLock = t THEN None ELSE chainLock

\* The lock after the row of an event is sent.
AfterInsert(t) == chainLock

-------------------------------------------------------------------------------
(* A call *)

Goes(t, fields) == tx' = [tx EXCEPT ![t] = fields]

\* get_db
Begin(t) ==
  /\ tx[t].phase = "idle"
  /\ Goes(t, [tx[t] EXCEPT !.phase = "open"])
  /\ UNCHANGED <<rows, nextId, chainLock, locks>>

\* _get_record_or_404_for_update, before anything else the call does.
AskCase(t) == \E c \in Cases :
  /\ tx[t].phase = "open" /\ tx[t].events = 0 /\ tx[t].dirty = {}
  /\ \A l \in locks : l.tx # t
  /\ Goes(t, [tx[t] EXCEPT !.phase = "lock", !.about = c])
  /\ UNCHANGED <<rows, nextId, chainLock, locks>>

LockCase(t) ==
  /\ tx[t].phase = "lock" /\ Blockers(t) = {}
  /\ locks' = locks \cup {Asks(t)}
  /\ Goes(t, [tx[t] EXCEPT !.phase = "open"])
  /\ UNCHANGED <<rows, nextId, chainLock>>

\* A change of a case the call has read, with or without its lock.  Autoflush is
\* off: nothing is sent before the next log_event or the commit.
Change(t) == \E c \in Cases \ tx[t].dirty :
  /\ tx[t].phase = "open" /\ tx[t].events < MaxEvents
  /\ Goes(t, [tx[t] EXCEPT !.dirty = @ \cup {c}])
  /\ UNCHANGED <<rows, nextId, chainLock, locks>>

AskChain(t) == \E c \in Cases \cup {None} :
  /\ tx[t].phase = "open" /\ tx[t].events < MaxEvents
  /\ Goes(t, [tx[t] EXCEPT !.phase = "chain", !.about = c, !.events = @ + 1])
  /\ UNCHANGED <<rows, nextId, chainLock, locks>>

TakeChain(t) ==
  /\ tx[t].phase = "chain" /\ MayChain(t)
  /\ chainLock' = t
  /\ Goes(t, [tx[t] EXCEPT !.phase = "read"])
  /\ UNCHANGED <<rows, nextId, locks>>

\* The row with the greatest id, and the hash a row behind S continues.
LastOf(S) == CHOOSE r \in S : \A q \in S : q.id <= r.id
HashAfter(S) == IF S = {} THEN Genesis ELSE LastOf(S).hash

\* _last_hash, and the row built on it in memory.
ReadLast(t) ==
  /\ tx[t].phase = "read"
  /\ Goes(t, [tx[t] EXCEPT !.phase = "flush", !.prev = HashAfter(Visible(t))])
  /\ UNCHANGED <<rows, nextId, chainLock, locks>>

\* The UPDATE of a changed case, by a flush or by the commit.
SendCase(t) ==
  /\ tx[t].phase \in {"flush", "commit"} /\ tx[t].dirty # {} /\ Blockers(t) = {}
  /\ locks' = locks \cup {Asks(t)}
  /\ Goes(t, [tx[t] EXCEPT !.dirty = @ \ {Asks(t).case}])
  /\ UNCHANGED <<rows, nextId, chainLock>>

\* The INSERT of the row: its id is drawn here, its foreign key holds the case.
SendRow(t) ==
  /\ tx[t].phase = "flush" /\ tx[t].dirty = {} /\ Blockers(t) = {}
  /\ LET e == [tx |-> t, about |-> tx[t].about] IN
     rows' = rows \cup {[id |-> nextId, event |-> e, prev |-> tx[t].prev,
                         hash |-> compute_hash(e, tx[t].prev)]}
  /\ nextId' = nextId + 1
  /\ chainLock' = AfterInsert(t)
  /\ locks' = IF tx[t].about = None THEN locks ELSE locks \cup {Asks(t)}
  /\ Goes(t, [tx[t] EXCEPT !.phase = "open"])

AskCommit(t) ==
  /\ tx[t].phase = "open"
  /\ Goes(t, [tx[t] EXCEPT !.phase = "commit"])
  /\ UNCHANGED <<rows, nextId, chainLock, locks>>

Ends(t, phase) ==
  /\ Goes(t, [tx[t] EXCEPT !.phase = phase, !.dirty = {}])
  /\ chainLock' = Freed(t)
  /\ locks' = {l \in locks : l.tx # t}
  /\ UNCHANGED nextId

Commit(t) ==
  /\ tx[t].phase = "commit" /\ tx[t].dirty = {}
  /\ Ends(t, "done")
  /\ UNCHANGED rows

Rollback(t) ==
  /\ Ends(t, "aborted")
  /\ rows' = {r \in rows : r.event.tx # t}

\* An exception in the handler, or the end of its process.
Fail(t) == Open(t) /\ Rollback(t)

\* PostgreSQL ends a cycle of waits by an error in one of them.
BreakDeadlock(t) == Deadlocked(t) /\ Rollback(t)

\* What a call does when its statements are answered.
Step(t) ==
  \/ AskCase(t) \/ LockCase(t) \/ Change(t)
  \/ AskChain(t) \/ TakeChain(t) \/ ReadLast(t)
  \/ SendCase(t) \/ SendRow(t) \/ AskCommit(t) \/ Commit(t)

Next == \E t \in Transactions : Begin(t) \/ Step(t) \/ Fail(t) \/ BreakDeadlock(t)

\* The server runs what it has begun, the database breaks what is deadlocked.
Fairness == \A t \in Transactions : WF_vars(Step(t)) /\ WF_vars(BreakDeadlock(t))

Spec == Init /\ [][Next]_vars
FairSpec == Spec /\ Fairness
-------------------------------------------------------------------------------
(* Properties *)

\* verify_chain: the rows whose link or whose hash is not the recomputed one.
Below(r, S) == {q \in S : q.id < r.id}
Broken(S) == {r \in S : \/ r.prev # HashAfter(Below(r, S))
                        \/ r.hash # compute_hash(r.event, r.prev)}

\* Whatever overlaps, fails or is rolled back, /integrity finds the committed
\* log whole: no two rows continue one row and no row is missing behind another.
ChainVerifies == Broken(Committed) = {}

\* The entries a reader sees, in the order of their ids.
Entries ==
  [n \in 1..Cardinality(Committed) |->
     (CHOOSE r \in Committed : Cardinality(Below(r, Committed)) = n - 1).event]

\* The chain implements a log that grows at its end by whole calls: no call's
\* entries surface between or before entries that were already there.
Log == INSTANCE EventLog WITH entries <- Entries
ImplementsLog == Log!Spec

\* The lock of the chain, the locks of cases and the foreign keys are taken in
\* different orders by different handlers; still every call comes to an end.
CallsEnd == \A t \in Transactions : Open(t) ~> Ended(t)
===============================================================================

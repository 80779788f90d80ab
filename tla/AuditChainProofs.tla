--------------------------- MODULE AuditChainProofs ---------------------------
(***************************************************************************)
(* The chain verifies whatever the calls are and however they overlap.     *)
(* The rows that are not committed are all of the holder of the lock and   *)
(* lie behind the committed ones (Behind), so the row that a call reads as *)
(* the last one is the last of all rows (Prev), its own row continues it,  *)
(* and a rollback takes rows off the end only.  The rows are also numbered *)
(* by the length of their hashes (Numbered), so the entries a reader sees  *)
(* are what the last committed hash covers, and a commit extends them: the *)
(* chain implements EventLog.                                              *)
(***************************************************************************)
EXTENDS AuditChain, SequenceTheorems, FiniteSetTheorems, TLAPS

HasLast(S) == S = {} \/ \E r \in S : \A q \in S : q.id <= r.id

Ids == /\ \A r \in rows : r.id < nextId
       /\ \A q, r \in rows : q.id = r.id => q = r
Own == \A r \in rows : r \in Committed \/ r.event.tx = chainLock
Behind == \A r \in rows, q \in Committed : r \notin Committed => q.id < r.id
Held == \A t \in Transactions : tx[t].phase \in {"read", "flush"} => chainLock = t
Prev == \A t \in Transactions : tx[t].phase = "flush" => tx[t].prev = HashAfter(rows)
Lasts == HasLast(rows) /\ HasLast(Committed)
Whole == Broken(rows) = {}
Asking == \A t \in Transactions : tx[t].phase = "lock" => tx[t].about # None

Inv == TypeOK /\ Asking /\ Ids /\ Own /\ Behind /\ Held /\ Prev /\ Lasts /\ Whole

-------------------------------------------------------------------------------
(* Lemmas *)

\* The hash behind a set of rows that has a last one is a hash.
LEMMA HashAfterType ==
  ASSUME NEW S \in SUBSET Rows, HasLast(S)
  PROVE HashAfter(S) \in Hashes
<1>1. CASE S = {}
  BY <1>1 DEF HashAfter, Genesis, Hashes
<1>2. CASE S # {}
  <2>1. PICK r \in S : \A q \in S : q.id <= r.id
    BY <1>2 DEF HasLast
  <2>2. LastOf(S) \in S
    BY <2>1 DEF LastOf
  <2> QED BY <1>2, <2>2 DEF HashAfter, Rows
<1> QED BY <1>1, <1>2

\* Who holds the lock of the chain sees all rows.
LEMMA HolderSeesAll ==
  ASSUME Own, NEW t, chainLock = t
  PROVE Visible(t) = rows
BY DEF Own, Visible, Committed

\* The committed part of a whole log is whole: what is not committed lies behind.
LEMMA CommittedWhole ==
  ASSUME Own, Behind, Whole, NEW S, S \subseteq rows,
         \A r \in S, q \in rows : q \notin S => ~(q.id < r.id)
  PROVE Broken(S) = {}
<1>1. ASSUME NEW r \in S
      PROVE Below(r, S) = Below(r, rows)
  BY <1>1 DEF Below
<1> QED BY <1>1 DEF Whole, Broken

\* A step of one call that touches no row, and ends nothing.
LEMMA QuietStep ==
  ASSUME Inv, NEW t \in Transactions, NEW h \in Handlers,
         tx' = [tx EXCEPT ![t] = h], UNCHANGED <<rows, nextId>>,
         tx[t].phase # "done", h.phase \notin {"idle", "done", "aborted"},
         chainLock' \in {chainLock, t}, chainLock' # chainLock => MayChain(t),
         locks' \in SUBSET Locks, h.phase = "lock" => h.about # None,
         h.phase \in {"read", "flush"} => chainLock' = t,
         h.phase = "flush" => h.prev = HashAfter(rows)
  PROVE Inv'
<1> USE DEF Inv
<1>t. tx \in [Transactions -> Handlers] /\ t \in DOMAIN tx /\ h \in [phase : Phases, about : Cases \cup {None}, prev : Hashes, dirty : SUBSET Cases, events : Nat]
  BY DEF TypeOK, Handlers
<1>p. /\ tx'[t] = h
      /\ \A u \in Transactions : u # t => tx'[u] = tx[u]
      /\ tx' \in [Transactions -> Handlers]
  BY <1>t
<1>d. \A u \in Transactions : tx'[u].phase = "done" <=> tx[u].phase = "done"
  BY <1>p
<1>r. \A r \in rows : r.event.tx \in Transactions \cup {None}
  BY DEF TypeOK, Rows, Events
<1>c. Committed' = Committed
  BY <1>d, <1>r DEF Committed
<1>k. chainLock' = chainLock \/ (chainLock = None /\ chainLock' = t)
  BY DEF MayChain
<1>1. TypeOK'
  <2>1. chainLock' # None => chainLock' \in Transactions /\ Open(chainLock)'
    <3>1. CASE chainLock' = t
      BY <3>1, <1>p DEF Open
    <3>2. CASE chainLock' # t
      BY <3>2, <1>p DEF TypeOK, Open
    <3> QED BY <3>1, <3>2
  <2> QED BY <2>1, <1>p DEF TypeOK
<1>2. Ids' /\ Whole'
  <2>1. Ids'
    BY DEF Ids
  <2>2. Whole'
    BY DEF Whole
  <2> QED BY <2>1, <2>2
<1>3. Own'
  <2>1. ASSUME NEW r \in rows, r \notin Committed
        PROVE r.event.tx = chainLock'
    <3>1. r.event.tx = chainLock /\ r.event.tx # None
      BY <2>1 DEF Own, Committed
    <3> QED BY <3>1, <1>k
  <2> QED BY <2>1, <1>c DEF Own
<1>4. Behind' /\ Lasts'
  BY <1>c DEF Behind, Lasts, HasLast
<1>5. Held'
  <2>1. ASSUME NEW u \in Transactions, tx'[u].phase \in {"read", "flush"}
        PROVE chainLock' = u
    <3>1. CASE u = t
      BY <3>1, <2>1, <1>p
    <3>2. CASE u # t
      <4>1. chainLock = u
        BY <3>2, <2>1, <1>p DEF Held
      <4> QED BY <4>1, <1>k, NoneAssumption
    <3> QED BY <3>1, <3>2
  <2> QED BY <2>1 DEF Held
<1>6. Prev' /\ Asking'
  BY <1>p DEF Prev, Asking
<1> QED BY <1>1, <1>2, <1>3, <1>4, <1>5, <1>6

\* The lock a statement asks for is a lock on a row.
LEMMA AsksType ==
  ASSUME TypeOK, NEW t \in Transactions,
         tx[t].phase = "lock" => tx[t].about # None,
         tx[t].about # None \/ tx[t].dirty # {}
  PROVE Asks(t) \in Locks
<1>0. tx[t].about \in Cases \cup {None} /\ tx[t].dirty \in SUBSET Cases
  BY DEF TypeOK, Handlers
<1>1. CASE tx[t].phase = "lock"
  BY <1>0, <1>1 DEF Asks, Locks
<1>2. CASE tx[t].phase # "lock" /\ tx[t].dirty # {}
  <2>1. (CHOOSE c \in tx[t].dirty : TRUE) \in Cases
    BY <1>2, <1>0
  <2> QED BY <2>1, <1>2 DEF Asks, Locks
<1>3. CASE tx[t].phase # "lock" /\ tx[t].dirty = {}
  BY <1>0, <1>3 DEF Asks, Locks
<1> QED BY <1>1, <1>2, <1>3
-------------------------------------------------------------------------------
(* Initial states and steps *)

LEMMA InitInv == Init => Inv
<1> SUFFICES ASSUME Init PROVE Inv
  OBVIOUS
<1> USE DEF Init
<1>0. /\ Legacy \in Seq(Events) /\ Len(Legacy) \in Nat
      /\ \A n \in 1..Len(Legacy) : Legacy[n] \in Events /\ Legacy[n].tx = None
  <2>1. Len(Legacy) \in Nat /\ Legacy \in [1..Len(Legacy) -> [tx : {None}, about : Cases \cup {None}]]
    BY LegacyAssumption, LenProperties
  <2>2. \A n \in 1..Len(Legacy) : Legacy[n] \in Events /\ Legacy[n].tx = None
    <3>1. \A e \in [tx : {None}, about : Cases \cup {None}] : e \in Events /\ e.tx = None
      BY DEF Events
    <3> QED BY <2>1, <3>1
  <2>3. Legacy \in [1..Len(Legacy) -> Events]
    BY <2>1, <2>2
  <2> QED BY <2>1, <2>2, <2>3
<1>1. \A n \in 1..Len(Legacy) :
        /\ SubSeq(Legacy, 1, n) \in Seq(Events)
        /\ SubSeq(Legacy, 1, n - 1) \in Seq(Events)
        /\ SubSeq(Legacy, 1, n) = Append(SubSeq(Legacy, 1, n - 1), Legacy[n])
  <2> SUFFICES ASSUME NEW n \in 1..Len(Legacy)
               PROVE /\ SubSeq(Legacy, 1, n) \in Seq(Events)
                     /\ SubSeq(Legacy, 1, n - 1) \in Seq(Events)
                     /\ SubSeq(Legacy, 1, n) = Append(SubSeq(Legacy, 1, n - 1), Legacy[n])
    OBVIOUS
  <2>1. \A i \in 1..n : i \in 1..Len(Legacy)
    BY <1>0
  <2>2. /\ SubSeq(Legacy, 1, n) \in Seq(Events)
        /\ Len(SubSeq(Legacy, 1, n)) = n
        /\ \A i \in 1..n : SubSeq(Legacy, 1, n)[i] = Legacy[i]
    BY <1>0, <2>1
  <2>3. /\ SubSeq(Legacy, 1, n - 1) \in Seq(Events)
        /\ Len(SubSeq(Legacy, 1, n - 1)) = n - 1
        /\ \A i \in 1..(n - 1) : SubSeq(Legacy, 1, n - 1)[i] = Legacy[i]
    BY <1>0, <2>1
  <2>4. Append(SubSeq(Legacy, 1, n - 1), Legacy[n]) \in Seq(Events)
        /\ Len(Append(SubSeq(Legacy, 1, n - 1), Legacy[n])) = n
        /\ \A i \in 1..n : Append(SubSeq(Legacy, 1, n - 1), Legacy[n])[i] = Legacy[i]
    BY <2>3, <1>0
  <2> QED BY <2>2, <2>3, <2>4, SeqEqual
<1>r. \A r \in rows : \E n \in 1..Len(Legacy) :
        /\ r.id = n /\ r.event = Legacy[n]
        /\ r.prev = SubSeq(Legacy, 1, n - 1) /\ r.hash = SubSeq(Legacy, 1, n)
  <2> SUFFICES ASSUME NEW r \in Backfilled
               PROVE \E n \in 1..Len(Legacy) :
                       /\ r.id = n /\ r.event = Legacy[n]
                       /\ r.prev = SubSeq(Legacy, 1, n - 1) /\ r.hash = SubSeq(Legacy, 1, n)
    OBVIOUS
  <2>1. PICK n \in 1..Len(Legacy) :
          r = [id |-> n, event |-> Legacy[n], prev |-> SubSeq(Legacy, 1, n - 1),
               hash |-> SubSeq(Legacy, 1, n)]
    BY Zenon DEF Backfilled
  <2>2. /\ r.id = n /\ r.event = Legacy[n]
        /\ r.prev = SubSeq(Legacy, 1, n - 1) /\ r.hash = SubSeq(Legacy, 1, n)
    BY <2>1
  <2> QED BY <2>2
<1>2. rows \in SUBSET Rows
  <2>1. ASSUME NEW n \in 1..Len(Legacy)
        PROVE [id |-> n, event |-> Legacy[n], prev |-> SubSeq(Legacy, 1, n - 1),
               hash |-> SubSeq(Legacy, 1, n)] \in Rows
    BY <1>0, <1>1 DEF Rows, Hashes
  <2> QED BY <2>1 DEF Backfilled
<1>3. TypeOK
  BY <1>0, <1>2 DEF TypeOK, Handlers, Phases, Genesis, Hashes
<1>4. Ids
  <2>1. \A r \in rows : r.id < nextId
    BY <1>0, <1>r
  <2>2. ASSUME NEW q \in rows, NEW r \in rows, q.id = r.id
        PROVE q = r
    <3> DEFINE R(n) == [id |-> n, event |-> Legacy[n], prev |-> SubSeq(Legacy, 1, n - 1),
                        hash |-> SubSeq(Legacy, 1, n)]
    <3>1. PICK m \in 1..Len(Legacy) : q = R(m)
      BY DEF Backfilled
    <3>2. PICK n \in 1..Len(Legacy) : r = R(n)
      BY DEF Backfilled
    <3>3. m = n
      BY <2>2, <3>1, <3>2
    <3> QED BY <3>1, <3>2, <3>3
  <2> QED BY <2>1, <2>2 DEF Ids
<1>5. Committed = rows
  BY <1>0, <1>r DEF Committed
<1>6. Own /\ Behind /\ Held /\ Prev /\ Asking
  BY <1>5 DEF Own, Behind, Held, Prev, Asking
<1>7. ASSUME NEW m \in 1..Len(Legacy)
      PROVE LET r == [id |-> m, event |-> Legacy[m], prev |-> SubSeq(Legacy, 1, m - 1),
                      hash |-> SubSeq(Legacy, 1, m)]
            IN r \in rows
  BY DEF Backfilled
<1>8. Lasts
  <2>1. CASE Len(Legacy) = 0
    BY <2>1, <1>5, <1>r DEF Lasts, HasLast
  <2>2. CASE Len(Legacy) > 0
    <3>1. Len(Legacy) \in 1..Len(Legacy)
      BY <2>2, <1>0
    <3>2. PICK r \in rows : r.id = Len(Legacy)
      BY <1>7, <3>1
    <3>3. \A q \in rows : q.id <= r.id
      BY <3>2, <1>r, <1>0
    <3> QED BY <3>3, <1>5 DEF Lasts, HasLast
  <2> QED BY <2>1, <2>2, <1>0
<1>9. Whole
  <2>1. ASSUME NEW r \in rows PROVE r \notin Broken(rows)
    <3>1. PICK n \in 1..Len(Legacy) :
            /\ r.id = n /\ r.event = Legacy[n]
            /\ r.prev = SubSeq(Legacy, 1, n - 1) /\ r.hash = SubSeq(Legacy, 1, n)
      BY <1>r
    <3>2. r.hash = compute_hash(r.event, r.prev)
      BY <3>1, <1>1 DEF compute_hash
    <3>3. r.prev = HashAfter(Below(r, rows))
      <4>1. CASE n = 1
        <5>1. Below(r, rows) = {}
          BY <4>1, <3>1, <1>r, <1>0 DEF Below
        <5>2. r.prev = <<>>
          BY <4>1, <3>1, <1>0
        <5> QED BY <5>1, <5>2 DEF HashAfter, Genesis
      <4>2. CASE n # 1
        <5>1. n - 1 \in 1..Len(Legacy)
          BY <4>2, <1>0
        <5>2. PICK q \in rows : q.id = n - 1 /\ q.hash = SubSeq(Legacy, 1, n - 1)
          BY <5>1, <1>7
        <5>3. q \in Below(r, rows) /\ \A p \in Below(r, rows) : p.id <= q.id
          BY <5>2, <3>1, <1>r, <1>0 DEF Below
        <5>4. \A p \in rows : p.id \in Nat
          BY <1>2 DEF Rows
        <5>5. LastOf(Below(r, rows)) = q
          <6>1. LastOf(Below(r, rows)) \in Below(r, rows)
                /\ \A p \in Below(r, rows) : p.id <= LastOf(Below(r, rows)).id
            BY <5>3 DEF LastOf
          <6>2. LastOf(Below(r, rows)) \in rows /\ LastOf(Below(r, rows)).id = q.id
            BY <6>1, <5>3, <5>4 DEF Below
          <6> QED BY <6>2, <1>4 DEF Ids
        <5> QED BY <5>2, <5>3, <5>5, <3>1 DEF HashAfter
      <4> QED BY <4>1, <4>2
    <3> QED BY <3>2, <3>3 DEF Broken
  <2> QED BY <2>1 DEF Whole, Broken
<1> QED BY <1>3, <1>4, <1>6, <1>8, <1>9 DEF Inv

\* The row a call sends continues the last of all rows.
LEMMA SendRowInv ==
  ASSUME Inv, NEW t \in Transactions, SendRow(t)
  PROVE Inv'
<1> DEFINE e == [tx |-> t, about |-> tx[t].about]
           n == [id |-> nextId, event |-> e, prev |-> tx[t].prev,
                 hash |-> compute_hash(e, tx[t].prev)]
           h == [tx[t] EXCEPT !.phase = "open"]
<1>0. /\ tx[t].phase = "flush" /\ rows' = rows \cup {n} /\ nextId' = nextId + 1
      /\ chainLock' = chainLock /\ tx' = [tx EXCEPT ![t] = h]
      /\ locks' = IF tx[t].about = None THEN locks ELSE locks \cup {Asks(t)}
  BY DEF SendRow, Goes, AfterInsert
<1>1. TypeOK /\ Asking /\ Ids /\ Own /\ Behind /\ Held /\ Prev /\ Lasts /\ Whole
  BY DEF Inv
<1>t. /\ tx[t] \in [phase : Phases, about : Cases \cup {None}, prev : Hashes,
                     dirty : SUBSET Cases, events : Nat]
      /\ tx \in [Transactions -> Handlers] /\ rows \in SUBSET Rows /\ nextId \in Nat
  BY <1>1 DEF TypeOK, Handlers
<1>h. h \in Handlers /\ h.phase = "open" /\ h.prev = tx[t].prev
  BY <1>t DEF Handlers, Phases
<1>p. /\ tx'[t] = h /\ \A u \in Transactions : u # t => tx'[u] = tx[u]
      /\ tx' \in [Transactions -> Handlers]
  BY <1>0, <1>t, <1>h
<1>k. chainLock = t /\ tx[t].prev = HashAfter(rows) /\ t # None
  BY <1>0, <1>1, NoneAssumption DEF Held, Prev
<1>n. n \in Rows /\ n.id = nextId /\ n.event.tx = t /\ n.prev = HashAfter(rows)
      /\ n.hash = compute_hash(n.event, n.prev)
  <2>1. e \in Events
    BY <1>t DEF Events
  <2>2. compute_hash(e, tx[t].prev) \in Hashes
    BY <2>1, <1>t DEF compute_hash, Hashes
  <2> QED BY <2>1, <2>2, <1>t, <1>k DEF Rows
<1>l. \A r \in rows : r.id < n.id /\ r.id \in Nat
  BY <1>1, <1>n, <1>t DEF Ids, Rows
<1>c. Committed' = Committed
  <2>1. \A r \in rows : r.event.tx \in Transactions \cup {None}
    BY <1>t DEF Rows, Events
  <2>2. \A u \in Transactions : tx'[u].phase = "done" <=> tx[u].phase = "done"
    BY <1>p, <1>h, <1>0
  <2>3. ~(n.event.tx = None \/ tx'[n.event.tx].phase = "done")
    BY <1>n, <1>k, <1>p, <1>h
  <2> QED BY <2>1, <2>2, <2>3, <1>0 DEF Committed
<1>2. TypeOK'
  <2>1. locks' \in SUBSET Locks
    <3>1. CASE tx[t].about = None
      BY <3>1, <1>0, <1>1 DEF TypeOK
    <3>2. CASE tx[t].about # None
      BY <3>2, <1>0, <1>1, AsksType DEF TypeOK
    <3> QED BY <3>1, <3>2
  <2>2. chainLock' # None => chainLock' \in Transactions /\ Open(chainLock)'
    BY <1>0, <1>k, <1>p, <1>h DEF Open
  <2> QED BY <2>1, <2>2, <1>0, <1>1, <1>n, <1>t, <1>p DEF TypeOK
<1>3. Ids'
  BY <1>0, <1>1, <1>l, <1>n, <1>t DEF Ids
<1>4. Own'
  BY <1>0, <1>1, <1>c, <1>k, <1>n DEF Own
<1>5. Behind'
  <2>1. \A q \in Committed : q \in rows
    BY DEF Committed
  <2> QED BY <2>1, <1>0, <1>1, <1>c, <1>l DEF Behind
<1>6. Held' /\ Prev' /\ Asking'
  BY <1>0, <1>1, <1>k, <1>p, <1>h DEF Held, Prev, Asking
<1>7. Lasts'
  BY <1>0, <1>1, <1>c, <1>l, <1>n, <1>t DEF Lasts, HasLast
<1>8. Whole'
  <2>1. Below(n, rows') = rows
    BY <1>0, <1>l, <1>n, <1>t DEF Below
  <2>2. ASSUME NEW r \in rows PROVE Below(r, rows') = Below(r, rows)
    <3>1. r.id \in Nat /\ r.id < n.id /\ n.id \in Nat
      BY <1>l, <2>2, <1>n, <1>t
    <3>2. ~(n.id < r.id)
      BY <3>1
    <3> HIDE DEF n
    <3> QED BY <3>2, <1>0 DEF Below
  <2>3. \A r \in rows : r.prev = HashAfter(Below(r, rows)) /\ r.hash = compute_hash(r.event, r.prev)
    BY <1>1 DEF Whole, Broken
  <2>4. \A r \in rows' : r.prev = HashAfter(Below(r, rows')) /\ r.hash = compute_hash(r.event, r.prev)
    BY <2>1, <2>2, <2>3, <1>0, <1>n
  <2> QED BY <2>4 DEF Whole, Broken
<1> QED BY <1>2, <1>3, <1>4, <1>5, <1>6, <1>7, <1>8 DEF Inv

\* The end of a transaction leaves the committed rows, and its own if it commits.
LEMMA EndInv ==
  ASSUME Inv, NEW t \in Transactions, Commit(t) \/ (Open(t) /\ Rollback(t))
  PROVE Inv'
<1>1. TypeOK /\ Asking /\ Ids /\ Own /\ Behind /\ Held /\ Prev /\ Lasts /\ Whole
  BY DEF Inv
<1>0. PICK ph \in {"done", "aborted"} :
        /\ tx' = [tx EXCEPT ![t] = [tx[t] EXCEPT !.phase = ph, !.dirty = {}]]
        /\ chainLock' = Freed(t) /\ locks' = {l \in locks : l.tx # t}
        /\ nextId' = nextId /\ tx[t].phase # "done"
        /\ rows' = IF ph = "done" THEN rows ELSE {r \in rows : r.event.tx # t}
  BY DEF Commit, Rollback, Ends, Goes, Open
<1> DEFINE h == [tx[t] EXCEPT !.phase = ph, !.dirty = {}]
<1>t. /\ tx[t] \in [phase : Phases, about : Cases \cup {None}, prev : Hashes,
                     dirty : SUBSET Cases, events : Nat]
      /\ tx \in [Transactions -> Handlers] /\ rows \in SUBSET Rows /\ nextId \in Nat
  BY <1>1 DEF TypeOK, Handlers
<1>h. h \in Handlers /\ h.phase = ph
  BY <1>t DEF Handlers, Phases
<1>p. /\ tx'[t] = h /\ \A u \in Transactions : u # t => tx'[u] = tx[u]
      /\ tx' \in [Transactions -> Handlers]
  BY <1>0, <1>t, <1>h
<1>r. /\ rows' \subseteq rows
      /\ \A r \in rows : r.event.tx \in Transactions \cup {None} /\ r.id \in Nat
  BY <1>0, <1>t DEF Rows, Events
<1>2. TypeOK'
  <2>1. chainLock' # None => chainLock' \in Transactions /\ Open(chainLock)'
    BY <1>0, <1>1, <1>p DEF TypeOK, Freed, Open
  <2> QED BY <2>1, <1>0, <1>1, <1>p, <1>r DEF TypeOK
<1>3. Ids'
  BY <1>0, <1>1, <1>r DEF Ids
<1>4. Held' /\ Asking'
  BY <1>0, <1>1, <1>p, <1>h DEF Held, Freed, Asking
<1>5. CASE chainLock = t
  <2>1. Committed' = rows'
    <3>1. \A r \in rows : r \in Committed \/ r.event.tx = t
      BY <1>1, <1>5 DEF Own
    <3>2. CASE ph = "done"
      BY <3>1, <3>2, <1>0, <1>p, <1>h, <1>r DEF Committed
    <3>3. CASE ph = "aborted"
      BY <3>1, <3>3, <1>0, <1>p, <1>h, <1>r DEF Committed
    <3> QED BY <3>2, <3>3
  <2>2. rows' = rows \/ rows' = Committed
    <3>1. CASE ph = "aborted"
      <4>1. \A r \in Committed : r.event.tx # t
        BY <1>0, NoneAssumption DEF Committed
      <4>2. \A r \in rows : r \in Committed \/ r.event.tx = t
        BY <1>1, <1>5 DEF Own
      <4> QED BY <4>1, <4>2, <3>1, <1>0 DEF Committed
    <3> QED BY <3>1, <1>0
  <2>3. Own' /\ Behind' /\ Lasts'
    BY <2>1, <2>2, <1>1 DEF Own, Behind, Lasts
  <2>4. Prev'
    <3>1. \A u \in Transactions : tx'[u].phase # "flush"
      BY <1>4, <1>0, <1>5, <1>p, <1>h, NoneAssumption DEF Held, Freed
    <3> QED BY <3>1 DEF Prev
  <2>5. Whole'
    <3>1. CASE rows' = rows
      BY <3>1, <1>1 DEF Whole
    <3>2. CASE rows' = Committed
      <4>1. \A r \in Committed, q \in rows : q \notin Committed => ~(q.id < r.id)
        BY <1>1, <1>r DEF Behind, Committed
      <4>2. Broken(Committed) = {}
        BY <4>1, <1>1, CommittedWhole DEF Committed
      <4> QED BY <4>2, <3>2 DEF Whole
    <3> QED BY <2>2, <3>1, <3>2
  <2> QED BY <1>2, <1>3, <1>4, <2>3, <2>4, <2>5 DEF Inv
<1>6. CASE chainLock # t
  <2>1. \A r \in rows : r.event.tx # t
    BY <1>6, <1>1, <1>0, NoneAssumption DEF Own, Committed
  <2>2. rows' = rows
    BY <2>1, <1>0
  <2>3. Committed' = Committed
    BY <2>1, <2>2, <1>p, <1>r DEF Committed
  <2>4. chainLock' = chainLock
    BY <1>0, <1>6 DEF Freed
  <2>5. Own' /\ Behind' /\ Lasts' /\ Whole'
    BY <2>2, <2>3, <2>4, <1>1 DEF Own, Behind, Lasts, Whole
  <2>6. Prev'
    BY <2>2, <1>1, <1>p, <1>h DEF Prev
  <2> QED BY <1>2, <1>3, <1>4, <2>5, <2>6 DEF Inv
<1> QED BY <1>5, <1>6

\* Every other step is quiet.
LEMMA StepInv ==
  ASSUME Inv, [Next]_vars
  PROVE Inv'
<1> USE DEF Inv
<1>0. CASE UNCHANGED vars
  BY <1>0 DEF vars, TypeOK, Open, Asking, Ids, Own, Committed, Behind, Held, Prev, Lasts, Whole
<1>1. ASSUME NEW t \in Transactions, Begin(t) \/ Step(t) \/ Fail(t) \/ BreakDeadlock(t)
      PROVE Inv'
  <2>t. /\ tx[t] \in [phase : Phases, about : Cases \cup {None}, prev : Hashes,
                       dirty : SUBSET Cases, events : Nat]
        /\ locks \in SUBSET Locks
    BY DEF TypeOK, Handlers
  <2>1. CASE Begin(t)
    <3>1. [tx[t] EXCEPT !.phase = "open"] \in Handlers
      BY <2>t DEF Handlers, Phases
    <3> QED BY <2>1, <2>t, <3>1, QuietStep DEF Begin, Goes
  <2>2. CASE AskCase(t)
    <3>1. PICK c \in Cases : tx' = [tx EXCEPT ![t] = [tx[t] EXCEPT !.phase = "lock", !.about = c]]
      BY <2>2 DEF AskCase, Goes
    <3>2. /\ [tx[t] EXCEPT !.phase = "lock", !.about = c] \in Handlers
          /\ [tx[t] EXCEPT !.phase = "lock", !.about = c].about # None
      BY <2>t, NoneAssumption DEF Handlers, Phases
    <3> QED BY <2>2, <2>t, <3>1, <3>2, QuietStep DEF AskCase
  <2>3. CASE LockCase(t)
    <3>1. [tx[t] EXCEPT !.phase = "open"] \in Handlers
      BY <2>t DEF Handlers, Phases
    <3>2. Asks(t) \in Locks
      BY <2>3, AsksType DEF LockCase, Asking
    <3> QED BY <2>3, <2>t, <3>1, <3>2, QuietStep DEF LockCase, Goes
  <2>4. CASE Change(t)
    <3>1. PICK c \in Cases : tx' = [tx EXCEPT ![t] = [tx[t] EXCEPT !.dirty = @ \cup {c}]]
      BY <2>4 DEF Change, Goes
    <3>2. [tx[t] EXCEPT !.dirty = @ \cup {c}] \in Handlers
      BY <2>t DEF Handlers
    <3> QED BY <2>4, <2>t, <3>1, <3>2, QuietStep DEF Change
  <2>5. CASE AskChain(t)
    <3>1. PICK c \in Cases \cup {None} :
            tx' = [tx EXCEPT ![t] = [tx[t] EXCEPT !.phase = "chain", !.about = c, !.events = @ + 1]]
      BY <2>5 DEF AskChain, Goes
    <3>2. [tx[t] EXCEPT !.phase = "chain", !.about = c, !.events = @ + 1] \in Handlers
      <4>1. tx[t].events + 1 \in Nat /\ "chain" \in Phases
        BY <2>t DEF Phases
      <4> QED BY <4>1, <2>t DEF Handlers
    <3> QED BY <2>5, <2>t, <3>1, <3>2, QuietStep DEF AskChain
  <2>6. CASE TakeChain(t)
    <3>1. [tx[t] EXCEPT !.phase = "read"] \in Handlers
      BY <2>t DEF Handlers, Phases
    <3> QED BY <2>6, <2>t, <3>1, QuietStep DEF TakeChain, Goes
  <2>7. CASE ReadLast(t)
    <3>1. chainLock = t
      BY <2>7 DEF ReadLast, Held
    <3>2. Visible(t) = rows
      BY <3>1, HolderSeesAll
    <3>3. HashAfter(rows) \in Hashes
      BY HashAfterType DEF TypeOK, Lasts
    <3>4. [tx[t] EXCEPT !.phase = "flush", !.prev = HashAfter(rows)] \in Handlers
      BY <3>3, <2>t DEF Handlers, Phases
    <3> QED BY <2>7, <2>t, <3>1, <3>2, <3>4, QuietStep DEF ReadLast, Goes
  <2>8. CASE SendCase(t)
    <3>1. [tx[t] EXCEPT !.dirty = @ \ {Asks(t).case}] \in Handlers
      BY <2>t DEF Handlers
    <3>2. Asks(t) \in Locks
      BY <2>8, AsksType DEF SendCase
    <3>3. tx[t].phase = "flush" => chainLock = t /\ tx[t].prev = HashAfter(rows)
      BY DEF Held, Prev
    <3> QED BY <2>8, <2>t, <3>1, <3>2, <3>3, QuietStep DEF SendCase, Goes
  <2>9. CASE SendRow(t)
    BY <2>9, SendRowInv
  <2>10. CASE AskCommit(t)
    <3>1. [tx[t] EXCEPT !.phase = "commit"] \in Handlers
      BY <2>t DEF Handlers, Phases
    <3> QED BY <2>10, <2>t, <3>1, QuietStep DEF AskCommit, Goes
  <2>11. CASE Commit(t)
    BY <2>11, EndInv
  <2>12. CASE Fail(t)
    BY <2>12, EndInv DEF Fail
  <2>13. CASE BreakDeadlock(t)
    <3>1. Open(t)
      <4>1. Blockers(t) # {}
        BY <2>13 DEF BreakDeadlock, Deadlocked, Knot
      <4> QED BY <4>1 DEF Blockers, Open
    <3> QED BY <3>1, <2>13, EndInv DEF BreakDeadlock
  <2> QED BY <1>1, <2>1, <2>2, <2>3, <2>4, <2>5, <2>6, <2>7, <2>8, <2>9, <2>10, <2>11,
             <2>12, <2>13 DEF Step
<1> QED BY <1>0, <1>1 DEF Next

LEMMA InvHolds == Spec => []Inv
BY InitInv, StepInv, PTL DEF Spec

-------------------------------------------------------------------------------
(* Theorems *)

\* Types, and that the lock of the chain is an open transaction's.
THEOREM TypeCorrect == Spec => []TypeOK
<1>1. Inv => TypeOK
  BY DEF Inv
<1> QED BY <1>1, InvHolds, PTL

\* /integrity finds the committed log whole, for any calls and any interleaving.
THEOREM ChainIsWhole == Spec => []ChainVerifies
<1>1. Inv => ChainVerifies
  <2> SUFFICES ASSUME Inv PROVE ChainVerifies
    OBVIOUS
  <2>2. \A r \in Committed, q \in rows : q \notin Committed => ~(q.id < r.id)
    BY DEF Inv, TypeOK, Rows, Behind, Committed
  <2>3. Broken(Committed) = {}
    BY <2>2, CommittedWhole DEF Inv, Committed
  <2> QED BY <2>3 DEF ChainVerifies
<1> QED BY <1>1, InvHolds, PTL

\* A committed row stays, and the rows a commit adds have greater ids than those
\* that were there: a reader who has read up to an id has missed none below it.
GrowsBehind ==
  /\ Committed \subseteq Committed'
  /\ \A q \in Committed, r \in Committed' \ Committed : q.id < r.id

THEOREM LogGrowsBehind == Spec => [][GrowsBehind]_vars
<1>1. ASSUME Inv, [Next]_vars
      PROVE [GrowsBehind]_vars
  <2>t. /\ rows \in SUBSET Rows /\ tx \in [Transactions -> Handlers]
        /\ \A r \in rows : r.event.tx \in Transactions \cup {None}
    BY <1>1 DEF Inv, TypeOK, Rows, Events
  <2>1. ASSUME NEW t \in Transactions, Begin(t) \/ Step(t) \/ Fail(t) \/ BreakDeadlock(t)
        PROVE Committed \subseteq Committed' /\ Committed' \subseteq rows
    <3>1. tx[t].phase # "done"
      <4>1. CASE BreakDeadlock(t)
        <5>1. Blockers(t) # {}
          BY <4>1 DEF BreakDeadlock, Deadlocked, Knot
        <5> QED BY <5>1 DEF Blockers
      <4> QED BY <4>1, <2>1 DEF Begin, Step, Fail, Open, AskCase, LockCase, Change, AskChain,
                   TakeChain, ReadLast, SendCase, SendRow, AskCommit, Commit
    <3>2. /\ \A u \in Transactions : u # t => tx'[u] = tx[u]
          /\ rows' \subseteq rows \/ SendRow(t)
          /\ \A r \in rows : r.event.tx # t => r \in rows'
      BY <2>1, <2>t DEF Begin, Step, Fail, BreakDeadlock, Rollback, Ends, Goes, AskCase, LockCase,
           Change, AskChain, TakeChain, ReadLast, SendCase, SendRow, AskCommit, Commit
    <3>3. Committed \subseteq Committed'
      BY <3>1, <3>2, <2>t, NoneAssumption DEF Committed
    <3>4. CASE rows' \subseteq rows
      BY <3>3, <3>4 DEF Committed
    <3>5. CASE SendRow(t)
      <4>1. tx'[t].phase = "open"
        BY <3>5, <2>t DEF SendRow, Goes, Handlers
      <4>2. \A r \in rows' : r \in rows \/ r.event.tx = t
        BY <3>5 DEF SendRow
      <4> QED BY <3>3, <4>1, <4>2, NoneAssumption DEF Committed
    <3> QED BY <3>2, <3>3, <3>4, <3>5
  <2>2. CASE Next
    BY <2>1, <2>2, <1>1 DEF Next, GrowsBehind, Inv, Behind
  <2> QED BY <1>1, <2>2
<1> QED BY <1>1, InvHolds, PTL DEF Spec
-------------------------------------------------------------------------------
(* The chain implements the log.  What a reader numbers by position is what *)
(* the hashes record: the row at place n covers exactly the n events of the *)
(* rows up to it, so the entries are the hash of the last committed row.    *)

Numbered(S) ==
  /\ IsFiniteSet(S)
  /\ \A r \in S : Len(r.hash) = Cardinality(Below(r, S)) + 1
  /\ \A q, r \in S : q.id < r.id => Len(q.hash) < Len(r.hash)
  /\ \A r \in S : \A i \in 1..Len(r.hash) :
       \E q \in S : q.id <= r.id /\ Len(q.hash) = i /\ q.event = r.hash[i]

\* Rows that an id tells apart.
Distinct(S) == \A q, r \in S : q.id = r.id => q = r

\* The last row is the one with the greatest id.
LEMMA LastIs ==
  ASSUME NEW S \in SUBSET Rows, Distinct(S), NEW r \in S, \A q \in S : q.id <= r.id
  PROVE LastOf(S) = r /\ HashAfter(S) = r.hash
<1>1. LastOf(S) \in S /\ \A q \in S : q.id <= LastOf(S).id
  BY DEF LastOf
<1>2. LastOf(S).id = r.id
  BY <1>1 DEF Rows
<1>3. LastOf(S) = r
  BY <1>1, <1>2 DEF Distinct
<1> QED BY <1>3 DEF HashAfter

\* The hash of a row that is there covers as many events as there are rows up to it.
LEMMA HashIsAsLong ==
  ASSUME NEW S \in SUBSET Rows, Distinct(S), HasLast(S), Numbered(S)
  PROVE Len(HashAfter(S)) = Cardinality(S) /\ Cardinality(S) \in Nat
<1>0. Cardinality(S) \in Nat
  BY FS_CardinalityType DEF Numbered
<1>1. CASE S = {}
  BY <1>1, FS_EmptySet DEF HashAfter, Genesis
<1>2. CASE S # {}
  <2>1. PICK r \in S : \A q \in S : q.id <= r.id
    BY <1>2 DEF HasLast
  <2>2. HashAfter(S) = r.hash
    BY <2>1, LastIs
  <2>3. Below(r, S) = S \ {r}
    BY <2>1 DEF Below, Distinct, Rows
  <2>4. Cardinality(S \ {r}) = Cardinality(S) - 1
    BY FS_RemoveElement DEF Numbered
  <2>5. Len(r.hash) = Cardinality(Below(r, S)) + 1
    BY DEF Numbered
  <2> QED BY <1>0, <2>2, <2>3, <2>4, <2>5
<1> QED BY <1>0, <1>1, <1>2

\* A row that continues the last one keeps the rows numbered.
LEMMA NumberedAdd ==
  ASSUME NEW S \in SUBSET Rows, Distinct(S), HasLast(S), Numbered(S),
         NEW n \in Rows, \A r \in S : r.id < n.id,
         n.hash = Append(HashAfter(S), n.event)
  PROVE Numbered(S \cup {n})
<1> DEFINE T == S \cup {n}
<1>0. /\ n \notin S /\ n.id \in Nat /\ n.event \in Events
      /\ \A r \in S : r.id \in Nat /\ r.hash \in Hashes
  BY DEF Rows
<1>h. HashAfter(S) \in Seq(Events)
  BY HashAfterType DEF Hashes
<1>l. /\ Len(HashAfter(S)) = Cardinality(S) /\ Cardinality(S) \in Nat
      /\ Len(n.hash) = Cardinality(S) + 1
      /\ n.hash[Cardinality(S) + 1] = n.event
      /\ \A i \in 1..Cardinality(S) : n.hash[i] = HashAfter(S)[i]
  <2>1. Len(HashAfter(S)) = Cardinality(S) /\ Cardinality(S) \in Nat
    BY HashIsAsLong
  <2> QED BY <2>1, <1>h, <1>0
<1>b. /\ Below(n, T) = S
      /\ \A r \in S : Below(r, T) = Below(r, S)
  BY <1>0 DEF Below
<1>1. IsFiniteSet(T)
  BY FS_AddElement DEF Numbered
<1>2. \A r \in T : Len(r.hash) = Cardinality(Below(r, T)) + 1
  BY <1>b, <1>l DEF Numbered
<1>m. \A r \in S : Len(r.hash) \in Nat /\ Len(r.hash) <= Cardinality(S)
  <2> SUFFICES ASSUME NEW r \in S PROVE Len(r.hash) \in Nat /\ Len(r.hash) <= Cardinality(S)
    OBVIOUS
  <2>1. PICK last \in S : \A q \in S : q.id <= last.id
    BY DEF HasLast
  <2>2. HashAfter(S) = last.hash
    BY <2>1, LastIs
  <2>3. Len(r.hash) \in Nat /\ Len(last.hash) \in Nat
    BY <1>0 DEF Hashes
  <2>4. r = last \/ r.id < last.id
    BY <2>1, <1>0 DEF Distinct
  <2>5. Len(r.hash) <= Len(last.hash)
    BY <2>3, <2>4 DEF Numbered
  <2> QED BY <2>2, <2>3, <2>5, <1>l
<1>3. \A q, r \in T : q.id < r.id => Len(q.hash) < Len(r.hash)
  BY <1>0, <1>l, <1>m DEF Numbered
<1>4. ASSUME NEW r \in T, NEW i \in 1..Len(r.hash)
      PROVE \E q \in T : q.id <= r.id /\ Len(q.hash) = i /\ q.event = r.hash[i]
  <2>1. CASE r \in S
    BY <2>1, <1>4 DEF Numbered
  <2>2. CASE r = n /\ i = Cardinality(S) + 1
    BY <2>2, <1>l, <1>0
  <2>3. CASE r = n /\ i # Cardinality(S) + 1
    <3>1. i \in 1..Cardinality(S)
      <4>1. i \in 1..(Cardinality(S) + 1)
        BY <1>4, <2>3, <1>l
      <4> QED BY <4>1, <2>3, <1>l
    <3>2. S # {}
      <4>1. Cardinality({}) = 0
        BY FS_EmptySet
      <4>2. Cardinality(S) # 0
        BY <3>1
      <4> QED BY <4>1, <4>2
    <3>3. PICK last \in S : \A q \in S : q.id <= last.id
      BY <3>2 DEF HasLast
    <3>4. HashAfter(S) = last.hash
      BY <3>3, LastIs
    <3>5. PICK q \in S : q.id <= last.id /\ Len(q.hash) = i /\ q.event = last.hash[i]
      BY <3>1, <3>4, <1>l DEF Numbered
    <3>6. q.id <= n.id
      BY <1>0
    <3> QED BY <2>3, <3>1, <3>4, <3>5, <3>6, <1>l
  <2> QED BY <2>1, <2>2, <2>3, <1>4
<1> QED BY <1>1, <1>2, <1>3, <1>4 DEF Numbered

\* What lies before the rest of the rows is numbered as they are.
LEMMA NumberedPart ==
  ASSUME NEW S \in SUBSET Rows, Numbered(S), NEW T \in SUBSET S,
         \A r \in S, q \in T : r \notin T => q.id < r.id
  PROVE Numbered(T)
<1>0. \A r \in S : r.id \in Nat
  BY DEF Rows
<1>1. IsFiniteSet(T)
  BY FS_Subset DEF Numbered
<1>2. \A r \in T : Below(r, T) = Below(r, S)
  BY <1>0 DEF Below
<1>3. ASSUME NEW r \in T, NEW i \in 1..Len(r.hash)
      PROVE \E q \in T : q.id <= r.id /\ Len(q.hash) = i /\ q.event = r.hash[i]
  <2>1. PICK q \in S : q.id <= r.id /\ Len(q.hash) = i /\ q.event = r.hash[i]
    BY <1>3 DEF Numbered
  <2>2. q \in T
    BY <2>1, <1>0
  <2> QED BY <2>1, <2>2
<1> QED BY <1>1, <1>2, <1>3 DEF Numbered

\* The committed rows lie before the others.
LEMMA CommittedNumbered ==
  ASSUME Inv, Numbered(rows)
  PROVE /\ Numbered(Committed) /\ Committed \in SUBSET rows /\ rows \in SUBSET Rows
        /\ Distinct(rows) /\ Distinct(Committed) /\ HasLast(rows) /\ HasLast(Committed)
<1>1. /\ Committed \in SUBSET rows /\ rows \in SUBSET Rows
      /\ HasLast(rows) /\ HasLast(Committed)
  BY DEF Inv, Committed, TypeOK, Lasts
<1>2. Distinct(rows) /\ Distinct(Committed)
  BY <1>1 DEF Inv, Ids, Distinct
<1>3. Numbered(Committed)
  BY <1>1, NumberedPart DEF Inv, Behind
<1> QED BY <1>1, <1>2, <1>3

\* The row at a place: the only one whose hash is as long.
LEMMA RowAt ==
  ASSUME NEW S \in SUBSET Rows, Distinct(S), HasLast(S), Numbered(S),
         NEW i \in 1..Cardinality(S)
  PROVE LET r == CHOOSE q \in S : Cardinality(Below(q, S)) = i - 1
        IN r \in S /\ Len(r.hash) = i /\ r.event = HashAfter(S)[i]
<1>0. /\ Len(HashAfter(S)) = Cardinality(S) /\ Cardinality(S) \in Nat
      /\ \A q \in S : q.id \in Nat /\ q.hash \in Hashes
  BY HashIsAsLong DEF Rows
<1>1. S # {}
  BY FS_EmptySet
<1>2. PICK last \in S : \A q \in S : q.id <= last.id
  BY <1>1 DEF HasLast
<1>3. HashAfter(S) = last.hash
  BY <1>2, LastIs
<1>4. PICK p \in S : Len(p.hash) = i /\ p.event = HashAfter(S)[i]
  BY <1>0, <1>3 DEF Numbered
<1>c. \A q \in S : Cardinality(Below(q, S)) \in Nat
  <2>1. \A q \in S : Below(q, S) \in SUBSET S
    BY DEF Below
  <2> QED BY <2>1, FS_Subset, FS_CardinalityType DEF Numbered
<1>5. Cardinality(Below(p, S)) = i - 1
  BY <1>4, <1>c DEF Numbered
<1>6. PICK r \in S : r = CHOOSE q \in S : Cardinality(Below(q, S)) = i - 1
  BY <1>5
<1>7. Cardinality(Below(r, S)) = i - 1
  BY <1>5, <1>6
<1>8. Len(r.hash) = i
  BY <1>7, <1>c DEF Numbered
<1>9. r = p
  <2>1. ~(r.id < p.id) /\ ~(p.id < r.id)
    BY <1>4, <1>8 DEF Numbered
  <2>2. r.id = p.id
    BY <2>1, <1>0
  <2> QED BY <2>2 DEF Distinct
<1> QED BY <1>4, <1>6, <1>8, <1>9

\* What a reader sees is the hash of the last committed row.
ReadAsHashed == Entries = HashAfter(Committed)

LEMMA EntriesAreTheHash ==
  ASSUME Inv, Numbered(rows)
  PROVE ReadAsHashed
<1>1. /\ Committed \in SUBSET Rows /\ Distinct(Committed)
      /\ HasLast(Committed) /\ Numbered(Committed)
  BY CommittedNumbered
<1>2. /\ HashAfter(Committed) \in Seq(Events) /\ Cardinality(Committed) \in Nat
      /\ Len(HashAfter(Committed)) = Cardinality(Committed)
  BY <1>1, HashAfterType, HashIsAsLong DEF Hashes
<1>3. \A i \in 1..Cardinality(Committed) : Entries[i] = HashAfter(Committed)[i]
  BY <1>1, RowAt DEF Entries
<1>4. /\ Entries = [i \in 1..Cardinality(Committed) |-> Entries[i]]
      /\ HashAfter(Committed) = [i \in 1..Cardinality(Committed) |-> HashAfter(Committed)[i]]
  BY <1>2 DEF Entries
<1> QED BY <1>3, <1>4 DEF ReadAsHashed
-------------------------------------------------------------------------------
(* Initial states and steps *)

\* The migration numbers the rows by the events before them.
LEMMA InitNumbered == Init => Numbered(rows)
<1> SUFFICES ASSUME Init PROVE Numbered(rows)
  OBVIOUS
<1> DEFINE L == Len(Legacy)
           R(n) == [id |-> n, event |-> Legacy[n], prev |-> SubSeq(Legacy, 1, n - 1),
                    hash |-> SubSeq(Legacy, 1, n)]
<1>0. /\ L \in Nat
      /\ \A n \in 1..L : /\ Len(SubSeq(Legacy, 1, n)) = n
                         /\ \A i \in 1..n : SubSeq(Legacy, 1, n)[i] = Legacy[i]
  BY LegacyAssumption
<1>1. rows = {R(n) : n \in 1..L}
  BY DEF Init, Backfilled
<1>2. \A n \in 1..L : R(n) \in rows /\ R(n).id = n /\ Len(R(n).hash) = n /\ R(n).event = Legacy[n]
                      /\ \A i \in 1..n : R(n).hash[i] = Legacy[i]
  BY <1>0, <1>1
<1>3. \A r \in rows : \E n \in 1..L : r = R(n)
  BY <1>1
<1> HIDE DEF R
<1>4. ASSUME NEW m \in Nat, m <= L
      PROVE /\ IsFiniteSet({R(n) : n \in 1..m})
            /\ Cardinality({R(n) : n \in 1..m}) = m
  <2> DEFINE f == [n \in 1..m |-> R(n)]
  <2>1. \A n \in 1..m : n \in 1..L
    BY <1>4, <1>0
  <2>2. f \in Bijection(1..m, {R(n) : n \in 1..m})
    <3>1. f \in Surjection(1..m, {R(n) : n \in 1..m})
      BY DEF Surjection
    <3>2. \A a, b \in 1..m : f[a] = f[b] => a = b
      BY <1>2, <2>1
    <3> QED BY <3>1, <3>2 DEF Bijection, Injection, IsInjective
  <2>3. ExistsBijection(1..m, {R(n) : n \in 1..m})
    BY <2>2 DEF ExistsBijection
  <2>4. IsFiniteSet(1..m) /\ Cardinality(1..m) = m
    BY <1>4, FS_Interval
  <2> QED BY <2>3, <2>4, FS_Bijection
<1>5. IsFiniteSet(rows)
  BY <1>0, <1>1, <1>4
<1>6. ASSUME NEW r \in rows
      PROVE Len(r.hash) = Cardinality(Below(r, rows)) + 1
  <2>1. PICK k \in 1..L : r = R(k)
    BY <1>3
  <2>2. Below(r, rows) = {R(n) : n \in 1..(k - 1)}
    <3>1. \A q \in rows : q.id < r.id => \E n \in 1..(k - 1) : q = R(n)
      BY <2>1, <1>2, <1>3, <1>0
    <3>2. \A n \in 1..(k - 1) : R(n) \in rows /\ R(n).id < r.id
      BY <2>1, <1>2, <1>0
    <3> QED BY <3>1, <3>2 DEF Below
  <2>3. k - 1 \in Nat /\ k - 1 <= L
    BY <1>0
  <2>4. Cardinality(Below(r, rows)) = k - 1
    BY <2>2, <2>3, <1>4
  <2>5. Len(r.hash) = k
    BY <2>1, <1>2
  <2> QED BY <2>3, <2>4, <2>5
<1>7. \A q, r \in rows : q.id < r.id => Len(q.hash) < Len(r.hash)
  BY <1>2, <1>3
<1>8. ASSUME NEW r \in rows, NEW i \in 1..Len(r.hash)
      PROVE \E q \in rows : q.id <= r.id /\ Len(q.hash) = i /\ q.event = r.hash[i]
  <2>1. PICK k \in 1..L : r = R(k)
    BY <1>3
  <2>2. Len(r.hash) = k /\ r.id = k
    BY <2>1, <1>2
  <2>3. i \in 1..k /\ i \in 1..L /\ i <= k
    BY <1>8, <2>2, <1>0
  <2>4. r.hash[i] = Legacy[i]
    BY <2>1, <2>3, <1>2
  <2>5. R(i) \in rows /\ R(i).id = i /\ Len(R(i).hash) = i /\ R(i).event = Legacy[i]
    BY <2>3, <1>2
  <2> QED BY <2>2, <2>3, <2>4, <2>5
<1> QED BY <1>5, <1>6, <1>7, <1>8 DEF Numbered

\* What a step does to the rows: nothing, a row at the end, or the end of a call.
LEMMA RowsOfAStep ==
  ASSUME Inv, [Next]_vars
  PROVE \/ rows' = rows /\ Committed' = Committed
        \/ \E t \in Transactions : SendRow(t) /\ Committed' = Committed
        \/ \E t \in Transactions : Open(t) /\ Rollback(t) /\ Committed' = Committed
                                   /\ (rows' = rows \/ rows' = Committed)
        \/ \E t \in Transactions : Commit(t) /\ chainLock = t /\ Committed' = rows /\ rows' = rows
<1>t. /\ rows \in SUBSET Rows /\ tx \in [Transactions -> Handlers]
      /\ \A r \in rows : r.event.tx \in Transactions \cup {None}
  BY DEF Inv, TypeOK, Rows, Events
<1>0. CASE UNCHANGED vars
  BY <1>0 DEF vars, Committed
<1>1. ASSUME NEW t \in Transactions, Begin(t) \/ Step(t) \/ Fail(t) \/ BreakDeadlock(t)
      PROVE \/ rows' = rows /\ Committed' = Committed
            \/ SendRow(t) /\ Committed' = Committed
            \/ Open(t) /\ Rollback(t) /\ Committed' = Committed /\ (rows' = rows \/ rows' = Committed)
            \/ Commit(t) /\ chainLock = t /\ Committed' = rows /\ rows' = rows
  <2>o. \A u \in Transactions : u # t => tx'[u] = tx[u]
    BY <1>1, <1>t DEF Begin, Step, Fail, BreakDeadlock, Rollback, Ends, Goes, AskCase, LockCase,
         Change, AskChain, TakeChain, ReadLast, SendCase, SendRow, AskCommit, Commit
  <2>1. CASE \/ Begin(t) \/ AskCase(t) \/ LockCase(t) \/ Change(t) \/ AskChain(t) \/ TakeChain(t)
             \/ ReadLast(t) \/ SendCase(t) \/ AskCommit(t)
    <3>1. rows' = rows /\ tx[t].phase # "done"
      BY <2>1 DEF Begin, AskCase, LockCase, Change, AskChain, TakeChain, ReadLast, SendCase,
           AskCommit
    <3>2. tx[t] \in [phase : Phases, about : Cases \cup {None}, prev : Hashes,
                     dirty : SUBSET Cases, events : Nat]
      BY <1>t DEF Handlers
    <3>3. CASE Begin(t) \/ LockCase(t) \/ TakeChain(t) \/ AskCommit(t)
      BY <3>2, <3>3, <1>t, <3>1, <2>o DEF Begin, LockCase, TakeChain, AskCommit, Goes, Committed
    <3>4. CASE AskCase(t) \/ Change(t)
      <4>1. CASE AskCase(t)
        <5>1. PICK c : tx' = [tx EXCEPT ![t] = [tx[t] EXCEPT !.phase = "lock", !.about = c]]
          BY <4>1 DEF AskCase, Goes
        <5> QED BY <3>2, <5>1, <1>t, <3>1, <2>o DEF Committed
      <4>2. CASE Change(t)
        <5>1. PICK c : tx' = [tx EXCEPT ![t] = [tx[t] EXCEPT !.dirty = @ \cup {c}]]
          BY <4>2 DEF Change, Goes
        <5> QED BY <3>2, <5>1, <1>t, <3>1, <2>o DEF Committed
      <4> QED BY <3>4, <4>1, <4>2
    <3>5. CASE AskChain(t)
      BY <3>2, <3>5, <1>t, <3>1, <2>o DEF AskChain, Goes, Committed
    <3>6. CASE ReadLast(t) \/ SendCase(t)
      BY <3>2, <3>6, <1>t, <3>1, <2>o DEF ReadLast, SendCase, Goes, Committed
    <3> QED BY <2>1, <3>3, <3>4, <3>5, <3>6
  <2>2. CASE SendRow(t)
    <3>1. tx[t].phase # "done" /\ tx'[t].phase = "open" /\ t # None
      BY <2>2, <1>t, NoneAssumption DEF SendRow, Goes, Handlers
    <3>2. PICK n : rows' = rows \cup {n} /\ n.event.tx = t
      <4> DEFINE e == [tx |-> t, about |-> tx[t].about]
                 m == [id |-> nextId, event |-> e, prev |-> tx[t].prev,
                       hash |-> compute_hash(e, tx[t].prev)]
      <4>1. rows' = rows \cup {m} /\ m.event.tx = t
        BY <2>2 DEF SendRow
      <4> QED BY <4>1
    <3>3. Committed' = Committed
      BY <3>1, <3>2, <2>o, <1>t DEF Committed
    <3> QED BY <2>2, <3>3
  <2>3. CASE Open(t) /\ Rollback(t)
    <3>1. /\ tx[t].phase # "done" /\ tx'[t].phase = "aborted" /\ t # None
          /\ rows' = {r \in rows : r.event.tx # t}
      BY <2>3, <1>t, NoneAssumption DEF Rollback, Ends, Open, Goes, Handlers
    <3>2. Committed' = Committed
      BY <3>1, <2>o, <1>t DEF Committed
    <3>3. CASE chainLock = t
      <4>1. \A r \in rows : r \in Committed \/ r.event.tx = t
        BY <3>3 DEF Inv, Own
      <4>2. \A r \in Committed : r \in rows /\ r.event.tx # t
        BY <3>1 DEF Committed
      <4> QED BY <4>1, <4>2, <3>1, <3>2, <2>3
    <3>4. CASE chainLock # t
      <4>1. \A r \in rows : r.event.tx # t
        BY <3>1, <3>4 DEF Inv, Own, Committed
      <4> QED BY <4>1, <3>1, <3>2
    <3> QED BY <3>3, <3>4
  <2>4. CASE Commit(t)
    <3>1. tx[t].phase # "done" /\ tx'[t].phase = "done" /\ rows' = rows /\ t # None
      BY <2>4, <1>t, NoneAssumption DEF Commit, Ends, Goes, Handlers
    <3>2. CASE chainLock = t
      <4>1. \A r \in rows : r \in Committed \/ r.event.tx = t
        BY <3>2 DEF Inv, Own
      <4>2. Committed' = rows
        BY <4>1, <3>1, <2>o, <1>t DEF Committed
      <4> QED BY <4>2, <3>1, <3>2, <2>4
    <3>3. CASE chainLock # t
      <4>1. \A r \in rows : r.event.tx # t
        BY <3>1, <3>3 DEF Inv, Own, Committed
      <4>2. Committed' = Committed
        BY <4>1, <3>1, <2>o, <1>t DEF Committed
      <4> QED BY <4>2, <3>1
    <3> QED BY <3>2, <3>3
  <2>5. CASE BreakDeadlock(t)
    <3>1. Blockers(t) # {}
      BY <2>5 DEF BreakDeadlock, Deadlocked, Knot
    <3>2. Open(t) /\ Rollback(t)
      BY <3>1, <2>5 DEF Blockers, Open, BreakDeadlock
    <3> QED BY <3>2, <2>3
  <2> QED BY <1>1, <2>1, <2>2, <2>3, <2>4, <2>5 DEF Step, Fail
<1>2. CASE Next
  <2>1. PICK t \in Transactions : Begin(t) \/ Step(t) \/ Fail(t) \/ BreakDeadlock(t)
    BY <1>2 DEF Next
  <2>2. \/ rows' = rows /\ Committed' = Committed
        \/ SendRow(t) /\ Committed' = Committed
        \/ Open(t) /\ Rollback(t) /\ Committed' = Committed /\ (rows' = rows \/ rows' = Committed)
        \/ Commit(t) /\ chainLock = t /\ Committed' = rows /\ rows' = rows
    BY <2>1, <1>1
  <2> QED BY <2>2
<1> QED BY <1>0, <1>2

LEMMA StepNumbered ==
  ASSUME Inv, Numbered(rows), [Next]_vars
  PROVE Numbered(rows)'
<1>c. /\ Numbered(Committed) /\ Committed \in SUBSET rows /\ rows \in SUBSET Rows
      /\ Distinct(rows) /\ Distinct(Committed) /\ HasLast(rows) /\ HasLast(Committed)
  BY CommittedNumbered
<1>1. CASE rows' = rows
  BY <1>1 DEF Numbered, Below
<1>2. ASSUME NEW t \in Transactions, SendRow(t)
      PROVE Numbered(rows)'
  <2>1. PICK n : /\ rows' = rows \cup {n} /\ n.id = nextId
                 /\ n.hash = Append(tx[t].prev, n.event)
    <3> DEFINE e == [tx |-> t, about |-> tx[t].about]
               m == [id |-> nextId, event |-> e, prev |-> tx[t].prev,
                     hash |-> compute_hash(e, tx[t].prev)]
    <3>1. /\ rows' = rows \cup {m} /\ m.id = nextId
          /\ m.hash = Append(tx[t].prev, m.event)
      BY <1>2 DEF SendRow, compute_hash
    <3> QED BY <3>1
  <2>2. tx[t].prev = HashAfter(rows)
    BY <1>2 DEF SendRow, Inv, Prev
  <2>3. n \in Rows
    <3>1. rows' \in SUBSET Rows
      <4>1. Inv'
        BY <1>2, SendRowInv
      <4> QED BY <4>1 DEF Inv, TypeOK
    <3> QED BY <3>1, <2>1
  <2>4. \A r \in rows : r.id < n.id
    BY <2>1 DEF Inv, Ids
  <2>5. Numbered(rows \cup {n})
    BY <1>c, <2>1, <2>2, <2>3, <2>4, NumberedAdd
  <2> QED BY <2>1, <2>5 DEF Numbered, Below
<1>3. CASE rows' = Committed
  BY <1>3, <1>c DEF Numbered, Below
<1> QED BY <1>1, <1>2, <1>3, RowsOfAStep
LEMMA NumberedHolds == Spec => [](Inv /\ Numbered(rows) /\ ReadAsHashed)
<1>1. Inv /\ Numbered(rows) => ReadAsHashed
  BY EntriesAreTheHash
<1> QED BY <1>1, InitInv, StepInv, InitNumbered, StepNumbered, PTL DEF Spec

-------------------------------------------------------------------------------
(* Every step writes to the log, or leaves it *)

\* A row that is not committed lies behind the last one that is, and is longer.
LEMMA LastsOfTheParts ==
  ASSUME Inv, Numbered(rows), Committed # rows
  PROVE \E r \in rows : /\ HashAfter(rows) = r.hash /\ \A q \in rows : q.id <= r.id
                        /\ Len(HashAfter(Committed)) < Len(r.hash)
                        /\ \A i \in 1..Len(HashAfter(Committed)) : HashAfter(Committed)[i] = r.hash[i]
                        /\ \A q \in rows : Len(q.hash) > Len(HashAfter(Committed))
                                             => q \notin Committed
<1>c. /\ Numbered(Committed) /\ Committed \in SUBSET rows /\ rows \in SUBSET Rows
      /\ Distinct(rows) /\ Distinct(Committed) /\ HasLast(rows) /\ HasLast(Committed)
  BY CommittedNumbered
<1>0. \A r \in rows : r.id \in Nat /\ r.hash \in Seq(Events) /\ Len(r.hash) \in Nat
  BY <1>c DEF Rows, Hashes
<1>1. PICK r \in rows : \A q \in rows : q.id <= r.id
  BY <1>c DEF HasLast
<1>2. HashAfter(rows) = r.hash
  BY <1>c, <1>1, LastIs
<1>3. r \notin Committed
  <2>1. PICK u \in rows : u \notin Committed
    BY <1>c
  <2>2. u.id <= r.id
    BY <1>1
  <2>3. r \in Committed => r.id < u.id
    BY <2>1 DEF Inv, Behind
  <2> QED BY <2>2, <2>3, <1>0
<1>4. CASE Committed = {}
  <2>1. HashAfter(Committed) = <<>>
    BY <1>4 DEF HashAfter, Genesis
  <2>2. Len(r.hash) = Cardinality(Below(r, rows)) + 1 /\ Cardinality(Below(r, rows)) \in Nat
    <3>1. Below(r, rows) \in SUBSET rows
      BY DEF Below
    <3> QED BY <3>1, FS_Subset, FS_CardinalityType DEF Numbered
  <2>3. Len(HashAfter(Committed)) = 0
    BY <2>1
  <2> QED BY <1>1, <1>2, <1>4, <2>2, <2>3
<1>5. CASE Committed # {}
  <2>1. PICK p \in Committed : \A q \in Committed : q.id <= p.id
    BY <1>5, <1>c DEF HasLast
  <2>2. HashAfter(Committed) = p.hash
    BY <1>c, <2>1, LastIs
  <2>3. p.id < r.id
    BY <1>3 DEF Inv, Behind
  <2>4. Len(p.hash) < Len(r.hash)
    BY <2>3, <1>c DEF Numbered
  <2>5. ASSUME NEW i \in 1..Len(p.hash) PROVE p.hash[i] = r.hash[i]
    <3>1. i \in 1..Len(r.hash)
      BY <2>4, <2>5, <1>0, <1>c
    <3>2. PICK q \in rows : Len(q.hash) = i /\ q.event = r.hash[i]
      BY <3>1 DEF Numbered
    <3>3. PICK o \in rows : Len(o.hash) = i /\ o.event = p.hash[i]
      BY <2>5, <1>c DEF Numbered
    <3>4. ~(q.id < o.id) /\ ~(o.id < q.id)
      BY <3>2, <3>3, <1>0 DEF Numbered
    <3>5. q = o
      BY <3>4, <1>0, <1>c DEF Distinct
    <3> QED BY <3>2, <3>3, <3>5
  <2>6. ASSUME NEW q \in rows, Len(q.hash) > Len(p.hash)
        PROVE q \notin Committed
    <3>1. ~(q.id < p.id) /\ q # p
      BY <2>6, <1>0, <1>c DEF Numbered
    <3>2. q.id # p.id
      BY <3>1, <1>c DEF Distinct
    <3>3. ~(q.id <= p.id)
      BY <3>1, <3>2, <1>0, <1>c
    <3> QED BY <2>1, <3>3
  <2> QED BY <1>1, <1>2, <2>2, <2>4, <2>5, <2>6
<1> QED BY <1>4, <1>5

\* The commit of a call that has logged writes its entries behind the others.
LEMMA CommitWrites ==
  ASSUME Inv, Numbered(rows), ReadAsHashed, ReadAsHashed', NEW t \in Transactions,
         Commit(t), chainLock = t, Committed' = rows, rows' = rows, Committed # rows
  PROVE Log!Next
<1>c. /\ Numbered(Committed) /\ Committed \in SUBSET rows /\ rows \in SUBSET Rows
      /\ Distinct(rows) /\ Distinct(Committed) /\ HasLast(rows) /\ HasLast(Committed)
  BY CommittedNumbered
<1>1. PICK r \in rows : /\ HashAfter(rows) = r.hash /\ \A q \in rows : q.id <= r.id
                        /\ Len(HashAfter(Committed)) < Len(r.hash)
                        /\ \A i \in 1..Len(HashAfter(Committed)) : HashAfter(Committed)[i] = r.hash[i]
                        /\ \A q \in rows : Len(q.hash) > Len(HashAfter(Committed))
                                             => q \notin Committed
  BY LastsOfTheParts
<1>2. PICK old, all : old = HashAfter(Committed) /\ all = r.hash
  OBVIOUS
<1>3. Entries = old /\ Entries' = all
  <2>1. Entries = HashAfter(Committed)
    BY DEF ReadAsHashed
  <2>2. Entries' = HashAfter(rows)
    BY DEF ReadAsHashed, HashAfter, LastOf, Genesis
  <2> QED BY <2>1, <2>2, <1>1, <1>2
<1>4. /\ old \in Seq(Events) /\ all \in Seq(Events) /\ Len(old) \in Nat /\ Len(all) \in Nat
      /\ Len(old) < Len(all) /\ \A i \in 1..Len(old) : old[i] = all[i]
  BY <1>1, <1>2, <1>c, HashAfterType DEF Hashes, Rows
<1>5. \A i \in 1..Len(all) : i > Len(old) => all[i].tx = t
  <2> SUFFICES ASSUME NEW i \in 1..Len(all), i > Len(old) PROVE all[i].tx = t
    OBVIOUS
  <2>1. PICK q \in rows : Len(q.hash) = i /\ q.event = all[i]
    BY <1>2 DEF Numbered
  <2>2. q \notin Committed
    BY <2>1, <1>1, <1>2
  <2> QED BY <2>1, <2>2 DEF Inv, Own
<1>6. \A i \in 1..Len(old) : old[i].tx # t
  <2> SUFFICES ASSUME NEW i \in 1..Len(old) PROVE old[i].tx # t
    OBVIOUS
  <2>1. Committed # {}
    <3>1. CASE Committed = {}
      BY <3>1, <1>2 DEF HashAfter, Genesis
    <3> QED BY <3>1
  <2>2. PICK p \in Committed : \A q \in Committed : q.id <= p.id
    BY <2>1, <1>c DEF HasLast
  <2>3. old = p.hash
    BY <1>c, <1>2, <2>2, LastIs
  <2>4. PICK q \in Committed : q.event = old[i]
    BY <1>c, <2>3 DEF Numbered
  <2>5. tx[t].phase # "done" /\ t # None
    BY NoneAssumption DEF Commit
  <2> QED BY <2>4, <2>5 DEF Committed
<1>7. PICK es : es = SubSeq(all, Len(old) + 1, Len(all))
  OBVIOUS
<1>8. /\ Len(es) = Len(all) - Len(old)
      /\ \A i \in 1..Len(es) : es[i].tx = t
  <2>1. /\ Len(es) = Len(all) - Len(old)
        /\ \A i \in 1..Len(es) : es[i] = all[Len(old) + i]
    BY <1>4, <1>7
  <2>2. \A i \in 1..Len(es) : Len(old) + i \in 1..Len(all) /\ Len(old) + i > Len(old)
    BY <2>1, <1>4
  <2> QED BY <2>1, <2>2, <1>5
<1>9. Log!Write(es)
  BY <1>3, <1>6, <1>8 DEF Log!Write
<1>10. Log!IsStrictPrefix(old, all)
  <2>1. SubSeq(old, 1, Len(old)) = SubSeq(all, 1, Len(old))
    <3>1. /\ SubSeq(old, 1, Len(old)) \in Seq(Events) /\ Len(SubSeq(old, 1, Len(old))) = Len(old)
          /\ \A i \in 1..Len(old) : SubSeq(old, 1, Len(old))[i] = old[i]
      BY <1>4
    <3>2. /\ SubSeq(all, 1, Len(old)) \in Seq(Events) /\ Len(SubSeq(all, 1, Len(old))) = Len(old)
          /\ \A i \in 1..Len(old) : SubSeq(all, 1, Len(old))[i] = all[i]
      BY <1>4
    <3> QED BY <3>1, <3>2, <1>4, SeqEqual
  <2>2. old # all
    BY <1>4
  <2> QED BY <2>1, <2>2, <1>4 DEF Log!IsStrictPrefix, Log!IsPrefix
<1> QED BY <1>3, <1>4, <1>7, <1>9, <1>10 DEF Log!Next

\* The audit chain implements the log: it grows at its end, by whole calls.
THEOREM ChainImplementsLog == Spec => ImplementsLog
<1>1. Init => Log!Init
  <2> SUFFICES ASSUME Init PROVE Log!Init
    OBVIOUS
  <2>1. Inv /\ Numbered(rows)
    BY InitInv, InitNumbered
  <2>2. Entries = HashAfter(Committed)
    BY <2>1, EntriesAreTheHash DEF ReadAsHashed
  <2>3. HashAfter(Committed) \in Seq(Events)
    BY <2>1, CommittedNumbered, HashAfterType DEF Hashes
  <2> QED BY <2>2, <2>3 DEF Log!Init
<1>2. ASSUME Inv, Numbered(rows), ReadAsHashed, ReadAsHashed', [Next]_vars
      PROVE [Log!Next]_Entries
  <2>1. CASE Committed' = Committed
    BY <2>1 DEF Entries, Below
  <2>2. ASSUME NEW t \in Transactions, Commit(t), chainLock = t, Committed' = rows, rows' = rows
        PROVE [Log!Next]_Entries
    BY <1>2, <2>1, <2>2, CommitWrites
  <2> QED BY <1>2, <2>1, <2>2, RowsOfAStep
<1> QED BY <1>1, <1>2, NumberedHolds, PTL DEF Spec, ImplementsLog, Log!Spec
===============================================================================

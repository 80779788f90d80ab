------------------------ MODULE ScheduledSweepsProofs ------------------------
(***************************************************************************)
(* Proofs about ScheduledSweeps, for any number of replicas, requests,     *)
(* background tasks, cases and accounts.  The lock makes the run of one    *)
(* runner the only one whose reminders are not committed; the unique index *)
(* does the same for the documents.                                        *)
(***************************************************************************)
EXTENDS ScheduledSweeps, FiniteSetTheorems, TLAPS

\* Whoever is inside a run holds the lock.
LockHeld == \A r \in Runners : pc[r] \in Working => leader = r

\* Only between its reminders and its commit has a run rows that are not committed,
\* and none of them has been committed by another.
DraftsAreFresh ==
  \A r \in Runners :
    /\ pc[r] # "archiving" => drafts[r] = {}
    /\ \A a \in drafts[r] : notes[a] = 0

\* A document that is not committed is the only one of its case.
InsertedIsFirst ==
  \A m \in Makers : \A c \in inserted[m] :
    /\ docs[c] = None
    /\ \A n \in Makers \ {m} : c \notin inserted[n]

Inv ==
  /\ TypeOK
  /\ LockHeld
  /\ DraftsAreFresh
  /\ NoDoubleReminder
  /\ InsertedIsFirst
  /\ CopiesAgree

USE NoneAssumption, RunnersAssumption, PeopleAssumption, BoundsAssumption

-------------------------------------------------------------------------------
LEMMA InitInv == Init => Inv
  BY DEF Init, Inv, TypeOK, LockHeld, DraftsAreFresh, NoDoubleReminder,
         InsertedIsFirst, CopiesAgree, Stages, Working, Makers, Runners

-------------------------------------------------------------------------------
(* What a step reads and writes is well typed *)

\* The owner of a stage is an account, or the empty seat.
LEMMA OwnersType ==
  ASSUME TypeOK, NEW c \in Cases
  PROVE  Owners(c) \subseteq Users \cup {None}
<1>1. Seats[c].sup \in Users \cup {None} /\ Seats[c].deputy \in Users \cup {None} /\ Seats[c].ceo \in Users
  BY SeatsAssumption
<1>2. ActiveHr \subseteq Users
  BY DEF ActiveHr
<1>3. Scorer(c) \in Users \cup {None}
  BY <1>1 DEF Scorer
<1>4. QED
  BY <1>1, <1>2, <1>3 DEF Owners

\* Without an empty seat among the owners, what is due is a set of reminders.
LEMMA AlertsType ==
  ASSUME TypeOK, ~Raises(AlertsDue)
  PROVE  AlertsDue \subseteq Alerts
<1>1. ASSUME NEW a \in SlaAlerts PROVE a \in Alerts
  <2>1. PICK c \in Cases : /\ stage[c] \in OpenStages
                           /\ a \in Owners(c) \X {<<"sla", c, stage[c]>>}
    BY DEF SlaAlerts, TypeOK
  <2>2. PICK u \in Owners(c) : a = <<u, <<"sla", c, stage[c]>>>>
    BY <2>1
  <2>3. u # None
    <3>1. a \in AlertsDue
      BY DEF AlertsDue
    <3>2. QED
      BY <3>1, <2>2 DEF Raises
  <2>4. u \in Users
    BY <2>3, OwnersType
  <2>5. <<"sla", c, stage[c]>> \in Keys
    BY <2>1 DEF Keys
  <2>6. QED
    BY <2>2, <2>4, <2>5 DEF Alerts
<1>2. ASSUME NEW a \in OrphanAlerts PROVE a \in Alerts
  <2>1. PICK c \in Cases : /\ IsOrphaned(c)
                           /\ a \in ActiveHr \X {<<"orphaned", c, stage[c]>>}
    BY DEF OrphanAlerts
  <2>2. <<"orphaned", c, stage[c]>> \in Keys
    BY <2>1 DEF Keys, IsOrphaned
  <2>3. QED
    BY <2>1, <2>2 DEF Alerts, ActiveHr
<1>3. ASSUME NEW a \in TopicAlerts PROVE a \in Alerts
  BY DEF TopicAlerts, Alerts, ActiveHr, Keys, TypeOK
<1>4. QED
  BY <1>1, <1>2, <1>3 DEF AlertsDue

\* The number of closed cases is a number.
LEMMA ClosedCount == Cardinality(Finalized) \in Nat
<1>1. IsFiniteSet(Finalized)
  BY CasesAssumption, FS_Subset DEF Finalized
<1>2. QED
  BY <1>1, FS_CardinalityType

-------------------------------------------------------------------------------
(* The steps of the world *)

LEMMA WorldStep ==
  ASSUME Inv,
         \/ \E c \in Cases : Move(c) \/ Stall(c)
         \/ \E t \in Topics : TopicChanges(t)
         \/ \E u \in Leavers : ActivityChanges(u)
  PROVE  Inv'
<1> DEFINE Same == UNCHANGED <<notes, runs, archive, faults>>
<1>1. Same
  BY DEF Move, Stall, TopicChanges, ActivityChanges
<1>2. stage' \in [Cases -> Stages] /\ stalled' \subseteq Cases /\ closedAt' \in [Cases -> Nat]
      /\ due' \subseteq Topics /\ active' \subseteq Users
  <2>1. ASSUME NEW c \in Cases, Move(c) PROVE <1>2!:
    BY <2>1, ClosedCount DEF Inv, TypeOK, Move
  <2>2. ASSUME NEW c \in Cases, Stall(c) PROVE <1>2!:
    BY <2>2 DEF Inv, TypeOK, Stall
  <2>3. ASSUME NEW t \in Topics, TopicChanges(t) PROVE <1>2!:
    BY <2>3 DEF Inv, TypeOK, TopicChanges
  <2>4. ASSUME NEW u \in Leavers, ActivityChanges(u) PROVE <1>2!:
    BY <2>4 DEF Inv, TypeOK, ActivityChanges
  <2>5. QED
    BY <2>1, <2>2, <2>3, <2>4
<1>3. TypeOK'
  BY <1>1, <1>2 DEF Inv, TypeOK, runs, archive
<1>4. QED
  BY <1>1, <1>3 DEF Inv, LockHeld, DraftsAreFresh, NoDoubleReminder, InsertedIsFirst,
                    CopiesAgree, runs, archive

LEMMA ElapseStep ==
  ASSUME Inv, NEW a \in Alerts, DedupElapses(a)
  PROVE  Inv'
<1>1. notes' \in [Alerts -> Nat] /\ \A b \in Alerts : notes'[b] <= notes[b]
  BY DEF Inv, TypeOK, DedupElapses
<1>2. TypeOK' /\ LockHeld' /\ InsertedIsFirst' /\ CopiesAgree'
  BY <1>1 DEF Inv, TypeOK, DedupElapses, LockHeld, InsertedIsFirst, CopiesAgree,
              world, runs, archive
<1>3. DraftsAreFresh'
  BY <1>1 DEF Inv, TypeOK, DedupElapses, DraftsAreFresh, runs
<1>4. NoDoubleReminder'
  BY <1>1 DEF Inv, TypeOK, NoDoubleReminder
<1>5. QED
  BY <1>2, <1>3, <1>4 DEF Inv

-------------------------------------------------------------------------------
(* The steps of a run *)

\* Taking the lock, letting it go, and coming up again touch no row.
LEMMA LockStep ==
  ASSUME Inv, NEW r \in Runners, Acquire(r) \/ Unlock(r) \/ Restart(r)
  PROVE  Inv'
<1>1. UNCHANGED <<world, notes, drafts, backlog, archive, faults>>
  BY DEF Acquire, Unlock, Restart
<1>2. CASE Acquire(r)
  <2>1. \A q \in Runners : pc[q] \notin Working
    BY <1>2 DEF Inv, LockHeld, Acquire, LockFree, Runners, Makers
  <2>2. TypeOK' /\ LockHeld' /\ DraftsAreFresh'
    BY <1>1, <1>2, <2>1 DEF Inv, TypeOK, LockHeld, DraftsAreFresh, Acquire, Working,
                            world, archive
  <2>3. QED
    BY <1>1, <2>2 DEF Inv, NoDoubleReminder, InsertedIsFirst, CopiesAgree, archive
<1>3. CASE Unlock(r)
  <2>1. \A q \in Runners \ {r} : pc[q] \notin Working
    BY <1>3 DEF Inv, LockHeld, Unlock, Working
  <2>2. TypeOK' /\ LockHeld' /\ DraftsAreFresh'
    BY <1>1, <1>3, <2>1 DEF Inv, TypeOK, LockHeld, DraftsAreFresh, Unlock, Working,
                            world, archive
  <2>3. QED
    BY <1>1, <2>2 DEF Inv, NoDoubleReminder, InsertedIsFirst, CopiesAgree, archive
<1>4. CASE Restart(r)
  <2>1. TypeOK' /\ LockHeld' /\ DraftsAreFresh'
    BY <1>1, <1>4 DEF Inv, TypeOK, LockHeld, DraftsAreFresh, Restart, Working,
                      world, archive
  <2>2. QED
    BY <1>1, <2>1 DEF Inv, NoDoubleReminder, InsertedIsFirst, CopiesAgree, archive
<1>5. QED
  BY <1>2, <1>3, <1>4

\* A rollback takes back every row the runner has not committed.
LEMMA Undone ==
  ASSUME Inv, NEW r \in Runners, NEW to \in {"unlocking", "down"},
         pc' = [pc EXCEPT ![r] = to],
         drafts' = [drafts EXCEPT ![r] = {}],
         backlog' = [backlog EXCEPT ![r] = {}],
         inserted' = [inserted EXCEPT ![r] = {}],
         leader' = LockAfterCrash(r) \/ (leader' = leader /\ pc[r] \in Working),
         to = "unlocking" => leader' = leader /\ pc[r] \in Working,
         faults' \in 0..MaxFaults,
         UNCHANGED <<world, notes, docs, rendering, served>>
  PROVE  Inv'
<1>1. TypeOK'
  BY DEF Inv, TypeOK, Working, LockAfterCrash, world, Makers
<1>2. LockHeld'
  BY DEF Inv, TypeOK, LockHeld, Working, LockAfterCrash
<1>3. DraftsAreFresh'
  BY DEF Inv, TypeOK, DraftsAreFresh
<1>4. InsertedIsFirst'
  BY DEF Inv, TypeOK, InsertedIsFirst, Makers
<1>5. QED
  BY <1>1, <1>2, <1>3, <1>4 DEF Inv, NoDoubleReminder, CopiesAgree

LEMMA FailingStep ==
  ASSUME Inv, NEW r \in Runners, RunFails(r) \/ Crash(r)
  PROVE  Inv'
<1>1. faults' \in 0..MaxFaults
  BY DEF Inv, TypeOK, RunFails, Crash
<1>2. CASE RunFails(r)
  BY <1>1, <1>2, Undone DEF RunFails, RolledBack, Working
<1>3. CASE Crash(r)
  BY <1>1, <1>3, Undone DEF Crash
<1>4. QED
  BY <1>2, <1>3

LEMMA RemindStep ==
  ASSUME Inv, NEW r \in Runners, Remind(r)
  PROVE  Inv'
<1>1. CASE Raises(AlertsDue)
  <2>1. RolledBack(r) /\ UNCHANGED faults /\ pc[r] \in Working
    BY <1>1 DEF Remind, Working
  <2>2. faults' \in 0..MaxFaults
    BY <2>1 DEF Inv, TypeOK
  <2>3. QED
    BY <2>1, <2>2, Undone DEF RolledBack
<1>2. CASE ~Raises(AlertsDue)
  <2>1. /\ pc[r] = "sweeping" /\ pc' = [pc EXCEPT ![r] = "archiving"]
        /\ drafts' = [drafts EXCEPT ![r] = Fresh(AlertsDue)]
        /\ backlog' = [backlog EXCEPT ![r] = NextToArchive]
        /\ UNCHANGED <<world, notes, leader, archive, faults>>
    BY <1>2 DEF Remind
  <2>2. Fresh(AlertsDue) \subseteq Alerts /\ \A a \in Fresh(AlertsDue) : notes[a] = 0
    BY <1>2, AlertsType DEF Fresh, Inv
  <2>3. NextToArchive \subseteq Cases
    BY DEF NextToArchive, Undocumented, Finalized
  <2>4. TypeOK'
    BY <2>1, <2>2, <2>3 DEF Inv, TypeOK, Working, world, archive
  <2>5. LockHeld'
    BY <2>1 DEF Inv, TypeOK, LockHeld, Working
  <2>6. DraftsAreFresh'
    BY <2>1, <2>2 DEF Inv, TypeOK, DraftsAreFresh
  <2>7. QED
    BY <2>1, <2>4, <2>5, <2>6 DEF Inv, NoDoubleReminder, InsertedIsFirst, CopiesAgree, archive
<1>3. QED
  BY <1>1, <1>2

LEMMA ArchiveStep ==
  ASSUME Inv, NEW r \in Runners, Archive(r) \/ ArchiveFails(r)
  PROVE  Inv'
<1>1. CASE ArchiveFails(r)
  <2>1. TypeOK'
    BY <1>1 DEF Inv, TypeOK, ArchiveFails, world, archive
  <2>2. QED
    BY <1>1, <2>1 DEF Inv, ArchiveFails, LockHeld, DraftsAreFresh, NoDoubleReminder,
                      InsertedIsFirst, CopiesAgree, archive
<1>2. CASE Archive(r)
  <2>1. PICK c \in backlog[r] :
          /\ MayInsert(r, c)
          /\ inserted' = IF Conflicts(c) THEN inserted
                         ELSE [inserted EXCEPT ![r] = @ \cup {c}]
          /\ backlog' = [backlog EXCEPT ![r] = @ \ {c}]
    BY <1>2 DEF Archive
  <2>2. UNCHANGED <<world, notes, leader, pc, drafts, docs, rendering, served, faults>>
    BY <1>2 DEF Archive
  <2>3. TypeOK'
    BY <2>1, <2>2 DEF Inv, TypeOK, world, Makers
  <2>4. InsertedIsFirst'
    BY <2>1, <2>2 DEF Inv, TypeOK, InsertedIsFirst, MayInsert, Conflicts, HasDocument, Makers
  <2>5. QED
    BY <2>2, <2>3, <2>4 DEF Inv, LockHeld, DraftsAreFresh, NoDoubleReminder, CopiesAgree
<1>3. QED
  BY <1>1, <1>2

\* The commit of a run: every other run has no reminder in hand.
LEMMA CommitStep ==
  ASSUME Inv, NEW r \in Runners, Commit(r)
  PROVE  Inv'
<1>1. pc[r] = "archiving" /\ leader = r
  BY DEF Commit, Inv, LockHeld, Working
<1>2. \A q \in Runners \ {r} : drafts[q] = {}
  BY <1>1 DEF Inv, LockHeld, DraftsAreFresh, Working
<1>3. /\ pc' = [pc EXCEPT ![r] = "unlocking"]
      /\ notes' = [a \in Alerts |-> IF a \in drafts[r] THEN notes[a] + 1 ELSE notes[a]]
      /\ docs' = [c \in Cases |-> IF c \in inserted[r] THEN r ELSE docs[c]]
      /\ drafts' = [drafts EXCEPT ![r] = {}]
      /\ inserted' = [inserted EXCEPT ![r] = {}]
      /\ UNCHANGED <<world, leader, backlog, rendering, served, faults>>
  BY DEF Commit
<1>4. TypeOK'
  <2>1. notes' \in [Alerts -> Nat]
    BY <1>3 DEF Inv, TypeOK
  <2>2. docs' \in [Cases -> Makers \cup {None}]
    BY <1>3 DEF Inv, TypeOK, Makers
  <2>3. QED
    BY <1>3, <2>1, <2>2 DEF Inv, TypeOK, Working, world, Makers
<1>5. LockHeld'
  BY <1>1, <1>3 DEF Inv, TypeOK, LockHeld, Working
<1>6. DraftsAreFresh'
  BY <1>2, <1>3 DEF Inv, TypeOK, DraftsAreFresh
<1>7. NoDoubleReminder'
  BY <1>3 DEF Inv, TypeOK, NoDoubleReminder, DraftsAreFresh
<1>8. InsertedIsFirst'
  BY <1>3 DEF Inv, TypeOK, InsertedIsFirst, Makers
<1>9. CopiesAgree'
  <2>1. SUFFICES ASSUME NEW copy \in served PROVE docs'[copy[1]] = copy[2]
    BY <1>3 DEF CopiesAgree
  <2>2. copy[1] \in Cases /\ copy[2] \in Makers /\ docs[copy[1]] = copy[2]
    BY DEF Inv, TypeOK, CopiesAgree
  <2>3. copy[1] \notin inserted[r]
    BY <2>2 DEF Inv, InsertedIsFirst, Makers
  <2>4. QED
    BY <1>3, <2>2, <2>3
<1>10. QED
  BY <1>4, <1>5, <1>6, <1>7, <1>8, <1>9 DEF Inv

-------------------------------------------------------------------------------
(* Background tasks and downloads *)

LEMMA RendererStep ==
  ASSUME Inv, NEW m \in Renderers,
         \/ \E c \in Cases : Serve(m, c) \/ StartRendering(m, c)
         \/ Insert(m) \/ CommitDocument(m) \/ RenderingLost(m)
  PROVE  Inv'
<1>1. UNCHANGED <<world, notes, runs, faults>>
  BY DEF Serve, StartRendering, Insert, CommitDocument, RenderingLost
<1>2. LockHeld' /\ DraftsAreFresh' /\ NoDoubleReminder'
  BY <1>1 DEF Inv, LockHeld, DraftsAreFresh, NoDoubleReminder, runs
<1>3. ASSUME docs' \in [Cases -> Makers \cup {None}],
             rendering' \in [Renderers -> Cases \cup {None}],
             inserted' \in [Makers -> SUBSET Cases],
             served' \subseteq Cases \X Makers
      PROVE  TypeOK'
  BY <1>1, <1>3 DEF Inv, TypeOK, world, runs
<1>4. ASSUME NEW c \in Cases, Serve(m, c) PROVE Inv'
  <2>1. TypeOK' /\ CopiesAgree'
    BY <1>3, <1>4 DEF Inv, TypeOK, CopiesAgree, Serve, HasDocument
  <2>2. QED
    BY <1>2, <1>4, <2>1 DEF Inv, InsertedIsFirst, Serve
<1>5. ASSUME NEW c \in Cases, StartRendering(m, c) PROVE Inv'
  <2>1. TypeOK'
    BY <1>3, <1>5 DEF Inv, TypeOK, StartRendering
  <2>2. QED
    BY <1>2, <1>5, <2>1 DEF Inv, InsertedIsFirst, CopiesAgree, StartRendering
<1>6. CASE Insert(m)
  <2> DEFINE c == rendering[m]
  <2>1. c \in Cases
    BY <1>6 DEF Insert, Inv, TypeOK
  <2>2. CASE Conflicts(c)
    <3>1. TypeOK' /\ CopiesAgree'
      BY <1>3, <1>6, <2>1, <2>2 DEF Inv, TypeOK, CopiesAgree, Insert, Conflicts, HasDocument
    <3>2. QED
      BY <1>2, <1>6, <2>2, <3>1 DEF Inv, InsertedIsFirst, Insert
  <2>3. CASE ~Conflicts(c)
    <3>1. /\ inserted' = [inserted EXCEPT ![m] = {c}] /\ UNCHANGED <<docs, served, rendering>>
          /\ MayInsert(m, c) /\ docs[c] = None
      BY <1>6, <2>3 DEF Insert, Conflicts, HasDocument
    <3>2. TypeOK'
      BY <1>3, <2>1, <3>1 DEF Inv, TypeOK, Makers
    <3>3. InsertedIsFirst'
      BY <2>1, <3>1 DEF Inv, TypeOK, InsertedIsFirst, MayInsert, Makers
    <3>4. QED
      BY <1>2, <3>1, <3>2, <3>3 DEF Inv, CopiesAgree
  <2>4. QED
    BY <2>2, <2>3
<1>7. CASE CommitDocument(m)
  <2> DEFINE c == rendering[m]
  <2>1. /\ c \in inserted[m] /\ c \in Cases /\ docs[c] = None
        /\ \A n \in Makers \ {m} : c \notin inserted[n]
    BY <1>7 DEF CommitDocument, Inv, TypeOK, InsertedIsFirst, Makers
  <2>2. /\ docs' = [docs EXCEPT ![c] = m] /\ served' = served \cup {<<c, m>>}
        /\ rendering' = [rendering EXCEPT ![m] = None]
        /\ inserted' = [inserted EXCEPT ![m] = {}]
    BY <1>7 DEF CommitDocument
  <2>3. TypeOK'
    BY <1>3, <2>1, <2>2 DEF Inv, TypeOK, Makers
  <2>4. InsertedIsFirst'
    BY <2>1, <2>2 DEF Inv, TypeOK, InsertedIsFirst, Makers
  <2>5. CopiesAgree'
    BY <2>1, <2>2 DEF Inv, TypeOK, CopiesAgree
  <2>6. QED
    BY <1>2, <2>3, <2>4, <2>5 DEF Inv
<1>8. CASE RenderingLost(m)
  <2>1. TypeOK'
    BY <1>3, <1>8 DEF Inv, TypeOK, RenderingLost, Makers
  <2>2. InsertedIsFirst'
    BY <1>8 DEF Inv, TypeOK, InsertedIsFirst, RenderingLost, Makers
  <2>3. QED
    BY <1>2, <1>8, <2>1, <2>2 DEF Inv, CopiesAgree, RenderingLost
<1>9. QED
  BY <1>4, <1>5, <1>6, <1>7, <1>8

-------------------------------------------------------------------------------
(* The theorems *)

LEMMA NextInv == Inv /\ [Next]_vars => Inv'
<1>1. ASSUME Inv, Next PROVE Inv'
  BY <1>1, WorldStep, ElapseStep, LockStep, FailingStep, RemindStep, ArchiveStep, CommitStep,
     RendererStep DEF Next
<1>2. ASSUME Inv, UNCHANGED vars PROVE Inv'
  BY <1>2 DEF vars, world, runs, archive, Inv, TypeOK, LockHeld, DraftsAreFresh,
              NoDoubleReminder, InsertedIsFirst, CopiesAgree
<1>3. QED
  BY <1>1, <1>2

\* The lock and the unique index keep what a run and a request have in hand
\* apart, through every crash and rollback.
THEOREM SweepsInvariant == Spec => []Inv
<1>1. QED
  BY InitInv, NextInv, PTL DEF Spec

\* Every reachable state of the scheduled work is well typed; no document that
\* is given out is missing.
THEOREM SweepsTypeCorrect == Spec => []TypeOK
<1>1. Inv => TypeOK
  BY DEF Inv
<1>2. QED
  BY <1>1, SweepsInvariant, PTL

\* Nobody is reminded twice inside the window, for any number of replicas.
THEOREM RemindersAreSingle == Spec => []NoDoubleReminder
<1>1. Inv => NoDoubleReminder
  BY DEF Inv
<1>2. QED
  BY <1>1, SweepsInvariant, PTL

\* Every copy given out is the archived one, for any number of makers.
THEOREM ArchivedCopiesAgree == Spec => []CopiesAgree
<1>1. Inv => CopiesAgree
  BY DEF Inv
<1>2. QED
  BY <1>1, SweepsInvariant, PTL
===============================================================================

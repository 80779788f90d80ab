------------------------------- MODULE EventLog -------------------------------
(***************************************************************************)
(* What the audit log promises: it only grows at its end, and what one     *)
(* call writes appears at once, together and once.                         *)
(***************************************************************************)
EXTENDS Sequences, SequencesExt

CONSTANT Events   \* what an entry can say; e.tx is the call that wrote it

VARIABLE entries

Init == entries \in Seq(Events)

\* A call writes its entries behind the ones that are there.
Write(es) ==
  /\ \A m, n \in 1..Len(es) : es[m].tx = es[n].tx
  /\ \A m \in 1..Len(es), n \in 1..Len(entries) : es[m].tx # entries[n].tx

Next ==
  /\ IsStrictPrefix(entries, entries')
  /\ entries' \in Seq(Events)
  /\ Write(SubSeq(entries', Len(entries) + 1, Len(entries')))

Spec == Init /\ [][Next]_entries
===============================================================================

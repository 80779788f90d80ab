---------------------------- MODULE MCAuditChain ----------------------------
(* A small instance of AuditChain. *)
EXTENDS AuditChain, TLC

\* One event from before the migration.
Seeded == <<[tx |-> None, about |-> None]>>
===============================================================================

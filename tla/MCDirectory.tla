---------------------------- MODULE MCDirectory -----------------------------
(***************************************************************************)
(* An installation in use: a support account with every capability, one    *)
(* of HR with the usual ones, a CEO who has never signed in, and one       *)
(* employee's row; three calls, two of them overlapping.                   *)
(***************************************************************************)
EXTENDS Directory, TLC

CONSTANTS boss, clerk, lead, n1, n2, p1, p2, p3, u1, u2, s1, s2

MCIds == {boss, clerk, lead, n1, n2}
MCPeople == {p1, p2, p3}
MCUnits == {u1, u2}
MCSlots == {s1, s2}
MCNames == {"boss", "clerk", "lead", "new"}
MCFullNames == {"Lead", "Anna", "Omid", "Admin"}
MCFromEnv == [k \in {"sla_days"} |-> "env"]

MCJoinSite ==
  [e \in ({"plant"} \cup {None}) \X {"sales"} |-> IF e[1] = None THEN "sales" ELSE "plant / sales"]
MCEntries == {<<"plant", "sales">>}
MCRenames == {[site |-> "plant", name |-> "sales", is_active |-> TRUE],
              [site |-> None, name |-> "sales", is_active |-> FALSE]}

Row(code, active) ==
  [personnel_code |-> code, org_unit |-> "sales", is_manager |-> FALSE, active |-> active]

\* The first row seats the CEO by name, the second leaves the cell empty; the third
\* repeats a code, the last has an evaluator nobody knows.
Line(name, code, ceo, deputy, username) ==
  [readable |-> TRUE, full_name |-> name, person |-> Row(code, TRUE), sup |-> None,
   deputy |-> deputy, ceo |-> ceo, username |-> username]
MCFiles ==
  {<<Line("Anna", "c2", "Lead", None, "new"), Line("Omid", "c3", None, None, None)>>,
   <<Line("Omid", "c2", "lead", None, None), Line("Anna", "c2", None, None, None),
     Line("Anna", "c3", None, "Anna", None)>>}

MCForms ==
  {[username |-> "new", full_name |-> None, role |-> "hr"],
   [username |-> "new", full_name |-> None, role |-> "employee"]}
MCNewcomers ==
  {[person |-> Row("c2", TRUE), username |-> "new"], [person |-> Row("c3", TRUE), username |-> None]}

Patch(role, active, p) == [role |-> role, is_active |-> active, personnel_id |-> p]
MCPatches ==
  {Patch(Unset, FALSE, Unset), Patch("hr", Unset, Unset), Patch(Unset, Unset, p1)}
MCEdits ==
  {[personnel_code |-> "c2", org_unit |-> Unset, is_manager |-> TRUE, active |-> Unset],
   [personnel_code |-> Unset, org_unit |-> Unset, is_manager |-> Unset, active |-> FALSE]}
MCBundles == {{}, {"manage_capabilities", "manage_users"}}

Account(name, full, role, p) ==
  [username |-> name, full_name |-> full, role |-> role, is_active |-> TRUE, personnel_id |-> p]

InUse ==
  [account |-> [i \in MCIds |->
     CASE i = boss -> Account("boss", None, "support", None)
       [] i = clerk -> Account("clerk", None, "hr", p1)
       [] i = lead -> Account("lead", "Lead", "ceo", None)
       [] OTHER -> None],
   grants |-> [user : {boss}, capability : Capability, by : {None}]
              \cup [user : {clerk}, capability : DEFAULT_HR_CAPABILITIES, by : {None}],
   actors |-> {boss, clerk},
   person |-> [p \in MCPeople |-> IF p = p1 THEN Row("c1", TRUE) ELSE None],
   access |-> [p \in MCPeople |-> None],
   unit |-> [u \in MCUnits |->
     IF u = u1 THEN [site |-> None, name |-> "sales", is_active |-> TRUE] ELSE None]]

MCDirectories == {InUse}

Symmetry == Permutations({n1, n2}) \cup Permutations({p2, p3}) \cup Permutations(MCSlots)
=============================================================================

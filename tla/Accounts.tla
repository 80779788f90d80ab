------------------------------ MODULE Accounts ------------------------------
(***************************************************************************)
(* Accounts, the capabilities they hold, the sections that are switched    *)
(* off and the settings changed from the panel.  A handler reads, others   *)
(* run, and it commits: what it has read may be gone by then, and the      *)
(* constraints of the database decide.  An account that has left a trace   *)
(* in the audit log, or sits in a chain, cannot be deleted.                *)
(* Passwords and the tokens they end are in Sessions; the rows of people   *)
(* and of chains, which accounts refer to, are written in Directory.       *)
(* Sources: api/routers/users.py, administration.py, api/deps.py,          *)
(* services/authorization.py, integrations.py, bootstrap_admin.py,         *)
(* scripts/create_admin.py.                                                *)
(***************************************************************************)
EXTENDS Naturals

CONSTANTS
  None,
  Unset,        \* a field the body of a request does not name
  Ids,          \* ids of users, never given twice
  Names,        \* usernames
  FullNames,
  AdminName,    \* the name the first administrator gets
  People,       \* ids of personnel
  Codes,        \* personnel codes
  Places,       \* the texts of personnel.org_unit
  Replicas,     \* processes that serve the application
  Settings,     \* keys of integration_settings
  Policy,       \* those of the page of the rules; the others are of the channels
  Values,       \* the values the fields admit
  FromEnv,      \* FromEnv[k]: the value in .env
  Patches,      \* the bodies update_user gets in a run
  Bundles,      \* the sets of capabilities that are given in a run
  Slots,        \* how many calls can be in flight
  MaxCalls      \* bound on the calls of a run

Roles == {"hr", "unit_supervisor", "deputy", "ceo", "employee", "support"}
Capability ==
  {"manage_users", "manage_capabilities", "view_audit_log", "manage_scoring",
   "manage_integrations", "manage_modules", "view_diagnostics", "manage_personnel"}
DEFAULT_HR_CAPABILITIES == {"manage_users", "manage_personnel", "manage_scoring"}
Modules == {"self_assessment"}

UserPatches ==
  [role : Roles \cup {Unset}, is_active : BOOLEAN \cup {Unset},
   personnel_id : People \cup {None, Unset}]

ASSUME UnsetAssumption ==
  Unset \notin Roles /\ Unset \notin BOOLEAN /\ Unset \notin People \cup {None}
ASSUME PatchAssumption == Patches \subseteq UserPatches /\ Bundles \subseteq SUBSET Capability
ASSUME SettingAssumption == Policy \subseteq Settings /\ FromEnv \in [Settings -> Values]
ASSUME AdminAssumption == AdminName \in FullNames
ASSUME CallAssumption == MaxCalls \in Nat
ASSUME AbsentAssumption == None \notin Ids \cup Names \cup FullNames \cup People \cup Values

VARIABLES
  account,   \* account[i]: a row of users, or None
  deleted,   \* the ids of deleted accounts and units
  grants,    \* the rows of user_capabilities
  actors,    \* the accounts that rows of the audit log name
  off,       \* the sections module_settings switches off
  stored,    \* stored[k]: the value in integration_settings, or None
  effect,    \* effect[r][k]: the value a process works with
  person,    \* person[p]: a row of personnel, or None
  access,    \* access[p]: the chain of a person, or None
  call,      \* call[s]: the call in flight in a slot, with what it has read
  begun      \* how many calls have begun

people == <<person, access>>
panel == <<off, stored, effect>>

AccountRows ==
  [username : Names, full_name : FullNames \cup Names \cup {None}, role : Roles,
   is_active : BOOLEAN, personnel_id : People \cup {None}]
GrantRows == [user : Ids, capability : Capability, by : Ids \cup {None}]

ASSUME AccountAssumption == None \notin AccountRows

Exists(i) == account[i] # None
Free(i) == account[i] = None /\ i \notin deleted
NameTaken(n) == \E i \in Ids : Exists(i) /\ account[i].username = n
LinkedTo(p) == {i \in Ids : Exists(i) /\ account[i].personnel_id = p}
Occupants(chain) == {chain.sup, chain.deputy, chain.ceo} \ {None}
SitsFor(i, p) == access[p] # None /\ i \in Occupants(access[p])

-------------------------------------------------------------------------------
(* Calls *)

Begins(s, c) ==
  /\ call[s] = None /\ begun < MaxCalls
  /\ call' = [call EXCEPT ![s] = c]
  /\ begun' = begun + 1

\* A call of one transaction that depends on nothing it has read before.
AtOnce ==
  /\ begun < MaxCalls
  /\ begun' = begun + 1
  /\ UNCHANGED call

At(s, op) == call[s] # None /\ call[s].op = op

Ends(s) == call' = [call EXCEPT ![s] = None] /\ UNCHANGED begun

\* log_event: the log names the actor, who must still be there.
Logs(a) == Exists(a) /\ actors' = actors \cup {a}

\* An error, a constraint that refuses the flush, or a restart.
Rollback(s) ==
  /\ call[s] # None
  /\ Ends(s)
  /\ UNCHANGED <<account, deleted, grants, actors, panel, people>>

-------------------------------------------------------------------------------
(* Rights *)

\* capabilities_of
CapabilitiesOf(i) == {g.capability : g \in {h \in grants : h.user = i}}

\* get_current_user: a token comes from a login, and a login is logged.
SignedIn(i) == Exists(i) /\ account[i].is_active /\ i \in actors

\* require_capability
MayUse(i, c) == SignedIn(i) /\ c \in CapabilitiesOf(i)

\* require_role_or_capability(hr, manage_personnel)
MayManagePeople(i) ==
  SignedIn(i) /\ (account[i].role = "hr" \/ "manage_personnel" \in CapabilitiesOf(i))

\* apply_default_hr_capabilities: what was there is deleted.
WithDefaults(i, rows) ==
  {g \in rows : g.user # i}
    \cup [user : {i}, capability : DEFAULT_HR_CAPABILITIES, by : {None}]

-------------------------------------------------------------------------------
(* Accounts *)

\* login; the attempts and the session are in Sessions.
Login(i) ==
  /\ Exists(i) /\ account[i].is_active
  /\ Logs(i)
  /\ AtOnce
  /\ UNCHANGED <<account, deleted, grants, panel, people>>

BeginCreateUser(s, a, n, full, r, p) ==
  /\ MayUse(a, "manage_users")
  /\ ~NameTaken(n)
  /\ p # None => person[p] # None
  /\ r = "employee" => p # None
  /\ Begins(s, [op |-> "create_user", by |-> a,
                row |-> [username |-> n, full_name |-> full, role |-> r,
                         is_active |-> TRUE, personnel_id |-> p]])
  /\ UNCHANGED <<account, deleted, grants, actors, panel, people>>

CreateUser(s) ==
  /\ At(s, "create_user")
  /\ LET row == call[s].row IN
     /\ ~NameTaken(row.username)
     /\ \E i \in Ids :
          /\ Free(i)
          /\ account' = [account EXCEPT ![i] = row]
          /\ grants' = IF row.role = "hr" THEN WithDefaults(i, grants) ELSE grants
  /\ Logs(call[s].by)
  /\ Ends(s)
  /\ UNCHANGED <<deleted, panel, people>>

\* Mutant: a field that is not named is written all the same.
Unmerged(new, old) == IF new = old THEN old ELSE new

Given(new, old) == IF new = Unset THEN old ELSE new

\* The row with the fields of a patch.
Patched(row, patch) ==
  [username |-> row.username, full_name |-> row.full_name,
   role |-> Given(patch.role, row.role),
   is_active |-> Given(patch.is_active, row.is_active),
   personnel_id |-> Given(patch.personnel_id, row.personnel_id)]

\* Only the fields that differ from the row as it was read are written.
Written(row, patch) ==
  [role |-> IF patch.role = row.role THEN Unset ELSE patch.role,
   is_active |-> IF patch.is_active = row.is_active THEN Unset ELSE patch.is_active,
   personnel_id |-> IF patch.personnel_id = row.personnel_id THEN Unset
                    ELSE patch.personnel_id]

\* The checks of update_user on what it has read.
MayBecome(a, i, patch) ==
  LET row == Patched(account[i], patch) IN
  /\ a = i => patch.is_active # FALSE /\ row.role = account[i].role
  /\ patch.personnel_id \notin {None, Unset} =>
       person[patch.personnel_id] # None /\ ~SitsFor(i, patch.personnel_id)
  /\ row.role = "employee" => row.personnel_id # None

\* An account that becomes one of HR gets the capabilities of HR for those it had.
BeginUpdateUser(s, a, i, patch) ==
  /\ MayUse(a, "manage_users")
  /\ Exists(i) /\ MayBecome(a, i, patch)
  /\ Begins(s, [op |-> "update_user", by |-> a, id |-> i,
                patch |-> Written(account[i], patch),
                resets |-> account[i].role # "hr" /\ patch.role = "hr"])
  /\ UNCHANGED <<account, deleted, grants, actors, panel, people>>

\* The row must still be there, and the trigger admits the link.
UpdateUser(s) ==
  /\ At(s, "update_user")
  /\ LET c == call[s] IN
     /\ Exists(c.id)
     /\ c.patch.personnel_id \notin {None, Unset} => ~SitsFor(c.id, c.patch.personnel_id)
     /\ account' = [account EXCEPT ![c.id] = Patched(account[c.id], c.patch)]
     /\ grants' = IF c.resets THEN WithDefaults(c.id, grants) ELSE grants
     /\ Logs(c.by)
  /\ Ends(s)
  /\ UNCHANGED <<deleted, panel, people>>

BeginDeleteUser(s, a, i) ==
  /\ MayUse(a, "manage_users")
  /\ Exists(i) /\ i # a
  /\ i \notin actors
  /\ Begins(s, [op |-> "delete_user", by |-> a, id |-> i])
  /\ UNCHANGED <<account, deleted, grants, actors, panel, people>>

\* Mutant: the chains are forgotten.
InLog(i) == i \in actors

\* Mutant: nothing but the chains refers to an account.
InChains(i) == \E p \in People : SitsFor(i, p)

\* The rows whose foreign key stops a deletion; what the account has created or
\* changed was logged in the same transaction.
Referenced(i) == i \in actors \/ \E p \in People : SitsFor(i, p)

\* What delete_user takes along: the capabilities of the account and those it gave.
Without(i, rows) == {g \in rows : g.user # i /\ g.by # i}

\* A deletion of a row that is gone is logged once more.
DeleteUser(s) ==
  /\ At(s, "delete_user")
  /\ LET i == call[s].id IN
     /\ ~Referenced(i)
     /\ account' = [account EXCEPT ![i] = None]
     /\ deleted' = deleted \cup {i}
     /\ grants' = Without(i, grants)
  /\ Logs(call[s].by)
  /\ Ends(s)
  /\ UNCHANGED <<panel, people>>

-------------------------------------------------------------------------------
(* Capabilities, sections and settings *)

\* has_active_admin
HasActiveAdmin ==
  \E i \in Ids :
    Exists(i) /\ account[i].is_active /\ "manage_capabilities" \in CapabilitiesOf(i)

BeginSetCapabilities(s, a, i, desired) ==
  LET current == CapabilitiesOf(i) IN
  /\ MayUse(a, "manage_capabilities")
  /\ Exists(i) /\ account[i].role # "employee"
  /\ "manage_capabilities" \in current \ desired =>
       \E j \in Ids \ {i} :
         Exists(j) /\ account[j].is_active /\ "manage_capabilities" \in CapabilitiesOf(j)
  /\ Begins(s, [op |-> "set_capabilities", by |-> a, id |-> i,
                add |-> desired \ current, drop |-> current \ desired])
  /\ UNCHANGED <<account, deleted, grants, actors, panel, people>>

\* uq_user_capability, and the foreign key of a new row.
SetCapabilities(s) ==
  /\ At(s, "set_capabilities")
  /\ LET c == call[s]
         kept == {g \in grants : g.user # c.id \/ g.capability \notin c.drop} IN
     /\ c.add # {} => Exists(c.id)
     /\ c.add \cap CapabilitiesOf(c.id) = {}
     /\ grants' = kept \cup [user : {c.id}, capability : c.add, by : {c.by}]
     /\ Logs(c.by)
  /\ Ends(s)
  /\ UNCHANGED <<account, deleted, panel, people>>

ToggleModule(a, key) ==
  /\ MayUse(a, "manage_modules")
  /\ off' = IF key \in off THEN off \ {key} ELSE off \cup {key}
  /\ Logs(a)
  /\ AtOnce
  /\ UNCHANGED <<account, deleted, grants, stored, effect, people>>

\* effective_values
Effective(rows) == [k \in Settings |-> IF rows[k] = None THEN FromEnv[k] ELSE rows[k]]

PageOf(k) == IF k \in Policy THEN "manage_modules" ELSE "manage_integrations"

\* save and refresh: the process works with the value before it is committed, and a
\* second save of the key waits for the row.
BeginSave(s, a, r, k, v) ==
  /\ MayUse(a, PageOf(k))
  /\ \A q \in Slots : At(q, "save") => call[q].key # k
  /\ Begins(s, [op |-> "save", by |-> a, key |-> k, value |-> v])
  /\ effect' = [effect EXCEPT ![r] = Effective([stored EXCEPT ![k] = v])]
  /\ UNCHANGED <<account, deleted, grants, actors, off, stored, people>>

Save(s) ==
  /\ At(s, "save")
  /\ stored' = [stored EXCEPT ![call[s].key] = call[s].value]
  /\ Logs(call[s].by)
  /\ Ends(s)
  /\ UNCHANGED <<account, deleted, grants, off, effect, people>>

\* lifespan: somebody who can grant is there, and the settings are loaded.
Start(r) ==
  /\ HasActiveAdmin
  /\ effect' = [effect EXCEPT ![r] = Effective(stored)]
  /\ AtOnce
  /\ UNCHANGED <<account, deleted, grants, actors, off, stored, people>>

\* ensure_bootstrap_admin finds nobody, and a name that is free.
BeginBootstrap(s, n) ==
  /\ ~HasActiveAdmin
  /\ ~NameTaken(n)
  /\ Begins(s, [op |-> "bootstrap", name |-> n])
  /\ UNCHANGED <<account, deleted, grants, actors, panel, people>>

AddAdmin(n) ==
  /\ ~NameTaken(n)
  /\ \E i \in Ids :
       /\ Free(i)
       /\ account' = [account EXCEPT ![i] =
            [username |-> n, full_name |-> AdminName, role |-> "support",
             is_active |-> TRUE, personnel_id |-> None]]
       /\ grants' = grants \cup [user : {i}, capability : Capability, by : {None}]
  /\ UNCHANGED <<deleted, actors, panel, people>>

Bootstrap(s) == At(s, "bootstrap") /\ AddAdmin(call[s].name) /\ Ends(s)

\* scripts.create_admin, with the role it gives unless told otherwise.
CreateAdmin(n) == AddAdmin(n) /\ AtOnce
===============================================================================

----------------------------- MODULE Directory ------------------------------
(***************************************************************************)
(* Personnel, entered one by one or from a spreadsheet, with the account   *)
(* and the chain of each; the catalogue of organisation units; and the     *)
(* accounts they refer to.  A file is read, validated row by row against   *)
(* the directory and inserted in one transaction; a name in it becomes a   *)
(* seat only when it stands for one account that may sit there.            *)
(* The open case of a person who leaves, or whose flag changes, and the    *)
(* later changes of a chain are in EvaluationWorkflow.                     *)
(* Sources: api/routers/personnel.py, org_units.py,                        *)
(* services/personnel_import.py, org_unit.py, scripts/bootstrap_org.py.    *)
(***************************************************************************)
EXTENDS Accounts, Sequences, Functions

CONSTANTS
  Units,       \* ids of org_units
  Sites,
  UnitNames,
  JoinSite,    \* join_site: the text a site and a name give
  Entries,     \* the rows <<site, name>> entered in a run
  Renames,     \* what update_org_unit makes of a row in a run
  Files,       \* the spreadsheets uploaded in a run, sequences of rows
  Edits,       \* the bodies update_personnel gets in a run
  Forms,       \* the accounts created in a run: username, full name, role
  Newcomers,   \* the people entered in a run: a row, and a username or None
  Directories  \* the installations a run starts from

PersonRows ==
  [personnel_code : Codes, org_unit : Places, is_manager : BOOLEAN, active : BOOLEAN]
ChainRows == [sup : Ids \cup {None}, deputy : Ids \cup {None}, ceo : Ids]
UnitRows == [site : Sites \cup {None}, name : UnitNames, is_active : BOOLEAN]

PersonPatches ==
  [personnel_code : Codes \cup {Unset}, org_unit : Places \cup {Unset},
   is_manager : BOOLEAN \cup {Unset}, active : BOOLEAN \cup {Unset}]

\* A row of a sheet.  "readable" stands for what the row alone decides: no field is
\* empty, flags and dates are understood and in order, the name is well formed.
Words == FullNames \cup Names
SheetRows ==
  [readable : BOOLEAN, full_name : FullNames, person : PersonRows,
   sup : Words \cup {None}, deputy : Words \cup {None}, ceo : Words \cup {None},
   username : Names \cup {None}]

ASSUME JoinAssumption == JoinSite \in [(Sites \cup {None}) \X UnitNames -> Places]
ASSUME EntryAssumption == Entries \subseteq (Sites \cup {None}) \X UnitNames
ASSUME RenameAssumption == Renames \subseteq UnitRows
ASSUME FileAssumption == Files \subseteq Seq(SheetRows)
ASSUME EditAssumption == Edits \subseteq PersonPatches
ASSUME UnsetFieldAssumption == Unset \notin Codes \cup Places
ASSUME FormAssumption ==
  /\ Forms \subseteq [username : Names, full_name : FullNames \cup {None}, role : Roles]
  /\ Newcomers \subseteq [person : PersonRows, username : Names \cup {None}]
ASSUME RowAssumption ==
  /\ None \notin PersonRows /\ None \notin ChainRows /\ None \notin UnitRows
  /\ Units \cap Ids = {}

VARIABLE unit   \* unit[u]: a row of org_units, or None

vars == <<account, deleted, grants, actors, panel, people, unit, call, begun>>

accounts == <<account, deleted, grants, actors>>

CodeTaken(c, but) ==
  \E p \in People \ {but} : person[p] # None /\ person[p].personnel_code = c

-------------------------------------------------------------------------------
(* The spreadsheet *)

ChainRank == [unit_supervisor |-> 1, deputy |-> 2, ceo |-> 3]
MayActAt(role, stage) == role \in DOMAIN ChainRank /\ ChainRank[role] >= ChainRank[stage]

Active == {i \in Ids : Exists(i) /\ account[i].is_active}

\* _evaluator_index: a full name first, then a username.
Matches(word) ==
  LET bearers == {i \in Active : account[i].full_name = word} IN
  IF bearers # {} THEN bearers ELSE {i \in Active : account[i].username = word}

\* Whom a cell of the chain seats: nobody if it is empty; else the one account it
\* stands for, if that is somebody else who may act at the stage.  {} is an error.
Seated(row, cell, stage) ==
  IF row[cell] = None THEN {None}
  ELSE {i \in Matches(row[cell]) :
          /\ row[cell] # row.full_name
          /\ Matches(row[cell]) = {i}
          /\ MayActAt(account[i].role, stage)}

\* An empty cell gets the CEO, when one alone has a full name.
SoleCeo ==
  LET ceos == {i \in Active : account[i].role = "ceo" /\ account[i].full_name # None} IN
  IF \E i \in Ids : ceos = {i} THEN ceos ELSE {None}

\* _resolve_chain
Resolved(row) ==
  {c \in [sup : IF row.person.is_manager THEN {None : i \in Seated(row, "sup", "unit_supervisor")}
                ELSE Seated(row, "sup", "unit_supervisor"),
          deputy : Seated(row, "deputy", "deputy"),
          ceo : IF row.ceo = None THEN SoleCeo ELSE Seated(row, "ceo", "ceo")] :
     /\ c.sup # None => c.sup # c.deputy
     /\ c.deputy # None => c.deputy # c.ceo}

Clashes(row, earlier) ==
  \/ CodeTaken(row.person.personnel_code, None)
  \/ row.person.personnel_code \in {e.person.personnel_code : e \in earlier}
  \/ row.username # None /\ (NameTaken(row.username)
                             \/ row.username \in {e.username : e \in earlier})

\* parse_workbook: what the rows without an error will insert.  has_chain asks for a
\* CEO alone.
Parsed(file) ==
  UNION {[person : {file[k].person}, username : {file[k].username},
          chain : {IF c.ceo = None THEN None ELSE c : c \in Resolved(file[k])}] :
           k \in {n \in DOMAIN file : file[n].readable
                                      /\ ~Clashes(file[n], {file[m] : m \in 1 .. n - 1})}}

-------------------------------------------------------------------------------
(* Personnel *)

Employee(n, p) ==
  [username |-> n, full_name |-> None, role |-> "employee", is_active |-> TRUE,
   personnel_id |-> p]

BeginCreatePersonnel(s, a, new, n) ==
  /\ MayManagePeople(a)
  /\ ~CodeTaken(new.personnel_code, None)
  /\ n # None => ~NameTaken(n)
  /\ Begins(s, [op |-> "add_people", by |-> a,
                rows |-> {[person |-> new, username |-> n, chain |-> None]}])
  /\ UNCHANGED <<accounts, panel, people, unit>>

BeginImport(s, a, file) ==
  /\ MayManagePeople(a)
  /\ Begins(s, [op |-> "add_people", by |-> a, rows |-> Parsed(file)])
  /\ UNCHANGED <<accounts, panel, people, unit>>

\* commit_import, and create_personnel for its one row: all of it or, when a code, a
\* name or an occupant of a chain is gone by now, nothing.
AddPeople(s) ==
  /\ At(s, "add_people")
  /\ LET rows == call[s].rows
         named == {row \in rows : row.username # None} IN
     /\ \A row \in rows : ~CodeTaken(row.person.personnel_code, None)
     /\ \A row \in named : ~NameTaken(row.username)
     /\ \A row \in rows : row.chain # None => \A i \in Occupants(row.chain) : Exists(i)
     /\ \E at \in Injection(rows, {p \in People : person[p] = None}),
           as \in Injection(named, {i \in Ids : Free(i)}) :
          /\ person' = [p \in People |->
               IF \E row \in rows : at[row] = p
               THEN (CHOOSE row \in rows : at[row] = p).person ELSE person[p]]
          /\ access' = [p \in People |->
               IF \E row \in rows : at[row] = p
               THEN (CHOOSE row \in rows : at[row] = p).chain ELSE access[p]]
          /\ account' = [i \in Ids |->
               IF \E row \in named : as[row] = i
               THEN LET row == CHOOSE row \in named : as[row] = i IN
                    Employee(row.username, at[row])
               ELSE account[i]]
  /\ Logs(call[s].by)
  /\ Ends(s)
  /\ UNCHANGED <<deleted, grants, panel, unit>>

Differing(new, old) == IF new = old THEN Unset ELSE new

BeginUpdatePersonnel(s, a, p, edit) ==
  /\ MayManagePeople(a)
  /\ person[p] # None
  /\ LET row == person[p]
         code == Differing(edit.personnel_code, row.personnel_code) IN
     /\ code # Unset => ~CodeTaken(code, p)
     /\ Begins(s, [op |-> "update_personnel", by |-> a, id |-> p,
                   patch |-> [personnel_code |-> code,
                              org_unit |-> Differing(edit.org_unit, row.org_unit),
                              is_manager |-> Differing(edit.is_manager, row.is_manager),
                              active |-> Differing(edit.active, row.active)],
                   manager |-> Given(edit.is_manager, row.is_manager)])
  /\ UNCHANGED <<accounts, panel, people, unit>>

\* _close_out_departure: one of the accounts linked to the person, active or not.
ClosesAccount(p) ==
  IF LinkedTo(p) = {} THEN UNCHANGED account
  ELSE \E i \in LinkedTo(p) : account' = [account EXCEPT ![i].is_active = FALSE]

UpdatePersonnel(s) ==
  /\ At(s, "update_personnel")
  /\ LET c == call[s]
         row == person[c.id] IN
     /\ c.patch.personnel_code # Unset => ~CodeTaken(c.patch.personnel_code, c.id)
     /\ person' = [person EXCEPT ![c.id] =
          [personnel_code |-> Given(c.patch.personnel_code, row.personnel_code),
           org_unit |-> Given(c.patch.org_unit, row.org_unit),
           is_manager |-> Given(c.patch.is_manager, row.is_manager),
           active |-> Given(c.patch.active, row.active)]]
     /\ IF c.patch.active = FALSE THEN ClosesAccount(c.id) ELSE UNCHANGED account
     /\ access' = IF c.manager /\ access[c.id] # None
                  THEN [access EXCEPT ![c.id].sup = None] ELSE access
  /\ Logs(call[s].by)
  /\ Ends(s)
  /\ UNCHANGED <<deleted, grants, panel, unit>>

-------------------------------------------------------------------------------
(* The accounts of the evaluators, from the same file *)

\* collect_evaluators: who is named in a cell of a chain, with the highest role asked.
Evaluators(file) ==
  {w \in Words : \E k \in DOMAIN file : w \in {file[k].sup, file[k].deputy, file[k].ceo}}

NamedIn(file, w, cell) == \E k \in DOMAIN file : file[k][cell] = w

RoleAsked(file, w) ==
  IF NamedIn(file, w, "ceo") THEN "ceo"
  ELSE IF NamedIn(file, w, "deputy") THEN "deputy" ELSE "unit_supervisor"

\* write_plan, the usernames as somebody has corrected them, and apply_plan, which
\* passes over those that are taken.  Nothing of it is logged.
ApplyPlan(file, plan) ==
  LET new == {w \in DOMAIN plan : ~NameTaken(plan[w])} IN
  /\ new # {}
  /\ \E as \in Injection(new, {i \in Ids : Free(i)}) :
       account' = [i \in Ids |->
         IF \E w \in new : as[w] = i
         THEN LET w == CHOOSE w \in new : as[w] = i IN
              [username |-> plan[w], full_name |-> w, role |-> RoleAsked(file, w),
               is_active |-> TRUE, personnel_id |-> None]
         ELSE account[i]]
  /\ AtOnce
  /\ UNCHANGED <<deleted, grants, actors, panel, people, unit>>

-------------------------------------------------------------------------------
(* Organisation units *)

FullName(row) == JoinSite[<<row.site, row.name>>]

\* uq_org_unit_site_name, which does not compare rows without a site.
UnitTaken(site, name, but) ==
  site # None /\ \E u \in Units \ {but} :
    unit[u] # None /\ unit[u].site = site /\ unit[u].name = name

CreateUnit(a, site, name) ==
  /\ MayManagePeople(a)
  /\ ~UnitTaken(site, name, None)
  /\ \E u \in Units :
       unit[u] = None /\ u \notin deleted
       /\ unit' = [unit EXCEPT ![u] = [site |-> site, name |-> name, is_active |-> TRUE]]
  /\ Logs(a)
  /\ AtOnce
  /\ UNCHANGED <<account, deleted, grants, panel, people>>

BeginUpdateUnit(s, a, u, row) ==
  /\ MayManagePeople(a)
  /\ unit[u] # None
  /\ Begins(s, [op |-> "update_unit", by |-> a, id |-> u, old |-> unit[u], new |-> row])
  /\ UNCHANGED <<accounts, panel, people, unit>>

\* The fields that differ from the row as it was read are written, and the people with
\* the name it had then get the new one.
UpdateUnit(s) ==
  /\ At(s, "update_unit")
  /\ LET c == call[s]
         now == unit[c.id]
         Kept(field) == IF c.new[field] = c.old[field] THEN now[field] ELSE c.new[field]
         row == [site |-> Kept("site"), name |-> Kept("name"), is_active |-> Kept("is_active")]
     IN /\ now # None
        /\ ~UnitTaken(row.site, row.name, c.id)
        /\ unit' = [unit EXCEPT ![c.id] = row]
        /\ person' = [p \in People |->
             IF person[p] # None /\ person[p].org_unit = FullName(c.old)
             THEN [person[p] EXCEPT !.org_unit = FullName(c.new)] ELSE person[p]]
  /\ Logs(call[s].by)
  /\ Ends(s)
  /\ UNCHANGED <<account, deleted, grants, panel, access>>

BeginDeleteUnit(s, a, u) ==
  /\ MayManagePeople(a)
  /\ unit[u] # None
  /\ \A p \in People : person[p] # None => person[p].org_unit # FullName(unit[u])
  /\ Begins(s, [op |-> "delete_unit", by |-> a, id |-> u])
  /\ UNCHANGED <<accounts, panel, people, unit>>

DeleteUnit(s) ==
  /\ At(s, "delete_unit")
  /\ unit' = [unit EXCEPT ![call[s].id] = None]
  /\ deleted' = deleted \cup {call[s].id}
  /\ Logs(call[s].by)
  /\ Ends(s)
  /\ UNCHANGED <<account, grants, panel, people>>

-------------------------------------------------------------------------------
(* The installation *)

\* Whatever a row refers to is there: who granted and who acted, the occupants of the
\* chains, the person of an account; nobody sits in their own chain.
Sound(rows, rights, log, staff, chains) ==
  /\ \A i \in log : rows[i] # None
  /\ \A g \in rights : rows[g.user] # None /\ g.by \in log \cup {None}
  /\ \A i \in Ids : rows[i] # None /\ rows[i].personnel_id # None =>
       staff[rows[i].personnel_id] # None
  /\ \A p \in People : chains[p] # None =>
       /\ staff[p] # None
       /\ \A i \in Occupants(chains[p]) : rows[i] # None /\ rows[i].personnel_id # p

DirectoryRows ==
  [account : [Ids -> AccountRows \cup {None}], grants : SUBSET GrantRows,
   actors : SUBSET Ids, person : [People -> PersonRows \cup {None}],
   access : [People -> ChainRows \cup {None}], unit : [Units -> UnitRows \cup {None}]]

ASSUME DirectoryAssumption ==
  /\ Directories \subseteq DirectoryRows
  /\ \A d \in Directories : Sound(d.account, d.grants, d.actors, d.person, d.access)

Init ==
  /\ \E d \in Directories :
       /\ account = d.account /\ grants = d.grants /\ actors = d.actors
       /\ person = d.person /\ access = d.access /\ unit = d.unit
  /\ deleted = {}
  /\ off = {}
  /\ stored = [k \in Settings |-> None]
  /\ effect = [r \in Replicas |-> FromEnv]
  /\ call = [s \in Slots |-> None]
  /\ begun = 0

AccountCall(s, a) ==
  /\ call[s] = None
  /\ \/ \E f \in Forms, p \in People \cup {None} :
          BeginCreateUser(s, a, f.username, f.full_name, f.role, p)
     \/ \E i \in Ids :
          \/ \E patch \in Patches : BeginUpdateUser(s, a, i, patch)
          \/ BeginDeleteUser(s, a, i)
          \/ \E bundle \in Bundles : BeginSetCapabilities(s, a, i, bundle)
     \/ \E r \in Replicas, k \in Settings, v \in Values : BeginSave(s, a, r, k, v)
  /\ UNCHANGED unit

DirectoryCall(s, a) ==
  /\ call[s] = None
  /\ \/ \E f \in Newcomers : BeginCreatePersonnel(s, a, f.person, f.username)
     \/ \E file \in Files : BeginImport(s, a, file)
     \/ \E p \in People, edit \in Edits : BeginUpdatePersonnel(s, a, p, edit)
     \/ \E u \in Units :
          \/ \E row \in Renames : BeginUpdateUnit(s, a, u, row)
          \/ BeginDeleteUnit(s, a, u)

CallAtOnce(a) ==
  \/ \E e \in Entries : CreateUnit(a, e[1], e[2])
  \/ Login(a) /\ UNCHANGED unit
  \/ (\E key \in Modules : ToggleModule(a, key)) /\ UNCHANGED unit

StartUp ==
  /\ \/ \E r \in Replicas : Start(r)
     \/ \E s \in Slots, n \in Names : BeginBootstrap(s, n)
     \/ \E s \in Slots : Bootstrap(s)
     \/ \E n \in Names : CreateAdmin(n)
  /\ UNCHANGED unit

AccountCommit(s) ==
  /\ CreateUser(s) \/ UpdateUser(s) \/ DeleteUser(s) \/ SetCapabilities(s) \/ Save(s)
     \/ Rollback(s)
  /\ UNCHANGED unit

DirectoryCommit(s) == AddPeople(s) \/ UpdatePersonnel(s) \/ UpdateUnit(s) \/ DeleteUnit(s)

Next ==
  \/ \E s \in Slots, a \in Ids : AccountCall(s, a) \/ DirectoryCall(s, a)
  \/ \E a \in Ids : CallAtOnce(a)
  \/ \E s \in Slots : AccountCommit(s) \/ DirectoryCommit(s)
  \/ \E file \in Files : \E plan \in Injection(Evaluators(file), Names) : ApplyPlan(file, plan)
  \/ StartUp

Spec == Init /\ [][Next]_vars

-------------------------------------------------------------------------------
(* Properties *)

\* What the calls in flight carry.
NewPeople ==
  [person : PersonRows, username : Names \cup {None}, chain : ChainRows \cup {None}]
AccountCalls ==
  [op : {"create_user"}, by : Ids, row : AccountRows]
    \cup [op : {"update_user"}, by : Ids, id : Ids, patch : UserPatches, resets : BOOLEAN]
    \cup [op : {"delete_user"}, by : Ids, id : Ids]
    \cup [op : {"set_capabilities"}, by : Ids, id : Ids, add : SUBSET Capability,
          drop : SUBSET Capability]
    \cup [op : {"save"}, by : Ids, key : Settings, value : Values]
    \cup [op : {"bootstrap"}, name : Names]
DirectoryCalls ==
  [op : {"add_people"}, by : Ids, rows : SUBSET NewPeople]
    \cup [op : {"update_personnel"}, by : Ids, id : People, patch : PersonPatches,
          manager : BOOLEAN]
    \cup [op : {"update_unit"}, by : Ids, id : Units, old : UnitRows, new : UnitRows]
    \cup [op : {"delete_unit"}, by : Ids, id : Units]

\* The rows of the tables, and the calls in flight by what they carry.
TypeOK ==
  /\ account \in [Ids -> AccountRows \cup {None}]
  /\ deleted \subseteq Ids \cup Units
  /\ grants \subseteq GrantRows
  /\ actors \subseteq Ids
  /\ off \subseteq Modules
  /\ stored \in [Settings -> Values \cup {None}]
  /\ effect \in [Replicas -> [Settings -> Values]]
  /\ person \in [People -> PersonRows \cup {None}]
  /\ access \in [People -> ChainRows \cup {None}]
  /\ unit \in [Units -> UnitRows \cup {None}]
  /\ call \in [Slots -> AccountCalls \cup DirectoryCalls \cup {None}]
  /\ begun \in 0 .. MaxCalls

\* Whatever delete_user, update_user, the import and the capabilities do at the same
\* time, no row is left that refers to one that is gone.
NothingDangles == Sound(account, grants, actors, person, access)

\* delete_user also removes the capabilities the account has given.  It takes them from
\* nobody: an account that has ever acted stays, whoever signs in while it is deleted.
DeletionIsHarmless ==
  [][\A i \in Ids : account[i] # None /\ account'[i] = None =>
       /\ i \notin actors'
       /\ \A j \in Ids \ {i} : {g \in grants : g.user = j} = {g \in grants' : g.user = j}]_vars
===============================================================================

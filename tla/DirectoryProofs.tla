--------------------------- MODULE DirectoryProofs ---------------------------
(***************************************************************************)
(* The invariants of Directory, for any number of accounts, people and     *)
(* calls in flight.  A call reads before it commits, so what the rows      *)
(* promise of each other holds only with what a call in flight may rely    *)
(* on (Backed): that whoever makes it has acted, and that the person it    *)
(* names is there.  Neither ever goes away (NothingIsLost).                *)
(***************************************************************************)
EXTENDS Directory, TLAPS

Flights == AccountCalls \cup DirectoryCalls

\* A call in flight, by the handler that will commit it.
LEMMA InFlight ==
  ASSUME TypeOK, NEW s \in Slots
  PROVE  /\ At(s, "create_user") => call[s] \in [op : {"create_user"}, by : Ids, row : AccountRows]
         /\ At(s, "update_user") =>
              call[s] \in [op : {"update_user"}, by : Ids, id : Ids, patch : UserPatches,
                           resets : BOOLEAN]
         /\ At(s, "delete_user") => call[s] \in [op : {"delete_user"}, by : Ids, id : Ids]
         /\ At(s, "set_capabilities") =>
              call[s] \in [op : {"set_capabilities"}, by : Ids, id : Ids,
                           add : SUBSET Capability, drop : SUBSET Capability]
         /\ At(s, "save") => call[s] \in [op : {"save"}, by : Ids, key : Settings, value : Values]
         /\ At(s, "bootstrap") => call[s] \in [op : {"bootstrap"}, name : Names]
         /\ At(s, "add_people") =>
              call[s] \in [op : {"add_people"}, by : Ids, rows : SUBSET NewPeople]
         /\ At(s, "update_personnel") =>
              call[s] \in [op : {"update_personnel"}, by : Ids, id : People,
                           patch : PersonPatches, manager : BOOLEAN]
         /\ At(s, "update_unit") =>
              call[s] \in [op : {"update_unit"}, by : Ids, id : Units, old : UnitRows, new : UnitRows]
         /\ At(s, "delete_unit") => call[s] \in [op : {"delete_unit"}, by : Ids, id : Units]
<1>1. call[s] # None => call[s] \in AccountCalls \cup DirectoryCalls
  BY DEF TypeOK
<1>2. ASSUME call[s] # None, call[s] \in AccountCalls
      PROVE  call[s].op \in {"create_user", "update_user", "delete_user", "set_capabilities",
                             "save", "bootstrap"}
  BY <1>2 DEF AccountCalls
<1>3. ASSUME call[s] # None, call[s] \in DirectoryCalls
      PROVE  call[s].op \in {"add_people", "update_personnel", "update_unit", "delete_unit"}
  BY <1>3 DEF DirectoryCalls
<1>4. /\ At(s, "create_user") => call[s] \in [op : {"create_user"}, by : Ids, row : AccountRows]
      /\ At(s, "update_user") =>
              call[s] \in [op : {"update_user"}, by : Ids, id : Ids, patch : UserPatches,
                           resets : BOOLEAN]
      /\ At(s, "delete_user") => call[s] \in [op : {"delete_user"}, by : Ids, id : Ids]
  BY <1>1, <1>3 DEF At, AccountCalls
<1>5. /\ At(s, "set_capabilities") =>
              call[s] \in [op : {"set_capabilities"}, by : Ids, id : Ids,
                           add : SUBSET Capability, drop : SUBSET Capability]
      /\ At(s, "save") => call[s] \in [op : {"save"}, by : Ids, key : Settings, value : Values]
      /\ At(s, "bootstrap") => call[s] \in [op : {"bootstrap"}, name : Names]
  BY <1>1, <1>3 DEF At, AccountCalls
<1>6. /\ At(s, "add_people") =>
              call[s] \in [op : {"add_people"}, by : Ids, rows : SUBSET NewPeople]
      /\ At(s, "update_personnel") =>
              call[s] \in [op : {"update_personnel"}, by : Ids, id : People,
                           patch : PersonPatches, manager : BOOLEAN]
      /\ At(s, "update_unit") =>
              call[s] \in [op : {"update_unit"}, by : Ids, id : Units, old : UnitRows, new : UnitRows]
      /\ At(s, "delete_unit") => call[s] \in [op : {"delete_unit"}, by : Ids, id : Units]
  BY <1>1, <1>2 DEF At, DirectoryCalls
<1>7. QED
  BY <1>4, <1>5, <1>6

\* What begins, ends or takes no time leaves the slots well typed.
LEMMA SlotsType ==
  ASSUME TypeOK, NEW s \in Slots
  PROVE  /\ \A c \in Flights : Begins(s, c) =>
              call' \in [Slots -> Flights \cup {None}] /\ begun' \in 0 .. MaxCalls
         /\ Ends(s) => call' \in [Slots -> Flights \cup {None}] /\ begun' \in 0 .. MaxCalls
  BY CallAssumption DEF TypeOK, Begins, Ends, Flights

LEMMA AtOnceType ==
  ASSUME TypeOK, AtOnce
  PROVE  call' \in [Slots -> Flights \cup {None}] /\ begun' \in 0 .. MaxCalls
  BY CallAssumption DEF TypeOK, AtOnce, Flights

-------------------------------------------------------------------------------
(* What the calls carry *)

LEMMA WrittenType ==
  ASSUME NEW row, NEW patch \in UserPatches
  PROVE  Written(row, patch) \in UserPatches
  BY DEF Written, UserPatches

LEMMA PatchedType ==
  ASSUME NEW row \in AccountRows, NEW patch \in UserPatches
  PROVE  Patched(row, patch) \in AccountRows
  BY UnsetAssumption DEF Patched, Given, UserPatches, AccountRows

LEMMA CapabilitiesType ==
  ASSUME TypeOK, NEW i
  PROVE  CapabilitiesOf(i) \in SUBSET Capability
  BY DEF TypeOK, CapabilitiesOf, GrantRows

\* An import seats accounts, or nobody.
LEMMA SeatedType ==
  ASSUME NEW row, NEW cell, NEW stage
  PROVE  Seated(row, cell, stage) \subseteq Ids \cup {None}
<1>1. Matches(row[cell]) \subseteq Ids
  BY DEF Matches, Active
<1>2. QED
  BY <1>1 DEF Seated

LEMMA ResolvedType ==
  ASSUME NEW row, NEW c \in Resolved(row)
  PROVE  /\ c.ceo \in Ids \cup {None}
         /\ c.ceo # None => c \in ChainRows
<1>1. SoleCeo \subseteq Ids \cup {None}
  BY DEF SoleCeo, Active
<1>2. /\ Seated(row, "sup", "unit_supervisor") \subseteq Ids \cup {None}
      /\ Seated(row, "deputy", "deputy") \subseteq Ids \cup {None}
      /\ Seated(row, "ceo", "ceo") \subseteq Ids \cup {None}
  BY SeatedType
<1>3. {None : i \in Seated(row, "sup", "unit_supervisor")} \subseteq {None}
  OBVIOUS
<1>4. c \in [sup : Ids \cup {None}, deputy : Ids \cup {None}, ceo : Ids \cup {None}]
  BY <1>1, <1>2, <1>3 DEF Resolved
<1>5. QED
  BY <1>4 DEF ChainRows

LEMMA ParsedType ==
  ASSUME NEW file \in Files
  PROVE  Parsed(file) \in SUBSET NewPeople
<1> SUFFICES ASSUME NEW row \in Parsed(file) PROVE row \in NewPeople
  OBVIOUS
<1>0. file \in Seq(SheetRows)
  BY FileAssumption
<1>1. PICK k \in DOMAIN file :
        row \in [person : {file[k].person}, username : {file[k].username},
                 chain : {IF c.ceo = None THEN None ELSE c : c \in Resolved(file[k])}]
  BY DEF Parsed
<1>2. file[k] \in SheetRows
  BY <1>0
<1>3. file[k].person \in PersonRows /\ file[k].username \in Names \cup {None}
  BY <1>2 DEF SheetRows
<1>4. {IF c.ceo = None THEN None ELSE c : c \in Resolved(file[k])} \subseteq ChainRows \cup {None}
  BY ResolvedType
<1>5. QED
  BY <1>1, <1>3, <1>4 DEF NewPeople
-------------------------------------------------------------------------------
(* A call begins *)

\* What a call may rely on from what it has read: its caller has acted, and the
\* person it names is there.
Backed(c) ==
  /\ c.op # "bootstrap" => c.by \in actors
  /\ c.op = "create_user" /\ c.row.personnel_id # None => person[c.row.personnel_id] # None
  /\ c.op = "update_user" /\ c.patch.personnel_id \notin {None, Unset} =>
       person[c.patch.personnel_id] # None
  /\ c.op = "update_personnel" => person[c.id] # None

CallsAreBacked == \A s \in Slots : call[s] # None => Backed(call[s])

\* The beginning of a call writes no table; a save changes what one process works with.
CallBegins ==
  /\ \E s \in Slots, c \in Flights : Begins(s, c) /\ Backed(c)
  /\ UNCHANGED <<accounts, people, unit, off, stored>>
  /\ effect' \in [Replicas -> [Settings -> Values]]

LEMMA EffectiveType ==
  ASSUME NEW rows \in [Settings -> Values \cup {None}]
  PROVE  Effective(rows) \in [Settings -> Values]
  BY SettingAssumption DEF Effective

LEMMA AccountCallBegins ==
  ASSUME TypeOK, NEW s \in Slots, NEW a \in Ids, AccountCall(s, a)
  PROVE  CallBegins
<1>0. effect \in [Replicas -> [Settings -> Values]]
  BY DEF TypeOK
<1>1. ASSUME NEW c \in AccountCalls, Begins(s, c), Backed(c),
             UNCHANGED <<accounts, panel, people, unit>>
      PROVE  CallBegins
  BY <1>0, <1>1 DEF CallBegins, Flights, panel
<1>2. ASSUME NEW f \in Forms, NEW p \in People \cup {None},
             BeginCreateUser(s, a, f.username, f.full_name, f.role, p)
      PROVE  CallBegins
  <2> DEFINE c == [op |-> "create_user", by |-> a,
                   row |-> [username |-> f.username, full_name |-> f.full_name, role |-> f.role,
                            is_active |-> TRUE, personnel_id |-> p]]
  <2>1. c \in AccountCalls
    <3>1. c.row \in AccountRows
      BY FormAssumption DEF AccountRows
    <3>2. c \in [op : {"create_user"}, by : Ids, row : AccountRows]
      BY <3>1
    <3>3. QED
      BY <3>2 DEF AccountCalls
  <2>2. Backed(c)
    BY <1>2 DEF BeginCreateUser, MayUse, SignedIn, Backed
  <2>3. Begins(s, c) /\ UNCHANGED <<accounts, panel, people, unit>>
    BY <1>2 DEF BeginCreateUser, AccountCall, accounts
  <2>4. QED
    BY <1>1, <2>1, <2>2, <2>3
<1>3. ASSUME NEW i \in Ids, NEW patch \in Patches, BeginUpdateUser(s, a, i, patch)
      PROVE  CallBegins
  <2> DEFINE c == [op |-> "update_user", by |-> a, id |-> i,
                   patch |-> Written(account[i], patch),
                   resets |-> account[i].role # "hr" /\ patch.role = "hr"]
  <2>0. patch \in UserPatches
    BY PatchAssumption
  <2>1. c \in AccountCalls
    <3>1. c.patch \in UserPatches
      BY <2>0, WrittenType
    <3>2. c.resets \in BOOLEAN
      OBVIOUS
    <3>3. c \in [op : {"update_user"}, by : Ids, id : Ids, patch : UserPatches, resets : BOOLEAN]
      BY <3>1, <3>2
    <3>4. QED
      BY <3>3 DEF AccountCalls
  <2>2. Backed(c)
    <3>1. c.patch.personnel_id \in {Unset, patch.personnel_id}
      BY DEF Written
    <3>2. a \in actors /\ MayBecome(a, i, patch)
      BY <1>3 DEF BeginUpdateUser, MayUse, SignedIn
    <3>3. patch.personnel_id \notin {None, Unset} => person[patch.personnel_id] # None
      BY <3>2 DEF MayBecome
    <3>4. QED
      BY <3>1, <3>2, <3>3 DEF Backed
  <2>3. Begins(s, c) /\ UNCHANGED <<accounts, panel, people, unit>>
    BY <1>3 DEF BeginUpdateUser, AccountCall, accounts
  <2>4. QED
    BY <1>1, <2>1, <2>2, <2>3
<1>4. ASSUME NEW i \in Ids, BeginDeleteUser(s, a, i)
      PROVE  CallBegins
  <2> DEFINE c == [op |-> "delete_user", by |-> a, id |-> i]
  <2>1. c \in AccountCalls /\ Backed(c)
    BY <1>4 DEF BeginDeleteUser, MayUse, SignedIn, AccountCalls, Backed
  <2>2. Begins(s, c) /\ UNCHANGED <<accounts, panel, people, unit>>
    BY <1>4 DEF BeginDeleteUser, AccountCall, accounts
  <2>3. QED
    BY <1>1, <2>1, <2>2
<1>5. ASSUME NEW i \in Ids, NEW bundle \in Bundles, BeginSetCapabilities(s, a, i, bundle)
      PROVE  CallBegins
  <2> DEFINE c == [op |-> "set_capabilities", by |-> a, id |-> i,
                   add |-> bundle \ CapabilitiesOf(i), drop |-> CapabilitiesOf(i) \ bundle]
  <2>1. c \in AccountCalls /\ Backed(c)
    <3>1. c.add \in SUBSET Capability /\ c.drop \in SUBSET Capability
      BY PatchAssumption, CapabilitiesType
    <3>2. a \in actors
      BY <1>5 DEF BeginSetCapabilities, MayUse, SignedIn
    <3>3. c \in [op : {"set_capabilities"}, by : Ids, id : Ids, add : SUBSET Capability,
                 drop : SUBSET Capability]
      BY <3>1
    <3>4. QED
      BY <3>2, <3>3 DEF AccountCalls, Backed
  <2>2. Begins(s, c) /\ UNCHANGED <<accounts, panel, people, unit>>
    BY <1>5 DEF BeginSetCapabilities, AccountCall, accounts
  <2>3. QED
    BY <1>1, <2>1, <2>2
<1>6. ASSUME NEW r \in Replicas, NEW k \in Settings, NEW v \in Values, BeginSave(s, a, r, k, v)
      PROVE  CallBegins
  <2> DEFINE c == [op |-> "save", by |-> a, key |-> k, value |-> v]
  <2>1. c \in Flights /\ Backed(c)
    BY <1>6 DEF BeginSave, MayUse, SignedIn, AccountCalls, Flights, Backed
  <2>2. effect' \in [Replicas -> [Settings -> Values]]
    <3>1. [stored EXCEPT ![k] = v] \in [Settings -> Values \cup {None}]
      BY DEF TypeOK
    <3>2. Effective([stored EXCEPT ![k] = v]) \in [Settings -> Values]
      BY <3>1, EffectiveType
    <3>3. QED
      BY <1>0, <1>6, <3>2 DEF BeginSave
  <2>3. Begins(s, c) /\ UNCHANGED <<accounts, people, unit, off, stored>>
    BY <1>6 DEF BeginSave, AccountCall, accounts
  <2>4. QED
    BY <2>1, <2>2, <2>3 DEF CallBegins
<1>7. QED
  BY <1>2, <1>3, <1>4, <1>5, <1>6 DEF AccountCall

LEMMA DirectoryCallBegins ==
  ASSUME TypeOK, NEW s \in Slots, NEW a \in Ids, DirectoryCall(s, a)
  PROVE  CallBegins
<1>1. ASSUME NEW c \in DirectoryCalls, Begins(s, c), Backed(c),
             UNCHANGED <<accounts, panel, people, unit>>
      PROVE  CallBegins
  BY <1>1 DEF CallBegins, Flights, panel, TypeOK
<1>2. ASSUME NEW f \in Newcomers, BeginCreatePersonnel(s, a, f.person, f.username)
      PROVE  CallBegins
  <2> DEFINE c == [op |-> "add_people", by |-> a,
                   rows |-> {[person |-> f.person, username |-> f.username, chain |-> None]}]
  <2>1. c \in DirectoryCalls
    <3>1. [person |-> f.person, username |-> f.username, chain |-> None] \in NewPeople
      BY FormAssumption DEF NewPeople
    <3>2. c \in [op : {"add_people"}, by : Ids, rows : SUBSET NewPeople]
      BY <3>1
    <3>3. QED
      BY <3>2 DEF DirectoryCalls
  <2>2. Backed(c)
    BY <1>2 DEF BeginCreatePersonnel, MayManagePeople, SignedIn, Backed
  <2>3. Begins(s, c) /\ UNCHANGED <<accounts, panel, people, unit>>
    BY <1>2 DEF BeginCreatePersonnel
  <2>4. QED
    BY <1>1, <2>1, <2>2, <2>3
<1>3. ASSUME NEW file \in Files, BeginImport(s, a, file)
      PROVE  CallBegins
  <2> DEFINE c == [op |-> "add_people", by |-> a, rows |-> Parsed(file)]
  <2>1. c \in DirectoryCalls /\ Backed(c)
    <3>1. c \in [op : {"add_people"}, by : Ids, rows : SUBSET NewPeople]
      BY ParsedType
    <3>2. a \in actors
      BY <1>3 DEF BeginImport, MayManagePeople, SignedIn
    <3>3. QED
      BY <3>1, <3>2 DEF DirectoryCalls, Backed
  <2>2. Begins(s, c) /\ UNCHANGED <<accounts, panel, people, unit>>
    BY <1>3 DEF BeginImport
  <2>3. QED
    BY <1>1, <2>1, <2>2
<1>4. ASSUME NEW p \in People, NEW edit \in Edits, BeginUpdatePersonnel(s, a, p, edit)
      PROVE  CallBegins
  <2>1. PICK row : row = person[p]
    OBVIOUS
  <2>2. row \in PersonRows
    BY <1>4, <2>1 DEF BeginUpdatePersonnel, TypeOK
  <2>3. edit \in PersonPatches
    BY EditAssumption
  <2> DEFINE patch == [personnel_code |-> Differing(edit.personnel_code, row.personnel_code),
                       org_unit |-> Differing(edit.org_unit, row.org_unit),
                       is_manager |-> Differing(edit.is_manager, row.is_manager),
                       active |-> Differing(edit.active, row.active)]
             c == [op |-> "update_personnel", by |-> a, id |-> p, patch |-> patch,
                   manager |-> Given(edit.is_manager, row.is_manager)]
  <2>4. patch \in PersonPatches
    BY <2>3 DEF Differing, PersonPatches
  <2>5. Given(edit.is_manager, row.is_manager) \in BOOLEAN
    BY <2>2, <2>3 DEF Given, PersonPatches, PersonRows
  <2>6. c \in DirectoryCalls
    <3>1. c \in [op : {"update_personnel"}, by : Ids, id : People, patch : PersonPatches,
                 manager : BOOLEAN]
      BY <2>4, <2>5
    <3>2. QED
      BY <3>1 DEF DirectoryCalls
  <2>7. Begins(s, c) /\ UNCHANGED <<accounts, panel, people, unit>>
    BY <1>4, <2>1 DEF BeginUpdatePersonnel
  <2>8. Backed(c)
    BY <1>4 DEF BeginUpdatePersonnel, MayManagePeople, SignedIn, Backed
  <2>9. QED
    BY <1>1, <2>6, <2>7, <2>8
<1>5. ASSUME NEW u \in Units, NEW row \in Renames, BeginUpdateUnit(s, a, u, row)
      PROVE  CallBegins
  <2> DEFINE c == [op |-> "update_unit", by |-> a, id |-> u, old |-> unit[u], new |-> row]
  <2>1. unit[u] \in UnitRows /\ row \in UnitRows
    BY <1>5, RenameAssumption DEF BeginUpdateUnit, TypeOK
  <2>2. c \in DirectoryCalls /\ Backed(c)
    BY <1>5, <2>1 DEF BeginUpdateUnit, MayManagePeople, SignedIn, DirectoryCalls, Backed
  <2>3. Begins(s, c) /\ UNCHANGED <<accounts, panel, people, unit>>
    BY <1>5 DEF BeginUpdateUnit
  <2>4. QED
    BY <1>1, <2>2, <2>3
<1>6. ASSUME NEW u \in Units, BeginDeleteUnit(s, a, u)
      PROVE  CallBegins
  <2> DEFINE c == [op |-> "delete_unit", by |-> a, id |-> u]
  <2>1. c \in DirectoryCalls /\ Backed(c)
    BY <1>6 DEF BeginDeleteUnit, MayManagePeople, SignedIn, DirectoryCalls, Backed
  <2>2. Begins(s, c) /\ UNCHANGED <<accounts, panel, people, unit>>
    BY <1>6 DEF BeginDeleteUnit
  <2>3. QED
    BY <1>1, <2>1, <2>2
<1>7. QED
  BY <1>2, <1>3, <1>4, <1>5, <1>6 DEF DirectoryCall

LEMMA BootstrapBegins ==
  ASSUME TypeOK, NEW s \in Slots, NEW n \in Names, BeginBootstrap(s, n), UNCHANGED unit
  PROVE  CallBegins
<1> DEFINE c == [op |-> "bootstrap", name |-> n]
<1>1. c \in Flights /\ Backed(c)
  BY DEF Flights, AccountCalls, Backed
<1>2. Begins(s, c) /\ UNCHANGED <<accounts, panel, people, unit>>
  BY DEF BeginBootstrap, accounts
<1>3. QED
  BY <1>1, <1>2 DEF CallBegins, panel, TypeOK
-------------------------------------------------------------------------------
(* Types *)

LEMMA TypeInit == Init => TypeOK
<1> SUFFICES ASSUME Init PROVE TypeOK
  OBVIOUS
<1>1. PICK d \in Directories :
        /\ account = d.account /\ grants = d.grants /\ actors = d.actors
        /\ person = d.person /\ access = d.access /\ unit = d.unit
  BY DEF Init
<1>2. d \in DirectoryRows
  BY DirectoryAssumption
<1>3. /\ account \in [Ids -> AccountRows \cup {None}] /\ grants \subseteq GrantRows
      /\ actors \subseteq Ids /\ person \in [People -> PersonRows \cup {None}]
      /\ access \in [People -> ChainRows \cup {None}] /\ unit \in [Units -> UnitRows \cup {None}]
  BY <1>1, <1>2 DEF DirectoryRows
<1>4. QED
  BY <1>3, SettingAssumption, CallAssumption DEF Init, TypeOK

LEMMA DefaultsType ==
  ASSUME NEW rows \in SUBSET GrantRows, NEW i \in Ids
  PROVE  WithDefaults(i, rows) \in SUBSET GrantRows
<1>1. DEFAULT_HR_CAPABILITIES \subseteq Capability
  BY DEF DEFAULT_HR_CAPABILITIES, Capability
<1>2. QED
  BY <1>1 DEF WithDefaults, GrantRows

\* The accounts and what refers to them, as the handlers of accounts write them.
LEMMA AccountCommitTypes ==
  ASSUME TypeOK, NEW s \in Slots, AccountCommit(s)
  PROVE  TypeOK'
<1>0. account \in [Ids -> AccountRows \cup {None}] /\ grants \in SUBSET GrantRows
  BY DEF TypeOK
<1>e. Ends(s) => call' \in [Slots -> AccountCalls \cup DirectoryCalls \cup {None}]
                 /\ begun' \in 0 .. MaxCalls
  BY SlotsType DEF Flights
<1>1. ASSUME Ends(s), UNCHANGED <<panel, people, unit>>,
             account' \in [Ids -> AccountRows \cup {None}], grants' \subseteq GrantRows,
             actors' \subseteq Ids, deleted' \subseteq Ids \cup Units
      PROVE  TypeOK'
  BY <1>1, <1>e DEF TypeOK, panel, people
<1>l. \A a \in Ids : Logs(a) => actors' \subseteq Ids
  BY DEF Logs, TypeOK
<1>2. CASE CreateUser(s)
  <2>1. call[s] \in [op : {"create_user"}, by : Ids, row : AccountRows]
    BY <1>2, InFlight DEF CreateUser
  <2>2. PICK i \in Ids : /\ account' = [account EXCEPT ![i] = call[s].row]
                         /\ grants' = IF call[s].row.role = "hr" THEN WithDefaults(i, grants)
                                      ELSE grants
    BY <1>2 DEF CreateUser
  <2>3. account' \in [Ids -> AccountRows \cup {None}] /\ grants' \subseteq GrantRows
    BY <1>0, <2>1, <2>2, DefaultsType
  <2>4. QED
    BY <1>1, <1>2, <1>l, <2>1, <2>3 DEF CreateUser, TypeOK, AccountCommit
<1>3. CASE UpdateUser(s)
  <2>1. call[s] \in [op : {"update_user"}, by : Ids, id : Ids, patch : UserPatches,
                     resets : BOOLEAN]
    BY <1>3, InFlight DEF UpdateUser
  <2>2. Patched(account[call[s].id], call[s].patch) \in AccountRows
    BY <1>0, <1>3, <2>1, PatchedType DEF UpdateUser, Exists
  <2>3. account' \in [Ids -> AccountRows \cup {None}] /\ grants' \subseteq GrantRows
    BY <1>0, <1>3, <2>1, <2>2, DefaultsType DEF UpdateUser
  <2>4. QED
    BY <1>1, <1>3, <1>l, <2>1, <2>3 DEF UpdateUser, TypeOK, AccountCommit
<1>4. CASE DeleteUser(s)
  <2>1. call[s] \in [op : {"delete_user"}, by : Ids, id : Ids]
    BY <1>4, InFlight DEF DeleteUser
  <2>2. account' \in [Ids -> AccountRows \cup {None}] /\ grants' \subseteq GrantRows
        /\ deleted' \subseteq Ids \cup Units
    BY <1>0, <1>4, <2>1 DEF DeleteUser, Without, TypeOK
  <2>3. QED
    BY <1>1, <1>4, <1>l, <2>1, <2>2 DEF DeleteUser, AccountCommit
<1>5. CASE SetCapabilities(s)
  <2>1. call[s] \in [op : {"set_capabilities"}, by : Ids, id : Ids,
                     add : SUBSET Capability, drop : SUBSET Capability]
    BY <1>5, InFlight DEF SetCapabilities
  <2>2. [user : {call[s].id}, capability : call[s].add, by : {call[s].by}] \subseteq GrantRows
    BY <2>1 DEF GrantRows
  <2>3. grants' \subseteq GrantRows
    BY <1>0, <1>5, <2>2 DEF SetCapabilities
  <2>4. QED
    BY <1>1, <1>5, <1>l, <2>1, <2>3 DEF SetCapabilities, TypeOK, AccountCommit
<1>6. CASE Save(s)
  <2>1. call[s] \in [op : {"save"}, by : Ids, key : Settings, value : Values]
    BY <1>6, InFlight DEF Save
  <2>2. stored' \in [Settings -> Values \cup {None}]
    BY <1>6, <2>1 DEF Save, TypeOK
  <2>3. QED
    BY <1>6, <1>e, <1>l, <2>1, <2>2 DEF Save, TypeOK, AccountCommit, people
<1>7. CASE Rollback(s)
  BY <1>1, <1>7 DEF Rollback, TypeOK, AccountCommit
<1>8. QED
  BY <1>2, <1>3, <1>4, <1>5, <1>6, <1>7 DEF AccountCommit

LEMMA AddPeopleTypes ==
  ASSUME TypeOK, NEW s \in Slots, AddPeople(s)
  PROVE  TypeOK'
<1>1. call[s] \in [op : {"add_people"}, by : Ids, rows : SUBSET NewPeople]
  BY InFlight DEF AddPeople
<1> DEFINE rows == call[s].rows
           named == {row \in rows : row.username # None}
<1>4. PICK at \in Injection(rows, {p \in People : person[p] = None}),
           as \in Injection(named, {i \in Ids : Free(i)}) :
        /\ person' = [p \in People |->
             IF \E row \in rows : at[row] = p
             THEN (CHOOSE row \in rows : at[row] = p).person ELSE person[p]]
        /\ access' = [p \in People |->
             IF \E row \in rows : at[row] = p
             THEN (CHOOSE row \in rows : at[row] = p).chain ELSE access[p]]
        /\ account' = [i \in Ids |->
             IF \E row \in named : as[row] = i
             THEN LET row == CHOOSE row \in named : as[row] = i IN
                  Employee(row.username, at[row])
             ELSE account[i]]
  BY DEF AddPeople
<1>5. rows \subseteq NewPeople /\ named \subseteq rows /\ \A row \in named : row.username # None
  BY <1>1
<1> HIDE DEF rows, named
<1>6. at \in [rows -> People]
  BY <1>4 DEF Injection
<1>7. \A row \in NewPeople : row.person \in PersonRows /\ row.chain \in ChainRows \cup {None}
                              /\ row.username \in Names \cup {None}
  BY DEF NewPeople
<1>8. person' \in [People -> PersonRows \cup {None}] /\ access' \in [People -> ChainRows \cup {None}]
  <2> SUFFICES ASSUME NEW p \in People
               PROVE  person'[p] \in PersonRows \cup {None} /\ access'[p] \in ChainRows \cup {None}
    BY <1>4
  <2>1. CASE \E row \in rows : at[row] = p
    <3>1. PICK row \in rows : row = CHOOSE q \in rows : at[q] = p
      BY <2>1
    <3>2. person'[p] = row.person /\ access'[p] = row.chain
      BY <1>4, <2>1, <3>1
    <3>3. QED
      BY <1>5, <1>7, <3>2
  <2>2. CASE ~\E row \in rows : at[row] = p
    BY <1>4, <2>2 DEF TypeOK
  <2>3. QED
    BY <2>1, <2>2
<1>9. account' \in [Ids -> AccountRows \cup {None}]
  <2> SUFFICES ASSUME NEW i \in Ids PROVE account'[i] \in AccountRows \cup {None}
    BY <1>4
  <2>1. CASE \E row \in named : as[row] = i
    <3>1. PICK row \in named : row = CHOOSE q \in named : as[q] = i
      BY <2>1
    <3>2. account'[i] = Employee(row.username, at[row])
      BY <1>4, <2>1, <3>1
    <3>3. row.username \in Names /\ at[row] \in People
      BY <1>5, <1>6, <1>7
    <3>4. QED
      BY <3>2, <3>3 DEF Employee, AccountRows, Roles
  <2>2. CASE ~\E row \in named : as[row] = i
    BY <1>4, <2>2 DEF TypeOK
  <2>3. QED
    BY <2>1, <2>2
<1>10. actors' \subseteq Ids
  BY <1>1 DEF AddPeople, Logs, TypeOK
<1>11. call' \in [Slots -> AccountCalls \cup DirectoryCalls \cup {None}] /\ begun' \in 0 .. MaxCalls
  BY SlotsType DEF AddPeople, Flights
<1>12. QED
  BY <1>8, <1>9, <1>10, <1>11 DEF AddPeople, TypeOK, panel

LEMMA ClosesType ==
  ASSUME account \in [Ids -> AccountRows \cup {None}], NEW p, ClosesAccount(p)
  PROVE  account' \in [Ids -> AccountRows \cup {None}]
<1>1. CASE LinkedTo(p) = {}
  BY <1>1 DEF ClosesAccount
<1>2. CASE LinkedTo(p) # {}
  <2>1. PICK i \in LinkedTo(p) : account' = [account EXCEPT ![i].is_active = FALSE]
    BY <1>2 DEF ClosesAccount
  <2>2. i \in Ids /\ account[i] \in AccountRows
    BY DEF LinkedTo, Exists
  <2>3. PICK b \in BOOLEAN : b = FALSE
    OBVIOUS
  <2>4. [account[i] EXCEPT !.is_active = b] \in AccountRows
    BY <2>2 DEF AccountRows
  <2>5. account' = [account EXCEPT ![i] = [account[i] EXCEPT !.is_active = b]]
    BY <2>1, <2>3
  <2>6. QED
    BY <2>2, <2>4, <2>5
<1>3. QED
  BY <1>1, <1>2

LEMMA UpdatePersonnelTypes ==
  ASSUME TypeOK, CallsAreBacked, NEW s \in Slots, UpdatePersonnel(s)
  PROVE  TypeOK'
<1>1. call[s] \in [op : {"update_personnel"}, by : Ids, id : People, patch : PersonPatches,
                   manager : BOOLEAN]
  BY InFlight DEF UpdatePersonnel
<1>2. PICK c, row : c = call[s] /\ row = person[c.id]
  OBVIOUS
<1>3. row \in PersonRows
  BY <1>1, <1>2 DEF UpdatePersonnel, At, CallsAreBacked, Backed, TypeOK
<1>4. PICK new : new = [personnel_code |-> Given(c.patch.personnel_code, row.personnel_code),
                        org_unit |-> Given(c.patch.org_unit, row.org_unit),
                        is_manager |-> Given(c.patch.is_manager, row.is_manager),
                        active |-> Given(c.patch.active, row.active)]
  OBVIOUS
<1>5. new \in PersonRows
  BY <1>1, <1>2, <1>3, <1>4 DEF PersonRows, PersonPatches, Given
<1>6. person' = [person EXCEPT ![c.id] = new]
  BY <1>2, <1>4 DEF UpdatePersonnel
<1>7. person' \in [People -> PersonRows \cup {None}]
  BY <1>1, <1>2, <1>5, <1>6 DEF TypeOK
<1>8. account' \in [Ids -> AccountRows \cup {None}]
  BY ClosesType DEF UpdatePersonnel, TypeOK
<1>9. access' \in [People -> ChainRows \cup {None}]
  <2>1. CASE c.manager /\ access[c.id] # None
    <3>1. access[c.id] \in ChainRows
      BY <1>1, <1>2, <2>1 DEF TypeOK
    <3>2. [access[c.id] EXCEPT !.sup = None] \in ChainRows
      BY <3>1 DEF ChainRows
    <3>3. access' = [access EXCEPT ![c.id] = [access[c.id] EXCEPT !.sup = None]]
      BY <1>2, <2>1 DEF UpdatePersonnel
    <3>4. QED
      BY <3>2, <3>3 DEF TypeOK
  <2>2. CASE ~(c.manager /\ access[c.id] # None)
    BY <1>2, <2>2 DEF UpdatePersonnel, TypeOK
  <2>3. QED
    BY <2>1, <2>2
<1>10. actors' \subseteq Ids
  BY <1>1 DEF UpdatePersonnel, Logs, TypeOK
<1>11. call' \in [Slots -> AccountCalls \cup DirectoryCalls \cup {None}] /\ begun' \in 0 .. MaxCalls
  BY SlotsType DEF UpdatePersonnel, Flights
<1>12. QED
  BY <1>7, <1>8, <1>9, <1>10, <1>11 DEF UpdatePersonnel, TypeOK, panel

LEMMA FullNameType ==
  ASSUME NEW row \in UnitRows
  PROVE  FullName(row) \in Places
<1>1. <<row.site, row.name>> \in (Sites \cup {None}) \X UnitNames
  BY DEF UnitRows
<1>2. QED
  BY <1>1, JoinAssumption DEF FullName

LEMMA UnitTypes ==
  ASSUME TypeOK, NEW s \in Slots, UpdateUnit(s) \/ DeleteUnit(s)
  PROVE  TypeOK'
<1>1. CASE UpdateUnit(s)
  <2>1. call[s] \in [op : {"update_unit"}, by : Ids, id : Units, old : UnitRows, new : UnitRows]
    BY <1>1, InFlight DEF UpdateUnit
  <2>2. PICK c, now : c = call[s] /\ now = unit[c.id]
    OBVIOUS
  <2>3. now \in UnitRows /\ c.new \in UnitRows
    BY <1>1, <2>1, <2>2 DEF UpdateUnit, TypeOK
  <2>4. PICK row : row = [site |-> IF c.new.site = c.old.site THEN now.site ELSE c.new.site,
                          name |-> IF c.new.name = c.old.name THEN now.name ELSE c.new.name,
                          is_active |-> IF c.new.is_active = c.old.is_active
                                        THEN now.is_active ELSE c.new.is_active]
    OBVIOUS
  <2>5. row \in UnitRows
    BY <2>3, <2>4 DEF UnitRows
  <2>6. unit' = [unit EXCEPT ![c.id] = row]
    BY <1>1, <2>2, <2>4 DEF UpdateUnit
  <2>7. FullName(c.new) \in Places
    BY <2>3, FullNameType
  <2>8. \A p \in People : person[p] # None => [person[p] EXCEPT !.org_unit = FullName(c.new)] \in PersonRows
    BY <2>7 DEF TypeOK, PersonRows
  <2>9. person' \in [People -> PersonRows \cup {None}]
    BY <1>1, <2>2, <2>8 DEF UpdateUnit, TypeOK
  <2>10. actors' \subseteq Ids
    BY <1>1, <2>1 DEF UpdateUnit, Logs, TypeOK
  <2>11. call' \in [Slots -> AccountCalls \cup DirectoryCalls \cup {None}] /\ begun' \in 0 .. MaxCalls
    BY <1>1, SlotsType DEF UpdateUnit, Flights
  <2>12. QED
    BY <1>1, <2>1, <2>2, <2>5, <2>6, <2>9, <2>10, <2>11 DEF UpdateUnit, TypeOK, panel
<1>2. CASE DeleteUnit(s)
  <2>1. call[s] \in [op : {"delete_unit"}, by : Ids, id : Units]
    BY <1>2, InFlight DEF DeleteUnit
  <2>2. actors' \subseteq Ids
    BY <1>2, <2>1 DEF DeleteUnit, Logs, TypeOK
  <2>3. call' \in [Slots -> AccountCalls \cup DirectoryCalls \cup {None}] /\ begun' \in 0 .. MaxCalls
    BY <1>2, SlotsType DEF DeleteUnit, Flights
  <2>4. QED
    BY <1>2, <2>1, <2>2, <2>3 DEF DeleteUnit, TypeOK, panel, people
<1>3. QED
  BY <1>1, <1>2

\* An administrator who is added without a call of anybody.
LEMMA AddAdminTypes ==
  ASSUME TypeOK, NEW n \in Names, AddAdmin(n)
  PROVE  account' \in [Ids -> AccountRows \cup {None}] /\ grants' \subseteq GrantRows
<1>1. PICK i \in Ids :
        /\ account' = [account EXCEPT ![i] =
             [username |-> n, full_name |-> AdminName, role |-> "support",
              is_active |-> TRUE, personnel_id |-> None]]
        /\ grants' = grants \cup [user : {i}, capability : Capability, by : {None}]
  BY DEF AddAdmin
<1>2. [username |-> n, full_name |-> AdminName, role |-> "support",
       is_active |-> TRUE, personnel_id |-> None] \in AccountRows
  BY AdminAssumption DEF AccountRows, Roles
<1>3. [user : {i}, capability : Capability, by : {None}] \subseteq GrantRows
  BY DEF GrantRows
<1>4. QED
  BY <1>1, <1>2, <1>3 DEF TypeOK

LEMMA StartUpTypes ==
  ASSUME TypeOK, StartUp
  PROVE  TypeOK' \/ CallBegins
<1>1. ASSUME NEW r \in Replicas, Start(r)
      PROVE  TypeOK'
  <2>1. Effective(stored) \in [Settings -> Values]
    BY EffectiveType DEF TypeOK
  <2>2. effect' \in [Replicas -> [Settings -> Values]]
    BY <1>1, <2>1 DEF Start, TypeOK
  <2>3. call' \in [Slots -> AccountCalls \cup DirectoryCalls \cup {None}] /\ begun' \in 0 .. MaxCalls
    BY <1>1, AtOnceType DEF Start, Flights
  <2>4. QED
    BY <1>1, <2>2, <2>3 DEF Start, StartUp, TypeOK, people
<1>2. ASSUME NEW s \in Slots, NEW n \in Names, BeginBootstrap(s, n)
      PROVE  CallBegins
  BY <1>2, BootstrapBegins DEF StartUp
<1>3. ASSUME NEW s \in Slots, Bootstrap(s)
      PROVE  TypeOK'
  <2>1. call[s].name \in Names
    BY <1>3, InFlight DEF Bootstrap
  <2>2. call' \in [Slots -> AccountCalls \cup DirectoryCalls \cup {None}] /\ begun' \in 0 .. MaxCalls
    BY <1>3, SlotsType DEF Bootstrap, Flights
  <2>3. account' \in [Ids -> AccountRows \cup {None}] /\ grants' \subseteq GrantRows
    BY <1>3, <2>1, AddAdminTypes DEF Bootstrap
  <2>4. QED
    BY <1>3, <2>2, <2>3 DEF Bootstrap, AddAdmin, StartUp, TypeOK, panel, people
<1>4. ASSUME NEW n \in Names, CreateAdmin(n)
      PROVE  TypeOK'
  <2>1. call' \in [Slots -> AccountCalls \cup DirectoryCalls \cup {None}] /\ begun' \in 0 .. MaxCalls
    BY <1>4, AtOnceType DEF CreateAdmin, Flights
  <2>2. account' \in [Ids -> AccountRows \cup {None}] /\ grants' \subseteq GrantRows
    BY <1>4, AddAdminTypes DEF CreateAdmin
  <2>3. QED
    BY <1>4, <2>1, <2>2 DEF CreateAdmin, AddAdmin, StartUp, TypeOK, panel, people
<1>5. QED
  BY <1>1, <1>2, <1>3, <1>4 DEF StartUp

LEMMA CallAtOnceTypes ==
  ASSUME TypeOK, NEW a \in Ids, CallAtOnce(a)
  PROVE  TypeOK'
<1>0. AtOnce => call' \in [Slots -> AccountCalls \cup DirectoryCalls \cup {None}]
                /\ begun' \in 0 .. MaxCalls
  BY AtOnceType DEF Flights
<1>1. ASSUME NEW e \in Entries, CreateUnit(a, e[1], e[2])
      PROVE  TypeOK'
  <2>1. e[1] \in Sites \cup {None} /\ e[2] \in UnitNames
    BY EntryAssumption
  <2>2. [site |-> e[1], name |-> e[2], is_active |-> TRUE] \in UnitRows
    BY <2>1 DEF UnitRows
  <2>3. unit' \in [Units -> UnitRows \cup {None}]
    BY <1>1, <2>2 DEF CreateUnit, TypeOK
  <2>4. QED
    BY <1>0, <1>1, <2>3 DEF CreateUnit, Logs, TypeOK, panel, people
<1>2. CASE Login(a) /\ UNCHANGED unit
  BY <1>0, <1>2 DEF Login, Logs, TypeOK, panel, people
<1>3. ASSUME NEW key \in Modules, ToggleModule(a, key), UNCHANGED unit
      PROVE  TypeOK'
  <2>1. off' \subseteq Modules
    BY <1>3 DEF ToggleModule, TypeOK
  <2>2. QED
    BY <1>0, <1>3, <2>1 DEF ToggleModule, Logs, TypeOK, people
<1>4. QED
  BY <1>1, <1>2, <1>3 DEF CallAtOnce

LEMMA ApplyPlanTypes ==
  ASSUME TypeOK, NEW file \in Files, NEW plan \in Injection(Evaluators(file), Names),
         ApplyPlan(file, plan)
  PROVE  TypeOK'
<1>1. plan \in [Evaluators(file) -> Names]
  BY DEF Injection
<1> DEFINE new == {w \in DOMAIN plan : ~NameTaken(plan[w])}
<1>2. new \subseteq DOMAIN plan
  OBVIOUS
<1>3. PICK as \in Injection(new, {i \in Ids : Free(i)}) :
        account' = [i \in Ids |->
          IF \E w \in new : as[w] = i
          THEN LET w == CHOOSE w \in new : as[w] = i IN
               [username |-> plan[w], full_name |-> w, role |-> RoleAsked(file, w),
                is_active |-> TRUE, personnel_id |-> None]
          ELSE account[i]]
  BY DEF ApplyPlan
<1> HIDE DEF new
<1>4. account' \in [Ids -> AccountRows \cup {None}]
  <2> SUFFICES ASSUME NEW i \in Ids PROVE account'[i] \in AccountRows \cup {None}
    BY <1>3
  <2>1. CASE \E w \in new : as[w] = i
    <3>1. PICK w \in new : w = CHOOSE v \in new : as[v] = i
      BY <2>1
    <3>2. account'[i] = [username |-> plan[w], full_name |-> w, role |-> RoleAsked(file, w),
                         is_active |-> TRUE, personnel_id |-> None]
      BY <1>3, <2>1, <3>1
    <3>3. w \in FullNames \cup Names /\ plan[w] \in Names
      BY <1>1, <1>2 DEF Evaluators, Words
    <3>4. RoleAsked(file, w) \in Roles
      BY DEF RoleAsked, Roles
    <3>5. QED
      BY <3>2, <3>3, <3>4 DEF AccountRows
  <2>2. CASE ~\E w \in new : as[w] = i
    BY <1>3, <2>2 DEF TypeOK
  <2>3. QED
    BY <2>1, <2>2
<1>5. call' \in [Slots -> AccountCalls \cup DirectoryCalls \cup {None}] /\ begun' \in 0 .. MaxCalls
  BY AtOnceType DEF ApplyPlan, Flights
<1>6. QED
  BY <1>4, <1>5 DEF ApplyPlan, TypeOK, panel, people

LEMMA BeginTypes ==
  ASSUME TypeOK, CallBegins
  PROVE  TypeOK'
<1>1. call' \in [Slots -> AccountCalls \cup DirectoryCalls \cup {None}] /\ begun' \in 0 .. MaxCalls
  BY SlotsType DEF CallBegins, Flights
<1>2. QED
  BY <1>1 DEF CallBegins, TypeOK, accounts, people

\* All a step can do.
LEMMA StepKinds ==
  ASSUME TypeOK, [Next]_vars
  PROVE  \/ CallBegins
         \/ \E s \in Slots : AccountCommit(s) \/ DirectoryCommit(s)
         \/ \E a \in Ids : CallAtOnce(a)
         \/ \E file \in Files : \E plan \in Injection(Evaluators(file), Names) : ApplyPlan(file, plan)
         \/ StartUp
         \/ UNCHANGED vars
  BY AccountCallBegins, DirectoryCallBegins DEF Next

LEMMA TypeNext ==
  ASSUME TypeOK, CallsAreBacked, [Next]_vars
  PROVE  TypeOK'
<1>1. CASE UNCHANGED vars
  BY <1>1 DEF vars, TypeOK, people, panel
<1>2. QED
  BY <1>1, StepKinds, BeginTypes, AccountCommitTypes, AddPeopleTypes, UpdatePersonnelTypes,
     UnitTypes, CallAtOnceTypes, ApplyPlanTypes, StartUpTypes DEF DirectoryCommit
-------------------------------------------------------------------------------
(* What a call relies on stays *)

\* The log is never shortened, and a person is never deleted.
NothingIsLost ==
  /\ actors \subseteq actors'
  /\ \A p \in People : person[p] # None => person'[p] # None

CallsEnd == call' = call \/ \E s \in Slots : Ends(s)

LEMMA WritesLoseNothing ==
  ASSUME TypeOK, TypeOK', CallsAreBacked, [Next]_vars
  PROVE  NothingIsLost /\ (CallBegins \/ CallsEnd)
<1>0. ASSUME person' = person, actors \subseteq actors', CallsEnd
      PROVE  NothingIsLost /\ CallsEnd
  BY <1>0 DEF NothingIsLost
<1>l. \A a : Logs(a) => actors \subseteq actors'
  BY DEF Logs
<1>1. CASE CallBegins
  BY <1>1 DEF CallBegins, NothingIsLost, accounts, people
<1>2. ASSUME NEW s \in Slots, AccountCommit(s)
      PROVE  NothingIsLost /\ CallsEnd
  BY <1>0, <1>l, <1>2 DEF AccountCommit, CreateUser, UpdateUser, DeleteUser, SetCapabilities, Save,
     Rollback, CallsEnd, people
<1>3. ASSUME NEW s \in Slots, AddPeople(s)
      PROVE  NothingIsLost /\ CallsEnd
  <2> DEFINE rows == call[s].rows
             named == {row \in rows : row.username # None}
  <2>1. PICK at \in Injection(rows, {p \in People : person[p] = None}),
             as \in Injection(named, {i \in Ids : Free(i)}) :
          person' = [p \in People |->
             IF \E row \in rows : at[row] = p
             THEN (CHOOSE row \in rows : at[row] = p).person ELSE person[p]]
    BY <1>3 DEF AddPeople
  <2> HIDE DEF rows, named
  <2>2. at \in [rows -> {p \in People : person[p] = None}]
    BY <2>1 DEF Injection
  <2>3. \A p \in People : person[p] # None => person'[p] = person[p]
    BY <2>1, <2>2
  <2>4. QED
    BY <1>3, <1>l, <2>3 DEF AddPeople, NothingIsLost, CallsEnd
<1>4. ASSUME NEW s \in Slots, UpdatePersonnel(s)
      PROVE  NothingIsLost /\ CallsEnd
  <2>1. PICK new : new = [personnel_code |-> Given(call[s].patch.personnel_code, person[call[s].id].personnel_code),
                        org_unit |-> Given(call[s].patch.org_unit, person[call[s].id].org_unit),
                        is_manager |-> Given(call[s].patch.is_manager, person[call[s].id].is_manager),
                        active |-> Given(call[s].patch.active, person[call[s].id].active)]
    OBVIOUS
  <2>2. person' = [person EXCEPT ![call[s].id] = new]
    BY <1>4, <2>1 DEF UpdatePersonnel
  <2>3. call[s].id \in People
    BY <1>4, InFlight DEF UpdatePersonnel
  <2>4. new \in PersonRows
    <3>1. person[call[s].id] # None
      BY <1>4, InFlight DEF UpdatePersonnel, At, CallsAreBacked, Backed
    <3>2. person[call[s].id] \in PersonRows /\ call[s].patch \in PersonPatches
      BY <1>4, <2>3, <3>1, InFlight DEF UpdatePersonnel, TypeOK
    <3>3. QED
      BY <2>1, <3>2 DEF PersonRows, PersonPatches, Given
  <2>5. \A p \in People : person[p] # None => person'[p] # None
    BY <2>2, <2>3, <2>4, RowAssumption DEF TypeOK
  <2>6. QED
    BY <1>4, <1>l, <2>5 DEF UpdatePersonnel, NothingIsLost, CallsEnd
<1>5. ASSUME NEW s \in Slots, UpdateUnit(s)
      PROVE  NothingIsLost /\ CallsEnd
  <2>1. \A p \in People : person[p] # None =>
          [person[p] EXCEPT !.org_unit = FullName(call[s].new)] \in PersonRows
    <3>1. FullName(call[s].new) \in Places
      BY <1>5, InFlight, FullNameType DEF UpdateUnit
    <3>2. QED
      BY <3>1 DEF TypeOK, PersonRows
  <2>2. person' = [p \in People |->
             IF person[p] # None /\ person[p].org_unit = FullName(call[s].old)
             THEN [person[p] EXCEPT !.org_unit = FullName(call[s].new)] ELSE person[p]]
    BY <1>5 DEF UpdateUnit
  <2>3. \A p \in People : person[p] # None => person'[p] # None
    BY <2>1, <2>2, RowAssumption
  <2>4. QED
    BY <1>5, <1>l, <2>3 DEF UpdateUnit, NothingIsLost, CallsEnd
<1>6. ASSUME NEW s \in Slots, DeleteUnit(s)
      PROVE  NothingIsLost /\ CallsEnd
  BY <1>0, <1>l, <1>6 DEF DeleteUnit, CallsEnd, people
<1>7. ASSUME NEW a \in Ids, CallAtOnce(a)
      PROVE  NothingIsLost /\ CallsEnd
  BY <1>0, <1>l, <1>7 DEF CallAtOnce, CreateUnit, Login, ToggleModule, AtOnce, CallsEnd, people
<1>8. ASSUME NEW file, NEW plan, ApplyPlan(file, plan)
      PROVE  NothingIsLost /\ CallsEnd
  BY <1>0, <1>8 DEF ApplyPlan, AtOnce, CallsEnd, people
<1>9. CASE StartUp
  <2>1. CASE \E s \in Slots, n \in Names : BeginBootstrap(s, n)
    BY <1>1, <1>9, <2>1, BootstrapBegins DEF StartUp
  <2>2. CASE ~\E s \in Slots, n \in Names : BeginBootstrap(s, n)
    BY <1>0, <1>9, <2>2 DEF StartUp, Start, Bootstrap, CreateAdmin, AddAdmin, AtOnce, CallsEnd, people
  <2>3. QED
    BY <2>1, <2>2
<1>10. CASE UNCHANGED vars
  BY <1>0, <1>10 DEF vars, CallsEnd, people
<1>11. QED
  BY <1>1, <1>2, <1>3, <1>4, <1>5, <1>6, <1>7, <1>8, <1>9, <1>10, StepKinds DEF DirectoryCommit

LEMMA BackedNext ==
  ASSUME TypeOK, TypeOK', CallsAreBacked, [Next]_vars
  PROVE  CallsAreBacked'
<1>0. NothingIsLost /\ (CallBegins \/ CallsEnd)
  BY WritesLoseNothing
<1> SUFFICES ASSUME NEW s \in Slots, call'[s] # None PROVE Backed(call[s])'
  BY DEF CallsAreBacked
<1>1. Backed(call'[s])
  <2>1. CASE CallsEnd
    BY <2>1 DEF CallsEnd, Ends, CallsAreBacked, TypeOK
  <2>2. CASE CallBegins
    BY <2>2 DEF CallBegins, Begins, CallsAreBacked, TypeOK
  <2>3. QED
    BY <1>0, <2>1, <2>2
<1>2. call'[s] \in Flights
  BY DEF TypeOK, Flights
<1>3. call'[s].op = "create_user" => call'[s].row \in AccountRows
  BY <1>2 DEF Flights, AccountCalls, DirectoryCalls
<1>4. call'[s].op = "update_user" => call'[s].patch \in UserPatches
  BY <1>2 DEF Flights, AccountCalls, DirectoryCalls
<1>5. call'[s].op = "update_personnel" => call'[s].id \in People
  BY <1>2 DEF Flights, AccountCalls, DirectoryCalls
<1>6. call'[s].op = "create_user" /\ call'[s].row.personnel_id # None =>
        person'[call'[s].row.personnel_id] # None
  BY <1>0, <1>1, <1>3 DEF Backed, NothingIsLost, AccountRows
<1>7. call'[s].op = "update_user" /\ call'[s].patch.personnel_id \notin {None, Unset} =>
        person'[call'[s].patch.personnel_id] # None
  BY <1>0, <1>1, <1>4 DEF Backed, NothingIsLost, UserPatches
<1>8. call'[s].op = "update_personnel" => person'[call'[s].id] # None
  BY <1>0, <1>1, <1>5 DEF Backed, NothingIsLost
<1>9. QED
  BY <1>0, <1>1, <1>6, <1>7, <1>8 DEF Backed, NothingIsLost

-------------------------------------------------------------------------------
(* No row refers to one that is gone *)

\* Accounts are added or written, but none is deleted and none is linked otherwise.
AccountsStay ==
  \A i \in Ids : account[i] # None =>
    account'[i] # None /\ account'[i].personnel_id = account[i].personnel_id

LEMMA SoundWrites ==
  ASSUME TypeOK, TypeOK', NothingDangles, NothingIsLost, AccountsStay,
         \A i \in actors' : i \in actors \/ account[i] # None,
         \A g \in grants' : g \in grants \/ (account'[g.user] # None /\ g.by \in actors' \cup {None}),
         \A i \in Ids : account[i] = None /\ account'[i] # None /\ account'[i].personnel_id # None =>
           person'[account'[i].personnel_id] # None,
         \A p \in People : access'[p] # None =>
           \/ access[p] # None /\ Occupants(access'[p]) \subseteq Occupants(access[p])
           \/ /\ person'[p] # None
              /\ \A i \in Occupants(access'[p]) : account[i] # None /\ account[i].personnel_id # p
  PROVE  NothingDangles'
<1>0. \A i \in Ids : account'[i] # None => account'[i].personnel_id \in People \cup {None}
  BY DEF TypeOK, AccountRows
<1>1. \A i \in actors' : account'[i] # None
  BY DEF NothingDangles, Sound, AccountsStay, TypeOK
<1>2. \A g \in grants' : account'[g.user] # None /\ g.by \in actors' \cup {None}
  <2> SUFFICES ASSUME NEW g \in grants' PROVE account'[g.user] # None /\ g.by \in actors' \cup {None}
    OBVIOUS
  <2>1. g.user \in Ids
    BY DEF TypeOK, GrantRows
  <2>2. QED
    BY <2>1 DEF NothingDangles, Sound, AccountsStay, NothingIsLost
<1>3. \A i \in Ids : account'[i] # None /\ account'[i].personnel_id # None =>
        person'[account'[i].personnel_id] # None
  BY <1>0 DEF NothingDangles, Sound, AccountsStay, NothingIsLost
<1>4. ASSUME NEW p \in People, access'[p] # None
      PROVE  person'[p] # None /\ \A i \in Occupants(access'[p]) : account'[i] # None /\ account'[i].personnel_id # p
  <2>1. Occupants(access'[p]) \subseteq Ids
    BY <1>4 DEF TypeOK, ChainRows, Occupants
  <2>2. CASE access[p] # None /\ Occupants(access'[p]) \subseteq Occupants(access[p])
    BY <2>1, <2>2 DEF NothingDangles, Sound, AccountsStay, NothingIsLost
  <2>3. CASE /\ person'[p] # None
             /\ \A i \in Occupants(access'[p]) : account[i] # None /\ account[i].personnel_id # p
    BY <2>1, <2>3 DEF AccountsStay
  <2>4. QED
    BY <1>4, <2>2, <2>3
<1>5. QED
  BY <1>1, <1>2, <1>3, <1>4 DEF NothingDangles, Sound
LEMMA CreateUserSound ==
  ASSUME TypeOK, TypeOK', CallsAreBacked, NothingDangles, NothingIsLost, NEW s \in Slots,
         CreateUser(s)
  PROVE  NothingDangles' /\ AccountsStay
<1>1. call[s] \in [op : {"create_user"}, by : Ids, row : AccountRows]
  BY InFlight DEF CreateUser
<1>2. PICK i \in Ids : /\ Free(i) /\ account' = [account EXCEPT ![i] = call[s].row]
                       /\ grants' = IF call[s].row.role = "hr" THEN WithDefaults(i, grants)
                                    ELSE grants
  BY DEF CreateUser
<1>3. /\ account'[i] = call[s].row /\ account'[i] # None
      /\ \A j \in Ids \ {i} : account'[j] = account[j]
  BY <1>1, <1>2, AccountAssumption DEF TypeOK
<1>4. AccountsStay
  BY <1>2, <1>3 DEF AccountsStay, Free
<1>5. \A g \in grants' : g \in grants \/ (account'[g.user] # None /\ g.by \in actors' \cup {None})
  BY <1>2, <1>3 DEF WithDefaults
<1>6. call[s].row.personnel_id # None => person'[call[s].row.personnel_id] # None
  BY DEF CreateUser, At, CallsAreBacked, Backed, people
<1>7. \A j \in actors' : j \in actors \/ account[j] # None
  BY DEF CreateUser, Logs, Exists
<1>8. \A j \in Ids : account[j] = None /\ account'[j] # None /\ account'[j].personnel_id # None =>
        person'[account'[j].personnel_id] # None
  BY <1>3, <1>6
<1>9. access' = access
  BY DEF CreateUser, people
<1>10. QED
  BY <1>4, <1>5, <1>7, <1>8, <1>9, SoundWrites

LEMMA UpdateUserSound ==
  ASSUME TypeOK, TypeOK', CallsAreBacked, NothingDangles, NEW s \in Slots, UpdateUser(s)
  PROVE  NothingDangles'
<1>1. call[s] \in [op : {"update_user"}, by : Ids, id : Ids, patch : UserPatches,
                   resets : BOOLEAN]
  BY InFlight DEF UpdateUser
<1>2. PICK c, new : c = call[s] /\ new = Patched(account[c.id], c.patch)
  OBVIOUS
<1>3. /\ account' = [account EXCEPT ![c.id] = new] /\ c.id \in Ids /\ account[c.id] \in AccountRows
      /\ new \in AccountRows
  BY <1>1, <1>2, PatchedType DEF UpdateUser, Exists, TypeOK
<1>4. /\ account'[c.id] = new /\ new # None
      /\ \A j \in Ids \ {c.id} : account'[j] = account[j]
  BY <1>3, AccountAssumption DEF TypeOK
<1>5. new.personnel_id = Given(c.patch.personnel_id, account[c.id].personnel_id)
  BY <1>2 DEF Patched
<1>6. c.patch.personnel_id \notin {None, Unset} =>
        person[c.patch.personnel_id] # None /\ ~SitsFor(c.id, c.patch.personnel_id)
  BY <1>2 DEF UpdateUser, At, CallsAreBacked, Backed
<1>7. person' = person /\ access' = access
  BY DEF UpdateUser, people
<1>8. \A j \in actors' : account'[j] # None
  BY <1>4 DEF UpdateUser, Logs, Exists, NothingDangles, Sound, TypeOK
<1>9. \A g \in grants' : account'[g.user] # None /\ g.by \in actors' \cup {None}
  <2>1. \A g \in grants' : g \in grants \/ g \in [user : {c.id}, capability : DEFAULT_HR_CAPABILITIES, by : {None}]
    BY <1>2 DEF UpdateUser, WithDefaults
  <2>2. \A g \in grants : account'[g.user] # None /\ g.by \in actors' \cup {None}
    BY <1>4 DEF NothingDangles, Sound, TypeOK, GrantRows, UpdateUser, Logs
  <2>3. \A g \in [user : {c.id}, capability : DEFAULT_HR_CAPABILITIES, by : {None}] :
          account'[g.user] # None /\ g.by \in actors' \cup {None}
    BY <1>4
  <2>4. QED
    BY <2>1, <2>2, <2>3
<1>10. \A j \in Ids : account'[j] # None /\ account'[j].personnel_id # None =>
         person'[account'[j].personnel_id] # None
  BY <1>3, <1>4, <1>5, <1>6, <1>7 DEF Given, NothingDangles, Sound, Exists, UpdateUser
<1>11. ASSUME NEW p \in People, access'[p] # None
       PROVE  person'[p] # None /\ \A j \in Occupants(access'[p]) : account'[j] # None /\ account'[j].personnel_id # p
  <2>1. Occupants(access[p]) \subseteq Ids
    BY <1>7, <1>11 DEF TypeOK, ChainRows, Occupants
  <2>2. /\ person[p] # None
        /\ \A j \in Occupants(access[p]) : account[j] # None /\ account[j].personnel_id # p
    BY <1>7, <1>11 DEF NothingDangles, Sound
  <2>3. ASSUME c.id \in Occupants(access[p])
        PROVE  new.personnel_id # p
    <3>1. SitsFor(c.id, p)
      BY <1>7, <1>11, <2>3 DEF SitsFor
    <3>2. p # None
      BY AbsentAssumption
    <3>3. account[c.id].personnel_id # p
      BY <2>2, <2>3
    <3>4. QED
      BY <1>5, <1>6, <3>1, <3>2, <3>3 DEF Given
  <2>4. QED
    BY <1>4, <1>7, <2>1, <2>2, <2>3
<1>12. QED
  BY <1>8, <1>9, <1>10, <1>11 DEF NothingDangles, Sound

\* Who has left a trace, or sits for somebody, is not deleted; the caller has acted.
LEMMA DeleteUserSound ==
  ASSUME TypeOK, TypeOK', CallsAreBacked, NothingDangles, NEW s \in Slots, DeleteUser(s)
  PROVE  NothingDangles'
<1>1. PICK i : i = call[s].id
  OBVIOUS
<1>2. i \in Ids /\ account' = [account EXCEPT ![i] = None] /\ grants' = Without(i, grants)
  BY <1>1, InFlight DEF DeleteUser
<1>3. \A j \in Ids \ {i} : account'[j] = account[j]
  BY <1>2 DEF TypeOK
<1>4. i \notin actors /\ \A p \in People : ~SitsFor(i, p)
  BY <1>1 DEF DeleteUser, Referenced
<1>5. call[s].by \in actors /\ actors' = actors
  BY DEF DeleteUser, At, CallsAreBacked, Backed, Logs
<1>6. person' = person /\ access' = access
  BY DEF DeleteUser, people
<1>7. \A j \in actors' : account'[j] # None
  BY <1>3, <1>4, <1>5 DEF NothingDangles, Sound, TypeOK
<1>8. \A g \in grants' : account'[g.user] # None /\ g.by \in actors' \cup {None}
  BY <1>2, <1>3, <1>5 DEF Without, NothingDangles, Sound, TypeOK, GrantRows
<1>9. \A j \in Ids : account'[j] # None /\ account'[j].personnel_id # None =>
        person'[account'[j].personnel_id] # None
  BY <1>2, <1>3, <1>6 DEF NothingDangles, Sound, TypeOK
<1>10. ASSUME NEW p \in People, access'[p] # None
       PROVE  person'[p] # None /\ \A j \in Occupants(access'[p]) : account'[j] # None /\ account'[j].personnel_id # p
  <2>1. Occupants(access[p]) \subseteq Ids \ {i}
    BY <1>4, <1>6, <1>10 DEF TypeOK, ChainRows, Occupants, SitsFor
  <2>2. QED
    BY <1>3, <1>6, <1>10, <2>1 DEF NothingDangles, Sound
<1>11. QED
  BY <1>7, <1>8, <1>9, <1>10 DEF NothingDangles, Sound

LEMMA SetCapabilitiesSound ==
  ASSUME TypeOK, TypeOK', NothingDangles, NothingIsLost, NEW s \in Slots, SetCapabilities(s)
  PROVE  NothingDangles' /\ AccountsStay
<1>1. PICK c : c = call[s]
  OBVIOUS
<1>2. account' = account /\ access' = access
  BY DEF SetCapabilities, people
<1>3. ASSUME NEW g \in grants', g \notin grants
      PROVE  account'[g.user] # None /\ g.by \in actors' \cup {None}
  <2>1. g \in [user : {c.id}, capability : c.add, by : {c.by}]
    BY <1>1, <1>3 DEF SetCapabilities
  <2>2. g.user = c.id /\ c.add # {} /\ g.by = c.by
    BY <2>1
  <2>3. QED
    BY <1>1, <1>2, <2>2 DEF SetCapabilities, Logs, Exists
<1>4. \A j \in actors' : j \in actors \/ account[j] # None
  BY DEF SetCapabilities, Logs, Exists
<1>5. QED
  BY <1>2, <1>3, <1>4, SoundWrites DEF AccountsStay

\* People come with a row, a chain of accounts that are there, and an account of their own.
LEMMA AddPeopleSound ==
  ASSUME TypeOK, TypeOK', NothingDangles, NothingIsLost, NEW s \in Slots, AddPeople(s)
  PROVE  NothingDangles' /\ AccountsStay
<1>1. call[s] \in [op : {"add_people"}, by : Ids, rows : SUBSET NewPeople]
  BY InFlight DEF AddPeople
<1> DEFINE rows == call[s].rows
           named == {row \in rows : row.username # None}
<1>2. PICK at \in Injection(rows, {p \in People : person[p] = None}),
           as \in Injection(named, {i \in Ids : Free(i)}) :
        /\ person' = [p \in People |->
             IF \E row \in rows : at[row] = p
             THEN (CHOOSE row \in rows : at[row] = p).person ELSE person[p]]
        /\ access' = [p \in People |->
             IF \E row \in rows : at[row] = p
             THEN (CHOOSE row \in rows : at[row] = p).chain ELSE access[p]]
        /\ account' = [i \in Ids |->
             IF \E row \in named : as[row] = i
             THEN LET row == CHOOSE row \in named : as[row] = i IN
                  Employee(row.username, at[row])
             ELSE account[i]]
  BY DEF AddPeople
<1>3. /\ rows \subseteq NewPeople /\ named \subseteq rows
      /\ \A row \in rows : row.chain # None => \A i \in Occupants(row.chain) : account[i] # None
  BY <1>1 DEF AddPeople, Exists
<1> HIDE DEF rows, named
<1>4. /\ at \in [rows -> {p \in People : person[p] = None}]
      /\ as \in [named -> {i \in Ids : Free(i)}]
  BY <1>2 DEF Injection
<1>5. AccountsStay
  BY <1>2, <1>4 DEF AccountsStay, Free
<1>6. \A row \in rows : person'[at[row]] # None
  <2> SUFFICES ASSUME NEW row \in rows PROVE person'[at[row]] # None
    OBVIOUS
  <2>1. PICK q \in rows : q = CHOOSE r \in rows : at[r] = at[row]
    OBVIOUS
  <2>2. person'[at[row]] = q.person
    BY <1>2, <1>4, <2>1
  <2>3. QED
    BY <1>3, <2>2, RowAssumption DEF NewPeople
<1>7. ASSUME NEW i \in Ids, account[i] = None, account'[i] # None, account'[i].personnel_id # None
      PROVE  person'[account'[i].personnel_id] # None
  <2>1. \E row \in named : as[row] = i
    BY <1>2, <1>7
  <2>2. PICK q \in named : q = CHOOSE row \in named : as[row] = i
    BY <2>1
  <2>3. account'[i] = Employee(q.username, at[q])
    BY <1>2, <2>1, <2>2
  <2>4. QED
    BY <1>3, <1>6, <2>3 DEF Employee
<1>8. ASSUME NEW p \in People, access'[p] # None
      PROVE  \/ access[p] # None /\ Occupants(access'[p]) \subseteq Occupants(access[p])
             \/ /\ person'[p] # None
                /\ \A i \in Occupants(access'[p]) : account[i] # None /\ account[i].personnel_id # p
  <2>1. CASE \E row \in rows : at[row] = p
    <3>1. PICK q \in rows : q = CHOOSE row \in rows : at[row] = p
      BY <2>1
    <3>2. access'[p] = q.chain
      BY <1>2, <2>1, <3>1
    <3>3. person[p] = None /\ person'[p] # None
      BY <1>4, <1>6, <2>1
    <3>4. Occupants(access'[p]) \subseteq Ids
      BY <1>8 DEF TypeOK, ChainRows, Occupants
    <3>5. \A i \in Occupants(access'[p]) : account[i] # None
      BY <1>3, <1>8, <3>2
    <3>6. p # None
      BY AbsentAssumption
    <3>7. \A i \in Occupants(access'[p]) : account[i].personnel_id # p
      BY <3>3, <3>4, <3>5, <3>6 DEF NothingDangles, Sound
    <3>8. QED
      BY <3>3, <3>5, <3>7
  <2>2. CASE ~\E row \in rows : at[row] = p
    BY <1>2, <1>8, <2>2
  <2>3. QED
    BY <2>1, <2>2
<1>9. \A j \in actors' : j \in actors \/ account[j] # None
  BY DEF AddPeople, Logs, Exists
<1>10. grants' = grants
  BY DEF AddPeople
<1>11. QED
  BY <1>5, <1>7, <1>8, <1>9, <1>10, SoundWrites

LEMMA UpdatePersonnelSound ==
  ASSUME TypeOK, TypeOK', NothingDangles, NothingIsLost, NEW s \in Slots, UpdatePersonnel(s)
  PROVE  NothingDangles' /\ AccountsStay
<1>1. AccountsStay
  <2>1. PICK b \in BOOLEAN : b = FALSE
    OBVIOUS
  <2>2. \/ account' = account
        \/ \E i \in Ids : account[i] # None
                        /\ account' = [account EXCEPT ![i] = [account[i] EXCEPT !.is_active = b]]
    BY <2>1 DEF UpdatePersonnel, ClosesAccount, LinkedTo, Exists
  <2>3. ASSUME NEW i \in Ids, account[i] # None,
               account' = [account EXCEPT ![i] = [account[i] EXCEPT !.is_active = b]]
        PROVE  AccountsStay
    <3>1. account[i] \in AccountRows
      BY <2>3 DEF TypeOK
    <3>2. PICK d : d = [account[i] EXCEPT !.is_active = b]
      OBVIOUS
    <3>3. d \in AccountRows /\ d.personnel_id = account[i].personnel_id
      BY <3>1, <3>2 DEF AccountRows
    <3>4. account' = [account EXCEPT ![i] = d]
      BY <2>3, <3>2
    <3>5. QED
      BY <3>3, <3>4, AccountAssumption DEF AccountsStay, TypeOK
  <2>4. QED
    BY <2>2, <2>3 DEF AccountsStay
<1>2. ASSUME NEW p \in People, access'[p] # None
      PROVE  access[p] # None /\ Occupants(access'[p]) \subseteq Occupants(access[p])
  <2>1. CASE access'[p] = access[p]
    BY <1>2, <2>1
  <2>2. CASE access'[p] # access[p]
    <3>1. /\ access[call[s].id] # None
          /\ access' = [access EXCEPT ![call[s].id] = [access[call[s].id] EXCEPT !.sup = None]]
      BY <2>2 DEF UpdatePersonnel
    <3>2. p = call[s].id /\ access[p] \in ChainRows
      BY <2>2, <3>1 DEF TypeOK
    <3>3. access'[p] = [access[p] EXCEPT !.sup = None]
      BY <3>1, <3>2 DEF TypeOK
    <3>4. QED
      BY <3>1, <3>2, <3>3 DEF ChainRows, Occupants
  <2>3. QED
    BY <2>1, <2>2
<1>3. \A j \in actors' : j \in actors \/ account[j] # None
  BY DEF UpdatePersonnel, Logs, Exists
<1>4. \A j \in Ids : account[j] = None => account'[j] = None
  BY DEF UpdatePersonnel, ClosesAccount, LinkedTo, Exists, TypeOK
<1>5. grants' = grants
  BY DEF UpdatePersonnel
<1>6. QED
  BY <1>1, <1>2, <1>3, <1>4, <1>5, SoundWrites

LEMMA AddAdminSound ==
  ASSUME TypeOK, TypeOK', NothingDangles, NothingIsLost, NEW n \in Names, AddAdmin(n)
  PROVE  NothingDangles' /\ AccountsStay
<1>1. PICK row : row = [username |-> n, full_name |-> AdminName, role |-> "support",
                        is_active |-> TRUE, personnel_id |-> None]
  OBVIOUS
<1>2. row \in AccountRows /\ row.personnel_id = None
  BY <1>1, AdminAssumption DEF AccountRows, Roles
<1>3. PICK i \in Ids : /\ Free(i) /\ account' = [account EXCEPT ![i] = row]
                       /\ grants' = grants \cup [user : {i}, capability : Capability, by : {None}]
  BY <1>1 DEF AddAdmin
<1>4. account'[i] = row /\ row # None /\ \A j \in Ids \ {i} : account'[j] = account[j]
  BY <1>2, <1>3, AccountAssumption DEF TypeOK
<1>5. AccountsStay
  BY <1>3, <1>4 DEF AccountsStay, Free
<1>6. \A g \in grants' : g \in grants \/ (account'[g.user] # None /\ g.by \in actors' \cup {None})
  BY <1>3, <1>4
<1>7. \A j \in Ids : account[j] = None /\ account'[j] # None /\ account'[j].personnel_id # None =>
        person'[account'[j].personnel_id] # None
  BY <1>2, <1>4
<1>8. actors' = actors /\ access' = access
  BY DEF AddAdmin, people
<1>9. QED
  BY <1>5, <1>6, <1>7, <1>8, SoundWrites

LEMMA ApplyPlanSound ==
  ASSUME TypeOK, TypeOK', NothingDangles, NothingIsLost, NEW file, NEW plan, ApplyPlan(file, plan)
  PROVE  NothingDangles' /\ AccountsStay
<1> DEFINE new == {w \in DOMAIN plan : ~NameTaken(plan[w])}
<1>1. PICK as \in Injection(new, {i \in Ids : Free(i)}) :
        account' = [i \in Ids |->
          IF \E w \in new : as[w] = i
          THEN LET w == CHOOSE w \in new : as[w] = i IN
               [username |-> plan[w], full_name |-> w, role |-> RoleAsked(file, w),
                is_active |-> TRUE, personnel_id |-> None]
          ELSE account[i]]
  BY DEF ApplyPlan
<1> HIDE DEF new
<1>2. as \in [new -> {i \in Ids : Free(i)}]
  BY <1>1 DEF Injection
<1>3. \A i \in Ids : account[i] # None => account'[i] = account[i]
  BY <1>1, <1>2 DEF Free
<1>4. \A i \in Ids : account'[i] = account[i] \/ account'[i].personnel_id = None
  BY <1>1
<1>5. AccountsStay
  BY <1>3 DEF AccountsStay
<1>6. actors' = actors /\ access' = access /\ grants' = grants
  BY DEF ApplyPlan, people
<1>7. \A j \in Ids : account[j] = None /\ account'[j] # None /\ account'[j].personnel_id # None =>
        person'[account'[j].personnel_id] # None
  BY <1>4
<1>8. QED
  BY <1>5, <1>6, <1>7, SoundWrites

\* A step that writes neither accounts nor capabilities nor chains.
LEMMA OtherSound ==
  ASSUME TypeOK, TypeOK', NothingDangles, NothingIsLost,
         account' = account, grants' = grants, access' = access,
         \A j \in actors' : j \in actors \/ account[j] # None
  PROVE  NothingDangles' /\ AccountsStay
  BY SoundWrites DEF AccountsStay

\* Only delete_user takes an account away, and only update_user links one anew.
LEMMA SoundNext ==
  ASSUME TypeOK, TypeOK', CallsAreBacked, NothingDangles, [Next]_vars
  PROVE  NothingDangles' /\ (AccountsStay \/ \E s \in Slots : UpdateUser(s) \/ DeleteUser(s))
<1>0. NothingIsLost
  BY WritesLoseNothing
<1>l. \A a : Logs(a) => \A j \in actors' : j \in actors \/ account[j] # None
  BY DEF Logs, Exists
<1>1. CASE CallBegins
  BY <1>0, <1>1, OtherSound DEF CallBegins, accounts, people
<1>2. ASSUME NEW s \in Slots, AccountCommit(s)
      PROVE  NothingDangles' /\ (AccountsStay \/ UpdateUser(s) \/ DeleteUser(s))
  <2>1. CASE Save(s) \/ Rollback(s)
    BY <1>0, <1>l, <2>1, OtherSound DEF Save, Rollback, people
  <2>2. QED
    BY <1>0, <1>2, <2>1, CreateUserSound, UpdateUserSound, DeleteUserSound, SetCapabilitiesSound
       DEF AccountCommit
<1>3. ASSUME NEW s \in Slots, DirectoryCommit(s)
      PROVE  NothingDangles' /\ AccountsStay
  <2>1. CASE UpdateUnit(s) \/ DeleteUnit(s)
    BY <1>0, <1>l, <2>1, OtherSound DEF UpdateUnit, DeleteUnit, people
  <2>2. QED
    BY <1>0, <1>3, <2>1, AddPeopleSound, UpdatePersonnelSound DEF DirectoryCommit
<1>4. ASSUME NEW a \in Ids, CallAtOnce(a)
      PROVE  NothingDangles' /\ AccountsStay
  BY <1>0, <1>l, <1>4, OtherSound DEF CallAtOnce, CreateUnit, Login, ToggleModule, people
<1>5. ASSUME NEW file, NEW plan, ApplyPlan(file, plan)
      PROVE  NothingDangles' /\ AccountsStay
  BY <1>0, <1>5, ApplyPlanSound
<1>6. CASE StartUp
  <2>1. CASE \E r \in Replicas : Start(r)
    BY <1>0, <2>1, OtherSound DEF Start, people
  <2>2. CASE \E s \in Slots, n \in Names : BeginBootstrap(s, n)
    BY <1>1, <1>6, <2>2, BootstrapBegins DEF StartUp
  <2>3. ASSUME NEW s \in Slots, Bootstrap(s)
        PROVE  NothingDangles' /\ AccountsStay
    <3>1. call[s].name \in Names
      BY <2>3, InFlight DEF Bootstrap
    <3>2. QED
      BY <1>0, <2>3, <3>1, AddAdminSound DEF Bootstrap
  <2>4. CASE \E n \in Names : CreateAdmin(n)
    BY <1>0, <2>4, AddAdminSound DEF CreateAdmin
  <2>5. QED
    BY <1>6, <2>1, <2>2, <2>3, <2>4 DEF StartUp
<1>7. CASE UNCHANGED vars
  BY <1>0, <1>7, OtherSound DEF vars, people
<1>8. QED
  BY <1>1, <1>2, <1>3, <1>4, <1>5, <1>6, <1>7, StepKinds
-------------------------------------------------------------------------------
(* The theorems *)

\* What is true of the tables and of the calls in flight in every reachable state.
DirectoryInvariant == TypeOK /\ CallsAreBacked /\ NothingDangles

LEMMA DirectoryInvariantHolds == Spec => []DirectoryInvariant
<1>1. Init => DirectoryInvariant
  <2> SUFFICES ASSUME Init PROVE DirectoryInvariant
    OBVIOUS
  <2>1. PICK d \in Directories :
          /\ account = d.account /\ grants = d.grants /\ actors = d.actors
          /\ person = d.person /\ access = d.access
    BY DEF Init
  <2>2. Sound(d.account, d.grants, d.actors, d.person, d.access)
    BY DirectoryAssumption
  <2>3. NothingDangles
    BY <2>1, <2>2 DEF NothingDangles
  <2>4. CallsAreBacked
    BY DEF Init, CallsAreBacked
  <2>5. QED
    BY <2>3, <2>4, TypeInit DEF DirectoryInvariant
<1>2. DirectoryInvariant /\ [Next]_vars => DirectoryInvariant'
  BY TypeNext, BackedNext, SoundNext DEF DirectoryInvariant
<1>3. QED
  BY <1>1, <1>2, PTL DEF Spec

\* The rows of the tables keep their types, and a call in flight carries what its
\* handler has read.
THEOREM DirectoryTypes == Spec => []TypeOK
<1>1. DirectoryInvariant => TypeOK
  BY DEF DirectoryInvariant
<1>2. QED
  BY <1>1, DirectoryInvariantHolds, PTL

\* A call in flight never comes to rely on what is gone: whoever makes it has acted,
\* so is not deleted, and the person it links or edits is there.
THEOREM CallsStayBacked == Spec => []CallsAreBacked
<1>1. DirectoryInvariant => CallsAreBacked
  BY DEF DirectoryInvariant
<1>2. QED
  BY <1>1, DirectoryInvariantHolds, PTL

\* No row refers to one that is gone, and nobody sits in their own chain, whatever
\* calls overlap.
THEOREM DirectoryIsSound == Spec => []NothingDangles
<1>1. DirectoryInvariant => NothingDangles
  BY DEF DirectoryInvariant
<1>2. QED
  BY <1>1, DirectoryInvariantHolds, PTL

\* An account that is deleted has left no trace, so its deletion takes a capability
\* from nobody else.
THEOREM DeletionTakesNothing == Spec => DeletionIsHarmless
<1>1. DirectoryInvariant /\ DirectoryInvariant' /\ [Next]_vars =>
        \A i \in Ids : account[i] # None /\ account'[i] = None =>
          /\ i \notin actors'
          /\ \A j \in Ids \ {i} : {g \in grants : g.user = j} = {g \in grants' : g.user = j}
  <2> SUFFICES ASSUME DirectoryInvariant, DirectoryInvariant', [Next]_vars,
                      NEW i \in Ids, account[i] # None, account'[i] = None
               PROVE  /\ i \notin actors'
                      /\ \A j \in Ids \ {i} :
                           {g \in grants : g.user = j} = {g \in grants' : g.user = j}
    OBVIOUS
  <2> USE DEF DirectoryInvariant
  <2>1. PICK s \in Slots : UpdateUser(s) \/ DeleteUser(s)
    BY SoundNext DEF AccountsStay
  <2>2. ~UpdateUser(s)
    <3> SUFFICES ASSUME UpdateUser(s) PROVE FALSE
      OBVIOUS
    <3>1. call[s].id \in Ids /\ call[s].patch \in UserPatches
      BY InFlight DEF UpdateUser
    <3>2. PICK new : new = Patched(account[call[s].id], call[s].patch)
      OBVIOUS
    <3>3. new # None
      BY <3>1, <3>2, PatchedType, AccountAssumption DEF UpdateUser, Exists, TypeOK
    <3>4. account' = [account EXCEPT ![call[s].id] = new]
      BY <3>2 DEF UpdateUser
    <3>5. QED
      BY <3>1, <3>3, <3>4 DEF TypeOK
  <2>3. PICK k : k = call[s].id
    OBVIOUS
  <2>4. /\ k \in Ids /\ account' = [account EXCEPT ![k] = None] /\ grants' = Without(k, grants)
        /\ k \notin actors
    BY <2>1, <2>2, <2>3, InFlight DEF DeleteUser, Referenced
  <2>5. k = i
    BY <2>4 DEF TypeOK
  <2>6. actors' = actors
    BY <2>1, <2>2 DEF DeleteUser, At, CallsAreBacked, Backed, Logs
  <2>7. \A g \in grants : g.by # i
    BY <2>4, <2>5, AbsentAssumption DEF NothingDangles, Sound
  <2>8. \A g \in grants' : g \in grants
    BY <2>4 DEF Without
  <2>9. \A g \in grants : g.user # i => g \in grants'
    BY <2>4, <2>5, <2>7 DEF Without
  <2>10. QED
    BY <2>4, <2>5, <2>6, <2>8, <2>9
<1>2. QED
  BY <1>1, DirectoryInvariantHolds, PTL DEF Spec, DeletionIsHarmless
===============================================================================

SPECIFICATION Spec
CONSTANTS
  None = None
  Unset = Unset
  boss = boss
  clerk = clerk
  lead = lead
  n1 = n1
  n2 = n2
  p1 = p1
  p2 = p2
  p3 = p3
  u1 = u1
  u2 = u2
  s1 = s1
  s2 = s2
  Ids <- MCIds
  Names <- MCNames
  FullNames <- MCFullNames
  AdminName = "Admin"
  People <- MCPeople
  Codes = {"c1", "c2", "c3"}
  Places = {"sales", "plant / sales"}
  Replicas = {r1}
  Settings = {"sla_days"}
  Policy = {"sla_days"}
  Values = {"env", "set"}
  FromEnv <- MCFromEnv
  Patches <- MCPatches
  Bundles <- MCBundles
  Slots <- MCSlots
  MaxCalls = 3
  Units <- MCUnits
  Sites = {"plant"}
  UnitNames = {"sales"}
  JoinSite <- MCJoinSite
  Entries <- MCEntries
  Renames <- MCRenames
  Files <- MCFiles
  Edits <- MCEdits
  Forms <- MCForms
  Newcomers <- MCNewcomers
  Directories <- MCDirectories
SYMMETRY Symmetry
INVARIANTS TypeOK NothingDangles
PROPERTY DeletionIsHarmless
CHECK_DEADLOCK FALSE

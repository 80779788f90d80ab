SPECIFICATION Spec
CONSTANTS
  sup = sup
  dep = dep
  dep2 = dep2
  ceo = ceo
  hr1 = hr1
  hr2 = hr2
  ann = ann
  empty = empty
  full = full
  None = None
  Users = {sup, ceo, hr1}
  Admins = {hr1}
  Roster <- PlainRoster
  Persons = {ann}
  Records = {1, 2}
  Sheets = {empty}
  CompleteSheets = {}
  EmptySheet = empty
  Bonuses = {0}
  NoBonus = 0
  Installations <- NoDeputyInstalled
  Chains <- TwoEvaluators
  ManagerFlags = {TRUE}
  Leavers = {ann}
  Editable = {sup}
  AssignableRoles = {"support"}
  LastDay = 1
  PeriodEnds = {}
  Extensions = {}
INVARIANTS
  OneOpenCasePerPerson
  NobodyInOwnChain
CHECK_DEADLOCK FALSE

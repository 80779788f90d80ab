SPECIFICATION Spec
CONSTANTS
  sup = sup
  dep = dep
  dep2 = dep2
  ceo = ceo
  hr1 = hr1
  hr2 = hr2
  ann = ann
  empty = empty
  full = full
  None = None
  Users = {sup, dep, dep2, ceo, hr1, hr2}
  Admins = {}
  Roster <- HrIsEmployeeRoster
  Persons = {ann}
  Records = {1}
  Sheets = {empty, full}
  CompleteSheets = {full}
  EmptySheet = empty
  Bonuses = {0, 1}
  NoBonus = 0
  Installations <- OneInstallationPerShape
  Chains = {}
  ManagerFlags = {}
  Leavers = {ann}
  Editable = {}
  AssignableRoles = {}
  LastDay = 0
  PeriodEnds = {}
  Extensions = {}
INVARIANTS
  ResultMatchesScores
  FinalizedWasReviewed
  SomeDeskServesOpenCase
  DocumentMatchesCase
  SeatsNotRedundant
PROPERTIES
  ImplementsLifecycle
CHECK_DEADLOCK FALSE

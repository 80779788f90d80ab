SPECIFICATION DeskSpec
CONSTANTS
  sup = sup
  dep = dep
  ceo = ceo
  hr1 = hr1
  hr2 = hr2
  emp = emp
  ann = ann
  empty = empty
  full = full
  None = None
  Users = {sup, dep, ceo, hr1, emp}
  Admins = {}
  Roster <- Staff
  Persons = {ann}
  Records = {1}
  Sheets = {empty, full}
  CompleteSheets = {full}
  EmptySheet = empty
  Bonuses = {0}
  NoBonus = 0
  Installations <- OnePerShape
  Chains = {}
  ManagerFlags = {}
  Leavers = {ann}
  Editable = {}
  AssignableRoles = {}
  LastDay = 1
  PeriodEnds = {0}
  Extensions = {1}
  MaxMoves = 3
INVARIANTS
  NextHolderIsTold
  VisitsFitTheLife
  PassesTellReturns
  AwaitedCasesCanBeHandled
PROPERTIES
  NothingEntersALateCase
CONSTRAINT PeriodIsRead
CHECK_DEADLOCK FALSE

SPECIFICATION Spec
CONSTANTS
  hr = hr
  hr2 = hr2
  sup = sup
  emp = emp
  ann = ann
  bob = bob
  c1 = c1
  c2 = c2
  p1 = p1
  p2 = p2
  s1 = s1
  s2 = s2
  t1 = t1
  t2 = t2
  None = None
  Users = {hr, sup, emp}
  RoleOf <- Role
  PersonOf <- Person
  Cases = {c1}
  SubjectOf <- Subject
  LowScored = {c1}
  Plans = {p1, p2}
  Goals = {g1}
  Leavers = {sup}
  Texts = {t1, t2}
  Slots = {s1, s2}
  Window = 1
  LastDay = 2
  MaxEvents = 3
SYMMETRY Symmetry
INVARIANTS
  ObjectionInItsWindow
  AnsweredOnce
  OwnersAreTold
  GoalsKeepLastChange
CHECK_DEADLOCK FALSE

SPECIFICATION Spec
CONSTANTS
  None = None
  ann = ann
  i1 = i1
  i2 = i2
  x0 = x0
  x1 = x1
  x2 = x2
  s1 = s1
  s2 = s2
  u1 = u1
  u2 = u2
  Users = {u1, u2}
  Indicators = {i1, i2}
  Seeded = {i1}
  Schemes = {x0, x1, x2}
  FirstScheme = x0
  People = {ann}
  Cases = {c1}
  SubjectOf <- Subject
  Slots = {s1, s2}
  MaxVersions = 2
SYMMETRY Symmetry
CONSTRAINT OneAuthor
INVARIANTS
  LatestIsActiveSet
  AnswersHaveQuestions
  OneActiveScheme
  ResultsKeepTheirScheme
CHECK_DEADLOCK FALSE

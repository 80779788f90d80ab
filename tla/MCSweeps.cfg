SPECIFICATION Spec
CONSTANTS
  c1 = c1
  c2 = c2
  sup = sup
  dep = dep
  ceo = ceo
  hr = hr
  None = None
  Loops = {l1}
  Requests = {q}
  Renderers = {task}
  Cases = {c1, c2}
  Seats <- DirectCases
  Users = {ceo}
  Hr = {}
  Leavers = {ceo}
  Topics = {t}
  Backfill = 1
  MaxFaults = 1
INVARIANTS
  NoDoubleReminder
  CopiesAgree
PROPERTIES
  OwnersAreReminded
  DocumentsAreArchived

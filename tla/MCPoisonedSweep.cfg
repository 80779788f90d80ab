SPECIFICATION Spec
CONSTANTS
  c1 = c1
  c2 = c2
  sup = sup
  dep = dep
  ceo = ceo
  hr = hr
  None = None
  Loops = {l1}
  Requests = {}
  Renderers = {}
  Cases = {c1, c2}
  Seats <- NoDeputy
  Users = {sup, ceo}
  Hr = {}
  Leavers = {}
  Topics = {}
  Backfill = 1
  MaxFaults = 0
PROPERTIES
  DocumentsAreArchived

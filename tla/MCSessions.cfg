SPECIFICATION Spec
CONSTANTS
  None = None
  ann = ann
  k1 = k1
  k2 = k2
  k3 = k3
  s1 = s1
  s2 = s2
  Users = {ann}
  Browsers = {b1}
  OwnerOf <- Owner
  Keys = {k1, k2, k3}
  Slots = {s1, s2}
  login_max_failed_attempts = 2
  MaxVersion = 1
  MaxFailures = 2
SYMMETRY Symmetry
INVARIANTS
  ReuseIsReal
  LocksAreEarned
CHECK_DEADLOCK FALSE

SPECIFICATION FairSpec
CONSTANTS
  None = None
  Transactions = {t1, t2}
  Cases = {c1}
  Legacy <- Seeded
  MaxEvents = 2
INVARIANTS
  ChainVerifies
PROPERTIES
  ImplementsLog
  CallsEnd
CHECK_DEADLOCK FALSE

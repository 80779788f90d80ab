SPECIFICATION ScoringSpec
CONSTANTS
  g1 = g1
  g2 = g2
  x1 = x1
  Null = Null
  Asked = {g1, g2, x1}
  General = {g1, g2}
  Rows <- MCRows
  Inputs <- MCInputs
  BonusInputs <- MCBonuses
  TiesUp <- MCTiesUp
INVARIANTS
  ResultIsAPercentage
  LabelIsOfItsBand
  PreviewIsClose
PROPERTIES
  BetterSheetIsNotWorse
CHECK_DEADLOCK FALSE

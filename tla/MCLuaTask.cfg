CONSTANTS
  Limit = 3
  Runs = 5
SPECIFICATION KtestSpec
CHECK_DEADLOCK FALSE
INVARIANTS
  TypeOK
  Resumable
PROPERTIES
  SliceEnds
  KtestEnds

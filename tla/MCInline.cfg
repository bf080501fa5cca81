SPECIFICATION Spec
CONSTANTS
  Programs <- MCPrograms
  UnusedParameters = FALSE
  Threshold = 30
  Fuel = 60
INVARIANTS SameBehaviour WellFormedBlocks
CHECK_DEADLOCK FALSE

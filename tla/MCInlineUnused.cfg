SPECIFICATION Spec
CONSTANTS
  UnusedParameters = TRUE
  Programs <- MCPrograms
  Threshold = 30
  Fuel = 60
INVARIANTS SameBehaviour
CHECK_DEADLOCK FALSE

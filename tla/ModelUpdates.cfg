SPECIFICATION Spec
CONSTANTS
  Operators = {o1}
  MaxCandidates = 2
  MaxDay = 2
  Quarantine = 1
  Cadence = 1
  Retained = 1
  MaxVersion = 3
  MaxRuns = 2
  MaxRollbacks = 1
  Faults = TRUE
INVARIANTS OneActive RowsAreLoadable UpdateIsEarned CadenceHeld
CHECK_DEADLOCK FALSE

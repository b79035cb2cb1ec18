SPECIFICATION EvidenceSpec
CONSTANTS
  MaxSegments = 2
  MaxWindows = 1
  MinWindows = 1
INVARIANTS AdmittedIsEarned 
CHECK_DEADLOCK FALSE

SPECIFICATION FairSpec
CONSTANTS
  Versions = {v1}
  NoProfile = NoProfile
  Admins = {a1}
  MinWindows = 1
  Calibration = 1
  Drills = {FALSE}
  Faults = {TRUE, FALSE}
INVARIANTS StoredAgrees LossIsSignalled Earned EnforcementEarned
PROPERTY NotAOneWayDoor

SPECIFICATION Spec
CONSTANTS
  Participants = {p1, p2}
  NoUser = NoUser
  MaxDay = 3
  MaxRows = 6
  MaxManifests = 1
  MaxEdits = 1
  MaxJobs = 2
  Drills = 1
  Keep = 1
  Target = 3
  PerDay = 1
  MaxGap = 1
  MinDays = 3
  TrainTenths = 6
  ValidTenths = 2
  MinBaseline = 1
  MinTrain = 1
  MinTrainDays = 1
SYMMETRY Symmetry
INVARIANTS HeldOut UsedAsFrozen DrillStaysOut FrozenInThree
CHECK_DEADLOCK FALSE

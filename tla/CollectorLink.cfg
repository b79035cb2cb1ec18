SPECIFICATION FairSpec
CONSTANTS
  None = None
  Capacity = 1
  Policies = {"DROP_OLDEST", "DROP_NEWEST"}
  PipeSpace = 3
  Events = 3
  Again = 1
  Crashes = 1
  Faults = TRUE
INVARIANTS MissingIsLost
PROPERTIES InputNeverRefused Drained

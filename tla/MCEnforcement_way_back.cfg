SPECIFICATION LiveSpec
CONSTANTS
  Workers = {w1}
  Decisions = {d1}
  Recoveries = {r1}
  Prompts = {}
  NoId = NoId
  Timeout = 1
  Faults = FALSE
PROPERTY WayBackIn

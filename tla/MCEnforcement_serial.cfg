SPECIFICATION SerialSpec
CONSTANTS
  Workers = {w1, w2}
  Decisions = {d1, d2}
  Recoveries = {r1}
  Prompts = {p1}
  NoId = NoId
  Timeout = 1
  Faults = FALSE
SYMMETRY Symmetry
INVARIANT GateSeesExpiry
PROPERTY LadderSpec

SPECIFICATION Spec
CONSTANTS
  Workers = {w1, w2}
  Decisions = {d1}
  Recoveries = {r1}
  Prompts = {}
  NoId = NoId
  Timeout = 1
  Faults = FALSE
SYMMETRY Symmetry
INVARIANTS Exclusive NothingDropped

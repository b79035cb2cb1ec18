SPECIFICATION FairEngineSpec
CONSTANTS
  K = 3
  N = 5
  Cooldown = 3
  Budget = 2
  KeyboardWeight = 1
  MouseWeight = 1
  Medium = 80
  Floor = 50
  MinObservations = 2
  VarianceScale = 4
  MinScale = 2
  Apps = {"editor", "browser"}
  Bootstrap <- MCBootstrap
  High = 90
  Alpha = 50
  BreachK = 3
  BreachN = 5
  MinBaselineWindows = 2
INVARIANTS BudgetHeld Spaced TerminateIsSustained
PROPERTIES FallsOnlyWhenQuiet Answered

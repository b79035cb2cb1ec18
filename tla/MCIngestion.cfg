SPECIFICATION Spec
CONSTANTS
  None = None
  IdleSplit = 2
  WindowSpan = 2
  WindowKeys = 2
  MaxPayloads = 4
  MaxChunk = 2
  MaxSessions = 2
  MaxTrouble = 1
  Classes = {"left", "upper", "right", "backspace"}
  Hand <- MCHand
  Row <- MCRow
  Correction = {"backspace"}
  HomeRow = {"left", "right"}
  Unattributed = "nobody"
  PauseThreshold = 1
  BurstGap = 1
  SegmentGap = 2
  MicroPause = 1
  DoubleClickGap = 1
  ScrollGap = 1
  MinKeystrokes = 1
  MinMouseSamples = 2
INVARIANTS WindowsAreWhole DrillIsDeclared LossIsKnown
PROPERTIES SettledWhenSubmitted
CHECK_DEADLOCK FALSE

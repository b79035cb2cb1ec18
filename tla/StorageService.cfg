SPECIFICATION Spec
CONSTANTS
    Thread = {loop, api}
    Tools = {}
    MaxDay = 2
    MaxTrouble = 2
    CompressAfter = 1
    DeleteAfter = 2
    MaxWrites = 2
    SyntheticOnly = FALSE
    Torn = torn
INVARIANTS SuccessMeansLogged ChainIntact RowsAreAudited
PROPERTY InOrderOnce
CHECK_DEADLOCK FALSE

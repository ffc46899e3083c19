SPECIFICATION Spec
CONSTANTS
    Local = 3
    MaxFiles = 2
    MaxRuns = 3
    Elsewhere <- OneElsewhere
    LateWrites <- WhileReading
    KillPoints <- NotInReset
    Failing <- Harmless
INVARIANTS
    TypeOK
    NoErrantLeft
    DataMatchesGtid
    AppliesInPlace
    OnlyAsFarAsNeeded
\* The script ends, and MaxRuns is a bound of the model.
CHECK_DEADLOCK FALSE

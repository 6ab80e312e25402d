CONSTANTS
    Lease = 7
    Wait = 2
    MaxDelay = 1
    Tolerance = 1
    MaxOffset = 2
    MaxSteps = 2
    MaxFaults = 1
SPECIFICATION FairSpec
INVARIANTS
    TypeOK
    StepIsFinal
    TimeHardlyGoesBack
    AnswersWithSource
PROPERTIES
    OutageRecovers

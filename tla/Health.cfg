SPECIFICATION MCSpec
CONSTANTS
    CaptureFreshFor = 0
    FreshFor = 1
    Budget = 1
    MaxStages = 2
    MaxStarts = 2
INVARIANTS
    CulpritNamed
PROPERTIES
    HealthyIsEarned
    SuccessorKept
CHECK_DEADLOCK FALSE

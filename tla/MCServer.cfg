CONSTANTS
    Slots = {r1, r2, r3}
    MaxConcurrent = 2
    IdleTimeout = 2
    DrainTimeout = 1
    CloseTimeout = 1
SPECIFICATION Spec
INVARIANTS
    TypeOK
    PanicReported
    ExitAbandonsNone
    StartCountedOnce
PROPERTIES
    StopsWhenAsked
    StopsWhenIdle

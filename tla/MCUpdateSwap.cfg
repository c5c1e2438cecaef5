SPECIFICATION Spec
CONSTANTS
    Releases = {r1, r2, r3}
    Parts = {index, asset}
    IndexFile = index
    None = None
    Launchers = {l1}
    Self = l1
    CrossDevice = FALSE
    StartModes = {"normal", "repair"}
    Faults = {"write_marker", "extract"}
INVARIANTS
    TypeOK
    MarkerCoversGap
    ReleaseSurvives
    ServedReleaseWhole
    RecoverPostcondition
    RollForwardIntact
PROPERTIES
    ImplementsInstalledRelease

SPECIFICATION Spec
CONSTANTS
    Releases = {r1, r2}
    Parts = {index, asset}
    IndexFile = index
    None = None
    Launchers = {l1}
    Self = l1
    CrossDevice = TRUE
    StartModes = {"normal"}
    Faults = {}
INVARIANTS
    RollForwardIntact

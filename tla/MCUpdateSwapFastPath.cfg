SPECIFICATION Spec
CONSTANTS
    Releases = {r1, r2}
    Parts = {index, asset}
    IndexFile = index
    None = None
    Launchers = {l1}
    Self = l1
    CrossDevice = FALSE
    StartModes = {"normal", "fast_path"}
    Faults = {}
PROPERTIES
    FastPathKeepsRelease

SPECIFICATION FairSpec
CONSTANTS
    Releases = {r1, r2}
    Parts = {index, asset}
    IndexFile = index
    None = None
    Launchers = {l1}
    Self = l1
    CrossDevice = TRUE
    StartModes = {"normal", "repair", "no_sidecar", "fast_path"}
    Faults = {"write_marker", "clear_marker", "rename", "remove_tree", "copy", "extract"}
PROPERTIES
    MarkerBeforeMove
    PromotionAtomic
    StartupEnds

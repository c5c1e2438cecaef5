CONSTANTS
    Launchers = {l1, l2, l3}
    Ports = {1, 2, 3}
    Window = {1, 2}
    Denied = {3}
    DefaultPort = 1
    None = None
SPECIFICATION Spec
SYMMETRY Interchangeable
INVARIANTS
    TurnedAwayByLauncher

SPECIFICATION Spec
CONSTANTS
    Slots = {s1}
    Clients = {c1, c2}
    Nobody = Nobody
    KeepRevisions = 1
    Deletes = TRUE
    MaxWrites = 4
    Faults = {"temp", "rename", "sidecar", "trash"}
SYMMETRY Symmetry
INVARIANTS
    TypeOK
    AckedReadable
    ListedRevisionCurrent
PROPERTIES
    ImplementsSaveSlots
    ConflictDetected

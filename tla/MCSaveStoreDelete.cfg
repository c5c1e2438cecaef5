SPECIFICATION Spec
CONSTANTS
    Slots = {s1}
    Clients = {c1, c2}
    Nobody = Nobody
    KeepRevisions = 1
    Deletes = TRUE
    MaxWrites = 4
    Faults = {}
SYMMETRY Symmetry
PROPERTIES
    ConflictAlwaysDetected

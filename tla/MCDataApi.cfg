CONSTANTS
    Tokens = {t1, t2}
    Ids = {i1, i2}
    Slots = {r1, r2}
    Keys = {k1, k2}
    MaxSessions = 1
    BootstrapTTL = 2
    SessionTTL = 2
    Inactivity = 1
    QuotaWindow = 1
    WritesPerMinute = 1
    BytesPerMinute = 1
    MaxMerges = 2
SPECIFICATION Spec
INVARIANTS
    TypeOK
    SingleUse
    UpdateRecordedOnce
    SettingsKept
PROPERTIES
    TokenOutlivesRefusal

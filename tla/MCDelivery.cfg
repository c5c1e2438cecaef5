SPECIFICATION Spec
CONSTANTS
    Builds = {1, 2}
    Size <- MCSize
    Sources <- MCSources
    MaxRuns = 3
    Servers = {"modified"}
    RetryBudget = 2
    MaxRequests = 2
    Paths <- MCPaths
    Owned = {"release", "mime_types"}
    Shipped <- MCShipped
    Local <- MCLocal
    Known <- MCKnown
    Defaults <- MCDefaults
INVARIANTS
    TypeOK
    NoSplice
    PackagedIsInstallable
PROPERTY
    MergeRespectsOwner
CHECK_DEADLOCK FALSE

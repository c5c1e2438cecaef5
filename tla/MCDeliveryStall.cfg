SPECIFICATION Spec
CONSTANTS
    Builds = {1, 2}
    Size <- MCSize
    Sources <- MCSources
    MaxRuns = 2
    Servers = {"none", "content"}
    RetryBudget = 2
    MaxRequests = 2
    Paths <- MCPaths
    Owned = {"release", "mime_types"}
    Shipped <- MCShipped
    Local <- MCLocal
    Known <- MCKnown
    Defaults <- MCDefaults
INVARIANT
    OnlyAskedIsCancelled
CHECK_DEADLOCK FALSE

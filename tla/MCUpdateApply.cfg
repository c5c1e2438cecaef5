SPECIFICATION FairSpec
CONSTANTS
    Offers = {1, 2, 3, 4}
    Release <- MCRelease
    FirstOffer = 1
    None = 0
    RetryBudget = 2
    RetireCount = 2
    SecondStart = TRUE
    MaxRequests = 2
    MaxDisruptions = 1
INVARIANTS
    TypeOK
    InstalledWasConfirmed
    ReportedNotAhead
    CancelSticks
PROPERTIES
    ImplementsInstalledRelease
    RequestSettles

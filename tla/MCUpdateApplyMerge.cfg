SPECIFICATION Spec
CONSTANTS
    Offers = {1, 2, 3, 4}
    Release <- MCRelease
    FirstOffer = 1
    None = 0
    RetryBudget = 2
    RetireCount = 2
    SecondStart = FALSE
    MaxRequests = 1
    MaxDisruptions = 1
INVARIANT
    FallbackIsOlder

SPECIFICATION LimiterSpec
CONSTANTS
    Addresses = {a}
    PublicMax = 1
    AuthenticatedMax = 2
    WindowSeconds = 1
    Second = 3
    MaxTime = 6
INVARIANTS WindowBounded RefusedOnlyFull RetryIsEnough

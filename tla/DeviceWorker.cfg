\* One device, two sessions, two cycles each, and a doubling that overflows.
SPECIFICATION Spec
CONSTANTS
    MaxSession = 2
    MaxCycle = 2
    InitialBackoff = 2
    MaxBackoff = 7
    MaxDoublings = 2
    MaxRestart = 1
INVARIANTS NothingStaleIsShown
PROPERTIES ProbesAreKept KeepsTrying BackoffDoubles

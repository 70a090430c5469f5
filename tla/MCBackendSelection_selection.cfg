CONSTANTS
    Worlds <- MCWorlds
SPECIFICATION SelectionSpec
INVARIANTS
    OnlyRawFaultsStopStartup
    FallbackReasonIsTrue
    MockIsLastResort
    LazyBackendCanBeMade
    DebugAgreesWithDefault
CHECK_DEADLOCK FALSE

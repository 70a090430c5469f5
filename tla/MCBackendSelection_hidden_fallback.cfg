CONSTANTS
    Worlds <- MCWorlds
SPECIFICATION SelectionSpec
INVARIANT TritonRequestIsExplicit
CHECK_DEADLOCK FALSE

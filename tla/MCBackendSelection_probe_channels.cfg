CONSTANTS
    Worlds <- MCWorlds
SPECIFICATION SelectionSpec
INVARIANT ReadyModelFitsBinding
CHECK_DEADLOCK FALSE

CONSTANTS
    Threads = {t1, t2, t3}
    None = None
    Failed = Failed
    MaxCalls = 2
    MaxFailures = 1
SPECIFICATION ResourceSpec
INVARIANTS
    CreationsAreBounded
PROPERTIES
    AdapterIsOnceCell
    EveryUseEnds
CHECK_DEADLOCK FALSE

CONSTANTS
    Renders = {r1, r2}
    MaxFaults = 0
SPECIFICATION CacheSpec
INVARIANT LoadNeverRaises

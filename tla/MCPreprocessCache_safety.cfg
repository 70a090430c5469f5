CONSTANTS
    Renders = {r1, r2, r3}
    MaxFaults = 2
SPECIFICATION CacheSpec
SYMMETRY Symmetry
INVARIANTS
    HitIsComplete
    QuiescentKeyIsWhole

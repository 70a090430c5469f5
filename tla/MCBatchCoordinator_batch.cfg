\* Two batched stages and one whose batching is switched off.
CONSTANTS
    Threads = {t1, t2, t3}
    Keys = {seg, depth, normals}
    Batched = {seg, depth}
    MaxSize = 2
    NoGroup = NoGroup
SPECIFICATION BatchFairSpec
INVARIANTS
    ServedByOneLeader
    OwnOutcome
PROPERTIES
    NeverReturnsUnset
    EveryCallReturns

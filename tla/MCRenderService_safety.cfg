CONSTANTS
    Jobs = {j1, j2, j3}
    Requests = {r1}
    Workers = {w1, w2}
    Clients = {c1, c2}
    MaxPending = 1
    NoJob = NoJob
    NoRequest = NoRequest
    NoClient = NoClient
SPECIFICATION ServiceSpec
SYMMETRY Symmetry
INVARIANTS
    OneLiveJobPerRequest
    QueueBounded
    CancelNeverAnswersPending
    SyncCounted
PROPERTIES
    ImplementsLifecycle

CONSTANTS
    Jobs = {j1, j2}
    Requests = {}
    Workers = {w1}
    Clients = {c1, c2}
    MaxPending = 1
    NoJob = NoJob
    NoRequest = NoRequest
    NoClient = NoClient
SPECIFICATION ServiceFairSpec
PROPERTIES
    EveryCallAnswered
    AcceptedJobEnds
    CancelMarksGo

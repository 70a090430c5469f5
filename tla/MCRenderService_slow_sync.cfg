CONSTANTS
    Jobs = {j1, j2}
    Requests = {r1}
    Workers = {w1}
    Clients = {c1, c2}
    MaxPending = 1
    NoJob = NoJob
    NoRequest = NoRequest
    NoClient = NoClient
SPECIFICATION SlowSyncSpec
PROPERTY SyncNeverBlocks

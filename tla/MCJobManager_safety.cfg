\* 4 jobs against 2 workers: a queue longer than the pool.
CONSTANTS
    Jobs = {j1, j2, j3, j4}
    Requests = {r1, r2}
    Workers = {w1, w2}
    NoJob = NoJob
    NoRequest = NoRequest
SPECIFICATION JobSpec
SYMMETRY Symmetry
INVARIANTS
    JobTypeOK
    OneHolder
    NoJobLost
    CancelledNeverRendered
    CancelMarksConsumed
    RunningCounted
    NoLostWakeup
PROPERTIES
    StatusMovesForward
\* The instance stops when every job id is used up.
CHECK_DEADLOCK FALSE

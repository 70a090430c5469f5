CONSTANTS
    Deployments <- MCDeployments
    Requests <- MCRequests
    MaxRequests = 2
    MaxBatch = 4
    Width = 3
    Height = 5
SPECIFICATION PipelineSpec
INVARIANTS
    InputsPresent
    OwnSample
    AnswerIsOfThisImage
    
    HitLooksLikeMiss
    RawFaultsAreKnown
    TimeoutsAreTimeouts
    FallbacksAreWarned
    DebugListsWhatRan
CHECK_DEADLOCK FALSE

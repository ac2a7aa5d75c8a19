SPECIFICATION Spec
CONSTANTS
    aOld = aOld
    aBranch = aBranch
    aNew = aNew
    None = None
    Aliases <- MCAliases
    Legacy = {aOld}
    Leased = {aOld}
    Group <- MCGroup
    Parent <- MCParent
    Streamed = {aBranch}
    PerGroup = 1
    Total = 1
    Attempts = 2
    Run = {r1, r2}
    Kept = 1
    Markers = 1
    MaxCopies = 1
    Deadline = 2
    Idle = 1
    QueueMax = 2
    MaxFrames = 3
    Ttl = 2
    LeaseTime = 1
    UploadTime = 1
    MaxQueue = 2
    MaxAttempts = 2
    RetryMax = 3
    Batch = 2
    MaxCalls = 4
    MaxCrashes = 1
    Never = Never
INVARIANTS
    CompletedIsResumable
    VisibleBounded
PROPERTIES
    StagedIsPublished
    ClientHears
    ForgottenForAReason
    StagedIsResolved
    RunnerKeepsPromise
    CancelledStaysDown
    HubKeepsPromise
    ReceivedIsKept
    HubEnds
    ClearingLosesNothing
    StorageIsReclaimed
\* a part may have done all it had to do
CHECK_DEADLOCK FALSE

SPECIFICATION Spec
SYMMETRY Interchangeable
CONSTANTS
    Fingerprint = {f, g}
    Failure = {x, y}
    Visual = {g}
    MaxCompleted = 3
    MaxConsecutive = 2
    MaxRounds = 4
    CountMax = 4
    SnapshotMax = 2
    MaxRuns = 4
    MaxLost = 1
    Nobody = Nobody
INVARIANTS
    SubmissionsBounded
    CallsAreGuarded
    AnswersAreSupported
    RequiredIsMet
    LoopsAreCut
    ChainCountsOnce
    HonestIsServed
\* a turn ends
CHECK_DEADLOCK FALSE

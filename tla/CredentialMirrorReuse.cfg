\* An account is deleted and authorized again while its first mirror is in flight.
SPECIFICATION Spec
CONSTANTS
    a1 = a1
    a2 = a2
    Account <- OneAccount
    Legacy = {}
    Bare = {}
    Deletable <- OneAccount
    Batches <- NoBatch
    MaxVer = 2
    MaxKey = 2
INVARIANTS
    MirrorIsCurrent
\* the bounds on ciphertexts and keys may leave nothing to do
CHECK_DEADLOCK FALSE

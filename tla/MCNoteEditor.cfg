SPECIFICATION Spec
CONSTANTS
    Owners = {u}
    User = u
    Attempts = {}
    NoOwner = NoOwner
    NoAttempt = NoAttempt
    MaxEpoch = 2
    Jobs = {j1, j2}
    Load = Load
    Nobody = Nobody
    MaxText = 3
INVARIANTS
    TypeOK
    NothingPrivateWhenLocked
    UnsavedTextIsKept
    TypedTextIsOnItsWay
PROPERTIES
    DraftNeverGoesBack
    DraftSavedBeforeAutoLock

SPECIFICATION Spec
CONSTANTS
    Owners = {o1, o2}
    NoOwner = NoOwner
    NoAttempt = NoAttempt
    MaxEpoch = 2
    Attempts = {a1, a2}
    Handles = {h1}
    Readers = {r1}
    ContinuationIsPrompt = TRUE
INVARIANT OpenVaultIsOwn
PROPERTY AutoLocks

SPECIFICATION OwnershipSpec
CONSTANTS
    Owners = {o1, o2}
    Attempts = {}
    NoOwner = NoOwner
    NoAttempt = NoAttempt
    MaxEpoch = 3
    Requests = {r1, r2, r3}
    Resources = {note, draft}
    NoScope = NoScope
    NoToken = NoToken
    MaxGeneration = 4
INVARIANTS
    OwnershipTypeOK
    CommitsForOpenVault
PROPERTY LastRequestWins

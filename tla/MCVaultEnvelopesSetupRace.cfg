CONSTANTS
    Requests = {r1, r2, r3}
    Nobody = Nobody
SPECIFICATION EnvelopesSpec
INVARIANT
    EnvelopesUnlockOneKey
CHECK_DEADLOCK FALSE

CONSTANTS
    Requests = {r1, r2, r3, r4, r5}
    Nobody = Nobody
SPECIFICATION EnvelopesSpec
INVARIANTS
    EnvelopesTypeOK
    OneEnvelopePerSetup
SYMMETRY Symmetry
PROPERTY
    ActsAsRegister
CHECK_DEADLOCK FALSE

CONSTANTS
    NumCreds = 2
    SignInCreds = {1}
    Counting = {1}
    Variants = {v1, v2}
    Bindings = {b1}
    Tokens = {t1, t2}
    Slots = {r1, r2}
    None = None
    MaxVariants = 1
    MaxCounter = 2
    MaxAssertions = 2
SPECIFICATION Spec
INVARIANTS
    TypeOK
    PasskeyRowsAgree
    VariantsAreConfirmed
    NoCircularWait
PROPERTIES
    AssertionsInOrder
    RemovalIsComplete
SYMMETRY Symmetry
CHECK_DEADLOCK FALSE

SPECIFICATION Spec
CONSTANTS
    Notes = {n1, n2}
    Calls = {c1, c2}
    Hooks = {h1, h2}
    Labels = {l1}
    Untrashed = Untrashed
    Nobody = Nobody
    MaxWrites = 3
INVARIANTS
    TypeOK
    IndexAgrees
    IndexNeverAhead

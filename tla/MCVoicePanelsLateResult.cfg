SPECIFICATION Spec
CONSTANTS
    Devices = {TRUE, FALSE}
    Panels = {1, 2}
    MaxStarts = 2
    MaxChunks = 3
    CommitChunks = 2
    MaxJobs = 2
CHECK_DEADLOCK FALSE
INVARIANTS
    LateResultNeverRestores

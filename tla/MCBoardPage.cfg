SPECIFICATION Spec
CONSTANTS
    StartsLinked = {TRUE, FALSE}
    MaxEdits = 3
INVARIANTS
    TypeOK
    NothingShownWhenLocked
    SettledBoardIsStored
PROPERTIES
    EditsReachServer
    EditsReachTheNote

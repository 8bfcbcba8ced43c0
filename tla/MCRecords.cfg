CONSTANTS
    Creates = {c1, c2, c3, c4}
    Limit = 2
    Resources = {"n1", "n2"}
    Upserts = {u1, u2}
    Calls = {m1}
    Lists <- GrantLists
    Titles = {"a", "A", "b"}
    KeyOf <- TitleKeys
    Tags = {"TODO", "DOING", "DONE", "NEW COLUMN"}
    NewTag = "NEW COLUMN"
    TypedTags <- NoTagsOrNew
    StartColumns <- ThreeColumns
    Prose <- OtherLines
    Bodies <- Notes
    Boards <- OwnBoards
    NoteLines <- Insertions
    Descriptions <- Details
    MaxEdits = 3
    MaxLines = 6
    Flows = {f1, f2, f3}
    Credentials = {p1, p2}
INIT RecordsInit
NEXT RecordsNext
INVARIANTS HistoryIsTheNewest McpActsWithinGrants EditsSurviveSync PortableUnlockHolds
CHECK_DEADLOCK FALSE

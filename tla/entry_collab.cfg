SPECIFICATION CollabSpec
CONSTANTS
    Entries = {a, b}
    NoEntry = NoEntry
    Unloaded = Unloaded
    MaxHappenings = 3
INVARIANTS
    StreamKeepsUp
PROPERTIES
    CommentsAreLive
CHECK_DEADLOCK FALSE

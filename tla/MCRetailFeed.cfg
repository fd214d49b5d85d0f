CONSTANTS
    NItems = 2
    Customers = {c1, c2}
    PickSets <- MCPicks
    Losses = 1
    Repeats = 2
SPECIFICATION FeedSpec
INVARIANTS
    PicksAddUp
    OneSessionEach
    KioskFlagRight
CHECK_DEADLOCK FALSE

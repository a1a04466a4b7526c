\* The first polls of a feed with backfill_mode days and of one with count.
SPECIFICATION Spec
CONSTANTS
    Feed = {"news", "logs"}
    Dest = {}
    FeedOf <- MCFeedOf
    Days = {"news"}
    Batch = 1
    Backfill <- MCOne
    Published <- MCThree
    MaxEdits = 0
    MaxFaults = 1
INVARIANTS
    SilentIsOld
CHECK_DEADLOCK FALSE

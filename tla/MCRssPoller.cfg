SPECIFICATION Spec
CONSTANTS
    Feed = {"news", "logs"}
    Dest = {"mail"}
    FeedOf <- MCFeedOf
    Days = {}
    Batch = 1
    Backfill <- MCBackfill
    Published <- MCPublished
    MaxEdits = 1
    MaxFaults = 1
INVARIANTS
    NoneLost
    HintsBelongToUrl
PROPERTIES
    NoHotLoop
    EveryFeedIsPolled
CHECK_DEADLOCK FALSE

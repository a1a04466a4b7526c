\* All four pieces of work, one fault.
SPECIFICATION FairSpec
CONSTANTS
    feed1 = feed1
    feed2 = feed2
    hook = hook
    retry = retry
    Work = {feed1, feed2, hook, retry}
    KindOf <- MCKindOf
    AnnouncedBy <- MCAnnouncedBy
    PollBatch = 1
    DispatchBatch = 1
    MaxFaults = 1
INVARIANTS
    AtMostOneIdleSleep
PROPERTIES
    EventuallyDone

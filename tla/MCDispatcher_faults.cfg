\* Fair behaviours of one worker: its process or a statement fails once, the user
\* retries once.
SPECIFICATION FairSpec
CONSTANTS
    mail = mail
    phone = phone
    mailbox = mailbox
    topic = topic
    Worker = {"w1"}
    Item = {1, 2}
    RouteDestination = {mailbox}
    Sink = {mail}
    EmailSink = {mail}
    SinkOf <- MCSinkOf
    FailureCode <- MCFailureCode
    PermanentCode <- MCPermanentCode
    RetryDelay <- RetryDelaySec
    Hint = {0, 120}
    Pace = {0, 60}
    MaxAttempts = 2
    BatchSize = 2
    MaxFaults = 1
    MaxLostAcks = 0
    MaxRetries = 1
    MaxEdits = 0
INVARIANTS
    TypeOK
    AttemptCeiling
    FailedIsJustified
    SendsInDueOrder
    OldestGoesOutFirst
    ProviderHintHonoured
PROPERTIES
    EventuallySettled
CHECK_DEADLOCK FALSE

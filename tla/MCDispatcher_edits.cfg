\* Two destinations served in parallel: an edit, a retry, a fault and a lost acknowledgement.
SPECIFICATION Spec
CONSTANTS
    mail = mail
    phone = phone
    mailbox = mailbox
    topic = topic
    Worker = {"w1"}
    Item = {1}
    RouteDestination = {mailbox, topic}
    Sink = {mail, phone}
    EmailSink = {mail}
    SinkOf <- MCSinkOf
    FailureCode <- MCFailureCode
    PermanentCode <- MCPermanentCode
    RetryDelay <- RetryDelaySec
    Hint = {0}
    Pace = {0}
    MaxAttempts = 2
    BatchSize = 2
    MaxFaults = 1
    MaxLostAcks = 1
    MaxRetries = 1
    MaxEdits = 1
INVARIANTS
    JobOwnsRow
    EveryAckIsAccountedFor
PROPERTIES
    ImplementsLedger
CHECK_DEADLOCK FALSE

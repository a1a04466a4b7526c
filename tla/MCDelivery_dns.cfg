\* One answer of each kind.
SPECIFICATION DeliverySpec
CONSTANTS
    MaxAttempts = 5
    MaxRedirects = 1
    StatusCode = {200, 503}
    HintSeconds = {60}
    ResetTenths = {10}
    Records <- EdgeRecords
INVARIANTS
    BlockedIsPrivate
CHECK_DEADLOCK FALSE

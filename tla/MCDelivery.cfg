\* The real MAX_ATTEMPTS and maxRedirects; hints around the rungs, the cap and zero.
SPECIFICATION DeliverySpec
CONSTANTS
    MaxAttempts = 5
    MaxRedirects = 5
    StatusCode = {200, 301, 400, 428, 429, 430, 499, 500, 503}
    HintSeconds <- EdgeSeconds
    ResetTenths <- EdgeTenths
    Records <- EdgeRecords
INVARIANTS
    ProviderIsGivenItsTime
    ConnectedIsPublic
    GivesUpOnlyForCause
PROPERTIES
    EveryDispatchEnds
CHECK_DEADLOCK FALSE

\* A fenced run and its successor, or two deliveries, share the attempts of a call.
CONSTANTS
    Runs = {r1, r2}
    Lives = 2
    MaxGen = 2
    AttemptLimit = 2
    CostLimit = 2
    KeyCount = 2
SPECIFICATION FairSpec
INVARIANTS TypeOK OneRequestPerAttempt RequestsAreCharged OneCanonicalResponse
PROPERTIES CorruptionNeedsRival RunsEnd
CHECK_DEADLOCK FALSE

\* A capability job whose end SQL decides: its keys are lost under the processes that use them, and any one fault.
CONSTANTS
    Jobs = {j1}
    Keys = {k1}
    Digests = {d1}
    Tokens = {w1, w2}
    Workers = {w1}
    Reconcilers = {r1}
    Capability = {j1}
    MaxGen = 2
    MaxRev = 12
    MaxAttempt = 4
    MaxTries = 1
    MaxAttempts = 2
    MaxSubmits = 2
    MaxFaults = 1
    Timeout = 2
    Stale = 1
    LeaseTTL = 2
    StateTTL = 1
SPECIFICATION Spec
INVARIANTS CapabilityOutcomeAgrees AcknowledgedIsDelivered
PROPERTIES StoreIsRespected

\* A stalled worker beside its successor, and reconcilers that overlap.
CONSTANTS
    Jobs = {j1}
    Keys = {k1}
    Digests = {d1}
    Tokens = {w1, w2}
    Workers = {w1, w2}
    Reconcilers = {r1, r2}
    Capability = {}
    MaxGen = 3
    MaxRev = 30
    MaxAttempt = 8
    MaxTries = 1
    MaxAttempts = 2
    MaxSubmits = 1
    MaxFaults = 0
    Timeout = 2
    Stale = 1
    LeaseTTL = 1
    StateTTL = 0
SPECIFICATION Spec
CONSTRAINT OneCrew
SYMMETRY SlotSymmetry
INVARIANTS RecoveryBarrier SucceededIsPersisted
PROPERTIES NoSupersededResult DatabaseOutcomeIsFinal

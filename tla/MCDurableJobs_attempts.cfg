\* A worker is lost, its successor is interrupted by a deployment: how often does the task run?
CONSTANTS
    Jobs = {j1}
    Keys = {k1}
    Digests = {d1}
    Tokens = {w1, w2}
    Workers = {w1}
    Reconcilers = {r1}
    Capability = {}
    MaxGen = 2
    MaxRev = 30
    MaxAttempt = 8
    MaxTries = 2
    MaxAttempts = 2
    MaxSubmits = 1
    MaxFaults = 1
    Timeout = 2
    Stale = 1
    LeaseTTL = 1
    StateTTL = 0
SPECIFICATION Spec
INVARIANT AttemptsBounded

\* Nothing is assumed of workers or of the web service; the reconciler must finish every task.
CONSTANTS
    Jobs = {j1}
    Keys = {k1}
    Digests = {d1}
    Tokens = {w1, w2}
    Workers = {w1}
    Reconcilers = {r1}
    Capability = {}
    MaxGen = 3
    MaxRev = 30
    MaxAttempt = 8
    MaxTries = 1
    MaxAttempts = 2
    MaxSubmits = 1
    MaxFaults = 1
    Timeout = 2
    Stale = 1
    LeaseTTL = 1
    StateTTL = 0
SPECIFICATION FairSpec
PROPERTIES EventuallyFinished EventuallyReported

\* One job through a long history: failed, reopened, taken over, finished, lost and registered again.
CONSTANTS
    Jobs = {j1}
    Keys = {k1, k2}
    Digests = {d1}
    Tokens = {t1}
    MaxGen = 3
    MaxRev = 4
    MaxAttempt = 1
    Timeout = 1
    Stale = 1
    LeaseTTL = 1
    StateTTL = 2
SPECIFICATION StoreSpec
INVARIANTS StoreTypeOK IndexAgreement KeyNamesItsJob
PROPERTIES TerminalIsFinal RevisionNamesSnapshot
CHECK_DEADLOCK FALSE

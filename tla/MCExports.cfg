\* Two threads store, send, confirm and clean up a root and a leaf export,
\* steps raise, and the add-on restarts once.
CONSTANTS
    Leaves = {l1}
    Roots = {r1}
    Threads = {t1, t2}
    None = None
    MaxTokens = 2
    MaxFaults = 1
SPECIFICATION FairSpec
INVARIANTS
    SentWhilePending
    NoStrayFile
    RootKeyAccounted
    SetupCanBeRetried
PROPERTIES
    ExpiredIsDeleted
    IsOneTime
CHECK_DEADLOCK FALSE

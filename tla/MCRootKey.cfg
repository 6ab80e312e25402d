\* Is a root key that left the disk always staged for download?
CONSTANTS
    Leaves = {}
    Roots = {r1}
    Threads = {t1}
    None = None
    MaxTokens = 1
    MaxFaults = 0
SPECIFICATION Spec
INVARIANTS
    RootKeyStaged
CHECK_DEADLOCK FALSE

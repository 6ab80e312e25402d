\* Does recovery retire only accounts that the CA does not recognise?
CONSTANTS
    Accounts = {a1}
    Legacy = {}
    Settings = {a1}
    Web = {w1}
    Workers = {l1}
    None = None
    MaxFaults = 1
SPECIFICATION Spec
INVARIANTS
    QuarantinesOnlyStale
CHECK_DEADLOCK FALSE

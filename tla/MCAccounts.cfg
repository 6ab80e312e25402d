\* A web thread and the worker of the listener order with the account of the
\* settings, and the web thread revokes also what the account of an earlier
\* release has issued; two faults.
CONSTANTS
    Accounts = {a1, a2}
    Legacy = {a2}
    Settings = {a1, None}
    Web = {w1}
    Workers = {l1}
    None = None
    MaxFaults = 2
SPECIFICATION FairSpec
INVARIANTS
    IssuerIsRetained
PROPERTIES
    RevocationFindsIssuer
    AccountRecovers
CHECK_DEADLOCK FALSE

\* One device that repeats its claim after the enrollment has expired.
CONSTANTS
    None = None
    portal = portal
    Enrollments = {e1}
    Renewals = {r1}
    Hosts = {portal}
    PortalHost <- MCPortalHost
    Requests = {q1}
    ValidRequests = {q1}
    Threads = {t1}
    MaxFaults = 1
    MaxRevocations = 0
SPECIFICATION Spec
INVARIANT CredentialKeepsAuthorizing
CHECK_DEADLOCK FALSE

\* The administrator revokes the renewal identity of a device whose renewal
\* with it has already been let in.
CONSTANTS
    None = None
    portal = portal
    Enrollments = {e1}
    Renewals = {r1}
    Hosts = {portal}
    PortalHost <- MCPortalHost
    Requests = {q1}
    ValidRequests = {q1}
    Threads = {t1}
    MaxFaults = 0
    MaxRevocations = 1
SPECIFICATION Spec
PROPERTY RevokedCannotRenew
CHECK_DEADLOCK FALSE

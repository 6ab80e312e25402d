\* Two renewals of one enrollment are asked for across a restart or an unsaved
\* failure: one at a time is admitted, and every request that is repeated long
\* enough is decided.
CONSTANTS
    None = None
    portal = portal
    Enrollments = {e1}
    Renewals = {r1, r2}
    Hosts = {portal}
    PortalHost <- MCPortalHost
    Requests = {q1}
    ValidRequests = {q1}
    Threads = {t1}
    MaxFaults = 1
    MaxRevocations = 0
SPECIFICATION FairSpec
INVARIANT OnePendingRenewal
PROPERTIES
    PendingIsDecided
    FollowsLifecycle
CHECK_DEADLOCK FALSE

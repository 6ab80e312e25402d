\* A restart or a failure that is not saved, between two handler threads and
\* the worker, with two acceptable bodies and a malformed one, against the
\* promise made to the device.
CONSTANTS
    None = None
    portal = portal
    Enrollments = {e1}
    Renewals = {r1}
    Hosts = {portal}
    PortalHost <- MCPortalHost
    Requests = {q1, q2, q3}
    ValidRequests = {q1, q2}
    Threads = {t1, t2}
    MaxFaults = 1
    MaxRevocations = 1
SPECIFICATION Spec
SYMMETRY Symmetry
INVARIANTS
    SingleFlight
    IssuedOncePerFault
    AnswersItsRequest
    OneActivePerIdentity
    RenewalPathOpen
PROPERTIES
    ImplementsProtocol
    RevocationEndsRenewals
CHECK_DEADLOCK FALSE

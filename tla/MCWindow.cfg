\* Two threads save, open and close while two handlers serve one client, with
\* a restart at any point and one attempt more than the limit allows.
CONSTANTS
    None = None
    Zones = {z1}
    Admins = {a1, a2}
    Handlers = {h1, h2}
    Limit = 1
    MaxOpenings = 1
    MaxAttempts = 2
    MaxRestarts = 1
SPECIFICATION Spec
SYMMETRY Symmetry
INVARIANTS
    TypeOK
    KeptSettings
    ClosedStaysClosed
    NotAfterClose
    RateLimited

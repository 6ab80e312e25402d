\* Two handler threads of the web process and the importer record, replace and
\* revoke certificates of two names, on a new and on an upgraded installation,
\* across a restart.  Public certificates that the worker records race with
\* theirs as those of two handler threads do.
CONSTANTS
    Names = {host, edited}
    WebThreads = {w1, w2}
    Workers = {}
    Importers = {importer}
    Histories <- MCHistories
    MaxCerts = 3
    MaxFaults = 1
SPECIFICATION Spec
SYMMETRY Symmetry
INVARIANTS
    NewestIsActive
    RevokedAtItsIssuer
    RevocationIsShown
    ReplacedIsRetired
    TwoActiveOnlyIfRaced
PROPERTIES
    RevokedUnlessStale
    FollowsLifecycle
\* With every certificate of the bound signed, an idle inventory stops.
CHECK_DEADLOCK FALSE

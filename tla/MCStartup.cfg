\* Stops and losses of power at any point of the start, under options that
\* the administrator changes at any time.
CONSTANTS
    Off = Off
    Invalid = Invalid
    Enabled = {c1}
    MaxPairs = 3
    MaxKeys = 2
    MaxFaults = 2
SPECIFICATION FairSpec
INVARIANTS
    PairMatches
    PinnedKeyStays
    HealthOfThisBoot
PROPERTIES
    ListenerServes

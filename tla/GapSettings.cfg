CONSTANTS
    Bit <- MCBit
    MaxFlight = 2
SPECIFICATION CacheSpec
INVARIANTS
    CacheTypeOK
    CacheFollowsIut
    CacheNotTorn
\* After a failed command the test is over.
CHECK_DEADLOCK FALSE

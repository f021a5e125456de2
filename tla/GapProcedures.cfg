CONSTANTS
    Test <- MCTest
    MaxFlight = 2
SPECIFICATION FairSpec
INVARIANTS
    TypeOK
    FailureHasCause
    ConnectionsFollowLink
    PassedIsClean
PROPERTIES
    TestEnds
\* A test that has ended does nothing more.
CHECK_DEADLOCK FALSE

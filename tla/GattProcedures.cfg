CONSTANTS
    Test <- MCTest
    Server <- MCServer
    MaxNotes = 2
SPECIFICATION FairSpec
INVARIANTS
    TypeOK
    FailureHasCause
    PassedIsRight
PROPERTIES
    TestEnds
\* A test that has ended does nothing more.
CHECK_DEADLOCK FALSE

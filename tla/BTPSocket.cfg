CONSTANTS
    HDR_LEN = 2
    MaxData = 2
    MaxFrames = 3
SPECIFICATION FairSpec
INVARIANTS
    TypeOK
    ReadStartsAtFrame
PROPERTIES
    ReadEnds
    ImplementsChannel
\* A closed connection has nothing left to do.
CHECK_DEADLOCK FALSE

CONSTANTS
    MaxComments = 2
    MaxListed = 2
    MaxEvents = 1
    MaxRuns = 2
    PerPage = 2
SPECIFICATION FairSpec
INVARIANTS
    TypeOK
    RunOnce
PROPERTIES
    CommentRuns
\* The threads may all be dead, and nobody comments any more.
CHECK_DEADLOCK FALSE

CONSTANTS
    Cases = 2
    MaxQueue = 2
    MaxErrors = 1
SPECIFICATION FairSpec
INVARIANTS
    TypeOK
    FaultsHaveCause
    ErrorsKept
PROPERTIES
    RequestAnswered
\* Defensics stops after the last case, and everybody may wait for everybody.
CHECK_DEADLOCK FALSE

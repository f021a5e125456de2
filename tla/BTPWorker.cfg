CONSTANTS
    op1 = op1
    op2 = op2
    Op <- MCOp
    Script <- MCScript
    MaxUnasked = 1
SPECIFICATION FairSpec
INVARIANTS
    TypeOK
    AnswersInOrder
    AcceptsOwnAnswer
    ClosedIsQuiet
PROPERTIES
    ReadReturns
    CloseReturns
\* A closed worker is not used again.
CHECK_DEADLOCK FALSE

CONSTANTS
    Cases = 2
    MaxJobs = 8
SPECIFICATION FairSpec
PROPERTY
    PostWaitEnds
\* Defensics stops after the last case, and a leaked lock stops everybody.
CHECK_DEADLOCK FALSE

CONSTANTS
    gap = gap
    device_found = device_found
    encryption_change = encryption_change
    report1 = report1
    report2 = report2
    encrypted = encrypted
    l_report = l_report
    l_any = l_any
    l_enc = l_enc
    NoResult = NoResult
    Key <- MCKey
    ServiceOf <- MCServiceOf
    Event <- MCEvent
    Listener <- MCListener
    KeyOf <- MCKeyOf
    For <- MCFor
    Accepts <- MCAccepts
    Handled <- MCHandled
    Workers = 2
SPECIFICATION FairSpec
INVARIANTS
    TypeOK
    ListenerLostOnlyInRace
    ReleasedOnce
    FutureReturnsAppliedEvent
PROPERTIES
    ResultIsFinal
    ReleasedFutureCompletes
    ClearUnblocks
\* After clear_listeners the test is over.
CHECK_DEADLOCK FALSE

CONSTANTS
    Test <- MCNumericComparison
    MaxFlight = 2
SPECIFICATION Spec
INVARIANTS
    PairingHeard
\* A test that has ended does nothing more.
CHECK_DEADLOCK FALSE

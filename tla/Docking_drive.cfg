\* Seven calls of the application, a ThreadClock or a SimulatedClock.
SPECIFICATION FairSpec
CONSTANTS
    MaxCalls = 7
    MaxTime = 5
    PhaseTimeout = 2
INVARIANTS
    DriveProtocol
    DriveStopped
    PhaseHasItsTimeout
PROPERTIES
    PhaseEnds
CHECK_DEADLOCK FALSE

\* Two threads, one listener, three accepted events, fair scheduling.
SPECIFICATION FairSpec
CONSTANTS
    Thread = {t1, t2}
    Listener = {l1}
    MaxSends = 3
    MaxActions = 1
INVARIANTS
    TypeOK
    SingleOwner
    NoStrandedEvent
    RunToCompletion
    FifoExactlyOnce
    NoMissedSnapshot
PROPERTIES
    StopIsFinal
    ImplementsMailbox
    BoundaryReleased

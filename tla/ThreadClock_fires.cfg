\* Four timers that are set and cleared at any point of the worker's loop.
SPECIFICATION FairSpec
CONSTANTS
    MaxTimers = 4
    MaxTime = 3
INVARIANTS
    NoTimerForgotten
PROPERTIES
    TimersSettle
    ImplementsClock

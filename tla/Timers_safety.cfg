\* Two after states, named and anonymous delayed sends, a concurrent stop.
SPECIFICATION FairSpec
CONSTANTS
    After = {s1, s2}
    SendId = {k1}
    Anonymous = Anonymous
    Reentry = FALSE
    MaxTimers = 3
INVARIANTS
    TypeOK
    AfterTimersReachable
    ReconciledWithConfiguration
    DelayStartsOnEntry
PROPERTIES
    DelayElapses

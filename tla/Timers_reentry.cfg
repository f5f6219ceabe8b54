\* A macrostep exits a state and enters it again.
SPECIFICATION FairSpec
CONSTANTS
    After = {s1}
    SendId = {k1}
    Anonymous = Anonymous
    Reentry = TRUE
    MaxTimers = 2
INVARIANTS
    DelayStartsOnEntry

\* stop() while a delayed send is being set.
SPECIFICATION FairSpec
CONSTANTS
    After = {s1}
    SendId = {k1}
    Anonymous = Anonymous
    Reentry = FALSE
    MaxTimers = 2
INVARIANTS
    StopCancelsTimers

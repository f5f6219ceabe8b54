\* Two application tasks, one `after` state, two delayed sends under one id.
SPECIFICATION FairSpec
CONSTANTS
    Task = {t1, t2}
    AfterTask = {x1, x2}
    SendTask = {x3, x4}
    After = {s1}
    SendId = {k1}
    MaxSends = 2
    MaxActions = 1
    MaxCancels = 1
    None = None
INVARIANTS
    TypeOK
    SingleOwner
    PromisesKept
    AfterTasksReachable
PROPERTIES
    ImplementsMailbox
    CallersAnswered
CHECK_DEADLOCK FALSE

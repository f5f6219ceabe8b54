\* Two threads, two invoke declarations, one spawned child, one event of the
\* application beside the completions of the children.
SPECIFICATION Spec
CONSTANTS
    Thread = {t1, t2}
    Child = {c1, c2, c3}
    InvId = {i1, i2}
    SpawnId = {s1}
    MaxSends = 1
    SendsUnderChildLock = FALSE
    None = None
SYMMETRY Symmetry
INVARIANTS
    TypeOK
    NoLockCycle
    InvocationsFollowConfiguration
    StoppedTree
    CompletionsDelivered
CHECK_DEADLOCK FALSE

\* Children that send to their parent while they start or stop; TLC finds the
\* cycle.
SPECIFICATION Spec
CONSTANTS
    Thread = {t1, t2}
    Child = {c1, c2, c3}
    InvId = {i1}
    SpawnId = {s1}
    MaxSends = 2
    SendsUnderChildLock = TRUE
    None = None
SYMMETRY Symmetry
INVARIANTS
    NoLockCycle
CHECK_DEADLOCK FALSE

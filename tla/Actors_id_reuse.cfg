\* An id that the application spawns under twice; TLC finds the child that
\* outlives its parent.
SPECIFICATION Spec
CONSTANTS
    Thread = {t1, t2}
    Child = {c1, c2, c3}
    InvId = {i1}
    SpawnId = {s1}
    MaxSends = 1
    SendsUnderChildLock = FALSE
    None = None
SYMMETRY Symmetry
INVARIANTS
    ParentStopsChildren
CHECK_DEADLOCK FALSE

\* Every pair of competing transitions over a tree with parallel and history;
\* raised, done, eventless and wildcard events, guards, the iteration limit; and
\* a crash at any point.
SPECIFICATION PSpec
CONSTANTS
    NoNode = NoNode
    Unlimited = Unlimited
    Doc <- MCDoc
    Kind <- MCKind
    Parent <- MCParent
    Initial <- MCInitial
    Deep <- DeepInP
    HistoryTarget <- MCHistoryTarget
    EntryRaise <- RaiseOnEntry
    ExitRaise <- RaiseOnExit
    Charts <- Charted
    External <- Events
    MaxIterations = 4
INVARIANTS
    TypeOK
    LegalConfiguration
    ConflictsResolved
    HistoryRestorable
    EnteredOnce
    DoneOnceCompleted
    CheckpointRestores
PROPERTIES
    MacrostepEnds

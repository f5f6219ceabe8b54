\* A completed machine receives another event.
SPECIFICATION Spec
CONSTANTS
    NoNode = NoNode
    Unlimited = Unlimited
    Doc <- MCDoc
    Kind <- MCKind
    Parent <- MCParent
    Initial <- MCInitial
    Deep <- DeepInA
    HistoryTarget <- MCHistoryTarget
    EntryRaise <- NoRaise
    ExitRaise <- NoRaise
    Charts <- Ending
    External <- Events
    MaxIterations = Unlimited
INVARIANTS
    CompletedHasOutput

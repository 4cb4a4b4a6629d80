CONSTANTS
    Cells <- MCCells
    Revs = {"a", "b"}
    Versions = {"spring", "autumn"}
    Fixture <- MCFixture
    EpochCount = 2
    BatchSize = 1
    None = None
    Operators = {p1, p2}
    p1 = p1
    p2 = p2
SPECIFICATION Spec
INVARIANTS TypeOK SealedRootCoversCells ChainLinked FinishedLogComplete
PROPERTY ImplementsLog

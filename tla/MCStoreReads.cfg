CONSTANTS
    Cells <- MCCells
    Revs = {"a", "b"}
    Versions = {"spring", "autumn"}
    Fixture <- MCFixture
    EpochCount = 2
    BatchSize = 2
    None = None
    Operators = {p1}
    p1 = p1
    Readers = {r1}
    r1 = r1
    MaxAttested = 1
SPECIFICATION ReadsSpec
INVARIANTS BundleVerifies AttestationsFit ErrorsComeOfErasure LabelCoversRegion

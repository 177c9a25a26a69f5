SPECIFICATION FairSpec
CONSTANTS
    Partitions = {p1}
    AlertIds = {a}
    Kinds = {"ok", "poison"}
    MaxBatchSize = 2
    MaxPollRecords = 2
    MaxCommitRetries = 2
    MaxConsecutiveFailures = 2
    PanicBatchSize = 2
    DlqMayFail = FALSE
    MaxLog = 2
    MaxStarts = 2
    MaxRewinds = 0
    NoRow = NoRow
    p1 = p1
    a = a
INVARIANTS RowIsNewest
PROPERTIES CommittedNeverRegresses PartitionsDrain ShutdownCompletes

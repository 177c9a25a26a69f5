SPECIFICATION Spec
CONSTANTS
    Partitions = {p1, p2}
    AlertIds = {a}
    Kinds = {"ok", "invalid", "poison"}
    MaxBatchSize = 2
    MaxPollRecords = 2
    MaxCommitRetries = 2
    MaxConsecutiveFailures = 2
    PanicBatchSize = 3
    DlqMayFail = TRUE
    MaxLog = 1
    MaxStarts = 2
    MaxRewinds = 2
    NoRow = NoRow
    p1 = p1
    p2 = p2
    a = a
INVARIANTS NoSilentLoss BatchBounded
PROPERTIES DeliversAtLeastOnce

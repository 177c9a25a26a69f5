SPECIFICATION FairSpec
CONSTANTS
    conn = conn
    dns = dns
    Logs <- BothLogs
    LineKinds = {"blank", "garbled", "valid", "refused"}
    MaxLines <- TwoAndOne
    MaxDeaths = 1
CHECK_DEADLOCK FALSE
INVARIANTS NoLineDropped
PROPERTIES LinesAreRead

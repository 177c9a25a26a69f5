SPECIFICATION Spec
CONSTANTS
    Threats = {dga, scan}
    Window = 2
    MaxSeen = 2
    MaxList = 2
    Ids <- MCIds
    Severities <- MCSeverities
    MaxAdds = 3
    MaxTime = 3
    dga = dga
    scan = scan
CHECK_DEADLOCK FALSE
INVARIANTS TypeOK NoImmortalKeys CountIsRecent RollbackReopens
PROPERTIES EscalationReported

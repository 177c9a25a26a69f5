SPECIFICATION Spec
CONSTANTS
    Tasks = {1, 2, 3}
    AlertOf <- MCAlertOf
    Threats = {"dga", "scan"}
    IoWorkers = 2
    MaxReplays = 1
    MaxFaults = 1
    Window = 300
    MaxSeen = 5000
    MaxList = 100
CHECK_DEADLOCK FALSE
INVARIANTS CorrelatedImpliesPublished NoDetectionLost BurstReported DeadLettersAreRolledBack

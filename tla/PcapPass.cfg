SPECIFICATION Spec
CONSTANTS
    a = a
    b = b
    c = c
    Endpoint = {a, b, c}
    Period = 2
    MaxFlows = 2
    MaxPackets = 5
    MaxTime = 1
SYMMETRY EndpointSymmetry
CHECK_DEADLOCK FALSE
INVARIANTS TypeOK PacketsAccounted OneEntryPerConversation SnapshotsAreRegular

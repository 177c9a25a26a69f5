SPECIFICATION Spec
CONSTANTS
    PacketSteps <- Packets
    ByteCounts = {0, 51, 150, 5000001}
    LabelLengths = {3, 20, 63}
    MaxLabels = 9
    MaxAlerts = 4
    Trusted = {"proxy1", "proxy2"}
    MaxHops = 2
    MaxForwarded = 4
INVARIANTS DetectionsAreActionable EveryVariantInspected WindowsCover
PROPERTIES FloodsEscalate RiskNeverFalls 
CHECK_DEADLOCK FALSE

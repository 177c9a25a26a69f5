SPECIFICATION FairSpec
CONSTANTS
    Trusted <- NoProxy
    MaxHops = 1
    Source = {"s1", "s2"}
    Severity = {"low", "critical"}
    Limit = 2
    PageLimit = 1
    MaxWrites = 3
    MaxOutages = 1
    Together = FALSE
CHECK_DEADLOCK FALSE
INVARIANTS PagerSeesAll StatsCoverAlerts IncidentsSummarise
PROPERTIES DashboardCatchesUp

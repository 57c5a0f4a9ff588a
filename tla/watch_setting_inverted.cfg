CONSTANTS
    Operators = {"one"}
    CRs = {"x"}
    Gvk <- MCGvk
    Namespace <- MCNamespace
    Labels = {"blue", "green"}
    Setups <- NoPeriod
    Malformed = Malformed
    ToLower <- MCToLower
    Failed = Failed
    Nil = Nil
    MaxEdits = 3
    MaxFaults = 1
SPECIFICATION FairSpec
PROPERTY WatchedUnlessSkipped
CHECK_DEADLOCK FALSE

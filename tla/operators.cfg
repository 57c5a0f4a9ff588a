CONSTANTS
    Operators = {"one", "two"}
    CRs = {"x", "y"}
    Gvk <- MCGvk
    Namespace <- MCNamespace
    Labels = {"blue", "green"}
    Setups <- AllSetups
    Malformed = Malformed
    ToLower <- MCToLower
    Failed = Failed
    Nil = Nil
    MaxEdits = 3
    MaxFaults = 1
SPECIFICATION FairSpec
INVARIANTS TypeOK AllOrNothing WorkedByOne NothingForgotten
PROPERTIES  DriftIsRepaired HandedOver
CHECK_DEADLOCK FALSE

CONSTANTS
    CRs = {"a", "b"}
    Kinds = {"Deployment", "ClusterRole", "Claim"}
    Resources = {"deployment", "claim", "role", "role2"}
    ClusterKinds = {"ClusterRole"}
    Kind <- MCKind
    Owner <- MCOwner
    Namespace <- MCNamespace
    Kept = {"claim"}
    Reporting = {"deployment"}
    Charts <- MCCharts
    Cluster = "cluster"
    List = "List"
    Nil = Nil
    MaxEdits = 1
    MaxFaults = 1
    MaxWatches = 2
SPECIFICATION FairSpec
CHECK_DEADLOCK FALSE
INVARIANTS TypeOK WatchedOnce
PROPERTIES HookCovers DriftIsRepaired ComesToRest

CONSTANTS
    CRs = {"a", "b"}
    Kinds = {"Deployment", "ClusterRole", "Claim"}
    Resources = {"deployment", "deployment2"}
    ClusterKinds = {"ClusterRole"}
    Kind <- MCKind
    Owner <- MCOwner
    Namespace <- MCNamespace
    Kept = {"deployment2"}
    Reporting = {}
    Charts <- KeptDeployment
    Cluster = "cluster"
    List = "List"
    Nil = Nil
    MaxEdits = 0
    MaxFaults = 0
    MaxWatches = 2
SPECIFICATION Spec
CHECK_DEADLOCK FALSE
PROPERTY KeptAreCovered

CONSTANTS
    m1 = m1
    m2 = m2
    Manifests = {m1, m2}
    Nil = Nil
    FailureRollbacks = TRUE
    ReconcilePeriod = TRUE
    FaultKinds = {"api", "helm", "config", "crash"}
    MaxIncarnations = 2
    MaxEdits = 3
    MaxFaults = 1
    MaxLag = 2
SPECIFICATION FairSpec
CHECK_DEADLOCK FALSE
PROPERTIES DeletionCompletes Converges DriftIsRepaired

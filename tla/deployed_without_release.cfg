CONSTANTS
    m1 = m1
    m2 = m2
    Manifests = {m1, m2}
    Nil = Nil
    FailureRollbacks = TRUE
    ReconcilePeriod = TRUE
    FaultKinds = {}
    MaxIncarnations = 1
    MaxEdits = 3
    MaxFaults = 0
    MaxLag = 2
SPECIFICATION Spec
CHECK_DEADLOCK FALSE
PROPERTY DeployedMeansRelease

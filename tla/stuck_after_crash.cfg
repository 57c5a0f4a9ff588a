CONSTANTS
    m1 = m1
    m2 = m2
    Manifests = {m1, m2}
    Nil = Nil
    FailureRollbacks = TRUE
    ReconcilePeriod = TRUE
    FaultKinds = {"crash"}
    MaxIncarnations = 1
    MaxEdits = 1
    MaxFaults = 1
    MaxLag = 2
SPECIFICATION FairSpec
CHECK_DEADLOCK FALSE
PROPERTY ConvergesAfterCrash

CONSTANTS
    m1 = m1
    m2 = m2
    Manifests = {m1, m2}
    Nil = Nil
    FailureRollbacks = TRUE
    ReconcilePeriod = TRUE
    FaultKinds = {"helm"}
    MaxIncarnations = 1
    MaxEdits = 1
    MaxFaults = 2
    MaxLag = 2
SPECIFICATION Spec
CHECK_DEADLOCK FALSE
PROPERTY RetriesBackOff

CONSTANTS
    m1 = m1
    m2 = m2
    Manifests = {m1, m2}
    Nil = Nil
    FailureRollbacks = TRUE
    ReconcilePeriod = FALSE
    FaultKinds = {"api", "helm", "cleanup", "config", "crash"}
    MaxIncarnations = 2
    MaxEdits = 4
    MaxFaults = 2
    MaxLag = 2
SPECIFICATION HSpec
CHECK_DEADLOCK FALSE
SYMMETRY Symmetry
INVARIANTS TypeOK ReleaseIsOwned AtRestDone
PROPERTIES UninstallsOnlyDeleted NoLostUpdate ImplementsLifecycle

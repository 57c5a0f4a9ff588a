CONSTANTS
    m1 = m1
    Manifests = {m1}
    Nil = Nil
    Types <- MCTypes
    Wanted <- MCWanted
SPECIFICATION Spec
INVARIANT SummaryIsTheFold
CHECK_DEADLOCK FALSE

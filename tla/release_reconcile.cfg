CONSTANTS
    N = 3
    Typed = {2}
    Fields <- MCFields
    Values = {"chart", "user"}
    Absent = Absent
    Null = Null
    Expected <- MCExpected
    Immutable <- MCImmutable
    Gone = Gone
    Nil = Nil
    MaxEdits = 4
    MaxFaults = 2
SPECIFICATION FairSpec
INVARIANTS TypeOK AtRestAligned
PROPERTIES OnlyTowardsTheChart Realigned
CHECK_DEADLOCK FALSE

SPECIFICATION Spec
CONSTANTS
    r1 = r1
    r2 = r2
    r3 = r3
    a = a
    b = b
    i1 = i1
    i2 = i2
    Runs = {r1, r2, r3}
    Ids = {i1}
    Names = {a}
    Absent = Absent
    Unset = Unset
    MaxWrites = 4
CHECK_DEADLOCK FALSE
SYMMETRY MCSymmetry
INVARIANTS
    SerialRunsAreAtomic
    RowsMatchEvents
    RolledBackRowsAreRestored
    LostUpdateNeedsRollback
PROPERTIES
    RollbackSparesResolved
    RollbackErasesOwnWrites

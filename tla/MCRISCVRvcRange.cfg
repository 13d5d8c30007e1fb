CONSTANTS
    Fixups <- MCFixupsRVC
    DataSize <- MCDataSizeRVC
    Values <- MCValuesRVC
    NotApplied = NotApplied
SPECIFICATION Spec
INVARIANT OutOfRangeDiagnosed
CHECK_DEADLOCK FALSE

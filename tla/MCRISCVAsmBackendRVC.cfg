CONSTANTS
    Fixups <- MCFixupsRVC
    DataSize <- MCDataSizeRVC
    Values <- MCValuesRVC
    NotApplied = NotApplied
SPECIFICATION Spec
INVARIANTS NoClobber RoundTrip
CHECK_DEADLOCK FALSE

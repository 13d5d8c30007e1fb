CONSTANTS
    Fixups <- MCFixupsData
    DataSize <- MCDataSizeData
    Values <- MCValuesData
    NotApplied = NotApplied
SPECIFICATION Spec
INVARIANT NoClobber
CHECK_DEADLOCK FALSE

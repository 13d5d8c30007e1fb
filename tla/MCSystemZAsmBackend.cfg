CONSTANTS
    Fixups <- MCFixups
    DataSize <- MCDataSize
    Values <- MCValues
    NotApplied = NotApplied
SPECIFICATION Spec
INVARIANTS RoundTrip NoClobber
CHECK_DEADLOCK FALSE

CONSTANTS
    Fixups <- MCFixups32
    DataSize <- MCDataSize32
    Values <- MCValues32
    NotApplied = NotApplied
SPECIFICATION Spec
INVARIANTS RoundTrip NoClobber NoSpuriousError
CHECK_DEADLOCK FALSE

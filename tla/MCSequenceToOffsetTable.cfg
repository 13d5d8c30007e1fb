CONSTANTS
    Inputs <- MCInputs
    Term = Term
SPECIFICATION Spec
INVARIANTS NoSuffixKeys GetCorrect
PROPERTIES AbstractSpec
CHECK_DEADLOCK FALSE

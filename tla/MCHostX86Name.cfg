CONSTANTS
    CPUs <- MCCPUs
    UninitTypes <- MCUninitTypes
    UninitSubtypes <- MCUninitSubtypes
SPECIFICATION Spec
INVARIANTS NameDeterminedByCPUID
CHECK_DEADLOCK FALSE

CONSTANTS
    CPUs <- MCCPUs
    UninitTypes <- MCUninitTypes
    UninitSubtypes <- MCUninitSubtypes
SPECIFICATION Spec
INVARIANTS FeatureImplications KnownIntelFamiliesNamed AMDAVXNameNeedsAVX
CHECK_DEADLOCK FALSE

CONSTANTS
    Objects = {A, B}
    Modes <- MCModes
    DefaultMode = 0
    Infos <- MCInfos
    Transform <- MCTransform
SPECIFICATION Spec
INVARIANTS UnionModesOrder UnionModesWalkUpdatesOnce

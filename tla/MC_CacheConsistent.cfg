CONSTANTS
    BbId <- MCBbId
    CmpId <- MCCmpId
    IdMapping <- MCIdMapping
    InitTargets <- MCInitTargets
    InitEdges <- MCInitEdges
    NewEdges <- MCNewEdges
    ScoreBits = 16
SPECIFICATION Spec
CONSTRAINT ScoreBound
INVARIANT CacheConsistent

CONSTANTS
    BbId <- MCBbId
    CmpId <- MCCmpId
    IdMapping <- MCIdMapping
    InitTargets <- MCInitTargets
    InitEdges <- MCInitEdgesDeadEnd
    NewEdges <- MCNewEdges
    ScoreBits = 16
SPECIFICATION Spec
CONSTRAINT ScoreBound
INVARIANT TargetRemovalConvergence

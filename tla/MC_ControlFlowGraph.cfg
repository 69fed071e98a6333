CONSTANTS
    BbId <- MCBbId
    CmpId <- MCCmpId
    IdMapping <- MCIdMapping
    InitTargets <- MCInitTargets
    InitEdges <- MCInitEdges
    NewEdges <- MCNewEdges
    ScoreBits = 16
SPECIFICATION FairSpec
CONSTRAINT ScoreBound
INVARIANTS
    TypeOK
    ScoreImpliesPath
    PathImpliesScore
    PropagationFrontier
PROPERTIES
    CallsReturn

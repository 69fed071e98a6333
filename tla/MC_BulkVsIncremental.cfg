CONSTANTS
    BbId <- MCBbId
    CmpId <- MCCmpId
    IdMapping <- MCIdMapping
    InitTargets <- MCInitTargets
    Edges <- MCEdges
    ScoreBits = 4

SPECIFICATION Spec

INVARIANT
    BulkEqualsIncremental

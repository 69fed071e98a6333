CONSTANTS
    BbId <- MCBbId
    CmpId <- MCCmpId
    IdMapping <- MCIdMapping
    InitTargets <- MCInitTargets
    InitEdges <- MCInitEdges
    NewEdges <- MCNewEdges
    ScoreBits = 4

SPECIFICATION HSpec

PROPERTIES
    CfgInterfaceSpec

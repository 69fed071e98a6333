CONSTANTS
    BbId <- MCBbId
    CmpId <- MCCmpId
    IdMapping <- MCIdMapping
    InitTargets <- MCInitTargets
    InitEdges <- MCInitEdges
    NewEdges <- MCNewEdges
    ScoreBits = 16
    CallSiteId <- MCCallSiteId
    CallSiteDominators <- MCCallSiteDominators
    Byte <- MCByte
    MaxInputLen = 1
    TagSegs <- MCTagSegs
    IndirectCandidates <- MCIndirectCandidates

SPECIFICATION DynSpec

INVARIANTS
    EmptyInputScoresCached
    MaskedScoreNeedsTakenEdge

CONSTANTS
    a = a
    b = b
    c = c
    d = d
    e = e
    L1 = L1
    L2 = L2
    L3 = L3
    OUT = OUT
    GARBLED = GARBLED
    Inputs <- MCInputs
    Ext <- MCExt
    Parses <- MCParses
    Loc <- MCLoc
    Report <- MCReport
    OutputArgExt = "sarif"
    MaxRuns = 3

SPECIFICATION FairSpec

\* After the last invocation the program has exited: nothing more happens.
CHECK_DEADLOCK FALSE

INVARIANTS
    TypeOK
    PanicNeedsBadInput
    EveryReportWrittenOnCleanFile

PROPERTIES
    InvocationEnds

SPECIFICATION Spec
CONSTANTS
    drv = drv
    dep = dep
    out = out
    d1 = d1
    Paths <- MCPaths
    Refs <- MCRefs
    NarHash <- MCNarHash
    DebugIds <- MCDebug
    WriteListing = TRUE
    WriteDebug = TRUE
    Jobs = {j1, j2}
    Drvs = {d1}
    DrvOf <- MCDrvOf
    DrvPaths = {drv}
    ClosureOf <- MCClosure
    FullClosureOf <- MCFull
    OutsOf <- MCOuts
    DownloadLimits = {0, 2}
    Attempts = 2
    MaxStarts = 2
    MaxEvents = 1
INVARIANTS OneBuildPerDrv InputsRooted SuccessMeansOutputs ClosureServed
CHECK_DEADLOCK FALSE
PROPERTIES OutcomeFinal JobsEnd

SPECIFICATION Spec
CONSTANTS
    m1 = m1
    m2 = m2
    out = out
    dep = dep
    Paths <- MCPaths
    Refs <- MCRefs
    NarHash <- MCNarHash
    DebugIds <- MCDebug
    WriteListing = TRUE
    WriteDebug = TRUE
    Msgs = {m1, m2}
    OutsOf <- MCOuts
    Limits = {1, 2}
    Attempts = 2
    LargeNars = {out}
    MaxStarts = 2
INVARIANTS
    NothingDropped
    ServedWithNar
    CopiedMeansServed
PROPERTY
    UploadsEnd
CHECK_DEADLOCK FALSE

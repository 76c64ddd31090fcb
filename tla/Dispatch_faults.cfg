SPECIFICATION Spec
CONSTANTS
    d1 = d1
    s1 = s1
    s2 = s2
    b1 = b1
    b2 = b2
    Drvs = {d1}
    Steps = {s1, s2}
    Infos = {i1, i2}
    Machines = {m1}
    Builds = {b1, b2}
    Uuids = {u1}
    Monitor = Monitor
    Dispatcher = Dispatcher
    NoStep = NoStep
    NoInfo = NoInfo
    NoMachine = NoMachine
    NoDrv = NoDrv
    DrvOf <- OneDrvOf
    TopDrv <- OneTopDrv
    Supports <- AllSupported
    FailedPaths = {d1}
    MaxRetries = 2
    MaxJobs = 1
    AtStart = {b1, b2}
    MayCancel = {b1}
    MayLeave = {}
    DbMayFail = TRUE
    StopEarly = TRUE
    HasTimer = TRUE
SYMMETRY OneSymmetry
CHECK_DEADLOCK FALSE
INVARIANTS
    TypeOK
    
PROPERTIES
    ImplementsAttempts

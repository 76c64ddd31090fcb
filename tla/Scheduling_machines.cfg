SPECIFICATION Spec
CONSTANTS
    m1 = m1
    m2 = m2
    j1 = j1
    j2 = j2
    Machines = {m1, m2}
    Jobs = {j1, j2}
    Hardware <- MCHardware
    MaxJobs <- MCMaxJobs
    CanBuild <- MCCanBuild
    Configs <- MCConfigs
    Config0 <- MCConfig0
    Burst = 1
    Window = 1
    U64 = 4
    MaxEvents = 4
    MaxEnding = 1
INVARIANTS SortedByScore IdleSinceRight
PROPERTIES StaticLimit ThrottleEnds
CHECK_DEADLOCK FALSE

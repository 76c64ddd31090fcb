SPECIFICATION Spec
CONSTANTS
    b1 = b1
    b2 = b2
    b3 = b3
    s1 = s1
    Builds = {b1, b2, b3}
    Steps = {s1}
    Monitored = {b2}
    Monitors = {2}
    BuildOf <- MCBuildOf
    Direct <- MCDirect
    Dependents <- MCDependents
    MaxRetries = 2
    MaxStarts = 3
    MaxEvents = 0
INVARIANT OneInstance
CHECK_DEADLOCK FALSE

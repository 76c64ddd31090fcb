SPECIFICATION Spec
CONSTANTS
    s1 = s1
    s2 = s2
    p1 = p1
    p2 = p2
    Builds = {1, 2}
    Steps = {s1, s2}
    Jobsets = {p1, p2}
    NeedsOf <- MCNeedsOf
    JobsetOf <- MCJobsetOf
    LocalOf <- MCLocalOf
    RdepsOf <- MCRdepsOf
    Priorities = {0, 1}
    SharesOf = {1, 2}
    Rows <- MCRows
    StartAge <- MCStartAge
    SchedulingWindow = 2
    MaxEvents = 2
   
PROPERTY RisenGoFirst
CHECK_DEADLOCK FALSE

SPECIFICATION Spec
CONSTANTS
    PageLimit = 1
    QueryCap = 2
    Window = 2
    Filters <- MCFilters
    None = None
    Ids = {i1, i2}
    Emails = {e1, e2}
    Groups = {g1, g2}
    Sessions = {s1, s2}
    FirstUser = i1
    FirstEmail = e1
    Earlier <- MCEarlier
    MaxRequests = 2
    MaxDays = 1
    MaxFaults = 1
INVARIANTS WindowServed OneTimeline
PROPERTY NeverStripped
CHECK_DEADLOCK FALSE
SYMMETRY Symmetric

\* One machine that dials again after its link broke. The system stops when nothing is left to do.
SPECIFICATION FairSpec
CONSTANTS
    m1 = m1
    m2 = m2
    c1 = c1
    c2 = c2
    c3 = c3
    s1 = s1
    s2 = s2
    NoConn = NoConn
    NoName = NoName
    Reaper = Reaper
    Names = {m1}
    Conns = {c1, c2}
    Owner <- Redial
    Sessions = {s1}
    MaxLapses = 0
    MaxAborts = 0
    MaxCrashes = 0
    MaxFaults = 0
    MaxMishaps = 1
CHECK_DEADLOCK FALSE
PROPERTIES
    SessionsResolve

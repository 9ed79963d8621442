\* Two machines, the first of which may dial twice, one session, and one mishap: a broken link, a lapsed lease, an abort, a crash of the control plane, a failed statement. The system stops when nothing is left to do.
SPECIFICATION FairSpec
CONSTANTS
    m1 = m1
    m2 = m2
    c1 = c1
    c2 = c2
    c3 = c3
    s1 = s1
    s2 = s2
    NoConn = NoConn
    NoName = NoName
    Reaper = Reaper
    Names = {m1, m2}
    Conns = {c1, c2, c3}
    Owner <- RedialOfTwo
    Sessions = {s1}
    MaxLapses = 1
    MaxAborts = 1
    MaxCrashes = 1
    MaxFaults = 1
    MaxMishaps = 1
CHECK_DEADLOCK FALSE
INVARIANTS
    FailedForAReason
    RowAgrees
    NoLeak
PROPERTIES
    ResolvedUnlessTakenOver

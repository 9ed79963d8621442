\* One machine that may dial twice, two sessions that are alike, and one mishap: a broken link, a lapsed lease, an abort, a crash of the control plane. The system stops when nothing is left to do.
SPECIFICATION Spec
CONSTANTS
    m1 = m1
    m2 = m2
    c1 = c1
    c2 = c2
    c3 = c3
    s1 = s1
    s2 = s2
    NoConn = NoConn
    NoName = NoName
    Reaper = Reaper
    Names = {m1}
    Conns = {c1, c2}
    Owner <- Redial
    Sessions = {s1, s2}
    MaxLapses = 1
    MaxAborts = 1
    MaxCrashes = 1
    MaxFaults = 0
    MaxMishaps = 1
CHECK_DEADLOCK FALSE
SYMMETRY Alike
INVARIANTS
    TypeOK
    NoStranded
    KilledOnlyIfAborted
PROPERTIES
    Seam

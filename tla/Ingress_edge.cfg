\* Two accounts, one of them named like the dev seed; two workflows; two requests at a time. The system stops when no request comes any more.
SPECIFICATION Spec
CONSTANTS
    ada = ada
    bob = bob
    h1 = h1
    h2 = h2
    w1 = w1
    w2 = w2
    i1 = i1
    i2 = i2
    i3 = i3
    Accounts = {ada, bob}
    Dev = Dev
    Login <- Logins
    DevSlug = "dev"
    Ids = {i1, i2, i3}
    Wfs = {w1, w2}
    Events = {"spec"}
    Handlers = {h1, h2}
    MaxArrivals = 3
    MaxFaults = 1
    MaxCrashes = 1
    NoRow = NoRow
CHECK_DEADLOCK FALSE
SYMMETRY Symmetry
INVARIANTS
    TypeOK
    CookieHasHome
    PersonalStaysPersonal
    ErrorsAreFaults
    FiredWhileActive
    MatchesFired

\* Two releases, two accounts and two passwords over any number of lives; two
\* ticks and two requests; no symmetry, because liveness is checked.
CONSTANTS
    Migrations = 2
    Users      = {u1, u2}
    Passwords  = {p1, p2}
    Requests   = {h1, h2}
    Ticks      = {t1, t2}
    None       = None
SPECIFICATION Spec
INVARIANTS
    TypeOK
    IInv
    SchemaSound
    SchemaReady
    DbOutlivesTicks
    RequestsHonoured
    AdminLogsIn
PROPERTIES
    SignalEnds

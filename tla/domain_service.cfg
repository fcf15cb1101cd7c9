\* Two requests, PUTs, imports of files or of a backup or runs, beside POST,
\* DELETE and an export, for two names.
CONSTANTS
    Requests   = {q1, q2}
    DomainIds  = {d1, d2}
    Names      = {n1, n2}
    NoName     = noname
    Targets    = {t1}
    Secrets    = {s1}
    Configs    <- MCConfigs
    MaxEntries = 2
    None       = None
SPECIFICATION Spec
SYMMETRY ServiceSymmetry
CHECK_DEADLOCK FALSE
INVARIANTS
    TypeOK
    NamesUnique
    CredentialFits
    Restored
PROPERTIES
    KindStays

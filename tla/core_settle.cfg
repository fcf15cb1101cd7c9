\* Liveness of the job records, with one run of a process that only rehearses
\* over a certbot directory that may hold a certificate; no symmetry.
CONSTANTS
    Runs        = {r1, r2}
    Edits       = {}
    DomainIds   = {d1}
    Names       = {n1}
    Secrets     = {s1}
    Rehearsals  = {r1}
    DbFaults    = FALSE
    OldLineages = {0, 1}
    None        = None
SPECIFICATION Spec
CHECK_DEADLOCK FALSE
INVARIANTS
    RehearsalPersistsNothing
PROPERTIES
    JobSettles

\* One run whose client may go away.
CONSTANTS
    Runs        = {r1}
    Edits       = {}
    DomainIds   = {d1}
    Names       = {n1}
    Secrets     = {s1}
    Rehearsals  = {}
    DbFaults    = FALSE
    OldLineages = {0}
    None        = None
SPECIFICATION Spec
CHECK_DEADLOCK FALSE
INVARIANTS
    FailureRecorded

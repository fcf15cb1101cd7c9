\* One run and one PUT for the same domain.
CONSTANTS
    Runs        = {r1}
    Edits       = {e1}
    DomainIds   = {d1}
    Names       = {n1}
    Secrets     = {s1, s2}
    Rehearsals  = {}
    DbFaults    = FALSE
    OldLineages = {0}
    None        = None
SPECIFICATION Spec
CHECK_DEADLOCK FALSE
INVARIANTS
    EditApplied

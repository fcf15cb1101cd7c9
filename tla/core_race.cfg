\* Two runs for one domain that is edited once and may be deleted, while
\* contexts are cancelled and the process crashes.
CONSTANTS
    Runs      = {r1, r2}
    Edits     = {e1}
    DomainIds = {d1}
    Names     = {n1, n2}
    Secrets   = {s1, s2}
    Rehearsals = {}
    DbFaults  = FALSE
    OldLineages = {0}
    None      = None
SPECIFICATION Spec
SYMMETRY RaceSymmetry
CHECK_DEADLOCK FALSE
INVARIANTS
    TypeOK
    IInv
    NoOrphans
    SuccessRecorded
    PushedIsStored
    SuccessDelivered
    ActiveWasEarned
    StuckOnlyIfInterrupted
PROPERTIES
    DeletedForever
    RefinesLog

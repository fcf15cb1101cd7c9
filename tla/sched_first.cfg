\* A healthy domain beside one whose runs always fail, with every event there is.
CONSTANTS
    DomainIds = {d1, d2}
    Names     = {n1, n2}
    Workers   = {w1, w2}
    Interval  = 2
    Before    = 1
    Window    = 0
    Validity  = 1
    MaxLost   = 4
    Broken    = {d2}
    Events    = {"manual", "toggle", "rename", "delete", "restart", "unpushed", "fault"}
    Prompt    = TRUE
    None      = None
SPECIFICATION Spec
SYMMETRY WorkerSymmetry
CHECK_DEADLOCK FALSE
INVARIANTS
    TypeOK
    FirstInTime

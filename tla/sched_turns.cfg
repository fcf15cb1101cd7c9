\* Ticks that overlap, over a domain whose runs always fail and one that does
\* not; no symmetry.
CONSTANTS
    DomainIds = {d1, d2}
    Names     = {n1, n2}
    Workers   = {w1, w2}
    Interval  = 1
    Before    = 1
    Window    = 1
    Validity  = 2
    MaxLost   = 0
    Broken    = {d2}
    Events    = {"delete", "rename", "unpushed", "fault"}
    Prompt    = FALSE
    None      = None
SPECIFICATION Spec
CHECK_DEADLOCK FALSE
PROPERTIES
    Attended
    NoneSkipped

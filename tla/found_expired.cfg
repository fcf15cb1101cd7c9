\* One domain, and nothing that goes wrong.
CONSTANTS
    DomainIds = {d1}
    Names     = {n1}
    Workers   = {w1}
    Interval  = 1
    Before    = 2
    Window    = 2
    Validity  = 4
    MaxLost   = 0
    Broken    = {}
    Events    = {}
    Prompt    = TRUE
    None      = None
SPECIFICATION Spec
CHECK_DEADLOCK FALSE
INVARIANTS
    NeverExpires

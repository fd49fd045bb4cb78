SPECIFICATION Spec
CONSTANTS
    Callers = {w1, w2}
    TTL = 1
    ProbeMax = 1
    None = None
    Auth = "disabled"
INVARIANT CurrentReturnsAStatus

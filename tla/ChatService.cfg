SPECIFICATION FairSpec
CONSTANTS
    Callers = {w1, w2}
    TTL = 2
    ProbeMax = 1
    None = None
    Auth = "tokens"
INVARIANTS
    BoundedStaleness
    PaidPathGuarded
    CountedOnce
PROPERTIES
    CacheSpec
    VerdictConverges
    EveryRequestAnswered

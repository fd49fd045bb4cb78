SPECIFICATION Spec
CONSTANTS
    Requests = {r1, r2, r3}
    Conversations = {c1, c2}
    MaxTurns = 2
    SessionTTL = 2
    MaxRestarts = 2
    None = None
SYMMETRY Symmetry
INVARIANTS
    CountMatchesHistory
    CausalHistory
    AbortedNeverStored
    SequentialTurnsKept
PROPERTY RecordsLiveTheirTTL
CHECK_DEADLOCK FALSE

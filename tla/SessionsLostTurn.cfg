SPECIFICATION Spec
CONSTANTS
    Requests = {r1, r2}
    Conversations = {c1}
    MaxTurns = 2
    SessionTTL = 2
    MaxRestarts = 0
    None = None
INVARIANT NoTurnLost
CHECK_DEADLOCK FALSE

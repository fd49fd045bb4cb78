CONSTANTS
    Titles = {f1, f2, f3}
    Lookalikes = {{f2, f3}}
    MaxRounds = 2
    MaxTurns = 2
    MaxCalls = 2
SPECIFICATION FairSpec
INVARIANTS
    PromptsWellFormed
    TraceMatchesHistory
    NothingInvented
PROPERTIES
    TurnEnds
    Commits

CONSTANTS
    KeyOf <- MCKeyOf
    Versions <- MCVersions
    Recorded <- MCRecorded
    Fixtures <- MCFixtures
    Messages <- MCMessages
    Scores <- MCScores
    SeededTool = "codemixed"
    SeededInvention = "codemixed"
    Invention = "Chokher Aloy"
    Order <- MCOrder
    MaxToolRounds = 4
    Slips = 2
    Judgings = 2
SPECIFICATION Spec
INVARIANTS TranscriptFaithful RecordedScoresExact NoiseNeverKeeps
CHECK_DEADLOCK FALSE

SPECIFICATION BuildSpec
CONSTANTS
    Draws <- MCDraws
    Keys <- MCKeys
    Protected <- MCProtected
    KnownEntities <- MCEntities
    Graphs <- MCGraphs
    Perturbations <- MCPerturbations
    Decoys <- MCDecoys
    Seeds <- MCSeeds
    Size = 20
    Limits = {0, 12}
    SplitSeed <- MCSplitSeed
    SampleSize = 12
    Answers <- MCAnswers
    Commands = 6
    GoldenQuery <- MCGolden
    Datasets <- MCDatasets
INVARIANT SealedTogether
PROPERTIES ScaffoldsPass OnlySurfacesChange TrainedOnIsClean
CHECK_DEADLOCK FALSE

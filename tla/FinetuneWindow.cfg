\* The unit is 20 minutes: health 2700 s (3, rounded up), markers 5400 s (4), a benchmark
\* about 20 minutes (1), so that the box may lose its patience in the first phase and in
\* no other; the training wait of 8 hours is scaled down to 6.
CONSTANTS
    Health = 3
    Marker = 4
    Window = 6
    TaskTime = 1
SPECIFICATION FairSpec
INVARIANTS NoSwapUnderWork NoMutualWait RentBounded NoFaultNoLoss
PROPERTY RunsInPhases
CHECK_DEADLOCK FALSE

CONSTANTS
    film = film
    sequel = sequel
    novel = novel
    original = original
    remake = remake
    track = track
    second = second
    Null = Null
    WorkKeys = {film, sequel, novel}
    WorkQid = {novel}
    Years = {2, 3}
    Titles = {"One", "Two"}
    Originals = {original, second}
    SeedVersions <- MCSeedVersions
    WorkOf <- MCWorkOf
    WorkTitle <- MCWorkTitle
    WorkYear <- MCWorkYear
    Language <- MCLanguage
    Country <- MCCountry
    Title <- MCTitle
    Related <- MCRelated
    Slices <- MCSlices
    SliceEdits <- MCSliceEdits
    Feeds <- MCFeeds
    FeedMoves <- MCFeedMoves
    Artifacts <- MCArtifacts
    Starts <- MCStarts
    Ends <- MCEnds
    MaxConflicts = 2
SPECIFICATION Spec
PROPERTY SettledStaysVisible
CHECK_DEADLOCK FALSE

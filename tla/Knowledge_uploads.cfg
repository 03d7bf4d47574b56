\* Two uploads and a search; texts of four characters and some longer ones, chunks of
\* at most five.
SPECIFICATION FairSpec
CONSTANTS
    d1 = d1  d2 = d2  q1 = q1  Nothing = Nothing
    Docs <- TwoDocs
    Queries <- OneQuery
    Texts <- SomeTexts
    MaxChunkSize = 5
    OverlapSize = 2
    MinChunkSize = 1
    Rulers <- FourRulers
    TopK = 1
    MaxChunks = 4
    MaxRestarts = 1
CHECK_DEADLOCK FALSE
INVARIANTS
    NothingLost
    AnswersAreTrue
    FoundByBothFirst
PROPERTIES
    UploadReturns

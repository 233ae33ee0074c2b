SPECIFICATION RetrieveSpec
CONSTANTS
    Holds <- MCHolds
    TopN = 2
    K = 4
    RerankWindow = 3
    RrfK = 60
    Rerankers = {"none", "honest", "faulty"}
INVARIANTS
    RankOneSurvives
    BothChannelsWin
    CoherentUnlessSwapped
CHECK_DEADLOCK FALSE

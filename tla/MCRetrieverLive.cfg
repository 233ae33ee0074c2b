SPECIFICATION RetrieveSpec
CONSTANTS
    Holds <- MCHolds
    TopN = 2
    K = 4
    RerankWindow = 3
    RrfK = 40
    Rerankers = {"none"}
INVARIANT
    OneCorpusServed
CHECK_DEADLOCK FALSE

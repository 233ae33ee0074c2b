SPECIFICATION RunSpec
CONSTANTS
    NoScore = NoScore
    NotFinite = NotFinite
    Holdout = {"g1", "g2", "g3"}
    Answerable = {"g1", "g3"}
    MustAnswer = {"r1"}
    MustRefuse = {"r18"}
    Language <- MCLanguage
    Order <- MCOrder
    ScoresOf <- MCScoresOf
    RepliesOf <- MCRepliesOf
    FULL_REPEATS = 2
    CANARY_REPEATS = 2
    Floor = 1
    Threshold = 2
    Cells <- MCCells
    MinGrey = 1
    MaxRepeats = 2
INVARIANTS
    ShipOnlyOnFullEvidence
    ImprovementIsCausal
CHECK_DEADLOCK FALSE

SPECIFICATION SweepSpec
CONSTANTS
    NoScore = NoScore
    NotFinite = NotFinite
    Questions <- MCQuestions
    Results <- MCResults
    Pinned <- MCPinned
    Floors = {1, 2}
    Threshold = 3
    CurrentFloor = 2
    SignalTopN = 2
    MaxPooled = 1
    MaxPerLanguage = 1
INVARIANTS
    EligibleIsContained
    EligibleHarmsNobody
CHECK_DEADLOCK FALSE

SPECIFICATION ReportsSpec
CONSTANTS
    Modes = {"off", "both"}
    NumQuestions = 2
    Rows <- MCRows
    Corpora = {1, 2}
    MaxRuns = 1
    MaxBuilds = 2
INVARIANTS
    AliasIsBaseline
    HeaderNamesTheIndex
CHECK_DEADLOCK FALSE

SPECIFICATION Spec
CONSTANTS
    Writers = {w1, w2}
    Importers = {i1}
    Answered = {"a1", "a2"}
    Unsafe = {"u1"}
    Csvs <- MCCsvs
    MaxEdits = 2
    MaxKills = 2
    MaxAttempts = 2
    NoDir = NoDir
    Damaged = Damaged
INVARIANTS
    OneWholeRun
    EveryBaselineRowGraded
    MarkerMeansOneImport
PROPERTIES
    SingleUse
CHECK_DEADLOCK FALSE

SPECIFICATION Spec
CONSTANTS
    Writers = {w1}
    Importers = {i1, i2}
    Answered = {"a1", "a2"}
    Unsafe = {"u1"}
    Csvs <- MCCsvs
    MaxEdits = 2
    MaxKills = 2
    MaxAttempts = 2
    NoDir = NoDir
    Damaged = Damaged
PROPERTY
    SingleUse
CHECK_DEADLOCK FALSE

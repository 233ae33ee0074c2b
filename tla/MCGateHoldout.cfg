SPECIFICATION Spec
CONSTANTS
    Pairs = {"p1", "p2"}
    Fresh = {"a", "b", "c", "d"}
    Seen = {"s"}
    Chunks = {"c1"}
    Drafts <- MCDrafts
    MaxEdits = 2
INVARIANTS
    CellsBalanced
    GreenIsUnseen
CHECK_DEADLOCK FALSE

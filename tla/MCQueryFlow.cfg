CONSTANTS
    NoScore = none
    NotFinite = nan
    Chunks = {c1, c2, c3}
    Fabricated = fabricated
    NoReply = noreply
    PromptK = 2
    Scores = {0, 1, 2}
    MaxCited = 2
    Offered <- MCOffered
SPECIFICATION Spec
SYMMETRY Symmetry
INVARIANTS
    ServedAnswersAreGrounded
    ModelOnlyBehindGate
    ModelTextIsVetted
CHECK_DEADLOCK FALSE

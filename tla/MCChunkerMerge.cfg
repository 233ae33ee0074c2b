SPECIFICATION Spec
CONSTANTS
    TARGET_CHUNK_TOKENS = 5
    SECTION_SPLIT_TRIGGER_TOKENS = 6
    MAX_MERGED_SECTION_TOKENS = 6
    OverlapTokens = 1
    MIN_MERGE_TOKENS = 2
    LineBreakTokens = 0
    BodyStartLine = 3
    Sizes = {1, 3, 6}
    Bodies <- MCBodies
INVARIANT
    MergesOnlySmallSections
CHECK_DEADLOCK FALSE

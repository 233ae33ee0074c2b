CONSTANTS
    a = a
    b = b
    Contents <- MCContents
    Rows <- MCRows
    Ids <- MCIds
    Profiles = {"raw-v1", "contextual-v1"}
    Overlap = TRUE
SPECIFICATION Spec
SYMMETRY Symmetry
INVARIANT DigestsNeverDisagree

CONSTANTS
    a = a
    b = b
    Contents <- MCContents
    Rows <- MCRows
    Ids <- MCIds
    Profiles = {"raw-v1", "contextual-v1"}
    Overlap = FALSE
SPECIFICATION Spec
SYMMETRY Symmetry
INVARIANTS
    CommitMarker
    RebuildRecovers
    ServedIndexChecked
PROPERTIES
    LiveLeavesTwoCopies

SPECIFICATION Spec
CONSTANTS
    Tasks = {t1, t2, t3}
    Providers = {groq, openai}
    Keys = {k1, k2}
    Teardowns = 1
INVARIANTS
    NoClientLost
    ClosedIsOutOfCache
PROPERTIES
    LockIsReleased
CHECK_DEADLOCK FALSE

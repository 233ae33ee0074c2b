CONSTANTS
    ValidReplies = {valid}
    InvalidReplies = {invalid}
    NoReply = none
    NullReply = null
    MaxBackoffs = 2
SPECIFICATION Spec
INVARIANTS
    CallBudget
    AttemptsAccounted
    FailoverVisible
    GiveUpOnlyWhenExhausted
PROPERTIES
    ImplementsPort
CHECK_DEADLOCK FALSE

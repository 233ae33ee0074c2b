CONSTANTS
    ValidReplies = {valid}
    InvalidReplies = {invalid}
    NoReply = none
    NullReply = null
    MaxBackoffs = 2
SPECIFICATION Spec
INVARIANT OnlyGenerationErrorComesOut
CHECK_DEADLOCK FALSE

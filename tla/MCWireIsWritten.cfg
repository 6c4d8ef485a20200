\* The comment in DoSend: what is sent needs a copy of its own.
SPECIFICATION Spec
CONSTANTS
    CAPACITY = 2
    Sizes = {30}
    AnswerSize = 200
    MaxSends = 2
INVARIANT WireIsWritten
CHECK_DEADLOCK FALSE

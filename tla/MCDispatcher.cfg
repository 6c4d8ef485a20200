\* Three dispatches nest in each other; a type is registered twice.
CONSTANTS
    Descriptors = {"LoginInfo", "LoginOut"}
    Callbacks = {"OnSync", "Other"}
    MaxMessages = 3
    MaxRegister = 2
SPECIFICATION Spec
INVARIANT LastRegistrationCalled
\* The bounds have been reached and every callback has returned.
CHECK_DEADLOCK FALSE

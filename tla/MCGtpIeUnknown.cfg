CONSTANTS
    GtpOffset = 42
    MaxIes = 3
    IeValues <- WithUnknownIes
SPECIFICATION Spec
CHECK_DEADLOCK FALSE
PROPERTY WalkTerminates

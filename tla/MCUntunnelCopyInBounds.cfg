CONSTANTS
    MaxCapLen = 98
    IpHlValues = {5, 6, 15}
    FlagOptions = {0, 1, 2, 4}
SPECIFICATION Spec
CHECK_DEADLOCK FALSE
INVARIANT UntunnelCopyInBounds

CONSTANTS
    MaxSessions = 2
    TransitionIntervals = 1
    Program = "pcapdistributer"
    ConfigFiles <- LiveConfig
    EarlySignal = FALSE
    PcapFiles = 0
    MaxAccepts = 0
    MaxAddresses = 2
    Resolvable = {}
    Uninitialised = {0}
    MaxFaults = 1
SPECIFICATION Spec
PROPERTY ShutdownCompletes

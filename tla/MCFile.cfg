CONSTANTS
    MaxSessions = 2
    TransitionIntervals = 1
    Program = "pcapdistributer"
    ConfigFiles <- FileConfigs
    EarlySignal = FALSE
    PcapFiles = 1
    MaxAccepts = 1
    MaxAddresses = 2
    Resolvable = {}
    Uninitialised = {0}
    MaxFaults = 1
SPECIFICATION Spec

PROPERTY ShutdownCompletes FileCaptureEnds

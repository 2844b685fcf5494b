CONSTANTS
    MaxSessions = 3
    TransitionIntervals = 1
    Program = "pcapdistributer"
    ConfigFiles <- OnePassConfig
    EarlySignal = FALSE
    PcapFiles = 1
    MaxAccepts = 1
    MaxAddresses = 2
    Resolvable = {}
    Uninitialised = {0}
    MaxFaults = 0
SPECIFICATION Spec
INVARIANT ThreadBelongsToLiveSession

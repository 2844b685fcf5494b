CONSTANTS
    MaxSessions = 2
    TransitionIntervals = 1
    Program = "pcapmerger"
    ConfigFiles <- MCConfigFiles
    EarlySignal = FALSE
    PcapFiles = 0
    MaxAccepts = 0
    MaxAddresses = 2
    Resolvable <- MCResolvable
    Uninitialised = {0}
    MaxFaults = 3
SPECIFICATION Spec
\* A connection thread cancelled inside pcap_dump leaves merge_mutex locked:
\* the threads that lock it next, and the supervisor joining one of them,
\* wait for ever (run merger_cancel). The process really may stop there.
CHECK_DEADLOCK FALSE
INVARIANT TypeOK
INVARIANT ThreadBelongsToLiveSession
PROPERTY ImplementsLifecycle

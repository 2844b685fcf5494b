\* pcapmerger with two servers: SIGTERM while a connection thread is inside
\* pcap_dump, where pcapsession_stop's pthread_cancel takes effect.
CONSTANTS
    MaxSessions = 2
    TransitionIntervals = 1
    Program = "pcapmerger"
    ConfigFiles <- MCConfigFiles
    EarlySignal = FALSE
    PcapFiles = 0
    MaxAccepts = 0
    MaxAddresses = 2
    Resolvable <- MCResolvable
    Uninitialised = {0}
    MaxFaults = 3
SPECIFICATION Spec
\* The hang is the finding: it is reported as the liveness violation.
CHECK_DEADLOCK FALSE
PROPERTY ShutdownCompletes

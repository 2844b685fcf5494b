\* A client hangs up between the capture thread's check of its socket and
\* pcap_dump; the supervision stops it first.
CONSTANTS
    N = 2
    MaxAccepts = 3
    MaxHangups = 2
    MaxCaptureStops = 1
SPECIFICATION Spec
CHECK_DEADLOCK FALSE
INVARIANT DumpsOnlyToOpenDumper

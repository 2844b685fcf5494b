\* decodegtp on messages that carry a 14-digit IMSI: imsi2str prints the
\* low filler nibble 15 of its last octet as "15".
CONSTANTS
    GtpOffset = 42
    MaxIes = 2
    IeValues <- WithShortImsi
SPECIFICATION Spec
CHECK_DEADLOCK FALSE
INVARIANT ImsiFitsBuffer

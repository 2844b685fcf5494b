CONSTANTS
    GtpOffset = 42
    MaxIes = 3
    IeValues <- KnownIes
SPECIFICATION OfflineSpec
CHECK_DEADLOCK FALSE
INVARIANT WalkFollowsMessage
INVARIANT ChunkFilesFitMax
INVARIANT ChunksPartitionCapture
INVARIANT ChunkerNeverClosesNullDumper
INVARIANT StatsDescribePacketsRead
INVARIANT GtpFiltersDumpEveryFrame
INVARIANT LocatesLikeReference
INVARIANT UntunnelKeepsInnerPacket
INVARIANT AddrRewritesInnerAddress
PROPERTY WalkTerminates

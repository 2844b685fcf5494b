--------------------------- MODULE MCOfflineFilters ---------------------------
(* The offline filter programs, each run on its own: decodegtp's IE walk over
   the IE values of MCGtpIe, one of chunkpcapfile, pcapfilestats,
   usectstamp, gtpuntunnel and gtpaddr over small capture files, or the
   packet handlers of GtpHeader on every frame of its enumeration. Only one
   part runs in a behaviour; the variables of the others stay at a fixed
   idle value. *)
EXTENDS MCGtpIe

VARIABLES program, pc, capture, read, status, dumper, chunk_no, files,
          chunk_max_size, chunk_used, packet_count, byte_count,
          first_timestamp, last_timestamp, tv,
          pkt, handled, out, rewritten, writes

\* chunk_max_size as given: the minimum 1048576, and "1m", which atol reads as 1.
MCChunkSizeArgs == {<<"1", "0", "4", "8", "5", "7", "6">>, <<"1", "m">>}

Pkt(c, l, s, u) == [caplen |-> c, len |-> l, ts |-> [sec |-> s, usec |-> u]]

\* Packets for chunking: the largest capture libpcap reads (262144, its
\* maximum snapshot length), one a little shorter, and a small one.
ChunkPackets == {Pkt(c, c, 1, 0) : c \in {262144, 262130, 64}}

\* Packets for the statistics and the time stamps: truncated captures of
\* longer packets, time stamps after the epoch, one a microsecond before a
\* second boundary.
TimedPackets == {Pkt(64, l, s, u) : l \in {64, 1500}, <<s, u>> \in {<<1, 999999>>, <<2, 5>>}}

Capture(ps) == [file |-> "ok", packets |-> ps]

\* Frames for gtpuntunnel and gtpaddr, in GtpHeader's terms, whose headers
\* all lie inside the capture: a G-PDU whose inner source is old_ip; one
\* tagged 802.1Q, with a sequence number, cut one octet short of the wire
\* and whose inner destination is old_ip; one with an extension header;
\* and a UDP frame on another port.
GtpFrame(c, x, v, pt, o, r) ==
    [caplen |-> c, extra |-> x, vlan |-> v, etherIp |-> TRUE, ip |-> "v4udp",
     ip_hl |-> 5, port |-> pt, typever1 |-> TRUE, opts |-> o, rewrite |-> r]

GtpFrames ==
    {GtpFrame(70, 0, FALSE, "u_dport", 0, "src"),
     GtpFrame(78, 1, TRUE, "u_sport", 2, "dst"),
     GtpFrame(74, 0, FALSE, "u_dport", 4, "src"),
     GtpFrame(60, 0, FALSE, "none", 0, "none")}

Missing == {[file |-> "missing", packets |-> <<>>]}

TimedCaptures ==
    Missing
    \cup {Capture(ps) : ps \in UNION {[1 .. k -> ChunkPackets] : k \in 0 .. 5}}
    \cup {Capture(ps) : ps \in UNION {[1 .. k -> TimedPackets] : k \in 0 .. 3}}

GtpCaptures ==
    Missing \cup {Capture(ps) : ps \in UNION {[1 .. k -> GtpFrames] : k \in 0 .. 2}}

\* decodegtp has no action of PcapFilters: as its program, the filter
\* process never leaves main.
MCPrograms == {"decodegtp", "chunkpcapfile", "pcapfilestats", "usectstamp",
               "gtpuntunnel", "gtpaddr"}

MCCaptures ==
    [p \in MCPrograms |-> IF p \in {"gtpuntunnel", "gtpaddr"} THEN GtpCaptures
                          ELSE TimedCaptures]

\* old_ip and new_ip as given: a dotted quad, and one with a part over 255.
MCAddressArgs == {"10.0.0.1", "10.0.0.256"}

F == INSTANCE PcapFilters WITH Programs <- MCPrograms, Captures <- MCCaptures,
                               ChunkSizeArgs <- MCChunkSizeArgs,
                               AddressArgs <- MCAddressArgs,
                               InetAddresses <- {"10.0.0.1"}

\* GtpHeader's frames: captures up to 98 octets (an 802.1Q frame with a
\* 60-octet IP header, UDP, GTP and its optional part fits), ip_hl 5, 6
\* and the largest, 15, and flag values without and with each flag.
G == INSTANCE GtpHeader WITH MaxCapLen <- 98, IpHlValues <- {5, 6, 15},
                             FlagOptions <- {0, 1, 2, 4}

gtpVars == <<pkt, handled, out, rewritten, writes>>

filterVars == <<program, pc, capture, read, status, dumper, chunk_no, files,
               chunk_max_size, chunk_used, packet_count, byte_count,
               first_timestamp, last_timestamp, tv>>

\* decodegtp's walk after it has left its loop over an empty message.
DecodeIdle ==
    ies = <<>> /\ o0 = 8 /\ m = 0 /\ caplen = GtpOffset + 8 /\ offset = 8
    /\ done = TRUE /\ seen = {}

\* The filter process when decodegtp runs.
FilterIdle ==
    F!Started("decodegtp", [file |-> "missing", packets |-> <<>>])

\* GtpHeader's handlers after both have run on a G-PDU that is in order.
IdleFrame == [caplen |-> 70, extra |-> 0, vlan |-> FALSE, etherIp |-> TRUE,
              ip |-> "v4udp", ip_hl |-> 5, port |-> "u_dport",
              typever1 |-> TRUE, opts |-> 0, rewrite |-> "src"]

GtpIdle ==
    /\ pkt = IdleFrame /\ handled = TRUE /\ out = G!Untunnel(IdleFrame)
    /\ rewritten = TRUE /\ writes = G!AddrWrites(IdleFrame)

OfflineInit ==
    \/ Init /\ FilterIdle /\ GtpIdle
    \/ DecodeIdle /\ F!Init /\ program # "decodegtp" /\ GtpIdle
    \/ DecodeIdle /\ FilterIdle /\ G!Init

OfflineNext ==
    \/ Next /\ UNCHANGED <<filterVars, gtpVars>>
    \/ F!Next /\ UNCHANGED <<vars, gtpVars>>
    \/ G!Next /\ UNCHANGED <<vars, filterVars>>

OfflineSpec ==
    OfflineInit /\ [][OfflineNext]_<<vars, filterVars, gtpVars>> /\ WF_vars(WalkStep)

ChunkFilesFitMax == F!ChunkFilesFitMax
ChunksPartitionCapture == F!ChunksPartitionCapture
ChunkerNeverClosesNullDumper == F!ChunkerNeverClosesNullDumper
StatsDescribePacketsRead == F!StatsDescribePacketsRead
LocatesLikeReference == G!LocatesLikeReference
UntunnelKeepsInnerPacket == G!UntunnelKeepsInnerPacket
AddrRewritesInnerAddress == G!AddrRewritesInnerAddress
GtpFiltersDumpEveryFrame == F!GtpFiltersDumpEveryFrame
=============================================================================

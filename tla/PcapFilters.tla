----------------------------- MODULE PcapFilters -----------------------------
(***************************************************************************)
(* Five offline filter programs of src/filterprograms, each a main() that  *)
(* checks its arguments, opens a capture file with pcap_open_offline,      *)
(* runs pcap_loop with a packet callback, closes and exits:                *)
(*                                                                         *)
(*   chunkpcapfile   splits the capture into dump files of at most         *)
(*                   chunk_max_size octets, named out_file_name_<chunk_no>; *)
(*   pcapfilestats   counts packets and octets and keeps the first and     *)
(*                   last time stamps;                                     *)
(*   usectstamp      copies the capture, replacing every time stamp by     *)
(*                   the first one plus one microsecond per packet;        *)
(*   gtpuntunnel     copies the capture with every GTP-U frame untunnelled; *)
(*   gtpaddr         copies it with old_ip replaced by new_ip in the inner *)
(*                   IP header of every G-PDU.                             *)
(*                                                                         *)
(* A capture is whether pcap_open_offline opens it, and its packets: the   *)
(* captured length, the wire length and the time stamp of each. A dump     *)
(* file is the sequence of packets pcap_dump wrote to it; files maps a     *)
(* chunk number (usectstamp: 0) to its file. Logging is left out.          *)
(* The frames of gtpuntunnel and gtpaddr are those of GtpHeader, whose     *)
(* operators are their packet handlers.                                    *)
(***************************************************************************)
EXTENDS Integers, Sequences, FiniteSets
LOCAL INSTANCE SequencesExt
LOCAL Libc == INSTANCE PcapConfig WITH MaxAddresses <- 0, Resolvable <- {},
                                       Uninitialised <- {}

CONSTANTS
    Programs,       \* the filter programs run
    Captures,       \* the input capture files of each program
    ChunkSizeArgs,  \* the texts given as chunkpcapfile's chunk_max_size
    AddressArgs,    \* the texts given as gtpaddr's old_ip and new_ip
    InetAddresses   \* those of them inet_aton accepts

NULL == -1                    \* a NULL pcap_dumper_t*
SIGSEGV == -11                \* the exit status of a process killed by SIGSEGV
MIN_CHUNK_SIZE == 1048576     \* 0x100000
PKTHDR_SIZE == 24             \* sizeof(struct pcap_pkthdr) on LP64
FILE_HEADER_SIZE == 24        \* the file header pcap_dump_open writes
RECORD_HEADER_SIZE == 16      \* the record header pcap_dump writes per packet
USEC_PER_SEC == 1000000

Timeval(s, u) == [sec |-> s, usec |-> u]

\* Only GtpHeader's operators on a frame are used, not its variables.
LOCAL Gtp == INSTANCE GtpHeader WITH MaxCapLen <- 0, IpHlValues <- {},
                 FlagOptions <- {}, pkt <- NULL, handled <- FALSE, out <- NULL,
                 rewritten <- FALSE, writes <- {}

VARIABLES
    program,          \* which filter this process runs
    pc,               \* "main", "loop" (inside pcap_loop) or "done"
    capture,          \* the input file
    read,             \* packets pcap_loop has handed to the callback
    status,           \* the exit status once pc = "done"
    dumper,           \* pcap_dumper: NULL or the number of the file it writes
    chunk_no,         \* chunkpcapfile: the next chunk number
    files,            \* what each dump file holds
    chunk_max_size,   \* chunkpcapfile
    chunk_used,       \* chunkpcapfile: octets counted on the current chunk
    packet_count,     \* pcapfilestats
    byte_count,       \* pcapfilestats
    first_timestamp,  \* pcapfilestats
    last_timestamp,   \* pcapfilestats
    tv                \* usectstamp: tv_sec and tv_usec

vars == <<program, pc, capture, read, status, dumper, chunk_no, files,
          chunk_max_size, chunk_used, packet_count, byte_count,
          first_timestamp, last_timestamp, tv>>
chunkVars == <<dumper, chunk_no, files, chunk_max_size, chunk_used>>
statsVars == <<packet_count, byte_count, first_timestamp, last_timestamp>>

\* atol of an argument: the leading decimal digits.
Atol(t) == Libc!Atoi(t)

\* The process running prog on cap, before main(); globals are
\* zero-initialised.
Started(prog, cap) ==
    /\ program = prog
    /\ capture = cap
    /\ pc = "main"
    /\ read = 0
    /\ status = 0
    /\ dumper = NULL
    /\ chunk_no = 0
    /\ files = <<>>
    /\ chunk_max_size = 0
    /\ chunk_used = 0
    /\ packet_count = 0
    /\ byte_count = 0
    /\ first_timestamp = Timeval(0, 0)
    /\ last_timestamp = Timeval(0, 0)
    /\ tv = Timeval(0, 0)

Init == \E prog \in Programs : \E cap \in Captures[prog] : Started(prog, cap)

Exit(code) == pc' = "done" /\ status' = code

\* The callback's packet, while pcap_loop has one left to hand over.
Reading == pc = "loop" /\ read < Len(capture.packets)
NextPacket == capture.packets[read + 1]

\* pcap_loop returns at the end of the file.
EndOfFile == pc = "loop" /\ read = Len(capture.packets)

-----------------------------------------------------------------------------
(* chunkpcapfile *)

\* A chunk size taken without the check against MIN_CHUNK_SIZE.
ChunkSizeUnchecked(size) == TRUE

\* chunk_max_size < MIN_CHUNK_SIZE is refused.
ChunkSizeAccepted(size) == size >= MIN_CHUNK_SIZE

\* argc, chunk_max_size = atol(argv[3]) and its check, pcap_open_offline.
ChunkMain ==
    /\ program = "chunkpcapfile" /\ pc = "main"
    /\ \E argcOk \in BOOLEAN, arg \in ChunkSizeArgs :
         \/ ~argcOk /\ Exit(2) /\ UNCHANGED chunk_max_size
         \/ /\ argcOk
            /\ chunk_max_size' = Atol(arg)
            /\ \/ ~ChunkSizeAccepted(Atol(arg)) /\ Exit(3)
               \/ ChunkSizeAccepted(Atol(arg)) /\ capture.file = "missing" /\ Exit(4)
               \/ ChunkSizeAccepted(Atol(arg)) /\ capture.file = "ok"
                  /\ pc' = "loop" /\ UNCHANGED status
    /\ UNCHANGED <<program, capture, read, dumper, chunk_no, files, chunk_used,
                   statsVars, tv>>

\* A count of the captured octets alone.
ChunkUsedCaplenOnly(used, p) == used + p.caplen

\* chunk_used += sizeof(struct pcap_pkthdr) + header->caplen
ChunkUsed(used, p) == used + PKTHDR_SIZE + p.caplen

\* A file name formatted from chunk_no without the increment.
ChunkNoKept(n) == n

\* sprintf(chunk_dump_file, "%s_%06lu.pcap", out_file_name, chunk_no++)
NextChunkNo(n) == n + 1

(***************************************************************************)
(* pcap_packet_handler: close the dumper when the packet would take the   *)
(* chunk past chunk_max_size (pcap_dump_close on a NULL dumper crashes),  *)
(* open the next chunk file when none is open (exit(1) when that fails;   *)
(* pcap_dump_open truncates a file of the same name), dump, and count.    *)
(***************************************************************************)
ChunkPacket ==
    LET p == NextPacket
        full == ChunkUsed(chunk_used, p) > chunk_max_size
        open == IF full THEN NULL ELSE dumper
        used == IF full THEN 0 ELSE chunk_used
    IN
    /\ program = "chunkpcapfile" /\ Reading
    /\ read' = read + 1
    /\ IF full /\ dumper = NULL
       THEN Exit(SIGSEGV) /\ UNCHANGED <<dumper, chunk_no, files, chunk_used>>
       ELSE \/ open # NULL
               /\ files' = [files EXCEPT ![open] = Append(@, p)]
               /\ chunk_used' = ChunkUsed(used, p)
               /\ UNCHANGED <<pc, status, dumper, chunk_no>>
            \/ open = NULL
               /\ chunk_no' = NextChunkNo(chunk_no)
               /\ \/ dumper' = chunk_no /\ files' = (chunk_no :> <<p>>) @@ files
                     /\ chunk_used' = ChunkUsed(used, p)
                     /\ UNCHANGED <<pc, status>>
                  \/ dumper' = NULL /\ chunk_used' = used /\ UNCHANGED files
                     /\ Exit(1)
    /\ UNCHANGED <<program, capture, chunk_max_size, statsVars, tv>>

\* pcap_dump_close if a dumper is open, pcap_close, return 0.
ChunkEnd ==
    /\ program = "chunkpcapfile" /\ EndOfFile
    /\ Exit(0)
    /\ UNCHANGED <<program, capture, read, chunkVars, statsVars, tv>>

-----------------------------------------------------------------------------
(* pcapfilestats *)

StatsMain ==
    /\ program = "pcapfilestats" /\ pc = "main"
    /\ \E argcOk \in BOOLEAN :
         \/ ~argcOk /\ Exit(1)
         \/ argcOk /\ capture.file = "missing" /\ Exit(2)
         \/ argcOk /\ capture.file = "ok" /\ pc' = "loop" /\ UNCHANGED status
    /\ UNCHANGED <<program, capture, read, chunkVars, statsVars, tv>>

\* Counting the captured octets instead of the packet's.
PacketBytesCaptured(p) == p.caplen

\* byte_count += header->len
PacketBytes(p) == p.len

\* The first time stamp is taken while packet_count is still 0.
StatsPacket ==
    LET p == NextPacket IN
    /\ program = "pcapfilestats" /\ Reading
    /\ read' = read + 1
    /\ first_timestamp' = IF packet_count = 0 THEN p.ts ELSE first_timestamp
    /\ packet_count' = packet_count + 1
    /\ byte_count' = byte_count + PacketBytes(p)
    /\ last_timestamp' = p.ts
    /\ UNCHANGED <<program, pc, capture, status, chunkVars, tv>>

\* What print_pcap_stats writes, the time stamps formatted by strftime.
PrintedStats == [pkts |-> packet_count, bytes |-> byte_count,
                 start |-> first_timestamp, end |-> last_timestamp]

\* pcap_close, print_pcap_stats, return 0.
StatsEnd ==
    /\ program = "pcapfilestats" /\ EndOfFile
    /\ Exit(0)
    /\ UNCHANGED <<program, capture, read, chunkVars, statsVars, tv>>

-----------------------------------------------------------------------------
(* usectstamp *)

\* argc, pcap_open_offline, then pcap_dump_open, whose NULL result the
\* code does not see: it tests pcap_handle a second time instead.
UsecMain ==
    /\ program = "usectstamp" /\ pc = "main"
    /\ \E argcOk \in BOOLEAN, opened \in BOOLEAN :
         \/ ~argcOk /\ Exit(2) /\ UNCHANGED <<dumper, files>>
         \/ argcOk /\ capture.file = "missing" /\ Exit(4) /\ UNCHANGED <<dumper, files>>
         \/ /\ argcOk /\ capture.file = "ok"
            /\ dumper' = IF opened THEN 0 ELSE NULL
            /\ files' = IF opened THEN (0 :> <<>>) ELSE files
            /\ pc' = "loop" /\ UNCHANGED status
    /\ UNCHANGED <<program, capture, read, chunk_no, chunk_max_size, chunk_used,
                   statsVars, tv>>

\* tv_usec++, and the roll-over into tv_sec at a million.
Tick(t) ==
    IF t.usec + 1 >= USEC_PER_SEC THEN Timeval(t.sec + 1, 0)
    ELSE Timeval(t.sec, t.usec + 1)

\* The first packet's time stamp is taken while tv_sec is 0, every later
\* one is a tick on; the packet is dumped with it (through a NULL dumper,
\* a crash).
UsecPacket ==
    LET p == NextPacket
        t == IF tv.sec = 0 THEN p.ts ELSE Tick(tv)
    IN
    /\ program = "usectstamp" /\ Reading
    /\ read' = read + 1
    /\ tv' = t
    /\ \/ dumper = NULL /\ Exit(SIGSEGV) /\ UNCHANGED files
       \/ dumper # NULL /\ files' = [files EXCEPT ![dumper] = Append(@, [p EXCEPT !.ts = t])]
          /\ UNCHANGED <<pc, status>>
    /\ UNCHANGED <<program, capture, chunk_no, chunk_max_size, chunk_used,
                   dumper, statsVars>>

\* pcap_dump_close, pcap_close, return 0.
UsecEnd ==
    /\ program = "usectstamp" /\ EndOfFile
    /\ Exit(0)
    /\ UNCHANGED <<program, capture, read, chunkVars, statsVars, tv>>

-----------------------------------------------------------------------------
(* gtpuntunnel and gtpaddr *)

GtpFilters == {"gtpuntunnel", "gtpaddr"}

\* gtpaddr: inet_aton(argv[3], &old_ip), then inet_aton(argv[4], &new_ip)
AddressesValid(old, new) == old \in InetAddresses /\ new \in InetAddresses

\* argc (5 for gtpaddr, 3 for gtpuntunnel), gtpaddr's two addresses,
\* pcap_open_offline, pcap_dump_open; a failed dump open closes the
\* capture and returns 5.
GtpMain ==
    /\ program \in GtpFilters /\ pc = "main"
    /\ \E argcOk, opened \in BOOLEAN, old, new \in AddressArgs :
         \/ ~argcOk /\ Exit(2) /\ UNCHANGED <<dumper, files>>
         \/ /\ argcOk /\ program = "gtpaddr" /\ ~AddressesValid(old, new)
            /\ Exit(3) /\ UNCHANGED <<dumper, files>>
         \/ /\ argcOk /\ (program = "gtpaddr" => AddressesValid(old, new))
            /\ \/ capture.file = "missing" /\ Exit(4) /\ UNCHANGED <<dumper, files>>
               \/ capture.file = "ok" /\ ~opened /\ Exit(5) /\ UNCHANGED <<dumper, files>>
               \/ /\ capture.file = "ok" /\ opened
                  /\ dumper' = 0 /\ files' = (0 :> <<>>)
                  /\ pc' = "loop" /\ UNCHANGED status
    /\ UNCHANGED <<program, capture, read, chunk_no, chunk_max_size, chunk_used,
                   statsVars, tv>>

\* gtpuntunnel's pcap_packet_handler: pcapsession_untunnel_packet on a copy
\* of the header, then pcap_dump with the new caplen and len.
UntunnelDumps(p) ==
    LET u == Gtp!Untunnel(p) IN <<[caplen |-> u.caplen, len |-> u.len, writes |-> {}]>>

\* What gtpaddr's handler dumps: the header as it came, the frame with the
\* address it overwrote.
AddrRecord(p) == [caplen |-> p.caplen, len |-> Gtp!Len(p), writes |-> Gtp!AddrWrites(p)]

\* A handler whose early return, for a frame without a GTP header or with
\* the E flag, skips the pcap_dump.
AddrDumpsNoEarly(p) ==
    IF Gtp!GetHeader(p.caplen, p).gtp = Gtp!None \/ Gtp!ExtFlag(p.opts)
    THEN <<>> ELSE <<AddrRecord(p)>>

\* gtpaddr's pcap_packet_handler: such a frame is dumped and the handler
\* returns; any other is dumped after the address writes.
AddrDumps(p) == <<AddrRecord(p)>>

GtpPacket ==
    LET p == NextPacket IN
    /\ program \in GtpFilters /\ Reading
    /\ read' = read + 1
    /\ files' = [files EXCEPT ![dumper] = @ \o (IF program = "gtpuntunnel"
                                                THEN UntunnelDumps(p)
                                                ELSE AddrDumps(p))]
    /\ UNCHANGED <<program, pc, capture, status, dumper, chunk_no,
                   chunk_max_size, chunk_used, statsVars, tv>>

\* pcap_dump_close (the dumper is never NULL here), pcap_close, and the
\* end of main(), which returns 0.
GtpEnd ==
    /\ program \in GtpFilters /\ EndOfFile
    /\ Exit(0)
    /\ UNCHANGED <<program, capture, read, chunkVars, statsVars, tv>>

-----------------------------------------------------------------------------
Next ==
    \/ ChunkMain \/ ChunkPacket \/ ChunkEnd
    \/ StatsMain \/ StatsPacket \/ StatsEnd
    \/ UsecMain \/ UsecPacket \/ UsecEnd
    \/ GtpMain \/ GtpPacket \/ GtpEnd

\* One thread reading a finite file: nothing runs concurrently.
Spec == Init /\ [][Next]_vars

-----------------------------------------------------------------------------
\* The size of a dump file: the file header, then a record header and the
\* captured octets of each packet.
FileSize(f) == FoldLeft(LAMBDA n, p : n + RECORD_HEADER_SIZE + p.caplen,
                        FILE_HEADER_SIZE, f)


(* chunkpcapfile: no chunk file grows past chunk_max_size. The handler
   counts sizeof(struct pcap_pkthdr), 24 octets, per packet but not the
   file header, while the file holds 16 per record and 24 at the front;
   it is within bound only because a chunk of one or two packets has room
   to spare, the captured length being at most the snapshot length. *)
ChunkFilesFitMax ==
    program = "chunkpcapfile" =>
        \A n \in DOMAIN files : FileSize(files[n]) <= chunk_max_size

(* chunkpcapfile: the chunk files numbered 0 .. chunk_no - 1, in order,
   hold exactly the packets read so far, in order: a chunk file name is
   never reused (pcap_dump_open would truncate it) and no packet is lost
   or written twice when a chunk is closed and the next one opened. *)
ChunksPartitionCapture ==
    program = "chunkpcapfile" /\ status = 0 =>
        /\ DOMAIN files = 0 .. chunk_no - 1
        /\ FlattenSeq([i \in 1 .. chunk_no |-> files[i - 1]])
             = SubSeq(capture.packets, 1, read)

(* chunkpcapfile never calls pcap_dump_close on a NULL dumper: that
   happens when the first packet alone is over chunk_max_size, which the
   check against MIN_CHUNK_SIZE excludes for every packet libpcap will
   read. *)
ChunkerNeverClosesNullDumper ==
    program = "chunkpcapfile" => status # SIGSEGV

(* pcapfilestats: what print_pcap_stats prints, after every millionth
   packet and at the end, describes the packets read so far: their number,
   the sum of their wire lengths, and the time stamps of the first and the
   last of them. *)
StatsDescribePacketsRead ==
    program = "pcapfilestats" /\ pc # "main" /\ read > 0 =>
        LET read_packets == SubSeq(capture.packets, 1, read) IN
        PrintedStats = [pkts |-> read,
                        bytes |-> FoldLeft(LAMBDA n, p : n + p.len, 0, read_packets),
                        start |-> read_packets[1].ts,
                        end |-> read_packets[read].ts]

(* gtpuntunnel and gtpaddr: the output file holds one record per frame
   read, in order, on every path through the packet handler (gtpaddr dumps
   a frame it leaves alone before its early return, and one it rewrites at
   the end); the record of a frame is never longer than the frame, and
   caplen and len shrink together, so the gap between them stays. *)
GtpFiltersDumpEveryFrame ==
    program \in GtpFilters /\ 0 \in DOMAIN files =>
        LET out == files[0] IN
        /\ Len(out) = read
        /\ \A i \in 1 .. Len(out) :
             LET p == capture.packets[i] IN
             /\ 0 <= out[i].caplen /\ out[i].caplen <= p.caplen
             /\ out[i].len - out[i].caplen = Gtp!Len(p) - p.caplen
=============================================================================

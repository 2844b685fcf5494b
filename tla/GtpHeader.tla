----------------------------- MODULE GtpHeader -----------------------------
(***************************************************************************)
(* GTP v1 header location and GTP-U untunnelling of one captured frame.    *)
(*                                                                         *)
(* gtpv1_get_header (src/src/gtp/gtpv1.c) walks Ethernet, optional 802.1Q, *)
(* IPv4 and UDP headers with an unsigned offset and unsigned length        *)
(* checks; pcapsession_untunnel_packet (pcapsession_untunnel.c) then moves *)
(* the inner packet up under the Ethernet header with memmove and shrinks  *)
(* caplen and len. The packet handlers (merger, gtpuntunnel) copy the pcap *)
(* header, untunnel, and dump caplen bytes of the buffer.                  *)
(*                                                                         *)
(* A frame is abstracted to its capture length and the header fields the  *)
(* code tests. A field that lies past the capture length is still read by *)
(* the code and has whatever value the buffer holds there, so every field  *)
(* ranges freely whatever the length: the model enumerates them all.       *)
(***************************************************************************)
EXTENDS Integers

CONSTANTS
    MaxCapLen,      \* largest header->caplen enumerated
    IpHlValues,     \* values of ip_hl enumerated (4-octet words, 5..15)
    FlagOptions     \* values of the 3-bit flag_options field enumerated

\* sizeof of the headers the code walks (net/ethernet.h, netinet/ip.h,
\* netinet/udp.h, gtpv1.h).
EtherLen == 14
TagLen == 4              \* TAG_ETHER_802_1_Q_LENGTH
IpLen == 20              \* sizeof(struct ip)
UdpLen == 8              \* sizeof(struct udphdr)
GtpLen == 8              \* sizeof(struct gtpv1hdr)
GtpOptLen == 4           \* sizeof(struct gtpv1hdropt)

None == -1

(***************************************************************************)
(* An unsigned int of the code is held by its two's-complement            *)
(* representative: a negative number n stands for 2^32 + n. A length     *)
(* check "length - offset < size" is false exactly when the subtraction   *)
(* wraps, because 2^32 + length - offset exceeds every header size.       *)
(***************************************************************************)
Short(length, offset, size) == length >= offset /\ length - offset < size

\* The frame fields the code reads. port names the first of the four port
\* comparisons that matches (sport/dport against 2152, then 2123).
Ports == {"u_sport", "u_dport", "c_dport", "none"}
IpKinds == {"v4udp", "v4tcp", "v6"}

\* What gtpaddr's comparisons find in a frame: the G-PDU's inner source
\* address equals old_ip, else its destination does, or neither (or the
\* message is not a G-PDU).
Rewrites == {"src", "dst", "none"}

Packets ==
    [caplen : 0 .. MaxCapLen, extra : {0, 1},
     vlan : BOOLEAN, etherIp : BOOLEAN, ip : IpKinds, ip_hl : IpHlValues,
     port : Ports, typever1 : BOOLEAN, opts : FlagOptions,
     rewrite : Rewrites]

Len(p) == p.caplen + p.extra     \* header->len >= header->caplen

\* Offset of the outer IP header: the Ethernet header, plus the 802.1Q tag
\* when the first ether_type is ETHERTYPE_VLAN.
EtherOffsetNoTag(p) == EtherLen

EtherOffset(p) == IF p.vlan THEN EtherLen + TagLen ELSE EtherLen

(***************************************************************************)
(* gtpv1_get_header(length, data): gtp is the offset of the GTP header or *)
(* None; extent is one past the highest octet the function read.           *)
(***************************************************************************)
GetHeader(length, p) ==
    LET o1 == EtherOffset(p)
        o2 == o1 + 4 * p.ip_hl
        o3 == o2 + UdpLen
        Ret(g, e) == [gtp |-> g, extent |-> e]
    IN  IF Short(length, 0, EtherLen) THEN Ret(None, 0)
        ELSE IF ~p.etherIp THEN Ret(None, o1)
        ELSE IF Short(length, o1, IpLen) THEN Ret(None, o1)
        ELSE IF p.ip = "v6" THEN Ret(None, o1 + 1)           \* ip_v
        ELSE IF p.ip # "v4udp" THEN Ret(None, o1 + 10)       \* ip_p
        ELSE IF Short(length, o2, UdpLen) THEN Ret(None, o1 + 10)
        ELSE IF p.port = "none" THEN Ret(None, o2 + 4)
        ELSE IF Short(length, o3, GtpLen)
             THEN Ret(None, IF p.port = "u_sport" THEN o2 + 2 ELSE o2 + 4)
        ELSE IF ~p.typever1 THEN Ret(None, o3 + 1)
        ELSE Ret(o3, o3 + 1)

\* GTP_EXT_FLAG(flag_options)
ExtFlag(opts) == (opts \div 4) % 2 = 1

\* Length of the optional part: present when any of E, S, PN is set.
OptionalLenSeqOnly(opts) == IF (opts \div 2) % 2 = 1 THEN GtpOptLen ELSE 0

OptionalLen(opts) == IF opts # 0 THEN GtpOptLen ELSE 0

\* target_ptr: just after the Ethernet header and its 802.1Q tag, if any.
Target(p) == IF p.vlan THEN EtherLen + TagLen ELSE EtherLen

(***************************************************************************)
(* pcapsession_untunnel_packet on a copy of the pcap header. copies is   *)
(* the set of memmoves performed (from, to, n): empty or a singleton.      *)
(***************************************************************************)
Dropped(p, gtp) == (gtp + GtpLen + OptionalLen(p.opts)) - Target(p)

Untunnel(p) ==
    LET h == GetHeader(p.caplen, p)
        src == h.gtp + GtpLen + OptionalLen(p.opts)
        d == Dropped(p, h.gtp)
    IN  IF h.gtp = None \/ ExtFlag(p.opts)
        THEN [caplen |-> p.caplen, len |-> Len(p), extent |-> h.extent,
              gtp |-> h.gtp, copies |-> {}]
        ELSE [caplen |-> p.caplen - d, len |-> Len(p) - d,
              extent |-> h.extent, gtp |-> h.gtp,
              copies |-> {[from |-> src, to |-> Target(p), n |-> p.caplen - d]}]

(***************************************************************************)
(* gtpaddr's pcap_packet_handler. The inner IP header follows the GTP    *)
(* header, and its optional part whenever flag_options is not 0. The     *)
(* handler writes new_ip over the 4-octet ip_src (offset 12) or ip_dst   *)
(* (offset 16) of that header in place, then dumps the frame; a frame    *)
(* with no GTP header or with the E flag is dumped unchanged. writes is  *)
(* the set of offsets it overwrote.                                      *)
(***************************************************************************)
InnerIpOffsetNoOpts(p, gtp) == gtp + GtpLen

InnerIpOffset(p, gtp) == gtp + GtpLen + OptionalLen(p.opts)

AddrWrites(p) ==
    LET h == GetHeader(p.caplen, p)
        ip == InnerIpOffset(p, h.gtp)
    IN  IF h.gtp = None \/ ExtFlag(p.opts) \/ p.rewrite = "none" THEN {}
        ELSE {IF p.rewrite = "src" THEN ip + 12 ELSE ip + 16}

VARIABLES
    pkt,      \* the frame handed to the packet handler
    handled,  \* whether the untunnelling handler has run on pkt
    out,      \* its result: new_header and what it read
    rewritten,\* whether gtpaddr's handler has run on pkt
    writes    \* the offsets gtpaddr's handler overwrote

vars == <<pkt, handled, out, rewritten, writes>>

Init ==
    /\ pkt \in Packets
    /\ handled = FALSE
    /\ out = [caplen |-> pkt.caplen, len |-> Len(pkt), extent |-> 0,
              gtp |-> None, copies |-> {}]
    /\ rewritten = FALSE
    /\ writes = {}

\* pcapsession_merger_packet_handler with untunnelling on, and the
\* pcap_packet_handler of gtpuntunnel: copy the header, untunnel, dump
\* new_header.caplen octets of the buffer.
PacketHandler ==
    /\ ~handled
    /\ handled' = TRUE
    /\ out' = Untunnel(pkt)
    /\ UNCHANGED <<pkt, rewritten, writes>>

\* gtpaddr's pcap_packet_handler on the same frame
AddrHandler ==
    /\ ~rewritten
    /\ rewritten' = TRUE
    /\ writes' = AddrWrites(pkt)
    /\ UNCHANGED <<pkt, handled, out>>

\* The handler keeps no state from one frame to the next (the monitor
\* counters aside), so a behaviour is the handling of one frame.
Next == PacketHandler \/ AddrHandler

Spec == Init /\ [][Next]_vars

-----------------------------------------------------------------------------
(***************************************************************************)
(* Reference: where a GTP v1 header is, from the frame layout alone, and  *)
(* never looking past the captured octets.                                 *)
(***************************************************************************)
RefGtpOffset(p) ==
    (IF p.vlan THEN 18 ELSE 14) + 4 * p.ip_hl + 8

RefIsGtp(p) ==
    /\ p.etherIp /\ p.ip = "v4udp" /\ p.port # "none" /\ p.typever1
    /\ RefGtpOffset(p) + 8 <= p.caplen

RefLocate(p) == IF RefIsGtp(p) THEN RefGtpOffset(p) ELSE None

\* Start of the inner packet: the GTP header and its optional part.
RefInner(p) == RefGtpOffset(p) + 8 + (IF p.opts = 0 THEN 0 ELSE 4)


(* Type invariant: the handler's new caplen and len are unsigned values no
   larger than the frame's, held as two's-complement representatives. *)
TypeOK ==
    /\ pkt \in Packets
    /\ handled \in BOOLEAN
    /\ out.caplen \in -MaxCapLen .. MaxCapLen
    /\ out.len \in -MaxCapLen .. MaxCapLen + 1
    /\ out.gtp \in {None} \cup Nat
    /\ out.copies \subseteq [from : Nat, to : Nat, n : Int]
    /\ rewritten \in BOOLEAN
    /\ writes \subseteq Nat

(* Whenever gtpv1_get_header stays inside the frame, it finds the GTP
   header exactly where the layout puts it, and reports None for every
   frame that does not carry one: the VLAN offset, IP header length, the
   GTP-U and GTP-C ports and the version test all agree with the layout. *)
LocatesLikeReference ==
    handled /\ out.extent <= pkt.caplen => out.gtp = RefLocate(pkt)

(* Untunnelling a well-formed GTP-U frame without extension headers leaves
   the Ethernet header followed by the inner packet: the new caplen is the
   Ethernet header plus what followed the GTP header and its optional part,
   and len shrinks by as much as caplen. A frame that is not GTP, or has
   extension headers, is left as it is. *)
UntunnelKeepsInnerPacket ==
    handled /\ out.extent <= pkt.caplen =>
        IF RefIsGtp(pkt) /\ ~ExtFlag(pkt.opts) /\ RefInner(pkt) <= pkt.caplen
        THEN /\ out.caplen = (IF pkt.vlan THEN 18 ELSE 14) + pkt.caplen - RefInner(pkt)
             /\ Len(pkt) - out.len = pkt.caplen - out.caplen
        ELSE ~RefIsGtp(pkt) \/ ExtFlag(pkt.opts) =>
                 /\ out.caplen = pkt.caplen
                 /\ out.len = Len(pkt)

(* On a frame whose headers gtpv1_get_header found inside the capture, the
   memmove of pcapsession_untunnel_packet reads only captured octets: the
   inner packet it moves ends at the end of the capture. *)
UntunnelCopyInBounds ==
    handled /\ out.extent <= pkt.caplen =>
        \A c \in out.copies : c.from + c.n <= pkt.caplen

(* gtpaddr changes exactly the address it was asked to change, in the inner
   packet: on a G-PDU whose headers gtpv1_get_header found inside the frame
   and that has no extension header, it overwrites the inner ip_src, or
   else the inner ip_dst, at the offset the layout gives them (past the GTP
   header and its optional part); any other frame is dumped untouched. *)
AddrRewritesInnerAddress ==
    rewritten /\ GetHeader(pkt.caplen, pkt).extent <= pkt.caplen =>
        writes = IF RefIsGtp(pkt) /\ ~ExtFlag(pkt.opts) /\ pkt.rewrite # "none"
                 THEN {RefInner(pkt) + (IF pkt.rewrite = "src" THEN 12 ELSE 16)}
                 ELSE {}
=============================================================================

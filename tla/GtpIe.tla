------------------------------- MODULE GtpIe -------------------------------
(***************************************************************************)
(* The walk over the information elements (IEs) of a GTP-C message, as   *)
(* done by decode_gtp_packet in decodegtp.c and in gtpimsieua.c, driven  *)
(* by the table that init_gtpv1_information_elements fills               *)
(* (gtpv1_information_elements.c).                                         *)
(*                                                                         *)
(* The octets that follow the GTP header are a sequence of IEs, laid end  *)
(* to end from the first IE offset (8, or 12 with optional fields). The   *)
(* first m of them form the message (the header's length field counts    *)
(* them); the rest stand for what follows in the buffer: padding, or     *)
(* whatever the buffer holds past the capture. An offset that falls       *)
(* inside an IE or past the sequence reads an octet of any value.          *)
(***************************************************************************)
EXTENDS Integers, Sequences, FiniteSets

CONSTANTS
    GtpOffset,   \* offset of the GTP header in the frame (42: Ethernet, IP, UDP)
    IeValues,    \* the IEs that may appear: records [name, len, enc]
    MaxIes       \* longest IE sequence enumerated

(***************************************************************************)
(* The table of init_gtpv1_information_elements. A TV IE has a one-octet  *)
(* header (its type) and the fixed body length below; a TLV IE has a      *)
(* three-octet header (type, 16-bit length) and body_length 0 in the      *)
(* table. Every other type keeps the zeroed entry: header_length and      *)
(* body_length 0.                                                          *)
(***************************************************************************)
TvIes ==
    [CAUSE |-> 1, IMSI |-> 8, RAI |-> 6, TLLI |-> 4, P_TMSI |-> 4,
     REORDERING_REQUIRED |-> 1, AUTHENTICATION_TRIPLET |-> 28,
     MAP_CAUSE |-> 1, P_TMSI_SIGNATURE |-> 3, MS_VALIDATED |-> 1,
     RECOVERY |-> 1, SELECTION_MODE |-> 1, TEI_DATA_I |-> 4,
     TEI_CONTROL_PLANE |-> 4, TEI_DATA_II |-> 5, TEARDOWN_IND |-> 1,
     NSAPI |-> 1, RANAP_CAUSE |-> 1, RAB_CONTEXT |-> 9,
     RADIO_PRIORITY_SMS |-> 1, RADIO_PRIORITY |-> 1, PACKET_FLOW_ID |-> 2,
     CHARGING_CHARACTERISTICS |-> 2, TRACE_REFERENCE |-> 2, TRACE_TYPE |-> 2,
     MS_NOT_REACHABLE_REASON |-> 1, CHARGING_ID |-> 4]

TlvIes ==
    {"END_USER_ADDRESS", "MM_CONTEXT", "PDP_CONTEXT", "APN",
     "PROTOCOL_CONFIGURATION_OPTIONS", "GSN_ADDRESS", "MSISDN", "QOS_PROFILE",
     "AUTHENTICATION_QUINTUPLET", "TRAFFIC_FLOW_TEMPLATE",
     "TARGET_IDENTIFICATION", "UTRAN_TRANSPARENT_CONTAINER",
     "RAB_SETUP_INFORMATION", "EXTENSION_HEADER_TYPE_LIST", "TRIGGER_ID",
     "OMC_IDENTITY", "RAN_TRANSPARENT_CONTAINER", "PDP_CONTEXT_PRIORITIZATION",
     "ADDITIONAL_RAB_SETUP_INFORMATION", "SGSN_NUMBER", "COMMON_FLAGS",
     "APN_RESTRICTION", "RADIO_PRIORITY_LCS", "RAT_TYPE",
     "USER_LOCATION_INFORMATION", "MS_TIME_ZONE", "IMEISV",
     "CAMEL_CHARGING_INFORMATION_CONTAINER", "MBMS_UE_CONTEXT", "TMGI",
     "RIM_ROUTING_ADDRESS", "MBMS_PROTOCOL_CONFIGURATION_OPTIONS",
     "MBMS_SERVICE_AREA", "SOURCE_RNC_PDCP_CONTEXT_INFO",
     "ADDITIONAL_TRACE_INFO", "HOP_COUNTER", "SELECTED_PLMN_ID",
     "MBMS_SESSION_IDENTIFIER", "MBMS_2G_3G_INDICATOR", "ENHANCED_NSAPI",
     "MBMS_SESSION_DURATION", "ADDITIONAL_MBMS_TRACE_INFO",
     "MBMS_SESSION_REPETITION_NUMBER", "MBMS_TIME_TO_DATA_TRANSFER",
     "BSS_CONTAINER", "CELL_IDENTIFICATION", "PDU_NUMBERS", "BSSGP_CAUSE",
     "REQUIRED_MBMS_BEARER_CAPABILITIES", "RIM_ROUTING_ADDRESS_DISCRIMINATOR",
     "LIST_OF_SET_UP_PFCS", "PS_HANDOVER_XID_PARAMETERS",
     "MS_INFO_CHANGE_REPORTING_ACTION", "DIRECT_TUNNEL_FLAGS",
     "CORRELATION_ID", "BEARER_CONTROL_MODE", "MBMS_FLOW_IDENTIFIER",
     "MBMS_IP_MULTICAST_DISTRIBUTION", "MBMS_DISTRIBUTION_ACKNOWLEDGEMENT",
     "RELIABLE_INTER_RAT_HANDOVER_INFO", "RFSP_INDEX", "FQDN",
     "EVOLVED_ALLOCATION_RETENTION_PRIORITY_I",
     "EVOLVED_ALLOCATION_RETENTION_PRIORITY_II", "EXTENDED_COMMON_FLAGS",
     "UCI", "CSG_INFORMATION_REPORTING_ACTION", "CSG_ID", "CMI", "AMBR",
     "UE_NETWORK_CAPABILITY", "UE_AMBR", "APN_AMBR_WITH_NSAPI",
     "GGSN_BACK_OFF_TIME", "SIGNALLING_PRIORITY_INDICATION",
     "SIGNALLING_PRIORITY_INDICATION_WITH_NSAPI",
     "HIGHER_BITRATES_THAN_16_MBPS_FLAG", "MAX_MBR_APN_AMBR",
     "ADDITIONAL_MM_CONTEXT_FOR_SRVCC", "ADDITIONAL_FLAGS_FOR_SRVCC",
     "STN_SR", "C_MSISDN", "EXTENDED_RANAP_CAUSE",
     "CHARGING_GATEWAY_ADDRESS", "PRIVATE_EXTENSION"}

\* A type with no entry: a TV type (below GTPV1_FIRST_TLV_IE) or a TLV type
\* the table does not list.
UNKNOWN_TV == "UNKNOWN_TV"
UNKNOWN_TLV == "UNKNOWN_TLV"

\* ie >= GTPV1_FIRST_TLV_IE
IsTlv(name) == name \in TlvIes \/ name = UNKNOWN_TLV

\* gtpv1_information_elements[ie].header_length and .body_length
HeaderLengthTvOnly(name) == IF name \in DOMAIN TvIes THEN 1 ELSE 0

HeaderLength(name) ==
    IF name \in DOMAIN TvIes THEN 1 ELSE IF name \in TlvIes THEN 3 ELSE 0
TableBody(name) == IF name \in DOMAIN TvIes THEN TvIes[name] ELSE 0

\* The body length the walk uses: the table's, or the IE's own 16-bit
\* length field for a TLV type.
BodyLengthTableOnly(ie) == TableBody(ie.name)

BodyLength(ie) == IF IsTlv(ie.name) THEN ie.len ELSE TableBody(ie.name)

ImsiBufLen == 16   \* char imsistr[GTPV1_IMSI_LENGTH * 2]

RECURSIVE Imsi2StrLenFrom(_, _)
\* Characters imsi2str appends from octet i of the IMSI on (enc holds the
\* octets as [lo, hi] nibbles): the low nibble always with "%d", the high
\* nibble with "%d" unless it is a filler (>= 10). A nibble of 10 to 15
\* printed with "%d" takes two characters.
Imsi2StrLenFrom(enc, i) ==
    IF i > Len(enc) THEN 0
    ELSE LET Width(n) == IF n < 10 THEN 1 ELSE 2
         IN  Width(enc[i].lo)
               + (IF enc[i].hi < 10 THEN Width(enc[i].hi) ELSE 0)
               + Imsi2StrLenFrom(enc, i + 1)

\* What the walk writes into imsistr for an IE: the IMSI's string, nothing
\* for other IEs.
ImsiChars(ie) == IF ie.name = "IMSI" THEN Imsi2StrLenFrom(ie.enc, 1) ELSE 0

\* The octets an IE really occupies in the message.
Size(ie) ==
    IF IsTlv(ie.name) THEN 3 + ie.len
    ELSE IF ie.name \in DOMAIN TvIes THEN 1 + TvIes[ie.name] ELSE 1

VARIABLES
    ies,     \* the IEs after the GTP header, message first
    o0,      \* offset of the first IE from the GTP header
    m,       \* how many IEs the message holds
    caplen,  \* header->caplen, counted from the start of the frame
    offset,  \* the walk's offset, counted from the GTP header
    done,    \* the while loop has left
    seen     \* the IEs the walk has processed: [name, at, end, chars]

vars == <<ies, o0, m, caplen, offset, done, seen>>

RECURSIVE StartOf(_, _, _)
\* Offset from the GTP header of the i-th IE of s laid out from o.
StartOf(s, o, i) == IF i = 1 THEN o ELSE StartOf(s, o, i - 1) + Size(s[i - 1])

Start(i) == StartOf(ies, o0, i)

\* sizeof(struct gtpv1hdr) + ntohs(gtpv1hdr->length): the end of the message.
MsgEnd == Start(m + 1)

\* What the walk reads at offset o: the IE that starts there, or any IE
\* when o falls inside an IE or past the sequence.
IeAt(o) ==
    IF \E i \in 1 .. Len(ies) : Start(i) = o
    THEN {ies[CHOOSE i \in 1 .. Len(ies) : Start(i) = o]}
    ELSE IeValues

Init ==
    /\ ies \in UNION {[1 .. k -> IeValues] : k \in 0 .. MaxIes}
    /\ o0 \in {8, 12}
    /\ m \in 0 .. Len(ies)
    /\ caplen \in GtpOffset + 8 .. GtpOffset + StartOf(ies, o0, Len(ies) + 1) + 1
    /\ offset = o0
    /\ done = FALSE
    /\ seen = {}

(***************************************************************************)
(* One pass of the while loop of decode_gtp_packet: the loop test against *)
(* caplen, the two "not enough data" breaks, the IE's processing, the     *)
(* advance, and the break at the end of the message.                      *)
(***************************************************************************)
WalkStep ==
    /\ ~done
    /\ IF offset >= caplen
       THEN done' = TRUE /\ UNCHANGED <<offset, seen>>
       ELSE \E ie \in IeAt(offset) :
              LET hl == HeaderLength(ie.name)
                  body == BodyLength(ie)
              IN  IF offset + hl >= caplen \/ offset + hl + body >= caplen
                  THEN done' = TRUE /\ UNCHANGED <<offset, seen>>
                  ELSE /\ seen' = seen \cup {[name |-> ie.name, at |-> offset,
                                           end |-> offset + hl + body,
                                           chars |-> ImsiChars(ie)]}
                       /\ offset' = offset + hl + body
                       /\ done' = (offset' >= MsgEnd)
    /\ UNCHANGED <<ies, o0, m, caplen>>

Next == WalkStep

\* The walk runs inside one pcap callback on one thread.
Spec == Init /\ [][Next]_vars /\ WF_vars(WalkStep)

-----------------------------------------------------------------------------
\* The IEs the message holds, with their offsets.
MessageIes ==
    {[name |-> ies[i].name, at |-> Start(i), end |-> Start(i + 1),
      chars |-> ImsiChars(ies[i])] : i \in 1 .. m}

(* Every IMSI IE the walk decodes fits, with the NUL imsi2str ends it
   with, in the 16 octets of imsistr: one character per digit, and none
   for the filler nibble. *)
ImsiFitsBuffer == \A s \in seen : s.chars < ImsiBufLen

(* The IE walk of decode_gtp_packet always leaves its loop: every pass
   advances the offset or breaks, for every IE the table knows. *)
WalkTerminates == <>done

(* When the whole message is captured and holds at least one IE, the walk
   processes exactly the message's IEs at their offsets: the table's
   header and body lengths and the TLV length field keep it in step with
   the layout, and the end-of-message test stops it at the last IE. *)
WalkFollowsMessage ==
    done /\ m >= 1 /\ caplen >= GtpOffset + MsgEnd => seen = MessageIes

=============================================================================

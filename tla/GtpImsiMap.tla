----------------------------- MODULE GtpImsiMap -----------------------------
(***************************************************************************)
(* The TEID-to-IMSI correlation of gtpimsieua (src/src/filterprograms/     *)
(* gtpimsieua.c). For every captured Create PDP Context Request the tool   *)
(* stores the request's control-plane TEID and IMSI in the first slot of   *)
(* imsi_map that is free (0) or older than IMSI_TIMEOUT; for every         *)
(* captured Create PDP Context Response carrying an end user address it    *)
(* prints the IMSI of the first slot holding the response's header TEID    *)
(* and frees that slot.                                                    *)
(*                                                                         *)
(* Beside the tool's map the model keeps the network's truth: which        *)
(* subscriber holds each TEID of the SGSN, and the phase of its context.   *)
(* A message may be lost by the capture, a request retransmitted, and a    *)
(* request rejected (its response then has no end user address), each     *)
(* within a named bound. An IMSI is a subscriber; the length of the        *)
(* string imsi2str writes is the concern of GtpIe.                         *)
(***************************************************************************)
EXTENDS Integers, Sequences, FiniteSets

CONSTANTS
    Subscribers,  \* the subscribers (model values)
    Teids,        \* the SGSN's control-plane TEIDs, all non-zero
    MapSize,      \* IMSI_MAP_SIZE
    Timeout,      \* IMSI_TIMEOUT, in ticks of time()
    MaxTime,      \* last value of time() enumerated
    MaxLoss,      \* messages the capture may lose
    MaxRetrans,   \* request retransmissions
    Rejects       \* whether the GGSN may reject a request

ASSUME 0 \notin Teids

NoImsi == "none"          \* imsistr left "": no IMSI IE before the TEID-C IE
Slots == 1 .. MapSize

VARIABLES
    imsi_map,    \* [Slots -> TEID or 0]
    imsi_time,   \* [Slots -> time() of the store]
    imsi_array,  \* [Slots -> the stored IMSI, or NoImsi]
    now,         \* time()
    phase,       \* [Teids -> "free" | "requested" | "active"]: the network
    holder,      \* [Teids -> the subscriber of the context, or NoImsi]
    carries,     \* [Teids -> the IMSI the pending request carries, or NoImsi]
    printed,     \* the last response line printed: [teid, imsi, truth]
    losses,      \* messages lost so far
    retrans      \* retransmissions so far

vars == <<imsi_map, imsi_time, imsi_array, now, phase, holder, carries,
          printed, losses, retrans>>
net == <<phase, holder, carries>>

Init ==
    /\ imsi_map = [i \in Slots |-> 0]
    /\ imsi_time = [i \in Slots |-> 0]
    /\ imsi_array = [i \in Slots |-> NoImsi]
    /\ now = 0
    /\ phase = [t \in Teids |-> "free"]
    /\ holder = [t \in Teids |-> NoImsi]
    /\ carries = [t \in Teids |-> NoImsi]
    /\ printed = [teid |-> 0, imsi |-> NoImsi, truth |-> NoImsi]
    /\ losses = 0
    /\ retrans = 0

(***************************************************************************)
(* The tool's processing of one captured message.                          *)
(***************************************************************************)
\* The scan of the TEI_CONTROL_PLANE branch: a slot is usable when it is
\* free or its entry has timed out.
Usable(i) == imsi_map[i] = 0 \/ imsi_time[i] + Timeout < now

\* decode_gtp_packet on a Create PDP Context Request: store (teid, imsi) in
\* the first usable slot; with none the request is silently dropped.
StoreRequest(t, imsi) ==
    LET free == {i \in Slots : Usable(i)}
        i == CHOOSE j \in free : \A k \in free : j <= k
    IN  IF free = {} THEN UNCHANGED <<imsi_map, imsi_time, imsi_array>>
        ELSE /\ imsi_map' = [imsi_map EXCEPT ![i] = t]
             /\ imsi_time' = [imsi_time EXCEPT ![i] = now]
             /\ imsi_array' = [imsi_array EXCEPT ![i] = imsi]

\* decode_gtp_packet on a Create PDP Context Response with an address: print
\* the IMSI of the first slot holding the header TEID, or none, and free
\* that slot (imsi_array and imsi_time are left as they are).
MatchResponse(t) ==
    LET hit == {i \in Slots : imsi_map[i] = t}
        i == CHOOSE j \in hit : \A k \in hit : j <= k
    IN  IF hit = {}
        THEN /\ printed' = [teid |-> t, imsi |-> NoImsi, truth |-> holder[t]]
             /\ UNCHANGED <<imsi_map, imsi_time, imsi_array>>
        ELSE /\ printed' = [teid |-> t, imsi |-> imsi_array[i], truth |-> holder[t]]
             /\ imsi_map' = [imsi_map EXCEPT ![i] = 0]
             /\ UNCHANGED <<imsi_time, imsi_array>>

\* The capture either hands the message to the tool or loses it.
Captured(process, keep) ==
    \/ process /\ UNCHANGED losses
    \/ /\ losses < MaxLoss
       /\ losses' = losses + 1
       /\ keep

\* Outcomes of a request at the GGSN: accepted, or also rejected.
Outcomes == IF Rejects THEN BOOLEAN ELSE {TRUE}

tool == <<imsi_map, imsi_time, imsi_array, printed>>

(***************************************************************************)
(* The network's steps, each with the tool's handling of the message.      *)
(***************************************************************************)
\* The SGSN sends a Create PDP Context Request for subscriber s with its
\* free TEID t; a primary context carries the IMSI IE, a secondary one not.
SendRequest(s, t, withImsi) ==
    LET imsi == IF withImsi THEN s ELSE NoImsi
    IN  /\ phase[t] = "free"
        /\ phase' = [phase EXCEPT ![t] = "requested"]
        /\ holder' = [holder EXCEPT ![t] = s]
        /\ carries' = [carries EXCEPT ![t] = imsi]
        /\ Captured(StoreRequest(t, imsi) /\ UNCHANGED printed, UNCHANGED tool)
        /\ UNCHANGED <<now, retrans>>

\* The SGSN sends the same request again: no answer came in time.
Retransmit(t) ==
    /\ phase[t] = "requested"
    /\ retrans < MaxRetrans
    /\ retrans' = retrans + 1
    /\ Captured(StoreRequest(t, carries[t]) /\ UNCHANGED printed, UNCHANGED tool)
    /\ UNCHANGED <<now, phase, holder, carries>>

\* The GGSN answers. An accepted request's response carries the end user
\* address; a rejected one's carries none, so the tool prints nothing and
\* leaves its map alone, and the TEID is free again.
Respond(t, accepted) ==
    /\ phase[t] = "requested"
    /\ phase' = [phase EXCEPT ![t] = IF accepted THEN "active" ELSE "free"]
    /\ holder' = IF accepted THEN holder ELSE [holder EXCEPT ![t] = NoImsi]
    /\ carries' = [carries EXCEPT ![t] = NoImsi]
    /\ IF accepted THEN Captured(MatchResponse(t), UNCHANGED tool)
       ELSE UNCHANGED <<tool, losses>>
    /\ UNCHANGED <<now, retrans>>

\* The context is deleted and the SGSN may reuse its TEID. The tool returns
\* at once on every message type but the two Create PDP Context ones.
Delete(t) ==
    /\ phase[t] = "active"
    /\ phase' = [phase EXCEPT ![t] = "free"]
    /\ holder' = [holder EXCEPT ![t] = NoImsi]
    /\ UNCHANGED <<carries, tool, now, losses, retrans>>

\* time() advances.
Tick ==
    /\ now < MaxTime
    /\ now' = now + 1
    /\ UNCHANGED <<tool, net, losses, retrans>>

Next ==
    \/ \E s \in Subscribers, t \in Teids, w \in BOOLEAN : SendRequest(s, t, w)
    \/ \E t \in Teids : Retransmit(t)
    \/ \E t \in Teids, a \in Outcomes : Respond(t, a)
    \/ \E t \in Teids : Delete(t)
    \/ Tick

Spec == Init /\ [][Next]_vars

-----------------------------------------------------------------------------
(* The IMSI gtpimsieua prints for a Create PDP Context Response is the
   IMSI of the subscriber whose context the response answers, or none:
   the map entry a response matches was stored by the request of the same
   context, never left over from an earlier context on a reused TEID. *)
NoWrongImsi == printed.imsi \in {printed.truth, NoImsi}

====

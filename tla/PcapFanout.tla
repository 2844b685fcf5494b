----------------------------- MODULE PcapFanout -----------------------------
(***************************************************************************)
(* The packet path of the distributer (src/src/pcapsession/                *)
(* pcapsession_clientconn.c, pcapsession.c, include/monitor.h): the        *)
(* capture thread's packet handler walking clientconnlist and dumping      *)
(* every packet to each registered client under the client's pcap_mutex;   *)
(* each client session's run thread opening its monitor and dumper and     *)
(* registering in clientconnlist; the supervision thread terminating a     *)
(* client whose socket is no longer open, stopping it, flushing the dumper *)
(* of an idle running client under pcap_mutex and handling its monitor;    *)
(* the server thread accepting connections into free slots; and the        *)
(* environment: a client hanging up, and the capture session being         *)
(* cancelled by its own supervision (its stop and restart are those of     *)
(* PcapSession).                                                           *)
(*                                                                         *)
(* A slot is a client session's index in session_list and clientconnlist. *)
(* A monitor is abstracted to whether its byte count is non-zero, the only *)
(* thing the supervision reads from it.                                    *)
(***************************************************************************)
EXTENDS Integers, FiniteSets

CONSTANTS
    N,                \* client slots of session_list considered
    MaxAccepts,       \* connections the server thread accepts
    MaxHangups,       \* clients that hang up
    MaxCaptureStops   \* cancellations of the capture thread

Slots == 1 .. N

\* pcapsession_state_t values a client session takes.
States == {"UNUSED", "START", "STARTING", "RUNNING", "TERMINATE",
           "TERMINATING"}

VARIABLES
    state,           \* [Slots -> States]
    run,             \* [Slots -> pc of pcapsession_clientconn_run]
    fd,              \* [Slots -> "none" (0) | "open" | "hup" (POLLHUP)]
    pcap_dumper,     \* [Slots -> "null" | "open"]
    monitor,         \* [Slots -> "null" | "open"]
    bytes,           \* [Slots -> monitor->bytes # 0]
    clientconnlist,  \* [Slots -> BOOLEAN]: the entry is non-NULL
    pcap_mutex,      \* [Slots -> "free" | "capture" | "supervision"]
    cap,             \* capture thread: [pc, i]
    sup,             \* supervision thread: [pc, i]
    crashed,         \* the process died on a NULL or freed dumper
    leaked,          \* client sockets stopped but never closed
    accepts, hangups, capstops

vars == <<state, run, fd, pcap_dumper, monitor, bytes, clientconnlist,
          pcap_mutex, cap, sup, crashed, leaked, accepts, hangups, capstops>>
env == <<accepts, hangups, capstops>>

RunPcs == {"none", "start", "open", "register", "done"}

TypeOK ==
    /\ state \in [Slots -> States]
    /\ run \in [Slots -> RunPcs]
    /\ fd \in [Slots -> {"none", "open", "hup"}]
    /\ pcap_dumper \in [Slots -> {"null", "open"}]
    /\ monitor \in [Slots -> {"null", "open"}]
    /\ bytes \in [Slots -> BOOLEAN]
    /\ clientconnlist \in [Slots -> BOOLEAN]
    /\ pcap_mutex \in [Slots -> {"free", "capture", "supervision"}]
    /\ cap \in [pc : {"idle", "scan", "check", "lock", "dump", "unlock",
                      "clear"}, i : Slots]
    /\ sup \in [pc : {"session", "transition", "stop", "carry", "flush"},
               i : Slots]
    /\ crashed \in BOOLEAN
    /\ leaked \in 0 .. MaxAccepts

Init ==
    /\ state = [i \in Slots |-> "UNUSED"]
    /\ run = [i \in Slots |-> "none"]
    /\ fd = [i \in Slots |-> "none"]
    /\ pcap_dumper = [i \in Slots |-> "null"]
    /\ monitor = [i \in Slots |-> "null"]
    /\ bytes = [i \in Slots |-> FALSE]
    /\ clientconnlist = [i \in Slots |-> FALSE]
    /\ pcap_mutex = [i \in Slots |-> "free"]
    /\ cap = [pc |-> "idle", i |-> 1]
    /\ sup = [pc |-> "session", i |-> 1]
    /\ crashed = FALSE
    /\ leaked = 0
    /\ accepts = 0 /\ hangups = 0 /\ capstops = 0

(***************************************************************************)
(* The capture thread: pcapsession_clientconn_packet_handler, called by    *)
(* pcap_loop for every packet, and client_handle_packet for each slot.     *)
(***************************************************************************)
\* The handler's loop moves to the next slot, or returns to pcap_loop.
NextSlot(i) == IF i < N THEN [pc |-> "scan", i |-> i + 1]
                        ELSE [pc |-> "idle", i |-> 1]

capOnly == <<state, run, fd, monitor, sup, leaked, env>>

\* pcap_loop delivers a packet; the handler starts at the first slot.
Packet ==
    /\ ~crashed /\ cap.pc = "idle"
    /\ cap' = [pc |-> "scan", i |-> 1]
    /\ UNCHANGED <<capOnly, pcap_dumper, bytes, clientconnlist, pcap_mutex,
                   crashed>>

\* The loop reads clientconnlist[i] and calls client_handle_packet if set.
Scan ==
    /\ ~crashed /\ cap.pc = "scan"
    /\ cap' = IF clientconnlist[cap.i] THEN [cap EXCEPT !.pc = "check"]
              ELSE NextSlot(cap.i)
    /\ UNCHANGED <<capOnly, pcap_dumper, bytes, clientconnlist, pcap_mutex,
                   crashed>>

\* client_handle_packet returns unless the client is RUNNING; with its
\* socket open it goes on to dump, otherwise it clears the list entry.
Check ==
    /\ ~crashed /\ cap.pc = "check"
    /\ cap' = CASE state[cap.i] # "RUNNING" -> NextSlot(cap.i)
                [] fd[cap.i] = "open"       -> [cap EXCEPT !.pc = "lock"]
                [] OTHER                    -> [cap EXCEPT !.pc = "clear"]
    /\ UNCHANGED <<capOnly, pcap_dumper, bytes, clientconnlist, pcap_mutex,
                   crashed>>

\* clientconnlist[client->id] = NULL, with the id read before.
Clear ==
    /\ ~crashed /\ cap.pc = "clear"
    /\ clientconnlist' = [clientconnlist EXCEPT ![cap.i] = FALSE]
    /\ cap' = NextSlot(cap.i)
    /\ UNCHANGED <<capOnly, pcap_dumper, bytes, pcap_mutex, crashed>>

\* pthread_mutex_lock(&client->pcap_mutex).
Lock ==
    /\ ~crashed /\ cap.pc = "lock"
    /\ pcap_mutex[cap.i] = "free"
    /\ pcap_mutex' = [pcap_mutex EXCEPT ![cap.i] = "capture"]
    /\ cap' = [cap EXCEPT !.pc = "dump"]
    /\ UNCHANGED <<capOnly, pcap_dumper, bytes, clientconnlist, crashed>>

\* monitor.h on the abstract monitor (is it allocated, are its bytes 0).
\* monitor_open callocs a monitor, so its counters start at 0.
MonitorOpen(i) ==
    /\ monitor' = [monitor EXCEPT ![i] = "open"]
    /\ bytes' = [bytes EXCEPT ![i] = FALSE]

\* monitor_close frees it; the session's pointer is then set to NULL.
MonitorClose(i) ==
    /\ monitor' = [monitor EXCEPT ![i] = "null"]
    /\ bytes' = [bytes EXCEPT ![i] = FALSE]

\* monitor_increment adds a packet's bytes; a NULL monitor is left alone.
MonitorIncrement(i) ==
    bytes' = IF monitor[i] = "open" THEN [bytes EXCEPT ![i] = TRUE] ELSE bytes

\* pcap_dump(client->pcap_dumper, ...): the dumper is read now; a NULL or
\* closed one ends the process.
Dump ==
    /\ ~crashed /\ cap.pc = "dump"
    /\ crashed' = (pcap_dumper[cap.i] # "open")
    /\ cap' = [cap EXCEPT !.pc = "unlock"]
    /\ UNCHANGED <<capOnly, pcap_dumper, bytes, clientconnlist, pcap_mutex>>

\* pthread_mutex_unlock, then monitor_increment(client->monitor, ...),
\* which does nothing on a NULL monitor.
Unlock ==
    /\ ~crashed /\ cap.pc = "unlock"
    /\ pcap_mutex' = [pcap_mutex EXCEPT ![cap.i] = "free"]
    /\ MonitorIncrement(cap.i)
    /\ cap' = NextSlot(cap.i)
    /\ UNCHANGED <<capOnly, pcap_dumper, clientconnlist, crashed>>

(***************************************************************************)
(* A client session's thread, pcapsession_clientconn_run.                  *)
(***************************************************************************)
runOnly == <<fd, cap, sup, pcap_mutex, crashed, leaked, env>>

\* The thread sets the session RUNNING and opens its monitor.
RunStart(i) ==
    /\ ~crashed /\ run[i] = "start"
    /\ state' = [state EXCEPT ![i] = "RUNNING"]
    /\ MonitorOpen(i)
    /\ run' = [run EXCEPT ![i] = "open"]
    /\ UNCHANGED <<runOnly, pcap_dumper, clientconnlist>>

\* fdopen and pcap_dump_fopen on the socket, which may fail.
RunOpen(i) ==
    /\ ~crashed /\ run[i] = "open"
    /\ \E d \in {"null", "open"} : pcap_dumper' = [pcap_dumper EXCEPT ![i] = d]
    /\ run' = [run EXCEPT ![i] = "register"]
    /\ UNCHANGED <<runOnly, state, monitor, bytes, clientconnlist>>

\* On a failed open the session is set to TERMINATE; otherwise it is put
\* into clientconnlist. The thread then returns.
RunRegister(i) ==
    /\ ~crashed /\ run[i] = "register"
    /\ IF pcap_dumper[i] = "null"
       THEN /\ state' = [state EXCEPT ![i] = "TERMINATE"]
            /\ UNCHANGED clientconnlist
       ELSE /\ clientconnlist' = [clientconnlist EXCEPT ![i] = TRUE]
            /\ UNCHANGED state
    /\ run' = [run EXCEPT ![i] = "done"]
    /\ UNCHANGED <<runOnly, pcap_dumper, monitor, bytes>>

(***************************************************************************)
(* The supervision thread, pcapsession_supervision_run: one step per slot  *)
(* of its sweep; after the last slot it sleeps and starts again.           *)
(***************************************************************************)
NextSweepSlot == [pc |-> "session", i |-> IF sup.i < N THEN sup.i + 1 ELSE 1]

\* handle_monitor: when the output interval has passed it prints and zeroes
\* the counters.
HandleMonitor(i) ==
    \E due \in BOOLEAN :
        bytes' = IF due /\ monitor[i] = "open"
                 THEN [bytes EXCEPT ![i] = FALSE] ELSE bytes

supOnly == <<cap, pcap_mutex, crashed, env>>

\* An unused slot is skipped.
SupSkip ==
    /\ ~crashed /\ sup.pc = "session"
    /\ state[sup.i] = "UNUSED"
    /\ sup' = NextSweepSlot
    /\ UNCHANGED <<supOnly, state, run, fd, pcap_dumper, monitor, bytes,
                   clientconnlist, leaked>>

\* A supervised socket that poll reports closed (POLLHUP) sets the session
\* to TERMINATE; pcapsession_transition_session is called next.
SupCheck ==
    /\ ~crashed /\ sup.pc = "session"
    /\ state[sup.i] # "UNUSED"
    /\ state' = IF fd[sup.i] = "hup"
                THEN [state EXCEPT ![sup.i] = "TERMINATE"] ELSE state
    /\ sup' = [sup EXCEPT !.pc = "transition"]
    /\ UNCHANGED <<supOnly, run, fd, pcap_dumper, monitor, bytes,
                   clientconnlist, leaked>>

\* The transition reads the state again (the run thread may have changed
\* it since): TERMINATE becomes TERMINATING and pcapsession_stop follows.
SupTerminate ==
    /\ ~crashed /\ sup.pc = "transition"
    /\ state[sup.i] = "TERMINATE"
    /\ state' = [state EXCEPT ![sup.i] = "TERMINATING"]
    /\ sup' = [sup EXCEPT !.pc = "stop"]
    /\ UNCHANGED <<supOnly, run, fd, pcap_dumper, monitor, bytes,
                   clientconnlist, leaked>>

\* pcapsession_stop cancels and joins the run thread, then
\* pcapsession_clientconn_stop clears the list entry, closes the dumper and
\* the socket only where poll reports the socket open, clears the fields
\* and sets STOPPED, and the session becomes UNUSED. The join changes
\* nothing another thread reads, and the capture thread, the only one
\* that reads these fields, reads the list entry and the dumper in the
\* order they are cleared, so the stop is one step.
SupStop ==
    LET i == sup.i
        open == fd[i] = "open"
    IN
    /\ ~crashed /\ sup.pc = "stop"
    /\ run' = [run EXCEPT ![i] = "none"]
    /\ clientconnlist' = [clientconnlist EXCEPT ![i] = FALSE]
    /\ pcap_dumper' = [pcap_dumper EXCEPT ![i] = "null"]
    /\ leaked' = IF open \/ fd[i] = "none" THEN leaked ELSE leaked + 1
    /\ fd' = [fd EXCEPT ![i] = "none"]
    /\ MonitorClose(i)
    /\ state' = [state EXCEPT ![i] = "UNUSED"]
    /\ sup' = [sup EXCEPT !.pc = "carry"]
    /\ UNCHANGED supOnly

\* START: the session becomes STARTING and its run thread is created.
SupStart ==
    LET i == sup.i IN
    /\ ~crashed /\ sup.pc = "transition"
    /\ state[i] = "START"
    /\ state' = [state EXCEPT ![i] = "STARTING"]
    /\ run' = [run EXCEPT ![i] = "start"]
    /\ sup' = [sup EXCEPT !.pc = "carry"]
    /\ UNCHANGED <<supOnly, fd, pcap_dumper, monitor, bytes, clientconnlist,
                   leaked>>

\* STARTING: waits, or after PCAP_SESSION_SUPERVISION_TRANSITION_INTERVALS
\* sweeps times out to TERMINATE.
SupStarting ==
    LET i == sup.i IN
    /\ ~crashed /\ sup.pc = "transition"
    /\ state[i] = "STARTING"
    /\ \E s \in {"STARTING", "TERMINATE"} : state' = [state EXCEPT ![i] = s]
    /\ sup' = [sup EXCEPT !.pc = "carry"]
    /\ UNCHANGED <<supOnly, run, fd, pcap_dumper, monitor, bytes,
                   clientconnlist, leaked>>

\* RUNNING: nothing to do.
SupRunning ==
    /\ ~crashed /\ sup.pc = "transition"
    /\ state[sup.i] = "RUNNING"
    /\ sup' = [sup EXCEPT !.pc = "carry"]
    /\ UNCHANGED <<supOnly, state, run, fd, pcap_dumper, monitor, bytes,
                   clientconnlist, leaked>>

\* Only a session now RUNNING carries on: an idle output (monitor set,
\* dumper set, monitor->bytes 0) is flushed under pcap_mutex; otherwise the
\* monitor is handled at once.
SupCarry ==
    LET i == sup.i IN
    /\ ~crashed /\ sup.pc = "carry"
    /\ IF state[i] = "RUNNING" /\ monitor[i] = "open"
          /\ pcap_dumper[i] = "open" /\ ~bytes[i]
       THEN /\ sup' = [sup EXCEPT !.pc = "flush"]
            /\ UNCHANGED bytes
       ELSE /\ IF state[i] = "RUNNING" THEN HandleMonitor(i)
                                      ELSE UNCHANGED bytes
            /\ sup' = NextSweepSlot
    /\ UNCHANGED <<supOnly, state, run, fd, pcap_dumper, monitor,
                   clientconnlist, leaked>>

\* pthread_mutex_lock, pcap_dump_flush, pthread_mutex_unlock; then the
\* monitor is handled.
SupFlush ==
    /\ ~crashed /\ sup.pc = "flush"
    /\ pcap_mutex[sup.i] = "free"
    /\ HandleMonitor(sup.i)
    /\ sup' = NextSweepSlot
    /\ UNCHANGED <<supOnly, state, run, fd, pcap_dumper, monitor,
                   clientconnlist, leaked>>

(***************************************************************************)
(* The server thread and the environment.                                  *)
(***************************************************************************)
\* poll_server_socket accepts a connection and calls
\* pcapsession_clientconn_open: pcapsession_handling_get_new takes the
\* first UNUSED slot, clears it and re-initialises its pcap_mutex, and the
\* session is added as START with the socket. With no slot free it returns
\* 0 and the socket is closed.
Accept ==
    LET free == {i \in Slots : state[i] = "UNUSED"}
        i == CHOOSE j \in free : \A k \in free : j <= k
    IN
    /\ ~crashed /\ accepts < MaxAccepts
    /\ accepts' = accepts + 1
    /\ IF free = {}
       THEN UNCHANGED <<state, fd, pcap_dumper, monitor, bytes, pcap_mutex>>
       ELSE /\ state' = [state EXCEPT ![i] = "START"]
            /\ fd' = [fd EXCEPT ![i] = "open"]
            /\ pcap_dumper' = [pcap_dumper EXCEPT ![i] = "null"]
            /\ monitor' = [monitor EXCEPT ![i] = "null"]
            /\ bytes' = [bytes EXCEPT ![i] = FALSE]
            /\ pcap_mutex' = [pcap_mutex EXCEPT ![i] = "free"]
    /\ UNCHANGED <<run, clientconnlist, cap, sup, crashed, leaked, hangups,
                   capstops>>

\* The client closes its end: poll on the socket now reports POLLHUP.
Hangup(i) ==
    /\ ~crashed /\ hangups < MaxHangups
    /\ fd[i] = "open"
    /\ fd' = [fd EXCEPT ![i] = "hup"]
    /\ hangups' = hangups + 1
    /\ UNCHANGED <<state, run, pcap_dumper, monitor, bytes, clientconnlist,
                   pcap_mutex, cap, sup, crashed, leaked, accepts, capstops>>

\* Where the capture thread may be cancelled: in pcap_loop's read, and in
\* pcap_dump, whose fwrite reaches write(), a cancellation point of glibc.
CancelPoints == {"idle", "dump"}

\* The supervision stops the capture session (its descriptor failed):
\* pthread_cancel ends the capture thread at a cancellation point, leaving
\* any pcap_mutex it holds locked, and a new capture thread starts when the
\* session is restarted.
CaptureCancel ==
    /\ ~crashed /\ capstops < MaxCaptureStops
    /\ cap.pc \in CancelPoints
    /\ capstops' = capstops + 1
    /\ cap' = [pc |-> "idle", i |-> 1]
    /\ UNCHANGED <<state, run, fd, pcap_dumper, monitor, bytes,
                   clientconnlist, pcap_mutex, sup, crashed, leaked, accepts,
                   hangups>>

Capture == Packet \/ Scan \/ Check \/ Clear \/ Lock \/ Dump \/ Unlock
Supervision == SupSkip \/ SupCheck \/ SupTerminate \/ SupStop \/ SupStart
                \/ SupStarting \/ SupRunning \/ SupCarry \/ SupFlush
Runner(i) == RunStart(i) \/ RunOpen(i) \/ RunRegister(i)

Next ==
    \/ Capture
    \/ Supervision
    \/ \E i \in Slots : Runner(i)
    \/ Accept
    \/ \E i \in Slots : Hangup(i)
    \/ CaptureCancel

\* Every thread is scheduled while it can run; a new packet, a connection,
\* a hang-up and a cancellation need not come. The supervision waiting in
\* pthread_mutex_lock is woken at every unlock of the capture thread, which
\* then walks the other slots and waits for its next packet before it locks
\* again: a lock that is free again and again is taken (strong fairness).
Fairness ==
    /\ WF_vars(Scan \/ Check \/ Clear \/ Lock \/ Dump \/ Unlock)
    /\ WF_vars(Supervision)
    /\ SF_vars(SupFlush)
    /\ \A i \in Slots : WF_vars(Runner(i))

Spec == Init /\ [][Next]_vars /\ Fairness

-----------------------------------------------------------------------------
(* client_handle_packet only ever dumps to an open dumper: the session it
   found RUNNING with its socket open is not stopped, and its dumper set
   to NULL by pcapsession_clientconn_stop, before pcap_dump reads it. *)
DumpsOnlyToOpenDumper == ~crashed

(* Every client socket the server accepted and the supervision stopped is
   closed by pcapsession_clientconn_stop. *)
SocketsClosed == leaked = 0

====

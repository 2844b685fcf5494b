----------------------------- MODULE PcapSession -----------------------------
(***************************************************************************)
(* The PCAP session registry and its supervisor (src/pcapsession/         *)
(* pcapsession.c) together with the run/stop pair of each of the six      *)
(* session roles (pcapsession_server.c, _clientconn.c, _client.c,         *)
(* _merger.c, _livecapture.c, _filecapture.c).                            *)
(*                                                                         *)
(* Actors: the main thread of the program (it reads its configuration,   *)
(* see PcapConfig, starts session handling, opens the sessions the        *)
(* configuration calls for and joins the supervisor), the supervisor      *)
(* thread (one step as it starts, one per slot of its sweep, one for the  *)
(* join inside pcapsession_stop, one at the end of the sweep), one run    *)
(* thread per slot, and the environment (peer hang-ups, failed system     *)
(* calls, incoming connections, the shutdown signal).                     *)
(*                                                                         *)
(* Data are abstracted: a descriptor is "none" (fd 0, or a standard fd),   *)
(* "open", "hup" (peer hung up, poll reports POLLHUP/POLLERR) or "stale"   *)
(* (the number was closed but is still stored in the session; poll on it  *)
(* reports POLLNVAL, or nothing if another open has reused the number).   *)
(* The packet path, monitors and dumpers are in PcapFanout.               *)
(***************************************************************************)
EXTENDS Integers, Sequences, FiniteSets, PcapConfig

CONSTANTS
    MaxSessions,          \* PCAP_SESSION_MAX_SESSIONS
    TransitionIntervals,  \* PCAP_SESSION_SUPERVISION_TRANSITION_INTERVALS
    Program,              \* "pcapdistributer" or "pcapmerger"
    ConfigFiles,          \* the configuration files main() may be given
    EarlySignal,          \* a signal may come before the supervisor runs
    PcapFiles,            \* number of *.pcap files in the capture directory
    MaxAccepts,           \* bound: connections the listener accepts
    MaxFaults             \* bound: failed system calls and peer hang-ups

Slots == 0 .. MaxSessions - 1
NoSlot == -1

\* PCAP_SESSION_* states of pcapsession.h
UNUSED == "UNUSED"
STOPPED == "STOPPED"
START == "START"
STARTING == "STARTING"
RUNNING == "RUNNING"
TERMINATE == "TERMINATE"
ABORT == "ABORT"
TERMINATING == "TERMINATING"
ABORTING == "ABORTING"
States == {UNUSED, STOPPED, START, STARTING, RUNNING, TERMINATE, ABORT,
           TERMINATING, ABORTING}

\* The runner/stopper pair chosen by the *_open function
Roles == {"server", "clientconn", "client", "merger", "live", "file"}

\* Where a run thread is: "none" = no thread, "start" = created, "accept" =
\* blocked in accept(), "cb_claim" = inside the accept callback after the
\* slot scan of pcapsession_handling_get_new, "connect" = in connect(),
\* "loop" = in pcap_loop(), "returned" = run function returned, not joined,
\* "poll" = head of the listener's accept loop, "pass" = head of the file
\* capture's do-while over the directory; inside
\* pcapsession_merger_packet_handler, "lock" = waiting for merge_mutex,
\* "locked" = holding it and waiting for the merger's pcap_mutex, "dump" =
\* inside pcap_dump holding both.
ThreadPcs == {"none", "start", "poll", "accept", "cb_claim", "connect",
              "pass", "loop", "lock", "locked", "dump", "returned"}
FdValues == {"none", "open", "hup", "stale"}

ASSUME Program \in {"pcapdistributer", "pcapmerger"} /\ EarlySignal \in BOOLEAN
ASSUME TransitionIntervals \in Nat /\ MaxSessions \in Nat \ {0}
ASSUME PcapFiles \in Nat

VARIABLES
    handling,    \* session_handling_state
    ordered,     \* shutdown_ordered of the signal handler
    state,       \* session_list[i].state
    counter,     \* session_list[i].interval_counter
    role,        \* session_list[i].runner / stopper
    thread,      \* the OS thread running session_list[i].runner
    orphans,     \* run threads whose pthread_t a memset of get_new erased
    fd,          \* session_list[i].fd
    supervised,  \* session_list[i].supervise_fd == PCAP_SESSION_SUPERVISED_FD
    handle,      \* session_list[i].pcap_handle != NULL
    iterations,  \* session_list[i].iterations
    file,        \* index of the file the file capture thread is streaming
    cbSlot,      \* slot found by get_new inside the listener's accept callback
    sup,         \* supervisor: pc, slot index of the sweep, sessioncount
    main,        \* main thread: pc, its configuration file, the opens it
                 \* performs (prog, arg), the index of the next, the slot
                 \* found by get_new
    faults, accepts,
    proc,        \* "running", "exited" or "crashed"
    address,     \* session_list[i].address of an outbound connection
    locks        \* the slot whose thread holds merge_mutex / the merger's pcap_mutex

vars == <<handling, ordered, state, counter, role, thread, orphans, fd,
          supervised, handle, iterations, file, cbSlot, sup, main, faults,
          accepts, proc, address, locks>>

-----------------------------------------------------------------------------
(* Helpers *)

\* The linear scan of pcapsession_handling_get_new: first UNUSED slot
FirstUnused ==
    IF \E k \in Slots : state[k] = UNUSED
    THEN CHOOSE k \in Slots : state[k] = UNUSED /\ \A j \in 0 .. k - 1 : state[j] # UNUSED
    ELSE NoSlot

\* iotests_fd_open: poll(POLLERR|POLLHUP) returns 0. A stale number is open
\* again only if a later open() reused it.
IoTestsFdOpen(f) == IF f = "stale" THEN {TRUE, FALSE} ELSE {f = "open"}

\* Outcome of a call that may fail; a failure spends one fault.
Outcomes == IF faults < MaxFaults THEN {TRUE, FALSE} ELSE {TRUE}
Spend(ok) == faults' = IF ok THEN faults ELSE faults + 1

\* The process has neither exited nor crashed
Alive == proc = "running"

\* The thread may be cancelled here (it is at or before a cancellation
\* point): not while it runs the accept callback, waits in
\* pthread_mutex_lock or holds merge_mutex before pcap_dump. Inside
\* pcap_dump it may: fwrite reaches write(), a cancellation point of glibc.
Cancellable(t) == t \notin {"cb_claim", "lock", "locked"}

SetState(s, v) == state' = [state EXCEPT ![s] = v]
SetThread(s, v) == thread' = [thread EXCEPT ![s] = v]

\* pcapsession_handling_get_new from the memset on, and the *_open body
\* that fills the slot and calls pcapsession_handling_add. The memset
\* clears the pthread_t: a run thread of the slot still alive (th is the
\* thread table after the caller's own step) is no longer recorded
\* anywhere and will never be cancelled or joined.
Claim(k, r, f, sv, h, it, a, th) ==
    /\ role' = [role EXCEPT ![k] = r]
    /\ counter' = [counter EXCEPT ![k] = 0]
    /\ thread' = [th EXCEPT ![k] = "none"]
    /\ orphans' = IF thread[k] # "none" THEN orphans + 1 ELSE orphans
    /\ fd' = [fd EXCEPT ![k] = f]
    /\ supervised' = [supervised EXCEPT ![k] = sv]
    /\ handle' = [handle EXCEPT ![k] = h]
    /\ iterations' = [iterations EXCEPT ![k] = it]
    /\ file' = [file EXCEPT ![k] = 0]
    /\ address' = [address EXCEPT ![k] = a]

-----------------------------------------------------------------------------
(* Main thread: main() of pcapdistributer.cpp / pcapmerger.cpp *)

\* The outcomes of the configuration phase of the program for file f
Startup(f) == IF Program = "pcapmerger" THEN MergerStartup(f) ELSE DistributerStartup(f)

\* main() up to pcapsession_handling_init: the signal handlers are
\* registered first, then the configuration is read (Startup). A file it
\* cannot use ends the process with exit(1), or with a crash; otherwise it
\* fixes the sessions main() will open.
MainConfigure ==
    /\ Alive
    /\ main.pc = "config"
    /\ \E o \in Startup(main.cfg) :
        \/ /\ o.code = "run"
           /\ main' = [main EXCEPT !.pc = "init", !.prog = o.prog, !.arg = o.arg]
           /\ UNCHANGED proc
        \/ /\ o.code # "run"
           /\ proc' = IF o.code = "exit" THEN "exited" ELSE "crashed"
           /\ UNCHANGED main
    /\ UNCHANGED <<handling, ordered, state, counter, role, thread, orphans,
                   fd, supervised, handle, iterations, file, cbSlot, sup,
                   faults, accepts, address, locks>>

\* pcapsession_handling_init. From STOPPED: STARTING, the table cleared
\* (every slot UNUSED, as in Init) and the supervisor created; a failed
\* pthread_create returns 0 and main() exits. In any other state, which a
\* signal handled before it leaves TERMINATING, it returns 1 at once:
\* there is no supervisor and supervision_thread is never set.
MainHandlingInit ==
    /\ Alive
    /\ main.pc = "init"
    /\ \/ /\ handling = STOPPED
          /\ handling' = STARTING
          /\ \E ok \in Outcomes :
               /\ Spend(ok)
               /\ \/ /\ ok
                     /\ sup' = [sup EXCEPT !.pc = "start"]
                     /\ main' = [main EXCEPT !.pc = "wait"]
                     /\ UNCHANGED proc
                  \/ /\ ~ok
                     /\ proc' = "exited"
                     /\ UNCHANGED <<sup, main>>
       \/ /\ handling # STOPPED
          /\ main' = [main EXCEPT !.pc = "open"]
          /\ UNCHANGED <<handling, sup, faults, proc>>
    /\ UNCHANGED <<ordered, state, counter, role, thread, orphans, fd,
                   supervised, handle, iterations, file, cbSlot, accepts,
                   address, locks>>

\* The end of pcapsession_handling_init: sleep(1) until the supervisor has
\* moved session_handling_state off STARTING.
MainWait ==
    /\ Alive
    /\ main.pc = "wait"
    /\ handling # STARTING
    /\ main' = [main EXCEPT !.pc = "open"]
    /\ UNCHANGED <<handling, ordered, state, counter, role, thread, orphans,
                   fd, supervised, handle, iterations, file, cbSlot, sup,
                   faults, accepts, proc, address, locks>>

\* main() moves on to the next open, or to pthread_join of the supervisor
NextOpen == [main EXCEPT !.idx = @ + 1, !.slot = NoSlot,
                 !.pc = IF main.idx = Len(main.prog) THEN "join" ELSE "open"]

\* pcapsession_handling_get_new, slot scan. A full table makes the open
\* fail: pcapmerger ignores the result of pcapsession_client_open, every
\* other failed open ends in exit(1).
MainGetNew ==
    /\ Alive
    /\ main.pc = "open"
    /\ \/ /\ FirstUnused # NoSlot
          /\ main' = [main EXCEPT !.pc = "claim", !.slot = FirstUnused]
          /\ UNCHANGED proc
       \/ /\ FirstUnused = NoSlot
          /\ main.prog[main.idx] = "client"
          /\ main' = NextOpen
          /\ UNCHANGED proc
       \/ /\ FirstUnused = NoSlot
          /\ main.prog[main.idx] # "client"
          /\ proc' = "exited"
          /\ UNCHANGED main
    /\ UNCHANGED <<handling, ordered, state, counter, role, thread, orphans,
                   fd, supervised, handle, iterations, file, cbSlot, sup,
                   faults, accepts, address, locks>>

\* The body of each *_open function after pcapsession_handling_get_new.
\* pcapsession_server_open: open_server_socket; the socket is not supervised.
OpenServer(k, ok) == Claim(k, "server", IF ok THEN "open" ELSE "none", FALSE, FALSE, 0, <<>>, thread)
\* pcapsession_livecapture_open: pcap_open_live, its descriptor supervised.
OpenLive(k, ok) == Claim(k, "live", IF ok THEN "open" ELSE "none", ok, ok, 0, <<>>, thread)
\* pcapsession_filecapture_open: the iterations, nothing opened yet.
OpenFileCapture(k) == Claim(k, "file", "none", FALSE, FALSE, main.arg[main.idx], <<>>, thread)
\* pcapsession_client_open: the merger as handler, fd 0 supervised.
OpenClient(k) == Claim(k, "client", "none", TRUE, FALSE, 0, main.arg[main.idx], thread)
\* pcapsession_merger_open: fd 0 supervised, the dumper opened by the run.
OpenMerger(k) == Claim(k, "merger", "none", TRUE, FALSE, 0, <<>>, thread)

\* The rest of the *_open function: memset of the slot, its fields, the
\* socket of pcapsession_server_open or pcap_open_live of
\* pcapsession_livecapture_open, and pcapsession_handling_add. A failed
\* socket or pcap_open_live puts the slot back to UNUSED and main() exits.
MainOpen ==
    LET k == main.slot
        r == main.prog[main.idx]
    IN
    /\ Alive
    /\ main.pc = "claim"
    /\ \E ok \in IF r \in {"server", "live"} THEN Outcomes ELSE {TRUE} :
        /\ Spend(ok)
        /\ CASE r = "server" -> OpenServer(k, ok)
             [] r = "live"   -> OpenLive(k, ok)
             [] r = "file"   -> OpenFileCapture(k)
             [] r = "client" -> OpenClient(k)
             [] r = "merger" -> OpenMerger(k)
        /\ SetState(k, IF ok THEN START ELSE UNUSED)
        /\ \/ ok /\ main' = NextOpen /\ UNCHANGED proc
           \/ ~ok /\ proc' = "exited" /\ UNCHANGED main
    /\ UNCHANGED <<handling, ordered, cbSlot, sup, accepts, locks>>

\* pthread_join(supervision_thread) returns, then sighandler(0) and
\* exit(0). Without a supervisor the join is on an uninitialised
\* pthread_t: it fails (exit(1)) or faults.
MainExit ==
    /\ Alive
    /\ main.pc = "join"
    /\ \/ sup.pc = "exited" /\ proc' = "exited"
       \/ sup.pc = "none" /\ proc' \in {"exited", "crashed"}
    /\ UNCHANGED <<handling, ordered, state, counter, role, thread, orphans,
                   fd, supervised, handle, iterations, file, cbSlot, sup,
                   main, faults, accepts, address, locks>>
-----------------------------------------------------------------------------
(* Supervisor thread: pcapsession_supervision_run *)

\* Its first statement: session_handling_state = RUNNING, whatever it is.
SupBegin ==
    /\ Alive
    /\ sup.pc = "start"
    /\ handling' = RUNNING
    /\ sup' = [sup EXCEPT !.pc = "sweep"]
    /\ UNCHANGED <<ordered, state, counter, role, thread, orphans, fd,
                   supervised, handle, iterations, file, cbSlot, main, faults,
                   accepts, proc, address, locks>>

\* The state after the two checks that precede pcapsession_transition_session:
\* a shutdown forces ABORT, then a supervised descriptor that poll reports as
\* not open forces TERMINATE (overwriting an ABORT of the same sweep).
CheckedStates(i) ==
    LET st1 == IF handling # RUNNING /\ state[i] \notin {STOPPED, ABORTING}
               THEN ABORT ELSE state[i]
    IN  IF supervised[i] /\ fd[i] # "none"
        THEN {IF open THEN st1 ELSE TERMINATE : open \in IoTestsFdOpen(fd[i])}
        ELSE {st1}

\* Variant (an off-by-one of the timeout test): the counter may pass the limit
TimedOutLate(i) == counter[i] > TransitionIntervals

\* A transition of slot i has waited its PCAP_SESSION_SUPERVISION_TRANSITION_INTERVALS
TimedOut(i) == counter[i] >= TransitionIntervals

\* pcapsession_start: pthread_create of the session's runner, which may fail
StartThread(i) ==
    \E ok \in Outcomes :
        /\ Spend(ok)
        /\ thread' = IF ok THEN [thread EXCEPT ![i] = "start"] ELSE thread

\* pcapsession_transition_session for slot i, whose state after the checks
\* is st. A stop or a timed-out stop continues in SupJoin.
Transition(i, st) ==
    \/ /\ st \in {STOPPED, RUNNING}
       /\ SetState(i, st)
       /\ sup' = [sup EXCEPT !.i = @ + 1, !.count = @ + 1]
       /\ UNCHANGED <<counter, thread, orphans, faults>>
    \/ /\ st = START   \* STARTING, then pcapsession_start
       /\ SetState(i, STARTING)
       /\ counter' = [counter EXCEPT ![i] = 0]
       /\ StartThread(i)
       /\ sup' = [sup EXCEPT !.i = @ + 1, !.count = @ + 1]
       /\ UNCHANGED orphans
    \/ /\ st \in {STARTING, TERMINATING, ABORTING}
       /\ sup' = [sup EXCEPT !.count = @ + 1,
                     !.i  = IF TimedOut(i) /\ st # STARTING THEN @ ELSE @ + 1,
                     !.pc = IF TimedOut(i) /\ st # STARTING THEN "join" ELSE "sweep"]
       /\ IF ~TimedOut(i)
          THEN SetState(i, st) /\ counter' = [counter EXCEPT ![i] = @ + 1]
          ELSE \* timed out: a start is terminated, a stop forced
               /\ SetState(i, IF st = STARTING THEN TERMINATE ELSE STOPPED)
               /\ UNCHANGED counter
       /\ UNCHANGED <<thread, orphans, faults>>
    \/ /\ st \in {TERMINATE, ABORT}
       /\ SetState(i, IF st = TERMINATE THEN TERMINATING ELSE ABORTING)
       /\ counter' = [counter EXCEPT ![i] = 0]
       /\ sup' = [sup EXCEPT !.pc = "join", !.count = @ + 1]
       /\ UNCHANGED <<thread, orphans, faults>>

\* One iteration of the sweep over session_list in
\* pcapsession_supervision_run: skip an UNUSED slot, otherwise count it,
\* run the two checks and pcapsession_transition_session.
SupSlot ==
    LET i == sup.i IN
    /\ Alive
    /\ sup.pc = "sweep"
    /\ i < MaxSessions
    /\ \/ /\ state[i] = UNUSED
          /\ sup' = [sup EXCEPT !.i = @ + 1]
          /\ UNCHANGED <<state, counter, thread, orphans, faults>>
       \/ /\ state[i] # UNUSED
          /\ \E st \in CheckedStates(i) : Transition(i, st)
    /\ UNCHANGED <<handling, ordered, role, fd, supervised, handle, iterations,
                   file, cbSlot, main, accepts, proc, address, locks>>

\* The state the restarting stoppers leave: STOPPED on abort, else START
AlwaysRestart(s) == START   \* variant: the ABORTING test dropped
RestartUnlessAborted(s) == IF state[s] = ABORTING THEN STOPPED ELSE START

\* pcapsession_filecapture_stop: stopped when aborted or out of iterations
FileStopStateAbortOnly(s) ==   \* variant: the iterations test dropped
    IF state[s] = ABORTING THEN STOPPED ELSE START
FileStopState(s) ==
    IF state[s] = ABORTING \/ iterations[s] = 0 THEN STOPPED ELSE START

\* pcap_close of a live or file capture closes the descriptor pcap opened
\* but leaves its number in fd, which the stopper does not clear.
PcapCloseFd(s) == IF handle[s] /\ fd[s] # "none" THEN "stale" ELSE fd[s]

\* Each stopper as the state and descriptor it leaves behind.
\* pcapsession_server_stop: close_server_socket, fd = 0, restart.
ServerStop(s) == [state |-> RestartUnlessAborted(s), fd |-> "none"]
\* pcapsession_clientconn_stop: dumper and socket closed, never restarted.
ClientConnStop(s) == [state |-> STOPPED, fd |-> "none"]
\* pcapsession_client_stop: pcap_breakloop, pcap_close, close, fd = 0,
\* monitor_close, restart unless aborted.
ClientStop(s) == [state |-> RestartUnlessAborted(s), fd |-> "none"]
\* pcapsession_merger_stop: pcap_dump_close, pcap_dumper = NULL, close,
\* fd = 0, monitor_close, restart unless aborted.
MergerStop(s) == [state |-> RestartUnlessAborted(s), fd |-> "none"]
\* pcapsession_livecapture_stop: pcap_breakloop, pcap_close, restart.
LiveStop(s) == [state |-> RestartUnlessAborted(s), fd |-> PcapCloseFd(s)]
\* pcapsession_filecapture_stop: pcap_breakloop, pcap_close.
FileStop(s) == [state |-> FileStopState(s), fd |-> PcapCloseFd(s)]

\* session_list[i].stopper, called by pcapsession_stop
Stopper(s) ==
    CASE role[s] = "server"     -> ServerStop(s)
      [] role[s] = "clientconn" -> ClientConnStop(s)
      [] role[s] = "client"     -> ClientStop(s)
      [] role[s] = "merger"     -> MergerStop(s)
      [] role[s] = "live"       -> LiveStop(s)
      [] role[s] = "file"       -> FileStop(s)

\* Variant (the thread is not cancelled, only its pthread_t cleared)
DetachThread(i) == thread

\* pthread_cancel and pthread_join: the run thread of slot i is gone
Reap(i) == [thread EXCEPT ![i] = "none"]

\* pcapsession_stop: pthread_cancel and pthread_join of the run thread (the
\* join waits until the thread reaches a cancellation point), the stopper,
\* then UNUSED if the stopper left the session STOPPED.
\* pcapsession_merger_stop closes the dumper without taking pcap_mutex: a
\* connection thread inside pcap_dump on it may then write through freed
\* memory.
SupJoin ==
    LET i == sup.i
        st == Stopper(i).state
    IN
    /\ Alive
    /\ sup.pc = "join"
    /\ Cancellable(thread[i])
    /\ thread' = Reap(i)
    /\ handle' = [handle EXCEPT ![i] = FALSE]
    /\ fd' = [fd EXCEPT ![i] = Stopper(i).fd]
    /\ SetState(i, IF st = STOPPED THEN UNUSED ELSE st)
    /\ sup' = [sup EXCEPT !.pc = "sweep", !.i = @ + 1]
    /\ IF role[i] = "merger" /\ fd[i] = "open"
          /\ locks.pcap # NoSlot /\ thread[locks.pcap] = "dump"
       THEN proc' \in {"running", "crashed"}
       ELSE UNCHANGED proc
    /\ UNCHANGED <<handling, ordered, counter, role, orphans, supervised,
                   iterations, file, cbSlot, main, faults, accepts, address,
                   locks>>

\* End of a sweep: leave the loop when no session is in use and shutdown
\* was ordered, otherwise sleep and sweep again.
SupEndSweep ==
    /\ Alive
    /\ sup.pc = "sweep"
    /\ sup.i = MaxSessions
    /\ IF sup.count = 0 /\ handling # RUNNING
       THEN /\ sup' = [sup EXCEPT !.pc = "exited"]
            /\ handling' = STOPPED
       ELSE /\ sup' = [sup EXCEPT !.i = 0, !.count = 0]
            /\ UNCHANGED handling
    /\ UNCHANGED <<ordered, state, counter, role, thread, orphans, fd,
                   supervised, handle, iterations, file, cbSlot, main, faults,
                   accepts, proc, address, locks>>

-----------------------------------------------------------------------------
(* Run threads: the runner of each role *)

\* Every runner first sets the session RUNNING, then its own work; where
\* that work can fail (ok FALSE) the session is set to TERMINATE.
Started(s, ok) == Spend(ok) /\ SetState(s, IF ok THEN RUNNING ELSE TERMINATE)

\* pcapsession_server_run: on to the accept loop.
RunServer(s) ==
    /\ role[s] = "server"
    /\ Started(s, TRUE) /\ SetThread(s, "poll")
    /\ UNCHANGED <<fd, proc>>

\* pcapsession_clientconn_run: pcap_dump_fopen on the socket, then return.
RunClientconn(s) ==
    /\ role[s] = "clientconn"
    /\ \E ok \in Outcomes : Started(s, ok)
    /\ SetThread(s, "returned")
    /\ UNCHANGED <<fd, proc>>

\* pcapsession_client_run: socket(), then on to connect.
RunClient(s) ==
    /\ role[s] = "client"
    /\ \E ok \in Outcomes :
        /\ Started(s, ok)
        /\ SetThread(s, IF ok THEN "connect" ELSE "returned")
        /\ fd' = IF ok THEN [fd EXCEPT ![s] = "open"] ELSE fd
    /\ UNCHANGED proc

\* pcapsession_merger_run: pcap_dump_open of the output file, whose
\* descriptor becomes the session's fd; then return.
RunMerger(s) ==
    /\ role[s] = "merger"
    /\ \E ok \in Outcomes :
        /\ Started(s, ok)
        /\ fd' = IF ok THEN [fd EXCEPT ![s] = "open"] ELSE fd
    /\ SetThread(s, "returned")
    /\ UNCHANGED proc

\* pcapsession_livecapture_run: pcap_loop on the handle *_open opened; a
\* handle the stopper closed is NULL, and pcap_loop(NULL) crashes.
RunLive(s) ==
    /\ role[s] = "live"
    /\ Started(s, TRUE)
    /\ IF handle[s] THEN SetThread(s, "loop") /\ UNCHANGED proc
                    ELSE proc' = "crashed" /\ UNCHANGED thread
    /\ UNCHANGED fd

\* pcapsession_filecapture_run: on to the first pass over the directory.
RunFile(s) ==
    /\ role[s] = "file"
    /\ Started(s, TRUE) /\ SetThread(s, "pass")
    /\ UNCHANGED <<fd, proc>>

\* The thread pthread_create started in pcapsession_start runs the
\* session's runner.
RunStart(s) ==
    /\ Alive
    /\ thread[s] = "start"
    /\ \/ RunServer(s) \/ RunClientconn(s) \/ RunClient(s)
       \/ RunMerger(s) \/ RunLive(s) \/ RunFile(s)
    /\ UNCHANGED <<handling, ordered, counter, role, orphans, supervised,
                   handle, iterations, file, cbSlot, sup, main, accepts, address, locks>>

\* Head of the accept loop of pcapsession_server_run: leave when no longer
\* RUNNING; poll_server_socket on fd 0 returns -1: TERMINATE and break.
ServerPoll(s) ==
    /\ Alive
    /\ thread[s] = "poll"
    /\ \/ /\ state[s] # RUNNING
          /\ SetThread(s, "returned")
          /\ UNCHANGED state
       \/ /\ state[s] = RUNNING
          /\ fd[s] = "none"
          /\ SetThread(s, "returned")
          /\ SetState(s, TERMINATE)
       \/ /\ state[s] = RUNNING
          /\ fd[s] # "none"
          /\ SetThread(s, "accept")
          /\ UNCHANGED state
    /\ UNCHANGED <<handling, ordered, counter, role, orphans, fd, supervised,
                   handle, iterations, file, cbSlot, sup, main, faults,
                   accepts, proc, address, locks>>

\* accept() returns: an error (-2) terminates the listener; a connection runs
\* pcapsession_clientconn_open as callback, whose get_new scan finds a slot,
\* or finds none: the callback returns 0, the socket is closed, TERMINATE.
ServerAccept(s) ==
    /\ Alive
    /\ thread[s] = "accept"
    /\ \/ /\ faults < MaxFaults
          /\ faults' = faults + 1
          /\ SetState(s, TERMINATE)
          /\ SetThread(s, "returned")
          /\ UNCHANGED <<cbSlot, accepts>>
       \/ /\ accepts < MaxAccepts
          /\ accepts' = accepts + 1
          /\ IF FirstUnused = NoSlot
             THEN SetState(s, TERMINATE) /\ SetThread(s, "poll") /\ UNCHANGED cbSlot
             ELSE /\ cbSlot' = [cbSlot EXCEPT ![s] = FirstUnused]
                  /\ SetThread(s, "cb_claim")
                  /\ UNCHANGED state
          /\ UNCHANGED faults
    /\ UNCHANGED <<handling, ordered, counter, role, orphans, fd, supervised,
                   handle, iterations, file, sup, main, proc, address, locks>>

\* The rest of pcapsession_clientconn_open: memset of the slot found, the
\* accepted socket as supervised fd, pcapsession_handling_add.
ServerClaim(s) ==
    LET k == cbSlot[s] IN
    /\ Alive
    /\ thread[s] = "cb_claim"
    /\ Claim(k, "clientconn", "open", TRUE, FALSE, 0, <<>>, [thread EXCEPT ![s] = "poll"])
    /\ SetState(k, START)
    /\ cbSlot' = [cbSlot EXCEPT ![s] = NoSlot]
    /\ UNCHANGED <<handling, ordered, sup, main, faults, accepts, proc, locks>>

\* connect() and pcap_fopen_offline in pcapsession_client_run; either
\* failing sets TERMINATE and returns with the socket left open, in the
\* closed TCP state that poll reports as POLLHUP.
ClientConnect(s) ==
    /\ Alive
    /\ thread[s] = "connect"
    /\ \E ok \in Outcomes :
        /\ Spend(ok)
        /\ SetThread(s, IF ok THEN "loop" ELSE "returned")
        /\ handle' = [handle EXCEPT ![s] = ok]
        /\ state' = IF ok THEN state ELSE [state EXCEPT ![s] = TERMINATE]
        /\ fd' = IF ok THEN fd ELSE [fd EXCEPT ![s] = "hup"]
    /\ UNCHANGED <<handling, ordered, counter, role, orphans, supervised,
                   iterations, file, cbSlot, sup, main, accepts, proc, address, locks>>

\* pcap_loop returns when the peer or the interface goes away: an outbound
\* connection sets TERMINATE; a live capture also pcap_closes its handle.
CaptureEnds(s) ==
    /\ Alive
    /\ thread[s] = "loop"
    /\ role[s] \in {"client", "live"}
    /\ fd[s] = "hup"
    /\ SetThread(s, "returned")
    /\ SetState(s, TERMINATE)
    /\ IF role[s] = "live"
       THEN /\ handle' = [handle EXCEPT ![s] = FALSE]
            /\ fd' = [fd EXCEPT ![s] = "stale"]
       ELSE UNCHANGED <<handle, fd>>
    /\ UNCHANGED <<handling, ordered, counter, role, orphans, supervised,
                   iterations, file, cbSlot, sup, main, faults, accepts, proc, address, locks>>

\* A packet read by pcap_loop of an outbound connection enters
\* pcapsession_merger_packet_handler (its handler is the merger) and waits
\* for merge_mutex. Once pcapsession_stop has called pthread_cancel on the
\* thread, the read in pcap_loop is a cancellation point: no packet
\* follows.
MergerPacket(s) ==
    /\ Alive
    /\ thread[s] = "loop"
    /\ ~(sup.pc = "join" /\ sup.i = s)
    /\ role[s] = "client"
    /\ fd[s] = "open"
    /\ SetThread(s, "lock")
    /\ UNCHANGED <<handling, ordered, state, counter, role, orphans, fd,
                   supervised, handle, iterations, file, cbSlot, sup, main,
                   faults, accepts, proc, address, locks>>

\* pthread_mutex_lock(&merge_mutex) returns.
HandlerLock(s) ==
    /\ Alive
    /\ thread[s] = "lock"
    /\ locks.merge = NoSlot
    /\ locks' = [locks EXCEPT !.merge = s]
    /\ SetThread(s, "locked")
    /\ UNCHANGED <<handling, ordered, state, counter, role, orphans, fd,
                   supervised, handle, iterations, file, cbSlot, sup, main,
                   faults, accepts, proc, address>>

\* pthread_mutex_lock of the merger's pcap_mutex, then pcap_dump to the
\* merger's pcap_dumper, unchecked. The dumper is open exactly while the
\* merger's fd is (merger_run sets both, merger_stop clears both); a dump
\* to a NULL dumper crashes the process.
HandlerDump(s) ==
    /\ Alive
    /\ thread[s] = "locked"
    /\ locks.pcap = NoSlot
    /\ \/ /\ \E m \in Slots : role[m] = "merger" /\ fd[m] = "open"
          /\ locks' = [locks EXCEPT !.pcap = s]
          /\ SetThread(s, "dump")
          /\ UNCHANGED proc
       \/ /\ ~\E m \in Slots : role[m] = "merger" /\ fd[m] = "open"
          /\ proc' = "crashed"
          /\ UNCHANGED <<locks, thread>>
    /\ UNCHANGED <<handling, ordered, state, counter, role, orphans, fd,
                   supervised, handle, iterations, file, cbSlot, sup, main,
                   faults, accepts, address>>

\* pcap_dump returns: pcap_mutex unlocked, both monitors incremented,
\* merge_mutex unlocked, back in pcap_loop.
HandlerDone(s) ==
    /\ Alive
    /\ thread[s] = "dump"
    /\ locks' = [merge |-> NoSlot, pcap |-> NoSlot]
    /\ SetThread(s, "loop")
    /\ UNCHANGED <<handling, ordered, state, counter, role, orphans, fd,
                   supervised, handle, iterations, file, cbSlot, sup, main,
                   faults, accepts, proc, address>>

\* pcapsession_filecapture_run: a file is opened with pcap_open_offline and
\* its descriptor supervised while pcap_loop streams it; a failed opendir or
\* open sets TERMINATE and returns.
OpenFile(s, k) ==
    \E ok \in Outcomes :
        /\ Spend(ok)
        /\ fd' = [fd EXCEPT ![s] = IF ok THEN "open" ELSE "none"]
        /\ supervised' = [supervised EXCEPT ![s] = ok]
        /\ handle' = [handle EXCEPT ![s] = ok]
        /\ file' = [file EXCEPT ![s] = k]
        /\ SetThread(s, IF ok THEN "loop" ELSE "returned")
        /\ state' = IF ok THEN state ELSE [state EXCEPT ![s] = TERMINATE]

\* Top of the do-while of pcapsession_filecapture_run: decrement finite
\* iterations, open the directory and its first file. With no *.pcap file
\* the loop ends at once.
FilePass(s) ==
    LET it == iterations[s] IN
    /\ Alive
    /\ thread[s] = "pass"
    /\ iterations' = [iterations EXCEPT ![s] = IF it # -1 /\ it # 0 THEN it - 1 ELSE it]
    /\ IF PcapFiles = 0
       THEN /\ SetState(s, TERMINATE)
            /\ SetThread(s, "returned")
            /\ UNCHANGED <<fd, supervised, handle, file, faults>>
       ELSE OpenFile(s, 1)
    /\ UNCHANGED <<handling, ordered, counter, role, orphans, cbSlot, sup,
                   main, accepts, proc, address, locks>>

\* pcap_loop reached the end of a file: clear the descriptor fields, close
\* the handle, open the next file, or loop again while iterations remain.
FileEnds(s) ==
    /\ Alive
    /\ thread[s] = "loop"
    /\ role[s] = "file"
    /\ IF file[s] < PcapFiles
       THEN OpenFile(s, file[s] + 1)
       ELSE /\ fd' = [fd EXCEPT ![s] = "none"]
            /\ supervised' = [supervised EXCEPT ![s] = FALSE]
            /\ handle' = [handle EXCEPT ![s] = FALSE]
            /\ SetThread(s, IF iterations[s] # 0 THEN "pass" ELSE "returned")
            /\ state' = IF iterations[s] # 0 THEN state
                        ELSE [state EXCEPT ![s] = TERMINATE]
            /\ UNCHANGED <<file, faults>>
    /\ UNCHANGED <<handling, ordered, counter, role, orphans, iterations,
                   cbSlot, sup, main, accepts, proc, address, locks>>

-----------------------------------------------------------------------------
(* Environment *)

\* A peer closes its socket, or the capture interface fails: poll on the
\* descriptor now reports POLLHUP/POLLERR.
Hangup(s) ==
    /\ Alive
    /\ fd[s] = "open"
    /\ role[s] \in {"clientconn", "client", "live"}
    /\ faults < MaxFaults
    /\ faults' = faults + 1
    /\ fd' = [fd EXCEPT ![s] = "hup"]
    /\ UNCHANGED <<handling, ordered, state, counter, role, thread, orphans,
                   supervised, handle, iterations, file, cbSlot, sup, main,
                   accepts, proc, address, locks>>

\* pcapsession_handling_close: the supervisor is told to abort everything
HandlingClose == handling' = TERMINATING

\* SIGTERM/SIGINT: sighandler calls pcapsession_handling_close once. The
\* handler is registered before the configuration is read; unless
\* EarlySignal, the signal comes once the supervisor runs.
Signal ==
    /\ Alive
    /\ ~ordered
    /\ EarlySignal \/ sup.pc \notin {"none", "start"}
    /\ ordered' = TRUE
    /\ HandlingClose
    /\ UNCHANGED <<state, counter, role, thread, orphans, fd, supervised,
                   handle, iterations, file, cbSlot, sup, main, faults,
                   accepts, proc, address, locks>>

-----------------------------------------------------------------------------

\* main() starts with one configuration file: session handling STOPPED
\* (its static initialiser), the table zeroed, no supervisor yet.
Init ==
    /\ handling = STOPPED
    /\ ordered = FALSE
    /\ state = [s \in Slots |-> UNUSED]
    /\ counter = [s \in Slots |-> 0]
    /\ role = [s \in Slots |-> "none"]
    /\ thread = [s \in Slots |-> "none"]
    /\ orphans = 0
    /\ fd = [s \in Slots |-> "none"]
    /\ supervised = [s \in Slots |-> FALSE]
    /\ handle = [s \in Slots |-> FALSE]
    /\ iterations = [s \in Slots |-> 0]
    /\ file = [s \in Slots |-> 0]
    /\ cbSlot = [s \in Slots |-> NoSlot]
    /\ sup = [pc |-> "none", i |-> 0, count |-> 0]
    /\ main \in [pc : {"config"}, cfg : ConfigFiles, prog : {<<>>}, arg : {<<>>},
                 idx : {1}, slot : {NoSlot}]
    /\ faults = 0
    /\ accepts = 0
    /\ proc = "running"
    /\ address = [s \in Slots |-> <<>>]
    /\ locks = [merge |-> NoSlot, pcap |-> NoSlot]

\* The steps a run thread takes by itself, not on an external event
ThreadStep(s) ==
    \/ RunStart(s) \/ ServerPoll(s) \/ ServerClaim(s) \/ ClientConnect(s)
    \/ CaptureEnds(s) \/ FilePass(s) \/ FileEnds(s)
    \/ HandlerLock(s) \/ HandlerDump(s) \/ HandlerDone(s)

\* The process has exited or crashed: nothing happens any more.
Ended == proc # "running" /\ UNCHANGED vars

Next ==
    \/ MainConfigure \/ MainHandlingInit \/ MainWait
    \/ MainGetNew \/ MainOpen \/ MainExit
    \/ SupBegin \/ SupSlot \/ SupJoin \/ SupEndSweep
    \/ \E s \in Slots :
        \/ RunStart(s) \/ ServerPoll(s) \/ ServerAccept(s) \/ ServerClaim(s)
        \/ ClientConnect(s) \/ CaptureEnds(s) \/ FilePass(s) \/ FileEnds(s)
        \/ MergerPacket(s) \/ HandlerLock(s) \/ HandlerDump(s) \/ HandlerDone(s)
        \/ Hangup(s)
    \/ Signal
    \/ Ended

\* Every thread of the process is scheduled: the supervisor and main are
\* weakly fair. A run thread is strongly fair, and so is the file
\* capture's pass over its directory: the supervisor sleeps
\* PCAP_SESSION_SUPERVISION_INTERVAL between sweeps and waits
\* PCAP_SESSION_SUPERVISION_TRANSITION_INTERVALS sweeps before a start times
\* out, so a thread that is created again and again is not cancelled before
\* the same step every time. Connections, hang-ups, failures and signals
\* are not forced.
Fairness ==
    /\ WF_vars(SupBegin \/ SupSlot \/ SupJoin \/ SupEndSweep)
    /\ WF_vars(MainConfigure \/ MainHandlingInit \/ MainWait \/ MainGetNew
               \/ MainOpen \/ MainExit)
    /\ \A s \in Slots : SF_vars(ThreadStep(s)) /\ SF_vars(FilePass(s))

Spec == Init /\ [][Next]_vars /\ Fairness

-----------------------------------------------------------------------------
(* Properties *)

TypeOK ==
    /\ handling \in {STOPPED, STARTING, RUNNING, TERMINATING}
    /\ ordered \in BOOLEAN
    /\ state \in [Slots -> States]
    /\ counter \in [Slots -> 0 .. TransitionIntervals]
    /\ role \in [Slots -> Roles \cup {"none"}]
    /\ thread \in [Slots -> ThreadPcs]
    /\ orphans \in Nat
    /\ fd \in [Slots -> FdValues]
    /\ supervised \in [Slots -> BOOLEAN]
    /\ handle \in [Slots -> BOOLEAN]
    /\ iterations \in [Slots -> Int]
    /\ file \in [Slots -> 0 .. PcapFiles]
    /\ cbSlot \in [Slots -> Slots \cup {NoSlot}]
    /\ sup \in [pc : {"none", "start", "sweep", "join", "exited"},
                i : 0 .. MaxSessions, count : 0 .. MaxSessions]
    /\ main.pc \in {"config", "init", "wait", "open", "claim", "join"}
    /\ main.cfg \in ConfigFiles
    /\ main.prog \in Seq(Roles) /\ Len(main.arg) = Len(main.prog)
    /\ main.idx \in 1 .. Len(main.prog) + 1
    /\ main.slot \in Slots \cup {NoSlot}
    /\ faults \in 0 .. MaxFaults
    /\ accepts \in 0 .. MaxAccepts
    /\ proc \in {"running", "exited", "crashed"}
    /\ address \in [Slots -> {<<>>} \cup (Seq(STRING) \X Int)]
    /\ locks \in [merge : Slots \cup {NoSlot}, pcap : Slots \cup {NoSlot}]

\* Every OS thread the supervisor created is still recorded in its slot
\* (pthread_t set, so pcapsession_stop will cancel and join it) and its
\* session is in a state in which the thread may run: no slot is freed,
\* restarted or reclaimed by pcapsession_handling_get_new while a run
\* thread of it is alive.
ThreadBelongsToLiveSession ==
    /\ orphans = 0
    /\ \A s \in Slots :
        thread[s] # "none" => state[s] \notin {UNUSED, STOPPED, START}

\* After SIGTERM/SIGINT, pcapsession_handling_close makes the supervisor
\* abort every session and leave its loop, and main() returns from the
\* join and exits: the process ends (or has crashed).
ShutdownCompletes == ordered ~> proc # "running"

\* A file capture with a finite file_capture_iterations ends:
\* pcapsession_filecapture_run counts the passes down and
\* pcapsession_filecapture_stop leaves the session STOPPED at zero, so
\* pcapsession_stop frees the slot. (The slot may instead have been taken
\* over by a concurrent pcapsession_handling_get_new, see
\* ThreadBelongsToLiveSession.)
FileCaptureEnds ==
    \A s \in Slots :
        (role[s] = "file" /\ state[s] # UNUSED)
            ~> (state[s] = UNUSED \/ role[s] # "file" \/ proc # "running")

\* pcapsession_server_stop resets the listener to START "so that session
\* handling will attempt to restart the server": a listener waiting to be
\* started is eventually blocked in accept() on an open socket again.
ServerRelistens ==
    \A s \in Slots :
        (role[s] = "server" /\ state[s] = START)
            ~> ((thread[s] = "accept" /\ fd[s] = "open") \/ ordered
                \/ proc # "running")

-----------------------------------------------------------------------------
(***************************************************************************)
(* Refinement of SessionLifecycle: a slot's phase is read off its state,  *)
(* except while the supervisor is inside pcapsession_stop for it: from the *)
(* TERMINATING or ABORTING it sets to the stopper's result, the slot is    *)
(* stopping whatever its run thread writes before it is cancelled. A      *)
(* TERMINATE or ABORT the supervisor has ordered but not yet acted on, on  *)
(* a session whose run thread has not begun, leaves it waiting: the thread *)
(* may still set it RUNNING first, and the order is then dropped. Where a *)
(* listener accepts connections the refinement fails through the slot     *)
(* allocation race that MCRace exhibits (one slot is claimed twice).      *)
(***************************************************************************)
Phase(s) ==
    CASE sup.pc = "join" /\ sup.i = s  -> "stopping"
      [] state[s] \in {TERMINATE, ABORT} /\ thread[s] = "start" -> "waiting"
      [] state[s] = UNUSED              -> "free"
      [] state[s] \in {START, STARTING} -> "waiting"
      [] state[s] = RUNNING             -> "running"
      [] OTHER                          -> "stopping"

Lifecycle == INSTANCE SessionLifecycle WITH phase <- [s \in Slots |-> Phase(s)]

(* Every step of the sessions, threads and supervisor keeps each slot on
   the lifecycle the session handling promises: a slot is claimed only when
   free, a session runs only after it was started, and once stopping it is
   restarted or released, never running again before a restart; no step
   takes a slot that is in use. *)
ImplementsLifecycle == Lifecycle!Spec

=============================================================================

# TLA+ models of probe_distributorMerger

This directory holds TLA+ specifications of the PCAP distributor and merger
(`src/src/pcapsession`, `src/src/filterprograms/pcapdistributer.cpp`,
`pcapmerger.cpp`) and of the GTP code and tools (`src/src/gtp`,
`decodegtp.c`, `gtpimsieua.c`, `gtpuntunnel.c`, `gtpaddr.c`), and of the
offline filters `chunkpcapfile.c`, `pcapfilestats.c` and `usectstamp.c`,
and of the `main()` of `gtpuntunnel.c` and `gtpaddr.c`. Beside them
are the TLC configurations that check them and `PROJECT.json`. That file
lists:

* the components;
* the runs and the mutants;
* the mapping from each definition to the source lines it models;
* the findings and the hazards.

## 1. The system

Two programs share one session library.

Both programs first register the signal handler and then read a JSON
configuration file (`config.c`: `read_filter_config`, `get_property`,
`get_properties`); a file they cannot use ends them with `exit(1)`.

* **pcapdistributer** reads `port`, `live`, `file_capture_iterations` and
  `capture_location`, each through `atoi`, and then does the following in
  order:
  1. It starts session handling (`pcapsession_handling_init`) and opens a
     listening socket (`pcapsession_server_open`).
  2. It sleeps 10 s.
  3. It opens either a live capture on an interface
     (`pcapsession_livecapture_open`) or a file capture over a directory of
     `*.pcap` files (`pcapsession_filecapture_open`, with a number of
     iterations, -1 for ever).
  4. It joins the supervisor thread.

  Every client that connects to the listener gets a *client connection*
  session (`pcapsession_clientconn_open`, the accept callback). The capture
  thread dumps every packet to every client connection in `clientconnlist`.
* **pcapmerger** reads the `host` and the `port` of every entry of
  `distribution_server_array` into two lists, checks that the counts
  agree, and turns them into addresses (`address_list_from_arguments` in
  `tcp.c`). It then does the following in order:
  1. It starts session handling.
  2. It opens a *merger* session that dumps to a file
     (`pcapsession_merger_open`).
  3. It sleeps 10 s.
  4. It opens one outbound connection per server address
     (`pcapsession_client_open`, result ignored).
  5. It joins the supervisor.

  Each outbound connection thread reads packets with `pcap_loop` and dumps
  them through the merger (`pcapsession_merger_packet_handler`), under
  `merge_mutex` and the merger's `pcap_mutex`, optionally GTP-untunnelled.

### Session registry and supervisor (`pcapsession.c`)

`session_list` is a fixed array of slots. Each slot holds:

* a state: UNUSED, STOPPED, START, STARTING, RUNNING, TERMINATE, ABORT,
  TERMINATING or ABORTING;
* a runner/stopper pair (its *role*);
* the `pthread_t` of its run thread;
* a descriptor `fd`, with a flag saying whether the supervisor polls it;
* a pcap handle and dumper, a monitor, an interval counter and the
  iterations left.

State writes take `state_mutex`. Nothing else in the table is locked.

**Operations:**

* `handling_init`: only from STOPPED. It sets STARTING, clears the table,
  creates the supervisor and sleeps until the supervisor's first statement
  has set RUNNING. In any other state it returns 1 without a supervisor.
* `get_new`: an unlocked scan for an UNUSED slot, then memset.
* `add`: sets START.
* `start`: `pthread_create` of the runner.
* `stop`: `pthread_cancel` and `pthread_join`, the stopper, then UNUSED if
  the stopper left STOPPED.

**The supervisor** sweeps the table once a second. On each used slot:

1. During shutdown it forces ABORT.
2. If the descriptor is supervised and poll reports it not open, it forces
   TERMINATE.
3. It runs the transition function:
   * START: STARTING and `pthread_create`;
   * STARTING: a timeout counter, TERMINATE on timeout;
   * TERMINATE or ABORT: TERMINATING or ABORTING, then `pcapsession_stop`.
4. For a RUNNING session it flushes an idle dumper under its `pcap_mutex`
   and prints the monitor.

It leaves its loop when no slot is used and shutdown was ordered.

**Roles.** Each role pairs a runner with a stopper.

| role | runner | stopper leaves |
|---|---|---|
| listener (`_server.c`) | RUNNING; `poll_server_socket` in a loop, whose accept runs `clientconn_open`; ≤0 → TERMINATE | fd closed; START unless ABORTING |
| client connection (`_clientconn.c`) | RUNNING; `pcap_dump_fopen` on the socket; registers in `clientconnlist` | STOPPED (slot freed) |
| outbound connection (`_client.c`) | RUNNING; `socket`, `connect`, `pcap_fopen_offline`, `pcap_loop` into the merger; then TERMINATE | handle and fd closed; START unless ABORTING |
| merger (`_merger.c`) | RUNNING; `pcap_dump_open` of the output | dumper and fd closed; START unless ABORTING |
| live capture (`_livecapture.c`) | RUNNING; `pcap_loop` on the handle `_open` opened; `pcap_close`; TERMINATE | `pcap_close`; START unless ABORTING |
| file capture (`_filecapture.c`) | RUNNING; passes over the directory while iterations remain; TERMINATE | `pcap_close`; STOPPED when aborted or out of iterations, else START |

### GTP code

* `gtpv1_get_header` walks Ethernet (802.1Q), IPv4 and UDP to the GTPv1
  header, with unsigned length checks.
* `pcapsession_untunnel_packet` moves the inner packet up over the outer
  headers. `gtpuntunnel` and the merger's handler call it.
* `gtpaddr` rewrites an inner IP address of G-PDUs in place.
* `decode_gtp_packet` (in `decodegtp.c` and `gtpimsieua.c`) walks the
  information elements (IEs) of a GTP-C message, using the table of
  `gtpv1_information_elements.c`.
* `gtpimsieua` keeps a TEID-to-IMSI map from Create PDP Context Requests,
  and prints the IMSI when the matching response arrives.

### Offline filters

Single-threaded programs that open a capture file with `pcap_open_offline`
and run `pcap_loop` over it with one callback:

* `chunkpcapfile in out size` splits the capture into dump files
  `out_000000.pcap`, `out_000001.pcap`, ... of at most `size` octets
  (at least `MIN_CHUNK_SIZE`, 1 MiB).
* `pcapfilestats in` prints the packet count, the octet count and the
  first and last time stamps.
* `usectstamp in out` copies the capture, giving the first packet its own
  time stamp and each later one the previous plus one microsecond (the
  function's comment says one millisecond; the code adds one microsecond).
* `gtpuntunnel in out` and `gtpaddr in out old_ip new_ip` copy the
  capture through the GTP handlers above. Unlike usectstamp, both check
  `pcap_dump_open` and return 5 when it fails. gtpaddr returns 3 when
  `inet_aton` rejects either address.

## 2. Modules

### `PcapSession.tla`: registry, supervisor, roles, main, signal

**State.** Every variable is named after the field it models:

* `handling` is `session_handling_state`; `ordered` is the signal
  handler's `shutdown_ordered`.
* `address` is the server address of an outbound connection's slot.
* `locks` is the slot whose thread holds `merge_mutex` and the merger's
  `pcap_mutex`.
* Per slot: `state`, `counter`, `role`, `fd`, `supervised`, `handle`,
  `iterations` and `file`.
* `thread` is where each slot's run thread is.
* `orphans` counts run threads whose `pthread_t` a memset erased.
* `sup` is the supervisor's pc.
* `main` is main()'s pc, its configuration file, and the opens the file
  calls for (`prog`, with each open's argument in `arg`).
* `proc` is running, exited or crashed.

**Descriptors** take four values:

* `none`: fd 0.
* `open`.
* `hup`: poll reports POLLHUP or POLLERR.
* `stale`: closed, but the number is still stored. `IoTestsFdOpen` lets
  such a number read as open, because a later `open` may have reused it.

**Actions:**

| action | code |
|---|---|
| `MainConfigure` | main() up to `pcapsession_handling_init`: one outcome of `Startup` (PcapConfig's `MergerStartup` or `DistributerStartup`) for the file: `exit(1)`, a crash, or the opens to perform |
| `MainHandlingInit`, `MainWait` | `pcapsession_handling_init`: from STOPPED, STARTING and `pthread_create` of the supervisor (a failure → `exit(1)`), then the sleep until it is no longer STARTING; otherwise return at once without a supervisor |
| `SupBegin` | the supervisor's first statement, `session_handling_state = RUNNING` |
| `MainGetNew` | main()'s `get_new` scan; a full table → `exit(1)`, or ignored for `client_open` |
| `MainOpen` | the role's `_open` body (`OpenServer`, `OpenLive`, `OpenFileCapture`, `OpenClient`, `OpenMerger`) through `Claim`; a failure → UNUSED and `exit(1)` |
| `MainExit` | the supervisor join returns, `exit(0)`; without a supervisor the join is on an unset `pthread_t` (exit or fault) |
| `SupSlot` | one slot of the sweep: the two checks (`CheckedStates`), then `Transition`, which is `pcapsession_transition_session` with `StartThread` for `pcapsession_start`. The checks and the transition are one step; a run thread's write of RUNNING between them is the same lost update that the split at the join exposes (see Granularity) |
| `SupJoin` | the rest of `pcapsession_stop`: cancel and join, the role's stopper (`Stopper`: `ServerStop`, `ClientConnStop`, `ClientStop`, `MergerStop`, `LiveStop`, `FileStop`), then UNUSED |
| `SupEndSweep` | end of a sweep: leave if no slot is used during shutdown |
| `RunStart` | the thread `pcapsession_start` created runs the role's runner up to its loop or return: `RunServer`, `RunClientconn`, `RunClient`, `RunMerger`, `RunLive`, `RunFile`, each setting RUNNING first (`Started`) |
| `ServerPoll`, `ServerAccept`, `ServerClaim` | the listener loop, `poll_server_socket` and the callback `clientconn_open` |
| `ClientConnect` | `connect` and `pcap_fopen_offline` of an outbound connection |
| `MergerPacket`, `HandlerLock`, `HandlerDump`, `HandlerDone` | `merger_packet_handler`: a packet enters it, `merge_mutex` is taken, then the merger's `pcap_mutex` and `pcap_dump` to the unchecked dumper (NULL → crash), then both are released |
| `CaptureEnds` | `pcap_loop` returns when the peer or interface goes away |
| `FilePass`, `FileEnds` | the file capture's do-while and the end of each file |
| `Hangup` | environment: a peer or interface fails |
| `Signal` | SIGTERM/SIGINT: `sighandler` and `HandlingClose`; before the supervisor runs only if `EarlySignal` |

**Failures.** Failed system calls and hang-ups are drawn from `MaxFaults`.
Accepted connections are drawn from `MaxAccepts`.

**Granularity.** A supervisor step is atomic with respect to the state it
reads. The stop is split at the join, so a run thread can write its state
between `change_state(TERMINATING)` and the stopper: that is the code's
real lost-update window.

**The merger's handler.** The merger's dumper is open exactly while the
merger's fd is open, so `HandlerDump` crashes the process when that fd is
not open. A thread is cancellable in `pcap_loop` and inside `pcap_dump`,
whose `fwrite` reaches `write()`, a cancellation point of glibc; never
while it waits for or holds `merge_mutex` before the dump
(`pthread_mutex_lock` is not a cancellation point). A thread cancelled in
`pcap_dump` leaves both mutexes locked, as no cleanup handler releases
them (run `merger_cancel`). Once the
supervisor has cancelled a thread, the thread takes no further packet.
`SupJoin` of the merger while a thread is inside `pcap_dump` may crash the
process, because `merger_stop` closes the dumper without `pcap_mutex`.

**Orphaned threads.** The memset of `get_new` on a slot whose thread is
alive moves that thread into `orphans`. Its later steps are not modelled.

### `SessionLifecycle.tla` and the refinement

`SessionLifecycle` is the abstract promise of the session handling for
one slot. A slot moves through the phases `free`, `waiting`, `running` and
`stopping`:

* a free slot is opened (waiting);
* a waiting session runs;
* a waiting or running session is stopped;
* a stopped session is restarted (waiting) or released (free).

So no step takes a slot that is in use, and a stopped session runs again
only through a restart.

`PcapSession` maps onto it with `Phase(s)`, which reads the phase off the
slot's state, with two exceptions:

* While the supervisor is inside `pcapsession_stop` for the slot
  (`sup.pc = "join"`), the slot is stopping, whatever its run thread
  writes before it is cancelled.
* A TERMINATE or ABORT that the supervisor has ordered but not yet acted
  on, on a session whose run thread has not begun, is still waiting. The
  thread may set RUNNING first, and the order is then dropped (hazard at
  `pcapsession_merger.c:105`).

`ImplementsLifecycle == Lifecycle!Spec` is checked in the merger run. In
the distributer, TLC finds it violated through the allocation race, the
same defect the `allocation_race` run shows. It is therefore not checked
there.

### `PcapFanout.tla`: the distributer's packet path

This module models the capture thread's `clientconn_packet_handler` and
`client_handle_packet` over `clientconnlist`, the client sessions' run
threads and stop, the supervisor's idle flush under each session's
`pcap_mutex`, and `handle_monitor`.

* A monitor is abstracted to whether its byte count is non-zero, which is
  what the idle flush tests. `MonitorOpen`, `MonitorClose` and
  `MonitorIncrement` are the functions of `monitor.h` on that
  abstraction.
* **Capture thread** (`cap.pc`): `Scan`, `Check`, `Clear`, `Lock`, `Dump`,
  `Unlock`, one action per statement of the handler between which another
  thread can act.
* **Run thread:** `RunStart`, `RunOpen`, `RunRegister`.
* **Supervisor**, in the order of one slot of `pcapsession_supervision_run`:
  `SupSkip` (UNUSED) or `SupCheck` (the descriptor check, POLLHUP →
  TERMINATE); then the transition, read again, as `SupStart`,
  `SupStarting`, `SupRunning` or `SupTerminate` (TERMINATE →
  TERMINATING); for the latter `SupStop`, the cancel and join of the run
  thread and `pcapsession_clientconn_stop`, which takes no mutex; then
  `SupCarry`, the RUNNING test after the transition, with the idle flush
  (`SupFlush`, under `pcap_mutex`) or `handle_monitor`. The join and the
  stopper are one step: the join changes nothing another thread reads, and
  the capture thread reads the list entry and the dumper in the order the
  stopper clears them.
* **Environment:** `Accept`, `Hangup` and `CaptureCancel`.
  `CaptureCancel` is a `pthread_cancel` of the capture thread at a
  cancellation point: in `pcap_loop`'s read or inside `pcap_dump` while
  `pcap_mutex` is held.
* `leaked` counts sockets `clientconn_stop` does not close.

### `GtpHeader.tla`: header locator, untunnelling, gtpaddr

A frame is represented by:

* its `caplen`;
* its wire `len`;
* the header fields the code tests;
* which inner address `gtpaddr` finds equal to the old one.

A field past `caplen` is still read by the code and holds whatever the
buffer holds there, so every field ranges freely whatever the length.

| definition | code |
|---|---|
| `Short(length, offset, size)` | `length - offset < size` in unsigned arithmetic: false when the subtraction wraps |
| `GetHeader(length, p)` | `gtpv1_get_header`: the GTP offset or `None`, and `extent`, one past the highest octet read |
| `Untunnel(p)`, `PacketHandler` | `pcapsession_untunnel_packet` and the handlers that call it: new `caplen`, `len` and the `memmove` done |
| `InnerIpOffset`, `AddrWrites`, `AddrHandler` | `gtpaddr`'s `pcap_packet_handler`: the offsets it overwrites |

An unsigned value is held by its two's-complement representative. `RefLocate` and `RefInner` are the
reference, computed from the layout alone and never past `caplen`. A
behaviour handles one frame, because the handlers keep no state between
frames.

### `GtpIe.tla` and `MCGtpIe.tla`: the IE walk

`GtpIe` models the message as a sequence of IEs from the first IE offset.
The first `m` IEs form the message; the rest stand for what follows in
the buffer.

* `WalkStep` is one iteration of `decode_gtp_packet`'s loop, with its
  bounds check against `caplen` and its end-of-message test.
* `HeaderLength` and `BodyLength` are the table lookups.
* `Imsi2StrLenFrom` (RECURSIVE) is the length of the string `imsi2str`
  writes.
* `MCGtpIe` gives the IE values, including a 15-digit IMSI and an
  unknown TV type.

### `GtpImsiMap.tla`: gtpimsieua's TEID-to-IMSI map

The tool's state is `imsi_map`, `imsi_time`, `imsi_array` and what it
printed. Beside it the module keeps the network's truth: which subscriber
holds each TEID and the phase of its context.

* The network sends requests, retransmits them, and responds, accepting
  or rejecting.
* The capture may lose a message (`Captured`).
* `StoreRequest` and `MatchResponse` are the tool's two branches.
* `Tick` advances the clock that `IMSI_TIMEOUT` reads.

### `PcapFilters.tla` and `MCOfflineFilters.tla`: the offline filters

`PcapFilters` holds one process running one of the five filters
(`program`) on one capture (`capture`: whether it opens, and each
packet's `caplen`, `len` and time stamp; for gtpuntunnel and gtpaddr,
a frame of `GtpHeader`). `read` counts the packets
`pcap_loop` has handed over; `files` maps a chunk number (usectstamp: 0)
to the packets written to that dump file, and `dumper` is NULL or the
number of the open file. The remaining variables are the programs'
globals, under their names.

| action | code |
|---|---|
| `ChunkMain`, `StatsMain`, `UsecMain` | each `main()` up to `pcap_loop`: the `argc` check, `atol` and the `MIN_CHUNK_SIZE` check, `pcap_open_offline`, and usectstamp's `pcap_dump_open`, whose failure goes unnoticed (it tests `pcap_handle` again) |
| `ChunkPacket` | `pcap_packet_handler`: close when the packet would pass `chunk_max_size`, open the next `%06lu` file when none is open (`exit(1)` on failure), dump, count |
| `StatsPacket` | the first time stamp while `packet_count` is 0, the counts, the last time stamp |
| `UsecPacket` | the first time stamp while `tv_sec` is 0, else the microsecond tick with its roll-over; the dump (a crash through a NULL dumper) |
| `ChunkEnd`, `StatsEnd`, `UsecEnd` | the close and `return` after `pcap_loop` |
| `GtpMain` | gtpuntunnel's and gtpaddr's `main()` up to `pcap_loop`: `argc`, gtpaddr's two `inet_aton` calls (`AddressesValid`), `pcap_open_offline`, and `pcap_dump_open` with its exit 5 |
| `GtpPacket` | the packet handler: gtpuntunnel dumps the header that `GtpHeader`'s `Untunnel` gives (`UntunnelDumps`); gtpaddr dumps the frame with `GtpHeader`'s `AddrWrites`, either on its early return or at the end (`AddrDumps`) |
| `GtpEnd` | `pcap_dump_close`, `pcap_close`, and the end of `main()` |

`FileSize` counts what a dump file holds on disk: the 24-octet file
header and a 16-octet record header per packet. The handler counts
`sizeof(struct pcap_pkthdr)`, 24 octets on LP64, per packet instead.

`MCOfflineFilters` extends `MCGtpIe` and instantiates `PcapFilters`: an
initial state runs either decodegtp's walk or one filter, and the other
part stays at an idle value. This puts all the offline tools in one run.

### `PcapConfig.tla`: configuration phase of the two programs

Pure operators, which `PcapSession` extends. A configuration file is
abstracted to whether it opens and parses, and to its top-level array.
Each element is a function from property names to JSON values. A scalar
keeps its text as a sequence of characters, because the code cuts
characters off it.

| operator | code |
|---|---|
| `PropertyValue` | the `strcpy(value, text + 1)` and `value[strlen - 1] = 0` of `get_property` / `get_properties` |
| `ReadFilterConfig` | `read_filter_config`: -1, -2 or the element count |
| `GetProperty` | `get_property`: the first element with the name; -1 and the buffer untouched otherwise |
| `GetProperties` | `get_properties`: the property of every object of every such array, objects without it skipped |
| `Atoi` | libc `atoi` (sign, leading digits) |
| `SockaddrIn`, `AddressListFromArguments` | `get_sockaddr_in` (port range, `gethostbyname` against `Resolvable`) and `address_list_from_arguments` |
| `MergerStartup`, `DistributerStartup` | each main() from reading the file to `pcapsession_handling_init`, as a set of outcomes |

**Undefined behaviour** is a set of outcomes:

* More than `MaxAddresses` hosts or ports overflow `host_values`, giving
  exit or crash.
* An absent server list makes the logging loop run to `SIZE_MAX`, giving a
  crash.
* A property missing from the file leaves `atoi` reading an uninitialised
  buffer, which may hold any value of `Uninitialised`.

`ConfiguredServers` is the reference: the host and port of each server
entry as the file's author means them.

### MC modules

* `MCMerger.tla`: four merger files. One has two servers and is
  well-formed; one has a host without a port; one has an unresolvable host;
  one is a missing file.
* `MCDistributer.tla`: distributer files for a directory capture (one pass
  or none), one whose port `atoi` reads as 0, and a live capture.
* `MCGtpIe.tla`: the IE value sets.
* `MCOfflineFilters.tla`: the IE walk and the three filters. The chunking
  captures have up to five packets of 262144 (libpcap's largest
  `caplen`), 262130 or 64 octets. The timed captures have up to three
  truncated packets (`caplen` 64 of `len` 64 or 1500), stamped at
  1.999999 s or 2.000005 s. Missing files and chunk sizes of 1048576 and
  `"1m"` (which `atol` reads as 1) are included.

## 3. Runs

Each run is listed in `PROJECT.json` with its properties. "pass" runs
must finish with no error. "violation" runs check one property, which TLC
finds violated; each has a finding in `PROJECT.json`.

| run | expect | what it shows |
|---|---|---|
| `merger` | pass | pcapmerger from its configuration file on, with SIGTERM at any time. The well-formed file gives a merger and two outbound connections in two slots; the second connection finds the table full, and `main` ignores that. The other files end in `exit(1)`. No run thread outlives its session's record (`ThreadBelongsToLiveSession`), and every slot follows `SessionLifecycle` (`ImplementsLifecycle`). Deadlock is not checked: the process really can stop for good there (run `merger_cancel`). |
| `merger_cancel` | violation | The same model. A connection hangs up while its thread is inside `pcap_dump`; the supervisor cancels it there, and `merge_mutex` and the merger's `pcap_mutex` stay locked. The restarted connection's next packet blocks on `merge_mutex`, where it cannot be cancelled, and after SIGTERM the supervisor's join of it never returns (`ShutdownCompletes`). |
| `file_distributer` | pass | pcapdistributer from its configuration file (or one with an invalid port, which exits) over one file with a listener taking one connection. A finite file capture ends (`FileCaptureEnds`). A signal ends the process (`ShutdownCompletes`), even with a full table and a failed call. |
| `allocation_race` | violation | `main()`'s file capture open and the accept callback take the same free slot. The second memset erases the `pthread_t` of a running thread (`ThreadBelongsToLiveSession`). |
| `server_restart` | violation | After one accept error, the listener is restarted with fd 0 and never listens again (`ServerRelistens`). |
| `live_shutdown` | violation | After the interface fails, the stale descriptor turns every ABORT into TERMINATE and a restart, so SIGTERM never ends the process (`ShutdownCompletes`). |
| `fanout_dump_race` | violation | A client hangs up after `client_handle_packet` checked its socket. The supervisor stops the client and sets its dumper to NULL. `pcap_dump` then uses that dumper (`DumpsOnlyToOpenDumper`). |
| `untunnel_copy` | violation | On the smallest well-formed GTP-U frame, the untunnelling `memmove` reads 14 octets past the capture (`UntunnelCopyInBounds`). |
| `offline_filters` | pass | See below. |
| `gtp_ie_unknown` | violation | A TV-type IE the table does not list has header and body length 0, so the walk never advances (`WalkTerminates`). |
| `gtp_imsi_stale` | violation | A rejected request leaves its entry in the map. The SGSN reuses the TEID, the next subscriber's response matches the old entry, and the earlier subscriber's IMSI is printed (`NoWrongImsi`). |
| `imsi_overflow` | violation | A 14-digit IMSI is sent as seven octets and 0xFF. `imsi2str` prints the low filler nibble as "15", so 16 characters and the NUL go into `char imsistr[16]` (`ImsiFitsBuffer`). |

**`offline_filters`.** One program runs per behaviour. For decodegtp's
IE walk, it covers every sequence of up to three known IEs, with and
without the optional header part, and every message and capture length.

* The walk ends (`WalkTerminates`).
* On a fully captured message, the walk visits exactly the message's IEs
  (`WalkFollowsMessage`).

For the filters, over every capture of `MCOfflineFilters`, every argument
count and every dump-open outcome:

* No chunk file is larger on disk than `chunk_max_size`
  (`ChunkFilesFitMax`), despite the handler counting 24 octets per record
  and none for the file header.
* The chunk files, in order, hold exactly the packets read: no name is
  reused and nothing is lost or duplicated at a chunk change
  (`ChunksPartitionCapture`).
* `pcap_dump_close` is never called on a NULL dumper
  (`ChunkerNeverClosesNullDumper`).
* What `print_pcap_stats` prints describes the packets read
  (`StatsDescribePacketsRead`): their number, their wire lengths (not
  `caplen`), and the first and last time stamps.
* gtpuntunnel and gtpaddr write one record per frame read, in order
  (`GtpFiltersDumpEveryFrame`). This holds on every path of the handler,
  including gtpaddr's early return for a frame without GTP or with the E
  flag. No record is longer than its frame, and `caplen` and `len` shrink
  together.

For `GtpHeader`'s handlers, over every frame of up to 98 octets (with and
without the 802.1Q tag, with `ip_hl` 5, 6 and 15, and every port, flag and
address-match case), whenever the code's reads stay inside the capture:

* `gtpv1_get_header` agrees with the layout (`LocatesLikeReference`);
* untunnelling keeps the Ethernet header and the inner packet
  (`UntunnelKeepsInnerPacket`);
* `gtpaddr` overwrites the inner source or destination address where the
  layout puts it (`AddrRewritesInnerAddress`).

`MCOfflineFilters` composes the three parts as a disjoint union: a
behaviour starts in one part's initial states with the other two at a
fixed idle state (decodegtp's walk finished on an empty message, the
filter process as decodegtp, which has no step, and `GtpHeader` after
both handlers ran on a 70-octet G-PDU), and only that part moves.

**Violations TLC confirms, without a run of their own.** Each is recorded
as a hazard note in `PROJECT.json`.

* **Socket leak.** `clientconn_stop` leaks the socket of a client whose
  peer hung up. A `SocketsClosed` invariant on `PcapFanout` fails at
  depth 4.
* **Deadlock on cancel.** In `PcapFanout`, a capture thread cancelled
  inside `pcap_dump` keeps the client's `pcap_mutex`, and the supervisor's
  next idle flush of that client waits for ever. It is the same
  unreleased lock that `merger_cancel` shows.
* **Merger crash.** `HandlerDump` crashes the process when a connection
  delivers a packet while the merger's dumper is NULL. `SupJoin` can also
  crash it, by closing the merger's dumper under a running `pcap_dump`.
  This is the same unchecked-dumper defect as `fanout_dump_race`.
* **Signal during startup.** With `EarlySignal = TRUE` in `MCMerger.cfg`,
  `ShutdownCompletes` fails in about 22,000 states. The signal arrives
  after `pcapsession_handling_init` created the supervisor but before its
  first statement. Its TERMINATING is overwritten by RUNNING, and
  `shutdown_ordered` blocks every later signal.
* **Server list pairing.** A merger file with a host-only entry followed
  by a port-only entry, or with a port written as a JSON number (170
  becomes 7), makes pcapmerger connect to an address no entry of the file
  names: `get_properties` keeps two independent lists, and cuts a
  number's first and last digit as if they were quotes. `PcapConfig`
  models both; the merger runs use well-formed files.
* **Chunk size and the snapshot length.** With packets of 1048540
  octets TLC finds a chunk file past `chunk_max_size`
  (`ChunkFilesFitMax`). The bound holds for Ethernet captures, whose
  largest `caplen` (262144) is a quarter of `MIN_CHUNK_SIZE`; libpcap
  allows larger captures on other link types (DLT_DBUS, up to 128 MiB).
* **usectstamp's time stamps.** The handler's comment says every later
  packet is stamped one millisecond after the one before; the code adds
  one microsecond. And `tv_sec == 0` doubles as "no time stamp yet": with
  a first packet stamped at second 0 of the epoch the count restarts at
  every packet. No run states the sequence.
* **gtpaddr out-of-bounds write.** `gtpaddr` writes past `caplen` on a
  short frame: on a 50-octet frame whose GTP header fills octets 42 to
  49, it writes octets 66 to 69.

### Bounds

**PcapSession.**

* `TransitionIntervals = 1`. Every STARTING timeout path is reached.
* Two slots. That is enough for:
  * a full table;
  * the listener and capture pair;
  * a merger and one connection.
* `allocation_race` uses three slots, so that both openers find a free
  slot.
* `MaxFaults`, 0 to 3, bounds failed calls and hang-ups. Three in the
  merger run let a connection fail, retry and fail again.
* `MaxAccepts` is at most 1. One connection already fills the table.
* `file_capture_iterations` is `"1"` over one file, which covers a finite
  capture, and `"0"` for the listener runs.
* `MaxAddresses = 2` stands for `MAX_ADDRESSES` (64); two servers reach
  the bound without overflowing it. `Uninitialised = {0}`: the runs' files
  define every property, so the set is not used.
* `EarlySignal = FALSE` in every run; the confirmed violation above
  shows what TRUE gives.
* `merger_cancel` uses the `merger` bounds: two servers, so a second
  connection thread exists to block on the lock, and three faults, for
  the hang-up that cancels the first thread and the reconnect.

**PcapFanout.** `N = 2` clients; `MaxAccepts = 3`, so a slot is reused after
a stop; `MaxHangups = 2`; `MaxCaptureStops = 1`.

**GtpHeader.** `MaxCapLen = 98`. This covers the largest header path:

* Ethernet with a tag: 18 octets;
* a 60-octet IP header;
* UDP;
* GTP with its optional part;
* an inner address.

`IpHlValues = {5, 6, 15}` covers no options, one word of options, and the
maximum. `FlagOptions = {0, 1, 2, 4}` covers each of the E, S and PN flags
alone.

**GtpIe.** `imsi_overflow` adds the 14-digit IMSI to the IE values and
uses up to two IEs. Three IEs, at `GtpOffset = 42`, in `offline_filters`. That
is enough for:

* an IMSI;
* a fixed-length TV IE;
* a TLV IE;
* one IE past the message end.

**PcapFilters.** Five packets reach a second chunk: three of 262144 octets
fill one. Four packets of 262130 octets are a case where
counting `caplen` alone would let a fourth packet into a chunk that is then
32 octets too large on disk. The 64-octet packets move where a chunk ends. Three timed packets cross a
second boundary twice. gtpuntunnel and gtpaddr see up to two of four
frames. Each handler path is taken by one of them:
* no GTP header;
* the E flag;
* a G-PDU without optional fields whose source address matches;
* a tagged G-PDU with a sequence number, one octet short of the wire,
  whose destination matches.

Every header of these frames lies inside the capture. The frames that
read past it are `GtpHeader`'s concern (see `untunnel_copy` and the
hazards). Two address texts make `inet_aton` accept or reject. The
filters keep no state across files.

**GtpImsiMap.** Two subscribers and two TEIDs, so a TEID is reused. Two map
slots, a timeout of one tick and three ticks of time. One loss, one
retransmission, and rejects enabled.

### Fairness

**PcapSession.**

* Weak fairness on the supervisor and on `main`. Each is a single thread
  that keeps running while it is enabled: the supervisor loops on
  `sleep(1)`.
* Strong fairness on each run thread's steps and on `FilePass`. A run
  thread is scheduled whenever it is not cancelled. Its steps are
  disabled whenever the supervisor changes the slot's state, and enabled
  again afterwards.
* `HandlerLock`, `HandlerDump` and `HandlerDone` are run-thread steps.
  A lock waited on is released infinitely often, and the waiter is woken.
* The environment (`Hangup`, `Signal`, `MergerPacket`, faults) has no
  fairness.

**PcapFanout.**

* Weak fairness on each thread.
* `SF_vars(SupFlush)`. The flush waits on a `pcap_mutex` that the capture
  thread takes and releases for every packet. The mutex is free
  infinitely often, and the waiter is woken at each unlock. A capture
  thread cancelled inside `pcap_dump` never frees it, so the flush can
  still wait for ever.
* The module's only run, `fanout_dump_race`, checks an invariant, so no
  run depends on this fairness.

**GtpIe.** Weak fairness on `WalkStep`. It is a single loop with no
blocking. The filters state no liveness, and so assume no fairness.

## 4. Not modelled

* **Text only.** `print_filter_config` and `get_config_file_path` only
  build the logged text and the path. The licence check and usage
  message only decide whether main() starts. Also left out: syslog, and
  the text `decodegtp` prints.
* **Unused code.** No program calls `connect_to_server_socket`.
* **The merger's idle flush and monitors.** The supervisor flushes the
  merger's dumper under `pcap_mutex`. Only `PcapFanout` models that
  flush, and only for the distributer.
* **The filters' I/O errors.** Write errors of `pcap_dump`, and a read
  error that ends `pcap_loop` early (main returns 0 either way). The
  usectstamp crash on a failed `pcap_dump_open` is in the model, but no
  property is stated on it: it appears on the first attempt to write to
  an unwritable path.
* **The examples and the Maven headers.** They are not part of the
  programs.
* **The steps of orphaned run threads.** An orphan is counted, and the
  property that detects it fails first.
* **Descriptor-number reuse**, beyond letting a stale number read as
  open.
* **The addresses `gtpaddr` is given.** They are abstracted to whether
  `inet_aton` accepts them and which of a frame's inner addresses equals
  `old_ip`. The inner IP checksum, which gtpaddr does not update, is not
  modelled either.
* **Monitor counter values.** Only whether the byte count is non-zero is
  modelled.

------------------------------ MODULE MCMerger ------------------------------
(* pcapmerger: the configuration, pcapsession_handling_init,               *)
(* pcapsession_merger_open, then pcapsession_client_open for each server  *)
(* address, then pthread_join of the supervisor.                          *)
EXTENDS PcapSession

MCResolvable == {<<"a">>, <<"b">>}

Server(h, p) == ("host" :> Str(<<h>>)) @@ ("port" :> Str(<<p>>))
HostOnly(h) == "host" :> Str(<<h>>)
Merge(servers) ==
    [file |-> "array",
     elements |-> <<("untunnel_gtp" :> Str(<<"0">>)) @@ ("output_path" :> Str(<<"o">>)),
                    "distribution_server_array" :> Array(servers)>>]

\* Two servers, the list in the form of config.h
TwoServers == Merge(<<Server("a", "7"), Server("b", "8")>>)
\* A host without its port: the counts differ, exit(1)
PortMissing == Merge(<<Server("a", "7"), HostOnly("b")>>)
\* gethostbyname fails: address_list_from_arguments returns -2, exit(1)
Unresolvable == Merge(<<Server("z", "7")>>)
\* The file cannot be opened: exit(1)
NoFile == [file |-> "missing", elements |-> <<>>]

MCConfigFiles == {TwoServers, PortMissing, Unresolvable, NoFile}
=============================================================================

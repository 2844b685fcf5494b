---------------------------- MODULE MCDistributer ----------------------------
(* pcapdistributer: the configuration, pcapsession_handling_init,          *)
(* pcapsession_server_open on the listening port, then                    *)
(* pcapsession_filecapture_open on the capture directory, or               *)
(* pcapsession_livecapture_open on the interface, then pthread_join of the *)
(* supervisor.                                                              *)
EXTENDS PcapSession

Distribute(port, live, passes) ==
    [file |-> "array",
     elements |-> <<("capture_location" :> Str(<<"d">>)) @@ ("port" :> Str(<<port>>))
                    @@ ("live" :> Str(<<live>>))
                    @@ ("file_capture_iterations" :> Str(<<passes>>))>>]

\* A directory capture with one pass, and one with a port atoi reads as 0
FileConfigs == {Distribute("7", "0", "1"), Distribute("x", "0", "1")}
\* A directory capture with one pass
OnePassConfig == {Distribute("7", "0", "1")}
\* A directory capture with no pass
NoPassConfig == {Distribute("7", "0", "0")}
\* A live capture
LiveConfig == {Distribute("7", "1", "0")}
=============================================================================

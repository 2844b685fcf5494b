----------------------------- MODULE PcapConfig -----------------------------
(***************************************************************************)
(* The configuration phase of pcapdistributer and pcapmerger: the JSON    *)
(* property store of src/utilities/config.c (read_filter_config,          *)
(* get_property, get_properties), the address parsing of                  *)
(* src/utilities/tcp.c (get_sockaddr_in, address_list_from_arguments) and *)
(* what each main() makes of them before pcapsession_handling_init.        *)
(*                                                                         *)
(* A configuration file is abstracted to whether it opens and parses, and *)
(* to its top-level JSON array. A top-level element is a function from    *)
(* the names it has to their values. A scalar value is a JSON string or   *)
(* number with its text as a sequence of characters, because get_property *)
(* cuts characters off the text json-c prints for it; an array value is a *)
(* sequence of objects whose values are scalars.                          *)
(***************************************************************************)
EXTENDS Integers, Sequences, TLC
LOCAL INSTANCE SequencesExt

CONSTANTS
    MaxAddresses,   \* MAX_ADDRESSES of tcp.h
    Resolvable,     \* the host names gethostbyname resolves
    Uninitialised   \* what atoi may return on a buffer nothing was written to

\* tcp.h
HIGHEST_IP_PORT == 65535

\* JSON values of a configuration file
Str(t) == [json |-> "string", text |-> t]
Num(t) == [json |-> "number", text |-> t]
Array(objects) == [json |-> "array", items |-> objects]

\* What main() does with the file: exit(1), a crash, or the sessions it
\* opens (prog) with the argument of each open (arg).
Exit == [code |-> "exit"]
Crash == [code |-> "crash"]
Run(prog, arg) == [code |-> "run", prog |-> prog, arg |-> arg]

-----------------------------------------------------------------------------
(* libc atoi: an optional minus sign, then the leading decimal digits *)

Digit == ("0" :> 0) @@ ("1" :> 1) @@ ("2" :> 2) @@ ("3" :> 3) @@ ("4" :> 4)
         @@ ("5" :> 5) @@ ("6" :> 6) @@ ("7" :> 7) @@ ("8" :> 8) @@ ("9" :> 9)

RECURSIVE DigitsValue(_, _)
DigitsValue(t, n) ==
    IF t # <<>> /\ Head(t) \in DOMAIN Digit
    THEN DigitsValue(Tail(t), 10 * n + Digit[Head(t)])
    ELSE n

Atoi(t) ==
    IF t # <<>> /\ Head(t) = "-" THEN 0 - DigitsValue(Tail(t), 0)
    ELSE DigitsValue(t, 0)

-----------------------------------------------------------------------------
(* config.c *)

\* strcpy(value, json_object_to_json_string(v) + 1), then
\* value[strlen(value) - 1] = 0: the quotes of a string go, and so do the
\* first and last digit of a number. A one-character text leaves "" (and
\* the 0 is written before the buffer).
PropertyValue(v) ==
    LET t == IF v.json = "string" THEN <<"\"">> \o v.text \o <<"\"">>
             ELSE v.text
    IN IF Len(t) <= 1 THEN <<>> ELSE SubSeq(t, 2, Len(t) - 1)

\* read_filter_config: -1 when open() fails, -2 when json-c cannot parse
\* the file, else the number of top-level elements.
ReadFilterConfig(f) ==
    CASE f.file = "missing" -> -1
      [] f.file = "invalid" -> -2
      [] OTHER              -> Len(f.elements)

\* get_property: the value of name in the first top-level element that has
\* it, rc 0; rc -1 when none has it, the caller's buffer left untouched.
GetProperty(f, name) ==
    LET having == SelectSeq(f.elements, LAMBDA e : name \in DOMAIN e)
    IN IF having = <<>> THEN [rc |-> -1]
       ELSE [rc |-> 0, value |-> PropertyValue(Head(having)[name])]

\* get_properties: prop of every object, in order, of the array array_name
\* of every top-level element that has one; objects without prop are
\* skipped. rc is -1 when there is none, else the count. The values go to
\* consecutive element_size slots of the caller's buffer, with no bound.
GetProperties(f, array, prop) ==
    LET withArray == SelectSeq(f.elements, LAMBDA e : array \in DOMAIN e)
        objects == FlattenSeq([i \in 1 .. Len(withArray) |-> withArray[i][array].items])
        found == SelectSeq(objects, LAMBDA o : prop \in DOMAIN o)
    IN [rc |-> IF found = <<>> THEN -1 ELSE Len(found),
        values |-> [i \in 1 .. Len(found) |-> PropertyValue(found[i][prop])]]

-----------------------------------------------------------------------------
(* tcp.c *)

\* get_sockaddr_in: -1 for a port outside 1..HIGHEST_IP_PORT, -2 when
\* gethostbyname fails, else 0 with the address filled in.
SockaddrIn(host, port) ==
    CASE port < 1 \/ port > HIGHEST_IP_PORT -> -1
      [] host \notin Resolvable            -> -2
      [] OTHER                             -> 0

\* address_list_from_arguments: -1 for more than MAX_ADDRESSES, the result
\* of the first get_sockaddr_in that fails, else the count with servers[i]
\* the address of host i at port atoi(port i).
AddressListFromArguments(n, hosts, ports) ==
    LET failed == SelectSeq([i \in 1 .. n |-> SockaddrIn(hosts[i], Atoi(ports[i]))],
                            LAMBDA r : r # 0)
    IN CASE n > MaxAddresses -> [rc |-> -1]
         [] failed # <<>>    -> [rc |-> Head(failed)]
         [] OTHER            -> [rc |-> n, servers |-> [i \in 1 .. n |-> <<hosts[i], Atoi(ports[i])>>]]

-----------------------------------------------------------------------------
(* The two main() functions up to pcapsession_handling_init *)

\* pcapmerger: read the file, then host and port of every distribution
\* server. For a longer list than MAX_ADDRESSES get_properties has already
\* written past host_values. An absent list (-1 for both counts, stored in
\* a size_t) sends the logging loop over host_values towards SIZE_MAX.
\* Then the merger, and one outbound connection per server.
MergerStartup(f) ==
    LET hosts == GetProperties(f, "distribution_server_array", "host")
        ports == GetProperties(f, "distribution_server_array", "port")
        list == AddressListFromArguments(hosts.rc, hosts.values, ports.values)
    IN CASE ReadFilterConfig(f) <= 0                              -> {Exit}
         [] hosts.rc > MaxAddresses \/ ports.rc > MaxAddresses     -> {Exit, Crash}
         [] hosts.rc # ports.rc                                   -> {Exit}
         [] hosts.rc = -1                                         -> {Crash}
         [] list.rc <= 0                                          -> {Exit}
         [] OTHER -> {Run(<<"merger">> \o [i \in 1 .. list.rc |-> "client"],
                          <<<<>>>> \o list.servers)}

\* atoi of the value get_property found, or of the uninitialised buffer it
\* left alone (config.h says the value "shall be set to null").
AtoiProperty(p) == IF p.rc = 0 THEN {Atoi(p.value)} ELSE Uninitialised

\* pcapdistributer: read the file, then port (exit(1) outside
\* 1..HIGHEST_IP_PORT), live and file_capture_iterations. Then the
\* listener, and a live capture when live is non-zero, else a file capture
\* with the iterations.
DistributerStartup(f) ==
    IF ReadFilterConfig(f) <= 0 THEN {Exit}
    ELSE {IF port < 1 \/ port > HIGHEST_IP_PORT THEN Exit
          ELSE IF live # 0 THEN Run(<<"server", "live">>, <<0, 0>>)
          ELSE Run(<<"server", "file">>, <<0, it>>) :
            port \in AtoiProperty(GetProperty(f, "port")),
            live \in AtoiProperty(GetProperty(f, "live")),
            it \in AtoiProperty(GetProperty(f, "file_capture_iterations"))}

-----------------------------------------------------------------------------
(* Reference *)

\* The distribution servers a file configures, as its author means them:
\* the host and the port of each object of distribution_server_array that
\* has both, the port being the number the JSON value writes.
ConfiguredServers(f) ==
    LET withArray == SelectSeq(f.elements, LAMBDA e : "distribution_server_array" \in DOMAIN e)
        objects == FlattenSeq([i \in 1 .. Len(withArray) |->
                                  withArray[i]["distribution_server_array"].items])
    IN {<<objects[i]["host"].text, Atoi(objects[i]["port"].text)>> :
          i \in {j \in 1 .. Len(objects) : {"host", "port"} \subseteq DOMAIN objects[j]}}
=============================================================================

------------------------------ MODULE Discovery -----------------------------
(***************************************************************************)
(* How the devices of a network are found and told apart:                  *)
(* fs_obtain_network_devices_list with fs_listen_for_udp_broadcasts of the *)
(* platform, and the UDP port that fs_network_start gives a device         *)
(* (fs_get_udp_port_for_device in common/FS_Trifecta_Networked.c).         *)
(*                                                                         *)
(* The program connects to devices of its list.  Sockets and tasks of a    *)
(* connection are in Lifecycle; here a connection is the port the device   *)
(* was told and the port the host's socket is bound to.                    *)
(***************************************************************************)
EXTENDS Integers, Sequences, SequencesExt, FiniteSets

CONSTANTS
    Addresses,     \* of the devices on the network
    NoAddress,     \* the empty string
    MaxDevices,    \* FS_MAX_NUMBER_DEVICES
    MaxBuffered,   \* bound: broadcasts waiting in the socket
    MaxDrained,    \* bound: broadcasts read by one call
    MaxAssigned    \* bound: entries of the map that are made

ASSUME DiscoveryAssumption ==
    /\ NoAddress \notin Addresses
    /\ MaxDevices \in Nat \ {0} /\ MaxBuffered \in Nat /\ MaxDrained \in Nat
    /\ MaxAssigned \in Nat

VARIABLES
    platform,    \* "linux", "android" or "windows"
    bound,       \* broadcast_sock is bound
    buffered,    \* the senders of the broadcasts waiting in it
    pc,          \* of fs_listen_for_udp_broadcasts
    list,        \* ip_addr_list
    discovered,  \* the local of that name; between calls 0
    result,      \* what the last call returned
    map, next,   \* device_port_map, by index, and next_index
    told,        \* the port each device was told, 0 for none yet
    socket,      \* the port the host's socket for a device is bound to; 0: not connected
    \* History:
    drained,     \* the broadcasts of the call in progress, or of the last one
    assigned     \* the addresses in the order in which they got an entry of the map

listening == <<bound, buffered, pc, list, discovered, result, drained>>
network   == <<map, next, told, socket, assigned>>
discoveryVars == <<platform, listening, network>>

FirstPort == 8888      \* FS_TRIFECTA_PORT
Ports == FirstPort .. FirstPort + MaxDevices - 1

DiscoveryTypeOK ==
    /\ platform \in {"linux", "android", "windows"}
    /\ bound \in BOOLEAN
    /\ buffered \in Seq(Addresses) /\ Len(buffered) <= MaxBuffered
    /\ pc \in {"idle", "poll", "drain"}
    /\ list \in [1 .. MaxDevices -> Addresses \cup {NoAddress}]
    /\ discovered \in 0 .. MaxDevices
    /\ result \in -1 .. MaxDevices
    /\ map \in [0 .. MaxDevices - 1 -> Addresses \cup {NoAddress}]
    /\ next \in Nat
    /\ told \in [Addresses -> Ports \cup {0}]
    /\ socket \in [Addresses -> Ports \cup {0}]
    /\ drained \in Seq(Addresses)

DiscoveryInit ==
    /\ platform \in {"linux", "android", "windows"}
    /\ bound = FALSE /\ buffered = <<>>
    /\ pc = "idle"
    /\ list = [i \in 1 .. MaxDevices |-> NoAddress]
    /\ discovered = 0 /\ result = 0
    /\ map = [i \in 0 .. MaxDevices - 1 |-> NoAddress] /\ next = 0
    /\ told = [a \in Addresses |-> 0] /\ socket = [a \in Addresses |-> 0]
    /\ drained = <<>> /\ assigned = <<>>

-----------------------------------------------------------------------------
(* fs_listen_for_udp_broadcasts.                                           *)

\* Every device broadcasts all the time; a socket that is not bound, or full, drops it.
Broadcast(a) ==
    /\ bound /\ Len(buffered) < MaxBuffered
    /\ buffered' = Append(buffered, a)
    /\ UNCHANGED <<platform, bound, pc, list, discovered, result, drained, network>>

\* fs_obtain_network_devices_list makes -1 of every error.
Return(n) ==
    /\ pc' = "idle" /\ discovered' = 0
    /\ result' = IF n < 0 THEN -1 ELSE n

BeginCall ==
    /\ pc = "idle"
    /\ drained' = <<>>
    /\ UNCHANGED <<platform, buffered, list, network>>

\* The socket is made by the first call, and bound for good.
OpenSocket ==
    /\ BeginCall
    /\ bound' = TRUE /\ pc' = "poll" /\ UNCHANGED <<discovered, result>>

\* Where it cannot be made: socket, setsockopt, bind, and on Windows ioctlsocket.
OpenErrorsLinux == {-1, -2, -3}     \* on Android too
OpenErrorsWindows == {-1, -2, -3, -5}
OpenSocketFails ==
    /\ BeginCall /\ ~bound
    /\ \E n \in IF platform = "windows" THEN OpenErrorsWindows ELSE OpenErrorsLinux : Return(n)
    /\ UNCHANGED bound

\* poll fails, whatever was listed before; times out; or finds a broadcast.
PollEnds ==
    /\ pc = "poll"
    /\ \/ Return(-4)
       \/ (buffered = <<>> /\ Return(discovered))
       \/ (buffered # <<>> /\ pc' = "drain" /\ UNCHANGED <<discovered, result>>)
    /\ UNCHANGED <<platform, bound, buffered, list, drained, network>>

\* Android polls before every broadcast, the others once.
AfterReceive == IF platform = "android" THEN "poll" ELSE "drain"

\* recvfrom returns a broadcast; its sender is listed where new says so.
Drain(new) ==
    /\ pc = "drain" /\ buffered # <<>> /\ Len(drained) < MaxDrained
    /\ pc' = AfterReceive
    /\ buffered' = Tail(buffered)
    /\ drained' = Append(drained, Head(buffered))
    /\ discovered' = IF new THEN discovered + 1 ELSE discovered
    /\ list' = IF new THEN [list EXCEPT ![discovered + 1] = Head(buffered)] ELSE list
    /\ UNCHANGED <<platform, bound, result, network>>

\* The sender is not one of the first n entries of the list.
NotAmong(n) == \A i \in 1 .. n : i \notin DOMAIN list \/ list[i] # Head(buffered)

\* Bug: the newest entry of the list is not compared.
ReceiveComparesOneLess == Drain(NotAmong(discovered - 1) /\ discovered < MaxDevices)

\* Bug: the list has no end.
ReceiveUnbounded == Drain(NotAmong(discovered))

\* New is a sender that this call has not listed yet, if there is room.
Receive == Drain(NotAmong(discovered) /\ discovered < MaxDevices)

\* Where nothing is left the call returns what it has.
ReceiveEnds ==
    /\ pc = "drain" /\ buffered = <<>> /\ Return(discovered)
    /\ UNCHANGED <<platform, bound, buffered, list, drained, network>>

\* An error of recvfrom ends the call, whatever it has, but on Android.
ReceiveFails ==
    /\ pc = "drain"
    /\ IF platform = "android" THEN pc' = "poll" /\ UNCHANGED <<discovered, result>>
                               ELSE Return(-21)
    /\ UNCHANGED <<platform, bound, buffered, list, drained, network>>

-----------------------------------------------------------------------------
(* fs_network_start and fs_closedown.                                      *)

\* Bug: an address that has an entry gets the next one nevertheless.
EntryAlwaysNew(a) == next % MaxDevices

\* fs_get_udp_port_for_device: the entry of the address, or the next one.
Entry(a) ==
    IF \E i \in DOMAIN map : map[i] = a
    THEN CHOOSE i \in DOMAIN map : map[i] = a /\ \A j \in DOMAIN map : map[j] = a => i <= j
    ELSE next % MaxDevices

Assign(a) ==
    /\ map' = [map EXCEPT ![Entry(a)] = a]
    /\ next' = IF map[Entry(a)] = a THEN next ELSE next + 1
    /\ assigned' = IF map[Entry(a)] = a THEN assigned ELSE Append(assigned, a)

\* The local port of fs_init_network_udp_driver.
BindLinux(port) == FirstPort         \* on Android too
BindWindows(port) == port

\* The program connects to a device of its list.  When the device cannot be told
\* its port the start fails, and the entry of the map remains.
Start(a) ==
    LET port == FirstPort + Entry(a) IN
    /\ socket[a] = 0
    /\ \E i \in DOMAIN list : list[i] = a
    /\ Assign(a) /\ Len(assigned') <= MaxAssigned
    /\ \/ /\ told' = [told EXCEPT ![a] = port]
          /\ socket' = [socket EXCEPT ![a] = IF platform = "windows" THEN BindWindows(port)
                                             ELSE BindLinux(port)]
       \/ UNCHANGED <<told, socket>>
    /\ UNCHANGED <<platform, listening>>

Stop(a) ==
    /\ socket[a] # 0
    /\ socket' = [socket EXCEPT ![a] = 0]
    /\ UNCHANGED <<platform, listening, map, next, told, assigned>>

DiscoveryNext ==
    \/ \E a \in Addresses : Broadcast(a) \/ Start(a) \/ Stop(a)
    \/ OpenSocket \/ OpenSocketFails \/ PollEnds \/ Receive \/ ReceiveEnds \/ ReceiveFails

DiscoverySpec == DiscoveryInit /\ [][DiscoveryNext]_discoveryVars

-----------------------------------------------------------------------------
(* Properties.                                                             *)

\* A call that does not fail lists every device whose broadcast it read, each once,
\* in the order of their first broadcasts, up to the size of the list.  (About one call;
\* CallsAccumulate in DiscoveryRepeated is about several.)
ListIsWhatWasHeard ==
    pc = "idle" /\ result > 0 =>
        LET heard == [i \in 1 .. result |-> list[i]] IN
        /\ IsInjective(heard)
        /\ result = Cardinality(ToSet(drained)) \/ result = MaxDevices
        /\ \A i \in 1 .. result : \E n \in DOMAIN drained :
              /\ drained[n] = heard[i]
              /\ ToSet(SubSeq(drained, 1, n - 1)) = {heard[j] : j \in 1 .. i - 1}

\* The newest addresses in the map, as many as it has entries.
Newest == {assigned[i] : i \in {k \in DOMAIN assigned : k > Len(assigned) - MaxDevices}}

\* The devices that got a port last, as many as there are ports, are told different
\* ports, also when starts fail and devices leave and come again in between.  While
\* there is an entry for every device a port is kept for good.  On Windows the host
\* listens where the device was told to send.  (On Linux and Android every socket
\* is bound to the first port.)
NewestHaveOwnPorts ==
    /\ \A a, b \in Newest : socket[a] # 0 /\ socket[b] # 0 /\ a # b => told[a] # told[b]
    /\ Len(assigned) <= MaxDevices =>
         \A i \in DOMAIN assigned : told[assigned[i]] \in {0, FirstPort + i - 1}
    /\ platform = "windows" => \A a \in Addresses : socket[a] \in {0, told[a]}
=============================================================================

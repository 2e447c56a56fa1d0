------------------------- MODULE DiscoveryRepeated --------------------------
(***************************************************************************)
(* Discovery by a program that calls fs_obtain_network_devices_list again  *)
(* and again with the same list, as its documentation invites it to.       *)
(***************************************************************************)
EXTENDS Discovery

VARIABLE known      \* History: the devices that a call which succeeded has listed

repeatedVars == <<discoveryVars, known>>

RepeatedInit == DiscoveryInit /\ known = {}

\* The devices in the part of the list that a call says it has filled.
Reported == {list'[i] : i \in 1 .. result'}

RepeatedNext ==
    /\ DiscoveryNext
    /\ known' = IF pc # "idle" /\ pc' = "idle" THEN known \cup Reported ELSE known

RepeatedSpec == RepeatedInit /\ [][RepeatedNext]_repeatedVars

\* Violated by the code: repeated calls accumulate newly discovered devices in the list
\* until it is full (discovery.rst:34, FS_Trifecta.h:40), so that between two calls a
\* device that was listed once is still in the list, or the list has no room left.
\* (Every call fills the list from its first entry on.)
CallsAccumulate ==
    pc = "idle" => \/ known \subseteq ToSet(list)
                   \/ NoAddress \notin ToSet(list)
=============================================================================

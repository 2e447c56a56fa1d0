--------------------------- MODULE MCSaveSession ----------------------------
(***************************************************************************)
(* Instances of SaveSession for TLC: one device that sends MaxPackets      *)
(* packets, so that the ring goes round, or every device, with one packet  *)
(* less.                                                                   *)
(***************************************************************************)
EXTENDS SaveSession

VARIABLE part

MCInit == Init /\ part \in {"one device", "devices"}

\* Bounds: the program of the one device ends no session but by fs_save_init, that of
\* more devices does not call it.
MCNext ==
    /\ Next /\ part' = part
    /\ part = "one device" =>
         /\ adev' = AnyDevice
         /\ ~ \E s \in Savers : CallDestroy(s) \/ \E d \in Devices : CallEnd(s, d)
    /\ part = "devices" => Len(from') < MaxPackets /\ ~ \E s \in Savers : CallInit(s)

MCSpec == MCInit /\ [][MCNext]_<<vars, part>> /\ Fairness
=============================================================================

----------------------------- MODULE MCReceived -----------------------------
(***************************************************************************)
(* PacketQueue, DecodeBuffer and Discovery for TLC: what becomes of the    *)
(* packets and the broadcasts that the host receives.  They share no       *)
(* state, so an instance is one of them, part, and the others stay as they *)
(* begin.                                                                  *)
(***************************************************************************)
EXTENDS PacketQueue, DecodeBuffer, Discovery

\* Bound: the frames a network device sends, which shares its buffer with none.
NetworkFrames == 1

VARIABLE part

\* Neither addresses nor serial devices differ in anything but their names.
Symmetry == Permutations(Addresses) \cup Permutations(Serial)

\* The decode buffer and the platform matter to one part each.
MCInit ==
    /\ Init /\ DecodeInit /\ DiscoveryInit
    /\ part \in {"queue", "decoding", "discovery"}
    /\ part # "decoding" => shared = Whole(CHOOSE d \in Devices : TRUE, 0)
    /\ part # "discovery" => platform = "linux"

MCNext ==
    /\ part' = part
    /\ \/ part = "queue" /\ Next /\ UNCHANGED <<decodeVars, discoveryVars>>
       \/ /\ part = "decoding" /\ DecodeNext /\ UNCHANGED <<vars, discoveryVars>>
          /\ \A d \in Devices \ Serial : frames'[d] <= NetworkFrames
       \/ part = "discovery" /\ DiscoveryNext /\ UNCHANGED <<vars, decodeVars>>

MCSpec == MCInit /\ [][MCNext]_<<vars, decodeVars, discoveryVars, part>>
=============================================================================
